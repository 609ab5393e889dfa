------------------------------ MODULE CrawlJob ------------------------------
(* What a crawl promises to the client that polls GET /v1/crawlers/:id,
   whatever kind of crawl it is (registry.go or k8s.go): its row in crawler_pa
   moves forward through the published statuses, images are scanned in
   between, each at most once, and the row reaches a final status only when no
   scan is in flight and, if it reports a number of images, with the number of
   scans that ended.

   RegistryCrawl and K8sCrawl implement this specification.  A crawl may stop
   at any point (a failed write to the database, the end of the process): that
   is stuttering here, so this module promises safety only. *)
EXTENDS Naturals, FiniteSets

CONSTANTS
    Image,      \* what a crawl can scan
    NoTotal     \* the row reports no number of images (not a number)

VARIABLES
    status,     \* the status column of the crawl's row
    total,      \* the number of images the row's summary reports
    running,    \* the images being scanned
    done        \* the images whose scan has ended, well or badly

vars == <<status, total, running, done>>

\* The statuses in the order the code writes them.
Rank == [s \in {"initializing", "started", "getting containers",
                "scanning containers", "finished", "error"} |->
            CASE s = "initializing"        -> 0
              [] s = "started"             -> 1
              [] s = "getting containers"  -> 2
              [] s = "scanning containers" -> 3
              [] OTHER                     -> 4]

Final == {"finished", "error"}

TypeOK ==
    /\ status \in DOMAIN Rank
    /\ total \in Nat \cup {NoTotal}
    /\ running \subseteq Image
    /\ done \subseteq Image

Init ==
    /\ status = "initializing"
    /\ total = NoTotal
    /\ running = {}
    /\ done = {}

\* The crawl enters its next phase.
Advance(s) ==
    /\ Rank[status] < Rank[s]
    /\ s \notin Final
    /\ status' = s
    /\ UNCHANGED <<total, running, done>>

BeginScan(i) ==
    /\ status \notin Final \cup {"initializing"}
    /\ i \notin running \cup done
    /\ running' = running \cup {i}
    /\ UNCHANGED <<status, total, done>>

EndScan(i) ==
    /\ i \in running
    /\ running' = running \ {i}
    /\ done' = done \cup {i}
    /\ UNCHANGED <<status, total>>

\* The crawl reports its outcome; a report with a summary counts every scan.
Report(s) ==
    /\ status \notin Final \cup {"initializing"}
    /\ s \in Final
    /\ running = {}
    /\ status' = s
    /\ total' \in {NoTotal, Cardinality(done)}
    /\ UNCHANGED <<running, done>>

Next ==
    \/ \E s \in DOMAIN Rank : Advance(s) \/ Report(s)
    \/ \E i \in Image : BeginScan(i) \/ EndScan(i)

Spec == Init /\ [][Next]_vars
=============================================================================
