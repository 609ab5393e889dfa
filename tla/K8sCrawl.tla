------------------------------ MODULE K8sCrawl ------------------------------
(* One crawl of a Kubernetes cluster: crawler.K8s (pkg/crawler/k8s.go).  It
   lists the containers of every namespace and records each in container_pa (see
   Inventory for the table); if the request says so it then scans their images,
   one worker goroutine per distinct image digest, as many at a time as channel
   sem has slots.

   A container status is a record of what its image path and image id parse to.
   Calls that leave the process return with any outcome, or never. *)
EXTENDS Integers, Sequences, FiniteSets, Functions

CONSTANTS
    Namespace,      \* the namespaces a cluster may have
    Container,      \* the container statuses that occur in it
    Listing,        \* what the pods of a namespace may list: sets of sequences
    NoDigest,       \* the empty string ParseImageDigest yields for other image ids
    RegAuth,        \* the registry URLs that an entry of the regauth config covers
    Request         \* the requests a client may send to POST /v1/crawlers/k8s

\* The number of slots when the request gives none.
DefaultThreads == 10

\* Which of the strings the code looks for in it the registry contains is a field
\* of its own.  The kubelet writes "docker-pullable://" only before a repository
\* digest, and no digest is empty.
ASSUME ContainerAssumption ==
    /\ IsFiniteSet(Container)
    /\ \A c \in Container :
        /\ DOMAIN c = {"name", "registry", "contains", "scheme", "pinned", "digest"}
        /\ c.contains \subseteq {"docker.io", "gcr.io", "http"}
        /\ c.scheme = "docker-pullable" => c.pinned
        /\ c.digest # NoDigest

ASSUME RequestAssumption ==
    \A r \in Request : r \in [scan : BOOLEAN, maxThreads : Nat]

ASSUME ListingAssumption == Listing \in [Namespace -> SUBSET Seq(Container)]

VARIABLES
    request,    \* Scan and MaxThreads; never changes
    up,         \* the process is running
    row,        \* the crawl's row in crawler_pa
    \* -- the goroutine running K8s
    pc,         \* where it is
    namespaces, \* the namespaces it has not listed yet
    statuses,   \* the container statuses of the namespace it is at
    containers, \* the containers it has recorded
    queue,      \* the positions in containers it has yet to start a worker for
    err,        \* variable err, shared with every worker: it holds an error
    \* -- the workers and what they share
    worker,     \* where the worker of each container is
    sem,        \* the number of items in channel sem
    wg,         \* the counter of the wait group
    count,      \* the counters scannedSuccess, scannedFailed and notScanned
    \* -- observed, not part of the program
    listed,     \* the containers the cluster listed
    bad         \* the containers whose scan returned an error

mainVars == <<pc, namespaces, statuses, containers, queue, listed>>
poolVars == <<worker, sem, wg, count, bad>>
vars == <<request, up, row, mainVars, err, poolVars>>

NoTotal == -1

Row == [status : {"initializing", "started", "getting containers", "scanning containers",
                  "finished", "error"},
        images : Nat \cup {NoTotal}, success : Nat, failed : Nat, skipped : Nat]

WorkerState == {"none", "start", "scan", "check", "done", "release", "gone"}

Holding  == {c \in Container : worker[c] \in {"start", "scan", "check", "done", "release"}}
Awaited  == {c \in Container : worker[c] \in {"start", "scan", "check", "done"}}
Scanning == {c \in Container : worker[c] = "scan"}
Handled  == {c \in Container : worker[c] # "none"}
Counted  == {c \in Container : worker[c] \in {"done", "release", "gone"}}

-----------------------------------------------------------------------------
(* What the code computes from a container status. *)

\* ParseImageDigest: "docker...@<digest>" or "docker://<digest>"; anything else
\* has no digest.  scheme is what the image id begins with, "docker://" or
\* "docker-pullable://", or another runtime's image id ("gcr.io/..@<digest>");
\* ids of the latter that begin with "docker.io/" would parse, and are left out.
Digest(c) ==
    IF \/ c.scheme \in {"docker", "docker-pullable"} /\ c.pinned
       \/ c.scheme = "docker"
    THEN c.digest ELSE NoDigest

\* GetStoredCredentials: the URL of the registry an image is pulled from, by what
\* its registry contains anywhere;
RegistryURL(c) ==
    IF "docker.io" \in c.contains \/ (c.scheme = "docker-pullable" /\ c.registry = "")
        THEN "https://registry-1.docker.io"
    ELSE IF "gcr.io" \in c.contains THEN "https://gcr.io"
    ELSE IF "http" \in c.contains THEN c.registry
    ELSE "https://" \o c.registry

\* and whether the configuration has credentials for it.
HasCredentials(c) == RegistryURL(c) \in RegAuth

\* MUTANT of RemoveDuplicates: containers are compared in place of digests.
RemoveSameContainers(s) == {i \in 1..Len(s) : \A j \in 1..(i - 1) : s[j] # s[i]}

\* removeDuplicates: the positions of what it keeps, the first container of each
\* digest.
RemoveDuplicates(s) == {i \in 1..Len(s) : \A j \in 1..(i - 1) : Digest(s[j]) # Digest(s[i])}

\* Where the loop over what it kept goes on.
First(positions) == CHOOSE i \in positions : \A j \in positions : i <= j

Slots == IF request.maxThreads = 0 THEN DefaultThreads ELSE request.maxThreads

-----------------------------------------------------------------------------
TypeOK ==
    /\ request \in Request
    /\ up \in BOOLEAN
    /\ row \in Row
    /\ pc \in {"start", "connect", "getting", "namespace", "status", "prepare", "acquire",
               "report", "failed", "returned"}
    /\ namespaces \subseteq Namespace
    /\ statuses \in Seq(Container) /\ containers \in Seq(Container)
    /\ queue \subseteq 1..Len(containers)
    /\ err \in BOOLEAN
    /\ worker \in [Container -> WorkerState]
    /\ sem \in Nat /\ wg \in Nat
    /\ count \in [success : Nat, failed : Nat, skipped : Nat]
    /\ listed \subseteq Container
    /\ bad \subseteq Container

\* The row as InsertCrawler wrote it, the crawl's goroutine just started.
Init ==
    /\ request \in Request
    /\ up = TRUE
    /\ row = [status |-> "initializing", images |-> NoTotal, success |-> 0, failed |-> 0,
              skipped |-> 0]
    /\ pc = "start"
    /\ namespaces = {} /\ statuses = <<>> /\ containers = <<>> /\ queue = {}
    /\ err = FALSE
    /\ worker = [c \in Container |-> "none"]
    /\ sem = 0 /\ wg = 0
    /\ count = [success |-> 0, failed |-> 0, skipped |-> 0]
    /\ listed = {} /\ bad = {}

-----------------------------------------------------------------------------
(* The goroutine running K8s, up to the scans. *)

\* UpdateCrawler: the row is written and the call succeeds; or it fails, before
\* or after the database applied it.
UpdateCrawler(new, ok) ==
    \/ row' = new
    \/ ~ok /\ row' = row

\* The row gets a status, and the goroutine goes on or elsewhere on failure.
UpdateStatus(s, next, otherwise) ==
    \E ok \in BOOLEAN :
        /\ UpdateCrawler([row EXCEPT !.status = s], ok)
        /\ err' = ~ok
        /\ pc' = IF ok THEN next ELSE otherwise

MainStart ==
    /\ pc = "start"
    /\ UpdateStatus("started", "connect", "returned")
    /\ UNCHANGED <<request, up, namespaces, statuses, containers, queue, listed,
                   poolVars>>

\* The client configuration, the client and the list of namespaces.
MainConnect ==
    /\ pc = "connect"
    /\ \/ /\ namespaces' \in SUBSET Namespace
          /\ pc' = "getting"
       \/ /\ pc' = "failed"
          /\ UNCHANGED namespaces
    /\ UNCHANGED <<request, up, row, statuses, containers, queue, listed, err,
                   poolVars>>

MainGetting ==
    /\ pc = "getting"
    /\ UpdateStatus("getting containers", "namespace", "failed")
    /\ UNCHANGED <<request, up, namespaces, statuses, containers, queue, listed,
                   poolVars>>

\* The next namespace: its pods and then the namespace itself are read, and
\* either may fail, for instance because it was deleted meanwhile.
MainNamespace ==
    /\ pc = "namespace"
    /\ \/ \E n \in namespaces :
            /\ namespaces' = namespaces \ {n}
            /\ \/ /\ statuses' \in Listing[n]
                  /\ listed' = listed \cup Range(statuses')
                  /\ pc' = "status"
               \/ /\ pc' = "failed"
                  /\ UNCHANGED <<statuses, listed>>
       \/ /\ namespaces = {}
          /\ pc' = IF request.scan THEN "prepare" ELSE "report"
          /\ UNCHANGED <<namespaces, statuses, listed>>
    /\ UNCHANGED <<request, up, row, containers, queue, err, poolVars>>

\* The next container status is recorded (GetContainer and UpsertContainer); or
\* one of the two calls fails.
MainStatus ==
    /\ pc = "status"
    /\ \/ /\ statuses # <<>>
          /\ statuses' = Tail(statuses)
          /\ \/ /\ containers' = Append(containers, Head(statuses))
                /\ UNCHANGED pc
             \/ /\ pc' = "failed"
                /\ UNCHANGED containers
       \/ /\ statuses = <<>>
          /\ pc' = "namespace"
          /\ UNCHANGED <<statuses, containers>>
    /\ UNCHANGED <<request, up, row, namespaces, queue, listed, err, poolVars>>

\* Any failure to list or to record the containers ends the crawl with an error.
MainFailed ==
    /\ pc = "failed"
    /\ UpdateStatus("error", "returned", "returned")
    /\ UNCHANGED <<request, up, namespaces, statuses, containers, queue, listed,
                   poolVars>>

-----------------------------------------------------------------------------
(* The goroutine running K8s, during the scans. *)

\* If the row cannot be marked as scanning, the crawl stops without an outcome.
MainPrepare ==
    /\ pc = "prepare"
    /\ queue' = RemoveDuplicates(containers)
    /\ UpdateStatus("scanning containers", "acquire", "returned")
    /\ UNCHANGED <<request, up, namespaces, statuses, containers, listed, poolVars>>

\* MUTANT of MainAcquire: sem has one slot too many.
MainAcquireOneMore ==
    /\ pc = "acquire"
    /\ \/ /\ queue # {}
          /\ sem <= Slots
          /\ sem' = sem + 1
          /\ wg' = wg + 1
          /\ worker' = [worker EXCEPT ![containers[First(queue)]] = "start"]
          /\ queue' = queue \ {First(queue)}
          /\ UNCHANGED pc
       \/ /\ queue = {}
          /\ pc' = "report"
          /\ UNCHANGED <<sem, wg, worker, queue>>
    /\ UNCHANGED <<request, up, row, namespaces, statuses, containers, listed, err,
                   count, bad>>

\* sem takes an item, which blocks while it is full, and the worker of the next
\* container starts.
MainAcquire ==
    /\ pc = "acquire"
    /\ \/ /\ queue # {}
          /\ sem < Slots
          /\ sem' = sem + 1
          /\ wg' = wg + 1
          /\ worker' = [worker EXCEPT ![containers[First(queue)]] = "start"]
          /\ queue' = queue \ {First(queue)}
          /\ UNCHANGED pc
       \/ /\ queue = {}
          /\ pc' = "report"
          /\ UNCHANGED <<sem, wg, worker, queue>>
    /\ UNCHANGED <<request, up, row, namespaces, statuses, containers, listed, err,
                   count, bad>>

\* The row a successful crawl ends with.
FinalRow ==
    IF request.scan
    THEN [row EXCEPT !.status = "finished", !.images = Cardinality(RemoveDuplicates(containers)),
                     !.success = count.success, !.failed = count.failed,
                     !.skipped = count.skipped]
    ELSE [row EXCEPT !.status = "finished", !.images = Len(containers)]

\* MUTANT of MainReport: the wait group is not waited for.
MainReportEarly ==
    /\ pc = "report"
    /\ \E ok \in BOOLEAN :
        /\ UpdateCrawler(FinalRow, ok)
        /\ err' = ~ok
    /\ pc' = "returned"
    /\ UNCHANGED <<request, up, namespaces, statuses, containers, queue, listed,
                   poolVars>>

\* Once the wait group is at zero the outcome is written and K8s returns, which
\* closes sem.
MainReport ==
    /\ pc = "report"
    /\ wg = 0
    /\ \E ok \in BOOLEAN :
        /\ UpdateCrawler(FinalRow, ok)
        /\ err' = ~ok
    /\ pc' = "returned"
    /\ UNCHANGED <<request, up, namespaces, statuses, containers, queue, listed,
                   poolVars>>

Main ==
    \/ MainStart \/ MainConnect \/ MainGetting \/ MainNamespace \/ MainStatus \/ MainFailed
    \/ MainPrepare \/ MainAcquire \/ MainReport

-----------------------------------------------------------------------------
(* The worker of container c. *)

\* MUTANT of WorkerStart: a skipped image returns before wg.Done.
WorkerStartReturns(c) ==
    /\ worker[c] = "start"
    /\ IF HasCredentials(c)
       THEN /\ worker' = [worker EXCEPT ![c] = "scan"]
            /\ UNCHANGED count
       ELSE /\ worker' = [worker EXCEPT ![c] = "release"]
            /\ count' = [count EXCEPT !.skipped = @ + 1]
    /\ UNCHANGED <<request, up, row, mainVars, err, sem, wg, bad>>

\* MUTANT of WorkerStart: every image is scanned, credentials or not, and
\* counted as skipped as well.
WorkerStartScansAll(c) ==
    /\ worker[c] = "start"
    /\ worker' = [worker EXCEPT ![c] = "scan"]
    /\ count' = IF HasCredentials(c) THEN count ELSE [count EXCEPT !.skipped = @ + 1]
    /\ UNCHANGED <<request, up, row, mainVars, err, sem, wg, bad>>

\* Without credentials for its registry the image is skipped.
WorkerStart(c) ==
    /\ worker[c] = "start"
    /\ IF HasCredentials(c)
       THEN /\ worker' = [worker EXCEPT ![c] = "scan"]
            /\ UNCHANGED count
       ELSE /\ worker' = [worker EXCEPT ![c] = "done"]
            /\ count' = [count EXCEPT !.skipped = @ + 1]
    /\ UNCHANGED <<request, up, row, mainVars, err, sem, wg, bad>>

\* ScanContainerImage returns (AuthRegistry, GetRegistry, GetImage, ScanImage),
\* and its error goes to the err of the enclosing function.
WorkerScan(c) ==
    /\ worker[c] = "scan"
    /\ \E e \in BOOLEAN :
        /\ err' = e
        /\ bad' = IF e THEN bad \cup {c} ELSE bad
    /\ worker' = [worker EXCEPT ![c] = "check"]
    /\ UNCHANGED <<request, up, row, mainVars, sem, wg, count>>

\* AuthRegistry dereferences the challenge of a 401 answer, which is nil if the
\* answer has none; nothing in this goroutine recovers.
WorkerPanic(c) ==
    /\ worker[c] = "scan"
    /\ up' = FALSE
    /\ UNCHANGED <<request, row, mainVars, err, poolVars>>

\* MUTANT of WorkerCheck: a failed scan is logged and not counted.
WorkerCheckLogsOnly(c) ==
    /\ worker[c] = "check"
    /\ count' = IF err THEN count ELSE [count EXCEPT !.success = @ + 1]
    /\ worker' = [worker EXCEPT ![c] = "done"]
    /\ UNCHANGED <<request, up, row, mainVars, err, sem, wg, bad>>

\* The scan is counted by what err holds now.
WorkerCheck(c) ==
    /\ worker[c] = "check"
    /\ count' = IF err THEN [count EXCEPT !.failed = @ + 1]
                ELSE [count EXCEPT !.success = @ + 1]
    /\ worker' = [worker EXCEPT ![c] = "done"]
    /\ UNCHANGED <<request, up, row, mainVars, err, sem, wg, bad>>

WorkerDone(c) ==
    /\ worker[c] = "done"
    /\ wg' = wg - 1
    /\ worker' = [worker EXCEPT ![c] = "release"]
    /\ UNCHANGED <<request, up, row, mainVars, err, sem, count, bad>>

\* MUTANT of WorkerRelease: the deferred function counts the wait group down again.
WorkerReleaseDone(c) ==
    /\ worker[c] = "release"
    /\ sem > 0 \/ pc = "returned"
    /\ sem' = IF sem > 0 THEN sem - 1 ELSE 0
    /\ wg' = wg - 1
    /\ worker' = [worker EXCEPT ![c] = "gone"]
    /\ UNCHANGED <<request, up, row, mainVars, err, count, bad>>

\* The deferred receive from sem: it blocks while sem is open and empty.
WorkerRelease(c) ==
    /\ worker[c] = "release"
    /\ sem > 0 \/ pc = "returned"
    /\ sem' = IF sem > 0 THEN sem - 1 ELSE 0
    /\ worker' = [worker EXCEPT ![c] = "gone"]
    /\ UNCHANGED <<request, up, row, mainVars, err, wg, count, bad>>

Worker(c) ==
    \/ WorkerStart(c) \/ WorkerScan(c) \/ WorkerPanic(c) \/ WorkerCheck(c)
    \/ WorkerDone(c) \/ WorkerRelease(c)

-----------------------------------------------------------------------------
\* The process ends for another reason; nothing resumes the crawl.
Crash ==
    /\ up' = FALSE
    /\ UNCHANGED <<request, row, mainVars, err, poolVars>>

\* Every goroutine of the crawl has ended.
Quiet == pc = "returned" /\ \A c \in Container : worker[c] \in {"none", "gone"}

Stopped ==
    /\ ~up \/ Quiet
    /\ UNCHANGED vars

Next ==
    \/ up /\ (Main \/ Crash \/ \E c \in Container : Worker(c))
    \/ Stopped

\* Where a goroutine is in a call to the outside.  Nothing bounds such a call (the
\* clients of the cluster, of the registries and of AuthRegistry have no timeout),
\* so it may never return.
MainCalls ==
    \/ pc \in {"start", "connect", "getting", "failed", "prepare"}
    \/ pc = "namespace" /\ namespaces # {}
    \/ pc = "status" /\ statuses # <<>>
    \/ pc = "report" /\ wg = 0

WorkerCalls(c) == worker[c] = "scan"

\* Goroutines that can run do; nothing is asked of the calls they make.
Fairness ==
    /\ WF_vars(up /\ ~MainCalls /\ Main)
    /\ \A c \in Container : WF_vars(up /\ ~WorkerCalls(c) /\ Worker(c))

Spec == Init /\ [][Next]_vars /\ Fairness

-----------------------------------------------------------------------------
(* Properties. *)

\* No more images are scanned at a time than the request, or the default, allows.
ScansBounded == Cardinality(Scanning) <= Slots

\* The summary of a scanning crawl adds up: every image of it was found
\* successful, failed or skipped, and skipped are those without credentials.
\* This holds although the workers count by an err they share.
SummaryAddsUp ==
    request.scan /\ row.images # NoTotal =>
        /\ row.images = row.success + row.failed + row.skipped
        /\ row.skipped = Cardinality({c \in Handled : ~HasCredentials(c)})

\* A finished scanning crawl has handled each digest that occurs in the cluster,
\* and each once; and as long as the image ids are those of the docker runtime, an
\* image is removed as a duplicate only if one of the same content was handled.
EachImageIsHandledOnce ==
    request.scan /\ row.status = "finished" => \A c \in listed :
        /\ Cardinality({d \in Handled : Digest(d) = Digest(c)}) = 1
        /\ c.scheme \in {"docker", "docker-pullable"} =>
            \E d \in Handled : d.digest = c.digest

\* With one thread the counts are exact.
SequentialCountIsExact ==
    request.maxThreads = 1 /\ request.scan /\ row.images # NoTotal =>
        row.failed = Cardinality(bad)

\* The crawl implements what CrawlJob promises to its client; the number of
\* images in its summary is the number of workers that ended.
Job == INSTANCE CrawlJob WITH
    Image <- Container, status <- row.status,
    total <- IF request.scan THEN row.images ELSE NoTotal,
    running <- Awaited,
    done <- {c \in Container : worker[c] \in {"release", "gone"}}

JobSpec == Job!Spec

\* A crawl leaves no goroutine behind for a reason of its own, whatever MaxThreads
\* is: unless the process ends or one call to the outside never returns, K8s
\* returns and every worker has released its slot.
EveryGoroutineEnds ==
    \/ <>(~up \/ Quiet)
    \/ <>[]MainCalls \/ \E c \in Container : <>[]WorkerCalls(c)

-----------------------------------------------------------------------------
(* The inductive invariant: what the steps of a crawl keep, and from which the
   safety properties above follow. *)

\* The counters count: sem and wg the workers that hold and await them, and the
\* three of the summary those that have been counted.
CountInv ==
    /\ sem = Cardinality(Holding) /\ sem <= Slots
    /\ wg = Cardinality(Awaited)
    /\ count.success + count.failed + count.skipped = Cardinality(Counted)
    /\ count.skipped = Cardinality({c \in Counted : ~HasCredentials(c)})

\* A crawl that has not given up has recorded what the cluster listed so far,
\* and nothing else.
ListInv ==
    pc \notin {"failed", "returned"} \/ row.status \in {"scanning containers", "finished"} =>
        listed = Range(containers) \cup (IF pc = "status" THEN Range(statuses) ELSE {})

\* A worker was started for each kept position that is not queued, and for
\* nothing else.
QueueInv ==
    /\ queue \subseteq RemoveDuplicates(containers)
    /\ pc \notin {"acquire", "returned"} => queue = {}
    /\ IF request.scan /\ row.status \in {"scanning containers", "finished"}
       THEN Handled = {containers[i] : i \in RemoveDuplicates(containers) \ queue}
       ELSE Handled = {}

RowInv ==
    /\ pc = "start" => row.status = "initializing"
    /\ pc \in {"connect", "getting"} => row.status = "started" /\ containers = <<>>
    /\ pc = "start" => containers = <<>>
    /\ pc \in {"namespace", "status", "prepare"} => row.status = "getting containers"
    /\ pc = "failed" => row.status \in {"started", "getting containers"}
    /\ pc \in {"prepare", "acquire"} => request.scan
    /\ pc = "acquire" => row.status = "scanning containers"
    /\ pc = "report" =>
        row.status = IF request.scan THEN "scanning containers" ELSE "getting containers"
    /\ row.status = "finished" => pc = "returned" /\ wg = 0 /\ queue = {}
    /\ row.images # NoTotal =>
        /\ row.status = "finished"
        /\ request.scan =>
            /\ row.images = Cardinality(RemoveDuplicates(containers))
            /\ row.success = count.success /\ row.failed = count.failed
            /\ row.skipped = count.skipped

\* Only images with credentials are scanned.
CredentialInv == \A c \in Container : worker[c] \in {"scan", "check"} => HasCredentials(c)

\* With one thread, err is the error of the scan that is about to be counted.
SequentialInv ==
    /\ \A c \in Container : worker[c] \in {"none", "start", "scan"} => c \notin bad
    /\ request.maxThreads = 1 =>
        /\ \A c \in Container : worker[c] = "check" => (err <=> c \in bad)
        /\ count.failed = Cardinality({c \in bad : worker[c] # "check"})

IInv ==
    /\ TypeOK /\ CountInv /\ ListInv /\ QueueInv /\ RowInv /\ CredentialInv
    /\ SequentialInv

-----------------------------------------------------------------------------
\* REFUTED.  k8s.go:75 says that removeDuplicates removes "duplicate container
\* images with the same content hash"; image ids of other runtimes than docker
\* parse to no digest, and all but one of those images are removed.
OnlySameContentIsRemoved ==
    request.scan /\ row.status = "finished" =>
        \A c \in listed : \E d \in Handled : d.digest = c.digest
=============================================================================
