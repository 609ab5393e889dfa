--------------------------- MODULE RegistryCrawl ---------------------------
(* One crawl of a Docker registry: crawler.Registry (pkg/crawler/registry.go)
   receives image envelopes from the goroutine docker.Crawl
   (pkg/docker/docker.go) over a buffered channel and starts one worker
   goroutine per image, as many at a time as the channel sem has slots.  The
   crawl's row in table crawler_pa is all that a client sees of it.

   An image is the pair <<repo, tag>> its envelope was fetched from.  Calls that
   leave the process (registry, database, Clair) return with any outcome; the
   order in which the registry lists repositories and tags is the registry's
   choice.  Scanning one image is a step here and is detailed in ImageScan. *)
EXTENDS Integers, Sequences, FiniteSets

CONSTANTS
    Repo,           \* the repositories a registry may list
    Tag,            \* the tags a repository may list
    Request,        \* the requests a client may send to POST /v1/crawlers/registry
    ChanCap,        \* the capacity of the channel of images (50 in the code)
    ErrorEnvelope   \* an envelope that carries an error in place of an image

Image == Repo \X Tag

ASSUME FiniteAssumption == IsFiniteSet(Repo) /\ IsFiniteSet(Tag)

ASSUME RequestAssumption ==
    \A r \in Request :
        r \in [repos : SUBSET Repo, tags : SUBSET Tag, maxThreads : Nat]

ASSUME ChanCapAssumption == ChanCap \in Nat \ {0}

ASSUME ErrorEnvelopeAssumption == ErrorEnvelope \notin Image

VARIABLES
    request,    \* the crawl's filters and MaxThreads; never changes
    up,         \* the process is running
    row,        \* the crawl's row in crawler_pa
    \* -- the goroutine running Registry
    pc,         \* where it is
    image,      \* the envelope its loop is at
    regError,   \* variable regError is set
    err,        \* variable err, shared with every worker: it holds an error
    \* -- the goroutine running docker.Crawl
    crawl,      \* where it is
    repos,      \* the repositories it has not looked at yet
    repo,       \* the repository it lists the tags of
    tags,       \* the tags of that repository it has not looked at yet
    fetched,    \* the image it is about to send
    \* -- the workers and what they share
    worker,     \* where the worker of each image is
    images,     \* the channel of envelopes
    closed,     \* that channel is closed
    sem,        \* the number of items in channel sem
    wg,         \* the counter of the wait group
    total,      \* totalDockerImages
    failed,     \* failedScan
    \* -- observed, not part of the program
    sent,       \* the images sent down the channel
    bad         \* the images whose scan returned an error

mainVars    == <<pc, image, regError>>
crawlVars   == <<crawl, repos, repo, tags, fetched>>
chanVars    == <<images, closed>>
workerVars  == <<worker, total, failed, bad>>
vars == <<request, up, row, mainVars, err, crawlVars, workerVars, chanVars, sem, wg, sent>>

\* The pseudo-total of a row without a summary.
NoTotal == -1

Row == [status : {"initializing", "started", "finished"}, error : BOOLEAN,
        total : Nat \cup {NoTotal}, failed : Nat]

WorkerState == {"none", "scan", "check", "log", "done", "release", "gone"}

\* The workers that hold an item of sem, and those the wait group counts.
Holding  == {i \in Image : worker[i] \in {"scan", "check", "log", "done", "release"}}
Awaited  == {i \in Image : worker[i] \in {"scan", "check", "log", "done"}}
Scanning == {i \in Image : worker[i] = "scan"}
Scanned  == {i \in Image : worker[i] \in {"check", "log", "done", "release", "gone"}}

\* An empty filter selects everything.
Selected(x, filter) == filter = {} \/ x \in filter

TypeOK ==
    /\ request \in Request
    /\ up \in BOOLEAN
    /\ row \in Row
    /\ pc \in {"start", "receive", "acquire", "report", "returned"}
    /\ image \in Image \cup {ErrorEnvelope}
    /\ regError \in BOOLEAN
    /\ err \in BOOLEAN
    /\ crawl \in {"unborn", "connect", "catalog", "repo", "tag", "send", "error",
                  "close", "exited"}
    /\ repos \subseteq Repo
    /\ repo \in Repo \cup {ErrorEnvelope}
    /\ tags \subseteq Tag
    /\ fetched \in Image \cup {ErrorEnvelope}
    /\ worker \in [Image -> WorkerState]
    /\ images \in Seq(Image \cup {ErrorEnvelope})
    /\ closed \in BOOLEAN
    /\ sem \in Nat
    /\ wg \in Nat
    /\ total \in Nat
    /\ failed \in Nat
    /\ sent \subseteq Image
    /\ bad \subseteq Image

\* The row as InsertCrawler wrote it, the crawl's goroutine just started.
Init ==
    /\ request \in Request
    /\ up = TRUE
    /\ row = [status |-> "initializing", error |-> FALSE, total |-> NoTotal, failed |-> 0]
    /\ pc = "start"
    /\ image = ErrorEnvelope
    /\ regError = FALSE
    /\ err = FALSE
    /\ crawl = "unborn"
    /\ repos = {} /\ repo = ErrorEnvelope /\ tags = {} /\ fetched = ErrorEnvelope
    /\ worker = [i \in Image |-> "none"]
    /\ images = <<>> /\ closed = FALSE
    /\ sem = 0 /\ wg = 0
    /\ total = 0 /\ failed = 0
    /\ sent = {} /\ bad = {}

-----------------------------------------------------------------------------
(* The goroutine running Registry. *)

\* UpdateCrawler: the row is written and the call succeeds; or it fails, before
\* or after the database applied it.
UpdateCrawler(new, ok) ==
    \/ /\ row' = new
    \/ /\ ~ok
       /\ row' = row

\* The crawl is marked started; without that nothing else is done.
MainStart ==
    /\ pc = "start"
    /\ \E ok \in BOOLEAN :
        /\ UpdateCrawler([row EXCEPT !.status = "started"], ok)
        /\ err' = ~ok
        /\ pc' = IF ok THEN "receive" ELSE "returned"
        /\ crawl' = IF ok THEN "connect" ELSE "unborn"
    /\ UNCHANGED <<request, up, image, regError, repos, repo, tags, fetched, workerVars,
                   chanVars, sem, wg, sent>>

\* MUTANT of MainReceive: an empty channel ends the loop, closed or not.
MainReceiveNoBlock ==
    /\ pc = "receive"
    /\ \/ /\ images # <<>>
          /\ image' = Head(images)
          /\ images' = Tail(images)
          /\ pc' = "acquire"
       \/ /\ images = <<>>
          /\ pc' = "report"
          /\ UNCHANGED <<image, images>>
    /\ UNCHANGED <<request, up, row, regError, err, crawlVars, workerVars, closed, sem, wg,
                   sent>>

\* The loop over the channel: the next envelope, or the end of the loop once the
\* channel is closed and empty.
MainReceive ==
    /\ pc = "receive"
    /\ \/ /\ images # <<>>
          /\ image' = Head(images)
          /\ images' = Tail(images)
          /\ pc' = "acquire"
       \/ /\ images = <<>>
          /\ closed
          /\ pc' = "report"
          /\ UNCHANGED <<image, images>>
    /\ UNCHANGED <<request, up, row, regError, err, crawlVars, workerVars, closed, sem, wg,
                   sent>>

\* MUTANT of MainAcquire: sem has one slot too many.
MainAcquireOneMore ==
    /\ pc = "acquire"
    /\ sem <= request.maxThreads
    /\ sem' = sem + 1
    /\ \/ /\ image = ErrorEnvelope
          /\ regError' = TRUE
          /\ pc' = "report"
          /\ UNCHANGED <<wg, worker>>
       \/ /\ image # ErrorEnvelope
          /\ wg' = wg + 1
          /\ worker' = [worker EXCEPT ![image] = "scan"]
          /\ pc' = "receive"
          /\ UNCHANGED regError
    /\ UNCHANGED <<request, up, row, image, err, crawlVars, total, failed, bad, chanVars,
                   sent>>

\* sem takes an item, which blocks while it is full (for good if it has no
\* capacity: only a worker takes items out); then a worker starts, or an error
\* ends the loop.
MainAcquire ==
    /\ pc = "acquire"
    /\ sem < request.maxThreads
    /\ sem' = sem + 1
    /\ \/ /\ image = ErrorEnvelope
          /\ regError' = TRUE
          /\ pc' = "report"
          /\ UNCHANGED <<wg, worker>>
       \/ /\ image # ErrorEnvelope
          /\ wg' = wg + 1
          /\ worker' = [worker EXCEPT ![image] = "scan"]
          /\ pc' = "receive"
          /\ UNCHANGED regError
    /\ UNCHANGED <<request, up, row, image, err, crawlVars, total, failed, bad, chanVars,
                   sent>>

\* The row the crawl ends with: an error, or the counts of its workers.
FinalRow ==
    IF regError THEN [row EXCEPT !.status = "finished", !.error = TRUE]
    ELSE [row EXCEPT !.status = "finished", !.total = total, !.failed = failed]

\* MUTANT of MainReport: the wait group is not waited for.
MainReportEarly ==
    /\ pc = "report"
    /\ \E ok \in BOOLEAN :
        /\ UpdateCrawler(FinalRow, ok)
        /\ err' = ~ok
    /\ pc' = "returned"
    /\ UNCHANGED <<request, up, image, regError, crawlVars, workerVars, chanVars, sem, wg,
                   sent>>

\* Once the wait group is at zero the outcome is written and Registry returns.
\* That closes sem, on which nothing blocks afterwards.
MainReport ==
    /\ pc = "report"
    /\ wg = 0
    /\ \E ok \in BOOLEAN :
        /\ UpdateCrawler(FinalRow, ok)
        /\ err' = ~ok
    /\ pc' = "returned"
    /\ UNCHANGED <<request, up, image, regError, crawlVars, workerVars, chanVars, sem, wg,
                   sent>>

Main == MainStart \/ MainReceive \/ MainAcquire \/ MainReport

-----------------------------------------------------------------------------
(* The worker of image i. *)

\* MUTANT of WorkerScan: the slot is given back as soon as the scan returns.
WorkerScanReleases(i) ==
    /\ worker[i] = "scan"
    /\ \E e \in BOOLEAN :
        /\ err' = e
        /\ bad' = IF e THEN bad \cup {i} ELSE bad
    /\ total' = total + 1
    /\ sem' = sem - 1
    /\ worker' = [worker EXCEPT ![i] = "check"]
    /\ UNCHANGED <<request, up, row, mainVars, crawlVars, failed, chanVars, wg, sent>>

\* ScanImage returns, and its error goes to the err of the enclosing function:
\* every worker writes the same variable.
WorkerScan(i) ==
    /\ worker[i] = "scan"
    /\ \E e \in BOOLEAN :
        /\ err' = e
        /\ bad' = IF e THEN bad \cup {i} ELSE bad
    /\ total' = total + 1
    /\ worker' = [worker EXCEPT ![i] = "check"]
    /\ UNCHANGED <<request, up, row, mainVars, crawlVars, failed, chanVars, sem, wg, sent>>

WorkerCheck(i) ==
    /\ worker[i] = "check"
    /\ worker' = [worker EXCEPT ![i] = IF err THEN "log" ELSE "done"]
    /\ UNCHANGED <<request, up, row, mainVars, err, crawlVars, total, failed, bad, chanVars,
                   sem, wg, sent>>

\* MUTANT of WorkerLog: the failure branch returns before wg.Done.
WorkerLogReturns(i) ==
    /\ worker[i] = "log"
    /\ failed' = failed + 1
    /\ worker' = [worker EXCEPT ![i] = "release"]
    /\ UNCHANGED <<request, up, row, mainVars, err, crawlVars, total, bad, chanVars, sem, wg,
                   sent>>

\* The failure is logged and counted.
WorkerLog(i) ==
    /\ worker[i] = "log"
    /\ failed' = failed + 1
    /\ worker' = [worker EXCEPT ![i] = "done"]
    /\ UNCHANGED <<request, up, row, mainVars, err, crawlVars, total, bad, chanVars, sem, wg,
                   sent>>

\* err.Error() when another worker has set err to nil since the check: unless
\* the compiled code still holds the value it checked (WorkerLog), the
\* unrecovered panic ends the process.
WorkerPanic(i) ==
    /\ worker[i] = "log"
    /\ ~err
    /\ up' = FALSE
    /\ UNCHANGED <<request, row, mainVars, err, crawlVars, workerVars, chanVars, sem, wg, sent>>

WorkerDone(i) ==
    /\ worker[i] = "done"
    /\ wg' = wg - 1
    /\ worker' = [worker EXCEPT ![i] = "release"]
    /\ UNCHANGED <<request, up, row, mainVars, err, crawlVars, total, failed, bad, chanVars,
                   sem, sent>>

\* The deferred receive from sem: it blocks while sem is open and empty.
WorkerRelease(i) ==
    /\ worker[i] = "release"
    /\ sem > 0 \/ pc = "returned"
    /\ sem' = IF sem > 0 THEN sem - 1 ELSE 0
    /\ worker' = [worker EXCEPT ![i] = "gone"]
    /\ UNCHANGED <<request, up, row, mainVars, err, crawlVars, total, failed, bad, chanVars,
                   wg, sent>>

Worker(i) ==
    \/ WorkerScan(i) \/ WorkerCheck(i) \/ WorkerLog(i) \/ WorkerPanic(i)
    \/ WorkerDone(i) \/ WorkerRelease(i)

-----------------------------------------------------------------------------
(* The goroutine running docker.Crawl. *)

\* registry.New, which pings the registry.
CrawlConnect ==
    /\ crawl = "connect"
    /\ crawl' \in {"catalog", "error"}
    /\ UNCHANGED <<request, up, row, mainVars, err, repos, repo, tags, fetched, workerVars,
                   chanVars, sem, wg, sent>>

\* hub.Repositories
CrawlCatalog ==
    /\ crawl = "catalog"
    /\ \/ /\ repos' \in SUBSET Repo
          /\ crawl' = "repo"
       \/ /\ crawl' = "error"
          /\ UNCHANGED repos
    /\ UNCHANGED <<request, up, row, mainVars, err, repo, tags, fetched, workerVars, chanVars,
                   sem, wg, sent>>

\* The next repository, and hub.Tags if the request selects it; the channel is
\* closed after the last one.
CrawlRepo ==
    /\ crawl = "repo"
    /\ \/ \E r \in repos :
            /\ repos' = repos \ {r}
            /\ \/ /\ Selected(r, request.repos)
                  /\ \/ /\ repo' = r
                        /\ tags' \in SUBSET Tag
                        /\ crawl' = "tag"
                     \/ /\ crawl' = "error"
                        /\ UNCHANGED <<repo, tags>>
               \/ /\ ~Selected(r, request.repos)
                  /\ UNCHANGED <<crawl, repo, tags>>
            /\ UNCHANGED closed
       \/ /\ repos = {}
          /\ closed' = TRUE
          /\ crawl' = "exited"
          /\ UNCHANGED <<repos, repo, tags>>
    /\ UNCHANGED <<request, up, row, mainVars, err, fetched, workerVars, images, sem, wg, sent>>

\* The next tag, and GetImage if the request selects it; an image that cannot
\* be fetched is logged and left out.
CrawlTag ==
    /\ crawl = "tag"
    /\ \/ \E t \in tags :
            /\ tags' = tags \ {t}
            /\ \/ /\ Selected(t, request.tags)
                  /\ fetched' = <<repo, t>>
                  /\ crawl' = "send"
               \/ UNCHANGED <<crawl, fetched>>
       \/ /\ tags = {}
          /\ crawl' = "repo"
          /\ UNCHANGED <<tags, fetched>>
    /\ UNCHANGED <<request, up, row, mainVars, err, repos, repo, workerVars, chanVars, sem, wg,
                   sent>>

\* A send blocks while the channel is full.
CrawlSend ==
    /\ crawl = "send"
    /\ Len(images) < ChanCap
    /\ images' = Append(images, fetched)
    /\ sent' = sent \cup {fetched}
    /\ crawl' = "tag"
    /\ UNCHANGED <<request, up, row, mainVars, err, repos, repo, tags, fetched, workerVars,
                   closed, sem, wg>>

\* MUTANT of CrawlSendError: an error does not end the crawl.
CrawlSendErrorContinue ==
    /\ crawl = "error"
    /\ Len(images) < ChanCap
    /\ images' = Append(images, ErrorEnvelope)
    /\ crawl' = "repo"
    /\ UNCHANGED <<request, up, row, mainVars, err, repos, repo, tags, fetched, workerVars,
                   closed, sem, wg, sent>>

\* The one error envelope of a crawl, then the end of it.
CrawlSendError ==
    /\ crawl = "error"
    /\ Len(images) < ChanCap
    /\ images' = Append(images, ErrorEnvelope)
    /\ crawl' = "close"
    /\ UNCHANGED <<request, up, row, mainVars, err, repos, repo, tags, fetched, workerVars,
                   closed, sem, wg, sent>>

CrawlClose ==
    /\ crawl = "close"
    /\ closed' = TRUE
    /\ crawl' = "exited"
    /\ UNCHANGED <<request, up, row, mainVars, err, repos, repo, tags, fetched, workerVars,
                   images, sem, wg, sent>>

Crawl ==
    \/ CrawlConnect \/ CrawlCatalog \/ CrawlRepo \/ CrawlTag
    \/ CrawlSend \/ CrawlSendError \/ CrawlClose

-----------------------------------------------------------------------------
\* The process ends: a signal, a deployment, a panic elsewhere.  Nothing waits
\* for a crawl (see the stopper in cmd/serve.go) and nothing resumes it.
Crash ==
    /\ up' = FALSE
    /\ UNCHANGED <<request, row, mainVars, err, crawlVars, workerVars, chanVars, sem, wg, sent>>

\* Every goroutine of the crawl has ended.
Quiet ==
    /\ pc = "returned"
    /\ crawl \in {"unborn", "exited"}
    /\ \A i \in Image : worker[i] \in {"none", "gone"}

\* MaxThreads was left out of the request: sem is unbuffered, and no worker
\* receives from it before Registry has sent to it.
Stuck == pc = "acquire" /\ request.maxThreads = 0

\* Where the crawl may stop for good; TLC reports a deadlock anywhere else.
Stopped ==
    /\ ~up \/ Quiet \/ Stuck
    /\ UNCHANGED vars

Next ==
    \/ up /\ (Main \/ Crawl \/ Crash \/ \E i \in Image : Worker(i))
    \/ Stopped

\* Where a goroutine is in a call to the outside.  Nothing bounds such a call
\* (neither the http.Client of the registry nor that of AuthRegistry has a
\* Timeout), so it may never return.
MainCalls == pc = "start" \/ (pc = "report" /\ wg = 0)

CrawlCalls ==
    \/ crawl \in {"connect", "catalog"}
    \/ crawl = "repo" /\ \E r \in repos : Selected(r, request.repos)
    \/ crawl = "tag" /\ \E t \in tags : Selected(t, request.tags)

WorkerCalls(i) == worker[i] = "scan"

\* Goroutines that can run do; nothing is asked of the calls they make.
Fairness ==
    /\ WF_vars(up /\ ~MainCalls /\ Main)
    /\ WF_vars(up /\ ~CrawlCalls /\ Crawl)
    /\ \A i \in Image : WF_vars(up /\ ~WorkerCalls(i) /\ Worker(i))

Spec == Init /\ [][Next]_vars /\ Fairness

-----------------------------------------------------------------------------
(* Properties. *)

\* No more images are scanned at a time than the request's MaxThreads allows,
\* although slots are taken by one goroutine and given back by the others.
ScansBounded == Cardinality(Scanning) <= request.maxThreads

\* A summary in the row speaks for the whole crawl: the producer has ended, no
\* envelope is left in the channel, and every image it sent was scanned and
\* counted once.
SummaryIsComplete ==
    row.total # NoTotal =>
        /\ crawl = "exited" /\ images = <<>>
        /\ Scanned = sent
        /\ row.total = Cardinality(sent)

\* An error leaves no image behind: every image sent before the error was
\* scanned when the row reports the error, and nothing is sent after it.
ErrorIsLast ==
    row.error => Scanned = sent /\ images = <<>> /\ crawl \in {"close", "exited"}

\* The crawl implements what CrawlJob promises to its client.
Job == INSTANCE CrawlJob WITH
    status <- row.status, total <- row.total, running <- Awaited,
    done <- {i \in Image : worker[i] \in {"release", "gone"}}

JobSpec == Job!Spec

\* With one thread the shared err does no harm, since a worker keeps its slot until
\* it has read err for the last time: none meets a nil err where it logs the error,
\* which would end the process and every other crawl with it, and the failures the
\* summary counts are the scans that failed.
SharedErrIsHarmless ==
    request.maxThreads = 1 =>
        /\ \A i \in Image : worker[i] = "log" => err
        /\ row.total # NoTotal => row.failed = Cardinality(bad)

\* A crawl leaves no goroutine behind for a reason of its own: unless the process
\* ends or one call to the outside never returns, the row is reported, the
\* producer is not blocked on a channel nobody reads, and every worker has
\* released its slot.  The one exception is a crawl without a single slot.
EveryGoroutineEnds ==
    \/ <>(~up \/ Quiet)
    \/ <>[]MainCalls \/ <>[]CrawlCalls \/ \E i \in Image : <>[]WorkerCalls(i)
    \/ <>[]Stuck

\* REFUTED.  The summary reads "... with %d scan failures" (registry.go:118), yet
\* with two workers the err one of them checks may be the other's: a failure can
\* go uncounted and a success can be counted as a failure.
FailureCountIsExact == row.total # NoTotal => row.failed = Cardinality(bad)

-----------------------------------------------------------------------------
(* The invariant behind the properties, by the parts of the state it relates. *)

\* sem holds an item per worker that has not released its slot, and the item
\* taken for an error, which nobody takes out again; the wait group counts the
\* workers before their Done, totalDockerImages those whose scan returned.
CountInv ==
    /\ sem = Cardinality(Holding) + (IF regError THEN 1 ELSE 0)
    /\ sem <= request.maxThreads
    /\ wg = Cardinality(Awaited)
    /\ total = Cardinality(Scanned)

\* The producer never comes back to an image it has sent.
ProducerInv ==
    /\ crawl \in {"unborn", "connect", "catalog"} => sent = {}
    /\ crawl \in {"tag", "send"} => repo \in Repo \ repos
    /\ crawl = "send" =>
        fetched \in Image \ sent /\ fetched[1] = repo /\ fetched[2] \notin tags
    /\ \A i \in sent :
        i[1] \notin repos /\ (crawl \in {"tag", "send"} /\ i[1] = repo => i[2] \notin tags)

\* An image that was sent is in the channel, in the hand of the loop or with its
\* worker, and in one of them only.
ChannelInv ==
    /\ \A k \in 1..Len(images) :
        images[k] # ErrorEnvelope => images[k] \in sent /\ worker[images[k]] = "none"
    /\ \A j, k \in 1..Len(images) : images[j] = images[k] => j = k
    /\ pc = "acquire" /\ image # ErrorEnvelope =>
        /\ image \in sent /\ worker[image] = "none"
        /\ \A k \in 1..Len(images) : images[k] # image
    /\ \A i \in Image : worker[i] # "none" => i \in sent
    /\ \A i \in sent : \/ worker[i] # "none"
                       \/ pc = "acquire" /\ image = i
                       \/ \E k \in 1..Len(images) : images[k] = i

\* An error is the last thing the producer sends, and the loop ends only with it
\* or with the channel closed and empty.
EndInv ==
    /\ closed <=> crawl = "exited"
    /\ \A k \in 1..Len(images) :
        images[k] = ErrorEnvelope => k = Len(images) /\ crawl \in {"close", "exited"}
    /\ pc = "acquire" /\ image = ErrorEnvelope =>
        images = <<>> /\ crawl \in {"close", "exited"}
    /\ regError => pc \in {"report", "returned"} /\ crawl # "unborn"
    /\ pc = "start" => crawl = "unborn"
    /\ crawl = "unborn" => images = <<>> /\ pc \in {"start", "returned"}
    /\ pc \in {"report", "returned"} =>
        /\ images = <<>> /\ crawl \in {"close", "exited", "unborn"}
        /\ crawl = "close" => regError

\* The row says finished only after the wait group was waited for, and its
\* summary holds the counters, which do not move any more.
RowInv ==
    /\ row.status # "finished" => row.total = NoTotal /\ ~row.error
    /\ pc = "start" => row.status = "initializing"
    /\ pc \in {"receive", "acquire", "report"} => row.status = "started"
    /\ row.status = "finished" => pc = "returned" /\ wg = 0 /\ crawl # "unborn"
    /\ row.total # NoTotal => ~regError /\ row.total = total /\ row.failed = failed

\* With one thread, err is the result of the one scan under way and failed
\* counts every bad scan that is past its log line.
SequentialInv ==
    /\ \A i \in Image : worker[i] \in {"none", "scan"} => i \notin bad
    /\ request.maxThreads = 1 =>
        /\ \A i \in Image : worker[i] \in {"check", "log"} => (err <=> i \in bad)
        /\ \A i \in Image : worker[i] = "log" => err
        /\ failed = Cardinality({i \in bad : worker[i] \notin {"check", "log"}})

IInv ==
    /\ TypeOK /\ CountInv /\ ProducerInv /\ ChannelInv /\ EndInv /\ RowInv
    /\ SequentialInv
=============================================================================
