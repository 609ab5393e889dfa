----------------------------- MODULE CrawlerApi -----------------------------
(* POST /v1/crawlers/:type and GET /v1/crawlers/:id (api/v1/routes.go) on the
   table crawler_pa: clients that start crawls and poll them, the handlers that
   go on when a client was already told that they timed out, the goroutines of
   the crawls, and a process that ends and is started again.

   A crawl is seen here by what it writes to its row; RegistryCrawl and K8sCrawl
   are what it does. *)
EXTENDS Naturals, FiniteSets

CONSTANTS
    Post,           \* the requests to start a crawl, one of each client
    type,           \* the type of crawl each asks for
    MaxRestarts,    \* how often the process ends
    None            \* no row, no id

\* Every request inserts at most one row.
Id == 1..Cardinality(Post)

Type == {"registry", "k8s"}

ASSUME PostAssumption == IsFiniteSet(Post) /\ type \in [Post -> Type]

ASSUME MaxRestartsAssumption == MaxRestarts \in Nat

VARIABLES
    rows,       \* table crawler_pa; messages and finished are NULL at first
    serial,     \* the last id given
    restarts,   \* how often the process ended
    crawl,      \* the goroutine of each crawl
    pc,         \* where the handler of each request is
    crawlerID,  \* its local variable: the id the database gave
    answer,     \* what its client was told
    seen        \* the status its client was told last

handlerVars == <<pc, crawlerID>>
clientVars == <<answer, seen>>
vars == <<rows, serial, restarts, crawl, handlerVars, clientVars>>

Status == {"initializing", "started", "getting containers", "scanning containers",
           "finished", "error"}

Final == {"finished", "error"}

\* The statuses in the order in which a crawl writes them, and those a registry
\* crawl writes.
Rank(status) ==
    CASE status = "initializing"        -> 0
      [] status = "started"             -> 1
      [] status = "getting containers"  -> 2
      [] status = "scanning containers" -> 3
      [] status \in Final               -> 4

RegistryStatus == {"started", "finished"}

Row == [type : Type, status : Status, null : BOOLEAN]

ASSUME NoneAssumption == None \notin Nat \cup Status \cup Row

TypeOK ==
    /\ rows \in [Id -> Row \cup {None}]
    /\ serial \in 0..Cardinality(Post)
    /\ restarts \in 0..MaxRestarts
    /\ crawl \in [Id -> {"unborn", "running", "stopped", "ended"}]
    /\ pc \in [Post -> {"idle", "auth", "insert", "go", "respond", "returned"}]
    /\ crawlerID \in [Post -> Id \cup {None}]
    /\ answer \in [Post -> {"none", "created", "bad request", "timeout", "lost"}]
    /\ seen \in [Post -> Status \cup {None}]

Init ==
    /\ rows = [i \in Id |-> None]
    /\ serial = 0
    /\ restarts = 0
    /\ crawl = [i \in Id |-> "unborn"]
    /\ pc = [p \in Post |-> "idle"]
    /\ crawlerID = [p \in Post |-> None]
    /\ answer = [p \in Post |-> "none"]
    /\ seen = [p \in Post |-> None]

Goto(p, label) == pc' = [pc EXCEPT ![p] = label]

\* A client that was told of the timeout is told nothing more.
Respond(p, what) ==
    answer' = IF answer[p] = "none" THEN [answer EXCEPT ![p] = what] ELSE answer

-----------------------------------------------------------------------------
(* The handler postCrawler. *)

\* The request is decoded; for a cluster its configuration is, and what does not
\* decode is refused.
Receive(p) ==
    /\ pc[p] = "idle"
    /\ \/ Goto(p, IF type[p] = "registry" THEN "auth" ELSE "insert") /\ UNCHANGED answer
       \/ Goto(p, "returned") /\ Respond(p, "bad request")
    /\ UNCHANGED <<rows, serial, restarts, crawl, crawlerID, seen>>

\* AuthRegistry gets the token that the crawl shares, or fails.
Auth(p) ==
    /\ pc[p] = "auth"
    /\ \/ Goto(p, "insert") /\ UNCHANGED answer
       \/ Goto(p, "returned") /\ Respond(p, "bad request")
    /\ UNCHANGED <<rows, serial, restarts, crawl, crawlerID, seen>>

\* InsertCrawler: a new row.
InsertCrawler(p) ==
    /\ serial' = serial + 1
    /\ rows' = [rows EXCEPT ![serial'] =
                [type |-> type[p], status |-> "initializing", null |-> TRUE]]

\* MUTANT of Insert: a failing insert is only logged.
InsertGoesOn(p) ==
    /\ pc[p] = "insert"
    /\ InsertCrawler(p) \/ UNCHANGED <<rows, serial>>
    /\ crawlerID' = [crawlerID EXCEPT ![p] = serial']
    /\ Goto(p, "go")
    /\ UNCHANGED <<restarts, crawl, clientVars>>

\* The row is inserted and its id known; or the call fails, after the row was
\* inserted or without that, and the request with it.
Insert(p) ==
    /\ pc[p] = "insert"
    /\ \/ /\ InsertCrawler(p)
          /\ crawlerID' = [crawlerID EXCEPT ![p] = serial']
          /\ Goto(p, "go")
          /\ UNCHANGED answer
       \/ /\ InsertCrawler(p) \/ UNCHANGED <<rows, serial>>
          /\ Goto(p, "returned")
          /\ Respond(p, "bad request")
          /\ UNCHANGED crawlerID
    /\ UNCHANGED <<restarts, crawl, seen>>

\* MUTANT of Go: a cluster crawl is run by the handler if it has the time.
GoRegistryOnly(p) ==
    /\ pc[p] = "go"
    /\ crawl' = [i \in Id |->
                    IF i = crawlerID[p] /\ type[p] = "registry" THEN "running" ELSE crawl[i]]
    /\ Goto(p, "respond")
    /\ UNCHANGED <<rows, serial, restarts, crawlerID, clientVars>>

\* The goroutine of the crawl is started.
Go(p) ==
    /\ pc[p] = "go"
    /\ crawl' = [i \in Id |-> IF i = crawlerID[p] THEN "running" ELSE crawl[i]]
    /\ Goto(p, "respond")
    /\ UNCHANGED <<rows, serial, restarts, crawlerID, clientVars>>

\* The client is told the id.
Created(p) ==
    /\ pc[p] = "respond"
    /\ Goto(p, "returned")
    /\ Respond(p, "created")
    /\ UNCHANGED <<rows, serial, restarts, crawl, crawlerID, seen>>

\* The TimeoutHandler answers; the handler goes on.
Timeout(p) ==
    /\ pc[p] \in {"auth", "insert", "go", "respond"}
    /\ answer[p] = "none"
    /\ answer' = [answer EXCEPT ![p] = "timeout"]
    /\ UNCHANGED <<rows, serial, restarts, crawl, handlerVars, seen>>

Handler(p) == Receive(p) \/ Auth(p) \/ Insert(p) \/ Go(p) \/ Created(p)

-----------------------------------------------------------------------------
(* A crawl. *)

\* MUTANT of UpdateCrawler: without its WHERE, the statement updates every row.
UpdateCrawlerAll(i, status) ==
    rows' = [j \in Id |-> IF rows[j] = None THEN None
                          ELSE [rows[j] EXCEPT !.status = status, !.null = FALSE]]

\* MUTANT of UpdateCrawler: only the status is written.
UpdateCrawlerStatusOnly(i, status) == rows' = [rows EXCEPT ![i].status = status]

\* UpdateCrawler writes status, messages and finished.
UpdateCrawler(i, status) ==
    rows' = [rows EXCEPT ![i].status = status, ![i].null = FALSE]

\* What the crawl of a row may write next: started first of all.
NextStatus(row) ==
    {s \in Status :
        /\ Rank(row.status) < Rank(s)
        /\ row.type = "registry" => s \in RegistryStatus
        /\ row.status = "initializing" => s = "started"}

\* The crawl writes its next status, and ends with its outcome.
Write(i) ==
    /\ crawl[i] = "running"
    /\ \E s \in NextStatus(rows[i]) :
        /\ UpdateCrawler(i, s)
        /\ crawl' = IF s \in Final THEN [crawl EXCEPT ![i] = "ended"] ELSE crawl
    /\ UNCHANGED <<serial, restarts, handlerVars, clientVars>>

\* A write fails, whether it took effect or not, and the crawl stops there.  (A
\* cluster crawl that goes on after a failed write is one that skips a status.)
WriteFails(i) ==
    /\ crawl[i] = "running"
    /\ UNCHANGED rows \/ \E s \in NextStatus(rows[i]) : UpdateCrawler(i, s)
    /\ crawl' = [crawl EXCEPT ![i] = "stopped"]
    /\ UNCHANGED <<serial, restarts, handlerVars, clientVars>>

\* The process ends, and all its goroutines with it; the next one does not know
\* of them.
Restart ==
    /\ restarts < MaxRestarts
    /\ restarts' = restarts + 1
    /\ crawl' = [i \in Id |-> IF crawl[i] = "running" THEN "stopped" ELSE crawl[i]]
    /\ pc' = [p \in Post |-> IF pc[p] = "idle" THEN "idle" ELSE "returned"]
    /\ answer' = [p \in Post |->
                    IF answer[p] = "none" /\ pc[p] # "idle" THEN "lost" ELSE answer[p]]
    /\ UNCHANGED <<rows, serial, crawlerID, seen>>

-----------------------------------------------------------------------------
(* A client that was told an id polls it. *)

\* GetCrawler reads the row into variables that cannot hold NULL.
GetCrawlerFails(i) == rows[i].null

\* The handler getCrawler tells the status.
Poll(p) ==
    /\ answer[p] = "created"
    /\ ~GetCrawlerFails(crawlerID[p])
    /\ seen' = [seen EXCEPT ![p] = rows[crawlerID[p]].status]
    /\ UNCHANGED <<rows, serial, restarts, crawl, handlerVars, answer>>

Over ==
    /\ \A p \in Post : pc[p] = "returned"
    /\ UNCHANGED vars

Next ==
    \/ \E p \in Post : Handler(p) \/ Timeout(p) \/ Poll(p)
    \/ \E i \in Id : Write(i) \/ WriteFails(i)
    \/ Restart \/ Over

\* No fairness: handlers and crawls make calls that may never return.
Spec == Init /\ [][Next]_vars

-----------------------------------------------------------------------------
(* Properties. *)

\* A client that was told an id was told that of its own crawl, and the crawl
\* was started: whatever timed out, failed or was started at the same time.
CreatedIsStarted ==
    \A p \in Post : answer[p] = "created" =>
        /\ crawlerID[p] \in Id
        /\ rows[crawlerID[p]] # None
        /\ rows[crawlerID[p]].type = type[p]
        /\ crawl[crawlerID[p]] # "unborn"
        /\ \A q \in Post \ {p} : crawlerID[q] # crawlerID[p]

\* The rows without an outcome that no crawl works on, or will once its handler
\* has started it, although no write of the crawl failed.
Abandoned ==
    {i \in Id :
        /\ rows[i] # None /\ rows[i].status \notin Final
        /\ crawl[i] = "unborn"
        /\ \A p \in Post : ~(pc[p] = "go" /\ crawlerID[p] = i)}

\* No client waits for nothing while all is well: until the process ends, each
\* abandoned row is the work of an insert that failed after it took effect, and
\* whose client was refused or had given up.
RowsAreWorkedOn ==
    restarts = 0 =>
        Cardinality(Abandoned) <=
            Cardinality({p \in Post : /\ pc[p] = "returned"
                                      /\ crawlerID[p] = None
                                      /\ answer[p] \in {"bad request", "timeout"}})

\* Polls of a crawl never show it go backwards, and an outcome that was shown
\* is shown from then on.
PollsGoForward ==
    [][\A p \in Post : seen[p] # None =>
        /\ Rank(seen[p]) <= Rank(seen'[p])
        /\ seen[p] \in Final => seen'[p] = seen[p]]_vars

-----------------------------------------------------------------------------
(* The inductive invariant: what every step keeps, and from which the safety
   properties above follow. *)

\* The requests that will insert no row any more.
Spent == {p \in Post : crawlerID[p] # None \/ pc[p] = "returned"}

\* The rows are those of the ids given, no more than there are requests that
\* had one inserted or gave up, and each id was given to one request.
IdInv ==
    /\ \A i \in Id : rows[i] # None <=> i <= serial
    /\ serial <= Cardinality(Spent)
    /\ \A p \in Post :
        /\ pc[p] \in {"idle", "auth", "insert"} => crawlerID[p] = None
        /\ pc[p] \in {"go", "respond"} => crawlerID[p] # None
        /\ crawlerID[p] # None => crawlerID[p] <= serial /\ rows[crawlerID[p]].type = type[p]
    /\ \A p, q \in Post : crawlerID[p] # None /\ crawlerID[p] = crawlerID[q] => p = q

\* A crawl has a row, and was started before its client can be told of it.
CrawlInv ==
    /\ \A i \in Id : crawl[i] # "unborn" => rows[i] # None
    /\ \A p \in Post : crawlerID[p] # None =>
        (pc[p] = "respond" \/ answer[p] = "created" \/ (restarts = 0 /\ pc[p] = "returned")
            => crawl[crawlerID[p]] # "unborn")

AnswerInv ==
    \A p \in Post :
        /\ pc[p] = "idle" => answer[p] = "none"
        /\ answer[p] = "created" => pc[p] = "returned" /\ crawlerID[p] # None
        /\ restarts = 0 => /\ answer[p] # "lost"
                           /\ pc[p] = "returned" => answer[p] # "none"

\* What a client saw is not ahead of the row.
SeenInv ==
    \A p \in Post : seen[p] # None =>
        /\ answer[p] = "created"
        /\ Rank(seen[p]) <= Rank(rows[crawlerID[p]].status)
        /\ seen[p] \in Final => rows[crawlerID[p]].status = seen[p]

IInv == TypeOK /\ IdInv /\ CrawlInv /\ AnswerInv /\ SeenInv

-----------------------------------------------------------------------------
\* REFUTED.  docs/README.md:586 lists initializing, "An id has been created to
\* track the crawler", among the states that GET /crawlers/:id displays; while
\* the row is in that state, GetCrawler cannot read it and the answer is a 500.
PollIsAnswered ==
    \A p \in Post : answer[p] = "created" => ~GetCrawlerFails(crawlerID[p])
=============================================================================
