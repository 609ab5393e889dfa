------------------------------- MODULE Server -------------------------------
(* The process around the crawler API: serve (cmd/serve.go) with its two HTTP
   servers (api/api.go), the Stopper they share (pkg/stopper) and the signal
   that ends them, while clients post and poll and a probe asks for its health.

   The process ends when it was told to, after the requests it accepted were
   answered; or it crashes (a kill, log.Fatal of a server that cannot listen, a
   panic such as that of AuthRegistry on a challenge it does not understand).
   In either case it is started again. *)
EXTENDS CrawlerApi

VARIABLES
    main,       \* where serve is
    server,     \* where the goroutines Run and RunHealth are
    group,      \* the counter of st.wg
    probe,      \* the request for /health
    crashed     \* observed: the process ended unasked once

processVars == <<main, server, group>>
serverVars == <<processVars, probe, crashed>>
everything == <<vars, serverVars>>

Servers == {"api", "health"}

ServerTypeOK ==
    /\ TypeOK
    /\ main \in {"start", "wait", "stopping"}
    /\ server \in [Servers -> {"off", "starting", "serving", "draining", "ended"}]
    /\ group \in 0..Cardinality(Servers)
    /\ probe \in {"idle", "asked", "lost"}
    /\ crashed \in BOOLEAN

ServerInit ==
    /\ Init
    /\ main = "start"
    /\ server = [x \in Servers |-> "off"]
    /\ group = 0
    /\ probe = "idle"
    /\ crashed = FALSE

-----------------------------------------------------------------------------
(* serve and the Stopper. *)

\* st.Begin() and a goroutine, for either server.
StartServers ==
    /\ main = "start"
    /\ main' = "wait"
    /\ group' = group + Cardinality(Servers)
    /\ server' = [x \in Servers |-> "starting"]
    /\ UNCHANGED <<vars, probe, crashed>>

\* A signal: st.Stop() closes the channel, then waits for the group.
Interrupted ==
    /\ main = "wait"
    /\ restarts < MaxRestarts
    /\ main' = "stopping"
    /\ UNCHANGED <<vars, server, group, probe, crashed>>

\* The process is gone, with its goroutines and whoever they would have
\* answered; the next one starts.
ProcessEnds ==
    /\ Restart
    /\ main' = "start"
    /\ server' = [x \in Servers |-> "off"]
    /\ group' = 0
    /\ probe' = IF probe = "asked" THEN "lost" ELSE probe

\* MUTANT of Exit: Stop closes the channel and does not wait for the group.
ExitAtOnce ==
    /\ main = "stopping"
    /\ ProcessEnds
    /\ UNCHANGED crashed

\* The group is done: serve closes the database and returns.
Exit ==
    /\ main = "stopping"
    /\ group = 0
    /\ ProcessEnds
    /\ UNCHANGED crashed

Crash ==
    /\ ProcessEnds
    /\ crashed' = TRUE

-----------------------------------------------------------------------------
(* Run and RunHealth. *)

Listen(x) ==
    /\ server[x] = "starting"
    /\ server' = [server EXCEPT ![x] = "serving"]
    /\ UNCHANGED <<vars, main, group, probe, crashed>>

\* The goroutine that waits for the channel: srv.Stop(0) closes the listener.
Drain(x) ==
    /\ main = "stopping"
    /\ server[x] = "serving"
    /\ server' = [server EXCEPT ![x] = "draining"]
    /\ UNCHANGED <<vars, main, group, probe, crashed>>

\* A server has accepted requests that nobody has answered.
Pending(x) ==
    \/ x = "api" /\ \E p \in Post : pc[p] # "idle" /\ answer[p] = "none"
    \/ x = "health" /\ probe = "asked"

\* MUTANT of End: RunHealth returns without st.End().
EndApiOnly(x) == group' = IF x = "api" THEN group - 1 ELSE group

\* MUTANT of End: st.End() is called where the server stops, and deferred too.
EndTwice(x) == group' = group - 2

\* The deferred st.End().
End(x) == group' = group - 1

\* A server that was told to stop returns when what it accepted is answered.
EndServer(x) ==
    /\ server[x] = "draining"
    /\ ~Pending(x)
    /\ server' = [server EXCEPT ![x] = "ended"]
    /\ End(x)
    /\ UNCHANGED <<vars, main, probe, crashed>>

-----------------------------------------------------------------------------
(* Requests: a server takes them while it serves, and no longer. *)

Accept(p) == server["api"] = "serving" /\ Receive(p)

Asked(p) == server["api"] = "serving" /\ Poll(p)

\* The rest of a handler is what it was; it outlives the answer of its timeout,
\* and the server too.
Continue(p) == Auth(p) \/ Insert(p) \/ Go(p) \/ Created(p)

\* GET /health: it pings the database, or its TimeoutHandler answers.
Probe ==
    /\ server["health"] = "serving"
    /\ probe = "idle"
    /\ probe' = "asked"
    /\ UNCHANGED <<vars, processVars, crashed>>

healthHandler ==
    /\ probe = "asked"
    /\ probe' = "idle"
    /\ UNCHANGED <<vars, processVars, crashed>>

ProcessStep ==
    \/ StartServers \/ Interrupted \/ Exit \/ Crash
    \/ \E x \in Servers : Listen(x) \/ Drain(x) \/ EndServer(x)
    \/ Probe \/ healthHandler

RequestStep ==
    /\ \/ \E p \in Post : Accept(p) \/ Asked(p) \/ Continue(p) \/ Timeout(p)
       \/ \E i \in Id : Write(i) \/ WriteFails(i)
    /\ UNCHANGED serverVars

ServerNext ==
    \/ ProcessStep \/ RequestStep
    \/ Over /\ UNCHANGED serverVars

\* serve and the servers are scheduled; the timer of a TimeoutHandler fires; and a
\* client that was told an id polls until a poll is answered.  Nothing is asked of
\* the other handlers and of the crawls, which may wait for a registry for ever.
ServerFairness ==
    /\ WF_everything(StartServers \/ Exit)
    /\ \A x \in Servers : WF_everything(Listen(x) \/ Drain(x) \/ EndServer(x))
    /\ WF_everything(healthHandler)
    /\ \A p \in Post :
        /\ WF_everything(Timeout(p) /\ UNCHANGED serverVars)
        /\ WF_everything(Asked(p) /\ UNCHANGED serverVars)

ServerSpec == ServerInit /\ [][ServerNext]_everything /\ ServerFairness

-----------------------------------------------------------------------------
(* Properties. *)

\* An end that was asked for loses no answer: every request that either server
\* had accepted when the signal came, or took before its listener was closed,
\* is answered before serve returns.  (The rest of a handler whose client was
\* told of the timeout is lost, and so are the crawls.)
GracefulLosesNothing ==
    ~crashed => /\ probe # "lost"
                /\ \A p \in Post : answer[p] # "lost"

\* The outcome of a crawl is not lost on its way to the client: once the row has
\* it, a client that was told the id gets to see it, although the process that
\* wrote it may have ended and other crawls write to the table.
OutcomeIsSeen ==
    \A p \in Post :
        (/\ answer[p] = "created"
         /\ \E i \in Id : crawlerID[p] = i /\ rows[i] # None /\ rows[i].status \in Final)
        ~> seen[p] \in Final

\* A process that was told to end does, and no handler can keep it: not one
\* that waits for a registry that never answers, and no crawl.
SignalEndsProcess == main = "stopping" ~> main # "stopping"

-----------------------------------------------------------------------------
(* The inductive invariant: that of CrawlerApi, and what the process adds. *)

\* The group counts the servers that have not returned.
GroupInv ==
    /\ group = Cardinality({x \in Servers : server[x] \in {"starting", "serving", "draining"}})
    /\ \A x \in Servers : server[x] = "off" <=> main = "start"

\* A server that has returned left no request unanswered, and none came after.
AnsweredInv == \A x \in Servers : server[x] = "ended" => ~Pending(x)

ServerInv == ServerTypeOK /\ IInv /\ GroupInv /\ AnsweredInv /\ GracefulLosesNothing
=============================================================================
