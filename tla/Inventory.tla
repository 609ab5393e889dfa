----------------------------- MODULE Inventory -----------------------------
(* Table container_pa: GetContainerImages (pkg/crawler/k8s.go) of all the crawls
   that write to it, of one cluster or of several, one after the other or at the
   same time (nothing keeps two crawls of a cluster apart), and GET
   /v1/containers, which shows what was last seen in a range of days.

   A row belongs to a namespace, a cluster and a container status (name, image
   and image id).  A crawl looks it up, reads the clock and writes it back in
   three steps.  Any call may fail, and any process may end: that is Fail, for
   each of its crawls.  K8sCrawl has the rest of a crawl. *)
EXTENDS Naturals, FiniteSets

CONSTANTS
    Namespace,      \* the namespaces a cluster may have
    Cluster,        \* the clusters
    Pod,            \* the pods of a namespace
    ContainerStatus,\* the container statuses they may have
    Crawl,          \* the crawls
    MaxDay,         \* how many days pass
    None            \* no row, no container

Day == 1..MaxDay

\* What the table is unique in.
Key == Namespace \X Cluster \X ContainerStatus

Seen == [first : Day, last : Day]

ASSUME MaxDayAssumption == MaxDay \in Nat \ {0}

ASSUME NoneAssumption == None \notin Seen

VARIABLES
    day,        \* the date
    table,      \* table container_pa: the days first_seen and last_seen
    cluster,    \* the cluster of each crawl; never changes
    \* -- the goroutine of each crawl
    pc,         \* where it is
    namespaces, \* the namespaces it has not listed yet
    namespace,  \* the namespace it is at
    statuses,   \* the statuses of the pods of that namespace it has not recorded
    key,        \* what its dbContainer is the row of
    seen,       \* the days FirstSeen and LastSeen of dbContainer
    \* -- observed, not part of the program
    listed,     \* the keys of what each crawl listed
    begun,      \* the day on which it began
    ended,      \* the day on which it ended
    alone       \* no other crawl of its cluster was under way when it began

crawlVars == <<pc, namespaces, namespace, statuses, key, seen>>
observed == <<listed, begun, ended, alone>>
vars == <<day, table, cluster, crawlVars, observed>>

UnderWay(c) == pc[c] \notin {"idle", "listed", "failed"}

TypeOK ==
    /\ day \in Day
    /\ table \in [Key -> Seen \cup {None}]
    /\ cluster \in [Crawl -> Cluster]
    /\ pc \in [Crawl -> {"idle", "namespace", "status", "new", "now", "upsert", "listed",
                         "failed"}]
    /\ namespaces \in [Crawl -> SUBSET Namespace]
    /\ namespace \in [Crawl -> Namespace \cup {None}]
    /\ statuses \in [Crawl -> SUBSET (Pod \X ContainerStatus)]
    /\ key \in [Crawl -> Key \cup {None}]
    /\ seen \in [Crawl -> Seen]
    /\ listed \in [Crawl -> SUBSET Key]
    /\ begun \in [Crawl -> Day]
    /\ ended \in [Crawl -> Day]
    /\ alone \in [Crawl -> BOOLEAN]

Init ==
    /\ day = 1
    /\ table = [k \in Key |-> None]
    /\ cluster \in [Crawl -> Cluster]
    /\ pc = [c \in Crawl |-> "idle"]
    /\ namespaces = [c \in Crawl |-> {}]
    /\ namespace = [c \in Crawl |-> None]
    /\ statuses = [c \in Crawl |-> {}]
    /\ key = [c \in Crawl |-> None]
    /\ seen = [c \in Crawl |-> [first |-> 1, last |-> 1]]
    /\ listed = [c \in Crawl |-> {}]
    /\ begun = [c \in Crawl |-> 1]
    /\ ended = [c \in Crawl |-> 1]
    /\ alone = [c \in Crawl |-> FALSE]

Goto(c, label) == pc' = [pc EXCEPT ![c] = label]

-----------------------------------------------------------------------------
(* A crawl lists its cluster. *)

\* The list of namespaces.
Begin(c) ==
    /\ pc[c] = "idle"
    /\ \E n \in SUBSET Namespace : namespaces' = [namespaces EXCEPT ![c] = n]
    /\ Goto(c, "namespace")
    /\ begun' = [begun EXCEPT ![c] = day]
    /\ alone' = [alone EXCEPT
            ![c] = \A d \in Crawl \ {c} : cluster[d] = cluster[c] => ~UnderWay(d)]
    /\ UNCHANGED <<day, table, cluster, namespace, statuses, key, seen, listed, ended>>

\* The next namespace: its pods and then the namespace itself are read.
ListPods(c) ==
    /\ pc[c] = "namespace"
    /\ \E n \in namespaces[c], s \in SUBSET (Pod \X ContainerStatus) :
        /\ namespaces' = [namespaces EXCEPT ![c] = @ \ {n}]
        /\ namespace' = [namespace EXCEPT ![c] = n]
        /\ statuses' = [statuses EXCEPT ![c] = s]
        /\ listed' = [listed EXCEPT ![c] = @ \cup {<<n, cluster[c], x[2]>> : x \in s}]
    /\ Goto(c, "status")
    /\ UNCHANGED <<day, table, cluster, key, seen, begun, ended, alone>>

\* All are recorded: the list is returned.
Return(c) ==
    /\ pc[c] = "namespace"
    /\ namespaces[c] = {}
    /\ Goto(c, "listed")
    /\ ended' = [ended EXCEPT ![c] = day]
    /\ UNCHANGED <<day, table, cluster, namespaces, namespace, statuses, key, seen,
                   listed, begun, alone>>

NamespaceDone(c) ==
    /\ pc[c] = "status"
    /\ statuses[c] = {}
    /\ Goto(c, "namespace")
    /\ UNCHANGED <<day, table, cluster, namespaces, namespace, statuses, key, seen,
                   observed>>

-----------------------------------------------------------------------------
(* A crawl records a container status: GetContainer, time.Now, UpsertContainer. *)

\* dbContainer is the row of key k, or what becomes of it if there is none.
Found(c, k) ==
    /\ key' = [key EXCEPT ![c] = k]
    /\ seen' = IF table[k] = None THEN seen ELSE [seen EXCEPT ![c] = table[k]]
    /\ Goto(c, IF table[k] = None THEN "new" ELSE "now")

\* MUTANT of GetContainer: the row is looked up without the cluster.
GetContainerAnyCluster(c) ==
    /\ pc[c] = "status"
    /\ \E x \in statuses[c], l \in Cluster :
        /\ statuses' = [statuses EXCEPT ![c] = @ \ {x}]
        /\ l = cluster[c] \/ table[<<namespace[c], l, x[2]>>] # None
        /\ Found(c, <<namespace[c], l, x[2]>>)
    /\ UNCHANGED <<day, table, cluster, namespaces, namespace, observed>>

GetContainer(c) ==
    /\ pc[c] = "status"
    /\ \E x \in statuses[c] :
        /\ statuses' = [statuses EXCEPT ![c] = @ \ {x}]
        /\ Found(c, <<namespace[c], cluster[c], x[2]>>)
    /\ UNCHANGED <<day, table, cluster, namespaces, namespace, observed>>

\* FirstSeen of a new row; the clock is read again for LastSeen.
New(c) ==
    /\ pc[c] = "new"
    /\ seen' = [seen EXCEPT ![c].first = day]
    /\ Goto(c, "now")
    /\ UNCHANGED <<day, table, cluster, namespaces, namespace, statuses, key, observed>>

Now(c) ==
    /\ pc[c] = "now"
    /\ seen' = [seen EXCEPT ![c].last = day]
    /\ Goto(c, "upsert")
    /\ UNCHANGED <<day, table, cluster, namespaces, namespace, statuses, key, observed>>

\* MUTANT of Upserted: on a conflict, first_seen is written as well.
UpsertedBoth(k, s) == table' = [table EXCEPT ![k] = s]

\* MUTANT of Upserted: on a conflict, nothing is written.
UpsertedNew(k, s) == table' = [table EXCEPT ![k] = IF @ = None THEN s ELSE @]

\* INSERT, and on a conflict with a row there is only last_seen is written.
Upserted(k, s) ==
    table' = [table EXCEPT ![k] = IF @ = None THEN s ELSE [@ EXCEPT !.last = s.last]]

\* The row is written; or the call fails, after it took effect (see Fail for a
\* call that fails without).
UpsertContainer(c) ==
    /\ pc[c] = "upsert"
    /\ Upserted(key[c], seen[c])
    /\ \/ /\ Goto(c, "status")
          /\ UNCHANGED ended
       \/ /\ Goto(c, "failed")
          /\ ended' = [ended EXCEPT ![c] = day]
    /\ UNCHANGED <<day, cluster, namespaces, namespace, statuses, key, seen, listed, begun,
                   alone>>

\* A call fails and the crawl gives up, or the process ends.
Fail(c) ==
    /\ UnderWay(c)
    /\ Goto(c, "failed")
    /\ ended' = [ended EXCEPT ![c] = day]
    /\ UNCHANGED <<day, table, cluster, namespaces, namespace, statuses, key, seen,
                   listed, begun, alone>>

Midnight ==
    /\ day < MaxDay
    /\ day' = day + 1
    /\ UNCHANGED <<table, cluster, crawlVars, observed>>

Over ==
    /\ \A c \in Crawl : pc[c] \in {"listed", "failed"}
    /\ UNCHANGED vars

Step(c) ==
    \/ Begin(c) \/ ListPods(c) \/ Return(c) \/ NamespaceDone(c)
    \/ GetContainer(c) \/ New(c) \/ Now(c) \/ UpsertContainer(c) \/ Fail(c)

Next == Midnight \/ Over \/ \E c \in Crawl : Step(c)

Spec == Init /\ [][Next]_vars

-----------------------------------------------------------------------------
(* GET /v1/containers. *)

\* GetAllContainers: what was last seen between two days, both included (for a
\* page without a limit or another filter).
GetAllContainers(dateStart, dateEnd) ==
    {k \in Key : table[k] # None /\ table[k].last \in dateStart..dateEnd}

-----------------------------------------------------------------------------
(* Properties. *)

\* A crawl that has listed its cluster has a row of every container it listed;
\* and unless it began while another one of the cluster was under way, a page
\* since its first day shows them all, whatever other crawls did to the rows
\* between its steps.  (A crawl it overtook may set last_seen back afterwards to
\* a day before.)
InventoryIsComplete ==
    \A c \in Crawl : pc[c] = "listed" =>
        /\ \A k \in listed[c] : table[k] # None
        /\ alone[c] => listed[c] \subseteq GetAllContainers(begun[c], day)

\* The last day of a crawl so far.
Until(c) == IF UnderWay(c) THEN day ELSE ended[c]

\* Nothing is shown that was not there: first_seen and last_seen of a row are
\* days of crawls that listed the container, in that cluster and namespace.
ShownWasListed ==
    \A k \in Key : table[k] # None =>
        \A d \in {table[k].first, table[k].last} :
            \E c \in Crawl : k \in listed[c] /\ begun[c] <= d /\ d <= Until(c)

\* A container that was seen once stays in the inventory and keeps its first_seen,
\* also when several crawls find it new at the same time.
FirstSeenStays ==
    [][\A k \in Key : table[k] # None =>
        table'[k] # None /\ table'[k].first = table[k].first]_vars

-----------------------------------------------------------------------------
(* The inductive invariant. *)

\* What a crawl has listed and not recorded yet.
Pending(c) ==
    {<<namespace[c], cluster[c], x[2]>> : x \in statuses[c]}
    \cup {k \in {key[c]} : pc[c] \in {"new", "now", "upsert"}}

\* A crawl that has not failed has recorded all it listed but that.
RecordedInv ==
    \A c \in Crawl : pc[c] # "failed" =>
        /\ \A k \in listed[c] \ Pending(c) :
            table[k] # None /\ (alone[c] => begun[c] <= table[k].last)
        /\ pc[c] \in {"idle", "namespace", "listed"} => statuses[c] = {}
        /\ pc[c] = "idle" => listed[c] = {}

\* What a crawl is about to write is of its own list and its own days; FirstSeen
\* is too, unless there is a row already.
StampInv ==
    \A c \in Crawl :
        /\ begun[c] <= day /\ ended[c] <= day
        /\ UnderWay(c) =>
            \A x \in statuses[c] : <<namespace[c], cluster[c], x[2]>> \in listed[c]
        /\ pc[c] \in {"new", "now", "upsert"} =>
            key[c] \in listed[c] /\ key[c][2] = cluster[c]
        /\ pc[c] \in {"now", "upsert"} =>
            table[key[c]] # None \/ (begun[c] <= seen[c].first /\ seen[c].first <= day)
        /\ pc[c] = "upsert" => begun[c] <= seen[c].last /\ seen[c].last <= day

\* A crawl lists its own cluster, and those under way besides a crawl that began
\* alone began after it.
AloneInv ==
    \A c \in Crawl :
        /\ \A k \in listed[c] : k[2] = cluster[c]
        /\ pc[c] # "idle" /\ alone[c] =>
            \A d \in Crawl : UnderWay(d) /\ cluster[d] = cluster[c] => begun[c] <= begun[d]

IInv == TypeOK /\ RecordedInv /\ StampInv /\ AloneInv /\ ShownWasListed
=============================================================================
