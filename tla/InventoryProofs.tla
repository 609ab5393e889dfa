-------------------------- MODULE InventoryProofs --------------------------
(* The inventory is complete, shows only what was listed, and keeps the day on
   which a container was first seen: for any clusters, any number of crawls and
   any days. *)
EXTENDS Inventory, TLAPS

LEMMA DayType == 1 \in Day /\ \A d \in Day : d \in Nat /\ d <= MaxDay
  BY MaxDayAssumption DEF Day

\* The key of a status that a crawl has listed.
LEMMA KeyType ==
    ASSUME NEW n \in Namespace, NEW l \in Cluster, NEW x \in Pod \X ContainerStatus
    PROVE  <<n, l, x[2]>> \in Key
  BY DEF Key

THEOREM InitIInv == Init => IInv
  <1> SUFFICES ASSUME Init PROVE IInv
    OBVIOUS
  <1>1. TypeOK
    BY DayType DEF Init, TypeOK, Seen
  <1>2. RecordedInv /\ AloneInv
    BY DEF Init, RecordedInv, AloneInv
  <1>3. StampInv
    BY DEF Init, StampInv, UnderWay
  <1>4. ShownWasListed
    BY DEF Init, ShownWasListed
  <1> QED
    BY <1>1, <1>2, <1>3, <1>4 DEF IInv

(* ------------------------------------------------------------------------ *)
(* What a step leaves alone. *)

\* A step of a crawl leaves the others and the date alone.
LEMMA OtherCrawls ==
    ASSUME TypeOK, NEW c \in Crawl, Step(c), NEW d \in Crawl, d # c
    PROVE  /\ pc'[d] = pc[d] /\ namespaces'[d] = namespaces[d]
           /\ namespace'[d] = namespace[d] /\ statuses'[d] = statuses[d]
           /\ key'[d] = key[d] /\ seen'[d] = seen[d]
           /\ listed'[d] = listed[d] /\ begun'[d] = begun[d]
           /\ ended'[d] = ended[d] /\ alone'[d] = alone[d]
  <1>1. CASE Begin(c)
    BY <1>1 DEF TypeOK, Begin, Goto
  <1>2. CASE ListPods(c)
    BY <1>2 DEF TypeOK, ListPods, Goto
  <1>3. CASE Return(c) \/ NamespaceDone(c) \/ Fail(c)
    BY <1>3 DEF TypeOK, Return, NamespaceDone, Fail, Goto, observed
  <1>4. CASE GetContainer(c)
    BY <1>4 DEF TypeOK, GetContainer, Found, Goto, observed
  <1>5. CASE New(c) \/ Now(c)
    BY <1>5 DEF TypeOK, New, Now, Goto, observed
  <1>6. CASE UpsertContainer(c)
    BY <1>6 DEF TypeOK, UpsertContainer, Goto, observed
  <1> QED
    BY <1>1, <1>2, <1>3, <1>4, <1>5, <1>6 DEF Step

LEMMA StepFrame ==
    ASSUME NEW c \in Crawl, Step(c)
    PROVE  UNCHANGED <<day, cluster>>
  BY DEF Step, Begin, ListPods, Return, NamespaceDone, GetContainer, New, Now, UpsertContainer,
         Fail, observed

\* Only an upsert writes to the table, and only to the row of its container.
LEMMA TableFrame ==
    ASSUME NEW c \in Crawl, Step(c)
    PROVE  table' = table \/ UpsertContainer(c)
  BY DEF Step, Begin, ListPods, Return, NamespaceDone, GetContainer, New, Now, Fail

LEMMA UpsertWrites ==
    ASSUME TypeOK, NEW c \in Crawl, UpsertContainer(c), NEW k \in Key
    PROVE  /\ k # key[c] => table'[k] = table[k]
           /\ k = key[c] => /\ table'[k] \in Seen
                            /\ table'[k].last = seen[c].last
                            /\ table[k] = None => table'[k].first = seen[c].first
                            /\ table[k] # None => table'[k].first = table[k].first
  <1>1. table \in [Key -> Seen \cup {None}] /\ seen[c] \in Seen
    BY DEF TypeOK
  <1>2. table' = [table EXCEPT ![key[c]] =
                    IF @ = None THEN seen[c] ELSE [@ EXCEPT !.last = seen[c].last]]
    BY DEF UpsertContainer, Upserted
  <1>3. CASE k # key[c]
    BY <1>1, <1>2, <1>3
  <1>4. CASE k = key[c] /\ table[k] = None
    BY <1>1, <1>2, <1>4
  <1>5. CASE k = key[c] /\ table[k] # None
    <2>1. table'[k] = [table[k] EXCEPT !.last = seen[c].last]
      BY <1>1, <1>2, <1>5
    <2>2. table[k] \in Seen
      BY <1>1, <1>5
    <2> QED
      BY <1>1, <1>5, <2>1, <2>2 DEF Seen
  <1> QED
    BY <1>3, <1>4, <1>5

\* Rows stay, and keep first_seen.
LEMMA RowsStay ==
    ASSUME TypeOK, [Next]_vars, NEW k \in Key, table[k] # None
    PROVE  table'[k] # None /\ table'[k].first = table[k].first
  <1>1. CASE table' = table
    BY <1>1
  <1>2. ASSUME NEW c \in Crawl, UpsertContainer(c)
        PROVE  table'[k] # None /\ table'[k].first = table[k].first
    <2>1. CASE k = key[c]
      BY <1>2, <2>1, UpsertWrites, NoneAssumption
    <2>2. CASE k # key[c]
      BY <1>2, <2>2, UpsertWrites
    <2> QED
      BY <2>1, <2>2
  <1> QED
    BY <1>1, <1>2, TableFrame DEF Next, Midnight, Over, vars

(* ------------------------------------------------------------------------ *)
(* The types. *)

LEMMA TypeStep == IInv /\ [Next]_vars => TypeOK'
  <1> SUFFICES ASSUME IInv, [Next]_vars PROVE TypeOK'
    OBVIOUS
  <1>0. TypeOK
    BY DEF IInv
  <1>1. CASE Midnight
    <2>1. day' \in Day
      BY <1>0, <1>1, MaxDayAssumption DEF Midnight, TypeOK, Day
    <2> QED
      BY <1>0, <1>1, <2>1 DEF Midnight, TypeOK, crawlVars, observed
  <1>2. CASE Over \/ UNCHANGED vars
    BY <1>0, <1>2 DEF Over, vars, crawlVars, observed, TypeOK
  <1>3. ASSUME NEW c \in Crawl, Begin(c) PROVE TypeOK'
    BY <1>0, <1>3 DEF Begin, Goto, TypeOK
  <1>4. ASSUME NEW c \in Crawl, ListPods(c) PROVE TypeOK'
    <2>1. PICK n \in namespaces[c], s \in SUBSET (Pod \X ContainerStatus) :
            /\ namespaces' = [namespaces EXCEPT ![c] = @ \ {n}]
            /\ namespace' = [namespace EXCEPT ![c] = n]
            /\ statuses' = [statuses EXCEPT ![c] = s]
            /\ listed' = [listed EXCEPT ![c] = @ \cup {<<n, cluster[c], x[2]>> : x \in s}]
      BY <1>4 DEF ListPods
    <2>2. n \in Namespace /\ cluster[c] \in Cluster
      BY <1>0 DEF TypeOK
    <2>3. {<<n, cluster[c], x[2]>> : x \in s} \subseteq Key
      BY <2>2, KeyType
    <2> QED
      BY <1>0, <1>4, <2>1, <2>2, <2>3 DEF ListPods, Goto, TypeOK
  <1>5. ASSUME NEW c \in Crawl, Return(c) \/ NamespaceDone(c) \/ Fail(c) PROVE TypeOK'
    BY <1>0, <1>5 DEF Return, NamespaceDone, Fail, Goto, TypeOK, observed
  <1>6. ASSUME NEW c \in Crawl, GetContainer(c) PROVE TypeOK'
    <2>1. PICK x \in statuses[c] :
            /\ statuses' = [statuses EXCEPT ![c] = @ \ {x}]
            /\ Found(c, <<namespace[c], cluster[c], x[2]>>)
      BY <1>6 DEF GetContainer
    <2>2. <<namespace[c], cluster[c], x[2]>> \in Key
      BY <1>0, <1>6, <2>1 DEF IInv, StampInv, TypeOK, UnderWay, GetContainer
    <2>3. key' \in [Crawl -> Key \cup {None}] /\ seen' \in [Crawl -> Seen]
      BY <1>0, <2>1, <2>2 DEF Found, TypeOK
    <2>4. pc' \in [Crawl -> {"idle", "namespace", "status", "new", "now", "upsert", "listed",
                             "failed"}]
      BY <1>0, <2>1 DEF Found, Goto, TypeOK
    <2>5. statuses' \in [Crawl -> SUBSET (Pod \X ContainerStatus)]
      BY <1>0, <2>1 DEF TypeOK
    <2> QED
      BY <1>0, <1>6, <2>3, <2>4, <2>5 DEF GetContainer, TypeOK, observed
  <1>7. ASSUME NEW c \in Crawl, New(c) \/ Now(c) PROVE TypeOK'
    <2>1. seen[c] \in Seen /\ day \in Day
      BY <1>0 DEF TypeOK
    <2>2. [seen[c] EXCEPT !.first = day] \in Seen /\ [seen[c] EXCEPT !.last = day] \in Seen
      BY <2>1 DEF Seen
    <2>3. seen' \in [Crawl -> Seen]
      BY <1>0, <1>7, <2>2 DEF New, Now, TypeOK
    <2> QED
      BY <1>0, <1>7, <2>3 DEF New, Now, Goto, TypeOK, observed
  <1>8. ASSUME NEW c \in Crawl, UpsertContainer(c) PROVE TypeOK'
    <2>1. table' \in [Key -> Seen \cup {None}]
      <3>1. \A k \in Key : table'[k] \in Seen \cup {None}
        BY <1>0, <1>8, UpsertWrites DEF TypeOK
      <3>2. DOMAIN table' = Key /\ table' = [k \in Key |-> table'[k]]
        BY <1>0, <1>8 DEF UpsertContainer, Upserted, TypeOK
      <3> QED
        BY <3>1, <3>2
    <2> QED
      BY <1>0, <1>8, <2>1 DEF UpsertContainer, Goto, TypeOK
  <1> QED
    BY <1>1, <1>2, <1>3, <1>4, <1>5, <1>6, <1>7, <1>8 DEF Next, Step

(* ------------------------------------------------------------------------ *)
(* The parts of the invariant, one after the other. *)

\* What is read of a row, a crawl or the clock is a day, and so a number.
LEMMA Days ==
    ASSUME TypeOK
    PROVE  /\ day \in Nat
           /\ \A c \in Crawl : /\ begun[c] \in Nat /\ ended[c] \in Nat
                               /\ seen[c].first \in Nat /\ seen[c].last \in Nat
           /\ \A k \in Key : table[k] # None => table[k].first \in Nat /\ table[k].last \in Nat
  <1>1. \A d \in Day : d \in Nat
    BY DayType
  <1>2. \A s \in Seen : s.first \in Day /\ s.last \in Day
    BY DEF Seen
  <1> QED
    BY <1>1, <1>2 DEF TypeOK

\* A step of another crawl leaves what crawl d has recorded: if it writes to a row
\* that d needs, it is of the same cluster, and began after d if d began alone.
LEMMA RecordedOther ==
    ASSUME IInv, NEW c \in Crawl, Step(c), NEW d \in Crawl, d # c, pc[d] # "failed",
           NEW k \in listed[d] \ Pending(d)
    PROVE  table'[k] # None /\ (alone[d] => begun[d] <= table'[k].last)
  <1>0. TypeOK /\ k \in Key
    BY DEF IInv, TypeOK
  <1>1. table[k] # None /\ (alone[d] => begun[d] <= table[k].last)
    BY DEF IInv, RecordedInv
  <1>2. CASE table' = table \/ (UpsertContainer(c) /\ k # key[c])
    BY <1>0, <1>1, <1>2, UpsertWrites
  <1>3. CASE UpsertContainer(c) /\ k = key[c]
    <2>1. table'[k] # None /\ table'[k].last = seen[c].last
      BY <1>0, <1>3, UpsertWrites, NoneAssumption
    <2>2. pc[c] = "upsert" /\ UnderWay(c)
      BY <1>3 DEF UpsertContainer, UnderWay
    <2>3. k[2] = cluster[c] /\ begun[c] <= seen[c].last
      BY <1>3, <2>2 DEF IInv, StampInv
    <2>4. k[2] = cluster[d] /\ pc[d] # "idle"
      BY DEF IInv, AloneInv, RecordedInv
    <2>5. alone[d] => begun[d] <= begun[c]
      BY <2>2, <2>3, <2>4 DEF IInv, AloneInv
    <2>6. begun[d] \in Nat /\ begun[c] \in Nat /\ seen[c].last \in Nat
      BY <1>0, Days
    <2> QED
      BY <2>1, <2>3, <2>5, <2>6
  <1> QED
    BY <1>2, <1>3, TableFrame

\* What RecordedInv says of one crawl.
Recorded(c) ==
    pc[c] # "failed" =>
        /\ \A k \in listed[c] \ Pending(c) :
            table[k] # None /\ (alone[c] => begun[c] <= table[k].last)
        /\ pc[c] \in {"idle", "namespace", "listed"} => statuses[c] = {}
        /\ pc[c] = "idle" => listed[c] = {}

\* A crawl that steps has itself recorded what is not pending any more.
LEMMA RecordedOwn ==
    ASSUME IInv, NEW c \in Crawl, Step(c)
    PROVE  Recorded(c)'
  <1>0. TypeOK /\ Recorded(c)
    BY DEF IInv, RecordedInv, Recorded
  <1>1. CASE Begin(c)
    <2>1. pc'[c] = "namespace" /\ statuses' = statuses /\ listed' = listed
      BY <1>0, <1>1 DEF Begin, Goto, TypeOK
    <2> QED
      BY <1>0, <1>1, <2>1 DEF Begin, Recorded
  <1>2. CASE ListPods(c)
    <2>1. PICK n \in namespaces[c], s \in SUBSET (Pod \X ContainerStatus) :
            /\ namespace' = [namespace EXCEPT ![c] = n]
            /\ statuses' = [statuses EXCEPT ![c] = s]
            /\ listed' = [listed EXCEPT ![c] = @ \cup {<<n, cluster[c], x[2]>> : x \in s}]
      BY <1>2 DEF ListPods
    <2>2. Pending(c) = {}
      BY <1>0, <1>2 DEF ListPods, Recorded, Pending
    <2>3. pc'[c] = "status" /\ namespace'[c] = n /\ statuses'[c] = s /\ cluster' = cluster
      BY <1>0, <1>2, <2>1 DEF ListPods, Goto, TypeOK
    <2>4. listed'[c] = listed[c] \cup {<<n, cluster[c], x[2]>> : x \in s}
      BY <1>0, <2>1 DEF TypeOK
    <2>5. Pending(c)' = {<<n, cluster[c], x[2]>> : x \in s}
      BY <2>3 DEF Pending
    <2>6. listed'[c] \ Pending(c)' \subseteq listed[c] \ Pending(c)
      BY <2>2, <2>4, <2>5
    <2> QED
      BY <1>0, <1>2, <2>3, <2>6 DEF ListPods, Recorded
  <1>3. CASE Return(c) \/ NamespaceDone(c)
    <2>1. /\ UNCHANGED <<table, statuses, namespace, key, cluster, listed, begun, alone>>
          /\ pc[c] \in {"namespace", "status"} /\ pc'[c] \in {"listed", "namespace"}
          /\ statuses[c] = {}
      BY <1>0, <1>3 DEF Return, NamespaceDone, Goto, TypeOK, observed, Recorded
    <2>2. Pending(c)' = Pending(c)
      BY <2>1 DEF Pending
    <2> QED
      BY <1>0, <2>1, <2>2 DEF Recorded
  <1>4. CASE GetContainer(c)
    <2>1. PICK x \in statuses[c] :
            /\ statuses' = [statuses EXCEPT ![c] = @ \ {x}]
            /\ Found(c, <<namespace[c], cluster[c], x[2]>>)
      BY <1>4 DEF GetContainer
    <2>2. /\ pc[c] = "status" /\ pc'[c] \in {"new", "now"}
          /\ statuses'[c] = statuses[c] \ {x} /\ key'[c] = <<namespace[c], cluster[c], x[2]>>
      BY <1>0, <1>4, <2>1 DEF GetContainer, Found, Goto, TypeOK
    <2>3. UNCHANGED <<table, namespace, cluster, listed, begun, alone>>
      BY <1>4 DEF GetContainer, observed
    <2>4. Pending(c) \subseteq Pending(c)'
      BY <2>2, <2>3 DEF Pending
    <2> QED
      BY <1>0, <2>2, <2>3, <2>4 DEF Recorded
  <1>5. CASE New(c) \/ Now(c)
    <2>1. /\ UNCHANGED <<table, statuses, namespace, key, cluster, listed, begun, alone>>
          /\ pc[c] \in {"new", "now"} /\ pc'[c] \in {"now", "upsert"}
      BY <1>0, <1>5 DEF New, Now, Goto, TypeOK, observed
    <2>2. Pending(c)' = Pending(c)
      BY <2>1 DEF Pending
    <2> QED
      BY <1>0, <2>1, <2>2 DEF Recorded
  <1>6. CASE UpsertContainer(c)
    <2>1. /\ UNCHANGED <<statuses, namespace, key, cluster, listed, begun, alone>>
          /\ pc[c] = "upsert" /\ pc'[c] \in {"status", "failed"}
      BY <1>0, <1>6 DEF UpsertContainer, Goto, TypeOK
    <2>2. SUFFICES ASSUME NEW k \in listed[c] \ Pending(c)'
                   PROVE  table'[k] # None /\ (alone[c] => begun[c] <= table'[k].last)
      BY <2>1 DEF Recorded
    <2>3. k \in Key
      BY <1>0, <2>1 DEF TypeOK
    <2>4. CASE k = key[c]
      <3>1. begun[c] <= seen[c].last
        BY <2>1 DEF IInv, StampInv
      <3> QED
        BY <1>0, <1>6, <2>3, <2>4, <3>1, UpsertWrites, NoneAssumption
    <2>5. CASE k # key[c]
      <3>1. k \notin Pending(c)
        BY <2>1, <2>2, <2>5 DEF Pending
      <3> QED
        BY <1>0, <1>6, <2>1, <2>3, <2>5, <3>1, UpsertWrites DEF Recorded
    <2> QED
      BY <2>4, <2>5
  <1>7. CASE Fail(c)
    BY <1>0, <1>7 DEF Fail, Goto, TypeOK, Recorded
  <1> QED
    BY <1>1, <1>2, <1>3, <1>4, <1>5, <1>6, <1>7 DEF Step

LEMMA RecordedStep == IInv /\ [Next]_vars => RecordedInv'
  <1> SUFFICES ASSUME IInv, [Next]_vars PROVE RecordedInv'
    OBVIOUS
  <1>0. TypeOK /\ \A d \in Crawl : Recorded(d)
    BY DEF IInv, RecordedInv, Recorded
  <1>1. CASE Midnight \/ Over \/ UNCHANGED vars
    BY <1>1 DEF IInv, RecordedInv, Pending, Midnight, Over, vars, crawlVars, observed
  <1>2. ASSUME NEW c \in Crawl, Step(c), NEW d \in Crawl, d # c PROVE Recorded(d)'
    <2>1. Pending(d)' = Pending(d)
      BY <1>0, <1>2, OtherCrawls, StepFrame DEF Pending
    <2>2. /\ pc'[d] = pc[d] /\ statuses'[d] = statuses[d] /\ listed'[d] = listed[d]
          /\ alone'[d] = alone[d] /\ begun'[d] = begun[d]
      BY <1>0, <1>2, OtherCrawls
    <2>3. pc[d] # "failed" => \A k \in listed[d] \ Pending(d) :
            table'[k] # None /\ (alone[d] => begun[d] <= table'[k].last)
      BY <1>2, RecordedOther
    <2> QED
      BY <1>0, <2>1, <2>2, <2>3 DEF Recorded
  <1>3. ASSUME NEW c \in Crawl, Step(c) PROVE RecordedInv'
    <2>1. \A d \in Crawl : Recorded(d)'
      BY <1>2, <1>3, RecordedOwn
    <2> QED
      BY <2>1 DEF RecordedInv, Recorded
  <1> QED
    BY <1>1, <1>3 DEF Next

\* What StampInv says of one crawl.
Stamped(c) ==
    /\ begun[c] <= day /\ ended[c] <= day
    /\ UnderWay(c) =>
        \A x \in statuses[c] : <<namespace[c], cluster[c], x[2]>> \in listed[c]
    /\ pc[c] \in {"new", "now", "upsert"} => key[c] \in listed[c] /\ key[c][2] = cluster[c]
    /\ pc[c] \in {"now", "upsert"} =>
        table[key[c]] # None \/ (begun[c] <= seen[c].first /\ seen[c].first <= day)
    /\ pc[c] = "upsert" => begun[c] <= seen[c].last /\ seen[c].last <= day

\* A crawl that steps stamps what it writes with its own days.
LEMMA StampOwn ==
    ASSUME IInv, NEW c \in Crawl, Step(c)
    PROVE  Stamped(c)'
  <1>0. TypeOK /\ Stamped(c) /\ day \in Nat /\ day <= day
    BY Days DEF IInv, StampInv, Stamped
  <1>1. CASE Begin(c)
    <2>1. /\ pc'[c] = "namespace" /\ begun'[c] = day
          /\ UNCHANGED <<day, cluster, namespace, statuses, listed, ended>>
          /\ pc[c] = "idle"
      BY <1>0, <1>1 DEF Begin, Goto, TypeOK
    <2>2. statuses[c] = {}
      BY <2>1 DEF IInv, RecordedInv
    <2> QED
      BY <1>0, <2>1, <2>2 DEF Stamped
  <1>2. CASE ListPods(c)
    <2>1. PICK n \in namespaces[c], s \in SUBSET (Pod \X ContainerStatus) :
            /\ namespace' = [namespace EXCEPT ![c] = n]
            /\ statuses' = [statuses EXCEPT ![c] = s]
            /\ listed' = [listed EXCEPT ![c] = @ \cup {<<n, cluster[c], x[2]>> : x \in s}]
      BY <1>2 DEF ListPods
    <2>2. /\ pc'[c] = "status" /\ namespace'[c] = n /\ statuses'[c] = s
          /\ UNCHANGED <<day, cluster, begun, ended>>
      BY <1>0, <1>2, <2>1 DEF ListPods, Goto, TypeOK
    <2>3. listed'[c] = listed[c] \cup {<<n, cluster[c], x[2]>> : x \in s}
      BY <1>0, <2>1 DEF TypeOK
    <2>4. \A x \in s : <<n, cluster[c], x[2]>> \in listed'[c]
      BY <2>3
    <2> QED
      BY <1>0, <2>2, <2>4 DEF Stamped
  <1>3. CASE Return(c) \/ NamespaceDone(c) \/ Fail(c)
    <2>1. /\ UNCHANGED <<day, table, cluster, namespace, statuses, listed, begun>>
          /\ pc'[c] \in {"listed", "namespace", "failed"}
          /\ pc'[c] = "namespace" => UnderWay(c)
          /\ ended'[c] \in {ended[c], day}
      BY <1>0, <1>3 DEF Return, NamespaceDone, Fail, Goto, TypeOK, observed, UnderWay
    <2> QED
      BY <1>0, <2>1 DEF Stamped, UnderWay
  <1>4. CASE GetContainer(c)
    <2>1. PICK x \in statuses[c] :
            /\ statuses' = [statuses EXCEPT ![c] = @ \ {x}]
            /\ Found(c, <<namespace[c], cluster[c], x[2]>>)
      BY <1>4 DEF GetContainer
    <2> DEFINE k == <<namespace[c], cluster[c], x[2]>>
    <2>2. /\ pc[c] = "status" /\ pc'[c] = IF table[k] = None THEN "new" ELSE "now"
          /\ statuses'[c] = statuses[c] \ {x} /\ key'[c] = k
      BY <1>0, <1>4, <2>1 DEF GetContainer, Found, Goto, TypeOK
    <2>3. UNCHANGED <<day, table, namespace, cluster, listed, begun, ended>>
      BY <1>4 DEF GetContainer, observed
    <2>4. k \in listed[c] /\ k[2] = cluster[c]
      BY <1>0, <2>2 DEF Stamped, UnderWay
    <2> QED
      BY <1>0, <2>2, <2>3, <2>4 DEF Stamped, UnderWay
  <1>5. CASE New(c)
    <2>1. /\ UNCHANGED <<day, table, cluster, namespace, statuses, key, listed, begun, ended>>
          /\ pc[c] = "new" /\ pc'[c] = "now"
      BY <1>0, <1>5 DEF New, Goto, TypeOK, observed
    <2>2. seen'[c].first = day
      BY <1>0, <1>5 DEF New, TypeOK, Seen
    <2> QED
      BY <1>0, <2>1, <2>2 DEF Stamped, UnderWay
  <1>6. CASE Now(c)
    <2>1. /\ UNCHANGED <<day, table, cluster, namespace, statuses, key, listed, begun, ended>>
          /\ pc[c] = "now" /\ pc'[c] = "upsert"
      BY <1>0, <1>6 DEF Now, Goto, TypeOK, observed
    <2>2. seen'[c].last = day /\ seen'[c].first = seen[c].first
      BY <1>0, <1>6 DEF Now, TypeOK, Seen
    <2> QED
      BY <1>0, <2>1, <2>2 DEF Stamped, UnderWay
  <1>7. CASE UpsertContainer(c)
    <2>1. /\ UNCHANGED <<day, cluster, namespace, statuses, listed, begun>>
          /\ pc[c] = "upsert" /\ pc'[c] \in {"status", "failed"}
          /\ ended'[c] \in {ended[c], day}
      BY <1>0, <1>7 DEF UpsertContainer, Goto, TypeOK
    <2> QED
      BY <1>0, <2>1 DEF Stamped, UnderWay
  <1> QED
    BY <1>1, <1>2, <1>3, <1>4, <1>5, <1>6, <1>7 DEF Step

LEMMA StampStep == IInv /\ [Next]_vars => StampInv'
  <1> SUFFICES ASSUME IInv, [Next]_vars PROVE StampInv'
    OBVIOUS
  <1>0. TypeOK /\ \A d \in Crawl : Stamped(d)
    BY DEF IInv, StampInv, Stamped
  <1>1. CASE Over \/ UNCHANGED vars
    BY <1>1 DEF IInv, StampInv, UnderWay, Over, vars, crawlVars, observed
  <1>2. CASE Midnight
    <2> SUFFICES ASSUME NEW d \in Crawl PROVE Stamped(d)'
      BY DEF StampInv, Stamped
    <2>1. UNCHANGED <<table, cluster, crawlVars, observed>> /\ day' = day + 1
      BY <1>2 DEF Midnight
    <2>2. /\ day \in Nat /\ begun[d] \in Nat /\ ended[d] \in Nat
          /\ seen[d].first \in Nat /\ seen[d].last \in Nat
      BY <1>0, Days
    <2>3. \A n \in Nat : n <= day => n <= day + 1
      BY <2>2
    <2> QED
      BY <1>0, <2>1, <2>2, <2>3 DEF Stamped, UnderWay, crawlVars, observed
  <1>3. ASSUME NEW c \in Crawl, Step(c), NEW d \in Crawl, d # c PROVE Stamped(d)'
    <2>1. /\ pc'[d] = pc[d] /\ namespace'[d] = namespace[d] /\ statuses'[d] = statuses[d]
          /\ key'[d] = key[d] /\ seen'[d] = seen[d] /\ listed'[d] = listed[d]
          /\ begun'[d] = begun[d] /\ ended'[d] = ended[d]
          /\ cluster' = cluster /\ day' = day
      BY <1>0, <1>3, OtherCrawls, StepFrame
    <2>2. pc[d] \in {"now", "upsert"} => key[d] \in Key
      BY <1>0, <1>3 DEF Stamped, TypeOK
    <2>3. pc[d] \in {"now", "upsert"} /\ table[key[d]] # None => table'[key[d]] # None
      BY <1>0, <1>3, <2>2, RowsStay
    <2> QED
      BY <1>0, <1>3, <2>1, <2>3 DEF Stamped, UnderWay
  <1>4. ASSUME NEW c \in Crawl, Step(c) PROVE StampInv'
    <2>1. \A d \in Crawl : Stamped(d)'
      BY <1>3, <1>4, StampOwn
    <2> QED
      BY <2>1 DEF StampInv, Stamped, UnderWay
  <1> QED
    BY <1>1, <1>2, <1>4 DEF Next

LEMMA AloneStep == IInv /\ [Next]_vars => AloneInv'
  <1> SUFFICES ASSUME IInv, [Next]_vars PROVE AloneInv'
    OBVIOUS
  <1>0. TypeOK /\ AloneInv
    BY DEF IInv
  <1>1. CASE Midnight \/ Over \/ UNCHANGED vars
    BY <1>0, <1>1 DEF AloneInv, UnderWay, Midnight, Over, vars, crawlVars, observed
  <1>2. ASSUME NEW c \in Crawl, Step(c) PROVE AloneInv'
    <2>1. ASSUME NEW d \in Crawl, NEW k \in listed'[d] PROVE k[2] = cluster'[d]
      <3>1. CASE k \in listed[d]
        BY <1>0, <1>2, <3>1, StepFrame DEF AloneInv
      <3>2. CASE k \notin listed[d]
        <4>1. d = c
          BY <1>0, <1>2, <2>1, <3>2, OtherCrawls
        <4>2. ListPods(c)
          BY <1>2, <2>1, <3>2, <4>1 DEF Step, Begin, Return, NamespaceDone, GetContainer, New,
             Now, UpsertContainer, Fail, observed
        <4>3. PICK n \in namespaces[c], s \in SUBSET (Pod \X ContainerStatus) :
                listed' = [listed EXCEPT ![c] = @ \cup {<<n, cluster[c], x[2]>> : x \in s}]
          BY <4>2 DEF ListPods
        <4>4. listed'[c] = listed[c] \cup {<<n, cluster[c], x[2]>> : x \in s}
          BY <1>0, <4>3 DEF TypeOK
        <4> QED
          BY <1>2, <2>1, <3>2, <4>1, <4>4, StepFrame
      <3> QED
        BY <3>1, <3>2
    <2>2. ASSUME NEW d \in Crawl, pc'[d] # "idle", alone'[d],
                 NEW e \in Crawl, UnderWay(e)', cluster[e] = cluster[d]
          PROVE  begun'[d] <= begun'[e]
      <3>0. /\ day \in Nat /\ begun[d] \in Nat /\ begun[e] \in Nat
            /\ begun[d] <= day
        BY <1>0, Days DEF IInv, StampInv
      <3>1. CASE Begin(c)
        <4>1. begun' = [begun EXCEPT ![c] = day]
          BY <3>1 DEF Begin
        <4>2. CASE d = c
          <5>1. \A x \in Crawl \ {c} : cluster[x] = cluster[c] => ~UnderWay(x)
            BY <1>0, <2>2, <3>1, <4>2 DEF Begin, TypeOK
          <5>2. e # c => (UnderWay(e)' <=> UnderWay(e))
            BY <1>0, <1>2, OtherCrawls DEF UnderWay
          <5>3. e = c
            BY <2>2, <4>2, <5>1, <5>2
          <5> QED
            BY <1>0, <3>0, <4>1, <4>2, <5>3 DEF TypeOK
        <4>3. CASE d # c /\ e = c
          BY <1>0, <3>0, <4>1, <4>3 DEF TypeOK
        <4>4. CASE d # c /\ e # c
          <5>1. /\ pc'[d] = pc[d] /\ alone'[d] = alone[d] /\ begun'[d] = begun[d]
                /\ pc'[e] = pc[e] /\ begun'[e] = begun[e]
            BY <1>0, <1>2, <4>4, OtherCrawls
          <5> QED
            BY <1>0, <2>2, <5>1 DEF AloneInv, UnderWay
        <4> QED
          BY <4>2, <4>3, <4>4
      <3>2. CASE ~Begin(c)
        <4>1. UNCHANGED <<begun, alone>>
          BY <1>2, <3>2 DEF Step, ListPods, Return, NamespaceDone, GetContainer, New, Now,
             UpsertContainer, Fail, observed
        <4>2. \A x \in Crawl \ {c} : pc'[x] = pc[x]
          BY <1>0, <1>2, OtherCrawls
        <4>3. UnderWay(c) /\ pc[c] # "idle"
          BY <1>2, <3>2 DEF Step, ListPods, Return, NamespaceDone, GetContainer, New, Now,
             UpsertContainer, Fail, UnderWay
        <4> QED
          BY <1>0, <2>2, <4>1, <4>2, <4>3 DEF AloneInv, UnderWay
      <3> QED
        BY <3>1, <3>2
    <2> QED
      BY <1>2, <2>1, <2>2, StepFrame DEF AloneInv
  <1> QED
    BY <1>1, <1>2 DEF Next

(* ------------------------------------------------------------------------ *)

\* A day of a crawl that listed the container stays one.
LEMMA WitnessStays ==
    ASSUME IInv, [Next]_vars, NEW k \in Key, NEW n \in Nat, NEW d \in Crawl,
           k \in listed[d], begun[d] <= n, n <= Until(d)
    PROVE  k \in listed'[d] /\ begun'[d] <= n /\ n <= Until(d)'
  <1>0. TypeOK /\ day \in Nat /\ ended[d] \in Nat /\ ended[d] <= day
    BY Days DEF IInv, StampInv
  <1>1. CASE Midnight \/ Over \/ UNCHANGED vars
    BY <1>0, <1>1 DEF Midnight, Over, vars, crawlVars, observed, Until, UnderWay
  <1>2. ASSUME NEW c \in Crawl, Step(c), c # d
        PROVE  k \in listed'[d] /\ begun'[d] <= n /\ n <= Until(d)'
    BY <1>0, <1>2, OtherCrawls, StepFrame DEF Until, UnderWay
  <1>3. CASE Step(d)
    <2>1. pc[d] # "idle"
      BY DEF IInv, RecordedInv
    <2>2. UnderWay(d) /\ begun' = begun /\ day' = day
      BY <1>3, <2>1 DEF Step, Begin, ListPods, Return, NamespaceDone, GetContainer, New, Now,
         UpsertContainer, Fail, UnderWay, observed
    <2>3. n <= day
      BY <2>2 DEF Until
    <2>4. k \in listed'[d]
      BY <1>0, <1>3 DEF TypeOK, Step, Begin, ListPods, Return, NamespaceDone, GetContainer,
         New, Now, UpsertContainer, Fail, observed
    <2>5. UnderWay(d)' \/ ended'[d] = day
      BY <1>0, <1>3, <2>1 DEF TypeOK, Step, Begin, ListPods, Return, NamespaceDone,
         GetContainer, Found, New, Now, UpsertContainer, Fail, UnderWay, Goto
    <2> QED
      BY <2>2, <2>3, <2>4, <2>5 DEF Until
  <1> QED
    BY <1>1, <1>2, <1>3 DEF Next

LEMMA ShownStep == IInv /\ [Next]_vars => ShownWasListed'
  <1> SUFFICES ASSUME IInv, [Next]_vars, NEW k \in Key, table'[k] # None,
                      NEW n \in {table'[k].first, table'[k].last}
               PROVE  \E d \in Crawl : k \in listed'[d] /\ begun'[d] <= n /\ n <= Until(d)'
    BY DEF ShownWasListed
  <1>0. TypeOK /\ ShownWasListed
    BY DEF IInv
  <1>1. CASE table[k] # None /\ n \in {table[k].first, table[k].last}
    <2>1. PICK d \in Crawl : k \in listed[d] /\ begun[d] <= n /\ n <= Until(d)
      BY <1>0, <1>1 DEF ShownWasListed
    <2>2. n \in Nat
      BY <1>0, <1>1, Days
    <2> QED
      BY <2>1, <2>2, WitnessStays
  <1>2. ASSUME NEW c \in Crawl, UpsertContainer(c), k = key[c],
               ~(table[k] # None /\ n \in {table[k].first, table[k].last})
        PROVE  k \in listed'[c] /\ begun'[c] <= n /\ n <= Until(c)'
    <2>1. pc[c] = "upsert" /\ UnderWay(c) /\ Until(c) = day
      BY <1>2 DEF UpsertContainer, UnderWay, Until
    <2>2. /\ k \in listed[c] /\ begun[c] <= seen[c].last /\ seen[c].last <= day
          /\ table[k] # None \/ (begun[c] <= seen[c].first /\ seen[c].first <= day)
      BY <1>2, <2>1 DEF IInv, StampInv
    <2>3. n = seen[c].last \/ (table[k] = None /\ n = seen[c].first)
      BY <1>0, <1>2, UpsertWrites
    <2>4. n \in Nat
      BY <1>0, <2>3, Days
    <2> QED
      BY <2>1, <2>2, <2>3, <2>4, WitnessStays
  <1>3. CASE table' = table
    BY <1>1, <1>3
  <1>4. ASSUME NEW c \in Crawl, UpsertContainer(c), k # key[c] PROVE table'[k] = table[k]
    BY <1>0, <1>4, UpsertWrites
  <1> QED
    BY <1>1, <1>2, <1>3, <1>4, TableFrame DEF Next, Midnight, Over, vars

THEOREM NextIInv == IInv /\ [Next]_vars => IInv'
  BY TypeStep, RecordedStep, StampStep, AloneStep, ShownStep DEF IInv

(* ------------------------------------------------------------------------ *)
(* The theorems. *)

\* The inductive invariant of the container table: where each crawl stands, what it
\* has listed, and what it and the others have written.
THEOREM Invariance == Spec => []IInv
  BY InitIInv, NextIInv, PTL DEF Spec

\* For any clusters and any crawls of them: a crawl that has listed its cluster has a
\* row of every container it listed, and unless it began while another one of the
\* cluster was under way, a page since its first day shows them all.
THEOREM CompleteInventory == Spec => []InventoryIsComplete
  <1>1. IInv => InventoryIsComplete
    <2> SUFFICES ASSUME IInv, NEW c \in Crawl, pc[c] = "listed", NEW k \in listed[c]
                 PROVE  /\ table[k] # None
                        /\ alone[c] => k \in GetAllContainers(begun[c], day)
      BY DEF InventoryIsComplete
    <2>0. TypeOK /\ k \in Key
      BY DEF IInv, TypeOK
    <2>1. k \notin Pending(c)
      BY DEF IInv, RecordedInv, Pending
    <2>2. table[k] # None /\ (alone[c] => begun[c] <= table[k].last)
      BY <2>1 DEF IInv, RecordedInv
    <2>3. PICK d \in Crawl : table[k].last <= Until(d)
      BY <2>0, <2>2 DEF IInv, ShownWasListed
    <2>4. Until(d) \in Nat /\ Until(d) <= day
      BY <2>0, Days DEF IInv, StampInv, Until
    <2>5. table[k].last \in Nat /\ day \in Nat /\ begun[c] \in Nat
      BY <2>0, <2>2, Days
    <2> QED
      BY <2>0, <2>2, <2>3, <2>4, <2>5 DEF GetAllContainers
  <1> QED
    BY <1>1, Invariance, PTL

\* Nothing is shown that no crawl listed: first_seen and last_seen are days of crawls
\* that did, in that cluster and namespace.
THEOREM OnlyListedShown == Spec => []ShownWasListed
  <1>1. IInv => ShownWasListed
    BY DEF IInv
  <1> QED
    BY <1>1, Invariance, PTL

\* A container stays in the inventory with its first_seen, whichever crawls write it.
THEOREM FirstSeenKept == Spec => FirstSeenStays
  <1>1. IInv /\ [Next]_vars =>
            [\A k \in Key : table[k] # None =>
                table'[k] # None /\ table'[k].first = table[k].first]_vars
    BY RowsStay DEF IInv
  <1> QED
    BY <1>1, Invariance, PTL DEF Spec, FirstSeenStays
=============================================================================
