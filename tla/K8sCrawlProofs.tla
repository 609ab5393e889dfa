--------------------------- MODULE K8sCrawlProofs ---------------------------
(* Proofs about K8sCrawl for every cluster, configuration and request: the
   inductive invariant IInv, and from it the safety properties the runs check
   and the refinement of CrawlJob. *)
EXTENDS K8sCrawl, FiniteSetTheorems, SequenceTheorems, WellFoundedInduction, TLAPS

(* ------------------------------------------------------------------------ *)
(* Counting workers. *)

\* The containers are finitely many, and so is every set of them.
LEMMA ContainersFinite ==
    \A S \in SUBSET Container : IsFiniteSet(S) /\ Cardinality(S) \in Nat
<1>1. \A S \in SUBSET Container : IsFiniteSet(S)
  BY ContainerAssumption, FS_Subset
<1>2. QED
  BY <1>1, FS_CardinalityType

\* One container more, or one less, in a set of containers.
LEMMA CountAdd ==
    ASSUME NEW S \in SUBSET Container, NEW c \in Container, c \notin S
    PROVE  Cardinality(S \cup {c}) = Cardinality(S) + 1
BY ContainersFinite, FS_AddElement

LEMMA CountRemove ==
    ASSUME NEW S \in SUBSET Container, NEW c \in S
    PROVE  Cardinality(S \ {c}) = Cardinality(S) - 1 /\ Cardinality(S) >= 1
<1>1. Cardinality(S \ {c}) = Cardinality(S) - 1
  BY ContainersFinite, FS_RemoveElement
<1>2. Cardinality(S \ {c}) \in Nat /\ Cardinality(S) \in Nat
  BY ContainersFinite
<1>3. QED
  BY <1>1, <1>2

LEMMA AtMostOne ==
    ASSUME NEW S \in SUBSET Container, Cardinality(S) <= 1, NEW c \in S, NEW d \in S
    PROVE  c = d
<1>1. SUFFICES ASSUME c # d PROVE FALSE
  OBVIOUS
<1>2. Cardinality(S \ {c}) = Cardinality(S) - 1 /\ d \in S \ {c}
  BY <1>1, CountRemove
<1>3. Cardinality(S \ {c}) >= 1
  BY <1>2, CountRemove
<1>4. QED
  BY <1>2, <1>3, ContainersFinite

LEMMA CountNone ==
    ASSUME NEW S \in SUBSET Container, Cardinality(S) = 0
    PROVE  S = {}
BY ContainersFinite, FS_EmptySet

Skipped == {c \in Counted : ~HasCredentials(c)}

Uncounted == {c \in bad : worker[c] # "check"}

LEMMA WorkerSetsType ==
    /\ Holding \in SUBSET Container /\ Awaited \in SUBSET Container
    /\ Counted \in SUBSET Container /\ Handled \in SUBSET Container
    /\ Scanning \in SUBSET Container /\ Skipped \in SUBSET Container
BY DEF Holding, Awaited, Counted, Handled, Scanning, Skipped

\* What the sets of workers become when one worker changes its state.
LEMMA WorkerSets ==
    ASSUME NEW c \in Container, NEW s \in WorkerState, worker \in [Container -> WorkerState],
           worker' = [worker EXCEPT ![c] = s]
    PROVE  /\ Holding' = IF s \in {"start", "scan", "check", "done", "release"}
                         THEN Holding \cup {c} ELSE Holding \ {c}
           /\ Awaited' = IF s \in {"start", "scan", "check", "done"}
                         THEN Awaited \cup {c} ELSE Awaited \ {c}
           /\ Counted' = IF s \in {"done", "release", "gone"}
                         THEN Counted \cup {c} ELSE Counted \ {c}
           /\ Handled' = IF s # "none" THEN Handled \cup {c} ELSE Handled \ {c}
BY DEF Holding, Awaited, Counted, Handled, WorkerState

LEMMA SlotsType == TypeOK => Slots \in Nat
BY RequestAssumption DEF Slots, DefaultThreads, TypeOK

(* ------------------------------------------------------------------------ *)
(* The positions that removeDuplicates keeps. *)

\* Every set of numbers that is not empty has a least element.
LEMMA LeastElement ==
    ASSUME NEW T \in SUBSET Nat, T # {}
    PROVE  \E x \in T : \A y \in T : x <= y
<1> DEFINE Below == {0..x : x \in T}
<1>1. Below \subseteq FiniteSubsetsOf(Nat)
  <2> SUFFICES ASSUME NEW x \in T PROVE 0..x \in FiniteSubsetsOf(Nat)
    OBVIOUS
  <2>1. x \in Nat
    OBVIOUS
  <2>2. IsFiniteSet(0..x)
    BY <2>1, FS_Interval
  <2>3. 0..x \subseteq Nat
    BY <2>1
  <2>4. QED
    BY <2>2, <2>3 DEF FiniteSubsetsOf
<1>2. Below # {}
  OBVIOUS
<1>3. PICK X \in Below : \A Y \in Below : <<Y, X>> \notin StrictSubsetOrdering(Nat)
  <2> HIDE DEF Below
  <2> QED
    BY <1>1, <1>2, FS_StrictSubsetOrderingWellFounded, WFMin
<1>4. PICK x \in T : X = 0..x
  OBVIOUS
<1>5. ASSUME NEW y \in T, y < x PROVE FALSE
  <2>1. 0..y \in Below /\ 0..y \subseteq 0..x /\ x \in 0..x /\ x \notin 0..y
    BY <1>5
  <2>2. <<0..y, X>> \in StrictSubsetOrdering(Nat)
    BY <1>4, <2>1 DEF StrictSubsetOrdering
  <2>3. QED
    BY <1>3, <2>1, <2>2
<1>6. QED
  BY <1>5

LEMMA FirstOfPositions ==
    ASSUME NEW q \in SUBSET Nat, q # {}
    PROVE  First(q) \in q /\ \A j \in q : First(q) <= j
BY LeastElement DEF First

\* No two positions that are kept have a digest, nor a container, in common.
LEMMA KeptDiffer ==
    ASSUME NEW s \in Seq(Container), NEW i \in RemoveDuplicates(s), NEW j \in RemoveDuplicates(s),
           Digest(s[i]) = Digest(s[j])
    PROVE  i = j
<1>1. i \in Nat \ {0} /\ j \in Nat \ {0} /\ i \in 1..Len(s) /\ j \in 1..Len(s)
  BY DEF RemoveDuplicates
<1>2. ~(i < j) /\ ~(j < i)
  BY <1>1 DEF RemoveDuplicates
<1>3. QED
  BY <1>1, <1>2

\* Every digest that occurs is kept once.
LEMMA DigestKept ==
    ASSUME NEW s \in Seq(Container), NEW c \in Range(s)
    PROVE  \E i \in RemoveDuplicates(s) : Digest(s[i]) = Digest(c)
<1> DEFINE P == {i \in 1..Len(s) : Digest(s[i]) = Digest(c)}
<1>1. P \in SUBSET Nat /\ P # {}
  BY DEF Range
<1>2. PICK i \in P : \A j \in P : i <= j
  <2> HIDE DEF P
  <2> QED
    BY <1>1, LeastElement
<1>3. \A j \in 1..(i - 1) : j \in 1..Len(s) /\ j < i
  BY <1>1, <1>2
<1>4. \A j \in 1..(i - 1) : Digest(s[j]) # Digest(s[i])
  BY <1>1, <1>2, <1>3
<1>5. QED
  BY <1>2, <1>4 DEF RemoveDuplicates

\* The kept positions are finitely many and as many as their containers.
LEMMA KeptCount ==
    ASSUME NEW s \in Seq(Container), NEW K \in SUBSET RemoveDuplicates(s)
    PROVE  Cardinality({s[i] : i \in K}) = Cardinality(K) /\ Cardinality(K) \in Nat
<1> DEFINE T == {s[i] : i \in K}
           f == [i \in K |-> s[i]]
<1>1. IsFiniteSet(K)
  <2>1. K \subseteq 1..Len(s) /\ Len(s) \in Nat
    BY DEF RemoveDuplicates
  <2>2. IsFiniteSet(1..Len(s))
    BY <2>1, FS_Interval
  <2>3. QED
    BY <2>1, <2>2, FS_Subset
<1>2. f \in Bijection(K, T)
  <2>1. f \in [K -> T] /\ \A y \in T : \E x \in K : f[x] = y
    OBVIOUS
  <2>2. \A x, y \in K : f[x] = f[y] => x = y
    BY KeptDiffer
  <2>3. QED
    BY <2>1, <2>2 DEF Bijection, Injection, Surjection, IsInjective
<1>3. QED
  BY <1>1, <1>2, FS_Bijection, FS_CardinalityType DEF ExistsBijection

\* A kept position is one of the sequence.
LEMMA KeptType ==
    ASSUME NEW s \in Seq(Container)
    PROVE  RemoveDuplicates(s) \subseteq 1..Len(s) /\ \A i \in RemoveDuplicates(s) : s[i] \in Container
BY DEF RemoveDuplicates

(* ------------------------------------------------------------------------ *)
(* The containers of a list. *)

LEMMA RangeOfTail ==
    ASSUME NEW s \in Seq(Container), s # <<>>
    PROVE  Range(s) = {Head(s)} \cup Range(Tail(s))
<1>1. /\ Len(s) \in Nat \ {0} /\ Head(s) = s[1] /\ DOMAIN s = 1..Len(s)
      /\ DOMAIN Tail(s) = 1..(Len(s) - 1)
      /\ \A i \in 1..(Len(s) - 1) : Tail(s)[i] = s[i + 1]
  BY HeadTailProperties
<1>2. \A i \in 1..Len(s) : i = 1 \/ (i - 1 \in 1..(Len(s) - 1) /\ Tail(s)[i - 1] = s[i])
  BY <1>1
<1>3. Range(s) \subseteq {Head(s)} \cup Range(Tail(s))
  <2>1. SUFFICES ASSUME NEW i \in 1..Len(s) PROVE s[i] \in {Head(s)} \cup Range(Tail(s))
    BY <1>1 DEF Range
  <2>2. CASE i = 1
    BY <1>1, <2>2
  <2>3. CASE i # 1
    <3>1. i - 1 \in DOMAIN Tail(s) /\ s[i] = Tail(s)[i - 1]
      BY <1>1, <1>2, <2>3
    <3>2. QED
      BY <3>1 DEF Range
  <2>4. QED
    BY <2>2, <2>3
<1>4. \A i \in 1..(Len(s) - 1) : i + 1 \in 1..Len(s)
  BY <1>1
<1>5. {Head(s)} \cup Range(Tail(s)) \subseteq Range(s)
  BY <1>1, <1>4 DEF Range
<1>6. QED
  BY <1>3, <1>5

LEMMA RangeOfAppend ==
    ASSUME NEW s \in Seq(Container), NEW c \in Container
    PROVE  Range(Append(s, c)) = Range(s) \cup {c}
<1>1. /\ DOMAIN s = 1..Len(s) /\ Len(s) \in Nat
      /\ DOMAIN Append(s, c) = 1..(Len(s) + 1)
      /\ Append(s, c)[Len(s) + 1] = c
      /\ \A i \in 1..Len(s) : Append(s, c)[i] = s[i]
  BY AppendProperties
<1>2. \A i \in 1..(Len(s) + 1) : i = Len(s) + 1 \/ i \in 1..Len(s)
  BY <1>1
<1>3. QED
  BY <1>1, <1>2 DEF Range

(* ------------------------------------------------------------------------ *)
(* The inductive invariant. *)

LEMMA InitInv == Init => IInv
<1> SUFFICES ASSUME Init PROVE IInv
  OBVIOUS
<1>1. TypeOK
  <2>3. row \in Row /\ worker \in [Container -> WorkerState]
    BY DEF Init, Row, WorkerState
  <2>4. /\ pc = "start" /\ namespaces = {} /\ statuses = <<>> /\ containers = <<>>
        /\ queue = {} /\ listed = {} /\ bad = {} /\ sem = 0 /\ wg = 0 /\ up /\ ~err
        /\ request \in Request /\ count \in [success : Nat, failed : Nat, skipped : Nat]
    BY DEF Init
  <2>5. <<>> \in Seq(Container)
    BY EmptySeq
  <2>6. up \in BOOLEAN /\ err \in BOOLEAN
    BY DEF Init
  <2>7. QED
    BY <2>3, <2>4, <2>5, <2>6 DEF TypeOK
<1>2. Holding = {} /\ Awaited = {} /\ Counted = {} /\ Handled = {}
  BY DEF Init, Holding, Awaited, Counted, Handled
<1>3. CountInv
  <2>1. {c \in Counted : ~HasCredentials(c)} = {}
    BY <1>2
  <2>2. Slots \in Nat
    BY <1>1, SlotsType
  <2>3. QED
    BY <1>2, <2>1, <2>2, FS_EmptySet DEF Init, CountInv
<1>4. ListInv
  BY DEF Init, ListInv, Range
<1>6. QueueInv /\ RowInv /\ CredentialInv
  BY <1>2 DEF Init, QueueInv, RowInv, CredentialInv, NoTotal
<1>7. SequentialInv
  <2>1. {c \in bad : worker[c] # "check"} = {}
    BY DEF Init
  <2>2. QED
    BY <2>1, FS_EmptySet DEF Init, SequentialInv
<1>8. QED
  BY <1>1, <1>3, <1>4, <1>6, <1>7 DEF IInv

\* The request stays what it was.
LEMMA RequestFixed == [Next]_vars => request' = request
BY DEF Next, Main, MainStart, MainConnect, MainGetting, MainNamespace, MainStatus, MainFailed,
       MainPrepare, MainAcquire, MainReport, Worker, WorkerStart, WorkerScan, WorkerCheck,
       WorkerPanic, WorkerDone, WorkerRelease, Crash, Stopped, vars

\* Starting a worker: the position, its container and what becomes of the queue.
LEMMA Acquire ==
    ASSUME IInv, MainAcquire, queue # {}
    PROVE  LET i == First(queue)
               c == containers[i]
           IN  /\ i \in queue /\ i \in RemoveDuplicates(containers)
               /\ c \in Container /\ worker[c] = "none"
               /\ worker' = [worker EXCEPT ![c] = "start"] /\ queue' = queue \ {i}
               /\ sem' = sem + 1 /\ wg' = wg + 1 /\ pc' = pc /\ sem < Slots
<1>0. containers \in Seq(Container) /\ worker \in [Container -> WorkerState]
      /\ queue \subseteq RemoveDuplicates(containers)
  BY DEF IInv, TypeOK, QueueInv
<1>1. queue \in SUBSET Nat
  BY <1>0 DEF RemoveDuplicates
<1>2. PICK i : i = First(queue)
  OBVIOUS
<1>3. i \in queue /\ i \in RemoveDuplicates(containers) /\ containers[i] \in Container
  BY <1>0, <1>1, <1>2, FirstOfPositions, KeptType DEF MainAcquire
<1>4. request.scan /\ row.status = "scanning containers"
  BY DEF IInv, RowInv, MainAcquire
<1>5. containers[i] \notin Handled
  <2>1. Handled = {containers[j] : j \in RemoveDuplicates(containers) \ queue}
    BY <1>4 DEF IInv, QueueInv
  <2>2. \A j \in RemoveDuplicates(containers) \ queue : containers[j] # containers[i]
    BY <1>0, <1>3, KeptDiffer
  <2>3. QED
    BY <2>1, <2>2
<1>6. worker[containers[i]] = "none"
  BY <1>3, <1>5 DEF Handled
<1>7. QED
  BY <1>2, <1>3, <1>6 DEF MainAcquire

LEMMA TypeStep == IInv /\ [Next]_vars => TypeOK'
<1> SUFFICES ASSUME IInv, [Next]_vars PROVE TypeOK'
  OBVIOUS
<1> USE DEF mainVars, poolVars
<1>0. TypeOK /\ wg = Cardinality(Awaited)
  BY DEF IInv, CountInv
<1>1. ASSUME NEW s \in {"started", "getting containers", "scanning containers", "error"},
             NEW ok \in BOOLEAN, UpdateCrawler([row EXCEPT !.status = s], ok)
      PROVE  row' \in Row
  BY <1>0, <1>1 DEF UpdateCrawler, TypeOK, Row
<1>2. CASE MainStart
  BY <1>0, <1>1, <1>2 DEF MainStart, UpdateStatus, TypeOK
<1>3. CASE MainConnect
  BY <1>0, <1>3 DEF MainConnect, TypeOK
<1>4. CASE MainGetting
  BY <1>0, <1>1, <1>4 DEF MainGetting, UpdateStatus, TypeOK
<1>5. CASE MainNamespace
  <2>1. namespaces' \subseteq Namespace /\ pc' \in {"status", "failed", "prepare", "report"}
    BY <1>0, <1>5 DEF MainNamespace, TypeOK
  <2>2. statuses' \in Seq(Container) /\ listed' \subseteq Container
    <3>1. CASE UNCHANGED <<statuses, listed>>
      BY <1>0, <3>1 DEF TypeOK
    <3>2. CASE \E n \in namespaces : statuses' \in Listing[n] /\ listed' = listed \cup Range(statuses')
      <4>1. statuses' \in Seq(Container)
        BY <1>0, <3>2, ListingAssumption DEF TypeOK
      <4>2. Range(statuses') \subseteq Container
        BY <4>1 DEF Range
      <4>3. QED
        BY <1>0, <3>2, <4>1, <4>2 DEF TypeOK
    <3>3. QED
      BY <1>5, <3>1, <3>2 DEF MainNamespace
  <2>3. QED
    BY <1>0, <1>5, <2>1, <2>2 DEF MainNamespace, TypeOK
<1>6. CASE MainStatus
  <2>1. CASE statuses = <<>>
    BY <1>0, <1>6, <2>1 DEF MainStatus, TypeOK
  <2>2. CASE statuses # <<>>
    <3>1. statuses \in Seq(Container) /\ Head(statuses) \in Container
          /\ Tail(statuses) \in Seq(Container)
      BY <1>0, <2>2, HeadTailProperties DEF TypeOK
    <3>4. containers' \in Seq(Container) /\ queue' \subseteq 1..Len(containers')
          /\ pc' \in {"status", "failed"}
      <4>1. containers' = containers \/ containers' = Append(containers, Head(statuses))
        BY <1>6, <2>2 DEF MainStatus
      <4>2. containers' \in Seq(Container) /\ Len(containers') >= Len(containers)
        <5>1. containers \in Seq(Container) /\ Len(containers) \in Nat
          BY <1>0 DEF TypeOK
        <5>2. QED
          BY <3>1, <4>1, <5>1, AppendProperties
      <4>3. Len(containers') \in Nat /\ Len(containers) \in Nat /\ queue \subseteq 1..Len(containers)
        BY <1>0, <4>2 DEF TypeOK
      <4>4. queue' = queue /\ pc' \in {"status", "failed"}
        BY <1>0, <1>6, <2>2 DEF MainStatus
      <4>5. QED
        BY <4>2, <4>3, <4>4
    <3>5. QED
      BY <1>0, <1>6, <2>2, <3>1, <3>4 DEF MainStatus, TypeOK
  <2>3. QED
    BY <2>1, <2>2
<1>7. CASE MainFailed
  BY <1>0, <1>1, <1>7 DEF MainFailed, UpdateStatus, TypeOK
<1>8. CASE MainPrepare
  <2>1. queue' \subseteq 1..Len(containers)
    BY <1>0, <1>8, KeptType DEF MainPrepare, TypeOK
  <2>2. QED
    BY <1>0, <1>1, <1>8, <2>1 DEF MainPrepare, UpdateStatus, TypeOK
<1>9. CASE MainAcquire
  <2>1. CASE queue = {}
    BY <1>0, <1>9, <2>1 DEF MainAcquire, TypeOK
  <2>2. CASE queue # {}
    <3>1. /\ queue' \subseteq queue /\ pc' = pc /\ sem' \in Nat /\ wg' \in Nat
          /\ \E c \in Container : worker' = [worker EXCEPT ![c] = "start"]
      BY <1>0, <1>9, <2>2, Acquire DEF TypeOK
    <3>2. worker' \in [Container -> WorkerState]
      BY <1>0, <3>1 DEF TypeOK, WorkerState
    <3>3. QED
      BY <1>0, <1>9, <3>1, <3>2 DEF MainAcquire, TypeOK
  <2>3. QED
    BY <2>1, <2>2
<1>10. CASE MainReport
  <2>1. FinalRow \in Row
    <3>1. Cardinality(RemoveDuplicates(containers)) \in Nat /\ Len(containers) \in Nat
      <4>1. containers \in Seq(Container)
        BY <1>0 DEF TypeOK
      <4>2. RemoveDuplicates(containers) \in SUBSET RemoveDuplicates(containers)
        OBVIOUS
      <4>3. Cardinality(RemoveDuplicates(containers)) \in Nat
        BY <4>1, <4>2, KeptCount
      <4>4. QED
        BY <4>1, <4>3
    <3>2. QED
      BY <1>0, <3>1 DEF FinalRow, Row, TypeOK
  <2>2. row' \in Row /\ err' \in BOOLEAN
    BY <1>0, <1>10, <2>1 DEF MainReport, UpdateCrawler, TypeOK
  <2>3. QED
    BY <1>0, <1>10, <2>2 DEF MainReport, TypeOK
<1>11. ASSUME NEW c \in Container, WorkerStart(c) \/ WorkerCheck(c) PROVE TypeOK'
  <2>1. worker' \in [Container -> WorkerState]
    BY <1>0, <1>11 DEF WorkerStart, WorkerCheck, TypeOK, WorkerState
  <2>2. count' \in [success : Nat, failed : Nat, skipped : Nat]
    BY <1>0, <1>11 DEF WorkerStart, WorkerCheck, TypeOK
  <2>3. QED
    BY <1>0, <1>11, <2>1, <2>2 DEF WorkerStart, WorkerCheck, TypeOK
<1>12. ASSUME NEW c \in Container, WorkerScan(c) PROVE TypeOK'
  BY <1>0, <1>12 DEF WorkerScan, TypeOK, WorkerState
<1>13. ASSUME NEW c \in Container, WorkerPanic(c) PROVE TypeOK'
  BY <1>0, <1>13 DEF WorkerPanic, TypeOK
<1>14. ASSUME NEW c \in Container, WorkerDone(c) PROVE TypeOK'
  <2>1. c \in Awaited
    BY <1>14 DEF WorkerDone, Awaited
  <2>2. wg >= 1
    BY <1>0, <2>1, CountRemove, WorkerSetsType
  <2>3. QED
    BY <1>0, <1>14, <2>2 DEF WorkerDone, TypeOK, WorkerState
<1>15. ASSUME NEW c \in Container, WorkerRelease(c) PROVE TypeOK'
  BY <1>0, <1>15 DEF WorkerRelease, TypeOK, WorkerState
<1>16. CASE Crash \/ Stopped \/ UNCHANGED vars
  BY <1>0, <1>16 DEF Crash, Stopped, vars, TypeOK
<1>17. QED
  BY <1>2, <1>3, <1>4, <1>5, <1>6, <1>7, <1>8, <1>9, <1>10, <1>11, <1>12, <1>13, <1>14, <1>15,
     <1>16
  DEF Next, Main, Worker
LEMMA CountStep == IInv /\ [Next]_vars => CountInv'
<1> SUFFICES ASSUME IInv, [Next]_vars PROVE CountInv'
  OBVIOUS
<1> USE DEF mainVars, poolVars
<1>0. /\ worker \in [Container -> WorkerState] /\ sem \in Nat /\ wg \in Nat
      /\ count \in [success : Nat, failed : Nat, skipped : Nat] /\ Slots \in Nat
      /\ UNCHANGED <<request, Slots>> /\ CountInv
  BY RequestFixed, SlotsType DEF IInv, TypeOK, Slots
<1>1. ASSUME UNCHANGED <<worker, sem, wg, count>> PROVE CountInv'
  BY <1>0, <1>1 DEF CountInv, Holding, Awaited, Counted
<1>2. CASE MainAcquire
  <2>1. CASE queue = {}
    BY <1>1, <1>2, <2>1 DEF MainAcquire
  <2>2. CASE queue # {}
    <3>1. PICK c \in Container : /\ worker[c] = "none" /\ worker' = [worker EXCEPT ![c] = "start"]
                                 /\ sem' = sem + 1 /\ wg' = wg + 1 /\ sem < Slots
                                 /\ UNCHANGED count
      BY <1>2, <2>2, Acquire DEF MainAcquire
    <3>2. /\ Holding' = Holding \cup {c} /\ c \notin Holding
          /\ Awaited' = Awaited \cup {c} /\ c \notin Awaited
          /\ Counted' = Counted
      BY <1>0, <3>1 DEF Holding, Awaited, Counted
    <3>3. /\ Cardinality(Holding') = Cardinality(Holding) + 1
          /\ Cardinality(Awaited') = Cardinality(Awaited) + 1
      BY <3>2, CountAdd, WorkerSetsType
    <3>4. QED
      BY <1>0, <3>1, <3>2, <3>3 DEF CountInv
  <2>3. QED
    BY <2>1, <2>2
<1>3. ASSUME NEW c \in Container, worker' = [worker EXCEPT ![c] = "done"],
             worker[c] \in {"start", "check"}, UNCHANGED <<sem, wg>>,
             count'.success + count'.failed + count'.skipped
                = count.success + count.failed + count.skipped + 1,
             count'.skipped = count.skipped + (IF HasCredentials(c) THEN 0 ELSE 1)
      PROVE  CountInv'
  <2>1. /\ Holding' = Holding /\ Awaited' = Awaited
        /\ Counted' = Counted \cup {c} /\ c \notin Counted
    BY <1>0, <1>3 DEF Holding, Awaited, Counted
  <2>2. Cardinality(Counted') = Cardinality(Counted) + 1
    BY <2>1, CountAdd, WorkerSetsType
  <2>3. Cardinality(Skipped') = Cardinality(Skipped) + (IF HasCredentials(c) THEN 0 ELSE 1)
    <3>1. CASE HasCredentials(c)
      <4>1. Skipped' = Skipped
        BY <2>1, <3>1 DEF Skipped
      <4>2. Cardinality(Skipped) \in Nat
        BY ContainersFinite, WorkerSetsType
      <4>3. QED
        BY <3>1, <4>1, <4>2
    <3>2. CASE ~HasCredentials(c)
      <4>1. Skipped' = Skipped \cup {c} /\ c \notin Skipped
        BY <2>1, <3>2 DEF Skipped
      <4>2. QED
        BY <3>2, <4>1, CountAdd, WorkerSetsType
    <3>3. QED
      BY <3>1, <3>2
  <2>4. count.skipped = Cardinality(Skipped) /\ sem = Cardinality(Holding) /\ sem <= Slots
        /\ wg = Cardinality(Awaited)
        /\ count.success + count.failed + count.skipped = Cardinality(Counted)
    BY <1>0 DEF CountInv, Skipped
  <2>5. count'.skipped = Cardinality(Skipped') /\ sem' = Cardinality(Holding') /\ sem' <= Slots'
        /\ wg' = Cardinality(Awaited')
        /\ count'.success + count'.failed + count'.skipped = Cardinality(Counted')
    BY <1>0, <1>3, <2>1, <2>2, <2>3, <2>4
  <2>6. QED
    BY <2>5 DEF CountInv, Skipped
<1>4. ASSUME NEW c \in Container, WorkerStart(c) PROVE CountInv'
  <2>1. CASE HasCredentials(c)
    <3>1. /\ Holding' = Holding /\ Awaited' = Awaited /\ Counted' = Counted
      BY <1>0, <1>4, <2>1 DEF WorkerStart, Holding, Awaited, Counted
    <3>2. UNCHANGED <<sem, wg, count>>
      BY <1>4, <2>1 DEF WorkerStart
    <3>3. QED
      BY <1>0, <3>1, <3>2 DEF CountInv
  <2>2. CASE ~HasCredentials(c)
    <3>1. /\ worker[c] = "start" /\ worker' = [worker EXCEPT ![c] = "done"] /\ UNCHANGED <<sem, wg>>
          /\ count' = [count EXCEPT !.skipped = @ + 1]
      BY <1>4, <2>2 DEF WorkerStart
    <3>2. count'.skipped = count.skipped + 1 /\ count'.success = count.success
          /\ count'.failed = count.failed
      BY <1>0, <3>1
    <3>3. count.success \in Nat /\ count.failed \in Nat /\ count.skipped \in Nat
      BY <1>0
    <3>4. count'.success + count'.failed + count'.skipped
            = count.success + count.failed + count.skipped + 1
      BY <3>2, <3>3
    <3>5. count'.skipped = count.skipped + (IF HasCredentials(c) THEN 0 ELSE 1)
      BY <2>2, <3>2
    <3>6. QED
      BY <1>3, <3>1, <3>4, <3>5
  <2>3. QED
    BY <2>1, <2>2
<1>5. ASSUME NEW c \in Container, WorkerScan(c) PROVE CountInv'
  <2>1. /\ Holding' = Holding /\ Awaited' = Awaited /\ Counted' = Counted
    BY <1>0, <1>5 DEF WorkerScan, Holding, Awaited, Counted
  <2>2. QED
    BY <1>0, <1>5, <2>1 DEF WorkerScan, CountInv
<1>6. ASSUME NEW c \in Container, WorkerCheck(c) PROVE CountInv'
  <2>1. /\ worker[c] = "check" /\ worker' = [worker EXCEPT ![c] = "done"] /\ UNCHANGED <<sem, wg>>
        /\ \/ count' = [count EXCEPT !.failed = @ + 1]
           \/ count' = [count EXCEPT !.success = @ + 1]
    BY <1>6 DEF WorkerCheck
  <2>2. HasCredentials(c)
    BY <1>6, <2>1 DEF IInv, CredentialInv
  <2>3. count'.skipped = count.skipped
        /\ count'.success + count'.failed = count.success + count.failed + 1
    BY <1>0, <2>1
  <2>4. count.success \in Nat /\ count.failed \in Nat /\ count.skipped \in Nat
    BY <1>0
  <2>5. count'.success \in Nat /\ count'.failed \in Nat
    BY <1>0, <2>1
  <2>6. count'.success + count'.failed + count'.skipped
          = count.success + count.failed + count.skipped + 1
    BY <2>3, <2>4, <2>5
  <2>7. count'.skipped = count.skipped + (IF HasCredentials(c) THEN 0 ELSE 1)
    BY <2>2, <2>3, <2>4
  <2>8. QED
    BY <1>3, <2>1, <2>6, <2>7
<1>7. ASSUME NEW c \in Container, WorkerDone(c) PROVE CountInv'
  <2>1. /\ Holding' = Holding /\ Counted' = Counted
        /\ Awaited' = Awaited \ {c} /\ c \in Awaited
    BY <1>0, <1>7 DEF WorkerDone, Holding, Awaited, Counted
  <2>2. Cardinality(Awaited') = Cardinality(Awaited) - 1
    BY <2>1, CountRemove, WorkerSetsType
  <2>3. QED
    BY <1>0, <1>7, <2>1, <2>2 DEF WorkerDone, CountInv
<1>8. ASSUME NEW c \in Container, WorkerRelease(c) PROVE CountInv'
  <2>1. /\ Holding' = Holding \ {c} /\ c \in Holding
        /\ Awaited' = Awaited /\ Counted' = Counted
    BY <1>0, <1>8 DEF WorkerRelease, Holding, Awaited, Counted
  <2>2. Cardinality(Holding') = Cardinality(Holding) - 1 /\ Cardinality(Holding) >= 1
    BY <2>1, CountRemove, WorkerSetsType
  <2>3. sem' = sem - 1 /\ UNCHANGED <<wg, count>>
    BY <1>0, <1>8, <2>2 DEF WorkerRelease, CountInv
  <2>4. QED
    BY <1>0, <2>1, <2>2, <2>3 DEF CountInv
<1>9. ASSUME NEW c \in Container, WorkerPanic(c) PROVE CountInv'
  BY <1>1, <1>9 DEF WorkerPanic
<1>10. CASE MainStart \/ MainConnect \/ MainGetting \/ MainNamespace \/ MainStatus \/ MainFailed
            \/ MainPrepare \/ MainReport \/ Crash \/ Stopped \/ UNCHANGED vars
  BY <1>1, <1>10 DEF MainStart, MainConnect, MainGetting, MainNamespace, MainStatus, MainFailed,
     MainPrepare, MainReport, Crash, Stopped, vars
<1>11. QED
  BY <1>2, <1>4, <1>5, <1>6, <1>7, <1>8, <1>9, <1>10 DEF Next, Main, Worker

\* What is scanned, or was, has credentials.
LEMMA CredentialStep == IInv /\ [Next]_vars => CredentialInv'
<1> SUFFICES ASSUME IInv, [Next]_vars PROVE CredentialInv'
  OBVIOUS
<1> USE DEF mainVars, poolVars
<1>0. worker \in [Container -> WorkerState] /\ CredentialInv
  BY DEF IInv, TypeOK
<1>1. ASSUME UNCHANGED worker PROVE CredentialInv'
  BY <1>0, <1>1 DEF CredentialInv
<1>2. CASE MainAcquire
  <2>1. UNCHANGED worker \/ \E c \in Container : worker' = [worker EXCEPT ![c] = "start"]
    BY <1>2, Acquire DEF MainAcquire
  <2>2. QED
    BY <1>0, <2>1 DEF CredentialInv
<1>3. ASSUME NEW c \in Container, Worker(c) PROVE CredentialInv'
  BY <1>0, <1>3 DEF Worker, WorkerStart, WorkerScan, WorkerCheck, WorkerPanic, WorkerDone,
     WorkerRelease, CredentialInv
<1>4. QED
  BY <1>1, <1>2, <1>3 DEF Next, Main, MainStart, MainConnect, MainGetting, MainNamespace,
     MainStatus, MainFailed, MainPrepare, MainReport, Crash, Stopped, vars
LEMMA ListStep == IInv /\ [Next]_vars => ListInv'
<1> SUFFICES ASSUME IInv, [Next]_vars PROVE ListInv'
  OBVIOUS
<1> USE DEF mainVars, poolVars
<1>0. /\ row \in Row /\ listed \subseteq Container
      /\ statuses \in Seq(Container) /\ containers \in Seq(Container)
      /\ ListInv /\ RowInv
  BY DEF IInv, TypeOK
\* The crawl goes on, gives up, or writes its last row, and records nothing.
<1>1. ASSUME UNCHANGED <<listed, containers>>, pc' # "status",
             \/ pc' \in {"failed", "returned"} /\ row'.status \notin {"scanning containers", "finished"}
             \/ pc \notin {"failed", "returned", "status"}
             \/ row.status \in {"scanning containers", "finished"} /\ pc # "status"
      PROVE  ListInv'
  BY <1>0, <1>1 DEF ListInv
<1>2. ASSUME UNCHANGED <<listed, containers, statuses, pc, row>>
      PROVE  ListInv'
  BY <1>0, <1>2 DEF ListInv
<1>3. CASE MainStart \/ MainConnect \/ MainGetting \/ MainPrepare \/ MainAcquire \/ MainReport
  <2>1. /\ UNCHANGED <<listed, containers>>
        /\ pc \in {"start", "connect", "getting", "prepare", "acquire", "report"}
    BY <1>3 DEF MainStart, MainConnect, MainGetting, MainPrepare, MainAcquire, MainReport
  <2>2. pc' # "status"
    BY <1>3 DEF MainStart, MainConnect, MainGetting, MainPrepare, MainAcquire, MainReport,
       UpdateStatus
  <2>3. QED
    BY <1>1, <2>1, <2>2
<1>4. CASE MainNamespace
  <2>1. CASE listed' = listed \cup Range(statuses') /\ pc' = "status"
    <3>1. pc = "namespace" /\ containers' = containers
      BY <1>4 DEF MainNamespace
    <3>2. QED
      BY <1>0, <2>1, <3>1 DEF ListInv
  <2>2. CASE pc' # "status"
    <3>1. pc = "namespace" /\ UNCHANGED <<listed, containers>>
      BY <1>4, <2>2 DEF MainNamespace
    <3>2. QED
      BY <1>1, <2>2, <3>1
  <2>3. QED
    BY <1>4, <2>1, <2>2 DEF MainNamespace
<1>5. CASE MainStatus
  <2>1. CASE statuses = <<>>
    <3>1. Range(statuses) = {}
      BY <2>1 DEF Range
    <3>2. pc = "status" /\ pc' = "namespace" /\ UNCHANGED <<listed, containers>>
      BY <1>5, <2>1 DEF MainStatus
    <3>3. QED
      BY <1>0, <3>1, <3>2 DEF ListInv
  <2>2. CASE statuses # <<>>
    <3>0. PICK c \in Container : c = Head(statuses)
      BY <1>0, <2>2, HeadTailProperties
    <3>1. Range(statuses) = {c} \cup Range(Tail(statuses))
      BY <1>0, <2>2, <3>0, RangeOfTail
    <3>2. pc = "status" /\ statuses' = Tail(statuses) /\ UNCHANGED <<listed, row>>
      BY <1>5, <2>2 DEF MainStatus
    <3>4. CASE containers' = Append(containers, c) /\ pc' = "status"
      <4>1. Range(containers') = Range(containers) \cup {c}
        BY <1>0, <3>4, RangeOfAppend
      <4>2. QED
        BY <1>0, <3>1, <3>2, <3>4, <4>1 DEF ListInv
    <3>5. CASE pc' = "failed"
      <4>1. row'.status = "getting containers"
        BY <1>0, <3>2 DEF RowInv
      <4>2. QED
        BY <3>5, <4>1 DEF ListInv
    <3>6. QED
      BY <1>5, <2>2, <3>0, <3>4, <3>5 DEF MainStatus
  <2>3. QED
    BY <2>1, <2>2
<1>6. CASE MainFailed
  <2>1. row.status \in {"started", "getting containers"}
    BY <1>0, <1>6 DEF MainFailed, RowInv
  <2>2. row'.status \in {"started", "getting containers", "error"}
    BY <1>0, <1>6, <2>1 DEF MainFailed, UpdateStatus, UpdateCrawler, Row
  <2>3. QED
    BY <1>1, <1>6, <2>2 DEF MainFailed, UpdateStatus
<1>7. ASSUME NEW c \in Container, Worker(c) PROVE ListInv'
  BY <1>2, <1>7 DEF Worker, WorkerStart, WorkerScan, WorkerCheck, WorkerPanic, WorkerDone,
     WorkerRelease
<1>8. CASE Crash \/ Stopped \/ UNCHANGED vars
  BY <1>2, <1>8 DEF Crash, Stopped, vars
<1>9. QED
  BY <1>3, <1>4, <1>5, <1>6, <1>7, <1>8 DEF Next, Main
LEMMA QueueStep == IInv /\ [Next]_vars => QueueInv'
<1> DEFINE Recorded(status) == request.scan /\ status \in {"scanning containers", "finished"}
           Started == {containers[i] : i \in RemoveDuplicates(containers) \ queue}
<1> SUFFICES ASSUME IInv, [Next]_vars PROVE QueueInv'
  OBVIOUS
<1> USE DEF mainVars, poolVars
<1>0. /\ row \in Row /\ containers \in Seq(Container) /\ worker \in [Container -> WorkerState]
      /\ request' = request /\ QueueInv /\ RowInv
  BY RequestFixed DEF IInv, TypeOK
<1>1. ASSUME UNCHANGED <<worker, containers, queue>>, Recorded(row.status) <=> Recorded(row'.status),
             pc' \notin {"acquire", "returned"} => queue = {}
      PROVE  QueueInv'
  <2>1. Handled' = Handled
    BY <1>1 DEF Handled
  <2>2. QED
    BY <1>0, <1>1, <2>1 DEF QueueInv
<1>2. CASE MainStart
  <2>1. row.status = "initializing" /\ row'.status \in {"initializing", "started"} /\ queue = {}
    BY <1>0, <1>2 DEF MainStart, UpdateStatus, UpdateCrawler, RowInv, QueueInv, Row
  <2>2. QED
    BY <1>1, <1>2, <2>1 DEF MainStart
<1>3. CASE MainConnect
  BY <1>0, <1>1, <1>3 DEF MainConnect, QueueInv
<1>4. CASE MainGetting
  <2>1. row.status = "started" /\ row'.status \in {"started", "getting containers"} /\ queue = {}
    BY <1>0, <1>4 DEF MainGetting, UpdateStatus, UpdateCrawler, RowInv, QueueInv, Row
  <2>2. QED
    BY <1>1, <1>4, <2>1 DEF MainGetting
<1>5. CASE MainNamespace
  BY <1>0, <1>1, <1>5 DEF MainNamespace, QueueInv
<1>6. CASE MainStatus
  <2>1. /\ row.status = "getting containers" /\ queue = {} /\ UNCHANGED <<row, queue, worker>>
        /\ pc' # "acquire"
    BY <1>0, <1>6 DEF MainStatus, RowInv, QueueInv
  <2>2. Handled' = {}
    BY <1>0, <2>1 DEF QueueInv, Handled
  <2>3. QED
    BY <2>1, <2>2 DEF QueueInv
<1>7. CASE MainFailed
  <2>1. row.status \in {"started", "getting containers"} /\ queue = {}
    BY <1>0, <1>7 DEF MainFailed, RowInv, QueueInv
  <2>2. row'.status \in {"started", "getting containers", "error"}
    BY <1>0, <1>7, <2>1 DEF MainFailed, UpdateStatus, UpdateCrawler, Row
  <2>3. QED
    BY <1>1, <1>7, <2>1, <2>2 DEF MainFailed
<1>8. CASE MainPrepare
  <2>1. /\ row.status = "getting containers" /\ request.scan /\ UNCHANGED <<worker, containers>>
        /\ queue' = RemoveDuplicates(containers)
    BY <1>0, <1>8 DEF MainPrepare, RowInv
  <2>2. Handled' = {}
    BY <1>0, <2>1 DEF QueueInv, Handled
  <2>3. {containers'[i] : i \in RemoveDuplicates(containers') \ queue'} = {}
    BY <2>1
  <2>4. pc' \in {"acquire", "returned"}
    BY <1>8 DEF MainPrepare, UpdateStatus
  <2>5. QED
    BY <2>1, <2>2, <2>3, <2>4 DEF QueueInv
<1>9. CASE MainAcquire
  <2>1. CASE queue = {}
    BY <1>0, <1>1, <1>9, <2>1 DEF MainAcquire
  <2>2. CASE queue # {}
    <3>1. PICK i \in RemoveDuplicates(containers) :
            /\ i \in queue /\ containers[i] \in Container
            /\ worker' = [worker EXCEPT ![containers[i]] = "start"] /\ queue' = queue \ {i}
            /\ pc' = pc /\ UNCHANGED <<containers, row>>
      BY <1>9, <2>2, Acquire DEF MainAcquire
    <3>2. Recorded(row.status) /\ pc = "acquire"
      BY <1>0, <1>9 DEF MainAcquire, RowInv
    <3>3. Handled' = Handled \cup {containers[i]}
      BY <1>0, <3>1 DEF Handled
    <3>4. Started' = Started \cup {containers[i]}
      BY <3>1
    <3>5. Handled' = Started'
      BY <1>0, <3>2, <3>3, <3>4 DEF QueueInv
    <3>6. QED
      BY <1>0, <3>1, <3>2, <3>5 DEF QueueInv
  <2>3. QED
    BY <2>1, <2>2
<1>10. CASE MainReport
  <2>1. row.status = IF request.scan THEN "scanning containers" ELSE "getting containers"
    BY <1>0, <1>10 DEF MainReport, RowInv
  <2>2. row'.status \in {row.status, "finished"}
    BY <1>0, <1>10 DEF MainReport, UpdateCrawler, FinalRow, Row
  <2>3. QED
    BY <1>1, <1>10, <2>1, <2>2 DEF MainReport
<1>11. ASSUME NEW c \in Container, Worker(c) PROVE QueueInv'
  <2>1. UNCHANGED <<containers, queue, row, pc>>
    BY <1>11 DEF Worker, WorkerStart, WorkerScan, WorkerCheck, WorkerPanic, WorkerDone,
       WorkerRelease
  <2>2. worker[c] # "none" /\ worker'[c] # "none"
        /\ \A d \in Container : d # c => worker'[d] = worker[d]
    BY <1>0, <1>11 DEF Worker, WorkerStart, WorkerScan, WorkerCheck, WorkerPanic, WorkerDone,
       WorkerRelease
  <2>3. Handled' = Handled
    BY <2>2 DEF Handled
  <2>4. QED
    BY <1>0, <2>1, <2>3 DEF QueueInv
<1>12. CASE Crash \/ Stopped \/ UNCHANGED vars
  BY <1>0, <1>1, <1>12 DEF Crash, Stopped, vars, QueueInv
<1>13. QED
  BY <1>2, <1>3, <1>4, <1>5, <1>6, <1>7, <1>8, <1>9, <1>10, <1>11, <1>12 DEF Next, Main

LEMMA RowStep == IInv /\ [Next]_vars => RowInv'
<1> SUFFICES ASSUME IInv, [Next]_vars PROVE RowInv'
  OBVIOUS
<1> USE DEF mainVars, poolVars
<1>0. /\ row \in Row /\ count \in [success : Nat, failed : Nat, skipped : Nat]
      /\ request' = request /\ QueueInv /\ RowInv
  BY RequestFixed DEF IInv, TypeOK
<1>1. ASSUME UNCHANGED <<pc, row, containers, queue, wg, count>> PROVE RowInv'
  BY <1>0, <1>1 DEF RowInv
\* Until the last write the row has no outcome.
<1>2. pc # "returned" => row.status # "finished" /\ row.images = NoTotal
  BY <1>0 DEF RowInv
<1>3. ASSUME NEW s \in {"started", "getting containers", "scanning containers", "error"},
             NEW next, NEW otherwise, UpdateStatus(s, next, otherwise), pc # "returned"
      PROVE  /\ row'.images = NoTotal /\ row'.status \in {s, row.status}
             /\ \/ row'.status = s /\ pc' = next
                \/ pc' = otherwise
  BY <1>0, <1>2, <1>3 DEF UpdateStatus, UpdateCrawler, Row
<1>4. CASE MainStart
  <2>1. pc = "start" /\ row.status = "initializing" /\ UNCHANGED containers /\ containers = <<>>
    BY <1>0, <1>4 DEF MainStart, RowInv
  <2>2. row'.images = NoTotal /\ row'.status \in {"started", "initializing"}
        /\ ((row'.status = "started" /\ pc' = "connect") \/ pc' = "returned")
    BY <1>3, <1>4, <2>1 DEF MainStart
  <2>3. QED
    BY <2>1, <2>2 DEF RowInv
<1>5. CASE MainConnect
  BY <1>0, <1>5 DEF MainConnect, RowInv
<1>6. CASE MainGetting
  <2>1. pc = "getting" /\ row.status = "started"
    BY <1>0, <1>6 DEF MainGetting, RowInv
  <2>2. row'.images = NoTotal /\ row'.status \in {"getting containers", "started"}
        /\ ((row'.status = "getting containers" /\ pc' = "namespace") \/ pc' = "failed")
    BY <1>3, <1>6, <2>1 DEF MainGetting
  <2>3. QED
    BY <2>2 DEF RowInv
<1>7. CASE MainNamespace
  <2>1. row.status = "getting containers" /\ row.images = NoTotal /\ UNCHANGED row
        /\ pc' \in {"status", "failed", "prepare", "report"}
        /\ (pc' = "prepare" => request.scan) /\ (pc' = "report" => ~request.scan)
    BY <1>0, <1>7 DEF MainNamespace, RowInv
  <2>2. QED
    BY <1>0, <2>1 DEF RowInv
<1>8. CASE MainStatus
  <2>1. row.status = "getting containers" /\ row.images = NoTotal /\ UNCHANGED row
        /\ pc' \in {"status", "failed", "namespace"}
    BY <1>0, <1>8 DEF MainStatus, RowInv
  <2>2. QED
    BY <2>1 DEF RowInv
<1>9. CASE MainFailed
  <2>1. pc = "failed" /\ row.status # "finished"
    BY <1>2, <1>9 DEF MainFailed
  <2>2. row'.images = NoTotal /\ row'.status # "finished" /\ pc' = "returned"
    BY <1>3, <1>9, <2>1 DEF MainFailed
  <2>3. QED
    BY <2>2 DEF RowInv
<1>10. CASE MainPrepare
  <2>1. pc = "prepare" /\ row.status = "getting containers" /\ request.scan
    BY <1>0, <1>10 DEF MainPrepare, RowInv
  <2>2. row'.images = NoTotal /\ row'.status \in {"scanning containers", "getting containers"}
        /\ ((row'.status = "scanning containers" /\ pc' = "acquire") \/ pc' = "returned")
    BY <1>3, <1>10, <2>1 DEF MainPrepare
  <2>3. QED
    BY <1>0, <2>1, <2>2 DEF RowInv
<1>11. CASE MainAcquire
  <2>1. row.status = "scanning containers" /\ request.scan /\ row.images = NoTotal
        /\ UNCHANGED row /\ pc' \in {"acquire", "report"}
    BY <1>0, <1>11 DEF MainAcquire, RowInv
  <2>2. QED
    BY <1>0, <2>1 DEF RowInv
<1>12. CASE MainReport
  <2>1. /\ pc = "report" /\ pc' = "returned" /\ wg = 0 /\ queue = {} /\ row.images = NoTotal
        /\ row.status # "finished" /\ UNCHANGED <<wg, queue, containers, count>>
        /\ (row' = row \/ row' = FinalRow)
    BY <1>0, <1>2, <1>12 DEF MainReport, UpdateCrawler, QueueInv
  <2>2. /\ FinalRow.status = "finished"
        /\ request.scan => /\ FinalRow.images = Cardinality(RemoveDuplicates(containers))
                           /\ FinalRow.success = count.success /\ FinalRow.failed = count.failed
                           /\ FinalRow.skipped = count.skipped
    BY <1>0 DEF FinalRow, Row
  <2>3. CASE row' = row
    BY <2>1, <2>3 DEF RowInv
  <2>4. CASE row' = FinalRow
    BY <1>0, <2>1, <2>2, <2>4 DEF RowInv
  <2>5. QED
    BY <2>1, <2>3, <2>4
<1>13. ASSUME NEW c \in Container, WorkerStart(c) \/ WorkerCheck(c) \/ WorkerDone(c) PROVE RowInv'
  <2>1. c \in Awaited
    BY <1>13 DEF WorkerStart, WorkerCheck, WorkerDone, Awaited
  <2>2. wg >= 1
    BY <2>1, CountRemove, WorkerSetsType DEF IInv, CountInv
  <2>3. row.status # "finished" /\ row.images = NoTotal
    <3>1. /\ row.status = "finished" => wg = 0
          /\ row.images # NoTotal => row.status = "finished"
      BY <1>0 DEF RowInv
    <3>2. wg # 0
      BY <2>2
    <3>3. QED
      BY <3>1, <3>2
  <2>4. UNCHANGED <<pc, row, containers, queue>>
    BY <1>13 DEF WorkerStart, WorkerCheck, WorkerDone
  <2>5. QED
    BY <1>0, <2>3, <2>4 DEF RowInv
<1>14. ASSUME NEW c \in Container, WorkerScan(c) \/ WorkerPanic(c) \/ WorkerRelease(c) PROVE RowInv'
  BY <1>1, <1>14 DEF WorkerScan, WorkerPanic, WorkerRelease
<1>15. CASE Crash \/ Stopped \/ UNCHANGED vars
  BY <1>1, <1>15 DEF Crash, Stopped, vars
<1>16. QED
  BY <1>4, <1>5, <1>6, <1>7, <1>8, <1>9, <1>10, <1>11, <1>12, <1>13, <1>14, <1>15
  DEF Next, Main, Worker
\* With one thread two workers are never past their start together.
LEMMA OneWorker ==
    ASSUME IInv, request.maxThreads = 1, NEW c \in Holding, NEW d \in Holding
    PROVE  c = d
<1>1. Cardinality(Holding) <= 1
  BY DEF IInv, CountInv, Slots
<1>2. QED
  BY <1>1, AtMostOne, WorkerSetsType

LEMMA SequentialStep == IInv /\ [Next]_vars => SequentialInv'
<1> SUFFICES ASSUME IInv, [Next]_vars PROVE SequentialInv'
  OBVIOUS
<1> USE DEF mainVars, poolVars
<1>0. /\ worker \in [Container -> WorkerState] /\ bad \subseteq Container /\ err \in BOOLEAN
      /\ count \in [success : Nat, failed : Nat, skipped : Nat] /\ request' = request
      /\ SequentialInv
  BY RequestFixed DEF IInv, TypeOK
<1>1. ASSUME UNCHANGED <<worker, err, bad, count>> PROVE SequentialInv'
  BY <1>0, <1>1 DEF SequentialInv
\* The main goroutine writes err only while no worker is about to read it.
<1>2. ASSUME \A c \in Container : worker[c] # "check", UNCHANGED <<worker, bad, count>>
      PROVE  SequentialInv'
  BY <1>0, <1>2 DEF SequentialInv
<1>3. CASE MainStart \/ MainGetting \/ MainFailed \/ MainPrepare
  <2>1. row.status \notin {"scanning containers", "finished"}
    BY <1>3 DEF MainStart, MainGetting, MainFailed, MainPrepare, IInv, RowInv
  <2>2. Handled = {}
    BY <2>1 DEF IInv, QueueInv
  <2>3. \A c \in Container : worker[c] # "check"
    BY <2>2 DEF Handled
  <2>4. UNCHANGED <<worker, bad, count>>
    BY <1>3 DEF MainStart, MainGetting, MainFailed, MainPrepare
  <2>5. QED
    BY <1>2, <2>3, <2>4
<1>4. CASE MainReport
  <2>1. Awaited = {}
    BY <1>4, CountNone, WorkerSetsType DEF MainReport, IInv, CountInv
  <2>2. \A c \in Container : worker[c] # "check"
    BY <2>1 DEF Awaited
  <2>3. QED
    BY <1>2, <1>4, <2>2 DEF MainReport
<1>5. CASE MainAcquire
  <2>1. CASE queue = {}
    BY <1>1, <1>5, <2>1 DEF MainAcquire
  <2>2. CASE queue # {}
    <3>1. UNCHANGED <<err, bad, count>>
          /\ \E c \in Container : worker[c] = "none" /\ worker' = [worker EXCEPT ![c] = "start"]
      BY <1>5, <2>2, Acquire DEF MainAcquire
    <3>2. Uncounted' = Uncounted
      BY <1>0, <3>1 DEF Uncounted
    <3>3. QED
      BY <1>0, <3>1, <3>2 DEF SequentialInv, Uncounted
  <2>3. QED
    BY <2>1, <2>2
<1>6. ASSUME NEW c \in Container, WorkerStart(c) PROVE SequentialInv'
  <2>1. /\ worker[c] = "start" /\ count'.failed = count.failed /\ UNCHANGED <<err, bad>>
        /\ \E s \in {"scan", "done"} : worker' = [worker EXCEPT ![c] = s]
    BY <1>0, <1>6 DEF WorkerStart
  <2>2. Uncounted' = Uncounted
    BY <1>0, <2>1 DEF Uncounted
  <2>3. QED
    BY <1>0, <2>1, <2>2 DEF SequentialInv, Uncounted
<1>7. ASSUME NEW c \in Container, WorkerScan(c) PROVE SequentialInv'
  <2>1. /\ c \notin bad /\ worker' = [worker EXCEPT ![c] = "check"] /\ UNCHANGED count
        /\ err' \in BOOLEAN /\ bad' = (IF err' THEN bad \cup {c} ELSE bad) /\ worker[c] = "scan"
    BY <1>0, <1>7 DEF WorkerScan, SequentialInv
  <2>2. \A d \in Container : worker'[d] \in {"none", "start", "scan"} => d \notin bad'
    BY <1>0, <2>1 DEF SequentialInv
  <2>3. ASSUME request.maxThreads = 1
        PROVE  \A d \in Container : worker'[d] = "check" => d = c
    BY <1>0, <2>1, <2>3, OneWorker DEF Holding
  <2>4. Uncounted' = Uncounted
    BY <1>0, <2>1 DEF Uncounted
  <2>5. QED
    BY <1>0, <2>1, <2>2, <2>3, <2>4 DEF SequentialInv, Uncounted
<1>8. ASSUME NEW c \in Container, WorkerCheck(c) PROVE SequentialInv'
  <2>1. /\ worker' = [worker EXCEPT ![c] = "done"] /\ worker[c] = "check" /\ UNCHANGED <<err, bad>>
        /\ count'.failed = count.failed + (IF err THEN 1 ELSE 0)
    BY <1>0, <1>8 DEF WorkerCheck
  <2>2. ASSUME request.maxThreads = 1
        PROVE  Cardinality(Uncounted') = Cardinality(Uncounted) + (IF err THEN 1 ELSE 0)
    <3>1. CASE err
      <4>1. c \in bad /\ Uncounted' = Uncounted \cup {c} /\ c \notin Uncounted
        BY <1>0, <2>1, <2>2, <3>1 DEF SequentialInv, Uncounted
      <4>2. Uncounted \in SUBSET Container
        BY <1>0 DEF Uncounted
      <4>3. QED
        BY <3>1, <4>1, <4>2, CountAdd
    <3>2. CASE ~err
      <4>1. Uncounted' = Uncounted /\ Uncounted \in SUBSET Container
        BY <1>0, <2>1, <2>2, <3>2 DEF SequentialInv, Uncounted
      <4>2. QED
        BY <3>2, <4>1, ContainersFinite
    <3>3. QED
      BY <3>1, <3>2
  <2>3. QED
    BY <1>0, <2>1, <2>2 DEF SequentialInv, Uncounted
<1>9. ASSUME NEW c \in Container, WorkerDone(c) \/ WorkerRelease(c) PROVE SequentialInv'
  <2>1. worker[c] \in {"done", "release"} /\ UNCHANGED <<err, bad, count>>
        /\ \E s \in {"release", "gone"} : worker' = [worker EXCEPT ![c] = s]
    BY <1>9 DEF WorkerDone, WorkerRelease
  <2>2. Uncounted' = Uncounted
    BY <1>0, <2>1 DEF Uncounted
  <2>3. QED
    BY <1>0, <2>1, <2>2 DEF SequentialInv, Uncounted
<1>10. ASSUME NEW c \in Container, WorkerPanic(c) PROVE SequentialInv'
  BY <1>1, <1>10 DEF WorkerPanic
<1>11. CASE MainConnect \/ MainNamespace \/ MainStatus \/ Crash \/ Stopped \/ UNCHANGED vars
  BY <1>1, <1>11 DEF MainConnect, MainNamespace, MainStatus, Crash, Stopped, vars
<1>12. QED
  BY <1>3, <1>4, <1>5, <1>6, <1>7, <1>8, <1>9, <1>10, <1>11 DEF Next, Main, Worker

\* IInv is an invariant of every crawl.
THEOREM Invariance == Spec => []IInv
<1>1. IInv /\ [Next]_vars => IInv'
  BY TypeStep, CountStep, ListStep, QueueStep, RowStep, CredentialStep, SequentialStep DEF IInv
<1>2. QED
  BY InitInv, <1>1, PTL DEF Spec

(* ------------------------------------------------------------------------ *)
(* What follows from it. *)

\* However the workers interleave, no more images are scanned at a time than
\* the request, or the default, allows.
THEOREM Bounded == Spec => []ScansBounded
<1>1. ASSUME IInv PROVE ScansBounded
  <2>1. Scanning \subseteq Holding /\ Holding \in SUBSET Container
    BY DEF Scanning, Holding
  <2>2. /\ Cardinality(Scanning) <= Cardinality(Holding)
        /\ Cardinality(Scanning) \in Nat /\ Cardinality(Holding) \in Nat
    BY <2>1, ContainersFinite, FS_Subset
  <2>3. Cardinality(Holding) <= Slots /\ Slots \in Nat
    BY <1>1, SlotsType DEF IInv, CountInv
  <2>4. QED
    BY <2>2, <2>3 DEF ScansBounded
<1>2. QED
  BY <1>1, Invariance, PTL

\* Once the row is final every kept image was handled and counted.
LEMMA FinalState ==
    ASSUME IInv, request.scan, row.status = "finished"
    PROVE  /\ Awaited = {} /\ Counted = Handled
           /\ containers \in Seq(Container) /\ listed = Range(containers)
           /\ Handled = {containers[i] : i \in RemoveDuplicates(containers)}
<1>1. pc = "returned" /\ wg = 0 /\ queue = {}
  BY DEF IInv, RowInv
<1>2. Awaited = {}
  BY <1>1, CountNone, WorkerSetsType DEF IInv, CountInv
<1>3. Counted = Handled
  BY <1>2 DEF Awaited, Counted, Handled, IInv, TypeOK, WorkerState
<1>4. listed = Range(containers) /\ containers \in Seq(Container)
  BY <1>1 DEF IInv, ListInv, TypeOK
<1>5. Handled = {containers[i] : i \in RemoveDuplicates(containers)}
  BY <1>1 DEF IInv, QueueInv
<1>6. QED
  BY <1>2, <1>3, <1>4, <1>5

\* The numbers of a summary add up.
THEOREM SummariesAddUp == Spec => []SummaryAddsUp
<1>1. ASSUME IInv PROVE SummaryAddsUp
  <2>1. SUFFICES ASSUME request.scan, row.images # NoTotal
                 PROVE  /\ row.images = row.success + row.failed + row.skipped
                        /\ row.skipped = Cardinality({c \in Handled : ~HasCredentials(c)})
    BY DEF SummaryAddsUp
  <2>2. /\ row.status = "finished" /\ row.images = Cardinality(RemoveDuplicates(containers))
        /\ row.success = count.success /\ row.failed = count.failed
        /\ row.skipped = count.skipped
    BY <1>1, <2>1 DEF IInv, RowInv
  <2>3. /\ Counted = Handled /\ containers \in Seq(Container)
        /\ Handled = {containers[i] : i \in RemoveDuplicates(containers)}
    BY <1>1, <2>1, <2>2, FinalState
  <2>4. RemoveDuplicates(containers) \in SUBSET RemoveDuplicates(containers)
    OBVIOUS
  <2>5. Cardinality(Handled) = Cardinality(RemoveDuplicates(containers))
    BY <2>3, <2>4, KeptCount
  <2>6. /\ count.success + count.failed + count.skipped = Cardinality(Counted)
        /\ count.skipped = Cardinality({c \in Counted : ~HasCredentials(c)})
    BY <1>1 DEF IInv, CountInv
  <2>7. QED
    BY <2>2, <2>3, <2>5, <2>6
<1>2. QED
  BY <1>1, Invariance, PTL

\* Each digest of the cluster was handled once, and of an image run by docker, one of
\* the same content was.
THEOREM HandledOnce == Spec => []EachImageIsHandledOnce
<1>1. ASSUME IInv PROVE EachImageIsHandledOnce
  <2>1. SUFFICES ASSUME request.scan, row.status = "finished", NEW c \in listed
                 PROVE  /\ Cardinality({d \in Handled : Digest(d) = Digest(c)}) = 1
                        /\ c.scheme \in {"docker", "docker-pullable"} =>
                            \E d \in Handled : d.digest = c.digest
    BY DEF EachImageIsHandledOnce
  <2>2. /\ containers \in Seq(Container) /\ c \in Range(containers)
        /\ Handled = {containers[i] : i \in RemoveDuplicates(containers)}
    BY <1>1, <2>1, FinalState
  <2>3. PICK i \in RemoveDuplicates(containers) : Digest(containers[i]) = Digest(c)
    BY <2>2, DigestKept
  <2>4. \A j \in RemoveDuplicates(containers) : Digest(containers[j]) = Digest(c) => j = i
    BY <2>2, <2>3, KeptDiffer
  <2>5. {d \in Handled : Digest(d) = Digest(c)} = {containers[i]}
    BY <2>2, <2>3, <2>4
  <2>6. ASSUME c.scheme \in {"docker", "docker-pullable"}
        PROVE  \E d \in Handled : d.digest = c.digest
    <3>1. c \in Container
      BY <1>1 DEF IInv, TypeOK
    <3>2. Digest(c) = c.digest /\ c.digest # NoDigest
      BY <2>6, <3>1, ContainerAssumption DEF Digest
    <3>3. containers[i].digest = c.digest
      BY <2>3, <3>2 DEF Digest
    <3>4. QED
      BY <2>2, <2>3, <3>3
  <2>7. QED
    BY <2>5, <2>6, FS_Singleton
<1>2. QED
  BY <1>1, Invariance, PTL

\* With one thread the race on err is harmless: the failures are counted.
THEOREM ExactCount == Spec => []SequentialCountIsExact
<1>1. ASSUME IInv PROVE SequentialCountIsExact
  <2>1. SUFFICES ASSUME request.maxThreads = 1, request.scan, row.images # NoTotal
                 PROVE  row.failed = Cardinality(bad)
    BY DEF SequentialCountIsExact
  <2>2. row.status = "finished" /\ row.failed = count.failed
    BY <1>1, <2>1 DEF IInv, RowInv
  <2>3. Awaited = {}
    BY <1>1, <2>1, <2>2, FinalState
  <2>4. {c \in bad : worker[c] # "check"} = bad
    BY <1>1, <2>3 DEF Awaited, IInv, TypeOK
  <2>5. count.failed = Cardinality({c \in bad : worker[c] # "check"})
    BY <1>1, <2>1 DEF IInv, SequentialInv
  <2>6. QED
    BY <2>2, <2>4, <2>5
<1>2. QED
  BY <1>1, Invariance, PTL

(* ------------------------------------------------------------------------ *)
(* The refinement. *)

Ended == {c \in Container : worker[c] \in {"release", "gone"}}

\* The Cardinality of CrawlJob is that of this module.
LEMMA JobCardinality ==
    ASSUME NEW S
    PROVE  Job!Cardinality(S) = Cardinality(S)
BY DEF Cardinality, Job!Cardinality

\* The summary a client sees, as a number of images.
Total == IF request.scan THEN row.images ELSE NoTotal

\* What the client sees is unchanged.
LEMMA JobStutter ==
    ASSUME UNCHANGED <<request, row, worker>>
    PROVE  UNCHANGED Job!vars
BY DEF Job!vars, Awaited

\* The statuses of a crawl in progress are in the order of CrawlJob.
LEMMA JobRanks ==
    /\ Job!Rank["initializing"] < Job!Rank["started"]
    /\ Job!Rank["started"] < Job!Rank["getting containers"]
    /\ Job!Rank["getting containers"] < Job!Rank["scanning containers"]
<1>1. PICK i, s, g, c : /\ i = Job!Rank["initializing"] /\ s = Job!Rank["started"]
                       /\ g = Job!Rank["getting containers"]
                       /\ c = Job!Rank["scanning containers"]
  OBVIOUS
<1>2. i = 0
  BY <1>1 DEF Job!Rank
<1>3. s = 1
  BY <1>1 DEF Job!Rank
<1>4. g = 2
  BY <1>1 DEF Job!Rank
<1>5. c = 3
  BY <1>1 DEF Job!Rank
<1>6. i < s /\ s < g /\ g < c
  BY <1>2, <1>3, <1>4, <1>5
<1>7. QED
  BY <1>1, <1>6

\* A step between two phases of the crawl.
LEMMA JobAdvance ==
    ASSUME NEW s \in {"started", "getting containers", "scanning containers"},
           UNCHANGED <<request, worker>>, row'.images = row.images,
           \/ s = "started" /\ row.status = "initializing"
           \/ s = "getting containers" /\ row.status = "started"
           \/ s = "scanning containers" /\ row.status = "getting containers",
           row'.status = s
    PROVE  [Job!Next]_(Job!vars)
<1>1. UNCHANGED <<Total, Awaited, Ended>>
  BY DEF Total, Awaited, Ended
<1>2. Job!Rank[row.status] < Job!Rank[s]
  BY JobRanks, Zenon
<1>3. Job!Advance(s)
  BY <1>1, <1>2 DEF Job!Advance, Job!Final, Ended, Total
<1>4. QED
  BY <1>3 DEF Job!Next, Job!Rank

\* Every step of a crawl is a step of CrawlJob or leaves its variables alone.
LEMMA JobStep == IInv /\ [Next]_vars => [Job!Next]_(Job!vars)
<1> SUFFICES ASSUME IInv, [Next]_vars PROVE [Job!Next]_(Job!vars)
  OBVIOUS
<1> USE DEF mainVars, poolVars
<1>0. worker \in [Container -> WorkerState] /\ row \in Row /\ request' = request /\ RowInv
  BY RequestFixed DEF IInv, TypeOK
<1>1. ASSUME NEW s \in {"started", "getting containers", "scanning containers", "error"},
             NEW next, NEW otherwise, UpdateStatus(s, next, otherwise), UNCHANGED worker
      PROVE  \/ [Job!Next]_(Job!vars)
             \/ row'.status = s /\ row'.images = row.images
  <2>1. row' = row \/ row' = [row EXCEPT !.status = s]
    BY <1>1 DEF UpdateStatus, UpdateCrawler
  <2>2. CASE row' = row
    BY <1>0, <1>1, <2>2, JobStutter
  <2>3. CASE row' = [row EXCEPT !.status = s]
    BY <1>0, <2>3 DEF Row
  <2>4. QED
    BY <2>1, <2>2, <2>3
<1>2. CASE MainStart
  <2>1. row.status = "initializing" /\ UNCHANGED worker
    BY <1>0, <1>2 DEF MainStart, RowInv
  <2>2. QED
    BY <1>0, <1>1, <1>2, <2>1, JobAdvance DEF MainStart
<1>3. CASE MainGetting
  <2>1. row.status = "started" /\ UNCHANGED worker
    BY <1>0, <1>3 DEF MainGetting, RowInv
  <2>2. QED
    BY <1>0, <1>1, <1>3, <2>1, JobAdvance DEF MainGetting
<1>4. CASE MainPrepare
  <2>1. row.status = "getting containers" /\ UNCHANGED worker
    BY <1>0, <1>4 DEF MainPrepare, RowInv
  <2>2. QED
    BY <1>0, <1>1, <1>4, <2>1, JobAdvance DEF MainPrepare
<1>5. CASE MainFailed
  <2>1. row.status \in {"started", "getting containers"} /\ row.images = NoTotal /\ UNCHANGED worker
    BY <1>0, <1>5 DEF MainFailed, RowInv
  <2>2. Handled = {}
    BY <2>1 DEF IInv, QueueInv
  <2>3. Awaited = {} /\ Awaited' = {} /\ Ended' = Ended
    BY <2>1, <2>2 DEF Handled, Awaited, Ended
  <2>4. CASE row'.status = "error" /\ row'.images = row.images
    <3>1. Total = NoTotal /\ Total' = NoTotal
      BY <2>1, <2>4 DEF Total
    <3>2. Job!Report("error")
      BY <2>1, <2>3, <2>4, <3>1 DEF Job!Report, Job!Final, Ended, Total
    <3>3. QED
      BY <3>2 DEF Job!Next, Job!Rank
  <2>5. QED
    BY <1>1, <1>5, <2>1, <2>4 DEF MainFailed
<1>6. CASE MainAcquire
  <2>1. CASE queue = {}
    BY <1>0, <1>6, <2>1, JobStutter DEF MainAcquire
  <2>2. CASE queue # {}
    <3>1. PICK c \in Container : worker[c] = "none" /\ worker' = [worker EXCEPT ![c] = "start"]
      BY <1>6, <2>2, Acquire
    <3>2. row.status = "scanning containers" /\ UNCHANGED row
      BY <1>0, <1>6 DEF MainAcquire, RowInv
    <3>3. /\ Awaited' = Awaited \cup {c} /\ c \notin Awaited
          /\ Ended' = Ended /\ c \notin Ended /\ Total' = Total
      BY <1>0, <3>1, <3>2 DEF Awaited, Ended, Total
    <3>4. Job!BeginScan(c)
      BY <3>2, <3>3 DEF Job!BeginScan, Job!Final, Ended, Total
    <3>5. QED
      BY <3>1, <3>4 DEF Job!Next
  <2>3. QED
    BY <2>1, <2>2
<1>7. CASE MainReport
  <2>1. /\ row.status \in {"scanning containers", "getting containers"} /\ row.images = NoTotal
        /\ (request.scan => row.status = "scanning containers")
        /\ wg = 0 /\ queue = {} /\ UNCHANGED worker /\ (row' = row \/ row' = FinalRow)
    BY <1>0, <1>7 DEF MainReport, UpdateCrawler, RowInv, IInv, QueueInv
  <2>2. CASE row' = row
    BY <1>0, <2>1, <2>2, JobStutter
  <2>3. CASE row' = FinalRow
    <3>1. Awaited = {} /\ Awaited' = Awaited /\ Ended' = Ended
      BY <2>1, CountNone, WorkerSetsType DEF IInv, CountInv, Awaited, Ended
    <3>2. Total = NoTotal /\ Total' \in {NoTotal, Cardinality(Ended)}
      <4>1. CASE ~request.scan
        BY <1>0, <4>1 DEF Total
      <4>2. CASE request.scan
        <5>1. Handled = {containers[i] : i \in RemoveDuplicates(containers)}
          BY <2>1, <4>2 DEF IInv, QueueInv
        <5>2. Handled = Ended
          BY <1>0, <3>1 DEF Awaited, Handled, Ended, WorkerState
        <5>3. containers \in Seq(Container)
              /\ RemoveDuplicates(containers) \in SUBSET RemoveDuplicates(containers)
          BY DEF IInv, TypeOK
        <5>4. Cardinality(Ended) = Cardinality(RemoveDuplicates(containers))
          BY <5>1, <5>2, <5>3, KeptCount
        <5>5. row'.images = Cardinality(RemoveDuplicates(containers))
          BY <1>0, <2>3, <4>2 DEF FinalRow, Row
        <5>6. QED
          BY <1>0, <2>1, <4>2, <5>4, <5>5 DEF Total
      <4>3. QED
        BY <4>1, <4>2
    <3>3. row'.status = "finished"
      BY <1>0, <2>3 DEF FinalRow, Row
    <3>4. Job!Report("finished")
      BY <2>1, <3>1, <3>2, <3>3, JobCardinality DEF Job!Report, Job!Final, Ended, Total
    <3>5. QED
      BY <3>4 DEF Job!Next, Job!Rank
  <2>4. QED
    BY <2>1, <2>2, <2>3
<1>8. ASSUME NEW c \in Container,
             WorkerStart(c) \/ WorkerScan(c) \/ WorkerCheck(c) \/ WorkerRelease(c)
      PROVE  UNCHANGED Job!vars
  <2>1. UNCHANGED <<row, Total>>
    BY <1>0, <1>8 DEF WorkerStart, WorkerScan, WorkerCheck, WorkerRelease, Total
  <2>2. UNCHANGED <<Awaited, Ended>>
    BY <1>0, <1>8 DEF WorkerStart, WorkerScan, WorkerCheck, WorkerRelease, Awaited, Ended
  <2>3. QED
    BY <2>1, <2>2 DEF Job!vars, Ended, Total
<1>9. ASSUME NEW c \in Container, WorkerDone(c) PROVE Job!Next
  <2>1. c \in Awaited /\ Awaited' = Awaited \ {c} /\ Ended' = Ended \cup {c}
        /\ UNCHANGED <<row, Total>>
    BY <1>0, <1>9 DEF WorkerDone, Awaited, Ended, Total
  <2>2. Job!EndScan(c)
    BY <2>1 DEF Job!EndScan, Ended, Total
  <2>3. QED
    BY <2>2 DEF Job!Next
<1>10. ASSUME NEW c \in Container, WorkerPanic(c) PROVE UNCHANGED Job!vars
  BY <1>0, <1>10, JobStutter DEF WorkerPanic
<1>11. CASE MainConnect \/ MainNamespace \/ MainStatus \/ Crash \/ Stopped \/ UNCHANGED vars
  BY <1>0, <1>11, JobStutter DEF MainConnect, MainNamespace, MainStatus, Crash, Stopped, vars
<1>12. QED
  BY <1>2, <1>3, <1>4, <1>5, <1>6, <1>7, <1>8, <1>9, <1>10, <1>11 DEF Next, Main, Worker

\* The cluster crawl implements what a crawl promises to its client.
THEOREM Refinement == Spec => JobSpec
<1>1. Init => Job!Init
  <2>1. Init => Awaited = {} /\ Ended = {} /\ Total = NoTotal
    BY DEF Init, Awaited, Ended, Total
  <2>2. QED
    BY <2>1 DEF Init, Job!Init, Ended, Total
<1>2. QED
  BY <1>1, JobStep, Invariance, PTL DEF Spec, JobSpec, Job!Spec
=============================================================================
