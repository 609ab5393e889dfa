---------------------------- MODULE ServerProofs ----------------------------
(* Proofs about CrawlerApi and Server for every set of requests and number of
   restarts: the inductive invariants IInv and ServerInv, and from them the
   safety and the action properties the runs check.  Server implements
   CrawlerApi, so that what is proved of the crawler API holds in it. *)
EXTENDS Server, FiniteSetTheorems, TLAPS

(* ------------------------------------------------------------------------ *)
(* Counting requests. *)

LEMMA PostsFinite ==
    /\ Cardinality(Post) \in Nat
    /\ \A S \in SUBSET Post : /\ IsFiniteSet(S) /\ Cardinality(S) \in Nat
                              /\ Cardinality(S) <= Cardinality(Post)
<1>1. IsFiniteSet(Post)
  BY PostAssumption
<1>2. \A S \in SUBSET Post : IsFiniteSet(S) /\ Cardinality(S) <= Cardinality(Post)
  BY <1>1, FS_Subset
<1>3. QED
  BY <1>1, <1>2, FS_CardinalityType

LEMMA CountAdd ==
    ASSUME NEW S \in SUBSET Post, NEW p \in Post, p \notin S
    PROVE  Cardinality(S \cup {p}) = Cardinality(S) + 1
BY PostsFinite, FS_AddElement

LEMMA CountMore ==
    ASSUME NEW S \in SUBSET Post, NEW T \in SUBSET Post, S \subseteq T
    PROVE  Cardinality(S) <= Cardinality(T)
BY PostsFinite, FS_Subset

LEMMA IdType == \A i \in Id : i \in Nat /\ i >= 1 /\ i # None
BY PostsFinite, NoneAssumption DEF Id

LEMMA SpentType == Spent \in SUBSET Post
BY DEF Spent

(* ------------------------------------------------------------------------ *)
(* The order of the statuses. *)

LEMMA Ranks ==
    /\ Rank("initializing") = 0 /\ Rank("started") = 1 /\ Rank("getting containers") = 2
    /\ Rank("scanning containers") = 3 /\ Rank("finished") = 4 /\ Rank("error") = 4
<1>1. Rank("initializing") = 0
  BY DEF Rank, Final
<1>2. Rank("started") = 1
  BY DEF Rank, Final
<1>3. Rank("getting containers") = 2
  BY DEF Rank, Final
<1>4. Rank("scanning containers") = 3
  BY DEF Rank, Final
<1>5. Rank("finished") = 4
  BY DEF Rank, Final
<1>6. Rank("error") = 4
  BY DEF Rank, Final
<1>7. QED
  BY <1>1, <1>2, <1>3, <1>4, <1>5, <1>6

LEMMA RankType ==
    ASSUME NEW s \in Status
    PROVE  Rank(s) \in Nat /\ Rank(s) <= 4 /\ (s \in Final => Rank(s) = 4)
<1>1. PICK r : r = Rank(s)
  OBVIOUS
<1>2. r \in {0, 1, 2, 3, 4} /\ (s \in Final => r = 4)
  <2>1. CASE s \in {"initializing", "started"}
    BY <1>1, <2>1, Ranks, Zenon DEF Final
  <2>2. CASE s \in {"getting containers", "scanning containers"}
    BY <1>1, <2>2, Ranks, Zenon DEF Final
  <2>3. CASE s \in {"finished", "error"}
    BY <1>1, <2>3, Ranks, Zenon DEF Final
  <2>4. QED
    BY <2>1, <2>2, <2>3 DEF Status
<1>3. r \in Nat /\ r <= 4 /\ (s \in Final => r = 4)
  BY <1>2
<1>4. QED
  BY <1>1, <1>3

(* ------------------------------------------------------------------------ *)
(* The crawler API. *)

LEMMA InitInv == Init => IInv
<1> SUFFICES ASSUME Init PROVE IInv
  OBVIOUS
<1>0. Cardinality(Post) \in Nat /\ \A i \in Id : i \in Nat /\ i >= 1
  BY PostsFinite, IdType
<1>1. TypeOK
  BY <1>0, MaxRestartsAssumption DEF Init, TypeOK
<1>2. IdInv
  <2>1. serial = 0 /\ Cardinality(Spent) \in Nat
    BY PostsFinite, SpentType DEF Init
  <2>2. \A i \in Id : rows[i] = None /\ ~(i <= serial)
    BY <1>0 DEF Init
  <2>3. \A p \in Post : crawlerID[p] = None /\ pc[p] = "idle"
    BY DEF Init
  <2>4. QED
    BY <2>1, <2>2, <2>3 DEF IdInv
<1>3. CrawlInv /\ AnswerInv /\ SeenInv
  BY DEF Init, CrawlInv, AnswerInv, SeenInv
<1>4. QED
  BY <1>1, <1>2, <1>3 DEF IInv

\* What an insert does to the table: one row more, for an id that is new.
LEMMA InsertRow ==
    ASSUME IInv, NEW p \in Post, pc[p] = "insert", InsertCrawler(p)
    PROVE  /\ serial' \in Id /\ serial' = serial + 1 /\ rows[serial'] = None
           /\ rows'[serial'] = [type |-> type[p], status |-> "initializing", null |-> TRUE]
           /\ \A i \in Id : i # serial' => rows'[i] = rows[i]
           /\ rows' \in [Id -> Row \cup {None}]
           /\ rows'[serial'] \in Row
           /\ p \notin Spent
<1>0. /\ rows \in [Id -> Row \cup {None}] /\ serial \in Nat /\ Cardinality(Post) \in Nat
      /\ serial <= Cardinality(Spent) /\ Spent \in SUBSET Post
  <2>1. rows \in [Id -> Row \cup {None}] /\ serial \in 0..Cardinality(Post)
    BY DEF IInv, TypeOK
  <2>2. Cardinality(Post) \in Nat
    BY PostsFinite
  <2>3. QED
    BY <2>1, <2>2, SpentType DEF IInv, IdInv
<1>1. p \notin Spent
  BY DEF IInv, IdInv, Spent
<1>2. Cardinality(Spent \cup {p}) = Cardinality(Spent) + 1
  BY <1>0, <1>1, CountAdd
<1>3. Cardinality(Spent \cup {p}) <= Cardinality(Post) /\ Cardinality(Spent) \in Nat
  BY <1>0, PostsFinite
<1>4. serial' = serial + 1 /\ serial' \in Id
  BY <1>0, <1>2, <1>3 DEF InsertCrawler, Id
<1>5. rows[serial'] = None
  BY <1>0, <1>4 DEF IInv, IdInv
<1>6. [type |-> type[p], status |-> "initializing", null |-> TRUE] \in Row
  BY PostAssumption DEF Row, Status
<1>7. rows'[serial'] = [type |-> type[p], status |-> "initializing", null |-> TRUE]
  BY <1>0, <1>4 DEF InsertCrawler
<1>8. QED
  BY <1>0, <1>1, <1>4, <1>5, <1>6, <1>7 DEF InsertCrawler

\* What a write of a crawl does to the table: the status of one row goes forward.
LEMMA WriteRow ==
    ASSUME IInv, NEW i \in Id, crawl[i] = "running",
           NEW s \in NextStatus(rows[i]), UpdateCrawler(i, s)
    PROVE  /\ rows[i] # None /\ s \in Status
           /\ rows' \in [Id -> Row \cup {None}]
           /\ rows'[i] # None /\ rows'[i].type = rows[i].type /\ rows'[i].status = s
           /\ \A j \in Id : j # i => rows'[j] = rows[j]
           /\ rows[i].status \in Status /\ Rank(rows[i].status) < Rank(s)
           /\ rows[i].status \notin Final
<1>1. rows \in [Id -> Row \cup {None}] /\ rows[i] # None
  BY DEF IInv, TypeOK, CrawlInv
<1>2. PICK r \in Row : r = rows[i]
  BY <1>1
<1>3. s \in Status /\ Rank(r.status) < Rank(s)
  BY <1>2 DEF NextStatus
<1>4. PICK q : q = [r EXCEPT !.status = s, !.null = FALSE]
  OBVIOUS
<1>5. q \in Row /\ q.type = r.type /\ q.status = s
  BY <1>2, <1>3, <1>4 DEF Row
<1>6. rows' = [rows EXCEPT ![i] = q]
  BY <1>1, <1>2, <1>4 DEF UpdateCrawler
<1>7. r.status \in Status /\ q # None
  BY <1>1, <1>2, <1>5, NoneAssumption DEF Row
<1>8. r.status \notin Final
  <2>1. PICK m, n : m = Rank(r.status) /\ n = Rank(s)
    OBVIOUS
  <2>2. m \in Nat /\ n \in Nat /\ n <= 4 /\ (r.status \in Final => m = 4) /\ m < n
    BY <1>3, <1>7, <2>1, RankType
  <2>3. QED
    BY <2>2
<1>9. QED
  BY <1>1, <1>2, <1>3, <1>5, <1>6, <1>7, <1>8

LEMMA TypeStep == IInv /\ [Next]_vars => TypeOK'
<1> SUFFICES ASSUME IInv, [Next]_vars PROVE TypeOK'
  OBVIOUS
<1> USE DEF handlerVars, clientVars
<1>0. TypeOK
  BY DEF IInv
<1>1. ASSUME NEW p \in Post, Receive(p) PROVE TypeOK'
  BY <1>0, <1>1 DEF Receive, Goto, Respond, TypeOK
<1>2. ASSUME NEW p \in Post, Auth(p) PROVE TypeOK'
  BY <1>0, <1>2 DEF Auth, Goto, Respond, TypeOK
<1>3. ASSUME NEW p \in Post, Insert(p) PROVE TypeOK'
  <2>1. CASE InsertCrawler(p)
    <3>1. serial' \in Id /\ rows' \in [Id -> Row \cup {None}]
      BY <1>3, <2>1, InsertRow DEF Insert
    <3>2. serial' \in 0..Cardinality(Post)
      BY <3>1, PostsFinite DEF Id
    <3>3. crawlerID' \in [Post -> Id \cup {None}]
      BY <1>0, <1>3, <3>1 DEF Insert, TypeOK
    <3>4. QED
      BY <1>0, <1>3, <3>1, <3>2, <3>3 DEF Insert, Goto, Respond, TypeOK
  <2>2. CASE UNCHANGED <<rows, serial, crawlerID>>
    BY <1>0, <1>3, <2>2 DEF Insert, Goto, Respond, TypeOK
  <2>3. QED
    BY <1>3, <2>1, <2>2 DEF Insert
<1>4. ASSUME NEW p \in Post, Go(p) PROVE TypeOK'
  <2>1. crawl' \in [Id -> {"unborn", "running", "stopped", "ended"}]
    BY <1>0, <1>4 DEF Go, TypeOK
  <2>2. QED
    BY <1>0, <1>4, <2>1 DEF Go, Goto, TypeOK
<1>5. ASSUME NEW p \in Post, Created(p) PROVE TypeOK'
  BY <1>0, <1>5 DEF Created, Goto, Respond, TypeOK
<1>6. ASSUME NEW p \in Post, Timeout(p) PROVE TypeOK'
  BY <1>0, <1>6 DEF Timeout, TypeOK
<1>7. ASSUME NEW p \in Post, Poll(p) PROVE TypeOK'
  <2>1. rows[crawlerID[p]].status \in Status
    <3>1. PICK i \in Id : i = crawlerID[p] /\ rows[i] # None
      <4>1. crawlerID[p] # None
        BY <1>7 DEF Poll, IInv, AnswerInv
      <4>2. crawlerID[p] \in Id
        BY <1>0, <4>1 DEF TypeOK
      <4>3. crawlerID[p] <= serial
        BY <4>1 DEF IInv, IdInv
      <4>4. rows[crawlerID[p]] # None
        BY <4>2, <4>3 DEF IInv, IdInv
      <4>5. QED
        BY <4>2, <4>4
    <3>2. rows[i] \in Row
      BY <1>0, <3>1 DEF TypeOK
    <3>3. QED
      BY <3>1, <3>2 DEF Row
  <2>2. seen' \in [Post -> Status \cup {None}]
    BY <1>0, <1>7, <2>1 DEF Poll, TypeOK
  <2>3. QED
    BY <1>0, <1>7, <2>2 DEF Poll, TypeOK
<1>8. ASSUME NEW i \in Id, Write(i) PROVE TypeOK'
  <2>1. rows' \in [Id -> Row \cup {None}]
    BY <1>8, WriteRow DEF Write
  <2>2. crawl' \in [Id -> {"unborn", "running", "stopped", "ended"}]
    BY <1>0, <1>8 DEF Write, TypeOK
  <2>3. QED
    BY <1>0, <1>8, <2>1, <2>2 DEF Write, TypeOK
<1>9. ASSUME NEW i \in Id, WriteFails(i) PROVE TypeOK'
  <2>1. rows' \in [Id -> Row \cup {None}]
    BY <1>0, <1>9, WriteRow DEF WriteFails, TypeOK
  <2>2. crawl' \in [Id -> {"unborn", "running", "stopped", "ended"}]
    BY <1>0, <1>9 DEF WriteFails, TypeOK
  <2>3. QED
    BY <1>0, <1>9, <2>1, <2>2 DEF WriteFails, TypeOK
<1>10. CASE Restart
  <2>1. restarts' \in 0..MaxRestarts
    <3>1. restarts \in 0..MaxRestarts /\ restarts < MaxRestarts /\ restarts' = restarts + 1
      BY <1>0, <1>10 DEF Restart, TypeOK
    <3>2. QED
      BY <3>1, MaxRestartsAssumption
  <2>2. crawl' \in [Id -> {"unborn", "running", "stopped", "ended"}]
    BY <1>0, <1>10 DEF Restart, TypeOK
  <2>3. /\ pc' \in [Post -> {"idle", "auth", "insert", "go", "respond", "returned"}]
        /\ answer' \in [Post -> {"none", "created", "bad request", "timeout", "lost"}]
    BY <1>0, <1>10 DEF Restart, TypeOK
  <2>4. QED
    BY <1>0, <1>10, <2>1, <2>2, <2>3 DEF Restart, TypeOK
<1>11. CASE Over \/ UNCHANGED vars
  BY <1>0, <1>11 DEF Over, vars, TypeOK
<1>12. QED
  BY <1>1, <1>2, <1>3, <1>4, <1>5, <1>6, <1>7, <1>8, <1>9, <1>10, <1>11 DEF Next, Handler

\* The ids: only an insert gives one, and gives it to the request that inserted.
LEMMA IdStep == IInv /\ [Next]_vars => IdInv'
<1> SUFFICES ASSUME IInv, [Next]_vars PROVE IdInv'
  OBVIOUS
<1> USE DEF handlerVars, clientVars
<1>0. /\ rows \in [Id -> Row \cup {None}] /\ crawlerID \in [Post -> Id \cup {None}] /\ serial \in Nat
      /\ pc \in [Post -> {"idle", "auth", "insert", "go", "respond", "returned"}]
      /\ IdInv /\ Cardinality(Spent) \in Nat /\ Spent \in SUBSET Post
  <2>1. serial \in 0..Cardinality(Post) /\ Cardinality(Post) \in Nat
    BY PostsFinite DEF IInv, TypeOK
  <2>2. serial \in Nat
    BY <2>1
  <2>3. Cardinality(Spent) \in Nat
    BY PostsFinite, SpentType
  <2>4. QED
    BY <2>2, <2>3, SpentType DEF IInv, TypeOK
<1>1. Spent' \in SUBSET Post /\ Cardinality(Spent') \in Nat
  <2>1. Spent' \in SUBSET Post
    BY DEF Spent
  <2>2. QED
    BY <2>1, PostsFinite
\* A step that gives no id and changes no type.
<1>2. ASSUME UNCHANGED <<serial, crawlerID>>, Spent \subseteq Spent',
             \A i \in Id : /\ rows'[i] # None <=> rows[i] # None
                           /\ rows[i] # None => rows'[i].type = rows[i].type,
             \A p \in Post : /\ pc'[p] \in {"idle", "auth", "insert"} => crawlerID[p] = None
                             /\ pc'[p] \in {"go", "respond"} => crawlerID[p] # None
      PROVE  IdInv'
  <2>1. serial' <= Cardinality(Spent')
    <3>1. Cardinality(Spent) <= Cardinality(Spent')
      BY <1>0, <1>1, <1>2, CountMore
    <3>2. QED
      BY <1>0, <1>1, <1>2, <3>1 DEF IdInv
  <2>2. ASSUME NEW p \in Post, crawlerID[p] # None
        PROVE  crawlerID[p] <= serial /\ rows'[crawlerID[p]].type = type[p]
    <3>1. crawlerID[p] \in Id /\ crawlerID[p] <= serial /\ rows[crawlerID[p]].type = type[p]
      BY <1>0, <2>2 DEF IdInv
    <3>2. rows[crawlerID[p]] # None
      BY <1>0, <3>1 DEF IdInv
    <3>3. QED
      BY <1>2, <3>1, <3>2
  <2>3. QED
    BY <1>0, <1>2, <2>1, <2>2 DEF IdInv
<1>3. ASSUME NEW p \in Post, Receive(p) \/ Auth(p) \/ Go(p) \/ Created(p) PROVE IdInv'
  <2>1. /\ UNCHANGED <<serial, rows, crawlerID>> /\ \E l \in {"auth", "insert", "respond", "returned"} :
            /\ pc' = [pc EXCEPT ![p] = l]
            /\ l \in {"auth", "insert"} => pc[p] \in {"idle", "auth"}
            /\ l = "respond" => pc[p] = "go"
    BY <1>3 DEF Receive, Auth, Go, Created, Goto
  <2>2. pc[p] # "returned"
    BY <1>3 DEF Receive, Auth, Go, Created
  <2>3. Spent \subseteq Spent'
    BY <1>0, <2>1, <2>2 DEF Spent
  <2>4. \A q \in Post : /\ pc'[q] \in {"idle", "auth", "insert"} => crawlerID[q] = None
                        /\ pc'[q] \in {"go", "respond"} => crawlerID[q] # None
    BY <1>0, <2>1 DEF IdInv
  <2>5. QED
    BY <1>2, <2>1, <2>3, <2>4
<1>4. ASSUME NEW p \in Post, Insert(p) PROVE IdInv'
  <2>1. CASE InsertCrawler(p)
    <3>1. /\ serial' \in Id /\ serial' = serial + 1 /\ rows[serial'] = None
          /\ rows'[serial'] = [type |-> type[p], status |-> "initializing", null |-> TRUE]
          /\ \A i \in Id : i # serial' => rows'[i] = rows[i]
          /\ rows' \in [Id -> Row \cup {None}] /\ rows'[serial'] \in Row /\ p \notin Spent
      BY <1>4, <2>1, InsertRow DEF Insert
    <3>2. /\ crawlerID[p] = None
          /\ \/ crawlerID' = [crawlerID EXCEPT ![p] = serial'] /\ pc' = [pc EXCEPT ![p] = "go"]
             \/ crawlerID' = crawlerID /\ pc' = [pc EXCEPT ![p] = "returned"]
      BY <1>0, <1>4 DEF Insert, Goto, IdInv
    <3>3. rows'[serial'].type = type[p] /\ rows'[serial'] # None /\ serial' # None
      <4>1. rows'[serial'] # None
        BY <3>1, NoneAssumption
      <4>2. serial' # None
        BY <3>1, IdType
      <4>3. QED
        BY <3>1, <4>1, <4>2
    <3>4. \A i \in Id : rows'[i] # None <=> i <= serial'
      <4>1. ASSUME NEW i \in Id PROVE rows'[i] # None <=> i <= serial'
        <5>1. i \in Nat
          BY IdType
        <5>2. rows[i] # None <=> i <= serial
          BY <1>0 DEF IdInv
        <5>3. i # serial' => rows'[i] = rows[i]
          BY <3>1
        <5>4. QED
          BY <1>0, <3>1, <3>3, <5>1, <5>2, <5>3
      <4>2. QED
        BY <4>1
    <3>5. serial' <= Cardinality(Spent')
      <4>1. Spent \cup {p} \subseteq Spent'
        BY <1>0, <3>2, <3>3 DEF Spent
      <4>2. Cardinality(Spent \cup {p}) = Cardinality(Spent) + 1
        BY <1>0, <3>1, CountAdd
      <4>3. Cardinality(Spent \cup {p}) <= Cardinality(Spent')
        BY <1>0, <1>1, <4>1, CountMore
      <4>4. serial <= Cardinality(Spent)
        BY <1>0 DEF IdInv
      <4>5. QED
        BY <1>0, <1>1, <3>1, <4>2, <4>3, <4>4
    <3>6. \A q \in Post : /\ pc'[q] \in {"idle", "auth", "insert"} => crawlerID'[q] = None
                          /\ pc'[q] \in {"go", "respond"} => crawlerID'[q] # None
      BY <1>0, <3>2, <3>3 DEF IdInv
    <3>7. \A q \in Post : q # p /\ crawlerID[q] # None =>
            /\ crawlerID[q] \in Id /\ crawlerID[q] # serial' /\ crawlerID[q] <= serial'
            /\ rows'[crawlerID[q]].type = type[q]
      <4>1. ASSUME NEW q \in Post, crawlerID[q] # None
            PROVE  /\ crawlerID[q] \in Id /\ crawlerID[q] # serial' /\ crawlerID[q] <= serial'
                   /\ rows'[crawlerID[q]].type = type[q]
        <5>1. crawlerID[q] \in Id /\ crawlerID[q] <= serial /\ rows[crawlerID[q]].type = type[q]
          BY <1>0, <4>1 DEF IdInv
        <5>2. crawlerID[q] \in Nat
          BY <5>1, IdType
        <5>3. crawlerID[q] # serial' /\ crawlerID[q] <= serial'
          BY <1>0, <3>1, <5>1, <5>2
        <5>4. QED
          BY <3>1, <5>1, <5>3
      <4>2. QED
        BY <4>1
    <3>8. \A q \in Post : crawlerID'[q] # None =>
            crawlerID'[q] <= serial' /\ rows'[crawlerID'[q]].type = type[q]
      <4>1. serial' <= serial'
        BY <1>0, <3>1
      <4>2. QED
        BY <1>0, <3>2, <3>3, <3>7, <4>1
    <3>9. \A q, r \in Post : crawlerID'[q] # None /\ crawlerID'[q] = crawlerID'[r] => q = r
      BY <1>0, <3>2, <3>7 DEF IdInv
    <3>10. QED
      BY <3>4, <3>5, <3>6, <3>8, <3>9 DEF IdInv
  <2>2. CASE UNCHANGED <<rows, serial, crawlerID>>
    <3>1. pc' = [pc EXCEPT ![p] = "returned"]
      <4>1. ~InsertCrawler(p)
        BY <1>0, <2>2 DEF InsertCrawler
      <4>2. QED
        BY <1>4, <4>1 DEF Insert, Goto
    <3>2. Spent \subseteq Spent'
      BY <1>0, <2>2, <3>1 DEF Spent
    <3>3. QED
      BY <1>0, <1>2, <2>2, <3>1, <3>2 DEF IdInv
  <2>3. QED
    BY <1>4, <2>1, <2>2 DEF Insert
<1>5. ASSUME NEW p \in Post, Timeout(p) \/ Poll(p) PROVE IdInv'
  <2>1. UNCHANGED <<serial, rows, crawlerID, pc>>
    BY <1>5 DEF Timeout, Poll
  <2>2. Spent' = Spent
    BY <2>1 DEF Spent
  <2>3. QED
    BY <1>0, <1>2, <2>1, <2>2 DEF IdInv
<1>6. ASSUME NEW i \in Id, Write(i) \/ WriteFails(i) PROVE IdInv'
  <2>1. UNCHANGED <<serial, crawlerID, pc>> /\ crawl[i] = "running"
        /\ (rows' = rows \/ \E s \in NextStatus(rows[i]) : UpdateCrawler(i, s))
    BY <1>6 DEF Write, WriteFails
  <2>2. \A j \in Id : /\ rows'[j] # None <=> rows[j] # None
                      /\ rows[j] # None => rows'[j].type = rows[j].type
    BY <2>1, WriteRow
  <2>3. Spent' = Spent
    BY <2>1 DEF Spent
  <2>4. QED
    BY <1>0, <1>2, <2>1, <2>2, <2>3 DEF IdInv
<1>7. CASE Restart
  <2>1. UNCHANGED <<serial, rows, crawlerID>>
        /\ \A p \in Post : pc'[p] = IF pc[p] = "idle" THEN "idle" ELSE "returned"
    BY <1>7 DEF Restart
  <2>2. Spent \subseteq Spent'
    BY <2>1 DEF Spent
  <2>3. QED
    BY <1>0, <1>2, <2>1, <2>2 DEF IdInv
<1>8. CASE Over \/ UNCHANGED vars
  <2>1. UNCHANGED <<serial, rows, crawlerID, pc>>
    BY <1>8 DEF Over, vars
  <2>2. Spent' = Spent
    BY <2>1 DEF Spent
  <2>3. QED
    BY <1>0, <1>2, <2>1, <2>2 DEF IdInv
<1>9. QED
  BY <1>3, <1>4, <1>5, <1>6, <1>7, <1>8 DEF Next, Handler

\* A row stays, its type with it, and its status changes only to a later one.
LEMMA RowsStay ==
    ASSUME IInv, [Next]_vars, NEW i \in Id, rows[i] # None
    PROVE  /\ rows'[i] # None
           /\ \/ rows'[i].status = rows[i].status
              \/ /\ rows[i].status \in Status /\ rows'[i].status \in Status
                 /\ Rank(rows[i].status) < Rank(rows'[i].status)
                 /\ rows[i].status \notin Final
<1> USE DEF handlerVars, clientVars
<1>1. CASE UNCHANGED rows
  BY <1>1
<1>2. ASSUME NEW p \in Post, Insert(p), InsertCrawler(p)
      PROVE  rows'[i] = rows[i]
  BY <1>2, InsertRow DEF Insert
<1>3. ASSUME NEW j \in Id, crawl[j] = "running", NEW s \in NextStatus(rows[j]), UpdateCrawler(j, s)
      PROVE  \/ rows'[i] = rows[i]
             \/ /\ rows'[i] # None
                /\ rows[i].status \in Status /\ rows'[i].status \in Status
                /\ Rank(rows[i].status) < Rank(rows'[i].status)
                /\ rows[i].status \notin Final
  BY <1>3, WriteRow
<1>4. ASSUME NEW p \in Post, Handler(p) \/ Timeout(p) \/ Poll(p)
      PROVE  UNCHANGED rows \/ (Insert(p) /\ InsertCrawler(p))
  BY <1>4 DEF Handler, Receive, Auth, Insert, Go, Created, Timeout, Poll
<1>5. ASSUME NEW j \in Id, Write(j) \/ WriteFails(j)
      PROVE  \/ UNCHANGED rows
             \/ crawl[j] = "running" /\ \E s \in NextStatus(rows[j]) : UpdateCrawler(j, s)
  BY <1>5 DEF Write, WriteFails
<1>6. CASE Restart \/ Over \/ UNCHANGED vars
  BY <1>1, <1>6 DEF Restart, Over, vars
<1>7. QED
  BY <1>1, <1>2, <1>3, <1>4, <1>5, <1>6 DEF Next

\* What a request was given it keeps, and a crawl that was started was.
LEMMA RequestsStay ==
    ASSUME IInv, [Next]_vars
    PROVE  /\ \A p \in Post : crawlerID[p] # None => crawlerID'[p] = crawlerID[p]
           /\ \A p \in Post : answer[p] = "created" => answer'[p] = "created"
           /\ \A i \in Id : crawl[i] # "unborn" => crawl'[i] # "unborn"
<1> USE DEF handlerVars, clientVars
<1>0. TypeOK /\ IdInv
  BY DEF IInv
<1>1. ASSUME NEW p \in Post, Receive(p) \/ Auth(p) \/ Created(p) \/ Timeout(p) \/ Poll(p)
      PROVE  /\ UNCHANGED <<crawl, crawlerID>>
             /\ \A q \in Post : answer[q] = "created" => answer'[q] = "created"
  BY <1>0, <1>1 DEF Receive, Auth, Created, Timeout, Poll, Respond, TypeOK
<1>2. ASSUME NEW p \in Post, Insert(p)
      PROVE  /\ UNCHANGED crawl
             /\ \A q \in Post : /\ crawlerID[q] # None => crawlerID'[q] = crawlerID[q]
                                /\ answer[q] = "created" => answer'[q] = "created"
  <2>1. crawlerID[p] = None
    BY <1>0, <1>2 DEF Insert, IdInv
  <2>2. QED
    BY <1>0, <1>2, <2>1 DEF Insert, Respond, TypeOK
<1>3. ASSUME NEW p \in Post, Go(p)
      PROVE  /\ UNCHANGED <<crawlerID, answer>>
             /\ \A i \in Id : crawl[i] # "unborn" => crawl'[i] # "unborn"
  BY <1>0, <1>3 DEF Go, TypeOK
<1>4. ASSUME NEW i \in Id, Write(i) \/ WriteFails(i)
      PROVE  /\ UNCHANGED <<crawlerID, answer>>
             /\ \A j \in Id : crawl[j] # "unborn" => crawl'[j] # "unborn"
  BY <1>0, <1>4 DEF Write, WriteFails, TypeOK
<1>5. CASE Restart
  BY <1>5 DEF Restart
<1>6. CASE Over \/ UNCHANGED vars
  BY <1>6 DEF Over, vars
<1>7. QED
  BY <1>1, <1>2, <1>3, <1>4, <1>5, <1>6 DEF Next, Handler

LEMMA AnswerStep == IInv /\ [Next]_vars => AnswerInv'
<1> SUFFICES ASSUME IInv, [Next]_vars PROVE AnswerInv'
  OBVIOUS
<1> USE DEF handlerVars, clientVars
<1>0. TypeOK /\ IdInv /\ AnswerInv
  BY DEF IInv
<1>1. ASSUME NEW p \in Post, Receive(p) \/ Auth(p) PROVE AnswerInv'
  <2>1. /\ UNCHANGED <<restarts, crawlerID>> /\ pc[p] # "returned"
        /\ \E l \in {"auth", "insert", "returned"} :
            /\ pc' = [pc EXCEPT ![p] = l]
            /\ \/ l # "returned" /\ answer' = answer
               \/ l = "returned" /\ Respond(p, "bad request")
    BY <1>1 DEF Receive, Auth, Goto
  <2>2. answer'[p] # "created" /\ (answer'[p] = "lost" => answer[p] = "lost")
    <3>1. answer[p] # "created"
      BY <1>0, <2>1 DEF AnswerInv
    <3>2. QED
      BY <1>0, <2>1, <3>1 DEF Respond, TypeOK
  <2>3. pc'[p] # "idle" /\ (pc'[p] = "returned" => answer'[p] # "none")
    BY <1>0, <2>1 DEF Respond, TypeOK
  <2>4. \A q \in Post : q # p => pc'[q] = pc[q] /\ answer'[q] = answer[q]
    BY <1>0, <2>1 DEF Respond, TypeOK
  <2>5. QED
    BY <1>0, <2>1, <2>2, <2>3, <2>4 DEF AnswerInv
<1>2. ASSUME NEW p \in Post, Insert(p) PROVE AnswerInv'
  <2>1. \A q \in Post : answer[q] = "created" => q # p /\ crawlerID'[q] = crawlerID[q]
    BY <1>0, <1>2, RequestsStay DEF Insert, AnswerInv
  <2>2. UNCHANGED restarts /\ \E l \in {"go", "returned"} :
          /\ pc' = [pc EXCEPT ![p] = l]
          /\ \/ l = "go" /\ answer' = answer
             \/ l = "returned" /\ Respond(p, "bad request")
    BY <1>2 DEF Insert, Goto
  <2>3. answer'[p] = answer[p] \/ answer'[p] = "bad request"
    BY <1>0, <2>2 DEF Respond, TypeOK
  <2>4. pc'[p] # "idle" /\ (pc'[p] = "returned" => answer'[p] # "none")
    BY <1>0, <2>2 DEF Respond, TypeOK
  <2>5. \A q \in Post : q # p => pc'[q] = pc[q] /\ answer'[q] = answer[q]
    BY <1>0, <2>2 DEF Respond, TypeOK
  <2>6. QED
    BY <1>0, <2>1, <2>2, <2>3, <2>4, <2>5 DEF AnswerInv
<1>3. ASSUME NEW p \in Post, Go(p) PROVE AnswerInv'
  BY <1>0, <1>3 DEF Go, Goto, TypeOK, AnswerInv
<1>4. ASSUME NEW p \in Post, Created(p) PROVE AnswerInv'
  <2>1. crawlerID[p] # None
    BY <1>0, <1>4 DEF Created, IdInv
  <2>2. QED
    BY <1>0, <1>4, <2>1 DEF Created, Goto, Respond, TypeOK, AnswerInv
<1>5. ASSUME NEW p \in Post, Timeout(p) \/ Poll(p) PROVE AnswerInv'
  BY <1>0, <1>5 DEF Timeout, Poll, TypeOK, AnswerInv
<1>6. ASSUME NEW i \in Id, Write(i) \/ WriteFails(i) PROVE AnswerInv'
  BY <1>0, <1>6 DEF Write, WriteFails, AnswerInv
<1>7. CASE Restart
  <2>1. restarts' # 0
    <3>1. restarts \in 0..MaxRestarts /\ restarts' = restarts + 1
      BY <1>0, <1>7 DEF Restart, TypeOK
    <3>2. QED
      BY <3>1, MaxRestartsAssumption
  <2>2. QED
    BY <1>0, <1>7, <2>1 DEF Restart, AnswerInv
<1>8. CASE Over \/ UNCHANGED vars
  BY <1>0, <1>8 DEF Over, vars, AnswerInv
<1>9. QED
  BY <1>1, <1>2, <1>3, <1>4, <1>5, <1>6, <1>7, <1>8 DEF Next, Handler

LEMMA CrawlStep == IInv /\ [Next]_vars => CrawlInv'
<1> SUFFICES ASSUME IInv, [Next]_vars PROVE CrawlInv'
  OBVIOUS
<1> USE DEF handlerVars, clientVars
<1>0. TypeOK /\ IdInv /\ CrawlInv /\ AnswerInv
  BY DEF IInv
<1>1. ASSUME NEW i \in Id, crawl'[i] # "unborn" PROVE rows'[i] # None
  <2>1. CASE crawl[i] # "unborn"
    BY <1>0, <2>1, RowsStay DEF CrawlInv
  <2>2. CASE crawl[i] = "unborn"
    <3>1. PICK p \in Post : Go(p) /\ crawlerID[p] = i
      <4>1. \A p \in Post : ~Go(p) => ~Handler(p) \/ UNCHANGED crawl
        BY DEF Handler, Receive, Auth, Insert, Created
      <4>2. \A p \in Post : Timeout(p) \/ Poll(p) => UNCHANGED crawl
        BY DEF Timeout, Poll
      <4>3. \A j \in Id : Write(j) \/ WriteFails(j) => crawl'[i] = "unborn"
        BY <1>0, <2>2 DEF Write, WriteFails, TypeOK
      <4>4. Restart \/ Over \/ UNCHANGED vars => crawl'[i] = "unborn"
        BY <2>2 DEF Restart, Over, vars
      <4>5. \A p \in Post : Go(p) => crawlerID[p] = i
        BY <1>1, <2>2 DEF Go
      <4>6. QED
        BY <1>1, <2>2, <4>1, <4>2, <4>3, <4>4, <4>5 DEF Next
    <3>2. crawlerID[p] # None /\ i <= serial
      BY <1>0, <3>1 DEF Go, IdInv
    <3>3. rows[i] # None
      BY <1>0, <3>2 DEF IdInv
    <3>4. QED
      BY <3>3, RowsStay
  <2>3. QED
    BY <2>1, <2>2
<1>2. ASSUME NEW p \in Post, crawlerID'[p] # None,
             pc'[p] = "respond" \/ answer'[p] = "created" \/ (restarts' = 0 /\ pc'[p] = "returned")
      PROVE  crawl'[crawlerID'[p]] # "unborn"
  \* Such a request was already one, or is the one whose crawl is started now.
  <2>1. \/ crawlerID[p] # None /\ (pc[p] = "respond" \/ answer[p] = "created"
                                     \/ (restarts = 0 /\ pc[p] = "returned"))
        \/ Go(p)
    <3>1. ASSUME NEW q \in Post, Receive(q) \/ Auth(q)
          PROVE  crawlerID' = crawlerID /\ restarts' = restarts
                 /\ (q = p => FALSE) /\ pc'[p] = pc[p] /\ answer'[p] = answer[p]
      <4>1. crawlerID' = crawlerID /\ restarts' = restarts /\ crawlerID[q] = None
        BY <1>0, <3>1 DEF Receive, Auth, IdInv
      <4>2. q # p
        BY <1>2, <4>1
      <4>3. QED
        BY <1>0, <3>1, <4>1, <4>2 DEF Receive, Auth, Goto, Respond, TypeOK
    <3>2. ASSUME NEW q \in Post, Insert(q), q # p
          PROVE  crawlerID'[p] = crawlerID[p] /\ restarts' = restarts
                 /\ pc'[p] = pc[p] /\ answer'[p] = answer[p]
      BY <1>0, <3>2 DEF Insert, Goto, Respond, TypeOK
    <3>3. ASSUME Insert(p) PROVE FALSE
      <4>1. crawlerID[p] = None /\ answer[p] # "created"
        BY <1>0, <3>3 DEF Insert, IdInv, AnswerInv
      <4>2. pc'[p] = "go" /\ answer'[p] # "created"
        BY <1>0, <1>2, <3>3, <4>1 DEF Insert, Goto, Respond, TypeOK
      <4>3. QED
        BY <1>2, <4>2
    <3>4. ASSUME NEW q \in Post, Go(q), q # p
          PROVE  crawlerID' = crawlerID /\ restarts' = restarts
                 /\ pc'[p] = pc[p] /\ answer'[p] = answer[p]
      BY <1>0, <3>4 DEF Go, Goto, TypeOK
    <3>5. ASSUME NEW q \in Post, Created(q)
          PROVE  crawlerID' = crawlerID /\ restarts' = restarts
                 /\ (pc[p] = "respond" \/ (pc'[p] = pc[p] /\ answer'[p] = answer[p]))
      BY <1>0, <3>5 DEF Created, Goto, Respond, TypeOK
    <3>6. ASSUME NEW q \in Post, Timeout(q) \/ Poll(q)
          PROVE  crawlerID' = crawlerID /\ restarts' = restarts /\ pc' = pc
                 /\ (answer'[p] = "created" => answer[p] = "created")
      BY <1>0, <3>6 DEF Timeout, Poll, TypeOK
    <3>7. ASSUME NEW i \in Id, Write(i) \/ WriteFails(i)
          PROVE  UNCHANGED <<crawlerID, restarts, pc, answer>>
      BY <3>7 DEF Write, WriteFails
    <3>8. CASE Restart
      <4>1. restarts \in 0..MaxRestarts /\ restarts' = restarts + 1
        BY <1>0, <3>8 DEF Restart, TypeOK
      <4>2. restarts' # 0
        BY <4>1, MaxRestartsAssumption
      <4>3. QED
        BY <1>2, <3>8, <4>2 DEF Restart
    <3>9. CASE Over \/ UNCHANGED vars
      BY <1>2, <3>9 DEF Over, vars
    <3>10. QED
      BY <1>2, <3>1, <3>2, <3>3, <3>4, <3>5, <3>6, <3>7, <3>8, <3>9 DEF Next, Handler
  <2>2. CASE Go(p)
    <3>1. crawlerID[p] # None /\ crawlerID[p] \in Id /\ crawlerID' = crawlerID
      BY <1>0, <2>2 DEF Go, IdInv, TypeOK
    <3>2. QED
      BY <2>2, <3>1 DEF Go
  <2>3. CASE crawlerID[p] # None /\ (pc[p] = "respond" \/ answer[p] = "created"
                                       \/ (restarts = 0 /\ pc[p] = "returned"))
    <3>1. crawlerID[p] \in Id /\ crawl[crawlerID[p]] # "unborn" /\ crawlerID'[p] = crawlerID[p]
      BY <1>0, <2>3, RequestsStay DEF CrawlInv, TypeOK
    <3>2. QED
      BY <3>1, RequestsStay
  <2>4. QED
    BY <2>1, <2>2, <2>3
<1>3. QED
  BY <1>1, <1>2 DEF CrawlInv

\* The row of a request that was given an id.
LEMMA RowOfRequest ==
    ASSUME IInv, NEW p \in Post, crawlerID[p] # None
    PROVE  /\ crawlerID[p] \in Id /\ crawlerID[p] <= serial
           /\ rows[crawlerID[p]] # None /\ rows[crawlerID[p]] \in Row
           /\ rows[crawlerID[p]].type = type[p]
           /\ rows[crawlerID[p]].status \in Status
<1>1. crawlerID[p] \in Id /\ rows \in [Id -> Row \cup {None}]
  BY DEF IInv, TypeOK
<1>2. crawlerID[p] <= serial /\ rows[crawlerID[p]].type = type[p]
  BY DEF IInv, IdInv
<1>3. rows[crawlerID[p]] # None
  BY <1>1, <1>2 DEF IInv, IdInv
<1>4. PICK r \in Row : r = rows[crawlerID[p]]
  BY <1>1, <1>3
<1>5. r.status \in Status
  BY DEF Row
<1>6. QED
  BY <1>1, <1>2, <1>3, <1>4, <1>5

\* What a client saw last is overtaken by the row only, and the row goes forward.
LEMMA PollStep ==
    ASSUME IInv, [Next]_vars, NEW p \in Post, seen[p] # None
    PROVE  /\ Rank(seen[p]) <= Rank(seen'[p])
           /\ seen[p] \in Final => seen'[p] = seen[p]
<1> USE DEF handlerVars, clientVars
<1>1. seen \in [Post -> Status \cup {None}] /\ seen[p] \in Status
  BY DEF IInv, TypeOK
<1>2. seen'[p] = seen[p] \/ seen'[p] = rows[crawlerID[p]].status
  <2>1. ASSUME NEW q \in Post, Poll(q)
        PROVE  seen'[p] = seen[p] \/ seen'[p] = rows[crawlerID[p]].status
    BY <1>1, <2>1 DEF Poll
  <2>2. ASSUME NEW q \in Post, Handler(q) \/ Timeout(q)
        PROVE  seen' = seen
    BY <2>2 DEF Handler, Receive, Auth, Insert, Go, Created, Timeout
  <2>3. ASSUME NEW i \in Id, Write(i) \/ WriteFails(i)
        PROVE  seen' = seen
    BY <2>3 DEF Write, WriteFails
  <2>4. CASE Restart \/ Over \/ UNCHANGED vars
    BY <2>4 DEF Restart, Over, vars
  <2>5. QED
    BY <2>1, <2>2, <2>3, <2>4 DEF Next
<1>3. Rank(seen[p]) <= Rank(seen[p])
  <2>1. PICK n \in Nat : n = Rank(seen[p])
    BY <1>1, RankType
  <2>2. n <= n
    OBVIOUS
  <2>3. QED
    BY <2>1, <2>2
<1>4. /\ Rank(seen[p]) <= Rank(rows[crawlerID[p]].status)
      /\ seen[p] \in Final => rows[crawlerID[p]].status = seen[p]
  BY DEF IInv, SeenInv
<1>5. QED
  BY <1>2, <1>3, <1>4

LEMMA SeenStep == IInv /\ [Next]_vars => SeenInv'
<1> SUFFICES ASSUME IInv, [Next]_vars PROVE SeenInv'
  OBVIOUS
<1> USE DEF handlerVars, clientVars
<1>0. TypeOK /\ IdInv /\ AnswerInv /\ SeenInv
  BY DEF IInv
\* What was seen stays behind the row.
<1>1. ASSUME NEW p \in Post, seen[p] # None
      PROVE  /\ answer'[p] = "created"
             /\ Rank(seen[p]) <= Rank(rows'[crawlerID'[p]].status)
             /\ seen[p] \in Final => rows'[crawlerID'[p]].status = seen[p]
  <2>1. answer[p] = "created" /\ crawlerID[p] # None
    BY <1>0, <1>1 DEF SeenInv, AnswerInv
  <2>2. PICK i \in Id : i = crawlerID[p] /\ rows[i] # None /\ rows[i].status \in Status
    BY <2>1, RowOfRequest
  <2>3. answer'[p] = "created" /\ crawlerID'[p] = i
    BY <2>1, <2>2, RequestsStay
  <2>4. /\ Rank(seen[p]) <= Rank(rows[i].status)
        /\ seen[p] \in Final => rows[i].status = seen[p]
    BY <1>0, <1>1, <2>2 DEF SeenInv
  <2>5. CASE rows'[i].status = rows[i].status
    BY <2>3, <2>4, <2>5
  <2>6. CASE /\ rows'[i].status \in Status
             /\ Rank(rows[i].status) < Rank(rows'[i].status)
             /\ rows[i].status \notin Final
    <3>1. PICK k \in Nat, m \in Nat, n \in Nat :
            k = Rank(seen[p]) /\ m = Rank(rows[i].status) /\ n = Rank(rows'[i].status)
      <4>1. seen[p] \in Status
        BY <1>0, <1>1 DEF TypeOK
      <4>2. Rank(seen[p]) \in Nat /\ Rank(rows[i].status) \in Nat /\ Rank(rows'[i].status) \in Nat
        BY <2>2, <2>6, <4>1, RankType
      <4>3. QED
        BY <4>2
    <3>2. k <= m /\ m < n
      BY <2>4, <2>6, <3>1
    <3>3. k <= n
      BY <3>2
    <3>4. QED
      BY <2>3, <2>4, <2>6, <3>1, <3>3
  <2>7. QED
    BY <2>2, <2>5, <2>6, RowsStay
\* What is seen now is what the row says.
<1>2. ASSUME NEW p \in Post, seen'[p] # seen[p] PROVE Poll(p)
  <2>1. \A q \in Post : Handler(q) \/ Timeout(q) => seen' = seen
    BY DEF Handler, Receive, Auth, Insert, Go, Created, Timeout
  <2>2. \A i \in Id : Write(i) \/ WriteFails(i) => seen' = seen
    BY DEF Write, WriteFails
  <2>3. Restart \/ Over \/ UNCHANGED vars => seen' = seen
    BY DEF Restart, Over, vars
  <2>4. \A q \in Post : Poll(q) /\ q # p => seen'[p] = seen[p]
    BY <1>0 DEF Poll, TypeOK
  <2>5. QED
    BY <1>2, <2>1, <2>2, <2>3, <2>4 DEF Next
<1>3. ASSUME NEW p \in Post, Poll(p)
      PROVE  /\ answer'[p] = "created"
             /\ Rank(seen'[p]) <= Rank(rows'[crawlerID'[p]].status)
             /\ rows'[crawlerID'[p]].status = seen'[p]
  <2>1. answer[p] = "created" /\ crawlerID[p] # None
    BY <1>0, <1>3 DEF Poll, AnswerInv
  <2>2. rows[crawlerID[p]].status \in Status
    BY <2>1, RowOfRequest
  <2>3. /\ seen'[p] = rows[crawlerID[p]].status /\ answer'[p] = "created"
        /\ UNCHANGED <<rows, crawlerID>>
    BY <1>0, <1>3 DEF Poll, TypeOK
  <2>4. PICK n \in Nat : n = Rank(seen'[p])
    BY <2>2, <2>3, RankType
  <2>5. n <= n
    OBVIOUS
  <2>6. QED
    BY <2>3, <2>4, <2>5
<1>4. QED
  BY <1>1, <1>2, <1>3 DEF SeenInv

LEMMA ApiStep == IInv /\ [Next]_vars => IInv'
BY TypeStep, IdStep, CrawlStep, AnswerStep, SeenStep DEF IInv

\* IInv is an invariant of the crawler API.
THEOREM ApiInvariance == Spec => []IInv
<1>1. QED
  BY InitInv, ApiStep, PTL DEF Spec

LEMMA InvCreatedIsStarted == IInv => CreatedIsStarted
<1> SUFFICES ASSUME IInv, NEW p \in Post, answer[p] = "created"
             PROVE  /\ crawlerID[p] \in Id
                    /\ rows[crawlerID[p]] # None
                    /\ rows[crawlerID[p]].type = type[p]
                    /\ crawl[crawlerID[p]] # "unborn"
                    /\ \A q \in Post \ {p} : crawlerID[q] # crawlerID[p]
  BY DEF CreatedIsStarted
<1>1. crawlerID[p] # None
  BY DEF IInv, AnswerInv
<1>2. crawl[crawlerID[p]] # "unborn"
  BY <1>1 DEF IInv, CrawlInv
<1>3. \A q \in Post \ {p} : crawlerID[q] # crawlerID[p]
  BY <1>1 DEF IInv, IdInv
<1>4. QED
  BY <1>1, <1>2, <1>3, RowOfRequest

\* The counting argument: the ids given are at most the requests spent; those
\* that were told an id took one each, so what is left over is at most the
\* requests that gave up without one.
LEMMA InvRowsAreWorkedOn == IInv => RowsAreWorkedOn
<1> DEFINE Refused == {p \in Post : /\ pc[p] = "returned"
                                    /\ crawlerID[p] = None
                                    /\ answer[p] \in {"bad request", "timeout"}}
           Owners == {p \in Post : crawlerID[p] # None}
           Given == {crawlerID[p] : p \in Owners}
<1> SUFFICES ASSUME IInv, restarts = 0
             PROVE  Cardinality(Abandoned) <= Cardinality(Refused)
  BY DEF RowsAreWorkedOn
<1>1. serial \in Nat /\ serial <= Cardinality(Spent)
  <2>1. serial \in 0..Cardinality(Post) /\ Cardinality(Post) \in Nat
    BY PostsFinite DEF IInv, TypeOK
  <2>2. QED
    BY <2>1 DEF IInv, IdInv
<1>2. /\ IsFiniteSet(Owners) /\ Cardinality(Owners) \in Nat
      /\ IsFiniteSet(Refused) /\ Cardinality(Refused) \in Nat
  BY PostsFinite
<1>3. Cardinality(Spent) <= Cardinality(Owners) + Cardinality(Refused)
  <2>1. Spent \subseteq Owners \cup Refused
    <3>1. ASSUME NEW p \in Post, pc[p] = "returned", crawlerID[p] = None PROVE p \in Refused
      <4>1. answer[p] # "lost" /\ answer[p] # "none" /\ answer[p] # "created"
        BY <3>1 DEF IInv, AnswerInv
      <4>2. answer[p] \in {"bad request", "timeout"}
        BY <4>1 DEF IInv, TypeOK
      <4>3. QED
        BY <3>1, <4>2
    <3>2. QED
      BY <3>1 DEF Spent
  <2>2. /\ IsFiniteSet(Owners \cup Refused)
        /\ Cardinality(Owners \cup Refused) = Cardinality(Owners) + Cardinality(Refused)
              - Cardinality(Owners \cap Refused)
    BY <1>2, FS_Union
  <2>3. Owners \cap Refused = {}
    OBVIOUS
  <2>4. Cardinality(Owners \cap Refused) = 0
    BY <2>3, FS_EmptySet
  <2>5. Cardinality(Spent) <= Cardinality(Owners \cup Refused)
    BY <2>1, <2>2, FS_Subset
  <2>6. Cardinality(Owners \cup Refused) = Cardinality(Owners) + Cardinality(Refused)
    <3>1. PICK o, r \in Nat : o = Cardinality(Owners) /\ r = Cardinality(Refused)
      BY <1>2
    <3>2. Cardinality(Owners \cup Refused) = o + r - 0
      BY <2>2, <2>4, <3>1
    <3>3. o + r - 0 = o + r
      OBVIOUS
    <3>4. QED
      BY <3>1, <3>2, <3>3
  <2>7. QED
    BY <2>5, <2>6
\* Each of those has an id of its own.
<1>4. IsFiniteSet(Given) /\ Cardinality(Given) = Cardinality(Owners)
  <2>1. PICK f : f = [p \in Owners |-> crawlerID[p]]
    OBVIOUS
  <2>2. \A p, q \in Owners : f[p] = f[q] => p = q
    BY <2>1 DEF IInv, IdInv
  <2>3. f \in Bijection(Owners, Given)
    BY <2>1, <2>2 DEF Bijection, Injection, Surjection, IsInjective
  <2>4. QED
    BY <1>2, <2>3, FS_Bijection DEF ExistsBijection
<1>5. Given \subseteq 1..serial
  <2>1. ASSUME NEW p \in Owners PROVE crawlerID[p] \in 1..serial
    <3>1. crawlerID[p] \in Id /\ crawlerID[p] <= serial
      BY RowOfRequest
    <3>2. QED
      BY <1>1, <3>1, IdType
  <2>2. QED
    BY <2>1
\* An abandoned row is that of none of them.
<1>6. Abandoned \subseteq 1..serial /\ Abandoned \cap Given = {}
  <2>1. ASSUME NEW i \in Abandoned PROVE i \in 1..serial /\ i \notin Given
    <3>1. i \in Id /\ rows[i] # None /\ crawl[i] = "unborn"
          /\ \A p \in Post : ~(pc[p] = "go" /\ crawlerID[p] = i)
      BY DEF Abandoned
    <3>2. i \in 1..serial
      <4>1. i <= serial
        BY <3>1 DEF IInv, IdInv
      <4>2. i \in Nat /\ i >= 1
        BY <3>1, IdType
      <4>3. QED
        BY <1>1, <4>1, <4>2
    <3>3. ASSUME NEW p \in Owners, crawlerID[p] = i PROVE FALSE
      <4>1. pc[p] \notin {"idle", "auth", "insert"} /\ pc[p] # "go"
        BY <3>1, <3>3 DEF IInv, IdInv
      <4>2. pc[p] \in {"respond", "returned"}
        BY <4>1 DEF IInv, TypeOK
      <4>3. QED
        BY <3>1, <3>3, <4>2 DEF IInv, CrawlInv
    <3>4. QED
      BY <3>2, <3>3
  <2>2. QED
    BY <2>1
<1>7. /\ IsFiniteSet(1..serial) /\ Cardinality(1..serial) = serial
  <2>1. 1 \in Int /\ serial \in Int
    BY <1>1
  <2>2. /\ IsFiniteSet(1..serial)
        /\ Cardinality(1..serial) = IF 1 > serial THEN 0 ELSE serial - 1 + 1
    BY <2>1, FS_Interval
  <2>3. QED
    BY <1>1, <2>2
<1>8. Cardinality(Abandoned) + Cardinality(Owners) <= serial
  <2>1. IsFiniteSet(Abandoned) /\ Cardinality(Abandoned) \in Nat
    BY <1>6, <1>7, FS_Subset, FS_CardinalityType
  <2>2. Cardinality(Abandoned \cup Given) =
          Cardinality(Abandoned) + Cardinality(Given) - Cardinality(Abandoned \cap Given)
    BY <1>4, <2>1, FS_Union
  <2>3. Cardinality(Abandoned \cap Given) = 0
    BY <1>6, FS_EmptySet
  <2>4. Cardinality(Abandoned \cup Given) <= Cardinality(1..serial)
    BY <1>5, <1>6, <1>7, FS_Subset
  <2>5. PICK a, o \in Nat : a = Cardinality(Abandoned) /\ o = Cardinality(Owners)
    BY <1>2, <2>1
  <2>6. Cardinality(Abandoned \cup Given) = a + o - 0
    BY <1>4, <2>2, <2>3, <2>5
  <2>7. a + o - 0 = a + o
    OBVIOUS
  <2>8. QED
    BY <1>7, <2>4, <2>5, <2>6, <2>7
<1>9. Cardinality(Spent) \in Nat /\ Cardinality(Abandoned) \in Nat
  BY <1>6, <1>7, FS_Subset, FS_CardinalityType, PostsFinite, SpentType
<1>10. QED
  <2>1. PICK a, o, r, s \in Nat : /\ a = Cardinality(Abandoned) /\ o = Cardinality(Owners)
                                  /\ r = Cardinality(Refused) /\ s = Cardinality(Spent)
    BY <1>2, <1>9
  <2>2. a + o <= serial /\ serial <= s /\ s <= o + r
    BY <1>1, <1>3, <1>8, <2>1
  <2>3. a <= r
    BY <1>1, <2>2
  <2>4. QED
    BY <2>1, <2>3

(* ------------------------------------------------------------------------ *)
(* The server. *)

\* Server implements CrawlerApi: each of its steps is one of the crawler API or
\* leaves that alone.
LEMMA ServerIsApi == [ServerNext]_everything => [Next]_vars
<1> SUFFICES ASSUME [ServerNext]_everything PROVE [Next]_vars
  OBVIOUS
<1>1. CASE RequestStep
  BY <1>1 DEF RequestStep, Accept, Asked, Continue, Next, Handler
<1>2. CASE ProcessStep
  <2>1. CASE Exit \/ Crash
    BY <2>1 DEF Exit, Crash, ProcessEnds, Next
  <2>2. CASE StartServers \/ Interrupted \/ Probe \/ healthHandler
    BY <2>2 DEF StartServers, Interrupted, Probe, healthHandler
  <2>3. ASSUME NEW x \in Servers, Listen(x) \/ Drain(x) \/ EndServer(x) PROVE [Next]_vars
    BY <2>3 DEF Listen, Drain, EndServer
  <2>4. QED
    BY <1>2, <2>1, <2>2, <2>3 DEF ProcessStep
<1>3. CASE Over \/ UNCHANGED everything
  BY <1>3 DEF Over, everything
<1>4. QED
  BY <1>1, <1>2, <1>3 DEF ServerNext

\* The two servers, counted.
LEMMA ServersCount ==
    /\ IsFiniteSet(Servers) /\ Cardinality(Servers) = 2
    /\ \A S \in SUBSET Servers : IsFiniteSet(S) /\ Cardinality(S) \in Nat /\ Cardinality(S) <= 2
<1>1. IsFiniteSet({"api"}) /\ Cardinality({"api"}) = 1
  BY FS_Singleton
<1>2. "health" \notin {"api"} /\ Servers = {"api"} \cup {"health"}
  BY DEF Servers
<1>3. IsFiniteSet(Servers) /\ Cardinality(Servers) = 2
  BY <1>1, <1>2, FS_AddElement
<1>4. QED
  BY <1>3, FS_Subset, FS_CardinalityType

\* The servers that have not returned.
Working(f) == {x \in Servers : f[x] \in {"starting", "serving", "draining"}}

LEMMA WorkingType ==
    /\ Working(server) \in SUBSET Servers
    /\ Cardinality(Working(server)) \in Nat /\ Cardinality(Working(server)) <= 2
<1>1. Working(server) \in SUBSET Servers
  BY DEF Working
<1>2. QED
  BY <1>1, ServersCount

LEMMA ServerInitInv == ServerInit => ServerInv
<1> SUFFICES ASSUME ServerInit PROVE ServerInv
  OBVIOUS
<1>1. IInv /\ TypeOK
  BY InitInv DEF ServerInit, IInv
<1>2. ServerTypeOK
  <2>1. group \in 0..Cardinality(Servers)
    BY ServersCount DEF ServerInit
  <2>2. QED
    BY <1>1, <2>1 DEF ServerInit, ServerTypeOK
<1>3. GroupInv
  <2>1. {x \in Servers : server[x] \in {"starting", "serving", "draining"}} = {}
    BY DEF ServerInit
  <2>2. group = Cardinality({x \in Servers : server[x] \in {"starting", "serving", "draining"}})
    BY <2>1, FS_EmptySet DEF ServerInit
  <2>3. QED
    BY <2>2 DEF ServerInit, GroupInv
<1>4. AnsweredInv /\ GracefulLosesNothing
  BY DEF ServerInit, Init, AnsweredInv, GracefulLosesNothing
<1>5. QED
  BY <1>1, <1>2, <1>3, <1>4 DEF ServerInv

\* The counter of the Stopper is the number of servers that have not returned,
\* whatever starts, ends or is started again.
LEMMA GroupStep == ServerInv /\ [ServerNext]_everything => GroupInv'
<1> SUFFICES ASSUME ServerInv, [ServerNext]_everything PROVE GroupInv'
  OBVIOUS
<1> USE DEF serverVars, processVars
<1>0. /\ server \in [Servers -> {"off", "starting", "serving", "draining", "ended"}]
      /\ GroupInv /\ group = Cardinality(Working(server))
  BY DEF ServerInv, ServerTypeOK, GroupInv, Working
<1>1. CASE StartServers
  <2>1. Working(server) = {}
    BY <1>0, <1>1 DEF StartServers, GroupInv, Working
  <2>2. group = 0
    BY <1>0, <2>1, FS_EmptySet
  <2>3. group' = 2
    BY <1>1, <2>2, ServersCount DEF StartServers
  <2>4. {x \in Servers : server'[x] \in {"starting", "serving", "draining"}} = Servers
    BY <1>1 DEF StartServers
  <2>5. main' = "wait" /\ \A x \in Servers : server'[x] = "starting"
    BY <1>1 DEF StartServers
  <2>6. QED
    BY <2>3, <2>4, <2>5, ServersCount DEF GroupInv
<1>2. CASE Interrupted
  BY <1>0, <1>2 DEF Interrupted, GroupInv
<1>3. CASE Exit \/ Crash
  <2>1. main' = "start" /\ group' = 0 /\ \A x \in Servers : server'[x] = "off"
    BY <1>3 DEF Exit, Crash, ProcessEnds
  <2>2. {x \in Servers : server'[x] \in {"starting", "serving", "draining"}} = {}
    BY <2>1
  <2>3. QED
    BY <2>1, <2>2, FS_EmptySet DEF GroupInv
<1>4. ASSUME NEW x \in Servers, Listen(x) \/ Drain(x) PROVE GroupInv'
  <2>1. /\ group' = group /\ main' = main
        /\ server[x] \in {"starting", "serving"}
        /\ \E l \in {"serving", "draining"} : server' = [server EXCEPT ![x] = l]
    BY <1>4 DEF Listen, Drain
  <2>2. {y \in Servers : server'[y] \in {"starting", "serving", "draining"}} = Working(server)
    BY <1>0, <2>1 DEF Working
  <2>3. \A y \in Servers : server'[y] = "off" <=> server[y] = "off"
    BY <1>0, <2>1
  <2>4. QED
    BY <1>0, <2>1, <2>2, <2>3 DEF GroupInv
<1>5. ASSUME NEW x \in Servers, EndServer(x) PROVE GroupInv'
  <2>1. /\ group' = group - 1 /\ main' = main /\ server[x] = "draining"
        /\ server' = [server EXCEPT ![x] = "ended"]
    BY <1>5 DEF EndServer, End
  <2>2. {y \in Servers : server'[y] \in {"starting", "serving", "draining"}} = Working(server) \ {x}
    BY <1>0, <2>1 DEF Working
  <2>3. x \in Working(server) /\ IsFiniteSet(Working(server))
    BY <2>1, WorkingType, ServersCount DEF Working
  <2>4. Cardinality(Working(server) \ {x}) = Cardinality(Working(server)) - 1
    BY <2>3, FS_RemoveElement
  <2>5. \A y \in Servers : server'[y] = "off" <=> server[y] = "off"
    BY <1>0, <2>1
  <2>6. group' = Cardinality({y \in Servers : server'[y] \in {"starting", "serving", "draining"}})
    BY <1>0, <2>1, <2>2, <2>4
  <2>7. QED
    BY <1>0, <2>1, <2>5, <2>6 DEF GroupInv
<1>6. CASE Probe \/ healthHandler
  BY <1>0, <1>6 DEF Probe, healthHandler, GroupInv
<1>7. CASE RequestStep \/ (Over /\ UNCHANGED serverVars) \/ UNCHANGED everything
  <2>1. UNCHANGED serverVars
    BY <1>7 DEF RequestStep, everything
  <2>2. QED
    BY <1>0, <2>1 DEF GroupInv
<1>8. QED
  BY <1>1, <1>2, <1>3, <1>4, <1>5, <1>6, <1>7 DEF ServerNext, ProcessStep

LEMMA ServerTypeStep == ServerInv /\ [ServerNext]_everything => ServerTypeOK'
<1> SUFFICES ASSUME ServerInv, [ServerNext]_everything PROVE ServerTypeOK'
  OBVIOUS
<1> USE DEF serverVars, processVars
<1>0. /\ ServerTypeOK /\ IInv
      /\ server \in [Servers -> {"off", "starting", "serving", "draining", "ended"}]
  BY DEF ServerInv, ServerTypeOK
<1>1. TypeOK'
  BY <1>0, ServerIsApi, TypeStep
<1>2. group' \in 0..Cardinality(Servers)
  <2>1. PICK S \in SUBSET Servers : group' = Cardinality(S)
    BY GroupStep DEF GroupInv
  <2>2. QED
    BY <2>1, ServersCount
<1>3. /\ main' \in {"start", "wait", "stopping"}
      /\ server' \in [Servers -> {"off", "starting", "serving", "draining", "ended"}]
      /\ probe' \in {"idle", "asked", "lost"}
      /\ crashed' \in BOOLEAN
  <2>1. CASE StartServers \/ Interrupted \/ Probe \/ healthHandler
    BY <1>0, <2>1 DEF StartServers, Interrupted, Probe, healthHandler, ServerTypeOK
  <2>2. CASE Exit \/ Crash
    BY <1>0, <2>2 DEF Exit, Crash, ProcessEnds, ServerTypeOK
  <2>3. ASSUME NEW x \in Servers, Listen(x) \/ Drain(x) \/ EndServer(x)
        PROVE  /\ UNCHANGED <<main, probe, crashed>>
               /\ server' \in [Servers -> {"off", "starting", "serving", "draining", "ended"}]
    BY <1>0, <2>3 DEF Listen, Drain, EndServer
  <2>4. CASE RequestStep \/ (Over /\ UNCHANGED serverVars) \/ UNCHANGED everything
    BY <1>0, <2>4 DEF RequestStep, everything, ServerTypeOK
  <2>5. QED
    BY <1>0, <2>1, <2>2, <2>3, <2>4 DEF ServerNext, ProcessStep, ServerTypeOK
<1>4. QED
  BY <1>1, <1>2, <1>3 DEF ServerTypeOK

\* A step other than the end of the process and the taking of a request leaves
\* no client waiting that was not, and tells none that its answer is lost.
LEMMA WaitingStays ==
    ASSUME ServerInv, NEW p \in Post,
           \/ \E q \in Post : Continue(q) \/ Timeout(q) \/ Poll(q)
           \/ \E i \in Id : Write(i) \/ WriteFails(i)
           \/ UNCHANGED vars
    PROVE  /\ answer'[p] = "lost" => answer[p] = "lost"
           /\ answer'[p] = "none" => answer[p] = "none"
           /\ pc'[p] # "idle" => pc[p] # "idle"
<1> USE DEF handlerVars, clientVars
<1>0. TypeOK
  BY DEF ServerInv, IInv
<1>1. ASSUME NEW q \in Post, Continue(q)
      PROVE  /\ answer'[p] = "lost" => answer[p] = "lost"
             /\ answer'[p] = "none" => answer[p] = "none"
             /\ pc'[p] # "idle" => pc[p] # "idle"
  BY <1>0, <1>1 DEF Continue, Auth, Insert, Go, Created, Goto, Respond, TypeOK
<1>2. ASSUME NEW q \in Post, Timeout(q) \/ Poll(q)
      PROVE  /\ answer'[p] = "lost" => answer[p] = "lost"
             /\ answer'[p] = "none" => answer[p] = "none"
             /\ pc' = pc
  BY <1>0, <1>2 DEF Timeout, Poll, TypeOK
<1>3. ASSUME NEW i \in Id, Write(i) \/ WriteFails(i)
      PROVE  UNCHANGED <<pc, answer>>
  BY <1>3 DEF Write, WriteFails
<1>4. CASE UNCHANGED vars
  BY <1>4 DEF vars
<1>5. QED
  BY <1>1, <1>2, <1>3, <1>4

\* What a step of the requests can be.
LEMMA RequestSteps ==
    ASSUME RequestStep
    PROVE  \/ \E p \in Post : server["api"] = "serving" /\ Receive(p)
           \/ \E p \in Post : Continue(p) \/ Timeout(p) \/ Poll(p)
           \/ \E i \in Id : Write(i) \/ WriteFails(i)
BY DEF RequestStep, Accept, Asked

\* A server ends with nothing pending, and takes nothing after.
LEMMA AnsweredStep == ServerInv /\ [ServerNext]_everything => AnsweredInv'
<1> SUFFICES ASSUME ServerInv, [ServerNext]_everything,
                    NEW x \in Servers, server'[x] = "ended"
             PROVE  ~Pending(x)'
  BY DEF AnsweredInv
<1> USE DEF serverVars, processVars
<1>0. /\ server \in [Servers -> {"off", "starting", "serving", "draining", "ended"}]
      /\ server[x] = "ended" => ~Pending(x)
  BY DEF ServerInv, ServerTypeOK, AnsweredInv
<1>1. CASE /\ \/ \E q \in Post : Continue(q) \/ Timeout(q) \/ Poll(q)
              \/ \E i \in Id : Write(i) \/ WriteFails(i)
              \/ UNCHANGED vars
           /\ probe' = "asked" => probe = "asked" \/ x # "health"
           /\ ~Pending(x)
  BY <1>1, WaitingStays DEF Pending
<1>2. CASE RequestStep
  <2>1. server[x] = "ended" /\ UNCHANGED probe
    BY <1>2 DEF RequestStep
  <2>2. CASE \E q \in Post : server["api"] = "serving" /\ Receive(q)
    <3>1. x # "api"
      BY <2>1, <2>2
    <3>2. QED
      BY <1>0, <2>1, <3>1 DEF Pending
  <2>3. CASE \/ \E q \in Post : Continue(q) \/ Timeout(q) \/ Poll(q)
             \/ \E i \in Id : Write(i) \/ WriteFails(i)
    BY <1>0, <1>1, <2>1, <2>3
  <2>4. QED
    BY <1>2, <2>2, <2>3, RequestSteps
<1>3. CASE StartServers \/ Exit \/ Crash
  <2>1. server'[x] # "ended"
    BY <1>3 DEF StartServers, Exit, Crash, ProcessEnds
  <2>2. QED
    BY <2>1
<1>4. CASE Interrupted \/ healthHandler
  BY <1>0, <1>1, <1>4 DEF Interrupted, healthHandler
<1>5. CASE Probe
  <2>1. x # "health" /\ server[x] = "ended" /\ UNCHANGED vars
    BY <1>5 DEF Probe
  <2>2. QED
    BY <1>0, <1>1, <2>1
<1>6. ASSUME NEW y \in Servers, Listen(y) \/ Drain(y) \/ EndServer(y) PROVE ~Pending(x)'
  <2>1. UNCHANGED vars /\ UNCHANGED probe
    BY <1>6 DEF Listen, Drain, EndServer
  <2>2. ~Pending(x)
    BY <1>0, <1>6 DEF Listen, Drain, EndServer
  <2>3. QED
    BY <1>1, <2>1, <2>2
<1>7. CASE (Over /\ UNCHANGED serverVars) \/ UNCHANGED everything
  <2>1. UNCHANGED vars /\ UNCHANGED probe /\ server[x] = "ended"
    BY <1>7 DEF Over, everything
  <2>2. QED
    BY <1>0, <1>1, <2>1
<1>8. QED
  BY <1>2, <1>3, <1>4, <1>5, <1>6, <1>7 DEF ServerNext, ProcessStep

\* serve returns when the group is done: both servers have ended, and so no
\* request waits.
LEMMA ExitLosesNothing ==
    ASSUME ServerInv, Exit
    PROVE  probe # "asked" /\ \A p \in Post : pc[p] = "idle" \/ answer[p] # "none"
<1>1. Working(server) = {}
  <2>1. Cardinality(Working(server)) = 0
    BY DEF Exit, ServerInv, GroupInv, Working
  <2>2. QED
    BY <2>1, WorkingType, ServersCount, FS_EmptySet
<1>2. \A x \in Servers : server[x] = "ended"
  <2>1. \A x \in Servers : server[x] # "off"
    BY DEF Exit, ServerInv, GroupInv
  <2>2. QED
    BY <1>1, <2>1 DEF Working, ServerInv, ServerTypeOK
<1>3. ~Pending("api") /\ ~Pending("health")
  BY <1>2 DEF ServerInv, AnsweredInv, Servers
<1>4. QED
  BY <1>3 DEF Pending

LEMMA GracefulStep == ServerInv /\ [ServerNext]_everything => GracefulLosesNothing'
<1> SUFFICES ASSUME ServerInv, [ServerNext]_everything, ~crashed'
             PROVE  probe' # "lost" /\ \A p \in Post : answer'[p] # "lost"
  BY DEF GracefulLosesNothing
<1> USE DEF serverVars, processVars
<1>1. CASE Exit
  <2>1. probe # "lost" /\ \A p \in Post : answer[p] # "lost"
    BY <1>1 DEF Exit, ServerInv, GracefulLosesNothing
  <2>2. QED
    BY <1>1, <2>1, ExitLosesNothing DEF Exit, ProcessEnds, Restart
<1>2. CASE Crash
  BY <1>2 DEF Crash
<1>3. CASE ~Crash /\ ~Exit
  <2>1. crashed' = crashed /\ (probe' = "lost" => probe = "lost")
    BY <1>3 DEF ServerNext, ProcessStep, RequestStep, StartServers, Interrupted, Listen, Drain,
                EndServer, Probe, healthHandler, everything
  <2>2. probe # "lost" /\ \A p \in Post : answer[p] # "lost"
    BY <2>1 DEF ServerInv, GracefulLosesNothing
  <2>3. CASE \E q \in Post : Receive(q)
    <3>1. \A p \in Post : answer'[p] # "lost"
      BY <2>2, <2>3 DEF Receive, Respond, ServerInv, IInv, TypeOK
    <3>2. QED
      BY <2>1, <2>2, <3>1
  <2>4. CASE \/ \E q \in Post : Continue(q) \/ Timeout(q) \/ Poll(q)
             \/ \E i \in Id : Write(i) \/ WriteFails(i)
             \/ UNCHANGED vars
    BY <2>1, <2>2, <2>4, WaitingStays
  <2>5. \/ \E q \in Post : Receive(q)
        \/ \E q \in Post : Continue(q) \/ Timeout(q) \/ Poll(q)
        \/ \E i \in Id : Write(i) \/ WriteFails(i)
        \/ UNCHANGED vars
    <3>1. CASE RequestStep
      BY <3>1, RequestSteps
    <3>2. CASE ~RequestStep
      BY <1>3, <3>2 DEF ServerNext, ProcessStep, StartServers, Interrupted, Listen, Drain,
                EndServer, Probe, healthHandler, everything, Over
    <3>3. QED
      BY <3>1, <3>2
  <2>6. QED
    BY <2>3, <2>4, <2>5
<1>4. QED
  BY <1>1, <1>2, <1>3

LEMMA ServerStep == ServerInv /\ [ServerNext]_everything => ServerInv'
<1>1. ServerInv /\ [ServerNext]_everything => IInv'
  BY ServerIsApi, ApiStep DEF ServerInv
<1>2. QED
  BY <1>1, ServerTypeStep, GroupStep, AnsweredStep, GracefulStep DEF ServerInv

(* ------------------------------------------------------------------------ *)
(* The theorems. *)

\* ServerInv is an invariant of the process: the inductive invariant of the
\* crawler API, the counter of the Stopper, and nothing pending where a server
\* has returned.
THEOREM ServerInvariance == ServerSpec => []ServerInv
<1>1. QED
  BY ServerInitInv, ServerStep, PTL DEF ServerSpec

\* The process with its servers implements the crawler API: what holds of every
\* behaviour of that holds here, whatever the servers and signals do.
THEOREM ServerImplementsApi == ServerSpec => Init /\ [][Next]_vars
<1>1. ServerInit => Init
  BY DEF ServerInit
<1>2. QED
  BY <1>1, ServerIsApi, PTL DEF ServerSpec

\* A client that was told an id was told that of its own crawl, which was
\* started (postCrawler).
THEOREM CreatedWasStarted == ServerSpec => []CreatedIsStarted
<1>1. ServerInv => CreatedIsStarted
  BY InvCreatedIsStarted DEF ServerInv
<1>2. QED
  BY <1>1, ServerInvariance, PTL

\* No more rows are abandoned than there are requests that failed or timed out
\* without an id (InsertCrawler and the handler around it).
THEOREM NoMoreAbandoned == ServerSpec => []RowsAreWorkedOn
<1>1. ServerInv => RowsAreWorkedOn
  BY InvRowsAreWorkedOn DEF ServerInv
<1>2. QED
  BY <1>1, ServerInvariance, PTL

\* An end that was asked for loses no answer (Stopper.Stop, Run, RunHealth).
THEOREM GracefulEnd == ServerSpec => []GracefulLosesNothing
<1>1. ServerInv => GracefulLosesNothing
  BY DEF ServerInv
<1>2. QED
  BY <1>1, ServerInvariance, PTL

\* Polls of a crawl never show it go backwards (UpdateCrawler, getCrawler).
THEOREM PollsForward == ServerSpec => PollsGoForward
<1>1. ServerInv /\ [ServerNext]_everything =>
        [\A p \in Post : seen[p] # None =>
            /\ Rank(seen[p]) <= Rank(seen'[p])
            /\ seen[p] \in Final => seen'[p] = seen[p]]_vars
  BY ServerIsApi, PollStep DEF ServerInv
<1>2. QED
  BY <1>1, ServerInvariance, PTL DEF ServerSpec, PollsGoForward
=============================================================================
