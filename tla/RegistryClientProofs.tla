------------------------ MODULE RegistryClientProofs ------------------------
(* A list of names is complete and free of repetitions, and asking for it makes
   progress, for any names and any changes of the registry while it is listed. *)
EXTENDS RegistryClient, TLAPS, FiniteSetTheorems

\* The registry may list nothing, or a first part of what is left.
LEMMA PagesOfRest ==
    ASSUME NEW page \in Pages, present \subseteq Name
    PROVE  /\ page \subseteq Rest
           /\ \A n \in page, m \in Rest : m <= n => m \in page
  <1>1. CASE Rest = {}
    BY <1>1 DEF Pages
  <1>2. CASE Rest # {}
    <2>1. PICK last \in Rest : page = {n \in Rest : n <= last}
      BY <1>2 DEF Pages
    <2>2. Rest \subseteq Nat
      BY NameAssumption DEF Rest
    <2> QED
      BY <2>1, <2>2
  <1> QED
    BY <1>1, <1>2

\* The last name of a page that is not all that is left.
LEMMA LastOfPage ==
    ASSUME NEW page \in Pages, page # Rest, present \subseteq Name
    PROVE  /\ Last(page) \in page
           /\ \A m \in page : m <= Last(page)
  <1>1. Rest # {}
    BY DEF Pages
  <1>2. PICK last \in Rest : page = {n \in Rest : n <= last}
    BY <1>1 DEF Pages
  <1>3. Rest \subseteq Nat
    BY NameAssumption DEF Rest
  <1>4. last \in page /\ \A m \in page : m <= last
    BY <1>2, <1>3
  <1> QED
    BY <1>4 DEF Last

THEOREM InitIInv == Init => IInv
  BY MaxChangesAssumption DEF Init, IInv, TypeOK

\* A list that goes on, and one that ends.
LEMMA NextPagePreserves ==
    ASSUME IInv, what = "page", pc \in {"send", "retry"}, NEW page \in Pages,
           NextPage(page), UNCHANGED registryVars
    PROVE  IInv'
  <1>0. present \subseteq Name /\ url \in Nat /\ Name \subseteq Nat
    BY NameAssumption DEF IInv, TypeOK
  <1>1. page \subseteq Rest /\ \A n \in page, m \in Rest : m <= n => m \in page
    BY <1>0, PagesOfRest
  <1>2. Last(page) \in page /\ \A m \in page : m <= Last(page)
    BY <1>0, LastOfPage DEF NextPage
  <1>3. Last(page) \in Name /\ Last(page) > url
    BY <1>0, <1>1, <1>2 DEF Rest
  <1>4. TypeOK'
    BY <1>3 DEF IInv, TypeOK, NextPage, Append, registryVars
  <1>5. ASSUME NEW n \in Name
        PROVE  /\ listed'[n] <= 1
               /\ n > url' => listed'[n] = 0
               /\ n <= url' /\ n \in always' => listed'[n] = 1
    <2>1. listed'[n] = IF n \in page THEN listed[n] + 1 ELSE listed[n]
      BY DEF NextPage, Append
    <2>2. n \in page => listed[n] = 0 /\ n <= Last(page)
      BY <1>0, <1>1, <1>2 DEF Rest, IInv
    <2>3. listed[n] \in Nat
      BY DEF IInv, TypeOK
    <2>4. listed'[n] <= 1
      BY <2>1, <2>2, <2>3 DEF IInv
    <2>5. n > url' => listed'[n] = 0
      <3> SUFFICES ASSUME n > Last(page)
                   PROVE  listed'[n] = 0
        BY DEF NextPage
      <3>1. n > url /\ ~(n <= Last(page))
        <4>1. n \in Nat /\ url \in Nat /\ Last(page) \in Nat
          BY <1>0, <1>3
        <4>2. \A u, l, m \in Nat : m > l /\ l > u => m > u /\ ~(m <= l)
          OBVIOUS
        <4> QED
          BY <4>1, <4>2, <1>3
      <3>2. listed[n] = 0
        BY <3>1 DEF IInv
      <3> QED
        BY <3>1, <3>2, <2>1, <2>2
    <2>6. ASSUME n <= url', n \in always'
          PROVE  listed'[n] = 1
      <3>1. n \in always /\ n \in present /\ n <= Last(page)
        BY <2>6 DEF NextPage, IInv
      <3>2. CASE n <= url
        BY <3>1, <3>2, <1>0, <1>1, <2>1, <2>3 DEF IInv, Rest
      <3>3. CASE ~(n <= url)
        <4>1. n \in Rest
          BY <3>1, <3>3, <1>0 DEF Rest
        <4>2. n \in page
          BY <4>1, <3>1, <1>1, <1>2
        <4> QED
          BY <4>2, <2>1, <2>2
      <3> QED
        BY <3>2, <3>3
    <2> QED
      BY <2>4, <2>5, <2>6
  <1>6. what' = "page" /\ pc' = "send" /\ always' \subseteq present'
    BY DEF NextPage, IInv, registryVars
  <1> QED
    BY <1>4, <1>5, <1>6 DEF IInv

LEMMA LastPagePreserves ==
    ASSUME IInv, what = "page", pc \in {"send", "retry"}, NEW page \in Pages,
           LastPage(page), UNCHANGED registryVars
    PROVE  IInv'
  <1>0. present \subseteq Name /\ url \in Nat /\ Name \subseteq Nat
    BY NameAssumption DEF IInv, TypeOK
  <1>1. TypeOK'
    BY DEF IInv, TypeOK, LastPage, Append, registryVars
  <1>2. ASSUME NEW n \in Name
        PROVE  listed'[n] <= 1 /\ (n \in always' => listed'[n] = 1)
    <2>1. listed'[n] = IF n \in Rest THEN listed[n] + 1 ELSE listed[n]
      BY DEF LastPage, Append
    <2>2. listed[n] \in Nat /\ listed[n] <= 1 /\ (n > url => listed[n] = 0)
      BY DEF IInv, TypeOK
    <2>3. CASE n \in Rest
      BY <2>1, <2>2, <2>3, <1>0 DEF Rest
    <2>4. CASE n \notin Rest
      BY <2>1, <2>2, <2>4, <1>0 DEF Rest, IInv, LastPage
    <2> QED
      BY <2>3, <2>4
  <1>3. what' = "page" /\ pc' = "listed" /\ always' \subseteq present'
    BY DEF LastPage, IInv, registryVars
  <1> QED
    BY <1>1, <1>2, <1>3 DEF IInv

LEMMA AnsweredPreserves ==
    ASSUME IInv, pc \in {"send", "retry"}, Answered, UNCHANGED registryVars
    PROVE  IInv'
  <1>1. CASE what = "ping" /\ Pinged
    <2>1. url = 0 /\ url' = 0 /\ listed' = listed /\ always' = present /\ present' = present
      BY <1>1 DEF IInv, Pinged, registryVars
    <2>2. TypeOK'
      BY <1>1, <2>1 DEF IInv, TypeOK, Pinged, registryVars
    <2>3. \A n \in Name : n \in Nat /\ n > 0
      BY NameAssumption
    <2> QED
      BY <1>1, <2>1, <2>2, <2>3 DEF IInv, Pinged
  <1>2. CASE what = "page" /\ \E page \in Pages : NextPage(page) \/ LastPage(page)
    BY <1>2, NextPagePreserves, LastPagePreserves
  <1> QED
    BY <1>1, <1>2 DEF Answered

LEMMA FailedPreserves ==
    ASSUME IInv, pc \in {"send", "auth", "retry"}, Failed, UNCHANGED registryVars
    PROVE  IInv'
  BY DEF IInv, TypeOK, Failed, registryVars

LEMMA DemandPreserves ==
    ASSUME IInv, pc \in {"send", "auth"}, pc' \in {"auth", "retry"},
           UNCHANGED <<what, url, listed, always>>, UNCHANGED registryVars
    PROVE  IInv'
  BY DEF IInv, TypeOK, registryVars

THEOREM NextIInv == IInv /\ [Next]_vars => IInv'
  <1> SUFFICES ASSUME IInv, [Next]_vars
               PROVE  IInv'
    OBVIOUS
  <1>1. CASE Change
    <2>1. present' \subseteq Name
      BY <1>1 DEF Change, IInv, TypeOK
    <2>2. changes' \in 0..MaxChanges
      BY <1>1, MaxChangesAssumption DEF Change, IInv, TypeOK
    <2> QED
      BY <1>1, <2>1, <2>2 DEF Change, IInv, TypeOK
  <1>2. CASE New
    BY <1>2 DEF New, IInv, TypeOK, registryVars
  <1>3. CASE Send
    BY <1>3, AnsweredPreserves, FailedPreserves, DemandPreserves DEF Send, Demanded
  <1>4. CASE Auth
    BY <1>4, FailedPreserves, DemandPreserves DEF Auth
  <1>5. CASE Retry
    BY <1>5, AnsweredPreserves, FailedPreserves DEF Retry
  <1>6. CASE Returned \/ UNCHANGED vars
    BY <1>6 DEF Returned, vars, registryVars, IInv, TypeOK
  <1> QED
    BY <1>1, <1>2, <1>3, <1>4, <1>5, <1>6 DEF Next, Client

THEOREM Invariance == Spec => []IInv
  <1>1. Init => IInv
    BY InitIInv
  <1>2. IInv /\ [Next]_vars => IInv'
    BY NextIInv
  <1> QED
    BY <1>1, <1>2, PTL DEF Spec

\* A returned list has every name that was there throughout.
THEOREM CompleteListing == Spec => []ListingIsComplete
  <1>1. IInv => ListingIsComplete
    BY DEF IInv, TypeOK, ListingIsComplete
  <1> QED
    BY <1>1, Invariance, PTL

\* No name is listed twice.
THEOREM ListedOnce == Spec => []NothingListedTwice
  <1>1. IInv => NothingListedTwice
    BY DEF IInv, NothingListedTwice
  <1> QED
    BY <1>1, Invariance, PTL

(* ------------------------------------------------------------------------ *)
(* Progress. *)

\* The names after a later name are fewer.
LEMMA FewerAfter ==
    ASSUME NEW u \in Name \cup {0}, NEW w \in Name, w > u
    PROVE  LET A == {n \in Name : n > u}
               B == {n \in Name : n > w}
           IN  Cardinality(A) \in Nat /\ Cardinality(B) \in Nat
               /\ Cardinality(B) < Cardinality(A)
  <1> DEFINE A == {n \in Name : n > u}
             B == {n \in Name : n > w}
  <1>1. u \in Nat /\ w \in Nat /\ Name \subseteq Nat /\ IsFiniteSet(Name)
    BY NameAssumption
  <1>2. IsFiniteSet(A)
    <2>1. A \in SUBSET Name
      OBVIOUS
    <2> QED
      BY <1>1, <2>1, FS_Subset
  <1>3. B \subseteq A
    <2>1. \A k, l, m \in Nat : k > l /\ l > m => k > m
      OBVIOUS
    <2>2. \A n \in Name : n > w => n > u
      BY <1>1, <2>1
    <2> QED
      BY <2>2
  <1>4. w \in A /\ w \notin B
    BY <1>1
  <1>5. IsFiniteSet(B) /\ Cardinality(B) <= Cardinality(A)
        /\ (Cardinality(A) = Cardinality(B) => A = B)
    BY <1>2, <1>3, FS_Subset
  <1>6. Cardinality(A) \in Nat /\ Cardinality(B) \in Nat
    BY <1>2, <1>5, FS_CardinalityType
  <1> QED
    BY <1>4, <1>5, <1>6

LEMMA CountType == \A S \in SUBSET Name : Cardinality(S) \in Nat
  BY NameAssumption, FS_Subset, FS_CardinalityType

\* A step of the call leaves fewer pages, or none more and less of the request.
LEMMA Closer ==
    ASSUME IInv, IInv', \/ PagesLeft' < PagesLeft /\ pc # "listed" /\ pc # "failed"
                        \/ PagesLeft' = PagesLeft /\ Phase[pc'] < Phase[pc],
           pc' = "idle" => pc = "idle"
    PROVE  StepsLeft' < StepsLeft
  <1>1. PagesLeft \in Nat /\ PagesLeft' \in Nat
    BY CountType DEF PagesLeft
  <1>2. /\ pc \in {"idle", "send", "auth", "retry", "listed", "failed"}
        /\ pc' \in {"idle", "send", "auth", "retry", "listed", "failed"}
    BY DEF IInv, TypeOK
  <1>3. Phase[pc] \in 0..4 /\ Phase[pc'] \in 0..4
    BY <1>2 DEF Phase
  <1>4. CASE PagesLeft' = PagesLeft /\ Phase[pc'] < Phase[pc]
    BY <1>1, <1>3, <1>4 DEF StepsLeft, Phase
  <1>5. CASE PagesLeft' < PagesLeft /\ pc # "listed" /\ pc # "failed"
    <2>1. Phase[pc] >= 1 /\ (Phase[pc'] <= 3 \/ Phase[pc] = 4)
      BY <1>2, <1>5 DEF Phase
    <2>2. StepsLeft = 4 * PagesLeft + Phase[pc] /\ StepsLeft' = 4 * PagesLeft' + Phase[pc']
      BY DEF StepsLeft, Phase
    <2> QED
      BY <1>1, <1>3, <1>5, <2>1, <2>2
  <1> QED
    BY <1>4, <1>5

\* An answer is the last one, or leads to a page of later names.
LEMMA AnswerIsProgress ==
    ASSUME IInv, IInv', pc \in {"send", "retry"}, Answered, UNCHANGED registryVars
    PROVE  StepsLeft' < StepsLeft
  <1>0. /\ present \subseteq Name /\ url \in Name \cup {0} /\ url \in Nat /\ Name \subseteq Nat
        /\ \A n \in Name : n > 0
    BY NameAssumption DEF IInv, TypeOK
  <1>1. CASE what = "ping" /\ Pinged
    <2>1. url = 0 /\ url' = 0 /\ what' = "page" /\ pc' = "send"
      BY <1>1 DEF IInv, Pinged
    <2>2. {n \in Name : n > 0} = Name
      BY <1>0
    <2>3. PagesLeft = Cardinality(Name) + 1 /\ PagesLeft' = Cardinality(Name)
      BY <1>1, <2>1, <2>2 DEF PagesLeft
    <2>4. Cardinality(Name) \in Nat
      BY NameAssumption, FS_CardinalityType
    <2> QED
      BY <2>1, <2>3, <2>4, Closer
  <1>2. CASE what = "page" /\ \E page \in Pages : NextPage(page)
    <2>1. PICK page \in Pages : NextPage(page)
      BY <1>2
    <2>2. page \subseteq Rest /\ Last(page) \in page
      BY <1>0, <2>1, PagesOfRest, LastOfPage DEF NextPage
    <2>3. url' \in Name /\ url' > url /\ what' = what /\ pc' = "send"
      BY <1>0, <2>1, <2>2 DEF NextPage, Rest
    <2>4. PagesLeft' < PagesLeft
      BY <1>0, <1>2, <2>3, FewerAfter DEF PagesLeft
    <2> QED
      BY <2>3, <2>4, Closer
  <1>3. CASE what = "page" /\ \E page \in Pages : LastPage(page)
    <2>1. pc' = "listed" /\ PagesLeft' = PagesLeft
      BY <1>3 DEF LastPage, PagesLeft
    <2>2. Phase[pc'] < Phase[pc]
      BY <2>1 DEF Phase
    <2> QED
      BY <2>1, <2>2, Closer
  <1> QED
    BY <1>1, <1>2, <1>3 DEF Answered

\* The other steps keep the page and go on in the request, or end the call.
LEMMA RequestIsProgress ==
    ASSUME IInv, IInv', UNCHANGED <<what, url>>,
           \/ pc = "idle" /\ pc' = "send"
           \/ pc = "send" /\ pc' \in {"auth", "failed"}
           \/ pc = "auth" /\ pc' \in {"retry", "failed"}
           \/ pc = "retry" /\ pc' = "failed"
    PROVE  StepsLeft' < StepsLeft
  <1>1. PagesLeft' = PagesLeft
    BY DEF PagesLeft
  <1>2. Phase[pc'] < Phase[pc]
    BY DEF Phase
  <1> QED
    BY <1>1, <1>2, Closer

LEMMA StepIsProgress ==
    IInv /\ IInv' /\ [Next]_vars => [UNCHANGED registryVars => StepsLeft' < StepsLeft]_vars
  <1> SUFFICES ASSUME IInv, IInv', Next, vars' # vars, UNCHANGED registryVars
               PROVE  StepsLeft' < StepsLeft
    OBVIOUS
  <1>1. CASE Change
    <2>1. changes' = changes /\ changes \in Nat
      BY MaxChangesAssumption DEF registryVars, IInv, TypeOK
    <2> QED
      BY <1>1, <2>1 DEF Change
  <1>2. CASE New
    BY <1>2, RequestIsProgress DEF New
  <1>3. CASE Send
    BY <1>3, AnswerIsProgress, RequestIsProgress DEF Send, Demanded, Failed
  <1>4. CASE Auth
    BY <1>4, RequestIsProgress DEF Auth, Failed
  <1>5. CASE Retry
    BY <1>5, AnswerIsProgress, RequestIsProgress DEF Retry, Failed
  <1>6. CASE Returned
    BY <1>6 DEF Returned
  <1> QED
    BY <1>1, <1>2, <1>3, <1>4, <1>5, <1>6 DEF Next, Client

\* Every step of a call brings it closer to its end.
THEOREM Progress == Spec => CallMakesProgress
  <1>1. IInv /\ IInv' /\ [Next]_vars => [UNCHANGED registryVars => StepsLeft' < StepsLeft]_vars
    BY StepIsProgress
  <1> QED
    BY <1>1, Invariance, PTL DEF Spec, CallMakesProgress
=============================================================================
