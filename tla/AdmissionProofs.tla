-------------------------- MODULE AdmissionProofs --------------------------
(* Proofs about the webhook, for any number of reviews, requests, policies and
   scans: what a review lets pass was scanned to the end and is clean.  The
   lemmas about one step are stated of any step that does not touch the reviews,
   so that Pages can use them as well.  Before them, what getViolations says for
   all policies and features: when it finds nothing, and that this is monotone.
   (The number of violations is not: a feature on an operating system that is not
   allowed counts once.) *)
EXTENDS Admission, ImageScanProofs, FiniteSetTheorems, WellFoundedInduction

(* ------------------------------------------------------------------------ *)
(* The rules of a policy. *)

\* A vulnerability of a feature is let pass if it is not in the blacklist and
\* there is a reason to.
LEMMA VulnClean ==
    ASSUME NEW p, NEW f, NEW v
    PROVE  VulnViolations(p, f, v) = {} <=> v.name \notin p.notAllowedCves /\ Passes(p, v)
  BY DEF VulnViolations

\* A feature is let pass if its operating system is allowed and its
\* vulnerabilities are let pass.
LEMMA FeatureClean ==
    ASSUME NEW p, NEW f
    PROVE  FeatureViolations(p, f) = {} <=>
             /\ f.os \notin p.notAllowedOs
             /\ \A v \in f.vulns : v.name \notin p.notAllowedCves /\ Passes(p, v)
<1>1. CASE f.os \in p.notAllowedOs
  BY <1>1 DEF FeatureViolations
<1>2. CASE f.os \notin p.notAllowedOs
  <2>1. FeatureViolations(p, f) = {} <=> \A v \in f.vulns : VulnViolations(p, f, v) = {}
    BY <1>2 DEF FeatureViolations
  <2>2. QED
    BY <1>2, <2>1, VulnClean
<1>3. QED
  BY <1>1, <1>2

\* getViolations (routes.go:899) finds nothing exactly if no feature is on an
\* operating system that is not allowed, no vulnerability is in the blacklist,
\* and each of them is in the whitelist, of an allowed severity, or allowed for
\* having no fix.
THEOREM NoViolations ==
    ASSUME NEW p, NEW features
    PROVE  getViolations(p, features) = {} <=>
             \A f \in features :
               /\ f.os \notin p.notAllowedOs
               /\ \A v \in f.vulns : v.name \notin p.notAllowedCves /\ Passes(p, v)
<1>1. getViolations(p, features) = {} <=>
        \A f \in features : FeatureViolations(p, f) = {}
  BY DEF getViolations
<1>2. QED
  BY <1>1, FeatureClean

\* What passes a policy passes every policy that is less strict: no rule of
\* getViolations can turn a permission into a violation.
THEOREM StricterAdmitsLess ==
    ASSUME NEW p \in Policy, NEW q \in Policy, Stricter(p, q),
           NEW features, getViolations(p, features) = {}
    PROVE  getViolations(q, features) = {}
<1>1. SUFFICES ASSUME NEW f \in features
      PROVE  /\ f.os \notin q.notAllowedOs
             /\ \A v \in f.vulns : v.name \notin q.notAllowedCves /\ Passes(q, v)
  BY NoViolations
<1>2. /\ f.os \notin p.notAllowedOs
      /\ \A v \in f.vulns : v.name \notin p.notAllowedCves /\ Passes(p, v)
  BY NoViolations
<1>3. \A v : Passes(p, v) => Passes(q, v)
  BY DEF Stricter, Passes, Policy
<1>4. QED
  BY <1>2, <1>3 DEF Stricter

\* An image found clean was clean by any earlier state of Clair's database that
\* knew of less: vulnerabilities learnt later never clear an image.
THEOREM LearningNeverClears ==
    ASSUME NEW p, NEW features, NEW more, KnownMore(features, more),
           getViolations(p, more) = {}
    PROVE  getViolations(p, features) = {}
<1>1. SUFFICES ASSUME NEW f \in features
      PROVE  /\ f.os \notin p.notAllowedOs
             /\ \A v \in f.vulns : v.name \notin p.notAllowedCves /\ Passes(p, v)
  BY NoViolations
<1>2. PICK g \in more : f.os = g.os /\ f.vulns \subseteq g.vulns
  BY DEF KnownMore
<1>3. /\ g.os \notin p.notAllowedOs
      /\ \A v \in g.vulns : v.name \notin p.notAllowedCves /\ Passes(p, v)
  BY NoViolations
<1>4. QED
  BY <1>2, <1>3

\* The default policy is violated by every vulnerability (docs/README.md:689:
\* "will create a violation for ANY detected vulnerability").
THEOREM DefaultFlagsEverything ==
    ASSUME NEW features
    PROVE  getViolations(DefaultPolicy, features) = {} <=> \A f \in features : f.vulns = {}
<1>1. \A v : ~Passes(DefaultPolicy, v)
  BY DEF Passes, DefaultPolicy
<1>2. \A f : f.os \notin DefaultPolicy.notAllowedOs
  BY DEF DefaultPolicy
<1>3. getViolations(DefaultPolicy, features) = {} <=>
        \A f \in features :
          /\ f.os \notin DefaultPolicy.notAllowedOs
          /\ \A v \in f.vulns : v.name \notin DefaultPolicy.notAllowedCves
                                /\ Passes(DefaultPolicy, v)
  BY NoViolations
<1>4. QED
  BY <1>1, <1>2, <1>3

(* ------------------------------------------------------------------------ *)
(* Induction over positions. *)

\* A set of numbers that is not empty has a least element.
LEMMA LeastElement ==
    ASSUME NEW T \in SUBSET Nat, T # {}
    PROVE  \E x \in T : \A y \in T : x <= y
<1> DEFINE Below == {0..x : x \in T}
<1>1. Below \subseteq FiniteSubsetsOf(Nat)
  <2> SUFFICES ASSUME NEW x \in T PROVE 0..x \in FiniteSubsetsOf(Nat)
    OBVIOUS
  <2>1. x \in Nat
    OBVIOUS
  <2>2. IsFiniteSet(0..x)
    BY <2>1, FS_Interval
  <2>3. 0..x \subseteq Nat
    BY <2>1
  <2>4. QED
    BY <2>2, <2>3 DEF FiniteSubsetsOf
<1>2. Below # {}
  OBVIOUS
<1>3. PICK X \in Below : \A Y \in Below : <<Y, X>> \notin StrictSubsetOrdering(Nat)
  <2> HIDE DEF Below
  <2> QED
    BY <1>1, <1>2, FS_StrictSubsetOrderingWellFounded, WFMin
<1>4. PICK x \in T : X = 0..x
  OBVIOUS
<1>5. ASSUME NEW y \in T, y < x PROVE FALSE
  <2>1. 0..y \in Below /\ 0..y \subseteq 0..x /\ x \in 0..x /\ x \notin 0..y
    BY <1>5
  <2>2. <<0..y, X>> \in StrictSubsetOrdering(Nat)
    BY <1>4, <2>1 DEF StrictSubsetOrdering
  <2>3. QED
    BY <1>3, <2>1, <2>2
<1>6. QED
  BY <1>5

\* A set of positions that has the first, and with each the next, has all.
LEMMA Positions ==
    ASSUME NEW n \in Nat, NEW S, 1 \in S, \A j \in 1..n : j \in S /\ j # n => j + 1 \in S
    PROVE  1..n \subseteq S
<1> DEFINE T == (1..n) \ S
<1> SUFFICES ASSUME T # {} PROVE FALSE
  OBVIOUS
<1>1. PICK x \in T : \A y \in T : x <= y
  <2>1. T \in SUBSET Nat
    OBVIOUS
  <2> HIDE DEF T
  <2>2. QED
    BY <2>1, LeastElement
<1>2. x \in 1..n /\ x # 1
  OBVIOUS
<1>3. x - 1 \in 1..n /\ x - 1 # n /\ (x - 1) + 1 = x
  BY <1>2
<1>4. x - 1 \in S
  BY <1>1, <1>2, <1>3
<1>5. QED
  BY <1>3, <1>4

(* ------------------------------------------------------------------------ *)
(* The view that Clair has of a layer. *)

\* What is left of a feature with some of the vulnerabilities.
LEMMA OnlyCvesFields ==
    ASSUME NEW f \in Feature, NEW cves
    PROVE  /\ OnlyCves(f, cves).os = f.os
           /\ OnlyCves(f, cves).vulns = {v \in f.vulns : v.name \in cves}
<1> DEFINE few == {v \in f.vulns : v.name \in cves}
<1>1. OnlyCves(f, cves) = [f EXCEPT !.vulns = few]
  BY DEF OnlyCves
<1>2. [f EXCEPT !.vulns = few].os = f.os /\ [f EXCEPT !.vulns = few].vulns = few
  <2> HIDE DEF few
  <2> QED
    BY DEF Feature
<1>3. QED
  BY <1>1, <1>2

LEMMA OnlyCvesLess ==
    ASSUME NEW f \in Feature, NEW some, NEW more, some \subseteq more
    PROVE  /\ OnlyCves(f, some).os = OnlyCves(f, more).os
           /\ OnlyCves(f, some).vulns \subseteq OnlyCves(f, more).vulns
BY OnlyCvesFields

\* What the features of a view, and those of a content, are.
LEMMA InView ==
    ASSUME NEW name, NEW g
    PROVE  g \in MergedView(name) <=>
             \E m \in Chain(name) : \E f \in FeaturesOf[m[2]] : g = OnlyCves(f, known)
BY Zenon DEF MergedView

LEMMA InContent ==
    ASSUME NEW d, NEW cves, NEW g
    PROVE  g \in FeaturesOfDigest(d, cves) <=>
             \E k \in 1..Len(LayersOfDigest(d)) :
                \E f \in FeaturesOf[LayersOfDigest(d)[k]] : g = OnlyCves(f, cves)
BY Zenon DEF FeaturesOfDigest

\* Every layer of a digest that is stacked up to its top is in the view of it.
LEMMA StackInChain ==
    ASSUME TypeOK, NEW d \in Digest, Stacked(d, 1), NEW k \in 1..Len(LayersOfDigest(d))
    PROVE  LayerName(d, LayersOfDigest(d)[k]) \in Chain(LayerName(d, LayersOfDigest(d)[1]))
<1> DEFINE content == LayersOfDigest(d)
           n == Len(content)
           names(j) == LayerName(d, content[j])
<1>1. n \in Nat /\ \A j \in 1..n : names(j) \in Name
  BY ContentType
<1>2. \A j \in 1..n : j # n => clair[names(j)] = names(j + 1)
  BY DEF Stacked
<1>3. ASSUME NEW S \in SUBSET Name, names(1) \in S,
             \A m \in S : clair[m] \in Name => clair[m] \in S
      PROVE  names(k) \in S
  <2> DEFINE reached == {j \in 1..n : names(j) \in S}
  <2>1. 1 \in reached
    BY <1>1, <1>3
  <2>2. \A j \in 1..n : j \in reached /\ j # n => j + 1 \in reached
    <3> SUFFICES ASSUME NEW j \in 1..n, names(j) \in S, j # n
                 PROVE  j + 1 \in 1..n /\ names(j + 1) \in S
      OBVIOUS
    <3>1. j + 1 \in 1..n
      BY <1>1
    <3>2. clair[names(j)] = names(j + 1) /\ names(j + 1) \in Name
      BY <1>1, <1>2, <3>1
    <3>3. QED
      BY <1>3, <3>1, <3>2
  <2>3. 1..n \subseteq reached
    <3> HIDE DEF reached
    <3> QED
      BY <1>1, <2>1, <2>2, Positions
  <2>4. QED
    BY <2>3
<1>4. QED
  BY <1>1, <1>3 DEF Chain

\* What Clair shows of a row that is served is all it knows of the content.
LEMMA ViewOfServed ==
    ASSUME TypeOK, NEW i \in Image, Served(i), NEW cves \in SUBSET known
    PROVE  KnownMore(FeaturesOfDigest(i[2], cves), MergedView(rows[i].top))
<1> DEFINE d == i[2]
<1>1. d \in Digest
  BY DEF Image
<1> SUFFICES ASSUME NEW k \in 1..Len(LayersOfDigest(d)), NEW f \in FeaturesOf[LayersOfDigest(d)[k]]
             PROVE  \E g \in MergedView(rows[i].top) :
                      OnlyCves(f, cves).os = g.os /\ OnlyCves(f, cves).vulns \subseteq g.vulns
  BY InContent DEF KnownMore
<1>2. LayerName(d, LayersOfDigest(d)[k]) \in Chain(rows[i].top)
  BY <1>1, StackInChain DEF Served
<1>3. LayerName(d, LayersOfDigest(d)[k])[2] = LayersOfDigest(d)[k]
  BY DEF LayerName
<1>4. OnlyCves(f, known) \in MergedView(rows[i].top)
  BY <1>2, <1>3, InView
<1>5. f \in Feature
  <2>1. LayersOfDigest(d)[k] \in Blob
    BY <1>1, ContentType, ElementOfSeq
  <2>2. QED
    BY <2>1, FeaturesAssumption
<1>6. QED
  BY <1>4, <1>5, OnlyCvesLess

\* The vulnerabilities Clair knows of once, it knows of later; and a layer it
\* has keeps all that is below it.
LEMMA ViewGrows ==
    ASSUME TypeOK, ClairInv, [Next]_vars, known \subseteq known',
           NEW name \in Name, clair[name] # None
    PROVE  KnownMore(MergedView(name), MergedView(name)')
<1>1. Chain(name) \subseteq Chain(name)'
  <2> SUFFICES ASSUME NEW m \in Chain(name), NEW S \in SUBSET Name, name \in S,
                      \A n \in S : clair'[n] \in Name => clair'[n] \in S
               PROVE  m \in S
    BY DEF Chain
  <2> DEFINE has == {n \in S : clair[n] # None}
  <2>1. \A n \in has : clair[n] \in Name => clair[n] \in has
    <3> SUFFICES ASSUME NEW n \in has, clair[n] \in Name PROVE clair[n] \in has
      OBVIOUS
    <3>1. clair'[n] = clair[n]
      BY ClairStays
    <3>2. clair[clair[n]] # None
      BY DEF ClairInv
    <3>3. QED
      BY <3>1, <3>2
  <2>2. has \in SUBSET Name /\ name \in has
    OBVIOUS
  <2>3. m \in has
    BY <2>1, <2>2 DEF Chain
  <2>4. QED
    BY <2>3
<1> SUFFICES ASSUME NEW m \in Chain(name), NEW f \in FeaturesOf[m[2]]
             PROVE  \E g \in MergedView(name)' :
                      OnlyCves(f, known).os = g.os /\ OnlyCves(f, known).vulns \subseteq g.vulns
  BY InView DEF KnownMore
<1>2. OnlyCves(f, known') \in MergedView(name)'
  <2>1. f \in UNION {FeaturesOf[n[2]] : n \in Chain(name)'}
    BY <1>1
  <2>2. QED
    BY <2>1 DEF MergedView, OnlyCves
<1>3. f \in Feature
  BY FeaturesAssumption DEF Chain, Name
<1>4. QED
  BY <1>2, <1>3, OnlyCvesLess

\* One set of features has all that another has, and that of a third.
LEMMA KnownMoreTransitive ==
    ASSUME NEW a, NEW b, NEW c, KnownMore(a, b), KnownMore(b, c)
    PROVE  KnownMore(a, c)
<1> SUFFICES ASSUME NEW f \in a PROVE \E h \in c : f.os = h.os /\ f.vulns \subseteq h.vulns
  BY DEF KnownMore
<1>1. PICK g \in b : f.os = g.os /\ f.vulns \subseteq g.vulns
  BY DEF KnownMore
<1>2. PICK h \in c : g.os = h.os /\ g.vulns \subseteq h.vulns
  BY DEF KnownMore
<1>3. QED
  BY <1>1, <1>2

\* What passes a policy has nothing that the documented rules forbid.
LEMMA CleanIsNotForbidden ==
    ASSUME NEW p, NEW features, getViolations(p, features) = {}, NEW f \in features
    PROVE  ~Forbids(p, f)
BY NoViolations DEF Forbids, Passes

(* ------------------------------------------------------------------------ *)
(* Types. *)

LEMMA RequestType ==
    ASSUME NEW q \in Request
    PROVE  /\ q.containers \in Seq(Reference) /\ Len(q.containers) \in Nat
           /\ \A k \in 1..Len(q.containers) : q.containers[k] \in Reference
           /\ q.policy \in PolicyName \cup {"absent"}
<1>1. q.containers \in Seq(Reference) /\ q.policy \in PolicyName \cup {"absent"}
  BY RequestAssumption
<1>2. QED
  BY <1>1, LenProperties, ElementOfSeq

LEMMA DefaultPolicyType == DefaultPolicy \in Policy
BY DEF DefaultPolicy, Policy


LEMMA InitAdmissionType == AdmissionInit => AdmissionTypeOK
<1> SUFFICES ASSUME AdmissionInit PROVE AdmissionTypeOK
  OBVIOUS
<1>1. TypeOK
  BY InitInv DEF AdmissionInit, IInv
<1>2. WorldTypeOK
  BY DefaultPolicyType, FeaturesAssumption, MaxPostsAssumption, PolicyAssumption
     DEF AdmissionInit, WorldTypeOK
<1>3. ReviewTypeOK
  BY DEF AdmissionInit, ReviewTypeOK
<1>4. QED
  BY <1>1, <1>2, <1>3 DEF AdmissionTypeOK

\* An answer takes a review out of its loop.
LEMMA AnswerType ==
    ASSUME ReviewTypeOK, NEW r \in Review, UNCHANGED <<request, knownBefore>>,
           policy' \in [Review -> Policy \cup {None}],
           NEW v \in {"allowed", "denied", "bad request", "call failed", "no layers"}, Answer(r, v)
    PROVE  ReviewTypeOK'
<1>1. container' \in [Review -> Nat]
  BY DEF ReviewTypeOK, Answer
<1>2. \A q \in Review : rpc'[q] \in {"image", "layers"} =>
        q # r /\ rpc'[q] = rpc[q] /\ container'[q] = container[q]
  BY DEF ReviewTypeOK, Answer
<1>3. top' \in [Review -> Name \cup {None}]
  BY DEF ReviewTypeOK, Answer
<1>4. QED
  BY <1>1, <1>2, <1>3 DEF ReviewTypeOK, Answer

\* Reviews change nothing but themselves.
LEMMA ReviewAlone ==
    ASSUME NEW r \in Review, ReviewStep(r)
    PROVE  UNCHANGED <<vars, worldVars>>
BY DEF ReviewStep, Receive, CallFails, ReadPolicy, FindImage, Judge

LEMMA ReviewTypeStep ==
    ASSUME AdmissionInv, NEW r \in Review, ReviewStep(r)
    PROVE  ReviewTypeOK'
<1>0. ReviewTypeOK /\ WorldTypeOK /\ TypeOK /\ ReviewKnows(r)
  BY DEF AdmissionInv, AdmissionTypeOK, ReviewInv
<1>1. CASE Receive(r)
  <2>1. PICK q \in Request :
          /\ request' = [request EXCEPT ![r] = q]
          /\ \/ \E v \in {"bad request", "allowed", "denied"} : Answer(r, v)
             \/ Proceed(r, "policy") /\ UNCHANGED <<container, top>>
    BY <1>1 DEF Receive
  <2>2. rpc[r] = "idle" /\ UNCHANGED policy /\ knownBefore' = [knownBefore EXCEPT ![r] = known]
    BY <1>1 DEF Receive
  <2>3. request' \in [Review -> Request \cup {None}] /\ knownBefore' \in [Review -> SUBSET Cve]
    BY <1>0, <2>1, <2>2 DEF ReviewTypeOK, WorldTypeOK
  <2>4. \A p \in Review : rpc'[p] \in {"image", "layers"} =>
          p # r /\ rpc'[p] = rpc[p] /\ container'[p] = container[p] /\ request'[p] = request[p]
    BY <1>0, <2>1, <2>2 DEF ReviewTypeOK, Answer, Proceed
  <2>5. container' \in [Review -> Nat] /\ top' \in [Review -> Name \cup {None}]
    <3>1. \/ UNCHANGED <<container, top>>
          \/ container' = [container EXCEPT ![r] = 0] /\ top' = [top EXCEPT ![r] = None]
      BY <2>1 DEF Answer
    <3>2. container \in [Review -> Nat] /\ top \in [Review -> Name \cup {None}]
      BY <1>0 DEF ReviewTypeOK
    <3>3. QED
      BY <3>1, <3>2
  <2>6. /\ rpc' \in [Review -> {"idle", "policy", "image", "layers", "answered"}]
        /\ verdict' \in [Review -> {"none", "allowed", "denied", "bad request", "call failed",
                                    "no layers"}]
    BY <1>0, <2>1 DEF ReviewTypeOK, Answer, Proceed
  <2>7. QED
    BY <1>0, <2>2, <2>3, <2>4, <2>5, <2>6 DEF ReviewTypeOK
<1>2. CASE CallFails(r)
  BY <1>0, <1>2, AnswerType DEF CallFails, ReviewTypeOK
<1>3. CASE ReadPolicy(r)
  <2> DEFINE name == IF request[r].policy = "absent" THEN "default" ELSE request[r].policy
  <2>1. request[r] \in Request /\ rpc[r] = "policy"
    BY <1>0, <1>3 DEF ReadPolicy, ReviewKnows
  <2>2. name \in PolicyName
    BY <2>1, RequestType, PolicyAssumption
  <2>3. policy' \in [Review -> Policy \cup {None}]
    BY <1>0, <1>3, <2>2 DEF ReadPolicy, GetPolicy, ReviewTypeOK, WorldTypeOK
  <2>4. CASE Answer(r, "denied")
    BY <1>0, <1>3, <2>3, <2>4, AnswerType DEF ReadPolicy
  <2>5. CASE Proceed(r, "image") /\ container' = [container EXCEPT ![r] = 1] /\ UNCHANGED top
    <3>1. request[r].containers # <<>>
      BY <1>0, <2>1 DEF ReviewKnows
    <3>2. 1 \in 1..Len(request[r].containers)
      BY <2>1, <3>1, RequestType, EmptySeq
    <3>3. QED
      BY <1>0, <1>3, <2>3, <2>5, <3>2 DEF ReadPolicy, Proceed, ReviewTypeOK
  <2>6. QED
    BY <1>3, <2>4, <2>5 DEF ReadPolicy
<1>4. CASE FindImage(r)
  <2>1. CASE Answer(r, "denied")
    BY <1>0, <1>4, <2>1, AnswerType DEF FindImage, ReviewTypeOK
  <2>2. CASE /\ \E i \in RowsFor(Current(r)) : top' = [top EXCEPT ![r] = rows[i].top]
             /\ Proceed(r, "layers") /\ UNCHANGED container
    <3>1. PICK i \in RowsFor(Current(r)) : top' = [top EXCEPT ![r] = rows[i].top]
      BY <2>2
    <3>2. rows[i].top \in Name
      BY <1>0 DEF RowsFor, LastSeen, RowOf, TypeOK, Row
    <3>3. QED
      BY <1>0, <1>4, <2>2, <3>1, <3>2 DEF FindImage, Proceed, ReviewTypeOK
  <2>3. QED
    BY <1>4, <2>1, <2>2 DEF FindImage
<1>5. CASE Judge(r)
  <2>1. CASE \E v \in {"no layers", "denied", "allowed"} : Answer(r, v)
    BY <1>0, <1>5, <2>1, AnswerType DEF Judge, ReviewTypeOK
  <2>2. CASE /\ container[r] < Len(request[r].containers) /\ Proceed(r, "image")
             /\ container' = [container EXCEPT ![r] = @ + 1] /\ UNCHANGED top
    <3>1. container[r] \in Nat /\ request[r] \in Request
      BY <1>0, <1>5 DEF Judge, ReviewTypeOK, ReviewKnows
    <3>2. container[r] + 1 \in 1..Len(request[r].containers)
      BY <2>2, <3>1, RequestType
    <3>3. container' = [container EXCEPT ![r] = container[r] + 1]
          /\ rpc' = [rpc EXCEPT ![r] = "image"]
          /\ UNCHANGED <<request, policy, top, verdict, knownBefore>>
      BY <1>5, <2>2 DEF Judge, Proceed
    <3>4. \A q \in Review : rpc'[q] \in {"image", "layers"} =>
            container'[q] \in 1..Len(request'[q].containers)
      BY <1>0, <3>1, <3>2, <3>3 DEF ReviewTypeOK
    <3>5. container' \in [Review -> Nat]
      <4>1. container \in [Review -> Nat]
        BY <1>0 DEF ReviewTypeOK
      <4>2. container[r] + 1 \in Nat
        BY <3>1
      <4>3. QED
        BY <3>3, <4>1, <4>2
    <3>6. QED
      BY <1>0, <3>3, <3>4, <3>5 DEF ReviewTypeOK
  <2>3. QED
    BY <1>5, <2>1, <2>2 DEF Judge, NextContainer
<1>6. QED
  BY <1>1, <1>2, <1>3, <1>4, <1>5 DEF ReviewStep

(* ------------------------------------------------------------------------ *)
(* What reviews know. *)

LEMMA InitReview == AdmissionInit => ReviewInv
BY DEF AdmissionInit, ReviewInv, ReviewKnows, Admitted

\* A row that a path refers to remains one.
LEMMA RowOfStays ==
    ASSUME TypeOK, ScanInv, [Next]_vars, NEW i \in Image, NEW ref, RowOf(ref, i)
    PROVE  RowOf(ref, i)' /\ rows'[i].top = rows[i].top
BY RowsStay DEF RowOf

\* What a container passed with remains so, whatever else happens.
LEMMA PassedStays ==
    ASSUME IInv, [Next]_vars, NEW r, NEW ref \in Reference, Passed(r, ref),
           policy'[r] = policy[r], knownBefore'[r] = knownBefore[r]
    PROVE  Passed(r, ref)'
<1>1. \E i \in Image : RowOf(ref, i)' /\ (Sound(i[2])' => Served(i)')
  <2>1. PICK i \in Image : RowOf(ref, i) /\ (Sound(i[2]) => Served(i))
    BY DEF Passed
  <2>2. RowOf(ref, i)'
    BY <2>1, RowOfStays DEF IInv
  <2>3. Sound(i[2])' => Served(i)'
    BY <2>1, SoundBefore, ServedStays DEF IInv, Image
  <2>4. QED
    BY <2>2, <2>3
<1>2. ASSUME ref.kind = "digest", Sound(ref.digest)'
      PROVE  \A f \in FeaturesOfDigest(ref.digest, knownBefore'[r]) : ~Forbids(policy'[r], f)
  <2>1. ref.digest \in Digest
    BY <1>2 DEF Reference
  <2>2. Sound(ref.digest)
    BY <1>2, <2>1, SoundBefore DEF IInv
  <2>3. QED
    BY <1>2, <2>2 DEF Passed
<1>3. QED
  BY <1>1, <1>2 DEF Passed, FeaturesOfDigest, OnlyCves, LayersOfDigest, Forbids

\* A review that is left alone knows what it knew.
LEMMA ReviewLeft ==
    ASSUME IInv, ReviewTypeOK, ReviewInv, [Next]_vars, known \subseteq known', NEW r \in Review,
           rpc'[r] = rpc[r], request'[r] = request[r], policy'[r] = policy[r],
           container'[r] = container[r], top'[r] = top[r], verdict'[r] = verdict[r],
           knownBefore'[r] = knownBefore[r]
    PROVE  ReviewKnows(r)'
<1>0. ReviewKnows(r)
  BY DEF ReviewInv
<1>1. rpc[r] # "idle" =>
        \A k \in 1..Len(request[r].containers) : request[r].containers[k] \in Reference
  BY <1>0, RequestType DEF ReviewKnows
<1>2. rpc[r] \in {"image", "layers"} =>
        \A k \in 1..(container[r] - 1) : Passed(r, request[r].containers[k])'
  <2> SUFFICES ASSUME rpc[r] \in {"image", "layers"}, NEW k \in 1..(container[r] - 1)
               PROVE  Passed(r, request[r].containers[k])'
    OBVIOUS
  <2>1. request[r].containers[k] \in Reference
    <3>1. container[r] \in 1..Len(request[r].containers)
      BY DEF ReviewTypeOK
    <3>2. Len(request[r].containers) \in Nat
      BY <1>0, RequestType DEF ReviewKnows
    <3>3. k \in 1..Len(request[r].containers)
      BY <3>1, <3>2
    <3>4. QED
      BY <1>1, <3>3
  <2>2. Passed(r, request[r].containers[k])
    BY <1>0 DEF ReviewKnows
  <2> DEFINE ref == request[r].containers[k]
  <2>3. ref' = ref
    OBVIOUS
  <2>4. QED
    BY <2>1, <2>2, <2>3, PassedStays DEF Passed, RowOf
<1>3. rpc[r] = "layers" =>
        \E i \in Image : RowOf(Current(r), i)' /\ rows'[i].top = top'[r]
  <2> SUFFICES ASSUME rpc[r] = "layers"
               PROVE  \E i \in Image : RowOf(Current(r), i)' /\ rows'[i].top = top'[r]
    OBVIOUS
  <2>1. PICK i \in Image : RowOf(Current(r), i) /\ rows[i].top = top[r]
    BY <1>0 DEF ReviewKnows
  <2>2. RowOf(Current(r), i)' /\ rows'[i].top = rows[i].top
    BY <2>1, RowOfStays DEF IInv, RowOf, Current
  <2>3. QED
    BY <2>1, <2>2
<1>4. Admitted(r)' => \A ref \in Referenced(r)' : Passed(r, ref)'
  <2>1. Admitted(r)' => Admitted(r)
    BY DEF Admitted, Enabled
  <2>2. Referenced(r)' = Referenced(r)
    BY DEF Referenced
  <2>3. Admitted(r) => rpc[r] # "idle"
    BY <1>0 DEF Admitted, ReviewKnows
  <2>4. Admitted(r) => Referenced(r) \subseteq Reference
    BY <1>1, <2>3 DEF Referenced
  <2>5. QED
    BY <1>0, <2>1, <2>2, <2>4, PassedStays DEF ReviewKnows
<1>5. QED
  BY <1>0, <1>2, <1>3, <1>4 DEF ReviewKnows, Enabled

\* A review that ends without letting anything pass has nothing more to know.
LEMMA ReviewRefuses ==
    ASSUME ReviewTypeOK, NEW r \in Review, NEW v \in {"denied", "bad request", "call failed", "no layers"},
           Answer(r, v), request'[r] \in Request, knownBefore'[r] \subseteq known'
    PROVE  ReviewKnows(r)'
<1>1. rpc'[r] = "answered" /\ verdict'[r] = v
  BY DEF ReviewTypeOK, Answer
<1>2. QED
  BY <1>1 DEF ReviewKnows, Admitted

\* A container passes that the policy has no violation of, by the row that was
\* found and by what Clair knows of it now.
LEMMA JudgedPasses ==
    ASSUME AdmissionInv, NEW r \in Review, rpc[r] = "layers", clair[top[r]] # None,
           getViolations(policy[r], MergedView(top[r])) = {}
    PROVE  Passed(r, Current(r))
<1>1. PICK i \in Image : RowOf(Current(r), i) /\ rows[i].top = top[r]
  BY DEF AdmissionInv, ReviewInv, ReviewKnows
<1>2. Sound(i[2]) => Served(i)
  BY <1>1, FoundIsServed DEF AdmissionInv, RowOf
<1>3. ASSUME Current(r).kind = "digest", Sound(Current(r).digest),
             NEW f \in FeaturesOfDigest(Current(r).digest, knownBefore[r])
      PROVE  ~Forbids(policy[r], f)
  <2>1. i[2] = Current(r).digest /\ Served(i)
    BY <1>1, <1>2, <1>3 DEF RowOf
  <2>2. knownBefore[r] \in SUBSET known
    BY DEF AdmissionInv, ReviewInv, ReviewKnows
  <2>3. KnownMore(FeaturesOfDigest(i[2], knownBefore[r]), MergedView(top[r]))
    BY <1>1, <2>1, <2>2, ViewOfServed DEF AdmissionInv, AdmissionTypeOK
  <2>4. getViolations(policy[r], FeaturesOfDigest(i[2], knownBefore[r])) = {}
    BY <2>3, LearningNeverClears
  <2>5. QED
    BY <1>3, <2>1, <2>4, CleanIsNotForbidden
<1>4. QED
  BY <1>1, <1>2, <1>3 DEF Passed

\* Nothing of what has passed is lost by a step of the review itself.
LEMMA PassedKept ==
    ASSUME NEW r, NEW ref, Passed(r, ref), UNCHANGED <<vars, worldVars>>,
           policy'[r] = policy[r], knownBefore'[r] = knownBefore[r]
    PROVE  Passed(r, ref)'
BY DEF Passed, RowOf, Sound, Served, Distinct, Recorded, Torn, Stacked, LayersOfDigest, LayerName,
       FeaturesOfDigest, OnlyCves, Forbids, vars, scanVars, worldVars

LEMMA ReviewMoves ==
    ASSUME AdmissionInv, NEW r \in Review, ReviewStep(r)
    PROVE  ReviewKnows(r)'
<1>0. ReviewTypeOK /\ WorldTypeOK /\ ReviewKnows(r) /\ ReviewTypeOK' /\ UNCHANGED <<vars, worldVars>>
  BY ReviewTypeStep, ReviewAlone DEF AdmissionInv, AdmissionTypeOK, ReviewInv
<1>1. CASE Receive(r)
  <2>1. PICK q \in Request :
          /\ request' = [request EXCEPT ![r] = q]
          /\ \/ \E v \in {"bad request", "denied"} : Answer(r, v)
             \/ ~Enabled(q) /\ Answer(r, "allowed")
             \/ Enabled(q) /\ q.containers # <<>> /\ Proceed(r, "policy")
    BY <1>1 DEF Receive
  <2>2. rpc[r] = "idle" /\ knownBefore' = [knownBefore EXCEPT ![r] = known] /\ known' = known
    BY <1>1 DEF Receive, worldVars
  <2>3. request'[r] = q /\ knownBefore'[r] \subseteq known'
    BY <1>0, <2>1, <2>2 DEF ReviewTypeOK
  <2>4. CASE \E v \in {"bad request", "denied"} : Answer(r, v)
    BY <1>0, <2>3, <2>4, ReviewRefuses
  <2>5. CASE ~Enabled(q) /\ Answer(r, "allowed")
    <3>1. rpc'[r] = "answered" /\ ~Enabled(request[r])'
      BY <1>0, <2>3, <2>5 DEF Answer, ReviewTypeOK, Enabled
    <3>2. QED
      BY <2>3, <3>1 DEF ReviewKnows, Admitted
  <2>6. CASE Enabled(q) /\ q.containers # <<>> /\ Proceed(r, "policy")
    <3>1. rpc'[r] = "policy" /\ verdict'[r] = verdict[r] /\ verdict[r] = "none"
      BY <1>0, <2>2, <2>6 DEF Proceed, ReviewTypeOK, ReviewKnows
    <3>2. Enabled(request[r])' /\ request'[r].containers # <<>>
      BY <2>3, <2>6 DEF Enabled
    <3>3. QED
      BY <2>3, <3>1, <3>2 DEF ReviewKnows, Admitted
  <2>7. QED
    BY <2>1, <2>4, <2>5, <2>6
<1>2. ASSUME rpc[r] \in {"policy", "image", "layers"}, UNCHANGED <<request, knownBefore>>
      PROVE  /\ request'[r] \in Request /\ knownBefore'[r] \subseteq known'
             /\ Enabled(request[r])' /\ request'[r].containers # <<>>
             /\ verdict[r] = "none"
  BY <1>0, <1>2 DEF ReviewKnows, Enabled, worldVars
<1>3. CASE CallFails(r)
  BY <1>0, <1>2, <1>3, ReviewRefuses DEF CallFails
<1>4. CASE ReadPolicy(r)
  <2>1. CASE Answer(r, "denied")
    BY <1>0, <1>2, <1>4, <2>1, ReviewRefuses DEF ReadPolicy
  <2>2. CASE policy'[r] # None /\ Proceed(r, "image") /\ container' = [container EXCEPT ![r] = 1]
    <3>1. rpc'[r] = "image" /\ container'[r] = 1 /\ verdict'[r] = verdict[r]
      BY <1>0, <2>2 DEF Proceed, ReviewTypeOK
    <3>2. \A k \in 1..(container'[r] - 1) : FALSE
      BY <3>1
    <3>3. QED
      BY <1>2, <1>4, <2>2, <3>1, <3>2 DEF ReadPolicy, ReviewKnows, Admitted
  <2>3. QED
    BY <1>4, <2>1, <2>2 DEF ReadPolicy
<1>5. CASE FindImage(r)
  <2>1. CASE Answer(r, "denied")
    BY <1>0, <1>2, <1>5, <2>1, ReviewRefuses DEF FindImage
  <2>2. CASE /\ \E i \in RowsFor(Current(r)) : top' = [top EXCEPT ![r] = rows[i].top]
             /\ Proceed(r, "layers") /\ UNCHANGED container
    <3>1. PICK i \in RowsFor(Current(r)) : top' = [top EXCEPT ![r] = rows[i].top]
      BY <2>2
    <3>2. i \in Image /\ RowOf(Current(r), i) /\ top'[r] = rows[i].top
      BY <1>0, <3>1 DEF RowsFor, LastSeen, ReviewTypeOK
    <3>3. RowOf(Current(r), i)' /\ rows'[i].top = top'[r]
      BY <1>0, <1>5, <2>2, <3>2 DEF RowOf, Current, FindImage, vars
    <3>4. rpc'[r] = "layers" /\ verdict'[r] = verdict[r] /\ policy'[r] = policy[r]
          /\ policy[r] # None /\ rpc[r] = "image"
      BY <1>0, <1>5, <2>2 DEF Proceed, ReviewTypeOK, FindImage, ReviewKnows
    <3>5. \A k \in 1..(container'[r] - 1) : Passed(r, request[r].containers[k])'
      <4> SUFFICES ASSUME NEW k \in 1..(container[r] - 1)
                   PROVE  Passed(r, request[r].containers[k])'
        BY <2>2
      <4>1. Passed(r, request[r].containers[k])
        BY <1>0, <3>4 DEF ReviewKnows
      <4>2. request' = request /\ knownBefore'[r] = knownBefore[r]
        BY <1>5 DEF FindImage
      <4>3. QED
        BY <1>0, <3>4, <4>1, <4>2, PassedKept DEF Passed, RowOf
    <3>6. QED
      BY <1>2, <1>5, <3>2, <3>3, <3>4, <3>5 DEF FindImage, ReviewKnows, Admitted
  <2>3. QED
    BY <1>5, <2>1, <2>2 DEF FindImage
<1>6. CASE Judge(r)
  <2>1. CASE \E v \in {"no layers", "denied"} : Answer(r, v)
    BY <1>0, <1>2, <1>6, <2>1, ReviewRefuses DEF Judge
  <2>2. CASE /\ clair[top[r]] # None
             /\ getViolations(policy[r], MergedView(top[r])) = {}
             /\ NextContainer(r)
    <3>1. Passed(r, Current(r)) /\ rpc[r] = "layers"
      BY <1>6, <2>2, JudgedPasses DEF Judge
    <3>2. container[r] \in 1..Len(request[r].containers) /\ Len(request[r].containers) \in Nat
      BY <1>0, <3>1, RequestType DEF ReviewTypeOK, ReviewKnows
    <3>3. \A k \in 1..container[r] : Passed(r, request[r].containers[k])
      <4>1. \A k \in 1..(container[r] - 1) : Passed(r, request[r].containers[k])
        BY <1>0, <3>1 DEF ReviewKnows
      <4>2. Passed(r, request[r].containers[container[r]])
        BY <3>1 DEF Current
      <4>3. QED
        BY <3>2, <4>1, <4>2
    <3>4. UNCHANGED <<request, policy, knownBefore>>
      BY <1>6 DEF Judge
    <3>5. \A k \in 1..container[r] : Passed(r, request[r].containers[k])'
      BY <1>0, <3>3, <3>4, PassedKept DEF Passed, RowOf
    <3>6. CASE Proceed(r, "image") /\ container' = [container EXCEPT ![r] = @ + 1]
      <4>1. rpc'[r] = "image" /\ verdict'[r] = verdict[r] /\ container'[r] - 1 = container[r]
        <5>1. rpc'[r] = "image" /\ verdict'[r] = verdict[r]
          BY <1>0, <3>6 DEF Proceed, ReviewTypeOK
        <5>2. container \in [Review -> Nat]
          BY <1>0 DEF ReviewTypeOK
        <5>3. container'[r] = container[r] + 1
          BY <3>6, <5>2
        <5>4. QED
          BY <3>2, <5>1, <5>3
      <4>2. policy'[r] # None
        BY <1>0, <3>1, <3>4 DEF ReviewKnows
      <4>3. \A k \in 1..(container'[r] - 1) : Passed(r, request[r].containers[k])'
        BY <3>5, <4>1
      <4>4. QED
        BY <1>2, <3>1, <3>4, <4>1, <4>2, <4>3 DEF ReviewKnows, Admitted
    <3>7. CASE container[r] = Len(request[r].containers) /\ Answer(r, "allowed")
      <4>1. rpc'[r] = "answered"
        BY <1>0, <3>7 DEF Answer, ReviewTypeOK
      <4>2. \A ref \in Referenced(r)' : Passed(r, ref)'
        BY <3>4, <3>5, <3>7 DEF Referenced
      <4>3. QED
        BY <1>2, <3>1, <3>4, <4>1, <4>2 DEF ReviewKnows
    <3>8. QED
      BY <2>2, <3>6, <3>7 DEF NextContainer
  <2>3. QED
    BY <1>6, <2>1, <2>2 DEF Judge
<1>7. QED
  BY <1>1, <1>3, <1>4, <1>5, <1>6 DEF ReviewStep

\* A step of a review leaves the others alone.
LEMMA OthersAlone ==
    ASSUME ReviewTypeOK, NEW r \in Review, ReviewStep(r), NEW q \in Review, q # r
    PROVE  /\ rpc'[q] = rpc[q] /\ request'[q] = request[q] /\ policy'[q] = policy[q]
           /\ container'[q] = container[q] /\ top'[q] = top[q] /\ verdict'[q] = verdict[q]
           /\ knownBefore'[q] = knownBefore[q]
<1> USE DEF ReviewTypeOK, Answer, Proceed
<1>1. CASE Receive(r)
  BY <1>1 DEF Receive
<1>2. CASE CallFails(r)
  BY <1>2 DEF CallFails
<1>3. CASE ReadPolicy(r)
  BY <1>3 DEF ReadPolicy
<1>4. CASE FindImage(r)
  BY <1>4 DEF FindImage
<1>5. CASE Judge(r)
  BY <1>5 DEF Judge, NextContainer
<1>6. QED
  BY <1>1, <1>2, <1>3, <1>4, <1>5 DEF ReviewStep

\* Hence a step of a review keeps the invariant,
LEMMA ReviewStepInv ==
    ASSUME AdmissionInv, NEW r \in Review, ReviewStep(r)
    PROVE  AdmissionInv'
<1>1. UNCHANGED <<vars, worldVars>>
  BY ReviewAlone
<1>2. IInv'
  BY <1>1, TypeStep, ScanStepInv, RecordStep, PushStep, ClairStep, ContentStep DEF AdmissionInv, IInv
<1>3. WorldTypeOK'
  BY <1>1 DEF AdmissionInv, AdmissionTypeOK, WorldTypeOK, worldVars
<1>4. ReviewTypeOK'
  BY ReviewTypeStep
<1>5. ASSUME NEW q \in Review, q # r PROVE ReviewKnows(q)'
  <2>1. known' = known /\ [Next]_vars
    BY <1>1 DEF worldVars
  <2>2. QED
    BY <1>5, <2>1, OthersAlone, ReviewLeft DEF AdmissionInv, AdmissionTypeOK
<1>6. ReviewInv'
  BY <1>5, ReviewMoves DEF ReviewInv
<1>7. QED
  BY <1>2, <1>3, <1>4, <1>6 DEF AdmissionInv, AdmissionTypeOK, IInv

\* and so does a step of the scans, or of Clair, or one that changes a policy.
LEMMA WorldStepInv ==
    ASSUME AdmissionInv, [Next]_vars, WorldTypeOK', known \subseteq known', UNCHANGED reviewVars
    PROVE  AdmissionInv'
<1>1. IInv'
  BY TypeStep, ScanStepInv, RecordStep, PushStep, ClairStep, ContentStep DEF AdmissionInv, IInv
<1>2. ReviewTypeOK'
  BY DEF AdmissionInv, AdmissionTypeOK, ReviewTypeOK, reviewVars
<1>3. ReviewInv'
  <2> SUFFICES ASSUME NEW r \in Review PROVE ReviewKnows(r)'
    BY DEF ReviewInv
  <2>1. QED
    BY ReviewLeft DEF AdmissionInv, AdmissionTypeOK, reviewVars
<1>4. QED
  BY <1>1, <1>2, <1>3 DEF AdmissionInv, AdmissionTypeOK, IInv

LEMMA ScanNextInv ==
    ASSUME AdmissionInv, ScanNext
    PROVE  AdmissionInv'
<1>1. [Next]_vars /\ known \subseteq known'
  BY DEF ScanNext, Next, worldVars
<1>2. WorldTypeOK'
  BY DEF AdmissionInv, AdmissionTypeOK, WorldTypeOK, ScanNext, worldVars
<1>3. QED
  BY <1>1, <1>2, WorldStepInv DEF ScanNext

LEMMA LearnInv ==
    ASSUME AdmissionInv, Learn
    PROVE  AdmissionInv'
<1>1. [Next]_vars /\ known \subseteq known'
  BY DEF Learn
<1>2. WorldTypeOK'
  BY DEF AdmissionInv, AdmissionTypeOK, WorldTypeOK, Learn
<1>3. QED
  BY <1>1, <1>2, WorldStepInv DEF Learn

LEMMA UnchangedInv ==
    ASSUME AdmissionInv, UNCHANGED allVars
    PROVE  AdmissionInv'
<1>1. [Next]_vars /\ known \subseteq known'
  BY DEF allVars, worldVars
<1>2. WorldTypeOK'
  BY DEF AdmissionInv, AdmissionTypeOK, WorldTypeOK, allVars, worldVars
<1>3. QED
  BY <1>1, <1>2, WorldStepInv DEF allVars

(* ------------------------------------------------------------------------ *)
(* What the webhook promises. *)

THEOREM AdmissionInvariance == AdmissionSpec => []AdmissionInv
<1>1. AdmissionInit => AdmissionInv
  BY InitInv, InitAdmissionType, InitReview DEF AdmissionInit, AdmissionInv
<1>2. AdmissionInv /\ [AdmissionNext]_allVars => AdmissionInv'
  <2> SUFFICES ASSUME AdmissionInv, [AdmissionNext]_allVars PROVE AdmissionInv'
    OBVIOUS
  <2>1. CASE PostPolicy
    <3>1. [Next]_vars /\ known \subseteq known' /\ UNCHANGED reviewVars
      BY <2>1 DEF PostPolicy
    <3>2. WorldTypeOK'
      BY <2>1, MaxPostsAssumption, PolicyAssumption
         DEF PostPolicy, UpsertPolicy, AdmissionInv, AdmissionTypeOK, WorldTypeOK
    <3>3. QED
      BY <3>1, <3>2, WorldStepInv
  <2>2. QED
    BY <2>1, ScanNextInv, LearnInv, ReviewStepInv, UnchangedInv DEF AdmissionNext, AllAnswered
<1>3. QED
  BY <1>1, <1>2, PTL DEF AdmissionSpec

\* AdmittedIsClean and AdmittedIsScanned follow from what reviews know.
LEMMA AdmittedClean == AdmissionInv => AdmittedIsClean
<1> SUFFICES ASSUME AdmissionInv, NEW r \in Review, Admitted(r), NEW ref \in Referenced(r),
                    ref.kind = "digest", Whole(ref.digest),
                    NEW f \in FeaturesOfDigest(ref.digest, knownBefore[r])
             PROVE  ~Forbids(policy[r], f)
  BY DEF AdmittedIsClean
<1>1. Passed(r, ref)
  BY DEF AdmissionInv, ReviewInv, ReviewKnows
<1>2. QED
  BY <1>1, WholeIsSound DEF Passed

LEMMA AdmittedScanned == AdmissionInv => AdmittedIsScanned
<1> SUFFICES ASSUME AdmissionInv, NEW r \in Review, Admitted(r), NEW ref \in Referenced(r)
             PROVE  \E i \in Image : RowOf(ref, i) /\ (Whole(i[2]) => Served(i))
  BY DEF AdmittedIsScanned
<1>1. PICK i \in Image : RowOf(ref, i) /\ (Sound(i[2]) => Served(i))
  BY DEF AdmissionInv, ReviewInv, ReviewKnows, Passed
<1>2. QED
  BY <1>1, WholeIsSound

THEOREM WebhookIsClean == AdmissionSpec => []AdmittedIsClean
BY AdmissionInvariance, AdmittedClean, PTL

THEOREM WebhookIsScanned == AdmissionSpec => []AdmittedIsScanned
BY AdmissionInvariance, AdmittedScanned, PTL
=============================================================================
