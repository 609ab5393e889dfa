---------------------------- MODULE PagesProofs ----------------------------
(* Proofs about the pages and the posts of policies, beside any number of
   reviews and scans, and about the reviews beside them. *)
EXTENDS Pages, AdmissionProofs

(* ------------------------------------------------------------------------ *)
(* Types. *)

LEMMA OnlyCvesType ==
    ASSUME NEW f \in Feature, NEW cves
    PROVE  OnlyCves(f, cves) \in Feature
<1> DEFINE few == {v \in f.vulns : v.name \in cves}
<1>1. OnlyCves(f, cves) = [f EXCEPT !.vulns = few]
  BY DEF OnlyCves
<1>2. few \in SUBSET Vuln
  BY DEF Feature
<1>3. [f EXCEPT !.vulns = few] \in Feature
  <2> HIDE DEF few
  <2> QED
    BY <1>2 DEF Feature
<1>4. QED
  BY <1>1, <1>3

LEMMA MergedViewType ==
    ASSUME NEW name \in Name
    PROVE  MergedView(name) \in SUBSET Feature
<1> SUFFICES ASSUME NEW m \in Chain(name), NEW f \in FeaturesOf[m[2]]
             PROVE  OnlyCves(f, known) \in Feature
  BY InView
<1>1. f \in Feature
  BY FeaturesAssumption DEF Chain, Name
<1>2. QED
  BY <1>1, OnlyCvesType

\* What is shown of an image is no more than Clair knows.
LEMMA ViewType ==
    ASSUME NEW name \in Name, NEW show
    PROVE  View(name, show) \in SUBSET Feature /\ KnownMore(View(name, show), MergedView(name))
<1>1. MergedView(name) \in SUBSET Feature
  BY MergedViewType
<1>2. CASE show = "vulnerabilities"
  BY <1>1, <1>2 DEF View, KnownMore
<1>3. CASE show # "vulnerabilities"
  <2>1. ASSUME NEW f \in MergedView(name)
        PROVE  /\ [f EXCEPT !.vulns = {}] \in Feature
               /\ [f EXCEPT !.vulns = {}].os = f.os
               /\ [f EXCEPT !.vulns = {}].vulns = {}
    <3>1. f \in Feature
      BY <1>1
    <3>2. QED
      BY <3>1 DEF Feature
  <2>2. View(name, show) = {[f EXCEPT !.vulns = {}] : f \in MergedView(name)}
    BY <1>3 DEF View
  <2>3. \A h \in View(name, show) : \E f \in MergedView(name) : h = [f EXCEPT !.vulns = {}]
    BY <2>2
  <2>4. QED
    BY <2>1, <2>3 DEF KnownMore
<1>4. QED
  BY <1>2, <1>3

LEMMA ViolationsType ==
    ASSUME NEW p \in Policy, NEW features \in SUBSET Feature
    PROVE  getViolations(p, features) \in SUBSET Violation
<1> SUFFICES ASSUME NEW f \in features, NEW x \in FeatureViolations(p, f)
             PROVE  x \in Violation
  BY DEF getViolations
<1>1. f \in Feature /\ f.vulns \in SUBSET Vuln
  BY DEF Feature
<1>2. CASE f.os \in p.notAllowedOs
  BY <1>1, <1>2 DEF FeatureViolations, Violation
<1>3. CASE f.os \notin p.notAllowedOs
  <2>1. PICK v \in f.vulns : x \in VulnViolations(p, f, v)
    BY <1>3 DEF FeatureViolations
  <2>2. {v} \in SUBSET Vuln
    BY <1>1, <2>1
  <2>3. \/ x = [type |-> "BlacklistedCve", feature |-> f, vuln |-> {v}]
        \/ x = [type |-> "Basic", feature |-> f, vuln |-> {v}]
    BY <2>1 DEF VulnViolations
  <2>4. QED
    BY <1>1, <2>2, <2>3 DEF Violation
<1>4. QED
  BY <1>2, <1>3

\* The records of a page by their fields.
PageFields(a, b, c, d, e, p, x, k) ==
    [at |-> a, asked |-> b, top |-> c, shown |-> d, judged |-> e, policy |-> p, violations |-> x,
     knownBefore |-> k]

PageAt == {"idle", "row", "image", "show", "judge", "policy", "shown", "unscanned", "not found",
           "failed"}

LEMMA PageFieldsType ==
    ASSUME NEW a \in PageAt, NEW b \in PageRequest \cup {None}, NEW c \in Name \cup {None},
           NEW d \in SUBSET Feature, NEW e \in SUBSET Feature, NEW p \in Policy \cup {None},
           NEW x \in SUBSET Violation, NEW k \in SUBSET Cve
    PROVE  PageFields(a, b, c, d, e, p, x, k) \in PageType
BY DEF PageType, PageFields, PageAt

LEMMA PageRecord ==
    ASSUME NEW p \in PageType
    PROVE  /\ p = PageFields(p.at, p.asked, p.top, p.shown, p.judged, p.policy, p.violations,
                             p.knownBefore)
           /\ p.at \in PageAt /\ p.asked \in PageRequest \cup {None} /\ p.top \in Name \cup {None}
           /\ p.shown \in SUBSET Feature /\ p.judged \in SUBSET Feature
           /\ p.policy \in Policy \cup {None} /\ p.violations \in SUBSET Violation
           /\ p.knownBefore \in SUBSET Cve
BY DEF PageType, PageFields, PageAt

LEMMA NoPageType == NoPage \in PageType
<1>1. NoPage = PageFields("idle", None, None, {}, {}, None, {}, {})
  BY DEF NoPage, PageFields
<1>2. PageFields("idle", None, None, {}, {}, None, {}, {}) \in PageType
  BY PageFieldsType DEF PageAt
<1>3. QED
  BY <1>1, <1>2

\* A page is replaced, and nothing else.
PageBecomes(f, h, g, p) ==
    h \in [Page -> PageType] /\ h[g] = p /\ \A e \in Page : e # g => h[e] = f[e]

LEMMA Replace ==
    ASSUME NEW f \in [Page -> PageType], NEW g \in Page, NEW p \in PageType, NEW h,
           h = [f EXCEPT ![g] = p]
    PROVE  PageBecomes(f, h, g, p)
BY DEF PageBecomes

\* What the updates of some of the fields make of the record of a page.
LEMMA SetAt ==
    ASSUME NEW f \in [Page -> PageType], NEW g \in Page, NEW p, p = f[g], NEW a \in PageAt,
           NEW h,
           h = [f EXCEPT ![g].at = a]
    PROVE  PageBecomes(f, h, g,
             PageFields(a, p.asked, p.top, p.shown, p.judged, p.policy, p.violations, p.knownBefore))
<1>1. p \in PageType
  OBVIOUS
<1>2. h[g] = PageFields(a, p.asked, p.top, p.shown, p.judged,
                        p.policy, p.violations, p.knownBefore)
  BY <1>1 DEF PageType, PageFields
<1>3. PageFields(a, p.asked, p.top, p.shown, p.judged,
                 p.policy, p.violations, p.knownBefore) \in PageType
  BY <1>1, PageRecord, PageFieldsType
<1>4. \A e \in Page : e # g => h[e] = f[e]
  OBVIOUS
<1>5. h \in [Page -> PageType]
  BY <1>2, <1>3
<1>6. QED
  BY <1>2, <1>4, <1>5 DEF PageBecomes

LEMMA SetTop ==
    ASSUME NEW f \in [Page -> PageType], NEW g \in Page, NEW p, p = f[g], NEW a \in PageAt,
           NEW c \in Name, NEW h,
           h = [f EXCEPT ![g].at = a, ![g].top = c]
    PROVE  PageBecomes(f, h, g,
             PageFields(a, p.asked, c, p.shown, p.judged, p.policy, p.violations, p.knownBefore))
<1>1. p \in PageType
  OBVIOUS
<1>2. h[g] = PageFields(a, p.asked, c, p.shown, p.judged,
                        p.policy, p.violations, p.knownBefore)
  BY <1>1 DEF PageType, PageFields
<1>3. PageFields(a, p.asked, c, p.shown, p.judged,
                 p.policy, p.violations, p.knownBefore) \in PageType
  BY <1>1, PageRecord, PageFieldsType
<1>4. \A e \in Page : e # g => h[e] = f[e]
  OBVIOUS
<1>5. h \in [Page -> PageType]
  BY <1>2, <1>3
<1>6. QED
  BY <1>2, <1>4, <1>5 DEF PageBecomes

LEMMA SetShown ==
    ASSUME NEW f \in [Page -> PageType], NEW g \in Page, NEW p, p = f[g], NEW a \in PageAt,
           NEW c \in SUBSET Feature, NEW h,
           h = [f EXCEPT ![g].at = a, ![g].shown = c]
    PROVE  PageBecomes(f, h, g,
             PageFields(a, p.asked, p.top, c, p.judged, p.policy, p.violations, p.knownBefore))
<1>1. p \in PageType
  OBVIOUS
<1>2. h[g] = PageFields(a, p.asked, p.top, c, p.judged,
                        p.policy, p.violations, p.knownBefore)
  BY <1>1 DEF PageType, PageFields
<1>3. PageFields(a, p.asked, p.top, c, p.judged,
                 p.policy, p.violations, p.knownBefore) \in PageType
  BY <1>1, PageRecord, PageFieldsType
<1>4. \A e \in Page : e # g => h[e] = f[e]
  OBVIOUS
<1>5. h \in [Page -> PageType]
  BY <1>2, <1>3
<1>6. QED
  BY <1>2, <1>4, <1>5 DEF PageBecomes

LEMMA SetJudged ==
    ASSUME NEW f \in [Page -> PageType], NEW g \in Page, NEW p, p = f[g], NEW a \in PageAt,
           NEW c \in SUBSET Feature, NEW h,
           h = [f EXCEPT ![g].at = a, ![g].judged = c]
    PROVE  PageBecomes(f, h, g,
             PageFields(a, p.asked, p.top, p.shown, c, p.policy, p.violations, p.knownBefore))
<1>1. p \in PageType
  OBVIOUS
<1>2. h[g] = PageFields(a, p.asked, p.top, p.shown, c,
                        p.policy, p.violations, p.knownBefore)
  BY <1>1 DEF PageType, PageFields
<1>3. PageFields(a, p.asked, p.top, p.shown, c,
                 p.policy, p.violations, p.knownBefore) \in PageType
  BY <1>1, PageRecord, PageFieldsType
<1>4. \A e \in Page : e # g => h[e] = f[e]
  OBVIOUS
<1>5. h \in [Page -> PageType]
  BY <1>2, <1>3
<1>6. QED
  BY <1>2, <1>4, <1>5 DEF PageBecomes

LEMMA SetVerdict ==
    ASSUME NEW f \in [Page -> PageType], NEW g \in Page, NEW p, p = f[g], NEW a \in PageAt,
           NEW c \in SUBSET Violation, NEW d \in Policy, NEW h,
           h = [f EXCEPT ![g].at = a, ![g].violations = c, ![g].policy = d]
    PROVE  PageBecomes(f, h, g,
             PageFields(a, p.asked, p.top, p.shown, p.judged, d, c, p.knownBefore))
<1>1. p \in PageType
  OBVIOUS
<1>2. h[g] = PageFields(a, p.asked, p.top, p.shown, p.judged, d, c, p.knownBefore)
  BY <1>1 DEF PageType, PageFields
<1>3. PageFields(a, p.asked, p.top, p.shown, p.judged, d, c, p.knownBefore) \in PageType
  BY <1>1, PageRecord, PageFieldsType
<1>4. \A e \in Page : e # g => h[e] = f[e]
  OBVIOUS
<1>5. h \in [Page -> PageType]
  BY <1>2, <1>3
<1>6. QED
  BY <1>2, <1>4, <1>5 DEF PageBecomes

LEMMA SetAsked ==
    ASSUME NEW f \in [Page -> PageType], NEW g \in Page, NEW p, p = f[g], NEW a \in PageAt,
           NEW c \in PageRequest, NEW d \in SUBSET Cve, NEW h,
           h = [f EXCEPT ![g].at = a, ![g].asked = c, ![g].knownBefore = d]
    PROVE  PageBecomes(f, h, g,
             PageFields(a, c, p.top, p.shown, p.judged, p.policy, p.violations, d))
<1>1. p \in PageType
  OBVIOUS
<1>2. h[g] = PageFields(a, c, p.top, p.shown, p.judged, p.policy, p.violations, d)
  BY <1>1 DEF PageType, PageFields
<1>3. PageFields(a, c, p.top, p.shown, p.judged, p.policy, p.violations, d) \in PageType
  BY <1>1, PageRecord, PageFieldsType
<1>4. \A e \in Page : e # g => h[e] = f[e]
  OBVIOUS
<1>5. h \in [Page -> PageType]
  BY <1>2, <1>3
<1>6. QED
  BY <1>2, <1>4, <1>5 DEF PageBecomes

LEMMA NextCallType ==
    ASSUME NEW q, NEW call
    PROVE  NextCall(q, call) \in PageAt
BY DEF NextCall, PageAt

\* What a page is that is refused.
Refused(why) == PageFields(why, None, None, {}, {}, None, {}, {})

LEMMA RefuseBecomes ==
    ASSUME page \in [Page -> PageType], NEW g \in Page,
           NEW why \in {"unscanned", "not found", "failed"}, Refuse(g, why)
    PROVE  PageBecomes(page, page', g, Refused(why))
<1>1. PICK q : q = [NoPage EXCEPT !.at = why]
  OBVIOUS
<1>2. q = Refused(why)
  BY <1>1 DEF NoPage, PageFields, Refused
<1>3. Refused(why) \in PageType
  BY PageFieldsType DEF PageAt, Refused
<1>4. page' = [page EXCEPT ![g] = q]
  BY <1>1 DEF Refuse
<1>5. QED
  BY <1>2, <1>3, <1>4, Replace

(* ------------------------------------------------------------------------ *)
(* What pages know. *)

LEMMA PageRequestForm ==
    ASSUME NEW q \in PageRequest
    PROVE  /\ q.policy \in PolicyName \cup {"absent"}
           /\ \/ "image" \in DOMAIN q /\ "digest" \notin DOMAIN q /\ q.image \in Image
              \/ "digest" \in DOMAIN q /\ "image" \notin DOMAIN q /\ q.digest \in Digest \cup {None}
<1>1. q \in PageRequestType
  BY PageRequestAssumption
<1>2. QED
  BY <1>1 DEF PageRequestType

\* What is known of a page stays known, whatever the scans and Clair do.
LEMMA PageKept ==
    ASSUME TypeOK, ScanInv, ClairInv, [Next]_vars, known \subseteq known', NEW p \in PageType,
           CallInv(p), ViewsInv(p)
    PROVE  CallInv(p)' /\ ViewsInv(p)'
<1>1. ASSUME p.at \in {"show", "judge", "policy", "shown"}
      PROVE  /\ \E i \in Image : /\ i[2] = PageDigest(p.asked) /\ rows'[i] # None
                                 /\ rows'[i].top = p.top
             /\ p.top \in Name
             /\ PageDigest(p.asked) \in Digest
  <2>1. PICK i \in Image : i[2] = PageDigest(p.asked) /\ rows[i] # None /\ rows[i].top = p.top
    BY <1>1 DEF CallInv
  <2>2. rows[i].top \in Name /\ i[2] \in Digest
    BY <2>1 DEF TypeOK, Row, Image
  <2>3. rows'[i] # None /\ rows'[i].top = rows[i].top
    BY <2>1, RowsStay
  <2>4. QED
    BY <2>1, <2>2, <2>3
<1>2. CallInv(p)'
  BY <1>1 DEF CallInv
<1>3. ASSUME p.at \in {"judge", "policy", "shown"}, p.shown # {}
      PROVE  clair'[p.top] # None /\ KnownMore(p.shown, MergedView(p.top)')
  <2>1. clair[p.top] # None /\ KnownMore(p.shown, MergedView(p.top)) /\ p.top \in Name
    BY <1>1, <1>3 DEF ViewsInv
  <2>2. QED
    BY <2>1, ClairStays, ViewGrows, KnownMoreTransitive
<1>4. ASSUME p.at = "policy" \/ p.policy # None
      PROVE  /\ KnownMore(p.shown, p.judged)
             /\ Sound(PageDigest(p.asked))' =>
                  KnownMore(FeaturesOfDigest(PageDigest(p.asked), p.knownBefore), p.judged)
  <2>1. p.at \in {"policy", "shown"}
    BY <1>4 DEF ViewsInv
  <2>2. Sound(PageDigest(p.asked))' => Sound(PageDigest(p.asked))
    BY <1>1, <2>1, SoundBefore DEF Sound
  <2>3. QED
    BY <1>4, <2>2 DEF ViewsInv
<1>5. ViewsInv(p)'
  BY <1>3, <1>4 DEF ViewsInv, KnownMore, FeaturesOfDigest, OnlyCves, LayersOfDigest
<1>6. QED
  BY <1>2, <1>5

LEMMA RefusedKnows ==
    ASSUME NEW why \in {"unscanned", "not found", "failed"}
    PROVE  Refused(why) \in PageType /\ CallInv(Refused(why)) /\ ViewsInv(Refused(why))
<1>1. Refused(why) \in PageType
  BY PageFieldsType DEF PageAt, Refused
<1>2. Refused(why).at = why /\ Refused(why).policy = None
  BY DEF Refused, PageFields
<1>3. QED
  BY <1>1, <1>2 DEF CallInv, ViewsInv

\* What a handler that has found the row of its image does next.
LEMMA FoundKnows ==
    ASSUME TypeOK, page \in [Page -> PageType], NEW g \in Page, NEW i \in Image, rows[i] # None,
           CallInv(page[g]), ViewsInv(page[g]), Found(g, i),
           i[2] = PageDigest(page[g].asked),
           \/ At(g) = "image"
           \/ At(g) = "row" /\ "digest" \notin DOMAIN page[g].asked
    PROVE  \E p \in PageType : PageBecomes(page, page', g, p) /\ CallInv(p) /\ ViewsInv(p)
<1> DEFINE o == page[g]
           p == PageFields(Called(g), o.asked, rows[i].top, o.shown, o.judged, o.policy,
                           o.violations, o.knownBefore)
<1>1. rows[i].top \in Name /\ o \in PageType
  BY DEF TypeOK, Row
<1>2. Called(g) \in PageAt
  BY NextCallType DEF Called
<1>3. PageBecomes(page, page', g, p)
  BY <1>1, <1>2, SetTop DEF Found
<1>4. p \in PageType
  BY <1>1, <1>3 DEF PageBecomes
<1>5. /\ p.at = Called(g) /\ p.asked = o.asked /\ p.top = rows[i].top /\ p.shown = o.shown
      /\ p.policy = o.policy /\ p.knownBefore = o.knownBefore
  BY DEF PageFields
<1>6. Called(g) \in {"show", "judge", "shown"} /\ (Called(g) = "judge" => o.asked.policy # "absent")
  BY DEF Called, NextCall
<1>7. /\ o.shown = {} /\ o.policy = None
      /\ o.asked \in PageRequest /\ o.knownBefore \subseteq known
  BY DEF At, CallInv, ViewsInv
<1> HIDE DEF p, o
<1>8. CallInv(p)
  <2>1. \E j \in Image : j[2] = PageDigest(p.asked) /\ rows[j] # None /\ rows[j].top = p.top
    BY <1>5 DEF o
  <2>2. QED
    BY <1>5, <1>6, <1>7, <2>1 DEF CallInv
<1>9. ViewsInv(p)
  BY <1>5, <1>6, <1>7 DEF ViewsInv
<1>10. QED
  BY <1>3, <1>4, <1>8, <1>9

LEMMA PageMoves ==
    ASSUME PagesInv, NEW g \in Page, PageStep(g)
    PROVE  \E p \in PageType : PageBecomes(page, page', g, p) /\ CallInv(p) /\ ViewsInv(p)
<1> DEFINE o == page[g]
           Goal == \E p \in PageType : PageBecomes(page, page', g, p) /\ CallInv(p) /\ ViewsInv(p)
<1>0. /\ IInv /\ TypeOK /\ WorldTypeOK /\ page \in [Page -> PageType] /\ o \in PageType
      /\ CallInv(o) /\ ViewsInv(o)
  BY DEF PagesInv, PagesTypeOK, AdmissionTypeOK, PageInv
<1>1. ASSUME \E why \in {"unscanned", "not found", "failed"} : Refuse(g, why)
      PROVE  Goal
  BY <1>0, <1>1, RefuseBecomes, RefusedKnows
<1>2. CASE AskPage(g)
  <2>1. PICK q \in PageRequest :
          page' = [page EXCEPT ![g].at = "row", ![g].asked = q, ![g].knownBefore = known]
    BY <1>2 DEF AskPage
  <2> DEFINE p == PageFields("row", q, o.top, o.shown, o.judged, o.policy, o.violations, known)
  <2>2. known \in SUBSET Cve
    BY <1>0 DEF WorldTypeOK
  <2>3. PageBecomes(page, page', g, p)
    BY <1>0, <2>1, <2>2, SetAsked DEF PageAt
  <2>4. p \in PageType
    BY <1>0, <2>3 DEF PageBecomes
  <2>5. p.at = "row" /\ p.asked = q /\ p.shown = o.shown /\ p.policy = o.policy
        /\ p.knownBefore = known
    BY DEF PageFields
  <2>6. o.shown = {} /\ o.policy = None
    BY <1>0, <1>2 DEF AskPage, At, CallInv, ViewsInv
  <2> HIDE DEF p
  <2>7. CallInv(p) /\ ViewsInv(p)
    BY <2>5, <2>6 DEF CallInv, ViewsInv
  <2>8. QED
    BY <2>3, <2>4, <2>7
<1>3. CASE PageFails(g)
  BY <1>1, <1>3 DEF PageFails
<1>4. CASE GetImageByID(g)
  <2>1. CASE Refuse(g, "failed")
    BY <1>1, <2>1
  <2>2. CASE rows[o.asked.image] # None /\ Found(g, o.asked.image)
    <3>1. o.asked \in PageRequest
      BY <1>0, <1>4 DEF GetImageByID, At, CallInv
    <3>2. o.asked.image \in Image /\ "digest" \notin DOMAIN o.asked
          /\ o.asked.image[2] = PageDigest(o.asked)
      BY <1>4, <3>1, PageRequestForm DEF GetImageByID, PageDigest
    <3>3. QED
      BY <1>0, <1>4, <2>2, <3>2, FoundKnows DEF GetImageByID
  <2>3. QED
    BY <1>4, <2>1, <2>2 DEF GetImageByID
<1>5. CASE GetContainerByID(g)
  <2>1. CASE Refuse(g, "not found")
    BY <1>1, <2>1
  <2>2. CASE page' = [page EXCEPT ![g].at = Called(g)]
    <3> DEFINE p == PageFields("image", o.asked, o.top, o.shown, o.judged, o.policy, o.violations,
                               o.knownBefore)
    <3>1. Called(g) = "image" /\ "digest" \in DOMAIN o.asked /\ o.at = "row"
      BY <1>5 DEF GetContainerByID, Called, NextCall, At
    <3>2. PageBecomes(page, page', g, p)
      BY <1>0, <2>2, <3>1, SetAt DEF PageAt
    <3>3. p \in PageType
      BY <1>0, <3>2 DEF PageBecomes
    <3>4. p.at = "image" /\ p.asked = o.asked /\ p.shown = o.shown /\ p.policy = o.policy
          /\ p.knownBefore = o.knownBefore
      BY DEF PageFields
    <3>5. /\ o.shown = {} /\ o.policy = None
          /\ o.asked \in PageRequest /\ o.knownBefore \subseteq known
      BY <1>0, <3>1 DEF CallInv, ViewsInv
    <3> HIDE DEF p, o
    <3>6. CallInv(p) /\ ViewsInv(p)
      BY <3>1, <3>4, <3>5 DEF CallInv, ViewsInv
    <3>7. QED
      BY <3>2, <3>3, <3>6
  <2>3. QED
    BY <1>5, <2>1, <2>2 DEF GetContainerByID
<1>6. CASE GetImageByDigest(g)
  <2> DEFINE found == RowsFor([kind |-> "digest", digest |-> o.asked.digest])
  <2>1. CASE Refuse(g, "unscanned")
    BY <1>1, <2>1
  <2>2. CASE \E i \in found : Found(g, i)
    <3>1. PICK i \in found : Found(g, i)
      BY <2>2
    <3>2. i \in Image /\ rows[i] # None /\ i[2] = o.asked.digest
      BY DEF RowsFor, LastSeen, RowOf
    <3>3. At(g) = "image" /\ o.asked \in PageRequest /\ "digest" \in DOMAIN o.asked
      BY <1>0, <1>6 DEF GetImageByDigest, At, CallInv
    <3>4. i[2] = PageDigest(o.asked)
      BY <3>2, <3>3, PageRequestForm DEF PageDigest
    <3>5. QED
      BY <1>0, <3>1, <3>2, <3>3, <3>4, FoundKnows
  <2>3. QED
    BY <1>6, <2>1, <2>2 DEF GetImageByDigest
<1>7. ASSUME o.at \in {"show", "judge"}
      PROVE  /\ o.top \in Name /\ o.asked \in PageRequest /\ o.knownBefore \subseteq known
             /\ \E i \in Image : i[2] = PageDigest(o.asked) /\ rows[i] # None /\ rows[i].top = o.top
             /\ o.policy = None
  BY <1>0, <1>7 DEF CallInv, ViewsInv, TypeOK, Row
<1>8. CASE Show(g)
  <2>1. CASE NoLayers(g)
    BY <1>1, <2>1 DEF NoLayers
  <2>2. CASE /\ clair[o.top] # None
             /\ page' = [page EXCEPT ![g].at = Called(g), ![g].shown = View(o.top, o.asked.show)]
    <3> DEFINE view == View(o.top, o.asked.show)
               p == PageFields(Called(g), o.asked, o.top, view, o.judged, o.policy, o.violations,
                               o.knownBefore)
    <3>1. o.at = "show"
      BY <1>8 DEF Show, At
    <3>2. view \in SUBSET Feature /\ KnownMore(view, MergedView(o.top))
      BY <1>7, <3>1, ViewType
    <3>3. Called(g) \in {"judge", "shown"} /\ (Called(g) = "judge" => o.asked.policy # "absent")
      BY <3>1 DEF Called, NextCall, At
    <3> HIDE DEF view
    <3>4. PageBecomes(page, page', g, p)
      BY <1>0, <2>2, <3>2, <3>3, SetShown DEF PageAt, view
    <3>5. p \in PageType
      BY <1>0, <3>4 DEF PageBecomes
    <3>6. p.at = Called(g) /\ p.asked = o.asked /\ p.top = o.top /\ p.shown = view
          /\ p.policy = o.policy /\ p.knownBefore = o.knownBefore
      BY DEF PageFields
    <3> HIDE DEF p, o
    <3>7. CallInv(p)
      BY <1>7, <3>1, <3>3, <3>6 DEF CallInv
    <3>8. ViewsInv(p)
      BY <1>7, <2>2, <3>1, <3>2, <3>3, <3>6 DEF ViewsInv
    <3>9. QED
      BY <3>4, <3>5, <3>7, <3>8
  <2>3. QED
    BY <1>8, <2>1, <2>2 DEF Show
<1>9. CASE GetJudged(g)
  <2>1. CASE NoLayers(g)
    BY <1>1, <2>1 DEF NoLayers
  <2>2. CASE /\ clair[o.top] # None
             /\ page' = [page EXCEPT ![g].at = Called(g), ![g].judged = MergedView(o.top)]
    <3> DEFINE view == MergedView(o.top)
               p == PageFields("policy", o.asked, o.top, o.shown, view, o.policy, o.violations,
                               o.knownBefore)
    <3>1. o.at = "judge" /\ Called(g) = "policy"
      BY <1>9 DEF GetJudged, Called, NextCall, At
    <3>2. view \in SUBSET Feature
      BY <1>7, <3>1, MergedViewType
    <3>3. KnownMore(o.shown, view)
      BY <1>0, <3>1 DEF ViewsInv, KnownMore
    <3>4. Sound(PageDigest(o.asked)) =>
            KnownMore(FeaturesOfDigest(PageDigest(o.asked), o.knownBefore), view)
      <4>1. PICK i \in Image : i[2] = PageDigest(o.asked) /\ rows[i] # None /\ rows[i].top = o.top
        BY <1>7, <3>1
      <4>2. Sound(i[2]) => Served(i)
        BY <1>0, <2>2, <4>1, FoundIsServed
      <4>3. o.knownBefore \in SUBSET known
        BY <1>7, <3>1
      <4>4. Served(i) => KnownMore(FeaturesOfDigest(i[2], o.knownBefore), MergedView(rows[i].top))
        BY <1>0, <4>3, ViewOfServed
      <4>5. QED
        BY <4>1, <4>2, <4>4
    <3> HIDE DEF view
    <3>5. PageBecomes(page, page', g, p)
      BY <1>0, <2>2, <3>1, <3>2, SetJudged DEF PageAt, view
    <3>6. p \in PageType
      BY <1>0, <3>5 DEF PageBecomes
    <3>7. p.at = "policy" /\ p.asked = o.asked /\ p.top = o.top /\ p.shown = o.shown
          /\ p.judged = view /\ p.policy = o.policy /\ p.knownBefore = o.knownBefore
      BY DEF PageFields
    <3>8. o.shown # {} => KnownMore(o.shown, MergedView(o.top))
      BY <1>0, <3>1 DEF ViewsInv
    <3>9. o.asked.policy # "absent"
      BY <1>0, <3>1 DEF CallInv
    <3> HIDE DEF p, o
    <3>10. CallInv(p)
      BY <1>7, <3>1, <3>7, <3>9 DEF CallInv
    <3>11. ViewsInv(p)
      BY <1>7, <2>2, <3>1, <3>3, <3>4, <3>7, <3>8 DEF ViewsInv
    <3>12. QED
      BY <3>5, <3>6, <3>10, <3>11
  <2>3. QED
    BY <1>9, <2>1, <2>2 DEF GetJudged, JudgedView, View
<1>10. CASE JudgePage(g)
  <2> DEFINE v == GetPolicy(o.asked.policy)
  <2>1. CASE v = None
    BY <1>1, <1>10, <2>1 DEF JudgePage
  <2>2. CASE v # None
    <3> DEFINE x == getViolations(v, o.judged)
               p == PageFields("shown", o.asked, o.top, o.shown, o.judged, v, x, o.knownBefore)
    <3>1. o.at = "policy" /\ Called(g) = "shown"
      BY <1>10 DEF JudgePage, Called, NextCall, At
    <3>2. o.asked \in PageRequest /\ o.asked.policy # "absent" /\ o.knownBefore \subseteq known
      BY <1>0, <3>1 DEF CallInv
    <3>3. v \in Policy /\ o.judged \in SUBSET Feature
      <4>1. o.asked.policy \in PolicyName
        BY <3>2, PageRequestForm
      <4>2. v \in Policy
        BY <1>0, <2>2, <4>1 DEF GetPolicy, WorldTypeOK
      <4>3. QED
        BY <1>0, <4>2, PageRecord
    <3>4. x \in SUBSET Violation
      BY <3>3, ViolationsType
    <3>5. page' = [page EXCEPT ![g].at = Called(g), ![g].violations = x, ![g].policy = v]
      BY <1>10, <2>2 DEF JudgePage
    <3> HIDE DEF x, v
    <3>6. PageBecomes(page, page', g, p)
      BY <1>0, <3>1, <3>3, <3>4, <3>5, SetVerdict DEF PageAt
    <3>7. p \in PageType
      BY <1>0, <3>6 DEF PageBecomes
    <3>8. p.at = "shown" /\ p.asked = o.asked /\ p.top = o.top /\ p.shown = o.shown
          /\ p.judged = o.judged /\ p.policy = v /\ p.violations = x /\ p.knownBefore = o.knownBefore
      BY DEF PageFields
    <3>9. \E i \in Image : i[2] = PageDigest(o.asked) /\ rows[i] # None /\ rows[i].top = o.top
      BY <1>0, <3>1 DEF CallInv
    <3> HIDE DEF p
    <3>10. CallInv(p)
      BY <3>2, <3>8, <3>9 DEF CallInv
    <3>11. ViewsInv(p)
      <4>1. x = getViolations(p.policy, p.judged)
        BY <3>8 DEF x
      <4>2. QED
        BY <1>0, <3>1, <3>8, <4>1 DEF ViewsInv
    <3>12. QED
      BY <3>6, <3>7, <3>10, <3>11
  <2>3. QED
    BY <2>1, <2>2
<1>11. QED
  BY <1>2, <1>3, <1>4, <1>5, <1>6, <1>8, <1>9, <1>10 DEF PageStep

\* Pages keep what they know in a step that leaves them alone,
LEMMA PagesLeft ==
    ASSUME PagesInv, [Next]_vars, known \subseteq known', UNCHANGED page
    PROVE  PageInv'
<1> SUFFICES ASSUME NEW g \in Page PROVE CallInv(page[g])' /\ ViewsInv(page[g])'
  BY DEF PageInv
<1>1. PICK p : p = page[g]
  OBVIOUS
<1>2. p \in PageType /\ CallInv(p) /\ ViewsInv(p)
  BY <1>1 DEF PagesInv, PagesTypeOK, PageInv
<1>3. CallInv(p)' /\ ViewsInv(p)'
  BY <1>2, PageKept DEF PagesInv, IInv
<1>4. page[g]' = p
  BY <1>1
<1>5. QED
  BY <1>3, <1>4 DEF CallInv, ViewsInv

\* and in a step of one of them.
LEMMA PageStepInv ==
    ASSUME PagesInv, NEW g \in Page, PageStep(g)
    PROVE  page' \in [Page -> PageType] /\ PageInv'
<1>1. PICK n \in PageType : PageBecomes(page, page', g, n) /\ CallInv(n) /\ ViewsInv(n)
  BY PageMoves
<1>2. [Next]_vars /\ known \subseteq known'
  BY DEF PageStep, AskPage, PageFails, GetImageByID, GetContainerByID, GetImageByDigest, Show,
         GetJudged, JudgePage, allVars, worldVars
<1>3. page' \in [Page -> PageType] /\ page'[g] = n
  BY <1>1 DEF PageBecomes
<1>4. ASSUME NEW h \in Page PROVE CallInv(page[h])' /\ ViewsInv(page[h])'
  <2>1. PICK p : p = page'[h]
    OBVIOUS
  <2>2. p \in PageType /\ CallInv(p) /\ ViewsInv(p)
    BY <1>1, <1>3, <2>1 DEF PagesInv, PagesTypeOK, PageInv, PageBecomes
  <2>3. CallInv(p)' /\ ViewsInv(p)'
    BY <1>2, <2>2, PageKept DEF PagesInv, IInv
  <2>4. QED
    BY <2>1, <2>3 DEF CallInv, ViewsInv
<1>5. QED
  BY <1>3, <1>4 DEF PageInv

(* ------------------------------------------------------------------------ *)
(* What posts know. *)

LEMMA PostsLeft ==
    ASSUME PostInv, UNCHANGED <<post, policies>>
    PROVE  PostInv'
BY DEF PostInv, PostReadsBack, GetPolicy

LEMMA PostUpsertInv ==
    ASSUME PagesInv, NEW w \in Post, PostUpsert(w)
    PROVE  WorldTypeOK' /\ post' \in [Post -> PostType] /\ PostInv'
<1>0. WorldTypeOK /\ post \in [Post -> PostType] /\ PostInv
  BY DEF PagesInv, PagesTypeOK, AdmissionTypeOK
<1>1. PICK new \in Posting, next \in {"read", "failed"} :
        /\ policies' = [policies EXCEPT ![new.name] = new.policy]
        /\ post' = [v \in Post |->
            IF v = w
            THEN [post[w] EXCEPT !.pc = next, !.name = new.name, !.since = {new.policy}]
            ELSE IF post[v].name = new.name /\ post[v].pc = "read"
                 THEN [post[v] EXCEPT !.since = @ \cup {new.policy}]
                 ELSE post[v]]
  BY DEF PostUpsert, UpsertPolicy
<1>2. new.name \in PolicyName /\ new.policy \in PostedPolicy /\ new.policy \in Policy
  BY PostingAssumption, PolicyAssumption
<1>3. WorldTypeOK'
  BY <1>0, <1>1, <1>2 DEF WorldTypeOK, PostUpsert
<1>4. ASSUME NEW v \in Post
      PROVE  /\ post'[v] \in PostType
             /\ post'[v].pc = "read" => policies'[post'[v].name] \in post'[v].since
             /\ post'[v].pc = "told" => post'[v].told \in post'[v].since
  <2>0. PICK p, q : p = post[v] /\ q = post'[v]
    OBVIOUS
  <2>1. /\ p \in PostType
        /\ p.pc = "read" => policies[p.name] \in p.since
        /\ p.pc = "told" => p.told \in p.since
    BY <1>0, <2>0 DEF PostInv, PostReadsBack, GetPolicy
  <2>2. policies'[new.name] = new.policy
    BY <1>0, <1>1, <1>2 DEF WorldTypeOK
  <2>3. CASE v = w
    <3>1. q = [p EXCEPT !.pc = next, !.name = new.name, !.since = {new.policy}]
      BY <1>1, <2>0, <2>3
    <3>2. q \in PostType
      BY <1>2, <2>1, <3>1 DEF PostType
    <3>3. q.pc = next /\ q.name = new.name /\ q.since = {new.policy}
      BY <2>1, <3>1 DEF PostType
    <3>4. QED
      BY <2>0, <2>2, <3>2, <3>3
  <2>4. CASE v # w /\ p.name = new.name /\ p.pc = "read"
    <3>1. q = [p EXCEPT !.since = p.since \cup {new.policy}]
      BY <1>1, <2>0, <2>4
    <3>2. q \in PostType
      BY <1>2, <2>1, <3>1 DEF PostType
    <3>3. q.pc = p.pc /\ q.name = p.name /\ q.since = p.since \cup {new.policy}
      BY <2>1, <3>1 DEF PostType
    <3>4. QED
      BY <2>0, <2>2, <2>4, <3>2, <3>3
  <2>5. CASE v # w /\ ~(p.name = new.name /\ p.pc = "read")
    <3>1. q = p
      BY <1>1, <2>0, <2>5
    <3>2. p.name \in PolicyName
      BY <2>1 DEF PostType
    <3>3. p.pc = "read" => policies'[p.name] = policies[p.name]
      BY <1>0, <1>1, <1>2, <2>5, <3>2 DEF WorldTypeOK
    <3>4. QED
      BY <2>0, <2>1, <3>1, <3>3
  <2>6. QED
    BY <2>3, <2>4, <2>5
<1>5. post' \in [Post -> PostType]
  BY <1>1, <1>4
<1>6. QED
  BY <1>3, <1>4, <1>5 DEF PostInv, PostReadsBack, GetPolicy

LEMMA PostReadInv ==
    ASSUME PagesInv, NEW w \in Post, PostRefused(w) \/ PostReadBack(w)
    PROVE  post' \in [Post -> PostType] /\ PostInv'
<1>0. WorldTypeOK /\ post \in [Post -> PostType] /\ PostInv /\ policies' = policies
  BY DEF PagesInv, PagesTypeOK, AdmissionTypeOK, PostRefused, PostReadBack, allVars, worldVars
<1>1. ASSUME NEW v \in Post
      PROVE  /\ post'[v] \in PostType
             /\ post'[v].pc = "read" => policies[post'[v].name] \in post'[v].since
             /\ post'[v].pc = "told" => post'[v].told \in post'[v].since
  <2>0. PICK p, q : p = post[v] /\ q = post'[v]
    OBVIOUS
  <2>1. /\ p \in PostType
        /\ p.pc = "read" => policies[p.name] \in p.since
        /\ p.pc = "told" => p.told \in p.since
    BY <1>0, <2>0 DEF PostInv, PostReadsBack, GetPolicy
  <2>2. CASE q = p
    BY <2>0, <2>1, <2>2
  <2>3. CASE q = [p EXCEPT !.pc = "failed"]
    <3>1. q \in PostType /\ q.pc = "failed"
      BY <2>1, <2>3 DEF PostType
    <3>2. QED
      BY <2>0, <3>1
  <2>4. CASE p.pc = "read" /\ q = [p EXCEPT !.pc = "told", !.told = policies[p.name]]
    <3>1. policies[p.name] \in Policy \cup {None}
      BY <1>0, <2>1 DEF WorldTypeOK, PostType
    <3>2. q \in PostType /\ q.pc = "told" /\ q.told = policies[p.name] /\ q.since = p.since
      BY <2>1, <2>4, <3>1 DEF PostType
    <3>3. QED
      BY <2>0, <2>1, <2>4, <3>2
  <2>5. QED
    BY <1>0, <2>0, <2>2, <2>3, <2>4 DEF PostRefused, PostReadBack, GetPolicy
<1>2. post' \in [Post -> PostType]
  BY <1>0, <1>1 DEF PostRefused, PostReadBack
<1>3. QED
  BY <1>0, <1>1, <1>2 DEF PostInv, PostReadsBack, GetPolicy

(* ------------------------------------------------------------------------ *)
(* The inductive invariant. *)

LEMMA InvParts ==
    PagesInv <=> AdmissionInv /\ page \in [Page -> PageType] /\ post \in [Post -> PostType]
                 /\ PageInv /\ PostInv
BY DEF PagesInv, AdmissionInv, PagesTypeOK

LEMMA InvPartsNext ==
    ASSUME AdmissionInv', page' \in [Page -> PageType], post' \in [Post -> PostType],
           PageInv', PostInv'
    PROVE  PagesInv'
BY DEF PagesInv, AdmissionInv, PagesTypeOK

LEMMA InitPages == PagesInit => PagesInv
<1> SUFFICES ASSUME PagesInit PROVE PagesInv
  OBVIOUS
<1>1. AdmissionInv
  BY InitInv, InitAdmissionType, InitReview DEF PagesInit, AdmissionInit, AdmissionInv
<1>2. page \in [Page -> PageType]
  BY NoPageType DEF PagesInit
<1>3. post \in [Post -> PostType]
  BY PolicyAssumption DEF PagesInit, PostType
<1>4. PageInv
  BY DEF PagesInit, PageInv, CallInv, ViewsInv, NoPage
<1>5. PostInv
  BY DEF PagesInit, PostInv, PostReadsBack
<1>6. QED
  BY <1>1, <1>2, <1>3, <1>4, <1>5, InvParts

LEMMA PagesStepInv == PagesInv /\ [PagesNext]_pagesVars => PagesInv'
<1> SUFFICES ASSUME PagesInv, [PagesNext]_pagesVars PROVE PagesInv'
  OBVIOUS
<1>0. AdmissionInv /\ page \in [Page -> PageType] /\ post \in [Post -> PostType] /\ PostInv
  BY InvParts
<1>1. ASSUME AdmissionInv', [Next]_vars, known \subseteq known', UNCHANGED <<policies, page, post>>
      PROVE  PagesInv'
  <2>1. PageInv' /\ PostInv'
    BY <1>0, <1>1, PagesLeft, PostsLeft
  <2>2. page' \in [Page -> PageType] /\ post' \in [Post -> PostType]
    BY <1>0, <1>1
  <2>3. QED
    BY <1>1, <2>1, <2>2, InvPartsNext
<1>2. CASE ScanNext /\ UNCHANGED requestVars
  <2>1. [Next]_vars /\ known \subseteq known' /\ UNCHANGED policies
    BY <1>2 DEF ScanNext, Next, worldVars
  <2>2. QED
    BY <1>0, <1>1, <1>2, <2>1, ScanNextInv DEF requestVars
<1>3. CASE Learn /\ UNCHANGED requestVars
  <2>1. [Next]_vars /\ known \subseteq known' /\ UNCHANGED policies
    BY <1>3 DEF Learn
  <2>2. QED
    BY <1>0, <1>1, <1>3, <2>1, LearnInv DEF requestVars
<1>4. ASSUME NEW r \in Review, ReviewBegins(r) \/ ReviewGoesOn(r), UNCHANGED requestVars
      PROVE  PagesInv'
  <2>1. ReviewStep(r)
    BY <1>4 DEF ReviewBegins, ReviewGoesOn, ReviewStep
  <2>2. [Next]_vars /\ known \subseteq known' /\ UNCHANGED policies
    BY <2>1, ReviewAlone DEF worldVars
  <2>3. QED
    BY <1>0, <1>1, <1>4, <2>1, <2>2, ReviewStepInv DEF requestVars
<1>5. ASSUME NEW g \in Page, PageStep(g) PROVE PagesInv'
  <2>1. UNCHANGED <<allVars, post>>
    BY <1>5 DEF PageStep, AskPage, PageFails, GetImageByID, GetContainerByID, GetImageByDigest,
       Show, GetJudged, JudgePage
  <2>2. PostInv' /\ AdmissionInv'
    BY <1>0, <2>1, PostsLeft, UnchangedInv DEF allVars, worldVars
  <2>3. QED
    <3>1. page' \in [Page -> PageType] /\ PageInv'
      BY <1>5, PageStepInv
    <3>2. post' \in [Post -> PostType]
      BY <1>0, <2>1
    <3>3. QED
      BY <2>2, <3>1, <3>2, InvPartsNext
<1>6. ASSUME NEW w \in Post, PostUpsert(w) PROVE PagesInv'
  <2>1. [Next]_vars /\ known \subseteq known' /\ UNCHANGED <<reviewVars, page>>
    BY <1>6 DEF PostUpsert
  <2>2. WorldTypeOK' /\ post' \in [Post -> PostType] /\ PostInv'
    BY <1>6, PostUpsertInv
  <2>3. QED
    <3>1. AdmissionInv'
      BY <1>0, <2>1, <2>2, WorldStepInv
    <3>2. page' \in [Page -> PageType] /\ PageInv'
      BY <1>0, <2>1, PagesLeft
    <3>3. QED
      BY <2>2, <3>1, <3>2, InvPartsNext
<1>7. ASSUME NEW w \in Post, PostRefused(w) \/ PostReadBack(w) PROVE PagesInv'
  <2>1. UNCHANGED <<allVars, page>>
    BY <1>7 DEF PostRefused, PostReadBack
  <2>2. AdmissionInv' /\ [Next]_vars /\ known \subseteq known'
    BY <1>0, <2>1, UnchangedInv DEF allVars, worldVars
  <2>3. QED
    <3>1. post' \in [Post -> PostType] /\ PostInv'
      BY <1>7, PostReadInv
    <3>2. page' \in [Page -> PageType] /\ PageInv'
      BY <1>0, <2>1, <2>2, PagesLeft
    <3>3. QED
      BY <2>2, <3>1, <3>2, InvPartsNext
<1>8. CASE UNCHANGED pagesVars
  <2>1. UNCHANGED <<allVars, page, post>>
    BY <1>8 DEF pagesVars, requestVars
  <2>2. AdmissionInv' /\ [Next]_vars /\ known \subseteq known' /\ UNCHANGED policies
    BY <1>0, <2>1, UnchangedInv DEF allVars, worldVars
  <2>3. QED
    BY <1>1, <2>1, <2>2
<1>9. QED
  BY <1>2, <1>3, <1>4, <1>5, <1>6, <1>7, <1>8 DEF PagesNext

\* Hence PagesInv holds in every state.
THEOREM PagesInvariance == PagesSpec => []PagesInv
BY InitPages, PagesStepInv, PTL DEF PagesSpec

(* ------------------------------------------------------------------------ *)
(* What the runs check. *)

\* Type correctness; in particular a handler is at no container past the last.
THEOREM PagesTypeCorrect == PagesSpec => []PagesTypeOK
<1>1. PagesInv => PagesTypeOK
  BY DEF PagesInv
<1>2. QED
  BY <1>1, PagesInvariance, PTL

\* AdmittedIsClean: what a review lets pass has nothing that its policy forbids
\* and that Clair knew of before.
THEOREM ReviewsAdmitClean == PagesSpec => []AdmittedIsClean
BY PagesInvariance, InvParts, AdmittedClean, PTL

\* AdmittedIsScanned: what a review lets pass was scanned to the end.
THEOREM ReviewsAdmitScanned == PagesSpec => []AdmittedIsScanned
BY PagesInvariance, InvParts, AdmittedScanned, PTL

\* Of more knowledge of some features there are more violations, as listed.
LEMMA ListedMore ==
    ASSUME NEW p, NEW features, NEW more, KnownMore(features, more)
    PROVE  Listed(getViolations(p, features)) \subseteq Listed(getViolations(p, more))
<1> SUFFICES ASSUME NEW f \in features, NEW x \in FeatureViolations(p, f)
             PROVE  \E y \in getViolations(p, more) :
                      y.type = x.type /\ y.feature.os = x.feature.os /\ y.vuln = x.vuln
  BY DEF Listed, getViolations
<1>1. PICK g \in more : f.os = g.os /\ f.vulns \subseteq g.vulns
  BY DEF KnownMore
<1>2. \A y \in FeatureViolations(p, g) : y \in getViolations(p, more)
  BY DEF getViolations
<1>3. CASE f.os \in p.notAllowedOs
  <2>1. x = [type |-> "BlacklistedOs", feature |-> f, vuln |-> {}]
    BY <1>3 DEF FeatureViolations
  <2>2. [type |-> "BlacklistedOs", feature |-> g, vuln |-> {}] \in FeatureViolations(p, g)
    BY <1>1, <1>3 DEF FeatureViolations
  <2>3. QED
    BY <1>1, <1>2, <2>1, <2>2
<1>4. CASE f.os \notin p.notAllowedOs
  <2>1. PICK v \in f.vulns : x \in VulnViolations(p, f, v)
    BY <1>4 DEF FeatureViolations
  <2>2. \A y \in VulnViolations(p, g, v) : y \in FeatureViolations(p, g)
    BY <1>1, <1>4, <2>1 DEF FeatureViolations
  <2>3. PICK type : /\ x = [type |-> type, feature |-> f, vuln |-> {v}]
                    /\ [type |-> type, feature |-> g, vuln |-> {v}] \in VulnViolations(p, g, v)
    BY <2>1 DEF VulnViolations
  <2>4. QED
    BY <1>1, <1>2, <2>2, <2>3
<1>5. QED
  BY <1>3, <1>4

\* ForbiddenIsListed: a page does not contradict itself.
THEOREM PagesConsistent == PagesSpec => []ForbiddenIsListed
<1>1. PagesInv => ForbiddenIsListed
  <2> SUFFICES ASSUME PagesInv, NEW g \in Page, page[g].policy # None
               PROVE  Listed(getViolations(page[g].policy, page[g].shown))
                        \subseteq Listed(page[g].violations)
    BY DEF ForbiddenIsListed
  <2>1. KnownMore(page[g].shown, page[g].judged)
        /\ page[g].violations = getViolations(page[g].policy, page[g].judged)
    BY DEF PagesInv, PageInv, ViewsInv
  <2>2. QED
    BY <2>1, ListedMore
<1>2. QED
  BY <1>1, PagesInvariance, PTL

\* CleanPageIsClean: a page without violations is of an image without any that
\* Clair knew of when the page was asked for.
THEOREM CleanPages == PagesSpec => []CleanPageIsClean
<1>1. PagesInv => CleanPageIsClean
  <2> DEFINE d(g) == PageDigest(page[g].asked)
  <2> SUFFICES ASSUME PagesInv, NEW g \in Page, page[g].policy # None, page[g].violations = {},
                      Whole(d(g)), NEW f \in FeaturesOfDigest(d(g), page[g].knownBefore)
               PROVE  ~Forbids(page[g].policy, f)
    BY DEF CleanPageIsClean
  <2>1. KnownMore(FeaturesOfDigest(d(g), page[g].knownBefore), page[g].judged)
        /\ page[g].violations = getViolations(page[g].policy, page[g].judged)
    BY WholeIsSound DEF PagesInv, PageInv, ViewsInv
  <2>2. getViolations(page[g].policy, FeaturesOfDigest(d(g), page[g].knownBefore)) = {}
    BY <2>1, LearningNeverClears
  <2>3. QED
    BY <2>2, CleanIsNotForbidden
<1>2. QED
  BY <1>1, PagesInvariance, PTL

\* PostReadsBack: a post is told its own policy or a later one.
THEOREM PostsReadBack == PagesSpec => []PostReadsBack
<1>1. PagesInv => PostReadsBack
  BY DEF PagesInv, PostInv
<1>2. QED
  BY <1>1, PagesInvariance, PTL
=============================================================================
