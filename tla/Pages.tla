------------------------------- MODULE Pages -------------------------------
(* The pages GET /v1/images/:id and GET /v1/containers/:id, and POST /v1/policies
   (getImage, getContainer and postPolicy of api/v1/routes.go), beside the
   reviews, the scans and Clair's updates of Admission.

   A page may ask Clair for the features it shows and asks it once more for
   those it judges by a policy; a post reads its policy back.  In between the
   same things change as during a review.  The model follows the system until
   the last of the reviews and pages is answered, or without them the last post. *)
EXTENDS Admission

CONSTANTS
    Page,           \* the requests for a page
    PageRequest,    \* what they may ask for
    Post,           \* the requests that post a policy
    Posting,        \* what they may post, and under which name
    MaxRequests,    \* how many requests of any kind are made
    MaxReads        \* how many of them are reviews and pages

\* The page of an image by the id of its row (an id stands for a tag and a
\* digest, and may be of no row), or that of a container, of which the digest
\* matters that the crawl recorded, None if it could not parse one; with what
\* is shown of the image, and a policy to judge it by.
PageRequestType ==
    [image : Image, show : {"none", "features", "vulnerabilities"},
     policy : PolicyName \cup {"absent"}]
    \cup
    [digest : Digest \cup {None}, show : {"none", "features", "vulnerabilities"},
     policy : PolicyName \cup {"absent"}]

ASSUME PageRequestAssumption == PageRequest \subseteq PageRequestType

ASSUME PostingAssumption == Posting \subseteq [name : PolicyName, policy : PostedPolicy]

ASSUME MaxRequestsAssumption == MaxRequests \in Nat /\ MaxReads \in Nat

VARIABLES
    page,   \* the handler of each page
    post    \* the handler of each post

requestVars == <<page, post>>
pagesVars == <<allVars, requestVars>>

Violation == [type : {"BlacklistedOs", "BlacklistedCve", "Basic"}, feature : Feature,
              vuln : SUBSET Vuln]

\* at is the call a handler is at, or how it ended; top, shown, judged, violations and
\* told are its local variables; knownBefore and since are observed: the
\* vulnerabilities Clair knew of when the page was asked for, and the policies
\* posted under the name of a post since its own upsert.
PageType ==
    [at : {"idle", "row", "image", "show", "judge", "policy", "shown", "unscanned",
           "not found", "failed"},
     asked : PageRequest \cup {None}, top : Name \cup {None}, shown : SUBSET Feature,
     judged : SUBSET Feature, policy : Policy \cup {None},
     violations : SUBSET Violation, knownBefore : SUBSET Cve]

PostType ==
    [pc : {"idle", "read", "told", "failed"}, name : PolicyName, told : Policy \cup {None},
     since : SUBSET PostedPolicy]

PagesTypeOK ==
    /\ AdmissionTypeOK
    /\ page \in [Page -> PageType]
    /\ post \in [Post -> PostType]

NoPage == [at |-> "idle", asked |-> None, top |-> None, shown |-> {}, judged |-> {},
           policy |-> None, violations |-> {}, knownBefore |-> {}]

PagesInit ==
    /\ AdmissionInit
    /\ page = [g \in Page |-> NoPage]
    /\ post = [w \in Post |-> [pc |-> "idle", name |-> "default", told |-> None,
                               since |-> {}]]

At(g) == page[g].at

Reads == {r \in Review : rpc[r] # "idle"} \cup {g \in Page : At(g) # "idle"}

Posts == {w \in Post : post[w].pc # "idle"}

ReadUnanswered ==
    \/ \E r \in Review : rpc[r] \in {"policy", "image", "layers"}
    \/ \E g \in Page : At(g) \in {"row", "image", "show", "judge", "policy"}

PostUnanswered == \E w \in Post : post[w].pc = "read"

MayPost == Cardinality(Reads \cup Posts) < MaxRequests

MayRead == MayPost /\ Cardinality(Reads) < MaxReads

-----------------------------------------------------------------------------
(* The handlers getImage and getContainer. *)

\* MUTANT of NextCall: the image is judged first, then shown.
NextCallJudgeFirst(q, call) ==
    IF call = "row" /\ "digest" \in DOMAIN q THEN "image"
    ELSE IF call \in {"row", "image"} /\ q.policy # "absent" THEN "judge"
    ELSE IF call = "judge" THEN "policy"
    ELSE IF call # "show" /\ q.show # "none" THEN "show"
    ELSE "shown"

\* What a handler does after a call, as the query of the page asks for it.
NextCall(q, call) ==
    IF call = "row" /\ "digest" \in DOMAIN q THEN "image"
    ELSE IF call \in {"row", "image"} /\ q.show # "none" THEN "show"
    ELSE IF call \in {"row", "image", "show"} /\ q.policy # "absent" THEN "judge"
    ELSE IF call = "judge" THEN "policy"
    ELSE "shown"

Called(g) == NextCall(page[g].asked, At(g))

AskPage(g) ==
    /\ At(g) = "idle"
    /\ MayRead
    /\ \E q \in PageRequest :
        page' = [page EXCEPT ![g].at = "row", ![g].asked = q, ![g].knownBefore = known]
    /\ UNCHANGED <<allVars, post>>

\* A page is answered with nothing but the reason, and nothing is left of it.
Refuse(g, why) == page' = [page EXCEPT ![g] = [NoPage EXCEPT !.at = why]]

\* A call is done, and the image of the page is in a row.
Found(g, i) == page' = [page EXCEPT ![g].at = Called(g), ![g].top = rows[i].top]

\* Any of the calls fails, a 500.
PageFails(g) ==
    /\ At(g) \in {"row", "image", "show", "judge", "policy"}
    /\ Refuse(g, "failed")
    /\ UNCHANGED <<allVars, post>>

\* The image of a page by the id of its row.  GetImageByID wraps its "not
\* found", so that the handler takes it for a failure.
GetImageByID(g) ==
    /\ At(g) = "row"
    /\ "image" \in DOMAIN page[g].asked
    /\ LET i == page[g].asked.image
       IN  IF rows[i] = None THEN Refuse(g, "failed") ELSE Found(g, i)
    /\ UNCHANGED <<allVars, post>>

\* A container by the id of its row, which is there or not.
GetContainerByID(g) ==
    /\ At(g) = "row"
    /\ "digest" \in DOMAIN page[g].asked
    /\ Refuse(g, "not found") \/ page' = [page EXCEPT ![g].at = Called(g)]
    /\ UNCHANGED <<allVars, post>>

\* The image of a container, by its digest; a container without one is shown as
\* not scanned.
GetImageByDigest(g) ==
    /\ At(g) = "image"
    /\ LET found == RowsFor([kind |-> "digest", digest |-> page[g].asked.digest])
       IN  IF found = {} THEN Refuse(g, "unscanned") ELSE \E i \in found : Found(g, i)
    /\ UNCHANGED <<allVars, post>>

\* GetLayers: the merged view, with vulnerabilities if they were asked for.
View(name, show) ==
    IF show = "vulnerabilities" THEN MergedView(name)
    ELSE {[f EXCEPT !.vulns = {}] : f \in MergedView(name)}

\* Clair has no view of a layer it does not have, a 500.
NoLayers(g) == clair[page[g].top] = None /\ Refuse(g, "failed")

\* The features to show.
Show(g) ==
    /\ At(g) = "show"
    /\ \/ NoLayers(g)
       \/ /\ clair[page[g].top] # None
          /\ page' = [page EXCEPT ![g].at = Called(g),
                                  ![g].shown = View(page[g].top, page[g].asked.show)]
    /\ UNCHANGED <<allVars, post>>

\* MUTANT of JudgedView: what is shown is judged, if anything is.
JudgedViewShown(g) ==
    IF page[g].asked.show = "none" THEN View(page[g].top, "vulnerabilities")
    ELSE page[g].shown

\* The features to judge: read once more, and always with vulnerabilities.
JudgedView(g) == View(page[g].top, "vulnerabilities")

GetJudged(g) ==
    /\ At(g) = "judge"
    /\ \/ NoLayers(g)
       \/ /\ clair[page[g].top] # None
          /\ page' = [page EXCEPT ![g].at = Called(g), ![g].judged = JudgedView(g)]
    /\ UNCHANGED <<allVars, post>>

\* The policy of the name asked for, and what it says of the image; a policy
\* that does not exist is a 404.
JudgePage(g) ==
    /\ At(g) = "policy"
    /\ LET p == GetPolicy(page[g].asked.policy)
       IN  IF p = None THEN Refuse(g, "not found")
           ELSE page' = [page EXCEPT ![g].at = Called(g),
                                     ![g].violations = getViolations(p, page[g].judged),
                                     ![g].policy = p]
    /\ UNCHANGED <<allVars, post>>

PageStep(g) ==
    \/ AskPage(g) \/ PageFails(g) \/ GetImageByID(g) \/ GetContainerByID(g)
    \/ GetImageByDigest(g) \/ Show(g) \/ GetJudged(g) \/ JudgePage(g)

-----------------------------------------------------------------------------
(* The handler postPolicy. *)

\* The policy is stored; the call fails nevertheless, or returns.
PostUpsert(w) ==
    /\ post[w].pc = "idle"
    /\ MayPost
    /\ \E new \in Posting, next \in {"read", "failed"} :
        /\ UpsertPolicy(new.name, new.policy)
        /\ post' = [v \in Post |->
            IF v = w
            THEN [post[w] EXCEPT !.pc = next, !.name = new.name, !.since = {new.policy}]
            ELSE IF post[v].name = new.name /\ post[v].pc = "read"
                 THEN [post[v] EXCEPT !.since = @ \cup {new.policy}]
                 ELSE post[v]]
    /\ UNCHANGED <<vars, posts, known, reviewVars, page>>

\* The policy is not stored: the request has none, or the call fails.
PostRefused(w) ==
    /\ post[w].pc = "idle"
    /\ MayPost
    /\ post' = [post EXCEPT ![w].pc = "failed"]
    /\ UNCHANGED <<allVars, page>>

\* The policy of that name is read for the answer, or that fails.
PostReadBack(w) ==
    /\ post[w].pc = "read"
    /\ \/ post' = [post EXCEPT ![w].pc = "told", ![w].told = GetPolicy(post[w].name)]
       \/ post' = [post EXCEPT ![w].pc = "failed"]
    /\ UNCHANGED <<allVars, page>>

-----------------------------------------------------------------------------
ReviewBegins(r) == MayRead /\ Receive(r)

ReviewGoesOn(r) == CallFails(r) \/ ReadPolicy(r) \/ FindImage(r) \/ Judge(r)

\* The last read was answered; or there is none, and the last post was.
AllOver ==
    /\ ~MayRead
    /\ ~ReadUnanswered
    /\ Reads = {} => ~PostUnanswered

PagesNext ==
    \/ /\ ~AllOver
       /\ \/ /\ \/ ScanNext \/ Learn
                \/ \E r \in Review : ReviewBegins(r) \/ ReviewGoesOn(r)
             /\ UNCHANGED requestVars
          \/ \E g \in Page : PageStep(g)
          \/ \E w \in Post : PostUpsert(w) \/ PostRefused(w) \/ PostReadBack(w)
    \/ AllOver /\ UNCHANGED pagesVars

PagesSpec == PagesInit /\ [][PagesNext]_pagesVars

-----------------------------------------------------------------------------
(* Properties. *)

\* The violations by what is shown of them.
Listed(violations) == {[type |-> x.type, os |-> x.feature.os, vuln |-> x.vuln] : x \in violations}

\* A page that was judged and shows its image does not contradict itself: each
\* violation by what it shows is among the violations it lists, although Clair
\* was asked twice and learnt in between.
ForbiddenIsListed ==
    \A g \in Page : At(g) = "shown" /\ page[g].policy # None =>
        Listed(getViolations(page[g].policy, page[g].shown)) \subseteq Listed(page[g].violations)

\* The digest of the image of a page.
PageDigest(q) == IF "image" \in DOMAIN q THEN q.image[2] ELSE q.digest

\* A page that lists no violation is of an image of which the policy forbids
\* nothing that Clair knew when the page was asked for, whatever was asked to be
\* shown, scanned or posted meanwhile.
CleanPageIsClean ==
    \A g \in Page : At(g) = "shown" /\ page[g].policy # None /\ page[g].violations = {} =>
        LET d == PageDigest(page[g].asked)
        IN  Whole(d) => \A f \in FeaturesOfDigest(d, page[g].knownBefore) :
                            ~Forbids(page[g].policy, f)

\* Whoever posts a policy is told that policy, or one posted later under the
\* same name; never the one it replaced, and never none (which would panic).
PostReadsBack == \A w \in Post : post[w].pc = "told" => post[w].told \in post[w].since

-----------------------------------------------------------------------------
(* The inductive invariant of pages and posts. *)

\* What the handler of a page knows at its calls.
CallInv(p) ==
    /\ p.at \in {"row", "image", "show", "judge", "policy", "shown"} =>
        p.asked \in PageRequest /\ p.knownBefore \subseteq known
    /\ p.at \in {"idle", "row", "image", "show"} => p.shown = {}
    /\ p.at = "image" => "digest" \in DOMAIN p.asked
    /\ p.at \in {"judge", "policy"} => p.asked.policy # "absent"
    /\ p.at \in {"show", "judge", "policy", "shown"} =>
        \E i \in Image : /\ i[2] = PageDigest(p.asked)
                         /\ rows[i] # None
                         /\ rows[i].top = p.top

\* What is shown, Clair still knows; so does what is judged by, and besides it
\* all that Clair knew of the image before.
ViewsInv(p) ==
    /\ p.at \in {"judge", "policy", "shown"} /\ p.shown # {} =>
        clair[p.top] # None /\ KnownMore(p.shown, MergedView(p.top))
    /\ p.at = "policy" \/ p.policy # None =>
        /\ KnownMore(p.shown, p.judged)
        /\ LET d == PageDigest(p.asked)
           IN  Sound(d) => KnownMore(FeaturesOfDigest(d, p.knownBefore), p.judged)
    /\ p.policy # None =>
        p.at = "shown" /\ p.violations = getViolations(p.policy, p.judged)

PageInv == \A g \in Page : CallInv(page[g]) /\ ViewsInv(page[g])

\* A post has yet to read its policy, or one posted later.
PostInv ==
    /\ \A w \in Post : post[w].pc = "read" => GetPolicy(post[w].name) \in post[w].since
    /\ PostReadsBack

PagesInv == IInv /\ PagesTypeOK /\ ReviewInv /\ PageInv /\ PostInv
=============================================================================
