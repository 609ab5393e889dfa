----------------------------- MODULE Admission -----------------------------
(* The webhook of the Kubernetes admission controller: postK8sImagePolicy
   (api/v1/routes.go), together with the scans that fill image_pa and Clair
   (ImageScan), with changes of policies, and with Clair learning of
   vulnerabilities while reviews are under way.

   A review is one request; it is a sequence of calls to the database and to
   Clair, any of which may fail. *)
EXTENDS ImageScan, PolicyRules

CONSTANTS
    Review,         \* the reviews
    Request,        \* the requests the cluster may send
    PolicyName,     \* the names of policies, "default" among them
    PostedPolicy,   \* the policies a client may post
    MaxPosts,       \* how often a policy is posted
    FeaturesOf,     \* the features in each blob, with all their vulnerabilities
    InitiallyKnown, \* the vulnerabilities Clair knows of at first
    defaultBlock    \* ImageWebhookDefaultBlock in the configuration

\* An image path parses to a digest or else to a tag.  (A Tag of ImageScan stands
\* for a registry, a repository and a tag in it; a path matches those whose
\* registry ends with its own, so all of them if it has none.)
Reference == [kind : {"digest"}, digest : Digest] \cup [kind : {"tag"}, tags : SUBSET Tag]

\* The annotations of a request and its containers.
ASSUME RequestAssumption ==
    \A q \in Request :
        q \in [enable : {"absent", "true", "false", "malformed"},
               policy : PolicyName \cup {"absent"}, containers : Seq(Reference)]

ASSUME PolicyAssumption ==
    /\ "default" \in PolicyName
    /\ PostedPolicy \subseteq Policy
    /\ None \notin Policy

ASSUME FeaturesAssumption ==
    FeaturesOf \in [Blob -> SUBSET Feature] /\ InitiallyKnown \subseteq Cve

ASSUME MaxPostsAssumption == MaxPosts \in Nat

ASSUME DefaultBlockAssumption == defaultBlock \in BOOLEAN

VARIABLES
    policies,       \* table policy_pa
    posts,          \* how often a policy was posted
    known,          \* the vulnerabilities Clair knows of
    rpc,            \* where each review is
    request,        \* what it was asked
    policy,         \* the policy it read
    container,      \* the container it is at
    top,            \* dbImage.TopLayer
    verdict,        \* what it answered
    knownBefore     \* observed: the vulnerabilities Clair knew of when it began

reviewVars == <<rpc, request, policy, container, top, verdict, knownBefore>>
worldVars == <<policies, posts, known>>
allVars == <<vars, worldVars, reviewVars>>

WorldTypeOK ==
    /\ policies \in [PolicyName -> Policy \cup {None}]
    /\ posts \in 0..MaxPosts
    /\ known \subseteq Cve

ReviewTypeOK ==
    /\ rpc \in [Review -> {"idle", "policy", "image", "layers", "answered"}]
    /\ request \in [Review -> Request \cup {None}]
    /\ policy \in [Review -> Policy \cup {None}]
    /\ container \in [Review -> Nat]
    /\ \A r \in Review : rpc[r] \in {"image", "layers"} =>
        container[r] \in 1..Len(request[r].containers)
    /\ top \in [Review -> Name \cup {None}]
    /\ verdict \in [Review -> {"none", "allowed", "denied", "bad request", "call failed",
                               "no layers"}]
    /\ knownBefore \in [Review -> SUBSET Cve]

AdmissionTypeOK == TypeOK /\ WorldTypeOK /\ ReviewTypeOK

AdmissionInit ==
    /\ Init
    /\ policies = [n \in PolicyName |-> IF n = "default" THEN DefaultPolicy ELSE None]
    /\ posts = 0
    /\ known = InitiallyKnown
    /\ rpc = [r \in Review |-> "idle"]
    /\ request = [r \in Review |-> None]
    /\ policy = [r \in Review |-> None]
    /\ container = [r \in Review |-> 0]
    /\ top = [r \in Review |-> None]
    /\ verdict = [r \in Review |-> "none"]
    /\ knownBefore = [r \in Review |-> {}]

-----------------------------------------------------------------------------
(* The database and Clair. *)

\* A policy by its name.
GetPolicy(name) == policies[name]

\* MUTANT of UpsertPolicy: ON CONFLICT (name) DO NOTHING.
UpsertPolicyKeeps(name, new) ==
    policies' = [policies EXCEPT ![name] = IF @ = None THEN new ELSE @]

\* A policy is created or replaced as a whole.
UpsertPolicy(name, new) == policies' = [policies EXCEPT ![name] = new]

\* The handler postPolicy.
PostPolicy ==
    /\ posts < MaxPosts
    /\ posts' = posts + 1
    /\ \E n \in PolicyName, p \in PostedPolicy : UpsertPolicy(n, p)
    /\ UNCHANGED <<vars, known, reviewVars>>

\* Clair's updater learns of a vulnerability.
Learn ==
    /\ \E c \in Cve \ known : known' = known \cup {c}
    /\ UNCHANGED <<vars, policies, posts, reviewVars>>

\* The names from a layer down to its base: the least set with the layer and,
\* for each of its layers, the parent.
Chain(name) ==
    LET closed == {S \in SUBSET Name :
                    name \in S /\ \A m \in S : clair[m] \in Name => clair[m] \in S}
    IN  {m \in Name : \A S \in closed : m \in S}

OnlyCves(f, cves) == [f EXCEPT !.vulns = {v \in @ : v.name \in cves}]

\* GET /v1/layers/<name>?vulnerabilities: the features of a layer and of those
\* below it, with the vulnerabilities known of them.  (A feature that a layer
\* removes again is left out of this model.)
MergedView(name) ==
    {OnlyCves(f, known) : f \in UNION {FeaturesOf[m[2]] : m \in Chain(name)}}

\* The rows GetImageByDigest or GetImageByRrt may return: the last ones seen.
LastSeen(images) ==
    {i \in images : \A j \in images : rows[j].lastSeen <= rows[i].lastSeen}

\* A row is of an image that a path refers to.
RowOf(ref, i) ==
    /\ rows[i] # None
    /\ ref.kind = "digest" => i[2] = ref.digest
    /\ ref.kind = "tag" => i[1] \in ref.tags

RowsFor(ref) == LastSeen({i \in Image : RowOf(ref, i)})

-----------------------------------------------------------------------------
(* A review. *)

\* A review is answered, and is at no container any more.
Answer(r, v) ==
    /\ verdict' = [verdict EXCEPT ![r] = v]
    /\ rpc' = [rpc EXCEPT ![r] = "answered"]
    /\ container' = [container EXCEPT ![r] = 0]
    /\ top' = [top EXCEPT ![r] = None]

Proceed(r, label) ==
    /\ rpc' = [rpc EXCEPT ![r] = label]
    /\ UNCHANGED verdict

\* The webhook judges the request: its annotation, or else the configuration,
\* says so.
Enabled(q) == q.enable = "true" \/ (q.enable = "absent" /\ defaultBlock)

\* Everything before the first call: a disabled webhook allows, a request
\* without containers is denied.
Receive(r) ==
    /\ rpc[r] = "idle"
    /\ \E q \in Request :
        /\ request' = [request EXCEPT ![r] = q]
        /\ \/ q.enable = "malformed" /\ Answer(r, "bad request")
           \/ q.enable # "malformed" /\ ~Enabled(q) /\ Answer(r, "allowed")
           \/ Enabled(q) /\ q.containers = <<>> /\ Answer(r, "denied")
           \/ Enabled(q) /\ q.containers # <<>>
             /\ Proceed(r, "policy") /\ UNCHANGED <<container, top>>
    /\ knownBefore' = [knownBefore EXCEPT ![r] = known]
    /\ UNCHANGED <<vars, worldVars, policy>>

\* A call to the database or to Clair fails: the answer is a 500.
CallFails(r) ==
    /\ rpc[r] \in {"policy", "image", "layers"}
    /\ Answer(r, "call failed")
    /\ UNCHANGED <<vars, worldVars, request, policy, knownBefore>>

\* The policy of the name in the annotation or the default one; a policy that
\* does not exist denies.
ReadPolicy(r) ==
    /\ rpc[r] = "policy"
    /\ LET name == IF request[r].policy = "absent" THEN "default" ELSE request[r].policy
       IN  policy' = [policy EXCEPT ![r] = GetPolicy(name)]
    /\ \/ policy'[r] = None /\ Answer(r, "denied")
       \/ /\ policy'[r] # None /\ Proceed(r, "image")
          /\ container' = [container EXCEPT ![r] = 1]
          /\ UNCHANGED top
    /\ UNCHANGED <<vars, worldVars, request, knownBefore>>

\* The container a review is at.
Current(r) == request[r].containers[container[r]]

\* MUTANT of NextContainer: the loop goes one container too far.
NextContainerTooFar(r) ==
    \/ /\ container[r] <= Len(request[r].containers)
       /\ Proceed(r, "image")
       /\ container' = [container EXCEPT ![r] = @ + 1]
       /\ UNCHANGED top
    \/ container[r] > Len(request[r].containers) /\ Answer(r, "allowed")

\* Nothing is held against a container: the next one, or after the last one the
\* review allows.
NextContainer(r) ==
    \/ /\ container[r] < Len(request[r].containers)
       /\ Proceed(r, "image")
       /\ container' = [container EXCEPT ![r] = @ + 1]
       /\ UNCHANGED top
    \/ container[r] = Len(request[r].containers) /\ Answer(r, "allowed")

\* The image of the next container, by digest or by tag; an image that was
\* never scanned denies.
FindImage(r) ==
    /\ rpc[r] = "image"
    /\ \/ RowsFor(Current(r)) = {} /\ Answer(r, "denied")
       \/ /\ \E i \in RowsFor(Current(r)) : top' = [top EXCEPT ![r] = rows[i].top]
          /\ Proceed(r, "layers")
          /\ UNCHANGED container
    /\ UNCHANGED <<vars, worldVars, request, policy, knownBefore>>

\* Clair's view of its top layer, and the verdict of the policy on it.  Clair
\* has no view of a layer it does not have, which is a 500 as well.
Judge(r) ==
    /\ rpc[r] = "layers"
    /\ \/ clair[top[r]] = None /\ Answer(r, "no layers")
       \/ /\ clair[top[r]] # None
          /\ getViolations(policy[r], MergedView(top[r])) # {}
          /\ Answer(r, "denied")
       \/ /\ clair[top[r]] # None
          /\ getViolations(policy[r], MergedView(top[r])) = {}
          /\ NextContainer(r)
    /\ UNCHANGED <<vars, worldVars, request, policy, knownBefore>>

ReviewStep(r) ==
    \/ Receive(r) \/ CallFails(r) \/ ReadPolicy(r) \/ FindImage(r) \/ Judge(r)

ScanNext ==
    /\ Retag \/ \E s \in Scan : ScanStep(s)
    /\ UNCHANGED <<worldVars, reviewVars>>

AllAnswered ==
    /\ \A r \in Review : rpc[r] = "answered"
    /\ UNCHANGED allVars

AdmissionNext ==
    \/ ScanNext \/ PostPolicy \/ Learn
    \/ \E r \in Review : ReviewStep(r)
    \/ AllAnswered

AdmissionSpec == AdmissionInit /\ [][AdmissionNext]_allVars

-----------------------------------------------------------------------------
(* Properties. *)

\* The webhook judged the request and let it pass.
Admitted(r) == verdict[r] = "allowed" /\ Enabled(request[r])

Referenced(r) ==
    {request[r].containers[k] : k \in 1..Len(request[r].containers)}

\* The features of the content of a digest, with those of some vulnerabilities.
FeaturesOfDigest(d, cves) ==
    {OnlyCves(f, cves) : f \in
        UNION {FeaturesOf[LayersOfDigest(d)[k]] : k \in 1..Len(LayersOfDigest(d))}}

\* A policy forbids a feature or one of its vulnerabilities, by the list in the
\* comment of getViolations (routes.go:903-908).
Forbids(p, f) ==
    \/ f.os \in p.notAllowedOs
    \/ \E v \in f.vulns :
        \/ v.name \in p.notAllowedCves
        \/ /\ v.name \notin p.allowedCves
           /\ v.severity \notin p.allowedSeverity
           /\ p.allowNotFixed => v.fixed

\* If a review lets a container pass that is named by its digest, then the
\* policy that the review read forbids nothing that Clair already knew of any
\* layer of that image when the review began: whatever scans of the image
\* failed, were under way or were repeated, and whatever was posted or learnt
\* meanwhile.
AdmittedIsClean ==
    \A r \in Review : Admitted(r) =>
        \A ref \in Referenced(r) : ref.kind = "digest" /\ Whole(ref.digest) =>
            \A f \in FeaturesOfDigest(ref.digest, knownBefore[r]) : ~Forbids(policy[r], f)

\* A review lets nothing pass that was not scanned to the end: by digest, that
\* image; by tag, some image seen under a tag that its path matches.
AdmittedIsScanned ==
    \A r \in Review : Admitted(r) =>
        \A ref \in Referenced(r) : \E i \in Image :
            RowOf(ref, i) /\ (Whole(i[2]) => Served(i))

-----------------------------------------------------------------------------
(* The inductive invariant of reviews. *)

\* Nothing is held against a container: its image was scanned to the end and,
\* if it is named by its digest, has nothing that the policy forbids and that
\* Clair knew of when the review began.
Passed(r, ref) ==
    /\ \E i \in Image : RowOf(ref, i) /\ (Sound(i[2]) => Served(i))
    /\ ref.kind = "digest" /\ Sound(ref.digest) =>
        \A f \in FeaturesOfDigest(ref.digest, knownBefore[r]) : ~Forbids(policy[r], f)

\* What a review knows where it is.
ReviewKnows(r) ==
    /\ rpc[r] # "idle" => request[r] \in Request /\ knownBefore[r] \subseteq known
    /\ rpc[r] # "answered" => verdict[r] = "none"
    /\ rpc[r] \in {"policy", "image", "layers"} =>
        Enabled(request[r]) /\ request[r].containers # <<>>
    /\ rpc[r] \in {"image", "layers"} =>
        /\ policy[r] # None
        /\ \A k \in 1..(container[r] - 1) : Passed(r, request[r].containers[k])
    /\ rpc[r] = "layers" => \E i \in Image : RowOf(Current(r), i) /\ rows[i].top = top[r]
    /\ Admitted(r) => \A ref \in Referenced(r) : Passed(r, ref)

ReviewInv == \A r \in Review : ReviewKnows(r)

AdmissionInv == IInv /\ AdmissionTypeOK /\ ReviewInv
=============================================================================
