------------------------------ MODULE MCPages ------------------------------
(* A library on a base, and another base alone.  The vulnerability of the base
   is known of at first, that of the other layers can be learnt of.  A review,
   pages of images and of containers, and two posts that may be of one policy. *)
EXTENDS Pages, TLC

CONSTANTS full, lean, lib, base, slim, s1, s2, latest, r1, g1, w1, w2

MCContent == {full, lean}
MCLayersOf == full :> <<lib, base>> @@ lean :> <<slim>>

old == [name |-> "old", severity |-> "Low", fixed |-> FALSE]
new == [name |-> "new", severity |-> "High", fixed |-> TRUE]

MCFeaturesOf ==
    lib :> {[os |-> "debian", vulns |-> {new}]}
 @@ base :> {[os |-> "debian", vulns |-> {old}]}
 @@ slim :> {[os |-> "alpine", vulns |-> {new}]}

\* A policy that lets the old vulnerability pass, and one that forbids it by
\* name although its severity is allowed.
lenient == [DefaultPolicy EXCEPT !.allowedSeverity = {"Low"}]
named == [lenient EXCEPT !.notAllowedCves = {"old"}]
MCPostedPolicy == {lenient, named}

byDigest(c) == [kind |-> "digest", digest |-> <<c, "v2">>]

byTag == [kind |-> "tag", tags |-> Tag]

MCRequest ==
    {[enable |-> "absent", policy |-> "team", containers |-> <<byTag, byDigest(full)>>],
     [enable |-> "true", policy |-> "absent", containers |-> <<byDigest(lean)>>],
     [enable |-> "true", policy |-> "absent", containers |-> <<>>],
     [enable |-> "false", policy |-> "absent", containers |-> <<byTag>>],
     [enable |-> "malformed", policy |-> "absent", containers |-> <<byTag>>]}

fullImage == <<latest, <<full, "v2">>>>

MCPageRequest ==
    {[image |-> fullImage, show |-> "features", policy |-> "team"],
     [digest |-> <<full, "v2">>, show |-> "none", policy |-> "team"],
     [digest |-> <<lean, "v2">>, show |-> "vulnerabilities", policy |-> "default"],
     [digest |-> None, show |-> "none", policy |-> "absent"]}

MCPosting ==
    {[name |-> "team", policy |-> lenient], [name |-> "team", policy |-> named]}

MCPagesSymmetry == Permutations(Scan) \cup Permutations(Post)
=============================================================================
