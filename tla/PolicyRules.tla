---------------------------- MODULE PolicyRules ----------------------------
(* What a policy says of the features of an image: getViolations
   (api/v1/routes.go), which the webhook and the image and container pages use.

   A vulnerability is a record [name, severity, fixed], where fixed says whether
   FixedBy is set; a feature is a record [os, vulns].  The lists of a policy are
   sets here: the code only looks names up in them. *)

CONSTANTS Cve, Severity, Os

Vuln == [name : Cve, severity : Severity, fixed : BOOLEAN]

Feature == [os : Os, vulns : SUBSET Vuln]

Policy == [notAllowedOs : SUBSET Os, notAllowedCves : SUBSET Cve, allowedCves : SUBSET Cve,
           allowedSeverity : SUBSET Severity, allowNotFixed : BOOLEAN]

\* The policy named default, as initDatabase inserts it.
DefaultPolicy == [notAllowedOs |-> {}, notAllowedCves |-> {}, allowedCves |-> {},
                  allowedSeverity |-> {}, allowNotFixed |-> FALSE]

\* Reasons to let a vulnerability pass, tried in this order, after the blacklist.
Passes(policy, v) ==
    \/ v.name \in policy.allowedCves
    \/ v.severity \in policy.allowedSeverity
    \/ policy.allowNotFixed /\ ~v.fixed

\* MUTANT of VulnViolations: the whitelist comes before the blacklist.
VulnViolationsWhitelistFirst(policy, f, v) ==
    IF Passes(policy, v) THEN {}
    ELSE IF v.name \in policy.notAllowedCves
         THEN {[type |-> "BlacklistedCve", feature |-> f, vuln |-> {v}]}
         ELSE {[type |-> "Basic", feature |-> f, vuln |-> {v}]}

\* The body of VulnLoop: at most one violation.
VulnViolations(policy, f, v) ==
    IF v.name \in policy.notAllowedCves
    THEN {[type |-> "BlacklistedCve", feature |-> f, vuln |-> {v}]}
    ELSE IF Passes(policy, v) THEN {}
         ELSE {[type |-> "Basic", feature |-> f, vuln |-> {v}]}

\* The body of FeatureLoop: on an operating system that is not allowed a feature
\* is one violation, and its vulnerabilities are not looked at.
FeatureViolations(policy, f) ==
    IF f.os \in policy.notAllowedOs
    THEN {[type |-> "BlacklistedOs", feature |-> f, vuln |-> {}]}
    ELSE UNION {VulnViolations(policy, f, v) : v \in f.vulns}

getViolations(policy, features) == UNION {FeatureViolations(policy, f) : f \in features}

-----------------------------------------------------------------------------
\* A policy that allows no more than another and forbids no less.
Stricter(p, q) ==
    /\ q.notAllowedOs \subseteq p.notAllowedOs
    /\ q.notAllowedCves \subseteq p.notAllowedCves
    /\ p.allowedCves \subseteq q.allowedCves
    /\ p.allowedSeverity \subseteq q.allowedSeverity
    /\ p.allowNotFixed => q.allowNotFixed

\* Some features with more vulnerabilities known of each.
KnownMore(features, more) ==
    \A f \in features : \E g \in more : f.os = g.os /\ f.vulns \subseteq g.vulns
=============================================================================
