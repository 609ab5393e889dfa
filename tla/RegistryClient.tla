--------------------------- MODULE RegistryClient ---------------------------
(* Listing what a registry has: registry.New with its Ping, then Tags or
   Repositories (pkg/docker/registry), page by page, every request going through
   ErrorTransport, BasicTransport and TokenTransport, while others push to the
   registry and delete from it.  docker.Crawl starts from these lists; that it
   takes them for sets (RegistryCrawl) rests on what is checked here.

   A name is a number: the registry lists names in their order, and a page is
   asked for by the last name of the page before it. *)
EXTENDS Integers, FiniteSets

CONSTANTS
    Name,           \* the names (tags, repositories) there may be
    MaxChanges      \* how often the registry changes during a call

ASSUME NameAssumption == Name \subseteq Nat \ {0} /\ IsFiniteSet(Name)

ASSUME MaxChangesAssumption == MaxChanges \in Nat

VARIABLES
    present,    \* the names the registry has
    changes,    \* how often it changed
    relative,   \* the registry gives links without scheme and host
    pc,         \* where the request is, or how the call ended
    what,       \* what is requested
    url,        \* the page to ask for: the names after this one
    listed,     \* how often each name is in the list so far
    \* -- observed
    always      \* the names there were ever since the listing began

registryVars == <<present, changes, relative>>
vars == <<registryVars, pc, what, url, listed, always>>

TypeOK ==
    /\ present \subseteq Name
    /\ changes \in 0..MaxChanges
    /\ relative \in BOOLEAN
    /\ pc \in {"idle", "send", "auth", "retry", "listed", "failed"}
    /\ what \in {"ping", "page"}
    /\ url \in Name \cup {0}
    /\ listed \in [Name -> Nat]
    /\ always \subseteq Name

Init ==
    /\ present \in SUBSET Name
    /\ changes = 0
    /\ relative \in BOOLEAN
    /\ pc = "idle"
    /\ what = "ping"
    /\ url = 0
    /\ listed = [n \in Name |-> 0]
    /\ always = {}

-----------------------------------------------------------------------------
(* The registry. *)

\* A push of a new name, or a deletion.
Change ==
    /\ pc \notin {"idle", "listed", "failed"}
    /\ changes < MaxChanges
    /\ changes' = changes + 1
    /\ \E n \in Name :
        present' = IF n \in present THEN present \ {n} ELSE present \cup {n}
    /\ always' = always \cap present'
    /\ UNCHANGED <<relative, pc, what, url, listed>>

\* What a page may hold: some of the names after the last one, without a gap,
\* at least one if there is any.
Rest == {n \in present : n > url}
Pages == IF Rest = {} THEN {{}} ELSE {{n \in Rest : n <= last} : last \in Rest}

Last(page) == CHOOSE n \in page : \A m \in page : m <= n

-----------------------------------------------------------------------------
(* A response that is no error. *)

\* The names of a page are appended to the list.
Append(page) ==
    listed' = [n \in Name |-> IF n \in page THEN listed[n] + 1 ELSE listed[n]]

\* MUTANT of NextPage: the same page is asked for again.
NextPageSame(page) ==
    /\ page # Rest
    /\ Append(page)
    /\ UNCHANGED <<url, what, always>>
    /\ pc' = "send"

\* A response with a link to the next page: Tags and Repositories go on with it.
NextPage(page) ==
    /\ page # Rest
    /\ Append(page)
    /\ url' = Last(page)
    /\ UNCHANGED <<what, always>>
    /\ pc' = "send"

\* MUTANT of LastPage: the list ends with the page before the last one.
LastPageDropped(page) ==
    /\ page = Rest
    /\ pc' = "listed"
    /\ UNCHANGED <<listed, what, url, always>>

\* A response without one: ErrNoMorePages ends the list.
LastPage(page) ==
    /\ page = Rest
    /\ Append(page)
    /\ pc' = "listed"
    /\ UNCHANGED <<what, url, always>>

\* Ping only looks for an error; then the first page is asked for.
Pinged ==
    /\ what' = "page"
    /\ pc' = "send"
    /\ always' = present
    /\ UNCHANGED <<url, listed>>

Answered ==
    \/ what = "ping" /\ Pinged
    \/ what = "page" /\ \E page \in Pages : NextPage(page) \/ LastPage(page)

\* MUTANT of Failed: the body of a response with an error status is decoded,
\* and is a list without names.
FailedAsEmptyList ==
    /\ pc' = IF what = "page" THEN "listed" ELSE "failed"
    /\ UNCHANGED <<what, url, listed, always>>

\* No response, a status of 400 or more (which ErrorTransport makes an error), or
\* a body that cannot be decoded: the call returns an error and no list.
Failed ==
    /\ pc' = "failed"
    /\ UNCHANGED <<what, url, listed, always>>

-----------------------------------------------------------------------------
(* The call. *)

\* registry.New
New ==
    /\ pc = "idle"
    /\ pc' = "send"
    /\ UNCHANGED <<registryVars, what, url, listed, always>>

\* A link without a scheme is followed as it is, and then is no URL to request.
Usable == relative => url = 0

\* The status is 401 and there is a bearer challenge; without one it is an error.
Demanded ==
    /\ pc' = "auth"
    /\ UNCHANGED <<what, url, listed, always>>

\* The request is sent, with basic authentication if there is a user name: it is
\* answered, or fails, or a bearer token is demanded.
Send ==
    /\ pc = "send"
    /\ \/ Usable /\ (Answered \/ Demanded)
       \/ Failed
    /\ UNCHANGED registryVars

\* The token is asked for.  The service gives one, or answers with another status
\* than 200, which yields an empty token; or there is no answer to make use of.
Auth ==
    /\ pc = "auth"
    /\ \/ pc' = "retry" /\ UNCHANGED <<what, url, listed, always>>
       \/ Failed
    /\ UNCHANGED registryVars

\* MUTANT of Retry: another demand is answered by another token.
RetryAgain ==
    /\ pc = "retry"
    /\ Answered \/ Demanded
    /\ UNCHANGED registryVars

\* The request is sent again with the token, once; another demand is an error.
Retry ==
    /\ pc = "retry"
    /\ Answered \/ Failed
    /\ UNCHANGED registryVars

Returned ==
    /\ pc \in {"listed", "failed"}
    /\ UNCHANGED vars

Client == New \/ Send \/ Auth \/ Retry

Next == Change \/ Client \/ Returned

\* No fairness: the http.Client has no Timeout, and a request may never return.
Spec == Init /\ [][Next]_vars

-----------------------------------------------------------------------------
(* Properties. *)

\* A list that is returned has every name that was there throughout, whatever
\* was pushed or deleted between its pages; an error is never taken for the end
\* of the list.
ListingIsComplete == pc = "listed" => \A n \in always : listed[n] > 0

\* No name is listed twice, so that a crawl fetches and scans no image twice.
NothingListedTwice == \A n \in Name : listed[n] <= 1

\* What is left of the call at most: the pages there may still be, each for names
\* after those of the page before, and what is left of the request under way.
PagesLeft == IF what = "ping" THEN Cardinality(Name) + 1
             ELSE Cardinality({n \in Name : n > url})
Phase == [idle |-> 4, send |-> 3, auth |-> 2, retry |-> 1, listed |-> 0, failed |-> 0]
StepsLeft == 4 * PagesLeft + Phase[pc]

\* Every step that is not the registry's brings the call closer to its end,
\* whatever the registry pushes, deletes, answers or demands meanwhile: Tags and
\* Repositories do not follow links for ever, and a request is not repeated for
\* one token after another.
CallMakesProgress == [][UNCHANGED registryVars => StepsLeft' < StepsLeft]_vars

\* The inductive invariant: the names up to the last page were listed once, if
\* they were there throughout at least; those after it were not listed yet.
IInv ==
    /\ TypeOK
    /\ what = "ping" => url = 0 /\ pc # "listed"
    /\ pc = "idle" => what = "ping"
    /\ always \subseteq present
    /\ \A n \in Name :
        /\ listed[n] <= 1
        /\ pc # "listed" /\ n > url => listed[n] = 0
        /\ (pc = "listed" \/ n <= url) /\ n \in always => listed[n] = 1
=============================================================================
