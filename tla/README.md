# Port Authority in TLA+

Port Authority inventories the container images of registries and Kubernetes
clusters, has Clair scan them for vulnerabilities, and answers the Kubernetes
image policy webhook with the result. This directory holds TLA+ models of its
core, the TLC configurations that check them on small instances, and theorems
that TLAPS proves of them. `src/...` below is the repository.

Run `tlc -config X.cfg M` for a row of the table of runs, `tlapm M.tla` for a
module of proofs. `PROJECT.json` lists the runs, for every definition the lines
it models, for every checked property a plausible bug (a `MUTANT` definition)
that breaks it, the hazards of the code and the properties aimed at them.

## 1. The system

| component | state | operations | how it interacts |
|---|---|---|---|
| Registry crawler: `crawler.Registry`, `docker.Crawl` | local: `err`, `regError`, counters, semaphore, wait group, channel of images; its row of `crawler_pa` | one goroutine receives images from another over a channel and starts a worker per image | started by POST `/v1/crawlers/registry`; each worker runs an image scan; reports through its row |
| Kubernetes crawler: `crawler.K8s` | the same | lists pods, records containers, removes duplicates, scans what it has credentials for | started by POST `/v1/crawlers/k8s`; as above |
| Inventory: `GetContainerImages`, the queries of `container_pa` | a row per namespace, cluster and container, with the first and last day it was seen | look a container up, write it back, show what was seen in a range of days | written by the crawls of all clusters, two of which may be of one cluster; GET `/v1/containers` reads it |
| Crawler API: `postCrawler`, `getCrawler` | table `crawler_pa` | insert a row, start a crawl, poll a row | handlers, crawl goroutines and clients meet in the table |
| Image scan: `docker.GetImage`, `ScanImage`, `clair.Push` | table `image_pa`, Clair's layers | digest and manifests of a tag, upsert of the row, post of every layer | run by the workers of all crawls and by POST `/v1/images`, at once |
| Registry client: `docker/registry` | none but the request under way | New/Ping, Repositories, Tags, manifests; error, basic and token transports | used by crawls and scans |
| Admission webhook: `postK8sImagePolicy` | none | policy, images, Clair's view, verdict | reads `policy_pa`, `image_pa`, Clair, while the others write them |
| Policy rules: `getViolations` | none | which features and vulnerabilities a policy forbids | used by the webhook and by the image and container pages |
| Policy API: `postPolicy`, `getPolicy`, `listPolicy` | table `policy_pa` | upsert and read-back, read | the webhook and the pages read what it writes |
| Image and container API: `getImage`, `getContainer`, `listImages`, `listContainers`, `postImage` | none | lists and pages, judged by a policy on request | a page reads the tables once and Clair up to twice; POST `/v1/images` runs an image scan |
| Server: `serve`, `api.Run`, `api.RunHealth`, `stopper` | stop channel, wait group | start, listen, time out handlers, stop on a signal | waits for the servers and what they accepted, not for crawls |
| Clair client | none | POST and GET of layers | the boundary to Clair |
| metrics, logs, formatter, configuration, command line | none | | input and output only |

**What is hard in it.** The workers of a crawl share one variable `err` of the
enclosing function. A semaphore is filled by one goroutine and drained by
others, after they have left the wait group. A call to a registry or a cluster has
no time limit and may never return. Four tables and Clair are written
without transactions by handlers and crawls that may fail, time out or end with
the process between any two writes. A tag is read by several requests and may be
moved between them. `last_seen` is taken before the statement that writes it. A
page asks Clair twice, and Clair learns meanwhile. A handler that timed out goes
on, and its client tries again. A signal finds requests and crawls under way.

**What makes it right.** A crawl's row tells the truth: it moves forward only,
its summary speaks of all images, at most `MaxThreads` scans run, and no goroutine
is left behind by anything but a call that never returns. The inventory shows all
that a crawl listed and nothing else. Clair never answers for
a part of an image, and a scan that succeeded leaves its image served, for good.
The webhook lets nothing pass that was not scanned or that the policy forbids,
and a page calls nothing clean that is not. A listing misses nothing and repeats
nothing. A client is told the id of its own crawl, and sees the outcome that the
crawl wrote; one that posts a policy is told that policy. A process that was told to end does, and
first answers what it accepted.

## 2. The modules

| module | models | its state and actions |
|---|---|---|
| `CrawlJob` | what a crawl promises to the client that polls it (abstract) | status, total, images being scanned and scanned; Advance, BeginScan, EndScan, Report |
| `RegistryCrawl` | `crawler/registry.go`, `Crawl` of `docker/docker.go` | program counters of `Registry` (`Main...`), of `docker.Crawl` (`Crawl...`) and of each worker (`Worker...`); channel, semaphore, wait group, shared `err`, counters, row |
| `RegistryCrawlProofs` | | theorems about it |
| `K8sCrawl` | `crawler/k8s.go` | the same for `K8s` and its `GetContainerImages`, with `removeDuplicates`, `ParseImageDigest` and `GetStoredCredentials` as operators; a loop over what `removeDuplicates` returns is over the positions that it keeps; recording a container is one call that succeeds or fails |
| `K8sCrawlProofs` | | theorems about it |
| `Inventory` | `GetContainerImages` beside other crawls, the queries of `container_pa` | per crawl: where it is, the namespaces and statuses it has not recorded, the row in its hand (`key`, `seen`); shared: the date and the table, by namespace, cluster and status; ListPods, GetContainer, New, Now, UpsertContainer, Fail, Midnight |
| `InventoryProofs` | | theorems about it |
| `ImageScan` | `GetImage`, `ScanImage`, `Push`, the queries of `image_pa` | per scan: where it is, tag, digest, layers, its `time.Now()`, layers left to push; shared: the registry's tags, rows with their `last_seen`, Clair's layers with their parents |
| `ImageScanProofs` | | theorems about it |
| `PolicyRules` | `getViolations` | operators over sets |
| `Admission` | `postK8sImagePolicy`, the queries of `policy_pa`; extends `ImageScan` and `PolicyRules` | per review: where it is, the policy read, the container, the top layer, the verdict; shared: policies, what Clair knows |
| `AdmissionProofs` | | theorems about it and about `PolicyRules`; extends `ImageScanProofs` |
| `Pages` | `getImage`, `getContainer`, `postPolicy`; extends `Admission` | per page: the call its handler is at, the top layer, the features shown and judged, the violations; per post: where it is, what it was told |
| `PagesProofs` | | theorems about it; extends `AdmissionProofs` |
| `RegistryClient` | `docker/registry`: New, Ping, Tags, Repositories, pagination, transports | one call: where its request is (send, token, retry), the page it asks for, how often each name was listed; the registry changes meanwhile |
| `RegistryClientProofs` | | theorems about it |
| `CrawlerApi` | `postCrawler`, `getCrawler`, the queries of `crawler_pa`, the `TimeoutHandler` | per request: where its handler is, what its client was told and saw; rows; the goroutine of each crawl; the process restarts |
| `Server` | `serve`, `api.Run`, `api.RunHealth`, `listenAndServeWithStopper`, `stopper`; extends `CrawlerApi` | where `serve` and the two servers are, the counter of the wait group, the health request; requests are taken only while a server serves |
| `ServerProofs` | | theorems about `CrawlerApi` and `Server` |

`MC<module>` gives the constants of `<module>` values for TLC. In `Pages` the
handlers `getImage` and `getContainer` differ in where they begin (the row of an
image by its id, or that of a container and then an image by its digest) and
share the rest, as their code does line by line; which call comes after which
(`NextCall`) depends on the query of the request.

How they fit together: `RegistryCrawl` takes the lists of the registry for sets,
which rests on `RegistryClient` (nothing is listed twice). It and `K8sCrawl` take
the scan of an image for one step, which `ImageScan` details. Both implement
`CrawlJob` (`JobSpec`), the part of them that a client sees; `CrawlerApi` has the
same writes and lets a crawl stop anywhere. `Inventory` runs the part of several
cluster crawls that `K8sCrawl` takes for one step, on one table. `Admission`
runs the webhook on top of concurrent `ImageScan`s, and `Pages` the other readers
and writers of the same tables beside it. `Server` puts the life of the process
around `CrawlerApi`: the end of the process, an action of its own in `CrawlerApi`,
is there what `serve` makes of a signal, or a crash.

Conventions: an action is what the code does between two points where others can
act: a call to the database, Clair, a registry or the cluster, a channel or wait
group operation, an access to a shared variable. A call that changes something
outside may fail before or after it took effect. Messages and times are left
out, except `last_seen`, which decides which row a tag is looked up in.

### Modelled as external

Code that is not in the repository is modelled from how it is used:

- **Clair** refuses a layer whose parent it does not have, leaves a layer it has
  as it is, and serves for a layer the features of it and all layers below, with
  the vulnerabilities it knows of now, which only grow. A feature that an upper
  layer removes again is left out.
- **A registry** lists names in order, a page at a time, each page beginning after
  the last name of the page before, and each page carries its list (`Tags` and
  `Repositories` decode all pages into one variable, `tags.go:13`, so that a page
  without the field would repeat the one before); its tags may be moved at any time. It has a
  digest per manifest schema. Whether a link is relative is its choice.
- **PostgreSQL** executes each statement atomically.
- **`graceful.Server`**: `Stop(0)` closes the listener and sets no limit;
  `ListenAndServe` returns once the requests it accepted are answered.
- MD5 (`GetMD5Hash`) is taken to be injective.

## 3. The runs

| run | expect | shows |
|---|---|---|
| `registry_crawl` | pass | `ScansBounded`: never more scans than `MaxThreads`, although slots are given back after `wg.Done`. `SummaryIsComplete`: a summary is written only if the producer ended, the channel is drained and every image sent was scanned and counted once. `ErrorIsLast`: an error in the channel leaves no image behind. `SharedErrIsHarmless`: one thread counts exactly in spite of the shared `err`, and finds no nil `err` where it logs one, which several threads can. `JobSpec`: implements `CrawlJob`. `EveryGoroutineEnds`: unless the process ends, a call to the outside never returns or there is no slot at all, every goroutine ends and the row is reported. |
| `registry_failure_count` | violation | with two workers the failures counted differ from those that happened: `err` is shared |
| `k8s_crawl` | pass | as `registry_crawl`, also with `MaxThreads` left out; `SummaryAddsUp`: successes, failures and skipped images add up whatever `err` held. `EachImageIsHandledOnce`: a finished crawl that scans has handled each digest once, and a digest for every container whose image is docker's. `SequentialCountIsExact`: with one thread the counts are exact |
| `k8s_duplicates` | violation | images of other runtimes than docker have no digest and are removed as each other's duplicates |
| `inventory` | pass | `InventoryIsComplete`: a crawl that has listed its cluster has a row of every container it listed, and unless it began beside another crawl of that cluster, GET `/v1/containers` from its first day on shows them all. `ShownWasListed`: both days of a row are days of crawls that listed the container in that cluster and namespace. `FirstSeenStays`: a row stays and keeps `first_seen`, also when two crawls find the container new at once |
| `image_scan` | pass | `ViewIsNeverPartial`, `ScannedIsServed`, `ParentIsThere` and `StaysServed` under concurrent, failing and repeated scans of a tag that moves |
| `image_scan_torn` | violation | a tag moved between the requests of one scan leaves a row whose top layer is of another content than its digest, for good |
| `image_scan_last_seen` | violation | a scan that was overtaken between its `time.Now()` and its upsert moves `last_seen` backwards: an image seen before the last scan comes first under the tag |
| `admission` (`MCPages`) | pass | `AdmittedIsClean`: an admitted container named by digest has nothing the policy read forbids, by what was known when the review began; `AdmittedIsScanned`: for each container that is let pass there is a row that its path refers to and that is served, unless a scan of it was torn. `ForbiddenIsListed`: a page that shows features and was judged lists every violation that they show, although Clair was asked twice. `CleanPageIsClean`: a page without violations is of an image of which the policy forbids nothing that was known when it was asked for. `PostReadsBack`: a post is told its policy or a later one |
| `registry_listing` | pass | `ListingIsComplete`, `NothingListedTwice`, `CallMakesProgress`: each step of the client, also one that was answered by a demand for a token, brings the list nearer to its end (the changes of the registry are steps of their own); and `IInv` of the proofs |
| `crawler_api` (`MCServer`) | pass | `CreatedIsStarted`: a client is told the id of its own, started crawl; `RowsAreWorkedOn`; `PollsGoForward`; `OutcomeIsSeen`: once its crawl has written an outcome, a client that polls sees it. `GracefulLosesNothing`: an end that was asked for leaves no accepted request without an answer. `SignalEndsProcess`: a process told to end does, though handlers may wait for a registry for ever and crawls are under way |
| `crawler_poll` | violation | a poll fails while the crawl is `initializing`: `messages` and `finished` are NULL |

A passing run also checks a type invariant, or an inductive invariant that
contains it (`IInv`, `ServerInv`; section 4).

Each violation is a disagreement between the code and a line of the repository
that says otherwise; `PROJECT.json` quotes it under `findings`.

**Qualifications in the properties.** `Whole` in `ImageScan` leaves out two kinds
of image for which the properties do not hold: those of a torn scan (refuted by
`image_scan_torn`), and those with a layer that occurs twice, which has one name
and so one parent in Clair. `MCImageScan` contains such an image, so that it
cannot disturb the others. `AdmittedIsClean` speaks of containers named by
digest: a tag may have been moved since it was scanned, and then the webhook
judges what was seen last.

**Bounds, and why they are enough.**

- `registry_crawl`: 2 repositories of 2 tags, a channel of 1 envelope in place of
  50, `MaxThreads` 0 to 2. Four images exceed channel, slots and the image the
  main loop holds, so that every side waits for every other; two workers are
  enough to share `err`.
- `k8s_crawl`: 2 namespaces, containers of one digest under several names,
  images without credentials, other runtimes, threads 0 (ten by default) to 2.
- `inventory`: 2 crawls, which begin and end in any order on 2 days, and 2 clusters,
  so that they are of one or of two; 2 namespaces with 2 pods of one status, which
  gives one row written twice, by another pod and by another crawl, and the same
  status in another namespace. Crawls meet in one row at a time (360,978 states).
- `image_scan`: 2 scans, 1 tag moved twice, 3 contents of up to 3 layers, with a
  layer that has another parent in each content, both manifest schemas. Scans
  interact only through the rows and layers of one digest, two at a time; symmetry
  on the scans (no liveness is checked in this run).
- `image_scan_last_seen`: 3 scans of contents of one layer: the one that is
  overtaken, the one that recorded its image before, and the one that comes last.
- `admission`: 2 scans, 1 move, 1 vulnerability to be learnt of, and 2 requests of
  any kind, of which at most one is a review (of up to 2 containers) or a page:
  these write nothing, so one is enough; two posts may be of one policy
  (2,286,328 states). The model follows the system until the last review or page
  is answered, or without them the last post. It has one tag; that a path may match
  the tags of several registries is covered by the theorems only.
- `registry_listing`: 5 names, 3 changes: up to 5 pages, a name may come, go and
  come again. The theorems lift both bounds.
- `crawler_api`: 2 clients, one registry crawl and one cluster crawl, and one end
  of the process, by a signal or a crash, after which it runs again: crawls
  interact through the table only (198,393 states).

**Fairness.** The liveness properties assume what the Go scheduler provides: a
goroutine that can run does. They do not assume that a call to a registry, a
cluster, the database or Clair returns: the `http.Client` of the registry has no
`Timeout` (`registry.go:94-96`), `AuthRegistry` uses the default client
(`auth.go:66`, `84`), and nothing bounds the others' use. So `RegistryCrawl` and
`K8sCrawl` name the states in which a goroutine waits for such a call
(`MainCalls`, `CrawlCalls`, `WorkerCalls`), are weakly fair in the others only, and
`EveryGoroutineEnds` says that nothing but such a call, or the end of the process,
can keep the crawl from ending: no channel, semaphore or wait group does.
`Server` assumes that `serve` and the servers are scheduled, that the timer of a
`TimeoutHandler` fires and that clients poll; handlers and crawls may stay where
they are for ever, so `OutcomeIsSeen` begins where a crawl has written its
outcome. Nothing is assumed of the end of the process or of failures.
`RegistryClient` and `CrawlerApi` have no fairness, and `ImageScan`, `Inventory`,
`Admission` and `Pages` are checked for safety only.

Seen while modelling, and without a run of its own: a registry crawl that could
not list a repository ends with status `finished` and an error message
(`registry.go:104`), where `docs/README.md:589-590` gives such a crawl the status
`error`; `getImage` means to answer 404 for an id that does not exist and answers
500, since `GetImageByID` wraps the error it is compared with (`image.go:122`);
a challenge that `AuthRegistry` does not understand is a nil dereference
(`auth.go:77`), a crash in a crawl's worker; a review between `UpsertImage` and the
last `PostLayers`, or after a failed push, finds a row and no layers in Clair and
ends in a 500 (`routes.go:860`); the body of a response to a token request with
another status than 200 is never closed (`tokentransport.go:67`); of two crawls of a cluster at the same
time, one that is overtaken sets `last_seen` of a container back, and a row that
both found new may have a `first_seen` after its `last_seen` (`k8s.go:278-282`).

Deadlock is checked in all runs. Where the system may stop (every goroutine has
ended, all requests are answered) a model has a step that stutters. A registry
crawl whose request left out `MaxThreads` blocks for ever at its first image
(`Stuck`, `registry.go:74`), since the semaphore has no slots; K8s has a default.

## 4. The theorems

All hold for every value of the constants, under the assumptions named in the
modules. Every safety invariant and action property that a run checks is the
subject of a theorem; what TLC alone shows is listed at the end.

Each module follows one plan: an inductive invariant, first checked by TLC, a
lemma per conjunct of it that no step breaks it, the theorem that it is always
true (`Invariance`, or named after its module), and the properties as its
consequences. The property is seldom inductive itself; what had to be added is
the reason why the code is right, so it is told here.

**`RegistryCrawlProofs`**: any finite sets of repositories and tags, any
requests, any capacity of the channel. That scans are bounded depends on who
holds a slot, that a summary is complete on where every image that was sent is:

- `CountInv`: `wg` and `sem` are the numbers of workers that are awaited and that
  hold a slot, with the slots of an error envelope and of the image in hand;
- `ProducerInv`, `ChannelInv`: every image sent is in the channel, in the hand of
  the main loop or with a worker, in one of these places, once; an error is the
  last envelope, and nothing is sent after it;
- `EndInv`, `RowInv`: what holds once the loop has ended and the row was written;
- `SequentialInv`: with one thread `err` is the result of the one scan under way.

`TypeCorrect`, `Bounded`, `CompleteSummary`, `LastError` and `HarmlessErr` follow.
`Refinement` proves that the crawl implements `CrawlJob`: every step is one of
its steps or none.

**`K8sCrawlProofs`**: any namespaces, any listings (sequences of any length, and
another one each time a namespace is listed), any credentials, any finite set of containers. `ContainerAssumption` says of these what the
kubelet guarantees of the ids it reports: `docker-pullable://` only before a
repository digest, and no empty digest. The invariant:

- `CountInv`: `sem` and `wg` count the workers that hold a slot and that are
  awaited; the three counters of the summary add up to the workers past their
  check, whichever of them `err` sent where;
- `ListInv`: until a crawl gives up, what it has recorded and what it still has in
  hand is what was listed so far;
- `QueueInv`: a worker was started for each position that `removeDuplicates` kept
  and the loop has passed, and for nothing else. That every digest has a first
  position, and only one, is a lemma about `RemoveDuplicates`;
- `RowInv`, `CredentialInv`, `SequentialInv`.

From it `Bounded`, `SummariesAddUp`, `HandledOnce`, `ExactCount`, and `Refinement` of `CrawlJob`.

**`InventoryProofs`**: any clusters, namespaces, pods and statuses, any number of
crawls and of days. A crawl's own steps are easy; what has to be shown is that the
steps of the others do not undo them. The invariant:

- `RecordedInv`: a crawl that has not failed has a row of all it listed but what is
  pending, and if it began alone, none was last seen before its first day;
- `StampInv`: what a crawl is about to write is of its own list and days, except a
  `first_seen` that will not be written because there is a row by now;
- `AloneInv`: a crawl lists its own cluster, and the crawls of that cluster under way
  beside one that began alone began after it. So whatever they write into a row
  that it needs is of a day that is not before its first;
- `ShownWasListed` itself.

Without "began alone" the second half of `RecordedInv` is false: a crawl that began
a day earlier may have read the clock already. `CompleteInventory`,
`OnlyListedShown` and, as an action property, `FirstSeenKept`.

**`ImageScanProofs`**: any contents and layers, tags, schemas, any finite or
infinite set of scans. `Whole`, by which the properties except images, is not
stable: a torn scan that fails before it recorded anything forgets its digest,
and its image is whole again. The invariant speaks of `Sound` digests instead, of
which no scan that *recorded* them was torn; that can only cease to be so, and
each whole digest is sound. It says:

- `ScanInv`: what a scan holds where it is;
- `RecordInv`: the rows that are there are those that scans recorded;
- `PushInv`: what a scan has pushed, Clair has;
- `ClairInv`: a layer in Clair has its parent in Clair and a row in the table;
- `ContentInv`: of a sound digest, a layer in Clair has all those below it that
  its content has, in their order. This is the claim of the views, made for every
  layer instead of the top one.

From it `ViewIsWhole`, `ScannedServed`, `ParentThere` (torn or not),
`RecordedFirst` (nothing is in Clair without a row in the database, an invariant that
no run checks by itself, as `IInv` contains it) and, as an action property, `ServedForGood`.
`ServedIfTagsStay` turns to what `image_scan_torn` refutes: while no tag is moved
(`MaxMoves = 0`), and with no layer twice in an image, `ScannedIsAlwaysServed`
holds, since each scan holds the layers its tag stands for (`StillInv`). A tag that
moves during a scan is thus the only reason for that finding.

**`AdmissionProofs`**: beside the above, any policies, features, requests of any
number of containers. `ReviewKnows` says of a review under way that each
container it has passed refers to a row that is served, and has nothing that the
policy forbids by what was known when the review began (`Passed`); Clair's
knowledge only grows, `StaysServed` and the lemma that more knowledge never
clears a feature keep it true while the review goes on. What Clair merges for a
top layer (`Chain`, the least set of layers closed under parents) is exactly the
content's features if its layers are stacked. `WebhookIsClean`,
`WebhookIsScanned`.

**`PagesProofs`**: the same for the specification the run checks, with pages and
posts: `PagesInvariance`, `ReviewsAdmitClean`, `ReviewsAdmitScanned`, and
`PagesConsistent`, `CleanPages`, `PostsReadBack`, `PagesTypeCorrect`. For pages
`CallInv` says that the top layer in hand is that of a row of the digest asked
for, and `ViewsInv` that what is judged knows at least what was shown: the
handler shows first and judges then, and this order is all it rests on. TLC
has checked `PagesInv` on the instance of the run too; the run itself keeps its
type invariant, since the whole one makes it take several times as long.

**`ServerProofs`**: any finite set of requests to start a crawl, any number of
restarts. `IInv` of `CrawlerApi`:

- `IdInv`: the rows are those of the ids given, each id was given to one request,
  and no more ids were given than there are requests that have one or gave up
  (`Spent`): this count bounds both the table and what is abandoned in it;
- `CrawlInv`: a crawl has a row, and was started before its client could be told;
- `AnswerInv`: who was answered what where its handler is;
- `SeenInv`: what a client saw last is not ahead of the row.

`NoMoreAbandoned` counts: the ids given, less those that a request has, one
each, are at most the requests that gave up. `ServerInv` adds that the counter
of the stopper is the number of servers that have not returned (`GroupInv`) and
that a server that has returned left nothing pending (`AnsweredInv`).
`ServerImplementsApi`: each step of the process is one of the crawler API or
leaves it alone, so `CreatedWasStarted`, `NoMoreAbandoned` and, as an action
property, `PollsForward` are proved of the API and hold in `Server`.
`GracefulEnd`: when `serve` returns the counter is zero, so both servers have
ended, so nobody waits.

**`RegistryClientProofs`**: any finite set of names, any number of changes, pages
of any size. `IInv` says that the names up to the last page were listed once if
they were there throughout, and those after it not at all. `Invariance`,
`CompleteListing` and `ListedOnce`. `Progress`: four steps per name that is still
to come (`PagesLeft`), and those of a request that are left (`Phase`), are a
variant that every step of the client makes smaller.

**`AdmissionProofs`, of `PolicyRules`**: any policy and features. `NoViolations`:
`getViolations` finds nothing exactly if no rule is broken. `StricterAdmitsLess`,
`LearningNeverClears`, `DefaultFlagsEverything`.

**Model-checked only**: the liveness properties, `EveryGoroutineEnds` of both
crawls, `OutcomeIsSeen` and `SignalEndsProcess`: liveness under
fairness is beyond this prover. The refuted properties need no proof but TLC's
counterexample. No model uses a recursive operator, and where a proof would need
induction over a sequence it takes the least position with the property (`LeastElement`).

## 5. Not modelled

- `listImages` and `listPolicy`: reads for lists, by string matches, on which no
  other component depends; of `listContainers` only the dates.
- that the row a review judges is of the image the cluster pulls, if the path has no
  digest: `GetImageByRrt` matches the end of the registry (`image.go:90`), so the row
  of another registry may be found, and a tag may have moved. In `Admission` a path
  matches a set of tags, each of one registry; its properties say that whichever
  row is judged is of an image scanned to the end.
- `DeleteImage`, `DeletePolicy`, `DeleteManifest`, `PutManifest` and most calls of
  the Clair client: nothing calls them.
- `ParseImageTagPath`, `ParseAuthHeader`: parsing of strings, modelled by what they
  yield. Read and not checked: the greedy expressions of the first take `repo:tag` for
  the repository if a digest follows, and `localhost:5000/repo` for a tag
  (`k8s.go:360`); the second goes on at `i + i` after a backslash in a quoted
  parameter, and so skips or repeats what is around it (`authchallenge.go:133`).
- the transport of AuthRegistry's token exchange, which is one step; connections
  and their pools; TLS.
- metrics, logs, formatter, configuration, command line: input and output only.

## 6. The plan

Built in this order, the most important first: `CrawlJob` and `RegistryCrawl` with
proofs, `K8sCrawl`, `ImageScan`, `PolicyRules` with proofs, `Admission`,
`RegistryClient` with proofs, `CrawlerApi`, `Server`, `Pages`; then the proofs of
`ImageScan`, `Admission`, `Pages`, `K8sCrawl` and `Server`; then `Inventory` with
proofs. To do:

1. `CrawlJob`: what its specification alone implies (an outcome is final, a
   summary has the total it was given), so that it holds of both crawls by their
   `Refinement`.
2. `Inventory`: the days of a row of a crawl that did not begin alone, as far as
   they can be bounded.
