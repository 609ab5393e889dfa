----------------------------- MODULE ImageScan -----------------------------
(* Scanning one image, from the registry to Clair: docker.GetImage, then
   crawler.ScanImage and clair.Push, run by any number of goroutines at once
   (the workers of both crawls and the handlers of POST /v1/images), on the
   table image_pa they share and on Clair.

   One registry and one repository; an image is named by its tag.  The tag is
   read by up to four requests, and may be moved between any two of them.  Every
   call may fail, before or after it took effect, which also is all that the end
   of the process means to the images: a retry is another scan. *)
EXTENDS Integers, Sequences, FiniteSets

CONSTANTS
    Scan,           \* the scans
    Tag,            \* the tags of the repository
    Content,        \* what a tag may point to
    Schema,         \* the manifest schemas the registry gives digests of
    Blob,           \* the layers contents are made of
    LayersOf,       \* the layers of a content, the top one first, empty ones left out
    MaxMoves,       \* how often a tag is moved
    None,           \* no row, no layer
    Root            \* the parent of a base layer: the empty string

\* A content has a digest per manifest schema.
Digest == Content \X Schema

\* What Clair knows a layer by: the MD5 of an image digest and a layer digest,
\* taken to be injective.
Name == Digest \X Blob

ASSUME LayersAssumption == LayersOf \in [Content -> Seq(Blob)]

ASSUME NoneAssumption ==
    /\ None \notin Name \cup Digest \cup Tag \cup [top : Name, lastSeen : Nat]
    /\ Root \notin Name \cup {None}

ASSUME SchemaAssumption == Schema \subseteq {"v1", "v2"}

ASSUME MaxMovesAssumption == MaxMoves \in Nat

VARIABLES
    tagged,     \* the content each tag of the registry points to
    moves,      \* how often a tag was moved
    rows,       \* table image_pa: by tag and digest, the top layer and last_seen
    clair,      \* the parent of each layer Clair has
    clock,      \* time.Now()
    pc,         \* where each scan is
    tag,        \* the tag it scans
    digest,     \* image.Digest
    layers,     \* image.Layers
    now,        \* dbImage.LastSeen
    left        \* how many layers are left to push

scanVars == <<pc, tag, digest, layers, now, left>>
vars == <<tagged, moves, rows, clair, clock, scanVars>>

Image == Tag \X Digest
Row == [top : Name, lastSeen : Nat]

TypeOK ==
    /\ tagged \in [Tag -> Content]
    /\ moves \in 0..MaxMoves
    /\ rows \in [Image -> Row \cup {None}]
    /\ clair \in [Name -> Name \cup {None, Root}]
    /\ clock \in Nat
    /\ pc \in [Scan -> {"idle", "digest", "v2", "v1", "lookup", "upsert", "reread", "push",
                        "scanned", "failed"}]
    /\ tag \in [Scan -> Tag \cup {None}]
    /\ digest \in [Scan -> Digest \cup {None}]
    /\ layers \in [Scan -> Seq(Blob)]
    /\ now \in [Scan -> Nat]
    /\ left \in [Scan -> Nat]
    /\ \A s \in Scan : left[s] <= Len(layers[s])

Init ==
    /\ tagged \in [Tag -> Content]
    /\ moves = 0
    /\ rows = [i \in Image |-> None]
    /\ clair = [n \in Name |-> None]
    /\ clock = 0
    /\ pc = [s \in Scan |-> "idle"]
    /\ tag = [s \in Scan |-> None]
    /\ digest = [s \in Scan |-> None]
    /\ layers = [s \in Scan |-> <<>>]
    /\ now = [s \in Scan |-> 0]
    /\ left = [s \in Scan |-> 0]

\* The row of the image a scan is at.
Key(s) == <<tag[s], digest[s]>>

Goto(s, label) == pc' = [pc EXCEPT ![s] = label]

-----------------------------------------------------------------------------
(* The registry, the database and Clair. *)

\* Somebody pushes another content under a tag.
Retag ==
    /\ moves < MaxMoves
    /\ moves' = moves + 1
    /\ \E t \in Tag : \E c \in Content \ {tagged[t]} : tagged' = [tagged EXCEPT ![t] = c]
    /\ UNCHANGED <<rows, clair, clock, scanVars>>

\* MUTANT of Upsert: a known image is given the top layer of the new scan.
UpsertTop(image, top, seen) ==
    rows' = [rows EXCEPT ![image] = [top |-> top, lastSeen |-> seen]]

\* UpsertImage: a new row, or last_seen of the row there is.
Upsert(image, top, seen) ==
    rows' = [rows EXCEPT ![image] =
                IF @ = None THEN [top |-> top, lastSeen |-> seen]
                ELSE [@ EXCEPT !.lastSeen = seen]]

\* Clair refuses a layer whose parent it does not have, and leaves a layer it
\* has as it is.
ClairAccepts(parent) == parent # Root => clair[parent] # None

ClairStores(name, parent) ==
    clair' = IF clair[name] = None THEN [clair EXCEPT ![name] = parent] ELSE clair

\* PostLayers is answered 201; or it fails, after Clair stored the layer or
\* without that.
PostLayers(name, parent, ok) ==
    \/ ClairAccepts(parent) /\ ClairStores(name, parent)
    \/ ~ok /\ UNCHANGED clair

\* The digests that HEAD requests for the manifest of a tag may be answered with.
ManifestDigest(t) == {<<tagged[t], schema>> : schema \in Schema}

-----------------------------------------------------------------------------
(* docker.GetImage *)

Begin(s) ==
    /\ pc[s] = "idle"
    /\ \E t \in Tag : tag' = [tag EXCEPT ![s] = t]
    /\ Goto(s, "digest")
    /\ UNCHANGED <<tagged, moves, rows, clair, clock, digest, layers, now, left>>

\* A scan fails that has recorded nothing, and nothing is left of it.
Forget(s) ==
    /\ Goto(s, "failed")
    /\ tag' = [tag EXCEPT ![s] = None]
    /\ digest' = [digest EXCEPT ![s] = None]
    /\ layers' = [layers EXCEPT ![s] = <<>>]
    /\ now' = [now EXCEPT ![s] = 0]

\* Any of the calls before Push fails: before the image is recorded or after.
Fail(s) ==
    /\ \/ pc[s] \in {"digest", "lookup", "upsert"} /\ Forget(s)
       \/ pc[s] = "reread" /\ Goto(s, "failed") /\ UNCHANGED <<tag, digest, layers, now>>
    /\ UNCHANGED <<tagged, moves, rows, clair, clock, left>>

\* The digest of the tag's schema 2 manifest, or else of its schema 1 manifest.
GetDigest(s) ==
    /\ pc[s] = "digest"
    /\ \E d \in ManifestDigest(tag[s]) : digest' = [digest EXCEPT ![s] = d]
    /\ Goto(s, "v2")
    /\ UNCHANGED <<tagged, moves, rows, clair, clock, tag, layers, now, left>>

\* A manifest of the tag is fetched and its layers are taken, or that fails.
Manifest(s) == layers' \in {layers, [layers EXCEPT ![s] = LayersOf[tagged[tag[s]]]]}

\* The layers by the schema 2 manifest of the tag, if it can be fetched.
GetManifestV2(s) ==
    /\ pc[s] = "v2"
    /\ Manifest(s)
    /\ Goto(s, "v1")
    /\ UNCHANGED <<tagged, moves, rows, clair, clock, tag, digest, now, left>>

\* The schema 1 manifest of the tag is fetched in any case, and used if there
\* are no layers yet.
GetManifestV1(s) ==
    /\ pc[s] = "v1"
    /\ \/ layers[s] = <<>> /\ Manifest(s)
       \/ layers[s] # <<>> /\ UNCHANGED layers
    /\ layers'[s] # <<>>
    /\ Goto(s, "lookup")
    /\ UNCHANGED <<tagged, moves, rows, clair, clock, tag, digest, now, left>>

\* Without layers GetImage fails.
NoManifest(s) ==
    /\ pc[s] = "v1"
    /\ layers[s] = <<>>
    /\ Forget(s)
    /\ UNCHANGED <<tagged, moves, rows, clair, clock, left>>

-----------------------------------------------------------------------------
(* crawler.ScanImage and clair.Push *)

\* MUTANT of LayerName: a layer is known by its own digest, whatever image it
\* was found in.
LayerNameShared(d, blob) == <<CHOOSE e \in Digest : TRUE, blob>>

LayerName(d, blob) == <<d, blob>>

\* MUTANT of TopLayer: the base layer is taken for the top one.
TopLayerBase(s) == LayerName(digest[s], layers[s][Len(layers[s])])

TopLayer(s) == LayerName(digest[s], layers[s][1])

\* db.GetImage, which finds the image or not; it is seen now.
Lookup(s) ==
    /\ pc[s] = "lookup"
    /\ clock' = clock + 1
    /\ now' = [now EXCEPT ![s] = clock + 1]
    /\ Goto(s, "upsert")
    /\ UNCHANGED <<tagged, moves, rows, clair, tag, digest, layers, left>>

\* The image is recorded before anything of it is in Clair.
UpsertImage(s) ==
    /\ pc[s] = "upsert"
    /\ Upsert(Key(s), TopLayer(s), now[s])
    /\ pc' \in {[pc EXCEPT ![s] = "reread"], [pc EXCEPT ![s] = "failed"]}
    /\ UNCHANGED <<tagged, moves, clair, clock, tag, digest, layers, now, left>>

\* MUTANT of Reread: the loop over the layers starts at their number.
RereadPastTheEnd(s) ==
    /\ pc[s] = "reread"
    /\ left' = [left EXCEPT ![s] = Len(layers[s]) + 1]
    /\ Goto(s, "push")
    /\ UNCHANGED <<tagged, moves, rows, clair, clock, tag, digest, layers, now>>

\* db.GetImage again, for the row to return.
Reread(s) ==
    /\ pc[s] = "reread"
    /\ left' = [left EXCEPT ![s] = Len(layers[s])]
    /\ Goto(s, "push")
    /\ UNCHANGED <<tagged, moves, rows, clair, clock, tag, digest, layers, now>>

\* The layer to push, and its parent, the layer pushed before it.
NextLayer(s) == LayerName(digest[s], layers[s][left[s]])
NextParent(s) ==
    IF left[s] = Len(layers[s]) THEN Root ELSE LayerName(digest[s], layers[s][left[s] + 1])

\* MUTANT of Push: a layer that cannot be pushed is skipped.
PushSkips(s) ==
    /\ pc[s] = "push"
    /\ PostLayers(NextLayer(s), NextParent(s), FALSE)
    /\ left' = [left EXCEPT ![s] = @ - 1]
    /\ Goto(s, IF left[s] = 1 THEN "scanned" ELSE "push")
    /\ UNCHANGED <<tagged, moves, rows, clock, tag, digest, layers, now>>

\* MUTANT of Push: the loop ends before the top layer.
PushStopsEarly(s) ==
    /\ pc[s] = "push"
    /\ PostLayers(NextLayer(s), NextParent(s), TRUE)
    /\ left' = [left EXCEPT ![s] = @ - 1]
    /\ Goto(s, IF left[s] <= 2 THEN "scanned" ELSE "push")
    /\ UNCHANGED <<tagged, moves, rows, clock, tag, digest, layers, now>>

\* The next layer from the bottom is posted to Clair; a failure ends the scan.
Push(s) ==
    /\ pc[s] = "push"
    /\ \/ /\ PostLayers(NextLayer(s), NextParent(s), TRUE)
          /\ left' = [left EXCEPT ![s] = @ - 1]
          /\ Goto(s, IF left[s] = 1 THEN "scanned" ELSE "push")
       \/ /\ PostLayers(NextLayer(s), NextParent(s), FALSE)
          /\ Goto(s, "failed")
          /\ UNCHANGED left
    /\ UNCHANGED <<tagged, moves, rows, clock, tag, digest, layers, now>>

ScanStep(s) ==
    \/ Begin(s) \/ Fail(s) \/ GetDigest(s) \/ GetManifestV2(s) \/ GetManifestV1(s)
    \/ NoManifest(s) \/ Lookup(s) \/ UpsertImage(s) \/ Reread(s) \/ Push(s)

-----------------------------------------------------------------------------
Ended ==
    /\ \A s \in Scan : pc[s] \in {"scanned", "failed"}
    /\ UNCHANGED vars

Next == Retag \/ (\E s \in Scan : ScanStep(s)) \/ Ended

Spec == Init /\ [][Next]_vars

-----------------------------------------------------------------------------
(* Properties. *)

\* The layers of the content a digest stands for.
LayersOfDigest(d) == LayersOf[d[1]]

\* A scan is torn if the tag was moved between its requests, so that it has the
\* digest of one content and the layers of another.
Torn(s) == layers[s] # <<>> /\ layers[s] # LayersOfDigest(digest[s])

\* No layer occurs twice in the content of a digest.  (A layer that occurs twice
\* has one name, hence one parent, in Clair.)
Distinct(d) ==
    \A j, k \in 1..Len(LayersOfDigest(d)) :
        LayersOfDigest(d)[j] = LayersOfDigest(d)[k] => j = k

\* Besides, no scan of the digest was torn.
Whole(d) == Distinct(d) /\ \A s \in Scan : digest[s] = d => ~Torn(s)

\* Clair has, from layer k of a digest downwards, the layers of its content,
\* each on the one below it.
Stacked(d, k) ==
    LET content == LayersOfDigest(d)
    IN  \A j \in k..Len(content) :
            clair[LayerName(d, content[j])] =
                IF j = Len(content) THEN Root ELSE LayerName(d, content[j + 1])

\* The merged view Clair gives of a row is that of the content of its digest.
Served(i) ==
    /\ rows[i] # None
    /\ rows[i].top = LayerName(i[2], LayersOfDigest(i[2])[1])
    /\ Stacked(i[2], 1)

\* Clair never shows a part of an image: whichever scans of it failed, ran at
\* the same time or were tried again, when Clair answers for the top layer of a
\* row then the view holds all the layers of the image, in their order.
ViewIsNeverPartial ==
    \A i \in Image :
        rows[i] # None /\ Whole(i[2]) /\ clair[rows[i].top] # None => Served(i)

\* A scan that succeeded leaves its image served.
ScannedIsServed ==
    \A s \in Scan : pc[s] = "scanned" /\ Whole(digest[s]) => Served(Key(s))

\* A scan never posts a layer that Clair must refuse: the parent it names is in
\* Clair, torn or not.
ParentIsThere == \A s \in Scan : pc[s] = "push" => ClairAccepts(NextParent(s))

\* Every layer in Clair belongs to an image that has a row: there is nothing in
\* Clair that Port Authority does not know of.
ClairIsRecorded ==
    \A n \in Name : clair[n] # None => \E t \in Tag : rows[<<t, n[1]>>] # None

\* What has been served once is served from then on, whatever is scanned later.
StaysServed ==
    [][\A i \in Image : Served(i) => Served(i)']_vars

-----------------------------------------------------------------------------
(* The inductive invariant. *)

\* A scan that wrote the row of its image, whether it goes on or failed since.
Recorded(s) == pc[s] \in {"reread", "push", "scanned", "failed"} /\ digest[s] # None

\* No layer of a digest occurs twice, and no scan that recorded it was torn.
\* Unlike Whole this cannot become true again once it is not.
Sound(d) == Distinct(d) /\ \A s \in Scan : Recorded(s) /\ digest[s] = d => ~Torn(s)

\* What a scan knows where it is.
ScanInv ==
    \A s \in Scan :
        /\ pc[s] = "idle" => digest[s] = None
        /\ pc[s] = "digest" => tag[s] \in Tag /\ digest[s] = None
        /\ pc[s] \in {"v2", "v1"} => tag[s] \in Tag /\ digest[s] \in Digest
        /\ pc[s] \in {"lookup", "upsert", "reread", "push", "scanned"} =>
            tag[s] \in Tag /\ digest[s] \in Digest /\ layers[s] # <<>>
        /\ pc[s] = "push" => left[s] > 0
        /\ pc[s] \notin {"push", "failed"} => left[s] = 0

\* The rows that are there are those of the images that scans recorded.
RecordInv ==
    /\ \A s \in Scan : Recorded(s) =>
        tag[s] \in Tag /\ layers[s] # <<>> /\ rows[Key(s)] # None
    /\ \A i \in Image : rows[i] # None => \E s \in Scan : Recorded(s) /\ Key(s) = i

\* The layers that a scan pushed are in Clair.
PushInv ==
    \A s \in Scan : pc[s] \in {"push", "scanned"} =>
        \A j \in 1..Len(layers[s]) :
            j > left[s] => clair[LayerName(digest[s], layers[s][j])] # None

\* The parent of a layer in Clair is there too, and somebody recorded its image.
ClairInv ==
    /\ \A n \in Name : clair[n] \in Name => clair[clair[n]] # None
    /\ ClairIsRecorded

\* Of a sound digest, rows have the top layer, and Clair has a layer only with
\* all that belong below it.
ContentInv ==
    \A d \in Digest : Sound(d) =>
        /\ \A t \in Tag : rows[<<t, d>>] # None =>
            rows[<<t, d>>].top = LayerName(d, LayersOfDigest(d)[1])
        /\ \A k \in 1..Len(LayersOfDigest(d)) :
            clair[LayerName(d, LayersOfDigest(d)[k])] # None => Stacked(d, k)

IInv == TypeOK /\ ScanInv /\ RecordInv /\ PushInv /\ ClairInv /\ ContentInv

-----------------------------------------------------------------------------
(* What comments of the code say, and is not so. *)

\* REFUTED.  image.go:80 says that GetImageRrt gives "the last image seen" under
\* a tag.  A scan that was overtaken between its time.Now() and its upsert moves
\* last_seen backwards: an image seen before a scan that succeeded can then come
\* before the image of that scan.
LastSeenIsLast ==
    \A s \in Scan : pc[s] = "scanned" =>
        \A i \in Image :
            /\ i[1] = tag[s]
            /\ rows[i] # None
            /\ rows[i].lastSeen > rows[Key(s)].lastSeen
            => rows[i].lastSeen > now[s]

\* REFUTED.  routes.go:859 takes "the TopLayer of the Image stored in PA" for
\* "the merged view of the features and vulns" of the image.  Digest and layers
\* come from different requests by tag: after a torn scan the row describes
\* another content under the digest, and no later scan corrects it.
ScannedIsAlwaysServed ==
    \A s \in Scan : pc[s] = "scanned" => Served(Key(s))
=============================================================================
