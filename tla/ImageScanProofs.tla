-------------------------- MODULE ImageScanProofs --------------------------
(* Proofs about ImageScan for any number of scans, tags, contents and layers:
   the inductive invariant IInv, and from it the safety properties that the runs
   check. *)
EXTENDS ImageScan, SequenceTheorems, TLAPS

(* ------------------------------------------------------------------------ *)
(* What no step takes back. *)

\* The layers of a digest are a sequence of blobs, and so each has a name.
LEMMA ContentType ==
    ASSUME NEW d \in Digest
    PROVE  /\ LayersOfDigest(d) \in Seq(Blob)
           /\ Len(LayersOfDigest(d)) \in Nat
           /\ \A k \in 1..Len(LayersOfDigest(d)) :
                LayerName(d, LayersOfDigest(d)[k]) \in Name
<1>1. LayersOfDigest(d) \in Seq(Blob)
  BY LayersAssumption DEF LayersOfDigest, Digest
<1>2. Len(LayersOfDigest(d)) \in Nat
  BY <1>1, LenProperties
<1>3. \A k \in 1..Len(LayersOfDigest(d)) : LayersOfDigest(d)[k] \in Blob
  BY <1>1, ElementOfSeq
<1>4. QED
  BY <1>1, <1>2, <1>3 DEF LayerName, Name

\* The names of layers are told apart by the digest and by the layer.
LEMMA NamesDiffer ==
    ASSUME NEW d, NEW e, NEW a, NEW b, LayerName(d, a) = LayerName(e, b)
    PROVE  d = e /\ a = b
BY DEF LayerName

\* A scan that is about to record its image has a name for its top layer.
LEMMA TopLayerType ==
    ASSUME TypeOK, ScanInv, NEW s \in Scan, pc[s] = "upsert"
    PROVE  TopLayer(s) \in Name /\ Key(s) \in Image
<1>1. tag[s] \in Tag /\ digest[s] \in Digest /\ layers[s] # <<>> /\ layers[s] \in Seq(Blob)
  BY DEF TypeOK, ScanInv
<1>2. layers[s][1] \in Blob
  BY <1>1, HeadTailProperties, ElementOfSeq, EmptySeq, LenProperties
<1>3. QED
  BY <1>1, <1>2 DEF TopLayer, LayerName, Name, Key, Image

\* A row is never removed and keeps its top layer.
LEMMA RowsStay ==
    ASSUME TypeOK, ScanInv, [Next]_vars, NEW i \in Image, rows[i] # None
    PROVE  rows'[i] # None /\ rows'[i].top = rows[i].top
<1> USE DEF TypeOK, scanVars
<1>0. None \notin Row
  BY NoneAssumption DEF Row
<1>1. ASSUME NEW s \in Scan, UpsertImage(s) PROVE rows'[i] # None /\ rows'[i].top = rows[i].top
  <2>1. rows[i] \in Row /\ now[s] \in Nat
    BY DEF Image
  <2>2. CASE i = Key(s)
    <3>1. rows'[i] = [rows[i] EXCEPT !.lastSeen = now[s]]
      BY <1>1, <2>2 DEF UpsertImage, Upsert
    <3>2. rows'[i] \in Row /\ rows'[i].top = rows[i].top
      BY <2>1, <3>1 DEF Row
    <3>3. QED
      BY <1>0, <3>2
  <2>3. CASE i # Key(s)
    BY <1>1, <2>3 DEF UpsertImage, Upsert
  <2>4. QED
    BY <2>2, <2>3
<1>2. ASSUME NEW s \in Scan, ScanStep(s), ~UpsertImage(s) PROVE rows' = rows
  BY <1>2 DEF ScanStep, Begin, Fail, GetDigest, GetManifestV2, GetManifestV1, NoManifest,
       Lookup, Reread, Push
<1>3. CASE Retag \/ Ended \/ UNCHANGED vars
  BY <1>3 DEF Retag, Ended, vars
<1>4. QED
  BY <1>1, <1>2, <1>3 DEF Next

\* A layer is never removed from Clair and keeps its parent.
LEMMA ClairStays ==
    ASSUME TypeOK, [Next]_vars, NEW n \in Name, clair[n] # None
    PROVE  clair'[n] = clair[n]
<1> USE DEF TypeOK, scanVars
<1>1. ASSUME NEW s \in Scan, Push(s) PROVE clair'[n] = clair[n]
  BY <1>1 DEF Push, PostLayers, ClairStores
<1>2. ASSUME NEW s \in Scan, ScanStep(s), ~Push(s) PROVE clair' = clair
  BY <1>2 DEF ScanStep, Begin, Fail, GetDigest, GetManifestV2, GetManifestV1, NoManifest,
       Lookup, Reread, UpsertImage
<1>3. CASE Retag \/ Ended \/ UNCHANGED vars
  BY <1>3 DEF Retag, Ended, vars
<1>4. QED
  BY <1>1, <1>2, <1>3 DEF Next

\* A scan that recorded its image keeps what it recorded.
LEMMA RecordedStays ==
    ASSUME TypeOK, [Next]_vars, NEW s \in Scan, Recorded(s)
    PROVE  Recorded(s)' /\ tag'[s] = tag[s] /\ digest'[s] = digest[s] /\ layers'[s] = layers[s]
<1> USE DEF TypeOK, Recorded, scanVars, Goto
<1>1. ASSUME NEW r \in Scan, Begin(r) \/ GetDigest(r) \/ GetManifestV2(r) \/ GetManifestV1(r)
               \/ NoManifest(r)
      PROVE  Recorded(s)' /\ tag'[s] = tag[s] /\ digest'[s] = digest[s] /\ layers'[s] = layers[s]
  BY <1>1 DEF Begin, GetDigest, GetManifestV2, GetManifestV1, NoManifest, Forget, Manifest
<1>2. ASSUME NEW r \in Scan, Fail(r) \/ Lookup(r) \/ UpsertImage(r) \/ Reread(r) \/ Push(r)
      PROVE  Recorded(s)' /\ tag'[s] = tag[s] /\ digest'[s] = digest[s] /\ layers'[s] = layers[s]
  BY <1>2 DEF Fail, Forget, Lookup, UpsertImage, Reread, Push
<1>3. CASE Retag \/ Ended \/ UNCHANGED vars
  BY <1>3 DEF Retag, Ended, vars
<1>4. QED
  BY <1>1, <1>2, <1>3 DEF Next, ScanStep

\* Hence a digest does not become sound.
LEMMA SoundBefore ==
    ASSUME TypeOK, [Next]_vars, NEW d \in Digest, Sound(d)'
    PROVE  Sound(d)
BY RecordedStays DEF Sound, Distinct, Torn, LayersOfDigest

\* Nor does a digest lose what Clair has of it.
LEMMA StackedStays ==
    ASSUME TypeOK, [Next]_vars, NEW d \in Digest, NEW k \in Nat, k >= 1, Stacked(d, k)
    PROVE  Stacked(d, k)'
<1> DEFINE content == LayersOfDigest(d)
<1> SUFFICES ASSUME NEW j \in k..Len(content)
             PROVE  clair'[LayerName(d, content[j])] =
                      IF j = Len(content) THEN Root ELSE LayerName(d, content[j + 1])
  BY DEF Stacked, LayersOfDigest, LayerName
<1>1. Len(content) \in Nat /\ j \in 1..Len(content)
  BY ContentType
<1>2. clair[LayerName(d, content[j])] =
        IF j = Len(content) THEN Root ELSE LayerName(d, content[j + 1])
  BY DEF Stacked
<1>3. LayerName(d, content[j]) \in Name
  BY <1>1, ContentType
<1>4. clair[LayerName(d, content[j])] # None
  <2>1. j # Len(content) => LayerName(d, content[j + 1]) \in Name
    BY <1>1, ContentType
  <2>2. QED
    BY <1>2, <2>1, NoneAssumption
<1>5. QED
  BY <1>2, <1>3, <1>4, ClairStays

(* ------------------------------------------------------------------------ *)
(* The inductive invariant. *)

LEMMA InitInv == Init => IInv
<1> SUFFICES ASSUME Init PROVE IInv
  OBVIOUS
<1> USE DEF Init
<1>1. TypeOK
  BY MaxMovesAssumption, EmptySeq, LenProperties DEF TypeOK
<1>2. ScanInv /\ RecordInv /\ PushInv
  BY DEF ScanInv, RecordInv, PushInv, Recorded
<1>3. \A n \in Name : clair[n] = None
  OBVIOUS
<1>4. ClairInv
  BY <1>3, NoneAssumption DEF ClairInv, ClairIsRecorded
<1>5. ContentInv
  BY <1>3, ContentType DEF ContentInv, Image
<1>6. QED
  BY <1>1, <1>2, <1>4, <1>5 DEF IInv

\* What a scan that pushes is at has a name, and so has the parent of that.
LEMMA PushType ==
    ASSUME TypeOK, ScanInv, NEW s \in Scan, pc[s] = "push"
    PROVE  /\ tag[s] \in Tag /\ digest[s] \in Digest
           /\ left[s] \in 1..Len(layers[s])
           /\ NextLayer(s) \in Name
           /\ NextParent(s) \in Name \cup {Root}
<1>1. tag[s] \in Tag /\ digest[s] \in Digest /\ layers[s] \in Seq(Blob)
  BY DEF TypeOK, ScanInv
<1>2. left[s] \in Nat /\ left[s] > 0 /\ left[s] <= Len(layers[s]) /\ Len(layers[s]) \in Nat
  BY <1>1, LenProperties DEF TypeOK, ScanInv
<1>3. \A k \in 1..Len(layers[s]) : LayerName(digest[s], layers[s][k]) \in Name
  BY <1>1, ElementOfSeq DEF LayerName, Name
<1>4. QED
  BY <1>1, <1>2, <1>3 DEF NextLayer, NextParent

LEMMA TypeStep == IInv /\ [Next]_vars => TypeOK'
<1> SUFFICES ASSUME IInv, [Next]_vars PROVE TypeOK'
  OBVIOUS
<1> USE DEF IInv, TypeOK, scanVars, Goto
<1>1. CASE Retag
  BY <1>1, MaxMovesAssumption DEF Retag
<1>2. ASSUME NEW s \in Scan, Begin(s) \/ Lookup(s) PROVE TypeOK'
  <2>1. pc' \in [Scan -> {"idle", "digest", "v2", "v1", "lookup", "upsert", "reread", "push",
                          "scanned", "failed"}]
    BY <1>2 DEF Begin, Lookup
  <2>2. CASE Begin(s)
    BY <2>1, <2>2 DEF Begin
  <2>3. CASE Lookup(s)
    BY <2>1, <2>3 DEF Lookup
  <2>4. QED
    BY <1>2, <2>2, <2>3
<1>3. ASSUME NEW s \in Scan, Fail(s) \/ NoManifest(s) PROVE TypeOK'
  <2>1. CASE Forget(s) /\ pc[s] \in {"digest", "lookup", "upsert", "v1"}
    <3>1. left[s] = 0
      BY <2>1 DEF ScanInv
    <3>2. layers' \in [Scan -> Seq(Blob)] /\ (\A r \in Scan : left[r] <= Len(layers'[r]))
      BY <2>1, <3>1, EmptySeq, LenProperties DEF Forget
    <3>3. QED
      BY <1>3, <2>1, <3>2 DEF Fail, NoManifest, Forget
  <2>2. CASE UNCHANGED <<tag, digest, layers, now>>
    BY <1>3, <2>2 DEF Fail, NoManifest, Forget
  <2>3. QED
    BY <1>3, <2>1, <2>2 DEF Fail, NoManifest
<1>4. ASSUME NEW s \in Scan, GetDigest(s) PROVE TypeOK'
  <2>1. tagged[tag[s]] \in Content
    BY <1>4 DEF GetDigest, ScanInv
  <2>2. ManifestDigest(tag[s]) \subseteq Digest
    BY <2>1 DEF ManifestDigest, Digest
  <2>3. QED
    BY <1>4, <2>2 DEF GetDigest
<1>5. ASSUME NEW s \in Scan, GetManifestV2(s) \/ GetManifestV1(s) PROVE TypeOK'
  <2>1. tag[s] \in Tag /\ left[s] = 0
    BY <1>5 DEF GetManifestV2, GetManifestV1, ScanInv
  <2>2. LayersOf[tagged[tag[s]]] \in Seq(Blob)
    BY <2>1, LayersAssumption
  <2>3. \/ layers' = layers
        \/ layers' = [layers EXCEPT ![s] = LayersOf[tagged[tag[s]]]]
    BY <1>5 DEF GetManifestV2, GetManifestV1, Manifest
  <2>4. layers' \in [Scan -> Seq(Blob)]
    BY <2>2, <2>3
  <2>5. \A r \in Scan : left[r] <= Len(layers'[r])
    <3>1. \A r \in Scan : Len(layers'[r]) \in Nat /\ (r # s => layers'[r] = layers[r])
      BY <2>3, <2>4, LenProperties
    <3>2. left \in [Scan -> Nat] /\ (\A r \in Scan : left[r] <= Len(layers[r]))
      OBVIOUS
    <3> HIDE DEF IInv, TypeOK
    <3>3. QED
      BY <2>1, <3>1, <3>2
  <2>6. QED
    BY <1>5, <2>4, <2>5 DEF GetManifestV2, GetManifestV1
<1>6. ASSUME NEW s \in Scan, UpsertImage(s) PROVE TypeOK'
  <2>1. TopLayer(s) \in Name /\ Key(s) \in Image /\ now[s] \in Nat
    BY <1>6, TopLayerType DEF UpsertImage
  <2>2. rows[Key(s)] # None => [rows[Key(s)] EXCEPT !.lastSeen = now[s]] \in Row
    BY <2>1 DEF Row
  <2>3. rows' \in [Image -> Row \cup {None}]
    BY <1>6, <2>1, <2>2 DEF UpsertImage, Upsert, Row
  <2>4. QED
    BY <1>6, <2>3 DEF UpsertImage
<1>7. ASSUME NEW s \in Scan, Reread(s) PROVE TypeOK'
  BY <1>7, LenProperties DEF Reread
<1>8. ASSUME NEW s \in Scan, Push(s) PROVE TypeOK'
  <2>1. left[s] \in 1..Len(layers[s]) /\ NextLayer(s) \in Name
        /\ NextParent(s) \in Name \cup {Root} /\ Len(layers[s]) \in Nat
    BY <1>8, PushType, LenProperties DEF Push
  <2>2. clair' \in [Name -> Name \cup {None, Root}]
    <3>1. PICK n \in Name, q \in Name \cup {Root} : clair' = clair \/ ClairStores(n, q)
      BY <1>8, <2>1 DEF Push, PostLayers
    <3>2. clair \in [Name -> Name \cup {None, Root}]
      OBVIOUS
    <3> HIDE DEF IInv, TypeOK
    <3>3. QED
      BY <3>1, <3>2 DEF ClairStores
  <2>3. layers' = layers /\ left' \in [Scan -> Nat] /\ (\A r \in Scan : left'[r] <= left[r])
    <3>1. layers' = layers /\ (left' = left \/ left' = [left EXCEPT ![s] = left[s] - 1])
      BY <1>8 DEF Push
    <3>2. left[s] - 1 \in Nat /\ left[s] - 1 <= left[s] /\ left \in [Scan -> Nat]
      BY <2>1
    <3> HIDE DEF IInv, TypeOK
    <3>3. QED
      BY <3>1, <3>2
  <2>4. \A r \in Scan : left'[r] <= Len(layers[r])
    BY <2>3, LenProperties
  <2>5. pc' \in [Scan -> {"idle", "digest", "v2", "v1", "lookup", "upsert", "reread", "push",
                          "scanned", "failed"}]
    BY <1>8 DEF Push
  <2>6. QED
    BY <1>8, <2>2, <2>3, <2>4, <2>5 DEF Push
<1>9. CASE Ended \/ UNCHANGED vars
  BY <1>9 DEF Ended, vars
<1>10. QED
  BY <1>1, <1>2, <1>3, <1>4, <1>5, <1>6, <1>7, <1>8, <1>9 DEF Next, ScanStep

LEMMA ScanStepInv == IInv /\ [Next]_vars => ScanInv'
<1> SUFFICES ASSUME IInv, [Next]_vars PROVE ScanInv'
  OBVIOUS
<1> USE DEF IInv, TypeOK, ScanInv, scanVars, Goto
<1>1. CASE Retag \/ Ended \/ UNCHANGED vars
  BY <1>1 DEF Retag, Ended, vars
<1>2. ASSUME NEW s \in Scan, Begin(s) \/ Fail(s) \/ NoManifest(s) PROVE ScanInv'
  BY <1>2 DEF Begin, Fail, NoManifest, Forget
<1>3. ASSUME NEW s \in Scan, GetDigest(s) PROVE ScanInv'
  <2>1. digest'[s] \in Digest
    BY <1>3 DEF GetDigest, ManifestDigest, Digest
  <2>2. QED
    BY <1>3, <2>1 DEF GetDigest
<1>4. ASSUME NEW s \in Scan, GetManifestV2(s) \/ GetManifestV1(s) PROVE ScanInv'
  <2>1. \A r \in Scan \ {s} : layers'[r] = layers[r]
    BY <1>4 DEF GetManifestV2, GetManifestV1, Manifest
  <2>2. QED
    BY <1>4, <2>1 DEF GetManifestV2, GetManifestV1
<1>5. ASSUME NEW s \in Scan, Lookup(s) \/ UpsertImage(s) PROVE ScanInv'
  BY <1>5 DEF Lookup, UpsertImage
<1>6. ASSUME NEW s \in Scan, Reread(s) PROVE ScanInv'
  <2>1. Len(layers[s]) \in Nat /\ Len(layers[s]) > 0
    BY <1>6, LenProperties, EmptySeq DEF Reread
  <2>2. QED
    BY <1>6, <2>1 DEF Reread
<1>7. ASSUME NEW s \in Scan, Push(s) PROVE ScanInv'
  <2>1. pc[s] = "push" /\ left[s] \in Nat /\ left[s] > 0
    BY <1>7 DEF Push
  <2>2. /\ UNCHANGED <<tag, digest, layers>>
        /\ \/ /\ left' = [left EXCEPT ![s] = left[s] - 1]
              /\ pc' = [pc EXCEPT ![s] = IF left[s] = 1 THEN "scanned" ELSE "push"]
           \/ left' = left /\ pc' = [pc EXCEPT ![s] = "failed"]
    BY <1>7 DEF Push
  <2>3. ScanInv /\ left \in [Scan -> Nat] /\ DOMAIN pc = Scan
    OBVIOUS
  <2> HIDE DEF IInv, TypeOK
  <2>4. \A r \in Scan : r # s => pc'[r] = pc[r] /\ left'[r] = left[r]
    BY <2>2, <2>3
  <2>5. \/ left'[s] = left[s] - 1 /\ pc'[s] = (IF left[s] = 1 THEN "scanned" ELSE "push")
        \/ pc'[s] = "failed"
    BY <2>2, <2>3
  <2>6. QED
    BY <2>1, <2>2, <2>3, <2>4, <2>5
<1>8. QED
  BY <1>1, <1>2, <1>3, <1>4, <1>5, <1>6, <1>7 DEF Next, ScanStep

\* A scan that has recorded its image after a step had done so, or does.
LEMMA RecordedStep ==
    ASSUME IInv, [Next]_vars, NEW s \in Scan, Recorded(s)'
    PROVE  tag'[s] \in Tag /\ layers'[s] # <<>> /\ Key(s)' \in Image /\ rows'[Key(s)'] # None
<1>1. CASE Recorded(s)
  <2>1. tag'[s] = tag[s] /\ digest'[s] = digest[s] /\ layers'[s] = layers[s]
    BY <1>1, RecordedStays DEF IInv
  <2>2. tag[s] \in Tag /\ layers[s] # <<>> /\ rows[Key(s)] # None /\ digest[s] \in Digest
    BY <1>1 DEF IInv, RecordInv, Recorded, TypeOK
  <2>3. Key(s)' = Key(s) /\ Key(s) \in Image
    BY <2>1, <2>2 DEF Key, Image
  <2>4. QED
    BY <2>1, <2>2, <2>3, RowsStay DEF IInv
<1>2. CASE ~Recorded(s)
  <2>1. UpsertImage(s)
    <3> USE DEF IInv, TypeOK, ScanInv, Recorded, Goto, scanVars
    <3>1. CASE Retag \/ Ended \/ UNCHANGED vars
      BY <1>2, <3>1 DEF Retag, Ended, vars
    <3>2. ASSUME NEW r \in Scan, Begin(r) \/ Fail(r) \/ NoManifest(r) PROVE FALSE
      BY <1>2, <3>2 DEF Begin, Fail, NoManifest, Forget
    <3>3. ASSUME NEW r \in Scan, GetDigest(r) \/ GetManifestV2(r) \/ GetManifestV1(r)
                                   \/ Lookup(r) PROVE FALSE
      BY <1>2, <3>3 DEF GetDigest, GetManifestV2, GetManifestV1, Lookup
    <3>4. ASSUME NEW r \in Scan, Reread(r) \/ Push(r) PROVE FALSE
      BY <1>2, <3>4 DEF Reread, Push
    <3>5. ASSUME NEW r \in Scan, UpsertImage(r), r # s PROVE FALSE
      BY <1>2, <3>5 DEF UpsertImage
    <3>6. QED
      BY <3>1, <3>2, <3>3, <3>4, <3>5 DEF Next, ScanStep
  <2>2. TopLayer(s) \in Name /\ Key(s) \in Image /\ now[s] \in Nat
    BY <2>1, TopLayerType DEF IInv, TypeOK, UpsertImage
  <2>3. rows'[Key(s)] # None
    <3>1. CASE rows[Key(s)] = None
      <4>1. rows'[Key(s)] = [top |-> TopLayer(s), lastSeen |-> now[s]]
        BY <2>1, <2>2, <3>1 DEF UpsertImage, Upsert, IInv, TypeOK
      <4>2. QED
        BY <2>2, <4>1, NoneAssumption
    <3>2. CASE rows[Key(s)] # None
      BY <2>2, <3>2, RowsStay DEF IInv
    <3>3. QED
      BY <3>1, <3>2
  <2>4. Key(s)' = Key(s) /\ tag'[s] \in Tag /\ layers'[s] # <<>>
    BY <2>1 DEF UpsertImage, Key, IInv, ScanInv
  <2>5. QED
    BY <2>2, <2>3, <2>4
<1>3. QED
  BY <1>1, <1>2

\* A new row is that of the scan that makes it.
LEMMA NewRow ==
    ASSUME IInv, [Next]_vars, NEW i \in Image, rows[i] = None, rows'[i] # None
    PROVE  \E s \in Scan : /\ pc[s] = "upsert" /\ Key(s) = i /\ rows'[i].top = TopLayer(s)
                           /\ Recorded(s)' /\ UNCHANGED <<tag, digest, layers>>
<1>1. PICK s \in Scan : UpsertImage(s) /\ rows' # rows
  BY DEF Next, ScanStep, Retag, Begin, Fail, GetDigest, GetManifestV2,
       GetManifestV1, NoManifest, Lookup, Reread, Push, Ended, vars, scanVars
<1>2. Key(s) = i /\ rows'[i].top = TopLayer(s)
  BY <1>1 DEF UpsertImage, Upsert, IInv, TypeOK
<1>3. pc[s] = "upsert" /\ digest[s] # None
  BY <1>1, NoneAssumption DEF UpsertImage, IInv, ScanInv
<1>4. Recorded(s)' /\ UNCHANGED <<tag, digest, layers>>
  BY <1>1, <1>3 DEF UpsertImage, Recorded, IInv, TypeOK
<1>5. QED
  BY <1>2, <1>3, <1>4

LEMMA RecordStep == IInv /\ [Next]_vars => RecordInv'
<1> SUFFICES ASSUME IInv, [Next]_vars PROVE RecordInv'
  OBVIOUS
<1>1. \A s \in Scan : Recorded(s)' =>
        tag'[s] \in Tag /\ layers'[s] # <<>> /\ rows'[Key(s)'] # None
  BY RecordedStep
<1>2. ASSUME NEW i \in Image, rows'[i] # None
      PROVE  \E s \in Scan : Recorded(s)' /\ Key(s)' = i
  <2>1. CASE rows[i] # None
    <3>1. PICK s \in Scan : Recorded(s) /\ Key(s) = i
      BY <2>1 DEF IInv, RecordInv
    <3>2. Recorded(s)' /\ Key(s)' = Key(s)
      BY <3>1, RecordedStays DEF IInv, Key
    <3>3. QED
      BY <3>1, <3>2
  <2>2. CASE rows[i] = None
    <3>1. PICK s \in Scan : Key(s) = i /\ Recorded(s)' /\ UNCHANGED <<tag, digest, layers>>
      BY <1>2, <2>2, NewRow
    <3>2. QED
      BY <3>1 DEF Key
  <2>3. QED
    BY <2>1, <2>2
<1>3. QED
  BY <1>1, <1>2 DEF RecordInv, Key

\* Only a push changes Clair, and a push adds at most the layer it is at, on a
\* parent that is there.
LEMMA ClairChange ==
    ASSUME IInv, [Next]_vars, NEW n \in Name, clair[n] = None, clair'[n] # None
    PROVE  \E s \in Scan : /\ pc[s] = "push"
                           /\ n = NextLayer(s)
                           /\ clair'[n] = NextParent(s)
                           /\ ClairAccepts(NextParent(s))
<1> USE DEF scanVars
<1>1. CASE Retag \/ Ended \/ UNCHANGED vars
  BY <1>1 DEF Retag, Ended, vars
<1>2. ASSUME NEW s \in Scan, ScanStep(s), ~Push(s) PROVE FALSE
  BY <1>2 DEF ScanStep, Begin, Fail, GetDigest, GetManifestV2, GetManifestV1, NoManifest,
       Lookup, Reread, UpsertImage
<1>3. ASSUME NEW s \in Scan, Push(s)
      PROVE  /\ pc[s] = "push"
             /\ n = NextLayer(s)
             /\ clair'[n] = NextParent(s)
             /\ ClairAccepts(NextParent(s))
  <2>1. pc[s] = "push"
    BY <1>3 DEF Push
  <2>2. ClairAccepts(NextParent(s)) /\ clair' = [clair EXCEPT ![NextLayer(s)] = NextParent(s)]
    BY <1>3 DEF Push, PostLayers, ClairStores
  <2>3. clair \in [Name -> Name \cup {None, Root}] /\ NextLayer(s) \in Name
    BY <2>1, PushType DEF IInv, TypeOK
  <2>4. QED
    BY <2>1, <2>2, <2>3
<1>4. QED
  BY <1>1, <1>2, <1>3 DEF Next

\* Where a scan that pushes, or has pushed, comes from.
LEMMA PushBefore ==
    ASSUME IInv, [Next]_vars, NEW s \in Scan, pc'[s] \in {"push", "scanned"}
    PROVE  /\ Recorded(s)
           /\ \/ left'[s] = Len(layers[s])
              \/ pc[s] \in {"push", "scanned"} /\ left'[s] = left[s]
              \/ /\ pc[s] = "push" /\ left'[s] = left[s] - 1
                 /\ ClairAccepts(NextParent(s))
                 /\ ClairStores(NextLayer(s), NextParent(s))
<1> USE DEF IInv, TypeOK, ScanInv, Recorded, scanVars, Goto
<1>1. ASSUME Retag \/ Ended \/ UNCHANGED vars
      PROVE  pc[s] \in {"push", "scanned"} /\ left'[s] = left[s]
  BY <1>1 DEF Retag, Ended, vars
<1>2. ASSUME NEW r \in Scan, Begin(r) \/ Fail(r) \/ NoManifest(r)
      PROVE  pc[s] \in {"push", "scanned"} /\ left'[s] = left[s]
  BY <1>2 DEF Begin, Fail, NoManifest, Forget
<1>3. ASSUME NEW r \in Scan, GetDigest(r) \/ GetManifestV2(r) \/ GetManifestV1(r)
                               \/ Lookup(r) \/ UpsertImage(r)
      PROVE  pc[s] \in {"push", "scanned"} /\ left'[s] = left[s]
  BY <1>3 DEF GetDigest, GetManifestV2, GetManifestV1, Lookup, UpsertImage
<1>4. ASSUME NEW r \in Scan, Reread(r)
      PROVE  \/ pc[s] \in {"push", "scanned"} /\ left'[s] = left[s]
             \/ pc[s] = "reread" /\ left'[s] = Len(layers[s])
  BY <1>4 DEF Reread
<1>5. ASSUME NEW r \in Scan, Push(r)
      PROVE  \/ pc[s] \in {"push", "scanned"} /\ left'[s] = left[s]
             \/ /\ pc[s] = "push" /\ left'[s] = left[s] - 1
                /\ ClairAccepts(NextParent(s))
                /\ ClairStores(NextLayer(s), NextParent(s))
  <2>1. CASE r = s
    <3>1. PostLayers(NextLayer(s), NextParent(s), TRUE) /\ left' = [left EXCEPT ![s] = @ - 1]
          /\ pc[s] = "push"
      BY <1>5, <2>1 DEF Push
    <3>2. left'[s] = left[s] - 1
      BY <3>1
    <3>3. QED
      BY <3>1, <3>2 DEF PostLayers
  <2>2. CASE r # s
    BY <1>5, <2>2 DEF Push
  <2>3. QED
    BY <2>1, <2>2
<1>6. \/ pc[s] = "reread" /\ left'[s] = Len(layers[s])
      \/ pc[s] \in {"push", "scanned"} /\ left'[s] = left[s]
      \/ /\ pc[s] = "push" /\ left'[s] = left[s] - 1
         /\ ClairAccepts(NextParent(s))
         /\ ClairStores(NextLayer(s), NextParent(s))
  BY <1>1, <1>2, <1>3, <1>4, <1>5 DEF Next, ScanStep
<1>7. Recorded(s)
  <2>1. pc[s] \in {"reread", "push", "scanned"}
    BY <1>6
  <2>2. digest[s] \in Digest
    BY <2>1
  <2>3. QED
    BY <2>1, <2>2, NoneAssumption
<1>8. QED
  BY <1>6, <1>7

LEMMA PushStep == IInv /\ [Next]_vars => PushInv'
<1> SUFFICES ASSUME IInv, [Next]_vars, NEW s \in Scan, pc'[s] \in {"push", "scanned"},
                    NEW j \in 1..Len(layers'[s]), j > left'[s]
             PROVE  clair'[LayerName(digest'[s], layers'[s][j])] # None
  BY DEF PushInv, LayerName
<1>1. Recorded(s) /\ layers'[s] = layers[s] /\ digest'[s] = digest[s]
  BY PushBefore, RecordedStays DEF IInv
<1>2. layers[s] \in Seq(Blob) /\ digest[s] \in Digest /\ left[s] \in Nat
  BY <1>1 DEF IInv, TypeOK, Recorded
<1>3. LayerName(digest[s], layers[s][j]) \in Name /\ Len(layers[s]) \in Nat
  BY <1>1, <1>2, ElementOfSeq, LenProperties DEF LayerName, Name
<1>4. CASE pc[s] \in {"push", "scanned"} /\ j > left[s]
  <2>1. clair[LayerName(digest[s], layers[s][j])] # None
    BY <1>1, <1>4 DEF IInv, PushInv
  <2>2. QED
    BY <1>1, <1>3, <2>1, ClairStays DEF IInv
<1>5. CASE pc[s] = "push" /\ j = left[s] /\ ClairStores(NextLayer(s), NextParent(s))
  <2>1. NextLayer(s) \in Name /\ NextParent(s) # None
    BY <1>5, PushType, NoneAssumption DEF IInv
  <2>2. clair'[NextLayer(s)] # None
    BY <1>5, <2>1 DEF ClairStores, IInv, TypeOK
  <2>3. QED
    BY <1>1, <1>5, <2>2 DEF NextLayer
<1>6. j # Len(layers[s]) + 1 /\ j <= Len(layers[s])
  BY <1>1, <1>3
<1>7. QED
  BY <1>1, <1>2, <1>3, <1>4, <1>5, <1>6, PushBefore

LEMMA ClairStep == IInv /\ [Next]_vars => ClairInv'
<1> SUFFICES ASSUME IInv, [Next]_vars PROVE ClairInv'
  OBVIOUS
<1>1. ASSUME NEW n \in Name, clair'[n] \in Name PROVE clair'[clair'[n]] # None
  <2>1. clair[clair'[n]] # None
    <3>1. CASE clair[n] = None
      <4>1. clair'[n] # None /\ clair'[n] # Root
        BY <1>1, NoneAssumption
      <4>2. QED
        BY <3>1, <4>1, ClairChange DEF ClairAccepts
    <3>2. CASE clair[n] # None
      BY <1>1, <3>2, ClairStays DEF IInv, ClairInv
    <3>3. QED
      BY <3>1, <3>2
  <2>2. QED
    BY <1>1, <2>1, ClairStays DEF IInv
<1>2. ASSUME NEW n \in Name, clair'[n] # None PROVE \E t \in Tag : rows'[<<t, n[1]>>] # None
  <2>1. \E t \in Tag : rows[<<t, n[1]>>] # None
    <3>1. CASE clair[n] = None
      <4>1. PICK s \in Scan : pc[s] = "push" /\ n = NextLayer(s)
        BY <1>2, <3>1, ClairChange
      <4>2. Recorded(s) /\ n[1] = digest[s]
        BY <4>1, PushType, NoneAssumption DEF Recorded, IInv, NextLayer, LayerName
      <4>3. QED
        BY <4>2 DEF IInv, RecordInv, Key
    <3>2. CASE clair[n] # None
      BY <3>2 DEF IInv, ClairInv, ClairIsRecorded
    <3>3. QED
      BY <3>1, <3>2
  <2>2. PICK t \in Tag : rows[<<t, n[1]>>] # None
    BY <2>1
  <2>3. <<t, n[1]>> \in Image
    BY DEF Image, Name
  <2>4. QED
    BY <2>2, <2>3, RowsStay DEF IInv
<1>3. QED
  BY <1>1, <1>2 DEF ClairInv, ClairIsRecorded

\* A scan that recorded a sound digest has the layers of its content.
LEMMA SoundLayers ==
    ASSUME IInv, NEW s \in Scan, Recorded(s), Sound(digest[s])
    PROVE  layers[s] = LayersOfDigest(digest[s])
BY DEF IInv, RecordInv, Sound, Torn

LEMMA ContentStep == IInv /\ [Next]_vars => ContentInv'
<1> SUFFICES ASSUME IInv, [Next]_vars, NEW d \in Digest, Sound(d)'
             PROVE  /\ \A t \in Tag : rows'[<<t, d>>] # None =>
                        rows'[<<t, d>>].top = LayerName(d, LayersOfDigest(d)[1])
                    /\ \A k \in 1..Len(LayersOfDigest(d)) :
                        clair'[LayerName(d, LayersOfDigest(d)[k])] # None => Stacked(d, k)'
  BY DEF ContentInv, LayerName, LayersOfDigest
<1>1. Sound(d)
  BY SoundBefore DEF IInv
<1>2. ASSUME NEW t \in Tag, rows'[<<t, d>>] # None
      PROVE  rows'[<<t, d>>].top = LayerName(d, LayersOfDigest(d)[1])
  <2>1. <<t, d>> \in Image
    BY DEF Image
  <2>2. CASE rows[<<t, d>>] # None
    BY <1>1, <2>1, <2>2, RowsStay DEF IInv, ContentInv
  <2>3. CASE rows[<<t, d>>] = None
    <3>1. PICK s \in Scan : /\ pc[s] = "upsert" /\ Key(s) = <<t, d>>
                            /\ rows'[<<t, d>>].top = TopLayer(s)
                            /\ Recorded(s)' /\ UNCHANGED <<tag, digest, layers>>
      BY <1>2, <2>1, <2>3, NewRow
    <3>2. digest[s] = d /\ layers[s] # <<>>
      BY <3>1 DEF Key, IInv, ScanInv
    <3>3. layers[s] = LayersOfDigest(d)
      BY <3>1, <3>2 DEF Sound, Torn, LayersOfDigest
    <3>4. QED
      BY <3>1, <3>2, <3>3 DEF TopLayer
  <2>4. QED
    BY <2>2, <2>3
<1>3. ASSUME NEW k \in 1..Len(LayersOfDigest(d)),
             clair'[LayerName(d, LayersOfDigest(d)[k])] # None
      PROVE  Stacked(d, k)'
  <2> DEFINE content == LayersOfDigest(d)
             n == LayerName(d, content[k])
  <2>1. n \in Name /\ Len(content) \in Nat /\ k \in Nat /\ k >= 1
    BY ContentType
  <2>2. CASE clair[n] # None
    <3>1. Stacked(d, k)
      BY <1>1, <2>2 DEF IInv, ContentInv
    <3>2. QED
      BY <2>1, <3>1, StackedStays DEF IInv
  <2>3. CASE clair[n] = None
    <3>1. PICK s \in Scan : /\ pc[s] = "push" /\ n = NextLayer(s) /\ clair'[n] = NextParent(s)
                            /\ ClairAccepts(NextParent(s))
      BY <1>3, <2>1, <2>3, ClairChange
    <3>2. digest[s] = d /\ content[k] = layers[s][left[s]]
      BY <3>1, NamesDiffer DEF NextLayer
    <3>3. Recorded(s) /\ left[s] \in 1..Len(layers[s])
      BY <3>1, PushType, NoneAssumption DEF Recorded, IInv
    <3>4. layers[s] = content
      BY <1>1, <3>2, <3>3, SoundLayers
    <3>5. left[s] = k
      BY <1>1, <3>2, <3>3, <3>4 DEF Sound, Distinct
    <3>6. NextParent(s) = IF k = Len(content) THEN Root ELSE LayerName(d, content[k + 1])
      BY <3>2, <3>4, <3>5 DEF NextParent
    <3>7. ASSUME k # Len(content) PROVE Stacked(d, k + 1)'
      <4>1. k + 1 \in 1..Len(content)
        BY <2>1, <3>7
      <4>2. LayerName(d, content[k + 1]) # Root
        BY <4>1, ContentType, NoneAssumption
      <4>3. clair[LayerName(d, content[k + 1])] # None
        BY <3>1, <3>6, <3>7, <4>2 DEF ClairAccepts
      <4>4. Stacked(d, k + 1)
        BY <1>1, <4>1, <4>3 DEF IInv, ContentInv
      <4>5. QED
        BY <2>1, <4>4, StackedStays DEF IInv
    <3>8. SUFFICES ASSUME NEW j \in k..Len(content)
                   PROVE  clair'[LayerName(d, content[j])] =
                            IF j = Len(content) THEN Root ELSE LayerName(d, content[j + 1])
      BY DEF Stacked, LayersOfDigest, LayerName
    <3>9. CASE j = k
      BY <3>1, <3>6, <3>9
    <3>10. CASE j # k
      <4>1. k # Len(content) /\ j \in (k + 1)..Len(content)
        BY <2>1, <3>10
      <4>2. QED
        BY <3>7, <4>1 DEF Stacked, LayersOfDigest, LayerName
    <3>11. QED
      BY <3>9, <3>10
  <2>4. QED
    BY <2>2, <2>3
<1>4. QED
  BY <1>2, <1>3

\* Hence IInv holds in every state.
THEOREM Invariance == Spec => []IInv
<1>1. Init => IInv
  BY InitInv
<1>2. IInv /\ [Next]_vars => IInv'
  BY TypeStep, ScanStepInv, RecordStep, PushStep, ClairStep, ContentStep DEF IInv
<1>3. QED
  BY <1>1, <1>2, PTL DEF Spec

(* ------------------------------------------------------------------------ *)
(* What the runs check. *)

\* A digest no scan of which is torn is sound.
LEMMA WholeIsSound ==
    ASSUME NEW d, Whole(d)
    PROVE  Sound(d)
BY DEF Whole, Sound

\* A digest with a row has layers, if it is sound.
LEMMA RowHasLayers ==
    ASSUME IInv, NEW i \in Image, rows[i] # None, Sound(i[2])
    PROVE  /\ i[1] \in Tag /\ i[2] \in Digest /\ i = <<i[1], i[2]>>
           /\ 1 \in 1..Len(LayersOfDigest(i[2]))
           /\ rows[i].top = LayerName(i[2], LayersOfDigest(i[2])[1])
<1>1. i[1] \in Tag /\ i[2] \in Digest /\ i = <<i[1], i[2]>>
  BY DEF Image
<1>2. PICK s \in Scan : Recorded(s) /\ Key(s) = i
  BY DEF IInv, RecordInv
<1>3. LayersOfDigest(i[2]) # <<>>
  <2>1. digest[s] = i[2] /\ layers[s] # <<>>
    BY <1>1, <1>2 DEF Key, IInv, RecordInv
  <2>2. QED
    BY <1>2, <2>1, SoundLayers
<1>4. 1 \in 1..Len(LayersOfDigest(i[2]))
  BY <1>1, <1>3, ContentType, EmptySeq, LenProperties
<1>5. rows[i].top = LayerName(i[2], LayersOfDigest(i[2])[1])
  BY <1>1 DEF IInv, ContentInv
<1>6. QED
  BY <1>1, <1>4, <1>5

\* When Clair has the top layer of a row, then it has the whole stack below it.
LEMMA FoundIsServed ==
    ASSUME IInv, NEW i \in Image, rows[i] # None, clair[rows[i].top] # None, Sound(i[2])
    PROVE  Served(i)
<1>1. i[2] \in Digest /\ 1 \in 1..Len(LayersOfDigest(i[2]))
      /\ rows[i].top = LayerName(i[2], LayersOfDigest(i[2])[1])
  BY RowHasLayers
<1>2. Stacked(i[2], 1)
  BY <1>1 DEF IInv, ContentInv
<1>3. QED
  BY <1>1, <1>2 DEF Served

\* ViewIsNeverPartial: Clair never shows a part of an image.
LEMMA NeverPartial == IInv => ViewIsNeverPartial
BY FoundIsServed, WholeIsSound DEF ViewIsNeverPartial

THEOREM ViewIsWhole == Spec => []ViewIsNeverPartial
BY Invariance, NeverPartial, PTL

\* ScannedIsServed: a scan that succeeded has pushed its top layer too, and so
\* leaves its image served.
THEOREM ScannedServed == Spec => []ScannedIsServed
<1>1. IInv => ScannedIsServed
  <2> SUFFICES ASSUME IInv, NEW s \in Scan, pc[s] = "scanned", Whole(digest[s])
               PROVE  Served(Key(s))
    BY DEF ScannedIsServed
  <2>1. tag[s] \in Tag /\ digest[s] \in Digest /\ layers[s] # <<>> /\ left[s] = 0
    BY DEF IInv, ScanInv
  <2>2. Recorded(s) /\ Key(s) \in Image /\ Key(s)[2] = digest[s]
    BY <2>1, NoneAssumption DEF Recorded, Key, Image
  <2>3. Sound(digest[s])
    BY WholeIsSound
  <2>4. rows[Key(s)] # None /\ layers[s] = LayersOfDigest(digest[s])
    BY <2>2, <2>3, SoundLayers DEF IInv, RecordInv
  <2>5. 1 \in 1..Len(layers[s])
        /\ rows[Key(s)].top = LayerName(digest[s], layers[s][1])
    BY <2>2, <2>3, <2>4, RowHasLayers
  <2>6. clair[rows[Key(s)].top] # None
    BY <2>1, <2>5 DEF IInv, PushInv
  <2>7. QED
    BY <2>2, <2>4, <2>6, NeverPartial DEF ViewIsNeverPartial
<1>2. QED
  BY <1>1, Invariance, PTL

\* ParentIsThere: the parent a scan names is the layer it pushed before.
THEOREM ParentThere == Spec => []ParentIsThere
<1>1. IInv => ParentIsThere
  <2> SUFFICES ASSUME IInv, NEW s \in Scan, pc[s] = "push" PROVE ClairAccepts(NextParent(s))
    BY DEF ParentIsThere
  <2>1. left[s] \in 1..Len(layers[s]) /\ Len(layers[s]) \in Nat
    BY PushType, LenProperties DEF IInv, TypeOK
  <2>2. CASE left[s] = Len(layers[s])
    BY <2>2 DEF NextParent, ClairAccepts
  <2>3. CASE left[s] # Len(layers[s])
    <3>1. left[s] + 1 \in 1..Len(layers[s]) /\ left[s] + 1 > left[s]
      BY <2>1, <2>3
    <3>2. clair[LayerName(digest[s], layers[s][left[s] + 1])] # None
      BY <3>1 DEF IInv, PushInv
    <3>3. QED
      BY <2>3, <3>2 DEF NextParent, ClairAccepts
  <2>4. QED
    BY <2>2, <2>3
<1>2. QED
  BY <1>1, Invariance, PTL

\* ClairIsRecorded: Clair has no layer of an image that has no row.
THEOREM RecordedFirst == Spec => []ClairIsRecorded
<1>1. IInv => ClairIsRecorded
  BY DEF IInv, ClairInv
<1>2. QED
  BY <1>1, Invariance, PTL

\* What is served before a step is so after it.
LEMMA ServedStays ==
    ASSUME IInv, [Next]_vars, NEW i \in Image, Served(i)
    PROVE  Served(i)'
<1>1. i[2] \in Digest
  BY DEF Image
<1>2. rows'[i] # None /\ rows'[i].top = rows[i].top
  BY RowsStay DEF Served, IInv
<1>3. Stacked(i[2], 1)'
  BY <1>1, StackedStays DEF Served, IInv
<1>4. QED
  BY <1>2, <1>3 DEF Served, LayerName, LayersOfDigest

\* StaysServed: no step takes back what is served.
THEOREM ServedForGood == Spec => StaysServed
<1>1. IInv /\ [Next]_vars => [\A i \in Image : Served(i) => Served(i)']_vars
  BY ServedStays
<1>2. QED
  BY <1>1, Invariance, PTL DEF Spec, StaysServed

(* ------------------------------------------------------------------------ *)
(* The moving tags are all that is behind image_scan_torn: without them every
   scan has the layers of its digest. *)

\* What a scan has taken is what its tag stands for.
StillInv ==
    \A s \in Scan :
        /\ digest[s] = None => layers[s] = <<>>
        /\ digest[s] # None =>
            /\ digest[s][1] = tagged[tag[s]]
            /\ layers[s] = <<>> \/ layers[s] = LayersOf[tagged[tag[s]]]

LEMMA StillStep ==
    ASSUME MaxMoves = 0, IInv, StillInv, [Next]_vars
    PROVE  StillInv'
<1> USE DEF scanVars
<1>0. TypeOK /\ ScanInv
  BY DEF IInv
<1>1. ASSUME Retag PROVE FALSE
  <2>1. moves \in Nat /\ moves < 0
    BY <1>0, <1>1 DEF Retag, TypeOK
  <2>2. QED
    BY <2>1
<1>2. ASSUME NEW s \in Scan, Forget(s), tagged' = tagged PROVE StillInv'
  BY <1>0, <1>2 DEF Forget, TypeOK, StillInv
<1>3. ASSUME NEW s \in Scan, Begin(s) PROVE StillInv'
  <2>1. digest[s] = None
    BY <1>0, <1>3 DEF Begin, ScanInv
  <2>2. UNCHANGED <<tagged, digest, layers>> /\ \A r \in Scan : r # s => tag'[r] = tag[r]
    BY <1>0, <1>3 DEF Begin, TypeOK
  <2>3. QED
    BY <2>1, <2>2 DEF StillInv
<1>4. ASSUME NEW s \in Scan, GetDigest(s) PROVE StillInv'
  <2>1. digest[s] = None /\ tag[s] \in Tag /\ layers[s] = <<>>
    BY <1>0, <1>4 DEF GetDigest, ScanInv, StillInv
  <2>2. UNCHANGED <<tagged, tag, layers>> /\ \A r \in Scan : r # s => digest'[r] = digest[r]
    BY <1>0, <1>4 DEF GetDigest, TypeOK
  <2>3. digest'[s] # None => digest'[s][1] = tagged[tag[s]]
    BY <1>0, <1>4 DEF GetDigest, ManifestDigest, TypeOK
  <2>4. QED
    BY <2>1, <2>2, <2>3 DEF StillInv
<1>5. ASSUME NEW s \in Scan, GetManifestV2(s) \/ GetManifestV1(s) PROVE StillInv'
  <2>1. digest[s] # None
    BY <1>0, <1>5, NoneAssumption DEF GetManifestV2, GetManifestV1, ScanInv
  <2>2. UNCHANGED <<tagged, tag, digest>>
        /\ (layers' = layers \/ layers' = [layers EXCEPT ![s] = LayersOf[tagged[tag[s]]]])
    BY <1>5 DEF GetManifestV2, GetManifestV1, Manifest
  <2>3. /\ \A r \in Scan : r # s => layers'[r] = layers[r]
        /\ layers'[s] = layers[s] \/ layers'[s] = LayersOf[tagged[tag[s]]]
    BY <1>0, <2>2 DEF TypeOK
  <2>4. QED
    BY <2>1, <2>2, <2>3 DEF StillInv
<1>6. ASSUME NEW s \in Scan,
             Fail(s) \/ NoManifest(s) \/ Lookup(s) \/ UpsertImage(s) \/ Reread(s) \/ Push(s)
      PROVE  StillInv'
  <2>1. tagged' = tagged /\ (Forget(s) \/ UNCHANGED <<tag, digest, layers>>)
    BY <1>6 DEF Fail, NoManifest, Lookup, UpsertImage, Reread, Push
  <2>2. CASE UNCHANGED <<tag, digest, layers>>
    BY <2>1, <2>2 DEF StillInv
  <2>3. QED
    BY <1>2, <2>1, <2>2
<1>7. CASE Ended \/ UNCHANGED vars
  BY <1>7 DEF Ended, vars, StillInv
<1>8. QED
  BY <1>1, <1>3, <1>4, <1>5, <1>6, <1>7 DEF Next, ScanStep

\* As long as no tag is moved and no image has a layer twice, what
\* image_scan_torn refutes holds: a scan that succeeded leaves its image served
\* (ScannedIsAlwaysServed; docker.GetImage, crawler.ScanImage).
THEOREM ServedIfTagsStay ==
    ASSUME MaxMoves = 0, \A d \in Digest : Distinct(d)
    PROVE  Spec => []ScannedIsAlwaysServed
<1>1. Init => StillInv
  BY DEF Init, StillInv
<1>2. IInv /\ StillInv /\ [Next]_vars => StillInv'
  BY StillStep
<1>3. IInv /\ StillInv /\ ScannedIsServed => ScannedIsAlwaysServed
  <2> SUFFICES ASSUME IInv, StillInv, ScannedIsServed, NEW s \in Scan, pc[s] = "scanned"
               PROVE  Served(Key(s))
    BY DEF ScannedIsAlwaysServed
  <2>1. digest[s] \in Digest
    BY DEF IInv, ScanInv
  <2>2. \A r \in Scan : digest[r] = digest[s] => ~Torn(r)
    <3>1. ASSUME NEW r \in Scan, digest[r] = digest[s], layers[r] # <<>>
          PROVE  layers[r] = LayersOfDigest(digest[r])
      <4>1. digest[r] # None
        BY <2>1, <3>1, NoneAssumption
      <4>2. QED
        BY <3>1, <4>1 DEF StillInv, LayersOfDigest
    <3>2. QED
      BY <3>1 DEF Torn
  <2>3. Whole(digest[s])
    BY <2>1, <2>2 DEF Whole
  <2>4. QED
    BY <2>3 DEF ScannedIsServed
<1>4. QED
  BY <1>1, <1>2, <1>3, Invariance, ScannedServed, PTL DEF Spec
=============================================================================
