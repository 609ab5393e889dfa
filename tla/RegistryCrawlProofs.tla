------------------------ MODULE RegistryCrawlProofs ------------------------
(* Proofs about RegistryCrawl for every registry, request and channel
   capacity: the inductive invariant IInv, and from it the safety properties
   the runs check and the refinement of CrawlJob. *)
EXTENDS RegistryCrawl, FiniteSetTheorems, SequenceTheorems, TLAPS

(* ------------------------------------------------------------------------ *)
(* Counting workers. *)

\* The images are finitely many, and so is every set of them.
LEMMA ImagesFinite ==
    /\ IsFiniteSet(Image)
    /\ \A S \in SUBSET Image : IsFiniteSet(S) /\ Cardinality(S) \in Nat
<1>1. IsFiniteSet(Image)
  BY FiniteAssumption, FS_Product DEF Image
<1>2. \A S \in SUBSET Image : IsFiniteSet(S)
  BY <1>1, FS_Subset
<1>3. QED
  BY <1>1, <1>2, FS_CardinalityType

\* One image more, or one less, in a set of images.
LEMMA CountAdd ==
    ASSUME NEW S \in SUBSET Image, NEW i \in Image, i \notin S
    PROVE  Cardinality(S \cup {i}) = Cardinality(S) + 1
BY ImagesFinite, FS_AddElement

LEMMA CountRemove ==
    ASSUME NEW S \in SUBSET Image, NEW i \in S
    PROVE  Cardinality(S \ {i}) = Cardinality(S) - 1 /\ Cardinality(S) >= 1
<1>1. Cardinality(S \ {i}) = Cardinality(S) - 1
  BY ImagesFinite, FS_RemoveElement
<1>2. Cardinality(S \ {i}) \in Nat /\ Cardinality(S) \in Nat
  BY ImagesFinite
<1>3. QED
  BY <1>1, <1>2

\* A set of at most one image.
LEMMA AtMostOne ==
    ASSUME NEW S \in SUBSET Image, Cardinality(S) <= 1, NEW i \in S, NEW j \in S
    PROVE  i = j
<1>1. SUFFICES ASSUME i # j PROVE FALSE
  OBVIOUS
<1>2. Cardinality(S \ {i}) = Cardinality(S) - 1 /\ j \in S \ {i}
  BY <1>1, CountRemove
<1>3. Cardinality(S \ {i}) >= 1
  BY <1>2, CountRemove
<1>4. QED
  BY <1>2, <1>3, ImagesFinite

LEMMA CountNone ==
    ASSUME NEW S \in SUBSET Image, Cardinality(S) = 0
    PROVE  S = {}
BY ImagesFinite, FS_EmptySet

\* What the sets of workers become when one worker changes its state.
LEMMA WorkerSets ==
    ASSUME NEW i \in Image, NEW s \in WorkerState, worker \in [Image -> WorkerState],
           worker' = [worker EXCEPT ![i] = s]
    PROVE  /\ Holding' = IF s \in {"scan", "check", "log", "done", "release"}
                         THEN Holding \cup {i} ELSE Holding \ {i}
           /\ Awaited' = IF s \in {"scan", "check", "log", "done"}
                         THEN Awaited \cup {i} ELSE Awaited \ {i}
           /\ Scanned' = IF s \in {"check", "log", "done", "release", "gone"}
                         THEN Scanned \cup {i} ELSE Scanned \ {i}
BY DEF Holding, Awaited, Scanned, WorkerState

LEMMA WorkerSetsType ==
    Holding \in SUBSET Image /\ Awaited \in SUBSET Image /\ Scanned \in SUBSET Image
    /\ Scanning \in SUBSET Image
BY DEF Holding, Awaited, Scanned, Scanning

(* ------------------------------------------------------------------------ *)
(* The inductive invariant. *)

LEMMA InitInv == Init => IInv
<1> SUFFICES ASSUME Init PROVE IInv
  OBVIOUS
<1>1. TypeOK
  BY RequestAssumption, EmptySeq DEF Init, TypeOK, Row, WorkerState
<1>2. Holding = {} /\ Awaited = {} /\ Scanned = {}
  BY DEF Init, Holding, Awaited, Scanned
<1>3. CountInv
  BY <1>2, FS_EmptySet, RequestAssumption DEF Init, CountInv
<1>4. ProducerInv /\ ChannelInv /\ EndInv /\ RowInv
  BY DEF Init, ProducerInv, ChannelInv, EndInv, RowInv, NoTotal
<1>5. SequentialInv
  <2>1. {i \in bad : worker[i] \notin {"check", "log"}} = {}
    BY DEF Init
  <2>2. QED
    BY <2>1, FS_EmptySet DEF Init, SequentialInv
<1>6. QED
  BY <1>1, <1>3, <1>4, <1>5 DEF IInv

\* The request stays what it was.
LEMMA RequestFixed == [Next]_vars => UNCHANGED request
BY DEF Next, Main, MainStart, MainReceive, MainAcquire, MainReport, Worker, WorkerScan,
       WorkerCheck, WorkerLog, WorkerPanic, WorkerDone, WorkerRelease, Crawl, CrawlConnect,
       CrawlCatalog, CrawlRepo, CrawlTag, CrawlSend, CrawlSendError, CrawlClose, Crash,
       Stopped, vars

LEMMA TypeStep == IInv /\ [Next]_vars => TypeOK'
<1> SUFFICES ASSUME IInv, [Next]_vars PROVE TypeOK'
  OBVIOUS
<1> USE DEF IInv, TypeOK, mainVars, crawlVars, workerVars, chanVars
<1>1. CASE MainStart
  BY <1>1 DEF MainStart, UpdateCrawler, Row
<1>2. CASE MainReceive
  BY <1>2, HeadTailProperties DEF MainReceive
<1>3. CASE MainAcquire
  <2>1. worker' \in [Image -> WorkerState] /\ sem' \in Nat /\ wg' \in Nat
    BY <1>3 DEF MainAcquire, WorkerState
  <2>2. regError' \in BOOLEAN /\ pc' \in {"receive", "report"}
    BY <1>3 DEF MainAcquire
  <2>3. QED
    BY <1>3, <2>1, <2>2 DEF MainAcquire
<1>4. CASE MainReport
  <2>1. FinalRow \in Row
    BY DEF FinalRow, Row
  <2>2. row' \in Row
    BY <1>4, <2>1 DEF MainReport, UpdateCrawler
  <2>3. err' \in BOOLEAN
    BY <1>4 DEF MainReport
  <2>4. QED
    BY <1>4, <2>2, <2>3 DEF MainReport
<1>5. ASSUME NEW i \in Image, WorkerScan(i) PROVE TypeOK'
  BY <1>5 DEF WorkerScan, WorkerState
<1>6. ASSUME NEW i \in Image, WorkerCheck(i) \/ WorkerLog(i) \/ WorkerPanic(i)
      PROVE  TypeOK'
  <2>1. CASE WorkerCheck(i)
    BY <2>1 DEF WorkerCheck, WorkerState
  <2>2. CASE WorkerLog(i)
    BY <2>2 DEF WorkerLog, WorkerState
  <2>3. CASE WorkerPanic(i)
    BY <2>3 DEF WorkerPanic
  <2>4. QED
    BY <1>6, <2>1, <2>2, <2>3
<1>7. ASSUME NEW i \in Image, WorkerDone(i) PROVE TypeOK'
  <2>1. i \in Awaited
    BY <1>7 DEF WorkerDone, Awaited
  <2>2. wg >= 1
    BY <2>1, CountRemove, WorkerSetsType DEF CountInv
  <2>3. QED
    BY <1>7, <2>2 DEF WorkerDone, WorkerState
<1>8. ASSUME NEW i \in Image, WorkerRelease(i) PROVE TypeOK'
  BY <1>8 DEF WorkerRelease, WorkerState
<1>9. CASE CrawlConnect \/ CrawlCatalog \/ CrawlRepo
  BY <1>9 DEF CrawlConnect, CrawlCatalog, CrawlRepo
<1>10. CASE CrawlTag
  BY <1>10 DEF CrawlTag, ProducerInv, Image
<1>11. CASE CrawlSend
  BY <1>11 DEF CrawlSend, ProducerInv
<1>12. CASE CrawlSendError
  BY <1>12 DEF CrawlSendError
<1>13. CASE CrawlClose
  BY <1>13 DEF CrawlClose
<1>14. CASE Crash
  BY <1>14 DEF Crash
<1>15. CASE UNCHANGED vars
  BY <1>15 DEF vars
<1>16. QED
  BY <1>1, <1>2, <1>3, <1>4, <1>5, <1>6, <1>7, <1>8, <1>9, <1>10, <1>11, <1>12, <1>13, <1>14,
     <1>15
  DEF Next, Main, Worker, Crawl, Stopped

LEMMA CountStep == IInv /\ [Next]_vars => CountInv'
<1> SUFFICES ASSUME IInv, [Next]_vars PROVE CountInv'
  OBVIOUS
<1> USE DEF IInv, mainVars, crawlVars, workerVars, chanVars
<1>0. /\ request.maxThreads \in Nat /\ sem \in Nat /\ total \in Nat /\ wg \in Nat
      /\ worker \in [Image -> WorkerState] /\ UNCHANGED request
  BY RequestAssumption, RequestFixed DEF TypeOK
<1>1. ASSUME UNCHANGED <<worker, sem, wg, total, regError>> PROVE CountInv'
  BY <1>0, <1>1 DEF CountInv, Holding, Awaited, Scanned
<1>2. CASE MainAcquire
  <2>1. CASE image = ErrorEnvelope
    BY <1>0, <1>2, <2>1, ImagesFinite, WorkerSetsType, ErrorEnvelopeAssumption
    DEF MainAcquire, CountInv, EndInv, Holding, Awaited, Scanned
  <2>2. CASE image # ErrorEnvelope
    <3>1. image \in Image /\ worker[image] = "none" /\ ~regError
      BY <1>2, <2>2 DEF MainAcquire, TypeOK, ChannelInv, EndInv
    <3>2. /\ Holding' = Holding \cup {image} /\ image \notin Holding
          /\ Awaited' = Awaited \cup {image} /\ image \notin Awaited
          /\ Scanned' = Scanned
      BY <1>0, <1>2, <2>2, <3>1 DEF MainAcquire, Holding, Awaited, Scanned
    <3>3. /\ Cardinality(Holding') = Cardinality(Holding) + 1
          /\ Cardinality(Awaited') = Cardinality(Awaited) + 1
      BY <3>1, <3>2, CountAdd, WorkerSetsType
    <3>4. QED
      BY <1>0, <1>2, <2>2, <3>1, <3>2, <3>3, ImagesFinite, WorkerSetsType
      DEF MainAcquire, CountInv
  <2>3. QED
    BY <2>1, <2>2
<1>3. ASSUME NEW i \in Image, WorkerScan(i) PROVE CountInv'
  <2>1. /\ Holding' = Holding /\ Awaited' = Awaited
        /\ Scanned' = Scanned \cup {i} /\ i \notin Scanned
    BY <1>0, <1>3 DEF WorkerScan, Holding, Awaited, Scanned
  <2>2. Cardinality(Scanned') = Cardinality(Scanned) + 1
    BY <2>1, CountAdd, WorkerSetsType
  <2>3. QED
    BY <1>0, <1>3, <2>1, <2>2 DEF WorkerScan, CountInv
<1>4. ASSUME NEW i \in Image, WorkerCheck(i) \/ WorkerLog(i) PROVE CountInv'
  <2>1. Holding' = Holding /\ Awaited' = Awaited /\ Scanned' = Scanned
    BY <1>0, <1>4 DEF WorkerCheck, WorkerLog, Holding, Awaited, Scanned
  <2>2. QED
    BY <1>0, <1>4, <2>1 DEF WorkerCheck, WorkerLog, CountInv
<1>5. ASSUME NEW i \in Image, WorkerDone(i) PROVE CountInv'
  <2>1. /\ Holding' = Holding /\ Scanned' = Scanned
        /\ Awaited' = Awaited \ {i} /\ i \in Awaited
    BY <1>0, <1>5 DEF WorkerDone, Holding, Awaited, Scanned
  <2>2. Cardinality(Awaited') = Cardinality(Awaited) - 1
    BY <2>1, CountRemove, WorkerSetsType
  <2>3. QED
    BY <1>0, <1>5, <2>1, <2>2 DEF WorkerDone, CountInv
<1>6. ASSUME NEW i \in Image, WorkerRelease(i) PROVE CountInv'
  <2>1. /\ Holding' = Holding \ {i} /\ i \in Holding
        /\ Awaited' = Awaited /\ Scanned' = Scanned
    BY <1>0, <1>6 DEF WorkerRelease, Holding, Awaited, Scanned
  <2>2. Cardinality(Holding') = Cardinality(Holding) - 1 /\ Cardinality(Holding) >= 1
    BY <2>1, CountRemove, WorkerSetsType
  <2>3. Cardinality(Holding) \in Nat
    BY ImagesFinite, WorkerSetsType
  <2>4. QED
    BY <1>0, <1>6, <2>1, <2>2, <2>3 DEF WorkerRelease, CountInv
<1>7. CASE MainStart \/ MainReceive \/ MainReport \/ Crawl \/ Crash \/ Stopped \/ UNCHANGED vars
  BY <1>1, <1>7
  DEF MainStart, MainReceive, MainReport, Crawl, CrawlConnect, CrawlCatalog, CrawlRepo,
      CrawlTag, CrawlSend, CrawlSendError, CrawlClose, Crash, Stopped, vars
<1>8. ASSUME NEW i \in Image, WorkerPanic(i) PROVE CountInv'
  BY <1>1, <1>8 DEF WorkerPanic
<1>9. QED
  BY <1>2, <1>3, <1>4, <1>5, <1>6, <1>7, <1>8 DEF Next, Main, Worker

LEMMA ProducerStep == IInv /\ [Next]_vars => ProducerInv'
<1> SUFFICES ASSUME IInv, [Next]_vars PROVE ProducerInv'
  OBVIOUS
<1> USE DEF IInv, mainVars, crawlVars, workerVars, chanVars
<1>1. ASSUME UNCHANGED <<crawlVars, sent>> PROVE ProducerInv'
  BY <1>1 DEF ProducerInv
<1>2. CASE MainStart
  BY <1>2 DEF MainStart, ProducerInv, EndInv
<1>3. CASE CrawlConnect \/ CrawlCatalog
  BY <1>3 DEF CrawlConnect, CrawlCatalog, ProducerInv
<1>4. CASE CrawlRepo
  BY <1>4 DEF CrawlRepo, ProducerInv, TypeOK
<1>5. CASE CrawlTag
  BY <1>5 DEF CrawlTag, ProducerInv, TypeOK, Image
<1>6. CASE CrawlSend
  BY <1>6 DEF CrawlSend, ProducerInv, TypeOK
<1>7. CASE CrawlSendError \/ CrawlClose
  BY <1>7 DEF CrawlSendError, CrawlClose, ProducerInv
<1>8. CASE MainReceive \/ MainAcquire \/ MainReport \/ Crash \/ Stopped \/ UNCHANGED vars
  BY <1>1, <1>8 DEF MainReceive, MainAcquire, MainReport, Crash, Stopped, vars
<1>9. ASSUME NEW i \in Image, Worker(i) PROVE ProducerInv'
  BY <1>1, <1>9 DEF Worker, WorkerScan, WorkerCheck, WorkerLog, WorkerPanic, WorkerDone,
     WorkerRelease
<1>10. QED
  BY <1>2, <1>3, <1>4, <1>5, <1>6, <1>7, <1>8, <1>9 DEF Next, Main, Crawl

LEMMA EndStep == IInv /\ [Next]_vars => EndInv'
<1> SUFFICES ASSUME IInv, [Next]_vars PROVE EndInv'
  OBVIOUS
<1> USE DEF IInv, mainVars, crawlVars, workerVars, chanVars
<1>0. images \in Seq(Image \cup {ErrorEnvelope})
  BY DEF TypeOK
<1>1. ASSUME UNCHANGED <<pc, image, regError, crawl, images, closed>> PROVE EndInv'
  BY <1>1 DEF EndInv
<1>2. CASE MainStart
  BY <1>2 DEF MainStart, EndInv
<1>3. CASE MainReceive
  <2>1. CASE images = <<>>
    BY <1>3, <2>1 DEF MainReceive, EndInv
  <2>2. CASE images # <<>>
    <3>1. /\ image' = images[1] /\ Len(images') = Len(images) - 1 /\ Len(images) \in Nat \ {0}
          /\ \A k \in 1..Len(images') : images'[k] = images[k + 1]
      BY <1>0, <1>3, <2>2, HeadTailProperties DEF MainReceive
    <3>2. image' = ErrorEnvelope => images' = <<>>
      BY <1>0, <1>3, <2>2, <3>1 DEF MainReceive, EndInv
    <3>3. pc' = "acquire" /\ UNCHANGED <<regError, crawl, closed>>
      BY <1>3, <2>2 DEF MainReceive
    <3>4. QED
      BY <1>3, <3>1, <3>2, <3>3 DEF MainReceive, EndInv
  <2>3. QED
    BY <2>1, <2>2
<1>4. CASE MainAcquire
  BY <1>4 DEF MainAcquire, EndInv
<1>5. CASE MainReport
  BY <1>5 DEF MainReport, EndInv
<1>6. CASE CrawlConnect \/ CrawlCatalog \/ CrawlRepo \/ CrawlTag \/ CrawlClose
  BY <1>6 DEF CrawlConnect, CrawlCatalog, CrawlRepo, CrawlTag, CrawlClose, EndInv
<1>7. CASE CrawlSend
  <2>1. /\ Len(images') = Len(images) + 1 /\ images'[Len(images')] = fetched
        /\ \A k \in 1..Len(images) : images'[k] = images[k]
    BY <1>0, <1>7 DEF CrawlSend, TypeOK
  <2>2. fetched # ErrorEnvelope
    BY <1>7, ErrorEnvelopeAssumption DEF CrawlSend, ProducerInv
  <2>3. QED
    BY <1>0, <1>7, <2>1, <2>2 DEF CrawlSend, EndInv
<1>8. CASE CrawlSendError
  <2>1. /\ Len(images') = Len(images) + 1 /\ images'[Len(images')] = ErrorEnvelope
        /\ \A k \in 1..Len(images) : images'[k] = images[k]
    BY <1>0, <1>8 DEF CrawlSendError
  <2>2. QED
    BY <1>0, <1>8, <2>1 DEF CrawlSendError, EndInv
<1>9. CASE Crash \/ Stopped \/ UNCHANGED vars
  BY <1>1, <1>9 DEF Crash, Stopped, vars
<1>10. ASSUME NEW i \in Image, Worker(i) PROVE EndInv'
  BY <1>1, <1>10 DEF Worker, WorkerScan, WorkerCheck, WorkerLog, WorkerPanic, WorkerDone,
     WorkerRelease
<1>11. QED
  BY <1>2, <1>3, <1>4, <1>5, <1>6, <1>7, <1>8, <1>9, <1>10 DEF Next, Main, Crawl

LEMMA ChannelStep == IInv /\ [Next]_vars => ChannelInv'
<1> SUFFICES ASSUME IInv, [Next]_vars PROVE ChannelInv'
  OBVIOUS
<1> USE DEF IInv, mainVars, crawlVars, workerVars, chanVars
<1>0. /\ images \in Seq(Image \cup {ErrorEnvelope}) /\ Len(images) \in Nat
      /\ worker \in [Image -> WorkerState] /\ sent \subseteq Image
  BY DEF TypeOK
<1>1. ASSUME UNCHANGED <<pc, image, worker, images, sent>> PROVE ChannelInv'
  BY <1>1 DEF ChannelInv
<1>2. CASE MainStart
  BY <1>2 DEF MainStart, ChannelInv
<1>3. CASE MainReceive
  <2>1. CASE images = <<>>
    BY <1>3, <2>1 DEF MainReceive, ChannelInv
  <2>2. CASE images # <<>>
    <3>1. /\ image' = images[1] /\ Len(images') = Len(images) - 1 /\ Len(images) \in Nat \ {0}
          /\ \A k \in 1..Len(images') : images'[k] = images[k + 1]
          /\ pc' = "acquire" /\ UNCHANGED <<worker, sent>>
      BY <1>0, <1>3, <2>2, HeadTailProperties DEF MainReceive
    <3>2. \A i \in sent' : \/ worker'[i] # "none"
                           \/ image' = i
                           \/ \E k \in 1..Len(images') : images'[k] = i
      <4>1. SUFFICES ASSUME NEW i \in sent, worker[i] = "none", image' # i
                     PROVE  \E k \in 1..Len(images') : images'[k] = i
        BY <3>1
      <4>2. PICK k \in 1..Len(images) : images[k] = i
        BY <1>3, <4>1 DEF ChannelInv, MainReceive
      <4>3. k - 1 \in 1..Len(images') /\ images'[k - 1] = i
        BY <3>1, <4>1, <4>2
      <4>4. QED
        BY <4>3
    <3>3. \A j, k \in 1..Len(images') : images'[j] = images'[k] => j = k
      BY <3>1 DEF ChannelInv
    <3>4. \A k \in 1..Len(images') :
            /\ images'[k] # image'
            /\ images'[k] # ErrorEnvelope =>
                 images'[k] \in sent' /\ worker'[images'[k]] = "none"
      BY <3>1 DEF ChannelInv
    <3>5. image' # ErrorEnvelope => image' \in sent' /\ worker'[image'] = "none"
      BY <3>1 DEF ChannelInv
    <3>6. \A i \in Image : worker'[i] # "none" => i \in sent'
      BY <3>1 DEF ChannelInv
    <3>7. QED
      BY <3>1, <3>2, <3>3, <3>4, <3>5, <3>6 DEF ChannelInv
  <2>3. QED
    BY <2>1, <2>2
<1>4. CASE MainAcquire
  <2>1. CASE image = ErrorEnvelope
    BY <1>0, <1>4, <2>1, ErrorEnvelopeAssumption DEF MainAcquire, ChannelInv
  <2>2. CASE image # ErrorEnvelope
    <3>1. image \in Image /\ image \in sent /\ \A k \in 1..Len(images) : images[k] # image
      BY <1>0, <1>4, <2>2 DEF MainAcquire, ChannelInv
    <3>2. /\ worker' = [worker EXCEPT ![image] = "scan"] /\ pc' = "receive"
          /\ UNCHANGED <<image, images, sent>>
      BY <1>4, <2>2 DEF MainAcquire
    <3>3. QED
      BY <1>0, <1>4, <3>1, <3>2 DEF MainAcquire, ChannelInv
  <2>3. QED
    BY <2>1, <2>2
<1>5. CASE MainReport
  BY <1>5 DEF MainReport, ChannelInv
<1>6. CASE CrawlSend
  <2>1. /\ Len(images') = Len(images) + 1 /\ images'[Len(images')] = fetched
        /\ \A k \in 1..Len(images) : images'[k] = images[k]
        /\ UNCHANGED <<pc, image, worker>> /\ sent' = sent \cup {fetched}
    BY <1>0, <1>6 DEF CrawlSend, TypeOK
  <2>2. fetched \in Image \ sent /\ fetched # ErrorEnvelope
    BY <1>6, ErrorEnvelopeAssumption DEF CrawlSend, ProducerInv
  <2>3. worker[fetched] = "none" /\ \A k \in 1..Len(images) : images[k] # fetched
    BY <2>2 DEF ChannelInv
  <2>4. \A k \in 1..Len(images') : k \in 1..Len(images) \/ k = Len(images')
    BY <1>0, <2>1
  <2>5. \A j, k \in 1..Len(images') : images'[j] = images'[k] => j = k
    BY <1>0, <2>1, <2>3, <2>4 DEF ChannelInv
  <2>6. \A k \in 1..Len(images') :
          images'[k] # ErrorEnvelope => images'[k] \in sent' /\ worker'[images'[k]] = "none"
    BY <1>0, <2>1, <2>3, <2>4 DEF ChannelInv
  <2>7. pc' = "acquire" /\ image' # ErrorEnvelope =>
          /\ image' \in sent' /\ worker'[image'] = "none"
          /\ \A k \in 1..Len(images') : images'[k] # image'
    BY <1>0, <2>1, <2>2, <2>4 DEF ChannelInv
  <2>8. \A i \in Image : worker'[i] # "none" => i \in sent'
    BY <2>1 DEF ChannelInv
  <2>9. \A i \in sent' : \/ worker'[i] # "none"
                         \/ pc' = "acquire" /\ image' = i
                         \/ \E k \in 1..Len(images') : images'[k] = i
    <3>1. 1..Len(images) \subseteq 1..Len(images') /\ Len(images') \in 1..Len(images')
      BY <1>0, <2>1
    <3>2. QED
      BY <2>1, <3>1 DEF ChannelInv
  <2>10. QED
    BY <2>5, <2>6, <2>7, <2>8, <2>9 DEF ChannelInv
<1>7. CASE CrawlSendError
  <2>1. /\ Len(images') = Len(images) + 1 /\ images'[Len(images')] = ErrorEnvelope
        /\ \A k \in 1..Len(images) : images'[k] = images[k]
        /\ UNCHANGED <<pc, image, worker, sent>>
    BY <1>0, <1>7 DEF CrawlSendError
  <2>2. /\ \A k \in 1..Len(images') : k \in 1..Len(images) \/ k = Len(images')
        /\ 1..Len(images) \subseteq 1..Len(images')
    BY <1>0, <2>1
  <2>3. \A k \in 1..Len(images) : images[k] # ErrorEnvelope
    BY <1>7 DEF CrawlSendError, EndInv
  <2>4. \A j, k \in 1..Len(images') : images'[j] = images'[k] => j = k
    BY <1>0, <2>1, <2>2, <2>3 DEF ChannelInv
  <2>5. \A k \in 1..Len(images') :
          images'[k] # ErrorEnvelope => images'[k] \in sent' /\ worker'[images'[k]] = "none"
    BY <2>1, <2>2 DEF ChannelInv
  <2>6. pc' = "acquire" /\ image' # ErrorEnvelope =>
          /\ image' \in sent' /\ worker'[image'] = "none"
          /\ \A k \in 1..Len(images') : images'[k] # image'
    BY <2>1, <2>2 DEF ChannelInv
  <2>7. \A i \in sent' : \/ worker'[i] # "none"
                         \/ pc' = "acquire" /\ image' = i
                         \/ \E k \in 1..Len(images') : images'[k] = i
    BY <2>1, <2>2 DEF ChannelInv
  <2>8. QED
    BY <2>1, <2>4, <2>5, <2>6, <2>7 DEF ChannelInv
<1>8. CASE CrawlConnect \/ CrawlCatalog \/ CrawlRepo \/ CrawlTag \/ CrawlClose
  BY <1>1, <1>8 DEF CrawlConnect, CrawlCatalog, CrawlRepo, CrawlTag, CrawlClose
<1>9. CASE Crash \/ Stopped \/ UNCHANGED vars
  BY <1>1, <1>9 DEF Crash, Stopped, vars
<1>10. ASSUME NEW i \in Image, Worker(i) PROVE ChannelInv'
  <2>1. /\ worker[i] # "none" /\ UNCHANGED <<pc, image, images, sent>>
        /\ \A j \in Image : worker'[j] = "none" <=> worker[j] = "none"
    BY <1>0, <1>10 DEF Worker, WorkerScan, WorkerCheck, WorkerLog, WorkerPanic, WorkerDone,
       WorkerRelease
  <2>2. QED
    BY <1>0, <2>1 DEF ChannelInv
<1>11. QED
  BY <1>2, <1>3, <1>4, <1>5, <1>6, <1>7, <1>8, <1>9, <1>10 DEF Next, Main, Crawl

LEMMA RowStep == IInv /\ [Next]_vars => RowInv'
<1> SUFFICES ASSUME IInv, [Next]_vars PROVE RowInv'
  OBVIOUS
<1> USE DEF IInv, mainVars, crawlVars, workerVars, chanVars
<1>0. row \in Row /\ total \in Nat /\ wg \in Nat
  BY DEF TypeOK
<1>1. ASSUME UNCHANGED <<pc, row, wg, crawl, regError, total, failed>> PROVE RowInv'
  BY <1>1 DEF RowInv
<1>2. CASE MainStart
  BY <1>0, <1>2 DEF MainStart, UpdateCrawler, RowInv, EndInv, Row
<1>3. CASE MainReceive \/ MainAcquire
  <2>1. row.status = "started" /\ UNCHANGED <<row, crawl>> /\ row.total = NoTotal
        /\ pc' \in {"receive", "acquire", "report"}
    BY <1>3 DEF MainReceive, MainAcquire, RowInv
  <2>2. QED
    BY <2>1 DEF RowInv
<1>4. CASE MainReport
  <2>1. row' = row \/ row' = FinalRow
    BY <1>4 DEF MainReport, UpdateCrawler
  <2>2. row.status = "started" /\ row.total = NoTotal /\ ~row.error /\ crawl # "unborn"
    BY <1>4 DEF MainReport, RowInv, EndInv
  <2>3. /\ FinalRow.status = "finished"
        /\ FinalRow.total # NoTotal => ~regError /\ FinalRow.total = total /\ FinalRow.failed = failed
    BY <1>0, <2>2 DEF FinalRow, Row
  <2>4. QED
    BY <1>4, <2>1, <2>2, <2>3 DEF MainReport, RowInv
<1>5. CASE Crawl
  <2>1. /\ UNCHANGED <<pc, row, wg, regError, total, failed>>
        /\ crawl # "unborn" => crawl' # "unborn"
    BY <1>5 DEF Crawl, CrawlConnect, CrawlCatalog, CrawlRepo, CrawlTag, CrawlSend,
       CrawlSendError, CrawlClose
  <2>2. QED
    BY <2>1 DEF RowInv
<1>6. CASE Crash \/ Stopped \/ UNCHANGED vars
  BY <1>1, <1>6 DEF Crash, Stopped, vars
<1>7. ASSUME NEW i \in Image, WorkerScan(i) \/ WorkerLog(i) \/ WorkerDone(i) PROVE RowInv'
  <2>1. i \in Awaited
    BY <1>7 DEF WorkerScan, WorkerLog, WorkerDone, Awaited
  <2>2. wg >= 1
    BY <2>1, CountRemove, WorkerSetsType DEF CountInv
  <2>3. row.status # "finished" /\ UNCHANGED <<pc, row>>
    BY <1>7, <2>2 DEF RowInv, WorkerScan, WorkerLog, WorkerDone
  <2>4. QED
    BY <2>3 DEF RowInv
<1>8. ASSUME NEW i \in Image, WorkerCheck(i) \/ WorkerPanic(i) \/ WorkerRelease(i) PROVE RowInv'
  BY <1>1, <1>8 DEF WorkerCheck, WorkerPanic, WorkerRelease
<1>9. QED
  BY <1>2, <1>3, <1>4, <1>5, <1>6, <1>7, <1>8 DEF Next, Main, Worker

\* With one thread two workers are never past their start together.
LEMMA OneWorker ==
    ASSUME IInv, request.maxThreads = 1, NEW i \in Holding, NEW j \in Holding
    PROVE  i = j
<1>1. Holding \in SUBSET Image /\ Cardinality(Holding) \in Nat
  BY WorkerSetsType, ImagesFinite
<1>2. Cardinality(Holding) <= 1
  BY <1>1 DEF IInv, CountInv
<1>3. QED
  BY <1>1, <1>2, AtMostOne

LEMMA SequentialStep == IInv /\ [Next]_vars => SequentialInv'
<1> DEFINE Logged == {i \in bad : worker[i] \notin {"check", "log"}}
<1> SUFFICES ASSUME IInv, [Next]_vars PROVE SequentialInv'
  OBVIOUS
<1> USE DEF IInv, mainVars, crawlVars, workerVars, chanVars
<1>0. /\ worker \in [Image -> WorkerState] /\ bad \subseteq Image /\ err \in BOOLEAN
      /\ failed \in Nat /\ request' = request
  BY RequestFixed DEF TypeOK
<1>1. ASSUME UNCHANGED <<worker, err, bad, failed>> PROVE SequentialInv'
  BY <1>0, <1>1 DEF SequentialInv
<1>2. ASSUME \A i \in Image : worker[i] \notin {"check", "log"}, UNCHANGED <<worker, bad, failed>>
      PROVE  SequentialInv'
  BY <1>0, <1>2 DEF SequentialInv
<1>3. CASE MainStart
  <2>1. \A i \in Image : worker[i] = "none"
    BY <1>3 DEF MainStart, EndInv, ProducerInv, ChannelInv
  <2>2. QED
    BY <1>2, <1>3, <2>1 DEF MainStart
<1>4. CASE MainReport
  <2>1. Awaited = {}
    BY <1>4, CountNone, WorkerSetsType DEF MainReport, CountInv
  <2>2. \A i \in Image : worker[i] \notin {"check", "log"}
    BY <2>1 DEF Awaited
  <2>3. QED
    BY <1>2, <1>4, <2>2 DEF MainReport
<1>5. CASE MainAcquire
  <2>1. CASE image = ErrorEnvelope
    BY <1>1, <1>5, <2>1, ErrorEnvelopeAssumption DEF MainAcquire
  <2>2. CASE image # ErrorEnvelope
    <3>1. image \in Image /\ worker[image] = "none" /\ worker' = [worker EXCEPT ![image] = "scan"]
          /\ UNCHANGED <<err, bad, failed>>
      BY <1>5, <2>2 DEF MainAcquire, ChannelInv, TypeOK
    <3>2. Logged' = Logged
      BY <1>0, <3>1
    <3>3. QED
      BY <1>0, <3>1, <3>2 DEF SequentialInv
  <2>3. QED
    BY <2>1, <2>2
<1>6. ASSUME NEW i \in Image, WorkerScan(i) PROVE SequentialInv'
  <2>1. i \notin bad /\ worker' = [worker EXCEPT ![i] = "check"] /\ failed' = failed
        /\ err' \in BOOLEAN /\ bad' = (IF err' THEN bad \cup {i} ELSE bad) /\ worker[i] = "scan"
    BY <1>6 DEF WorkerScan, SequentialInv
  <2>2. \A j \in Image : worker'[j] \in {"none", "scan"} => j \notin bad'
    BY <1>0, <2>1 DEF SequentialInv
  <2>3. ASSUME request.maxThreads = 1
        PROVE  \A j \in Image : worker'[j] \in {"check", "log"} => j = i
    BY <1>0, <2>1, <2>3, OneWorker DEF Holding
  <2>4. Logged' = Logged
    BY <1>0, <2>1
  <2>5. QED
    BY <1>0, <2>1, <2>2, <2>3, <2>4 DEF SequentialInv
<1>7. ASSUME NEW i \in Image, WorkerCheck(i) PROVE SequentialInv'
  <2>1. worker' = [worker EXCEPT ![i] = IF err THEN "log" ELSE "done"] /\ worker[i] = "check"
        /\ UNCHANGED <<err, bad, failed>>
    BY <1>7 DEF WorkerCheck
  <2>2. ASSUME request.maxThreads = 1 PROVE Logged' = Logged
    BY <1>0, <2>1, <2>2 DEF SequentialInv
  <2>3. QED
    BY <1>0, <2>1, <2>2 DEF SequentialInv
<1>8. ASSUME NEW i \in Image, WorkerLog(i) PROVE SequentialInv'
  <2>1. worker' = [worker EXCEPT ![i] = "done"] /\ worker[i] = "log" /\ failed' = failed + 1
        /\ UNCHANGED <<err, bad>>
    BY <1>8 DEF WorkerLog
  <2>2. ASSUME request.maxThreads = 1
        PROVE  Cardinality(Logged') = Cardinality(Logged) + 1
    <3>1. i \in bad /\ Logged' = Logged \cup {i} /\ i \notin Logged
      BY <1>0, <2>1, <2>2 DEF SequentialInv
    <3>2. QED
      BY <1>0, <3>1, CountAdd
  <2>3. QED
    BY <1>0, <2>1, <2>2 DEF SequentialInv
<1>9. ASSUME NEW i \in Image, WorkerDone(i) \/ WorkerRelease(i) PROVE SequentialInv'
  <2>1. worker[i] \in {"done", "release"} /\ UNCHANGED <<err, bad, failed>>
        /\ \E s \in {"release", "gone"} : worker' = [worker EXCEPT ![i] = s]
    BY <1>9 DEF WorkerDone, WorkerRelease
  <2>2. Logged' = Logged
    BY <1>0, <2>1
  <2>3. QED
    BY <1>0, <2>1, <2>2 DEF SequentialInv
<1>10. ASSUME NEW i \in Image, WorkerPanic(i) PROVE SequentialInv'
  BY <1>1, <1>10 DEF WorkerPanic
<1>11. CASE MainReceive \/ Crawl \/ Crash \/ Stopped \/ UNCHANGED vars
  BY <1>1, <1>11 DEF MainReceive, Crawl, CrawlConnect, CrawlCatalog, CrawlRepo, CrawlTag,
     CrawlSend, CrawlSendError, CrawlClose, Crash, Stopped, vars
<1>12. QED
  BY <1>3, <1>4, <1>5, <1>6, <1>7, <1>8, <1>9, <1>10, <1>11 DEF Next, Main, Worker

\* IInv is an invariant of every crawl.
THEOREM Invariance == Spec => []IInv
<1>1. IInv /\ [Next]_vars => IInv'
  BY TypeStep, CountStep, ProducerStep, ChannelStep, EndStep, RowStep, SequentialStep DEF IInv
<1>2. QED
  BY InitInv, <1>1, PTL DEF Spec

(* ------------------------------------------------------------------------ *)
(* What follows from it. *)

\* Every variable keeps its type.
THEOREM TypeCorrect == Spec => []TypeOK
<1>1. IInv => TypeOK
  BY DEF IInv
<1>2. QED
  BY <1>1, Invariance, PTL

\* However the workers interleave, MaxThreads bounds the scans under way.
THEOREM Bounded == Spec => []ScansBounded
<1>1. ASSUME IInv PROVE ScansBounded
  <2>1. Scanning \subseteq Holding /\ Holding \in SUBSET Image
    BY DEF Scanning, Holding
  <2>2. /\ Cardinality(Scanning) <= Cardinality(Holding)
        /\ Cardinality(Scanning) \in Nat /\ Cardinality(Holding) \in Nat
    BY <2>1, ImagesFinite, FS_Subset
  <2>3. Cardinality(Holding) <= sem /\ sem <= request.maxThreads
    BY <1>1, <2>2 DEF IInv, CountInv
  <2>4. request.maxThreads \in Nat /\ sem \in Nat
    BY <1>1, RequestAssumption DEF IInv, TypeOK
  <2>5. QED
    BY <2>2, <2>3, <2>4 DEF ScansBounded
<1>2. QED
  BY <1>1, Invariance, PTL

\* Once the row is final, no worker is before its Done and every image sent has
\* been scanned.
LEMMA FinalState ==
    ASSUME IInv, row.status = "finished"
    PROVE  /\ images = <<>> /\ crawl \in {"close", "exited"} /\ (crawl = "close" => regError)
           /\ Awaited = {} /\ Scanned = sent
<1>1. pc = "returned" /\ wg = 0 /\ crawl # "unborn"
  BY DEF IInv, RowInv
<1>2. images = <<>> /\ crawl \in {"close", "exited"} /\ (crawl = "close" => regError)
  BY <1>1 DEF IInv, EndInv
<1>3. Awaited = {}
  BY <1>1, CountNone, WorkerSetsType DEF IInv, CountInv
<1>4. sent = {i \in Image : worker[i] # "none"}
  <2>1. Len(images) = 0
    BY <1>2
  <2>2. \A i \in sent : i \in Image /\ worker[i] # "none"
    BY <1>1, <2>1 DEF IInv, ChannelInv, TypeOK
  <2>3. QED
    BY <2>2 DEF IInv, ChannelInv
<1>5. Scanned = sent
  BY <1>3, <1>4 DEF Awaited, Scanned, IInv, TypeOK, WorkerState
<1>6. QED
  BY <1>2, <1>3, <1>5

\* A summary counts every image of the crawl.
THEOREM CompleteSummary == Spec => []SummaryIsComplete
<1>1. ASSUME IInv PROVE SummaryIsComplete
  <2>1. SUFFICES ASSUME row.total # NoTotal
                 PROVE  /\ crawl = "exited" /\ images = <<>> /\ Scanned = sent
                        /\ row.total = Cardinality(sent)
    BY DEF SummaryIsComplete
  <2>2. row.status = "finished" /\ ~regError /\ row.total = total
    BY <1>1, <2>1 DEF IInv, RowInv
  <2>3. total = Cardinality(Scanned)
    BY <1>1 DEF IInv, CountInv
  <2>4. QED
    BY <1>1, <2>2, <2>3, FinalState
<1>2. QED
  BY <1>1, Invariance, PTL

\* An error row leaves no image that was sent unscanned.
THEOREM LastError == Spec => []ErrorIsLast
<1>1. ASSUME IInv PROVE ErrorIsLast
  <2>1. row.error => row.status = "finished"
    BY <1>1 DEF IInv, RowInv
  <2>2. QED
    BY <1>1, <2>1, FinalState DEF ErrorIsLast
<1>2. QED
  BY <1>1, Invariance, PTL

\* With MaxThreads 1 the race on err is harmless: no worker dereferences a nil err,
\* and the failure count is exact.
THEOREM HarmlessErr == Spec => []SharedErrIsHarmless
<1>1. ASSUME IInv PROVE SharedErrIsHarmless
  <2>0. request.maxThreads = 1 => \A i \in Image : worker[i] = "log" => err
    BY <1>1 DEF IInv, SequentialInv
  <2>1. SUFFICES ASSUME request.maxThreads = 1, row.total # NoTotal
                 PROVE  row.failed = Cardinality(bad)
    BY <2>0 DEF SharedErrIsHarmless
  <2>2. row.status = "finished" /\ row.failed = failed
    BY <1>1, <2>1 DEF IInv, RowInv
  <2>3. Awaited = {}
    BY <1>1, <2>2, FinalState
  <2>4. {i \in bad : worker[i] \notin {"check", "log"}} = bad
    BY <1>1, <2>3 DEF Awaited, IInv, TypeOK
  <2>5. failed = Cardinality({i \in bad : worker[i] \notin {"check", "log"}})
    BY <1>1, <2>1 DEF IInv, SequentialInv
  <2>6. QED
    BY <2>2, <2>4, <2>5
<1>2. QED
  BY <1>1, Invariance, PTL

(* ------------------------------------------------------------------------ *)
(* The refinement. *)

Ended == {i \in Image : worker[i] \in {"release", "gone"}}

\* The Cardinality of CrawlJob is that of this module.
LEMMA JobCardinality ==
    ASSUME NEW S
    PROVE  Job!Cardinality(S) = Cardinality(S)
BY DEF Cardinality, Job!Cardinality

\* What the client sees is unchanged.
LEMMA JobStutter ==
    ASSUME UNCHANGED <<row, worker>>
    PROVE  UNCHANGED Job!vars
BY DEF Job!vars, Awaited

\* Every step of a crawl is a step of CrawlJob or leaves its variables alone.
LEMMA JobStep == IInv /\ [Next]_vars => [Job!Next]_(Job!vars)
<1> SUFFICES ASSUME IInv, [Next]_vars PROVE [Job!Next]_(Job!vars)
  OBVIOUS
<1> USE DEF IInv, mainVars, crawlVars, workerVars, chanVars
<1>0. worker \in [Image -> WorkerState]
  BY DEF TypeOK
<1>1. CASE MainStart
  <2>1. row.status = "initializing" /\ UNCHANGED worker
        /\ (row' = row \/ row' = [row EXCEPT !.status = "started"])
    BY <1>1 DEF MainStart, UpdateCrawler, RowInv
  <2>2. CASE row' = row
    BY <2>1, <2>2, JobStutter
  <2>3. CASE row' = [row EXCEPT !.status = "started"]
    <3>1. row'.status = "started" /\ row'.total = row.total
      BY <2>3 DEF TypeOK, Row
    <3>2. UNCHANGED <<Awaited, Ended>>
      BY <2>1 DEF Awaited, Ended
    <3>3. Job!Advance("started")
      BY <2>1, <3>1, <3>2 DEF Job!Advance, Job!Rank, Job!Final, Ended
    <3>4. QED
      BY <3>3 DEF Job!Next, Job!Rank
  <2>4. QED
    BY <2>1, <2>2, <2>3
<1>2. CASE MainAcquire
  <2>1. CASE image = ErrorEnvelope
    BY <1>2, <2>1, JobStutter, ErrorEnvelopeAssumption DEF MainAcquire
  <2>2. CASE image # ErrorEnvelope
    <3>1. image \in Image /\ worker[image] = "none" /\ row.status = "started"
          /\ worker' = [worker EXCEPT ![image] = "scan"] /\ UNCHANGED row
      BY <1>2, <2>2 DEF MainAcquire, ChannelInv, TypeOK, RowInv
    <3>2. /\ Awaited' = Awaited \cup {image} /\ image \notin Awaited
          /\ Ended' = Ended /\ image \notin Ended
      BY <1>0, <3>1 DEF Awaited, Ended
    <3>3. Job!BeginScan(image)
      BY <3>1, <3>2 DEF Job!BeginScan, Job!Final, Ended
    <3>4. QED
      BY <3>1, <3>3 DEF Job!Next
  <2>3. QED
    BY <2>1, <2>2
<1>3. CASE MainReport
  <2>1. row.status = "started" /\ row.total = NoTotal /\ UNCHANGED worker
        /\ (row' = row \/ row' = FinalRow)
    BY <1>3 DEF MainReport, UpdateCrawler, RowInv
  <2>2. CASE row' = row
    BY <2>1, <2>2, JobStutter
  <2>3. CASE row' = FinalRow
    <3>1. Awaited = {} /\ Awaited' = Awaited /\ Ended' = Ended
      BY <1>3, <2>1, CountNone, WorkerSetsType DEF MainReport, CountInv, Awaited, Ended
    <3>2. Scanned = Ended
      BY <3>1 DEF Awaited, Scanned, Ended
    <3>3. row'.status = "finished" /\ row'.total \in {NoTotal, Cardinality(Ended)}
      BY <2>1, <2>3, <3>2 DEF FinalRow, TypeOK, Row, CountInv
    <3>4. Job!Report("finished")
      BY <2>1, <3>1, <3>3, JobCardinality DEF Job!Report, Job!Final, Ended
    <3>5. QED
      BY <3>4 DEF Job!Next, Job!Rank
  <2>4. QED
    BY <2>1, <2>2, <2>3
<1>4. ASSUME NEW i \in Image, WorkerScan(i) \/ WorkerCheck(i) \/ WorkerLog(i) \/ WorkerRelease(i)
      PROVE  UNCHANGED Job!vars
  <2>1. UNCHANGED <<row, Awaited, Ended>>
    BY <1>0, <1>4 DEF WorkerScan, WorkerCheck, WorkerLog, WorkerRelease, Awaited, Ended
  <2>2. QED
    BY <2>1 DEF Job!vars, Ended
<1>5. ASSUME NEW i \in Image, WorkerDone(i) PROVE Job!Next
  <2>1. i \in Awaited /\ Awaited' = Awaited \ {i} /\ Ended' = Ended \cup {i} /\ UNCHANGED row
    BY <1>0, <1>5 DEF WorkerDone, Awaited, Ended
  <2>2. Job!EndScan(i)
    BY <2>1 DEF Job!EndScan, Ended
  <2>3. QED
    BY <2>2 DEF Job!Next
<1>6. ASSUME NEW i \in Image, WorkerPanic(i) PROVE UNCHANGED Job!vars
  BY <1>6, JobStutter DEF WorkerPanic
<1>7. CASE MainReceive \/ Crawl \/ Crash \/ Stopped \/ UNCHANGED vars
  BY <1>7, JobStutter DEF MainReceive, Crawl, CrawlConnect, CrawlCatalog, CrawlRepo, CrawlTag,
     CrawlSend, CrawlSendError, CrawlClose, Crash, Stopped, vars
<1>8. QED
  BY <1>1, <1>2, <1>3, <1>4, <1>5, <1>6, <1>7 DEF Next, Main, Worker

\* The registry crawl implements what a crawl promises to its client.
THEOREM Refinement == Spec => JobSpec
<1>1. Init => Job!Init
  <2>1. Init => Awaited = {} /\ Ended = {}
    BY DEF Init, Awaited, Ended
  <2>2. QED
    BY <2>1 DEF Init, Job!Init, Ended
<1>2. QED
  BY <1>1, JobStep, Invariance, PTL DEF Spec, JobSpec, Job!Spec
=============================================================================
