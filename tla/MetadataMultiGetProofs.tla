----------------------- MODULE MetadataMultiGetProofs -----------------------
(***************************************************************************)
(* Proofs about MetadataMultiGet for every value of its constants: the     *)
(* pool stays well typed, and a successful MultiGet (or ListContents)      *)
(* returns an entry for exactly the requested items.                       *)
(***************************************************************************)
EXTENDS MetadataMultiGet, MetadataManagerProofs, FiniteSetTheorems,
        SequenceTheorems, TLAPS

\* The workers holding an item: fetching it or about to send its result.
Busy == {w \in Workers : wst[w] \in {"fetch", "send"}}

\* Some worker holds the i-th item of the slice.
HeldBy(i) == \E w \in Busy : witem[w] = itemIDs[i]

\* A busy worker holds an item the feeder has handed over.
ItemsFed == \A w \in Busy : \E i \in 1..fed : witem[w] = itemIDs[i]

\* A successful result about to be sent carries data.
ResultsCarryData ==
    \A w \in Workers : wst[w] = "send" /\ wres[w].out = "ok" => wres[w].data # NoBlob

\* Each item handed over is either received or still held by its worker.
ResultsCounted == received + Cardinality(Busy) = fed

\* The map has entries only for requested items.
MapWithinRequest == \A n \in Names : resultMap[n] # NoBlob => n \in Range(itemIDs)

\* While no error was received, every item handed over has an entry or is
\* still held by a worker.
MapCoversFed ==
    resultErr = "nil" =>
        \A i \in 1..fed : resultMap[itemIDs[i]] # NoBlob \/ HeldBy(i)

\* The map is returned only after every result was received, none an error.
ReturnedAfterAll == mgOut = "map" => received = Len(itemIDs) /\ resultErr = "nil"

MGInv ==
    /\ MGTypeOK
    /\ ItemsFed
    /\ ResultsCarryData
    /\ ResultsCounted
    /\ MapWithinRequest
    /\ MapCoversFed
    /\ ReturnedAfterAll

USE MultiGetAssumption

LEMMA BusyFinite == IsFiniteSet(Busy)
  BY FS_Subset DEF Busy

\* A pool step that leaves the manager's variables alone keeps them typed.
LEMMA PoolKeepsManagerTyped == TypeOK /\ UNCHANGED vars => TypeOK'
  BY DEF TypeOK, vars

\* A successful read returns data: a stored plaintext or garbage.
LEMMA OkResultsCarryData ==
    ASSUME TypeOK, NEW id \in Names, NEW r \in GetMetadataResults(id), r.out = "ok"
    PROVE  r.data # NoBlob
<1>1. NoBlob \notin Data \cup {Garbled}
  BY ConstantsAssumption DEF Data, NoBlob, FormatDoc, Garbled
<1>2. storage[id] # Absent /\ decryptBlock(storage[id]).out = "ok" =>
          decryptBlock(storage[id]).data \in Data \cup {Garbled}
  BY DEF TypeOK, decryptBlock, Blob, Absent, Failure
<1>3. QED
  BY <1>1, <1>2 DEF GetMetadataResults, readEncryptedBlock, Failure

\* The slice ListContents builds from a listing of the cache is a sequence
\* of names: a finite set has an enumeration 1..Cardinality onto it.
LEMMA ListTyped ==
    ASSUME NEW matching \in SUBSET Names, cache \subseteq Names
    PROVE  List(matching) \in Seq(Names)
<1> DEFINE S == cache \cap matching
           k == Cardinality(S)
<1>1. IsFiniteSet(S) /\ S \subseteq Names
  BY FS_Subset
<1>2. k \in Nat /\ ExistsBijection(1..k, S)
  BY <1>1, FS_CardinalityType
<1>3. \E s \in [1..k -> S] : Range(s) = S
  <2>1. PICK f \in Bijection(1..k, S) : TRUE
    BY <1>2 DEF ExistsBijection
  <2>2. f \in [1..k -> S] /\ \A t \in S : \E x \in 1..k : f[x] = t
    BY <2>1 DEF Bijection, Surjection
  <2>3. Range(f) = S
    BY <2>2 DEF Range
  <2>4. QED
    BY <2>2, <2>3
<1>4. List(matching) \in [1..k -> S]
  BY <1>3 DEF List
<1>5. [1..k -> S] \subseteq Seq(Names)
  <2> SUFFICES ASSUME NEW f \in [1..k -> S] PROVE f \in Seq(Names)
    OBVIOUS
  <2>1. f \in [1..k -> Names]
    BY <1>1
  <2>2. f \in UNION {[1..n -> Names] : n \in Nat}
    BY <1>2, <2>1
  <2>3. QED
    BY <2>2, SeqDef
<1>6. QED
  BY <1>4, <1>5

LEMMA MGInitInv == MGInit => MGInv
<1> SUFFICES ASSUME MGInit PROVE MGInv
  OBVIOUS
<1>1. TypeOK
  BY ConstantsAssumption
  DEF MGInit, Init, TypeOK, FormatBlob, Blob, Data, Damage, NoRead,
      ReadRecord, Outcomes, Absent
<1>2. Busy = {} /\ Cardinality(Busy) = 0
  BY FS_EmptySet DEF MGInit, Busy
<1>3. NoResult \in Result
  BY DEF NoResult, Failure, Result, Outcomes
<1>4. MGTypeOK
  <2>1. /\ itemIDs \in Seq(Names) /\ fed \in 0..Len(itemIDs)
        /\ received \in 0..Len(itemIDs) /\ errs \in Seq(Outcomes)
    BY DEF MGInit
  <2>2. /\ wst \in [Workers -> {"recv", "fetch", "send", "exit"}]
        /\ witem \in [Workers -> Names \cup {NoBlob}]
        /\ wres \in [Workers -> Result]
    BY <1>3 DEF MGInit
  <2>3. /\ resultErr \in Outcomes \cup {"nil"}
        /\ resultMap \in [Names -> Data \cup {Garbled, NoBlob}]
        /\ mgOut \in {"pending", "map"} \cup Outcomes
        /\ mgPhase \in {"idle", "running", "done", "crashed"}
        /\ inputsOpen \in BOOLEAN
    BY DEF MGInit
  <2>4. QED
    BY <1>1, <2>1, <2>2, <2>3 DEF MGTypeOK
<1>5. ItemsFed /\ ResultsCarryData /\ ResultsCounted
  BY <1>2 DEF MGInit, ItemsFed, ResultsCarryData, ResultsCounted
<1>6. MapWithinRequest /\ MapCoversFed /\ ReturnedAfterAll
  BY DEF MGInit, MapWithinRequest, MapCoversFed, ReturnedAfterAll
<1>7. QED
  BY <1>4, <1>5, <1>6 DEF MGInv

\* MultiGet, and ListContents through it, start a call on a slice of names.
LEMMA StartStep ==
    ASSUME MGInv, NEW ids \in Seq(Names), StartMultiGet(ids) PROVE MGInv'
<1> USE DEF MGInv
<1>1. Busy' = {} /\ Cardinality(Busy') = 0
  BY FS_EmptySet DEF StartMultiGet, Busy
<1>2. MGTypeOK'
  BY PoolKeepsManagerTyped DEF StartMultiGet, MGTypeOK
<1>3. ItemsFed' /\ ResultsCarryData' /\ ResultsCounted'
  BY <1>1 DEF StartMultiGet, ItemsFed, ResultsCarryData, ResultsCounted
<1>4. MapWithinRequest' /\ MapCoversFed' /\ ReturnedAfterAll'
  BY DEF StartMultiGet, MapWithinRequest, MapCoversFed, ReturnedAfterAll
<1>5. QED
  BY <1>2, <1>3, <1>4

\* The feeder hands the next item to an idle worker, which becomes busy.
LEMMA FeedStep ==
    ASSUME MGInv, NEW w \in Workers, Feed(w) PROVE MGInv'
<1> USE DEF MGInv
<1>1. w \notin Busy /\ Busy' = Busy \cup {w}
  BY DEF Feed, Busy, MGTypeOK
<1>2. Cardinality(Busy') = Cardinality(Busy) + 1
  BY <1>1, BusyFinite, FS_AddElement
<1>3. itemIDs[fed + 1] \in Names
  BY DEF Feed, MGTypeOK
<1>4. MGTypeOK'
  BY <1>3, PoolKeepsManagerTyped DEF Feed, MGTypeOK
<1>5. ItemsFed'
  BY <1>1 DEF Feed, ItemsFed, Busy, MGTypeOK
<1>6. ResultsCarryData' /\ ResultsCounted'
  <2>1. ResultsCarryData'
    BY DEF Feed, ResultsCarryData, MGTypeOK
  <2>2. Cardinality(Busy) \in Nat
    BY BusyFinite, FS_CardinalityType
  <2>3. ResultsCounted'
    BY <1>2, <2>2 DEF Feed, ResultsCounted, MGTypeOK
  <2>4. QED
    BY <2>1, <2>3
<1>7. MapWithinRequest' /\ ReturnedAfterAll'
  BY DEF Feed, MapWithinRequest, ReturnedAfterAll
<1>8. MapCoversFed'
  <2> SUFFICES ASSUME resultErr = "nil", NEW i \in 1..fed + 1
               PROVE  resultMap[itemIDs[i]] # NoBlob \/ HeldBy(i)'
    BY DEF Feed, MapCoversFed
  <2>1. CASE i = fed + 1
    BY <1>1, <2>1 DEF Feed, HeldBy, MGTypeOK
  <2>2. CASE i \in 1..fed
    <3>1. HeldBy(i) => HeldBy(i)'
      BY <1>1 DEF Feed, HeldBy, Busy, MGTypeOK
    <3>2. QED
      BY <2>2, <3>1 DEF MapCoversFed
  <2>3. QED
    BY <2>1, <2>2 DEF Feed, MGTypeOK
<1>9. QED
  BY <1>4, <1>5, <1>6, <1>7, <1>8

\* close(inputs) changes nothing a property reads but the flag.
LEMMA CloseInputsStep == MGInv /\ CloseInputs => MGInv'
<1> SUFFICES ASSUME MGInv, CloseInputs PROVE MGInv'
  OBVIOUS
<1> USE DEF MGInv
<1>1. Busy' = Busy
  BY DEF CloseInputs, Busy
<1>2. MGTypeOK'
  BY PoolKeepsManagerTyped DEF CloseInputs, MGTypeOK
<1>3. QED
  BY <1>1, <1>2 DEF CloseInputs, ItemsFed, ResultsCarryData, ResultsCounted,
                    MapWithinRequest, MapCoversFed, HeldBy, ReturnedAfterAll

\* An idle worker whose range loop ended holds nothing.
LEMMA WorkerExitStep ==
    ASSUME MGInv, NEW w \in Workers, WorkerExit(w) PROVE MGInv'
<1> USE DEF MGInv
<1>1. Busy' = Busy
  BY DEF WorkerExit, Busy, MGTypeOK
<1>2. MGTypeOK'
  BY PoolKeepsManagerTyped DEF WorkerExit, MGTypeOK
<1>3. ResultsCarryData'
  BY DEF WorkerExit, ResultsCarryData, MGTypeOK
<1>4. QED
  BY <1>1, <1>2, <1>3 DEF WorkerExit, ItemsFed, ResultsCounted,
                          MapWithinRequest, MapCoversFed, HeldBy, ReturnedAfterAll

\* A busy worker holds a name of the slice.
LEMMA BusyItemTyped ==
    ASSUME MGInv, NEW w \in Busy
    PROVE  witem[w] \in Names /\ witem[w] \in Range(itemIDs)
<1>1. PICK i \in 1..fed : witem[w] = itemIDs[i]
  BY DEF MGInv, ItemsFed
<1>2. i \in DOMAIN itemIDs /\ itemIDs[i] \in Names
  BY DEF MGInv, MGTypeOK
<1>3. QED
  BY <1>1, <1>2 DEF Range

\* GetMetadata's result is kept for the send; a panic crashes the process.
LEMMA FetchStep ==
    ASSUME MGInv, NEW w \in Workers, Fetch(w) PROVE MGInv'
<1> USE DEF MGInv
<1>1. w \in Busy /\ Busy' = Busy
  BY DEF Fetch, Busy, MGTypeOK
<1>2. witem[w] \in Names
  BY <1>1, BusyItemTyped
<1>3. PICK r \in GetMetadataResults(witem[w]) :
          /\ wres' = [wres EXCEPT ![w] = r]
          /\ wst' = [wst EXCEPT ![w] = "send"]
          /\ mgPhase' = IF r.out = "panic" THEN "crashed" ELSE "running"
  BY DEF Fetch
<1>4. r \in Result /\ (r.out = "ok" => r.data # NoBlob)
  BY <1>2, ReadResultsTyped, OkResultsCarryData DEF MGTypeOK
<1>5. MGTypeOK'
  BY <1>3, <1>4, PoolKeepsManagerTyped DEF Fetch, MGTypeOK
<1>6. ResultsCarryData'
  BY <1>3, <1>4 DEF Fetch, ResultsCarryData, MGTypeOK
<1>7. QED
  BY <1>1, <1>5, <1>6 DEF Fetch, ItemsFed, ResultsCounted, MapWithinRequest,
                          MapCoversFed, HeldBy, ReturnedAfterAll

\* One iteration of the caller's loop receives a worker's result.
LEMMA DeliverStep ==
    ASSUME MGInv, NEW w \in Workers, Deliver(w) PROVE MGInv'
<1> USE DEF MGInv
<1> DEFINE id == witem[w]
<1>1. w \in Busy /\ Busy' = Busy \ {w}
  BY DEF Deliver, Busy, MGTypeOK
<1>2. Cardinality(Busy) \in Nat /\ Cardinality(Busy') = Cardinality(Busy) - 1
  BY <1>1, BusyFinite, FS_RemoveElement, FS_CardinalityType
<1>3. id \in Names /\ id \in Range(itemIDs)
  BY <1>1, BusyItemTyped
<1>4. wres[w] \in Result /\ NoResult \in Result
  BY DEF MGTypeOK, NoResult, Failure, Result, Outcomes
<1>5. ItemsFed' /\ ResultsCarryData' /\ ResultsCounted' /\ ReturnedAfterAll'
  <2>1. ItemsFed'
    BY <1>1 DEF Deliver, ItemsFed, Busy
  <2>2. ResultsCarryData'
    BY DEF Deliver, ResultsCarryData, MGTypeOK
  <2>3. ResultsCounted'
    BY <1>2 DEF Deliver, ResultsCounted, MGTypeOK
  <2>4. ReturnedAfterAll'
    BY DEF Deliver, ReturnedAfterAll
  <2>5. QED
    BY <2>1, <2>2, <2>3, <2>4
<1>6. CASE wres[w].out # "ok"
  <2>1. resultErr' = wres[w].out /\ resultErr' \in Outcomes /\ resultErr' # "nil"
    BY <1>4, <1>6 DEF Deliver, Result, Outcomes
  <2>2. MGTypeOK'
    <3>0. errs' = Append(errs, wres[w].out) /\ UNCHANGED resultMap
      BY <1>6 DEF Deliver
    <3>1. errs' \in Seq(Outcomes)
      BY <2>1, <3>0 DEF MGTypeOK
    <3>2. /\ received' \in 0..Len(itemIDs')
          /\ wst' \in [Workers -> {"recv", "fetch", "send", "exit"}]
          /\ witem' \in [Workers -> Names \cup {NoBlob}]
          /\ wres' \in [Workers -> Result]
      BY <1>4 DEF Deliver, MGTypeOK
    <3>3. QED
      BY <2>1, <3>0, <3>1, <3>2, PoolKeepsManagerTyped DEF Deliver, MGTypeOK
  <2>3. MapWithinRequest' /\ MapCoversFed'
    BY <1>6, <2>1 DEF Deliver, MapWithinRequest, MapCoversFed
  <2>4. QED
    BY <1>5, <2>2, <2>3
<1>7. CASE wres[w].out = "ok"
  <2>1. /\ resultMap' = [resultMap EXCEPT ![id] = wres[w].data]
        /\ UNCHANGED <<resultErr, errs>>
    BY <1>7 DEF Deliver
  <2>2. wres[w].data # NoBlob /\ wres[w].data \in Data \cup {Garbled, NoBlob}
    BY <1>1, <1>4, <1>7 DEF Deliver, ResultsCarryData, Busy, Result
  <2>3. MGTypeOK'
    BY <1>3, <1>4, <2>1, <2>2, PoolKeepsManagerTyped DEF Deliver, MGTypeOK
  <2>4. MapWithinRequest'
    BY <1>3, <2>1 DEF Deliver, MapWithinRequest, MGTypeOK
  <2>5. MapCoversFed'
    <3> SUFFICES ASSUME resultErr = "nil", NEW i \in 1..fed
                 PROVE  resultMap'[itemIDs[i]] # NoBlob \/ HeldBy(i)'
      BY <2>1 DEF Deliver, MapCoversFed
    <3>1. itemIDs[i] \in Names
      BY DEF MGTypeOK
    <3>2. resultMap[itemIDs[i]] # NoBlob => resultMap'[itemIDs[i]] # NoBlob
      BY <2>1, <2>2, <3>1 DEF MGTypeOK
    <3>3. HeldBy(i) => resultMap'[itemIDs[i]] # NoBlob \/ HeldBy(i)'
      BY <1>1, <2>1, <2>2, <1>3 DEF Deliver, HeldBy, MGTypeOK
    <3>4. QED
      BY <3>2, <3>3 DEF MapCoversFed
  <2>6. QED
    BY <1>5, <2>3, <2>4, <2>5
<1>8. QED
  BY <1>6, <1>7

\* The loop ends after len(itemIDs) results.
LEMMA ReturnStep == MGInv /\ Return => MGInv'
<1> SUFFICES ASSUME MGInv, Return PROVE MGInv'
  OBVIOUS
<1> USE DEF MGInv
<1>1. Busy' = Busy
  BY DEF Return, Busy
<1>2. MGTypeOK'
  BY PoolKeepsManagerTyped DEF Return, MGTypeOK
<1>3. ReturnedAfterAll'
  BY DEF Return, ReturnedAfterAll, MGTypeOK, Outcomes
<1>4. QED
  BY <1>1, <1>2, <1>3 DEF Return, ItemsFed, ResultsCarryData, ResultsCounted,
                          MapWithinRequest, MapCoversFed, HeldBy

\* Writes of other goroutines and clients leave the pool alone.
LEMMA OtherStepStep == MGInv /\ OtherStep => MGInv'
<1> SUFFICES ASSUME MGInv, OtherStep PROVE MGInv'
  OBVIOUS
<1> USE DEF MGInv
<1>1. Next
  BY DEF OtherStep, OtherWrite, Next, ManagerNext, EnvironmentNext
<1>2. TypeOK'
  BY <1>1, TypeStep DEF MGTypeOK
<1>3. MGTypeOK'
  BY <1>2 DEF OtherStep, MGTypeOK
<1>4. QED
  BY <1>3 DEF OtherStep, ItemsFed, ResultsCarryData, ResultsCounted, Busy,
              MapWithinRequest, MapCoversFed, HeldBy, ReturnedAfterAll

LEMMA MGStep == MGInv /\ [MGNext]_allVars => MGInv'
<1> SUFFICES ASSUME MGInv, [MGNext]_allVars PROVE MGInv'
  OBVIOUS
<1>1. ASSUME NEW ids \in Requests, StartMultiGet(ids) PROVE MGInv'
  BY <1>1, StartStep
<1>2. ASSUME NEW matching \in SUBSET Names, StartMultiGet(List(matching))
      PROVE  MGInv'
  <2>1. List(matching) \in Seq(Names)
    BY ListTyped DEF MGInv, MGTypeOK, TypeOK
  <2>2. QED
    BY <1>2, <2>1, StartStep
<1>3. ASSUME NEW w \in Workers,
             Feed(w) \/ WorkerExit(w) \/ Fetch(w) \/ Deliver(w)
      PROVE  MGInv'
  BY <1>3, FeedStep, WorkerExitStep, FetchStep, DeliverStep
<1>4. CASE CloseInputs \/ Return \/ OtherStep
  BY <1>4, CloseInputsStep, ReturnStep, OtherStepStep
<1>5. CASE UNCHANGED allVars
  BY <1>5 DEF allVars, vars, mgVars, MGInv, MGTypeOK, TypeOK, ItemsFed,
              ResultsCarryData, ResultsCounted, MapWithinRequest,
              MapCoversFed, HeldBy, ReturnedAfterAll, Busy
<1>6. QED
  BY <1>1, <1>2, <1>3, <1>4, <1>5 DEF MGNext, MultiGet, ListContents, PoolStep

\* MultiGet's pool keeps its variables typed, for every pool size and every
\* slice a caller or ListContents passes.
THEOREM MGTypeCorrect == MGSpec => []MGTypeOK
<1>1. MGInv => MGTypeOK
  BY DEF MGInv
<1>2. QED
  BY <1>1, MGInitInv, MGStep, PTL DEF MGSpec

\* Once the map is returned, every result has been received and none was
\* an error, so no worker holds an item and each one handed over has its
\* entry; entries are only ever made for requested items.
LEMMA InvImpliesComplete == MGInv => MultiGetComplete
<1> SUFFICES ASSUME MGInv, mgOut = "map"
             PROVE  {n \in Names : resultMap[n] # NoBlob} = Range(itemIDs)
  BY DEF MultiGetComplete
<1> USE DEF MGInv
<1>1. received = Len(itemIDs) /\ resultErr = "nil"
  BY DEF ReturnedAfterAll
<1>2. Cardinality(Busy) \in Nat
  BY BusyFinite, FS_CardinalityType
<1>3. fed = Len(itemIDs) /\ Cardinality(Busy) = 0
  BY <1>1, <1>2 DEF ResultsCounted, MGTypeOK
<1>4. Busy = {}
  BY <1>3, BusyFinite, FS_EmptySet
<1>5. \A i \in 1..Len(itemIDs) : resultMap[itemIDs[i]] # NoBlob
  BY <1>1, <1>3, <1>4 DEF MapCoversFed, HeldBy
<1>6. Range(itemIDs) \subseteq {n \in Names : resultMap[n] # NoBlob}
  BY <1>5 DEF Range, MGTypeOK
<1>7. QED
  BY <1>6 DEF MapWithinRequest

\* A successful MultiGet or ListContents returns an entry for exactly the
\* requested items, whatever the pool size, the slice and the concurrent
\* writes of other goroutines and clients.
THEOREM MultiGetCompleteHolds == MGSpec => []MultiGetComplete
  BY InvImpliesComplete, MGInitInv, MGStep, PTL DEF MGSpec

\* The inductive invariant itself holds in every reachable state.
THEOREM MGInvariant == MGSpec => []MGInv
  BY MGInitInv, MGStep, PTL DEF MGSpec
====
