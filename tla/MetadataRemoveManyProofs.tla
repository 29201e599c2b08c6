--------------------- MODULE MetadataRemoveManyProofs ---------------------
(***************************************************************************)
(* Proofs about MetadataRemoveMany for every number of workers and every   *)
(* slice of item IDs: errch, buffered to len(itemIDs), never makes a       *)
(* worker wait.                                                            *)
(***************************************************************************)
EXTENDS MetadataRemoveMany, MetadataManagerProofs, FiniteSetTheorems, TLAPS

USE RemoveManyAssumption

\* The workers holding an item taken from ch whose error, if any, is not
\* yet in errch.
Busy == {w \in RemoveWorkers : rst[w] \in {"remove", "senderr"}}

\* The shape of the pool state the counting argument needs.
PoolTyped ==
    /\ rmIDs \in Seq(Names)
    /\ rmFed \in 0..Len(rmIDs)
    /\ rst \in [RemoveWorkers -> {"recv", "remove", "senderr", "exit"}]
    /\ rerr \in [RemoveWorkers -> RemoveErrors \cup {"nil"}]
    /\ errch \in Seq(RemoveErrors \cup {"nil"})

\* Every buffered error and every busy worker accounts for a distinct item
\* already sent on ch, so errch never holds more than len(itemIDs) errors
\* plus pending ones.
ErrchInv ==
    /\ PoolTyped
    /\ Len(errch) + Cardinality(Busy) <= rmFed
    /\ ErrchNeverBlocks

LEMMA BusyFinite == IsFiniteSet(Busy)
  BY FS_Subset DEF Busy

\* A worker's state changes from outside Busy to inside it, or back.
LEMMA BusyJoin ==
    ASSUME PoolTyped, NEW w \in RemoveWorkers, rst[w] \notin {"remove", "senderr"},
           NEW v \in {"remove", "senderr"}, rst' = [rst EXCEPT ![w] = v]
    PROVE  Cardinality(Busy') = Cardinality(Busy) + 1
<1>1. Busy' = Busy \cup {w}
  BY DEF Busy, PoolTyped
<1>2. w \notin Busy
  BY DEF Busy
<1>3. QED
  BY <1>1, <1>2, BusyFinite, FS_AddElement

LEMMA BusyLeave ==
    ASSUME PoolTyped, NEW w \in RemoveWorkers, rst[w] \in {"remove", "senderr"},
           NEW v \in {"recv", "exit"}, rst' = [rst EXCEPT ![w] = v]
    PROVE  Cardinality(Busy') = Cardinality(Busy) - 1
<1>1. Busy' = Busy \ {w}
  BY DEF Busy, PoolTyped
<1>2. w \in Busy
  BY DEF Busy
<1>3. QED
  BY <1>1, <1>2, BusyFinite, FS_RemoveElement

LEMMA BusyStay ==
    ASSUME PoolTyped, NEW w \in RemoveWorkers, NEW v,
           (rst[w] \in {"remove", "senderr"}) <=> (v \in {"remove", "senderr"}),
           rst' = [rst EXCEPT ![w] = v]
    PROVE  Busy' = Busy
  BY DEF Busy, PoolTyped

\* Each step of RemoveMany, of its workers and of the other callers keeps
\* the count of buffered errors and busy workers within the items sent.
LEMMA ErrchStep == ErrchInv /\ [RMNext]_rmAllVars => ErrchInv'
<1> SUFFICES ASSUME ErrchInv, [RMNext]_rmAllVars PROVE ErrchInv'
  OBVIOUS
<1> USE DEF ErrchInv, PoolTyped
<1>1. PoolTyped' /\ Len(errch') + Cardinality(Busy') <= rmFed' => ErrchInv'
  <2> SUFFICES ASSUME PoolTyped', Len(errch') + Cardinality(Busy') <= rmFed',
                      NEW w \in RemoveWorkers, rst'[w] = "senderr"
               PROVE  Len(errch') < Len(rmIDs')
    BY DEF ErrchNeverBlocks, ErrchCapacity
  <2>1. IsFiniteSet(Busy') /\ w \in Busy'
    BY FS_Subset DEF Busy
  <2>2. Cardinality(Busy') >= 1
    BY <2>1, FS_EmptySet, FS_CardinalityType
  <2>3. QED
    BY <2>2, <2>1, FS_CardinalityType
<1>2. ASSUME NEW ids \in RemoveRequests, StartRemoveMany(ids) PROVE ErrchInv'
  <2>1. Busy' = {}
    BY <1>2 DEF StartRemoveMany, Busy
  <2>2. QED
    BY <1>1, <1>2, <2>1, FS_EmptySet DEF StartRemoveMany
<1>3. ASSUME NEW w \in RemoveWorkers, SendID(w) PROVE ErrchInv'
  <2>1. Cardinality(Busy') = Cardinality(Busy) + 1
    BY <1>3, BusyJoin DEF SendID
  <2>2. QED
    BY <1>1, <1>3, <2>1, BusyFinite, FS_CardinalityType DEF SendID
<1>4. ASSUME NEW w \in RemoveWorkers, RemoveItem(w) PROVE ErrchInv'
  <2>1. CASE rst'[w] = "recv"
    <3>1. Cardinality(Busy') = Cardinality(Busy) - 1
      BY <1>4, <2>1, BusyLeave DEF RemoveItem
    <3>2. QED
      BY <1>1, <1>4, <2>1, <3>1, BusyFinite, FS_CardinalityType DEF RemoveItem
  <2>2. CASE rst'[w] = "senderr"
    <3>1. rst[w] = "remove" /\ rst' = [rst EXCEPT ![w] = "senderr"]
      BY <1>4, <2>2 DEF RemoveItem
    <3>2. Busy' = Busy
      BY <3>1, BusyStay
    <3>3. QED
      BY <1>1, <1>4, <3>2 DEF RemoveItem
  <2>3. QED
    BY <1>4, <2>1, <2>2 DEF RemoveItem
<1>5. ASSUME NEW w \in RemoveWorkers, SendErr(w) PROVE ErrchInv'
  <2>1. Cardinality(Busy') = Cardinality(Busy) - 1
    BY <1>5, BusyLeave DEF SendErr
  <2>3. QED
    BY <1>1, <1>5, <2>1, BusyFinite, FS_CardinalityType DEF SendErr
<1>6. ASSUME NEW w \in RemoveWorkers, WorkerDone(w) PROVE ErrchInv'
  <2>1. rst[w] = "recv" /\ rst' = [rst EXCEPT ![w] = "exit"]
    BY <1>6 DEF WorkerDone
  <2>3. Busy' = Busy
    BY <2>1, BusyStay
  <2>2. QED
    BY <1>1, <1>6, <2>3 DEF WorkerDone
<1>7. CASE CloseCh \/ Finish \/ OtherRmStep \/ UNCHANGED rmAllVars
  <2>1. UNCHANGED <<rmIDs, rmFed, rst, rerr, errch>>
    BY <1>7 DEF CloseCh, Finish, OtherRmStep, rmVars, rmAllVars
  <2>2. QED
    BY <1>1, <2>1 DEF Busy
<1>8. QED
  BY <1>2, <1>3, <1>4, <1>5, <1>6, <1>7 DEF RMNext, RemoveMany

\* For every number of workers and every slice of item IDs: no RemoveMany
\* worker ever blocks sending its error on errch, because make(chan error,
\* len(itemIDs)) leaves a slot for every item that can fail.
LEMMA ErrchInitInv == RMInit => ErrchInv
<1> SUFFICES ASSUME RMInit PROVE ErrchInv
  OBVIOUS
<1>1. Busy = {}
  BY DEF RMInit, Busy
<1>2. QED
  BY <1>1, FS_EmptySet DEF RMInit, ErrchInv, PoolTyped, ErrchNeverBlocks

\* No worker ever waits on a full errch: buffered errors plus workers that
\* may still send one never exceed the items sent, hence len(itemIDs).
THEOREM ErrchSafe == RMSpec => []ErrchNeverBlocks
<1>1. ErrchInv => ErrchNeverBlocks
  BY DEF ErrchInv
<1>2. QED
  BY <1>1, ErrchInitInv, ErrchStep, PTL DEF RMSpec

\* The error-count invariant the removemany_inductive run checks holds in
\* every reachable state, for every pool size and slice.
THEOREM ErrchInvariant == RMSpec => []ErrchInv
  BY ErrchInitInv, ErrchStep, PTL DEF RMSpec

-----------------------------------------------------------------------------
(* The outcome of RemoveMany.  RMTypeOK and RemoveManyOutcome rest on how  *)
(* the WaitGroup counts the workers and on where each item sent on ch can  *)
(* be: removed, its error in errch, or still held by a worker.             *)

NotExited == {w \in RemoveWorkers : rst[w] # "exit"}

\* A worker holds the i-th item: it is removing it or about to send its error.
Holds(i) ==
    \E w \in RemoveWorkers : rst[w] \in {"remove", "senderr"} /\ ritem[w] = rmIDs[i]

ErrorsHeld == \A w \in RemoveWorkers : rst[w] = "senderr" => rerr[w] \in RemoveErrors
ItemsHeld == \A w \in RemoveWorkers : rst[w] \in {"remove", "senderr"} => ritem[w] \in Names
WaitGroupCounts == wg = Cardinality(NotExited)

PhaseFacts ==
    /\ rmPhase = "idle" =>
          NotExited = {} /\ rmIDs = <<>> /\ errch = <<>> /\ rmOut = "pending"
    /\ rmPhase \in {"waiting", "done"} => rmFed = Len(rmIDs) /\ ~chOpen
    /\ rmPhase = "feeding" => chOpen
    /\ rmPhase = "done" => wg = 0 /\ (rmOut = "nil" <=> errch = <<>>)

\* Every item sent on ch is removed, has its error buffered, or is held.
ItemsAccounted ==
    \A i \in 1..rmFed : rmIDs[i] \in removed \/ errch # <<>> \/ Holds(i)

RMInv ==
    /\ RMTypeOK /\ ErrorsHeld /\ ItemsHeld /\ WaitGroupCounts
    /\ PhaseFacts /\ ItemsAccounted

LEMMA NotExitedFinite == IsFiniteSet(NotExited)
  BY FS_Subset DEF NotExited

LEMMA RMInitInv == RMInit => RMInv
<1> SUFFICES ASSUME RMInit PROVE RMInv
  OBVIOUS
<1>1. TypeOK
  BY ConstantsAssumption
  DEF RMInit, Init, TypeOK, FormatBlob, Blob, Data, Damage, NoRead,
      ReadRecord, Outcomes, Absent
<1>2. NotExited = {}
  BY DEF RMInit, NotExited
<1>3. Cardinality(NotExited) = 0 /\ Cardinality(RemoveWorkers) \in Nat
  BY <1>2, FS_EmptySet, FS_CardinalityType
<1>4. RMTypeOK
  <2>1. rmIDs \in Seq(Names) /\ rmFed \in 0..Len(rmIDs) /\ errch \in Seq(RemoveErrors)
    BY DEF RMInit
  <2>2. /\ rst \in [RemoveWorkers -> {"recv", "remove", "senderr", "exit"}]
        /\ ritem \in [RemoveWorkers -> Names \cup {NoBlob}]
        /\ rerr \in [RemoveWorkers -> RemoveErrors \cup {"nil"}]
    BY DEF RMInit
  <2>3. wg \in 0..Cardinality(RemoveWorkers)
    BY <1>3 DEF RMInit
  <2>4. QED
    BY <1>1, <2>1, <2>2, <2>3 DEF RMInit, RMTypeOK, RemoveErrors
<1>5. ErrorsHeld /\ ItemsHeld /\ WaitGroupCounts
  BY <1>3 DEF RMInit, ErrorsHeld, ItemsHeld, WaitGroupCounts
<1>6. PhaseFacts /\ ItemsAccounted
  BY <1>2 DEF RMInit, PhaseFacts, ItemsAccounted
<1>7. QED
  BY <1>4, <1>5, <1>6 DEF RMInv

\* A step that leaves the manager's variables alone keeps them typed.
LEMMA ManagerUnchanged == TypeOK /\ UNCHANGED vars => TypeOK'
  BY DEF TypeOK, vars

\* No worker is running once the WaitGroup is at zero.
LEMMA NoneRunning ==
    ASSUME WaitGroupCounts, wg = 0
    PROVE  \A w \in RemoveWorkers : rst[w] = "exit"
<1>1. NotExited = {}
  BY NotExitedFinite, FS_EmptySet DEF WaitGroupCounts
<1>2. QED
  BY <1>1 DEF NotExited

LEMMA SendIDStep ==
    ASSUME RMInv, NEW w \in RemoveWorkers, SendID(w) PROVE RMInv'
<1> USE DEF RMInv
<1>1. NotExited' = NotExited
  BY DEF SendID, NotExited, RMTypeOK
<1>2. ritem'[w] \in Names
  BY DEF SendID, RMTypeOK
<1>3. RMTypeOK'
  BY <1>2, ManagerUnchanged DEF SendID, RMTypeOK
<1>4. ErrorsHeld' /\ ItemsHeld' /\ WaitGroupCounts' /\ PhaseFacts'
  BY <1>1, <1>2 DEF SendID, RMTypeOK, ErrorsHeld, ItemsHeld, WaitGroupCounts,
                    PhaseFacts
<1>5. ItemsAccounted'
  <2> SUFFICES ASSUME NEW i \in 1..rmFed'
               PROVE  rmIDs'[i] \in removed' \/ errch' # <<>> \/ Holds(i)'
    BY DEF ItemsAccounted
  <2>1. CASE i = rmFed + 1
    BY <2>1 DEF SendID, Holds, RMTypeOK
  <2>2. CASE i \in 1..rmFed
    <3>1. Holds(i) => Holds(i)'
      BY DEF SendID, Holds, RMTypeOK
    <3>2. QED
      BY <2>2, <3>1 DEF ItemsAccounted, SendID
  <2>3. QED
    BY <2>1, <2>2 DEF SendID, RMTypeOK
<1>6. QED
  BY <1>3, <1>4, <1>5

LEMMA RemoveItemStep ==
    ASSUME RMInv, NEW w \in RemoveWorkers, RemoveItem(w) PROVE RMInv'
<1> USE DEF RMInv
<1> DEFINE id == ritem[w]
<1>1. id \in Names
  BY DEF RemoveItem, ItemsHeld
<1>2. NotExited' = NotExited
  BY DEF RemoveItem, NotExited, RMTypeOK
<1>3. NoRead \in ReadRecord /\ lastRead' = NoRead
  BY DEF RemoveItem, NoRead, ReadRecord, Outcomes
<1>4. UNCHANGED <<rmPhase, rmIDs, rmFed, chOpen, wg, errch, rmOut>>
  BY DEF RemoveItem
<1>5. CASE /\ storage' = [storage EXCEPT ![id] = Absent]
           /\ cache' = cache \ {id}
           /\ written' = [written EXCEPT ![id] = NoBlob]
           /\ removed' = removed \cup {id}
           /\ rst' = [rst EXCEPT ![w] = "recv"]
           /\ ritem' = [ritem EXCEPT ![w] = NoBlob]
           /\ UNCHANGED rerr
  <2>0. TypeOK'
    BY <1>1, <1>3, <1>5 DEF RMTypeOK, TypeOK, Absent
  <2>1. RMTypeOK' /\ ErrorsHeld' /\ ItemsHeld' /\ WaitGroupCounts' /\ PhaseFacts'
    BY <2>0, <1>1, <1>2, <1>4, <1>5
    DEF RMTypeOK, ErrorsHeld, ItemsHeld, WaitGroupCounts, PhaseFacts
  <2>2. ItemsAccounted'
    <3> SUFFICES ASSUME NEW i \in 1..rmFed
                 PROVE  rmIDs[i] \in removed' \/ errch # <<>> \/ Holds(i)'
      BY <1>4 DEF ItemsAccounted
    <3>1. CASE rmIDs[i] = id
      BY <1>5, <3>1
    <3>2. CASE rmIDs[i] # id
      <4>1. Holds(i) => Holds(i)'
        BY <1>4, <1>5, <3>2 DEF Holds, RMTypeOK
      <4>2. QED
        BY <1>5, <4>1 DEF ItemsAccounted
    <3>3. QED
      BY <3>1, <3>2
  <2>3. QED
    BY <2>1, <2>2
<1>6. CASE /\ \E e \in RemoveErrors :
                 /\ e = "invalid" <=> isReservedName(id)
                 /\ e = "ioerror" => Faults
                 /\ rerr' = [rerr EXCEPT ![w] = e]
           /\ rst' = [rst EXCEPT ![w] = "senderr"]
           /\ UNCHANGED <<storage, cache, written, removed, ritem>>
  <2>0. TypeOK'
    BY <1>3, <1>6 DEF RMTypeOK, TypeOK
  <2>1. RMTypeOK' /\ ErrorsHeld' /\ ItemsHeld' /\ WaitGroupCounts' /\ PhaseFacts'
    BY <2>0, <1>1, <1>2, <1>4, <1>6
    DEF RMTypeOK, ErrorsHeld, ItemsHeld, WaitGroupCounts, PhaseFacts
  <2>2. ItemsAccounted'
    <3> SUFFICES ASSUME NEW i \in 1..rmFed
                 PROVE  rmIDs[i] \in removed' \/ errch # <<>> \/ Holds(i)'
      BY <1>4 DEF ItemsAccounted
    <3>1. Holds(i) => Holds(i)'
      BY <1>4, <1>6 DEF Holds, RMTypeOK
    <3>2. QED
      BY <1>6, <3>1 DEF ItemsAccounted
  <2>3. QED
    BY <2>1, <2>2
<1>7. QED
  BY <1>5, <1>6 DEF RemoveItem

\* A worker about to send an error is not exited, so the call is running.
LEMMA SendErrStep ==
    ASSUME RMInv, NEW w \in RemoveWorkers, SendErr(w) PROVE RMInv'
<1> USE DEF RMInv
<1>1. NotExited' = NotExited
  BY DEF SendErr, NotExited, RMTypeOK
<1>2. rmPhase \in {"feeding", "waiting"}
  <2>1. w \in NotExited
    BY DEF SendErr, NotExited
  <2>2. rmPhase # "idle"
    BY <2>1 DEF PhaseFacts
  <2>3. rmPhase # "done"
    BY NoneRunning DEF PhaseFacts, SendErr
  <2>4. QED
    BY <2>2, <2>3 DEF RMTypeOK
<1>3. errch' \in Seq(RemoveErrors) /\ errch' # <<>>
  BY DEF SendErr, ErrorsHeld, RMTypeOK
<1>4. RMTypeOK'
  BY <1>3, ManagerUnchanged DEF SendErr, RMTypeOK
<1>5. ErrorsHeld' /\ ItemsHeld' /\ WaitGroupCounts'
  BY <1>1 DEF SendErr, RMTypeOK, ErrorsHeld, ItemsHeld, WaitGroupCounts
<1>6. PhaseFacts'
  BY <1>2 DEF SendErr, PhaseFacts
<1>7. ItemsAccounted'
  BY <1>3 DEF SendErr, ItemsAccounted
<1>8. QED
  BY <1>4, <1>5, <1>6, <1>7

\* The deferred wg.Done(): the counter and the running workers drop by one.
LEMMA WorkerDoneStep ==
    ASSUME RMInv, NEW w \in RemoveWorkers, WorkerDone(w) PROVE RMInv'
<1> USE DEF RMInv
<1>1. w \in NotExited /\ NotExited' = NotExited \ {w}
  BY DEF WorkerDone, NotExited, RMTypeOK
<1>2. Cardinality(NotExited') = Cardinality(NotExited) - 1
  BY <1>1, NotExitedFinite, FS_RemoveElement
<1>3. IsFiniteSet(NotExited') /\ Cardinality(NotExited') \in Nat
  BY <1>1, NotExitedFinite, FS_RemoveElement, FS_CardinalityType
<1>4. Cardinality(NotExited') <= Cardinality(RemoveWorkers)
  <2>1. NotExited' \subseteq RemoveWorkers
    BY DEF NotExited
  <2>2. QED
    BY <2>1, FS_Subset
<1>5. wg' = Cardinality(NotExited')
  BY <1>2 DEF WorkerDone, WaitGroupCounts
<1>6. rmPhase = "waiting"
  <2>1. rmPhase # "done"
    BY NoneRunning DEF PhaseFacts, WorkerDone
  <2>2. QED
    BY <2>1 DEF WorkerDone
<1>7. RMTypeOK'
  BY <1>3, <1>4, <1>5, ManagerUnchanged DEF WorkerDone, RMTypeOK
<1>8. ErrorsHeld' /\ ItemsHeld' /\ WaitGroupCounts'
  BY <1>5 DEF WorkerDone, RMTypeOK, ErrorsHeld, ItemsHeld, WaitGroupCounts
<1>9. PhaseFacts'
  BY <1>6 DEF WorkerDone, PhaseFacts
<1>10. ItemsAccounted'
  <2>1. \A i \in 1..rmFed : Holds(i) => Holds(i)'
    BY DEF WorkerDone, Holds, RMTypeOK
  <2>2. QED
    BY <2>1 DEF WorkerDone, ItemsAccounted
<1>11. QED
  BY <1>7, <1>8, <1>9, <1>10

LEMMA CloseChStep == RMInv /\ CloseCh => RMInv'
<1> SUFFICES ASSUME RMInv, CloseCh PROVE RMInv'
  OBVIOUS
<1> USE DEF RMInv
<1>1. NotExited' = NotExited
  BY DEF CloseCh, NotExited
<1>2. RMTypeOK'
  BY ManagerUnchanged DEF CloseCh, RMTypeOK
<1>3. ErrorsHeld' /\ ItemsHeld' /\ WaitGroupCounts' /\ PhaseFacts'
  BY <1>1 DEF CloseCh, ErrorsHeld, ItemsHeld, WaitGroupCounts, PhaseFacts
<1>4. ItemsAccounted'
  BY DEF CloseCh, ItemsAccounted, Holds
<1>5. QED
  BY <1>2, <1>3, <1>4

\* return <-errch: nil exactly when no error was buffered.
LEMMA FinishStep == RMInv /\ Finish => RMInv'
<1> SUFFICES ASSUME RMInv, Finish PROVE RMInv'
  OBVIOUS
<1> USE DEF RMInv
<1>1. NotExited' = NotExited
  BY DEF Finish, NotExited
<1>2. errch # <<>> => Head(errch) \in RemoveErrors
  BY DEF RMTypeOK
<1>3. rmOut' \in {"pending", "nil"} \cup RemoveErrors
      /\ (rmOut' = "nil" <=> errch' = <<>>)
  BY <1>2 DEF Finish, RemoveErrors
<1>4. RMTypeOK'
  BY <1>3, ManagerUnchanged DEF Finish, RMTypeOK
<1>5. ErrorsHeld' /\ ItemsHeld' /\ WaitGroupCounts'
  BY <1>1 DEF Finish, ErrorsHeld, ItemsHeld, WaitGroupCounts
<1>6. PhaseFacts'
  BY <1>3 DEF Finish, PhaseFacts
<1>7. ItemsAccounted'
  BY DEF Finish, ItemsAccounted, Holds
<1>8. QED
  BY <1>4, <1>5, <1>6, <1>7

\* wg.Add(1) for each worker before it starts.
LEMMA StartStep ==
    ASSUME RMInv, NEW ids \in RemoveRequests, StartRemoveMany(ids) PROVE RMInv'
<1> USE DEF RMInv
<1>1. NotExited' = RemoveWorkers
  BY DEF StartRemoveMany, NotExited
<1>2. Cardinality(RemoveWorkers) \in Nat
  BY RemoveManyAssumption, FS_CardinalityType
<1>3. ids \in Seq(Names)
  BY RemoveManyAssumption
<1>4. RMTypeOK'
  BY <1>2, <1>3, ManagerUnchanged DEF StartRemoveMany, RMTypeOK
<1>5. ErrorsHeld' /\ ItemsHeld' /\ WaitGroupCounts'
  BY <1>1 DEF StartRemoveMany, ErrorsHeld, ItemsHeld, WaitGroupCounts
<1>6. PhaseFacts' /\ ItemsAccounted'
  BY DEF StartRemoveMany, PhaseFacts, ItemsAccounted
<1>7. QED
  BY <1>4, <1>5, <1>6

\* Writes of other goroutines and clients touch no variable of the call.
LEMMA OtherStep == RMInv /\ OtherRmStep => RMInv'
<1> SUFFICES ASSUME RMInv, OtherRmStep PROVE RMInv'
  OBVIOUS
<1> USE DEF RMInv
<1>1. Next
  BY DEF OtherRmStep, Next, ManagerNext, EnvironmentNext
<1>2. TypeOK'
  BY <1>1, TypeStep DEF RMTypeOK
<1>3. RMTypeOK'
  BY <1>2 DEF OtherRmStep, rmVars, RMTypeOK
<1>4. ErrorsHeld' /\ ItemsHeld' /\ WaitGroupCounts' /\ PhaseFacts'
      /\ ItemsAccounted'
  BY DEF OtherRmStep, rmVars, ErrorsHeld, ItemsHeld, WaitGroupCounts,
         PhaseFacts, ItemsAccounted, Holds, NotExited
<1>5. QED
  BY <1>3, <1>4

LEMMA RMStep == RMInv /\ [RMNext]_rmAllVars => RMInv'
<1> SUFFICES ASSUME RMInv, [RMNext]_rmAllVars PROVE RMInv'
  OBVIOUS
<1>1. CASE RemoveMany
  BY <1>1, StartStep DEF RemoveMany
<1>2. ASSUME NEW w \in RemoveWorkers,
             SendID(w) \/ RemoveItem(w) \/ SendErr(w) \/ WorkerDone(w)
      PROVE  RMInv'
  BY <1>2, SendIDStep, RemoveItemStep, SendErrStep, WorkerDoneStep
<1>3. CASE CloseCh
  BY <1>3, CloseChStep
<1>4. CASE Finish
  BY <1>4, FinishStep
<1>5. CASE OtherRmStep
  BY <1>5, OtherStep
<1>6. CASE UNCHANGED rmAllVars
  BY <1>6 DEF rmAllVars, vars, rmVars, RMInv, RMTypeOK, TypeOK, ErrorsHeld,
              ItemsHeld, WaitGroupCounts, PhaseFacts, ItemsAccounted, Holds,
              NotExited
<1>7. QED
  BY <1>1, <1>2, <1>3, <1>4, <1>5, <1>6 DEF RMNext

\* RemoveMany's pool keeps its variables typed: the WaitGroup counter stays
\* within 0..len(workers) and errch holds only errors Remove returns.
THEOREM RMTypeCorrect == RMSpec => []RMTypeOK
<1>1. RMInv => RMTypeOK
  BY DEF RMInv
<1>2. QED
  BY <1>1, RMInitInv, RMStep, PTL DEF RMSpec

\* Once the counter is zero no worker is running, and a nil return means
\* errch is empty, so each item sent was removed and not held by a worker.
LEMMA InvImpliesOutcome == RMInv => RemoveManyOutcome
<1> SUFFICES ASSUME RMInv, rmPhase = "done" PROVE
        /\ \A w \in RemoveWorkers : rst[w] = "exit"
        /\ rmOut = "nil" => {rmIDs[i] : i \in DOMAIN rmIDs} \subseteq removed
  BY DEF RemoveManyOutcome
<1> USE DEF RMInv
<1>1. \A w \in RemoveWorkers : rst[w] = "exit"
  BY NoneRunning DEF PhaseFacts
<1>2. ASSUME rmOut = "nil", NEW i \in DOMAIN rmIDs PROVE rmIDs[i] \in removed
  <2>1. errch = <<>> /\ i \in 1..rmFed
    BY <1>2 DEF PhaseFacts, RMTypeOK
  <2>2. ~Holds(i)
    BY <1>1 DEF Holds
  <2>3. QED
    BY <2>1, <2>2 DEF ItemsAccounted
<1>3. QED
  BY <1>1, <1>2

\* RemoveMany returns only after every worker has exited, and returns nil
\* only when every requested item was deleted during the call.
THEOREM RemoveManyOutcomeHolds == RMSpec => []RemoveManyOutcome
  BY InvImpliesOutcome, RMInitInv, RMStep, PTL DEF RMSpec

\* The WaitGroup and item accounting of RemoveMany (RMInv, checked by the
\* removemany_inductive run) holds in every reachable state.
THEOREM RMInvariant == RMSpec => []RMInv
  BY RMInitInv, RMStep, PTL DEF RMSpec
====
