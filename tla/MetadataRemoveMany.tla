------------------------- MODULE MetadataRemoveMany -------------------------
(***************************************************************************)
(* RemoveMany of src/metadata/metadata_manager.go composed with the        *)
(* manager: the caller registers each worker with wg.Add(1), starts the    *)
(* workers, sends the item IDs over the unbuffered channel ch, closes it,  *)
(* waits on the WaitGroup, closes the error channel errch (buffered to     *)
(* len(itemIDs)) and returns the first error buffered in it, or nil.  Each *)
(* worker ranges over ch, calls Remove and sends a failure on errch, and   *)
(* calls wg.Done when the range ends.  Other goroutines and clients keep   *)
(* writing meanwhile.                                                      *)
(***************************************************************************)
EXTENDS MetadataManager, Sequences

CONSTANTS
    RemoveWorkers,  \* the worker goroutines (parallelism = 30 in the code)
    RemoveRequests  \* the itemIDs slices a caller may pass to RemoveMany

ASSUME RemoveManyAssumption ==
    /\ RemoveWorkers # {} /\ IsFiniteSet(RemoveWorkers)
    /\ RemoveRequests \subseteq Seq(Names)

VARIABLES
    rmPhase,    \* "idle", "feeding", "waiting" or "done"
    rmIDs,      \* the slice being removed
    rmFed,      \* how many IDs the caller has sent on ch
    chOpen,     \* FALSE once the caller has called close(ch)
    rst,        \* worker -> "recv", "remove", "senderr" or "exit"
    ritem,      \* worker -> the item ID it holds
    rerr,       \* worker -> the error its Remove returned
    wg,         \* the WaitGroup counter
    errch,      \* the errors buffered in errch, oldest first
    rmOut,      \* what RemoveMany returned: "pending", "nil" or an error
    removed     \* ghost: the requested items some Remove call has deleted

rmVars == <<rmPhase, rmIDs, rmFed, chOpen, rst, ritem, rerr, wg, errch,
            rmOut, removed>>
rmAllVars == <<vars, rmVars>>

\* The errors Remove returns: the reserved-name error or a backend error.
RemoveErrors == {"invalid", "ioerror"}

\* Mutants: errch one slot short, and errch unbuffered.
ErrchCapacityShort == Len(rmIDs) - 1
ErrchUnbuffered == 0

\* make(chan error, len(itemIDs))
ErrchCapacity == Len(rmIDs)

StartRemoveMany(ids) ==
    /\ rmPhase = "idle"
    /\ rmPhase' = "feeding"
    /\ rmIDs' = ids
    /\ rmFed' = 0
    /\ chOpen' = TRUE
    /\ rst' = [w \in RemoveWorkers |-> "recv"]
    /\ wg' = Cardinality(RemoveWorkers)
    /\ errch' = <<>>
    /\ rmOut' = "pending"
    /\ removed' = {}
    /\ UNCHANGED <<ritem, rerr, vars>>

RemoveMany == \E ids \in RemoveRequests : StartRemoveMany(ids)

\* The caller's send on ch, taken by a worker ranging over ch.
SendID(w) ==
    /\ rmPhase = "feeding"
    /\ rmFed < Len(rmIDs)
    /\ rst[w] = "recv"
    /\ ritem' = [ritem EXCEPT ![w] = rmIDs[rmFed + 1]]
    /\ rst' = [rst EXCEPT ![w] = "remove"]
    /\ rmFed' = rmFed + 1
    /\ UNCHANGED <<vars, rmPhase, rmIDs, chOpen, rerr, wg, errch, rmOut,
                   removed>>

\* close(ch) after the loop, then wg.Wait().
CloseCh ==
    /\ rmPhase = "feeding"
    /\ rmFed = Len(rmIDs)
    /\ rmPhase' = "waiting"
    /\ chOpen' = FALSE
    /\ UNCHANGED <<vars, rmIDs, rmFed, rst, ritem, rerr, wg, errch, rmOut,
                   removed>>

\* The worker's Remove call: the manager's Remove step, its error if any
\* kept for the send on errch.
RemoveItem(w) ==
    /\ rst[w] = "remove"
    /\ LET id == ritem[w] IN
       \/ /\ ~isReservedName(id)
          /\ storage' = [storage EXCEPT ![id] = Absent]
          /\ cache' = cache \ {id}
          /\ written' = [written EXCEPT ![id] = NoBlob]
          /\ removed' = removed \cup {id}
          /\ rst' = [rst EXCEPT ![w] = "recv"]
          /\ ritem' = [ritem EXCEPT ![w] = NoBlob]
          /\ UNCHANGED rerr
       \/ /\ \E e \in RemoveErrors :
                /\ e = "invalid" <=> isReservedName(id)
                /\ e = "ioerror" => Faults
                /\ rerr' = [rerr EXCEPT ![w] = e]
          /\ rst' = [rst EXCEPT ![w] = "senderr"]
          /\ UNCHANGED <<storage, cache, written, removed, ritem>>
    /\ lastRead' = NoRead
    /\ UNCHANGED <<rmPhase, rmIDs, rmFed, chOpen, wg, errch, rmOut>>

\* errch <- err: blocks while the buffer is full.
SendErr(w) ==
    /\ rst[w] = "senderr"
    /\ Len(errch) < ErrchCapacity
    /\ errch' = Append(errch, rerr[w])
    /\ rst' = [rst EXCEPT ![w] = "recv"]
    /\ ritem' = [ritem EXCEPT ![w] = NoBlob]
    /\ rerr' = [rerr EXCEPT ![w] = "nil"]
    /\ UNCHANGED <<vars, rmPhase, rmIDs, rmFed, chOpen, wg, rmOut, removed>>

\* Mutant: wg.Done() called explicitly as well as deferred.
WorkerDoneTwice(w) ==
    /\ rst[w] = "recv"
    /\ ~chOpen
    /\ rmPhase \in {"waiting", "done"}
    /\ rst' = [rst EXCEPT ![w] = "exit"]
    /\ wg' = wg - 2
    /\ UNCHANGED <<vars, rmPhase, rmIDs, rmFed, chOpen, ritem, rerr, errch,
                   rmOut, removed>>

\* The range over the closed ch ends: the deferred wg.Done().
WorkerDone(w) ==
    /\ rst[w] = "recv"
    /\ ~chOpen
    /\ rmPhase \in {"waiting", "done"}
    /\ rst' = [rst EXCEPT ![w] = "exit"]
    /\ wg' = wg - 1
    /\ UNCHANGED <<vars, rmPhase, rmIDs, rmFed, chOpen, ritem, rerr, errch,
                   rmOut, removed>>

\* Mutant: the caller returns without wg.Wait().
FinishNoWait ==
    /\ rmPhase = "waiting"
    /\ rmPhase' = "done"
    /\ rmOut' = IF errch = <<>> THEN "nil" ELSE Head(errch)
    /\ UNCHANGED <<vars, rmIDs, rmFed, chOpen, rst, ritem, rerr, wg, errch,
                   removed>>

\* wg.Wait() returns; close(errch); return <-errch, which yields the oldest
\* buffered error, or nil from the closed empty channel.
Finish ==
    /\ rmPhase = "waiting"
    /\ wg = 0
    /\ rmPhase' = "done"
    /\ rmOut' = IF errch = <<>> THEN "nil" ELSE Head(errch)
    /\ UNCHANGED <<vars, rmIDs, rmFed, chOpen, rst, ritem, rerr, wg, errch,
                   removed>>

\* A write of another goroutine or client, or a cache refresh.
OtherRmStep ==
    /\ \/ \E id \in Names, c \in Payloads :
             Put(id, c) \/ PutJSON(id, c) \/ ExternalPut(id, c)
       \/ \E id \in Names : Remove(id) \/ ExternalRemove(id)
       \/ RefreshCache
    /\ UNCHANGED rmVars

RMInit ==
    /\ Init
    /\ rmPhase = "idle"
    /\ rmIDs = <<>>
    /\ rmFed = 0
    /\ chOpen = FALSE
    /\ rst = [w \in RemoveWorkers |-> "exit"]
    /\ ritem = [w \in RemoveWorkers |-> NoBlob]
    /\ rerr = [w \in RemoveWorkers |-> "nil"]
    /\ wg = 0
    /\ errch = <<>>
    /\ rmOut = "pending"
    /\ removed = {}

RMNext ==
    \/ RemoveMany
    \/ \E w \in RemoveWorkers :
          SendID(w) \/ RemoveItem(w) \/ SendErr(w) \/ WorkerDone(w)
    \/ CloseCh
    \/ Finish
    \/ OtherRmStep

\* Every runnable goroutine is eventually scheduled and a channel operation
\* with a ready partner completes.
RMFairness ==
    /\ \A w \in RemoveWorkers :
          /\ WF_rmAllVars(SendID(w)) /\ WF_rmAllVars(RemoveItem(w))
          /\ WF_rmAllVars(SendErr(w)) /\ WF_rmAllVars(WorkerDone(w))
    /\ WF_rmAllVars(CloseCh)
    /\ WF_rmAllVars(Finish)

RMSpec == RMInit /\ [][RMNext]_rmAllVars /\ RMFairness

-----------------------------------------------------------------------------
(* Properties. *)

RMTypeOK ==
    /\ TypeOK
    /\ rmPhase \in {"idle", "feeding", "waiting", "done"}
    /\ rmIDs \in Seq(Names)
    /\ rmFed \in 0..Len(rmIDs)
    /\ chOpen \in BOOLEAN
    /\ rst \in [RemoveWorkers -> {"recv", "remove", "senderr", "exit"}]
    /\ ritem \in [RemoveWorkers -> Names \cup {NoBlob}]
    /\ rerr \in [RemoveWorkers -> RemoveErrors \cup {"nil"}]
    /\ wg \in 0..Cardinality(RemoveWorkers)
    /\ errch \in Seq(RemoveErrors)
    /\ rmOut \in {"pending", "nil"} \cup RemoveErrors
    /\ removed \subseteq Names

\* When RemoveMany returns, every worker has finished (the WaitGroup makes
\* the caller wait for all of them), and it returns nil only if every
\* requested item was deleted by some Remove during the call.
RemoveManyOutcome ==
    rmPhase = "done" =>
        /\ \A w \in RemoveWorkers : rst[w] = "exit"
        /\ rmOut = "nil" => {rmIDs[i] : i \in DOMAIN rmIDs} \subseteq removed

\* No worker ever waits on a full errch: its buffer of len(itemIDs) holds
\* an error for every item, so workers never block and wg.Wait returns.
ErrchNeverBlocks ==
    \A w \in RemoveWorkers : rst[w] = "senderr" => Len(errch) < ErrchCapacity

\* Every RemoveMany call returns.
RemoveManyTerminates == rmPhase \in {"feeding", "waiting"} ~> rmPhase = "done"

-----------------------------------------------------------------------------
(* Refinement of RemoveManyAtomic.  An item counts as left while it waits *)
(* in itemIDs or in a worker about to call Remove; an error counts as      *)
(* failed from the moment Remove returns it, while it waits in a worker to *)
(* be sent and once it is buffered in errch.                               *)

Pending(n) ==
    Cardinality({i \in rmFed + 1 .. Len(rmIDs) : rmIDs[i] = n})
    + Cardinality({w \in RemoveWorkers : rst[w] = "remove" /\ ritem[w] = n})

AbstractPhase ==
    CASE rmPhase = "idle" -> "idle"
      [] rmPhase \in {"feeding", "waiting"} -> "running"
      [] rmPhase = "done" -> "done"

Failed ==
    {errch[i] : i \in DOMAIN errch} \cup
    {rerr[w] : w \in {v \in RemoveWorkers : rst[v] = "senderr"}}

Atomic == INSTANCE RemoveManyAtomic
            WITH phase <- AbstractPhase,
                 left <- [n \in Names |-> Pending(n)],
                 failed <- Failed,
                 out <- rmOut

\* The worker pool implements the atomic RemoveMany: every entry of itemIDs
\* is removed exactly once during the call, with the WaitGroup making the
\* caller return only after the last one, and the error returned is one of
\* those Remove returned, nil only when there was none.
RefinesAtomic == Atomic!AtomicSpec
====
