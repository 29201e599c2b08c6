-------------------------- MODULE MetadataMultiGet --------------------------
(***************************************************************************)
(* MultiGet and ListContents of src/metadata/metadata_manager.go composed  *)
(* with the manager: a feeder goroutine hands the item IDs one by one over *)
(* the unbuffered channel inputs to a pool of worker goroutines; each      *)
(* worker calls GetMetadata and sends its result over the unbuffered       *)
(* channel ch to the caller, which receives exactly len(itemIDs) results.  *)
(* Other goroutines keep calling the manager's operations meanwhile, and   *)
(* other clients and the storage act as in MetadataManager.  A send on an  *)
(* unbuffered channel and the receive that takes it are one step.          *)
(***************************************************************************)
EXTENDS MetadataManager, Sequences, Functions

CONSTANTS
    Workers,    \* the parallelFetches worker goroutines
    Requests    \* the itemIDs slices a caller may pass to MultiGet

\* The pool has parallelFetches workers and the cache lists finitely many
\* names.
ASSUME MultiGetAssumption ==
    /\ Workers # {} /\ IsFiniteSet(Workers)
    /\ IsFiniteSet(Names)
    /\ Requests \subseteq Seq(Names)

VARIABLES
    mgPhase,    \* "idle", "running", "done", or "crashed" by a worker panic
    itemIDs,    \* the slice being fetched
    fed,        \* how many IDs the feeder goroutine has handed over
    inputsOpen, \* FALSE once the feeder has called close(inputs)
    wst,        \* worker -> "recv", "fetch", "send" or "exit"
    witem,      \* worker -> the item ID it holds
    wres,       \* worker -> the result of its GetMetadata call
    received,   \* how many results the caller's loop has received
    resultErr,  \* the caller's resultErr: "nil" or the last error received
    resultMap,  \* the caller's resultMap: name -> contents, NoBlob if none
    mgOut,      \* what MultiGet returned: "pending", "map" or an error
    errs        \* ghost: the errors received, in the order received

mgVars == <<mgPhase, itemIDs, fed, inputsOpen, wst, witem, wres, received,
            resultErr, resultMap, mgOut, errs>>
allVars == <<vars, mgVars>>

\* List: the names metadataCache lists that match the prefix, the prefix
\* being abstracted to the set of names it matches; in sorted order.
List(matching) ==
    CHOOSE s \in [1..Cardinality(cache \cap matching) -> cache \cap matching] :
        Range(s) = cache \cap matching

NoResult == Failure("ErrNotFound")

\* The caller spawns the workers and the feeder, then starts receiving.
StartMultiGet(ids) ==
    /\ mgPhase = "idle"
    /\ mgPhase' = "running"
    /\ itemIDs' = ids
    /\ fed' = 0
    /\ inputsOpen' = TRUE
    /\ wst' = [w \in Workers |-> "recv"]
    /\ received' = 0
    /\ resultErr' = "nil"
    /\ resultMap' = [n \in Names |-> NoBlob]
    /\ mgOut' = "pending"
    /\ errs' = <<>>
    /\ UNCHANGED <<witem, wres, vars>>

MultiGet == \E ids \in Requests : StartMultiGet(ids)

\* ListContents lists the cache and hands the list to MultiGet.
ListContents == \E matching \in SUBSET Names : StartMultiGet(List(matching))

\* The feeder's send on inputs, taken by a worker ranging over inputs.
Feed(w) ==
    /\ mgPhase = "running"
    /\ fed < Len(itemIDs)
    /\ wst[w] = "recv"
    /\ witem' = [witem EXCEPT ![w] = itemIDs[fed + 1]]
    /\ wst' = [wst EXCEPT ![w] = "fetch"]
    /\ fed' = fed + 1
    /\ UNCHANGED <<vars, mgPhase, itemIDs, inputsOpen, wres, received,
                   resultErr, resultMap, mgOut, errs>>

\* Mutant: the feeder never calls close(inputs).
CloseInputsMissing == FALSE

CloseInputs ==
    /\ mgPhase \in {"running", "done"}
    /\ inputsOpen
    /\ fed = Len(itemIDs)
    /\ inputsOpen' = FALSE
    /\ UNCHANGED <<vars, mgPhase, itemIDs, fed, wst, witem, wres, received,
                   resultErr, resultMap, mgOut, errs>>

\* The range loop over the closed channel ends and the goroutine returns.
WorkerExit(w) ==
    /\ mgPhase \in {"running", "done"}
    /\ wst[w] = "recv"
    /\ ~inputsOpen
    /\ wst' = [wst EXCEPT ![w] = "exit"]
    /\ UNCHANGED <<vars, mgPhase, itemIDs, fed, inputsOpen, witem, wres,
                   received, resultErr, resultMap, mgOut, errs>>

\* The worker's GetMetadata call; a panic in it ends the whole process.
Fetch(w) ==
    /\ mgPhase = "running"
    /\ wst[w] = "fetch"
    /\ \E r \in GetMetadataResults(witem[w]) :
          /\ wres' = [wres EXCEPT ![w] = r]
          /\ wst' = [wst EXCEPT ![w] = "send"]
          /\ mgPhase' = IF r.out = "panic" THEN "crashed" ELSE "running"
    /\ UNCHANGED <<vars, itemIDs, fed, inputsOpen, witem, received,
                   resultErr, resultMap, mgOut, errs>>

\* The worker's send on ch, taken by one iteration of the caller's loop.
Deliver(w) ==
    /\ mgPhase = "running"
    /\ wst[w] = "send"
    /\ received < Len(itemIDs)
    /\ IF wres[w].out # "ok"
       THEN /\ resultErr' = wres[w].out
            /\ errs' = Append(errs, wres[w].out)
            /\ UNCHANGED resultMap
       ELSE /\ resultMap' = [resultMap EXCEPT ![witem[w]] = wres[w].data]
            /\ UNCHANGED <<resultErr, errs>>
    /\ received' = received + 1
    /\ wst' = [wst EXCEPT ![w] = "recv"]
    /\ witem' = [witem EXCEPT ![w] = NoBlob]
    /\ wres' = [wres EXCEPT ![w] = NoResult]
    /\ UNCHANGED <<vars, mgPhase, itemIDs, fed, inputsOpen, mgOut>>

\* Mutant: the caller's loop stops one result short.
ReturnOneShort ==
    /\ mgPhase = "running"
    /\ received = Len(itemIDs) - 1
    /\ mgPhase' = "done"
    /\ mgOut' = IF resultErr # "nil" THEN resultErr ELSE "map"
    /\ UNCHANGED <<vars, itemIDs, fed, inputsOpen, wst, witem, wres,
                   received, resultErr, resultMap, errs>>

\* After len(itemIDs) results: the error if any was received, else the map.
Return ==
    /\ mgPhase = "running"
    /\ received = Len(itemIDs)
    /\ mgPhase' = "done"
    /\ mgOut' = IF resultErr # "nil" THEN resultErr ELSE "map"
    /\ UNCHANGED <<vars, itemIDs, fed, inputsOpen, wst, witem, wres,
                   received, resultErr, resultMap, errs>>

\* A write of another goroutine of this process or of another client, or
\* a cache refresh, while the pool keeps its state.  Reads by other
\* goroutines change nothing the call depends on and are left out.
OtherWrite ==
    \/ \E id \in Names, c \in Payloads :
          Put(id, c) \/ PutJSON(id, c) \/ ExternalPut(id, c)
    \/ \E id \in Names : Remove(id) \/ ExternalRemove(id) \/ Tamper(id)
    \/ RefreshCache

OtherStep ==
    /\ OtherWrite
    /\ mgPhase # "crashed"
    /\ UNCHANGED <<mgPhase, itemIDs, fed, inputsOpen, wst, witem, wres,
                   received, resultErr, resultMap, mgOut, errs>>

PoolStep ==
    \/ \E w \in Workers : Feed(w) \/ WorkerExit(w) \/ Fetch(w) \/ Deliver(w)
    \/ CloseInputs
    \/ Return

MGInit ==
    /\ Init
    /\ mgPhase = "idle"
    /\ itemIDs = <<>>
    /\ fed = 0
    /\ inputsOpen = FALSE
    /\ wst = [w \in Workers |-> "exit"]
    /\ witem = [w \in Workers |-> NoBlob]
    /\ wres = [w \in Workers |-> NoResult]
    /\ received = 0
    /\ resultErr = "nil"
    /\ resultMap = [n \in Names |-> NoBlob]
    /\ mgOut = "pending"
    /\ errs = <<>>

MGNext == MultiGet \/ ListContents \/ PoolStep \/ OtherStep

\* Goroutines that can run are eventually scheduled, and a send on a
\* channel with a ready receiver completes: weak fairness of every pool
\* step.  The other callers and the environment need not act.
MGFairness ==
    /\ \A w \in Workers : WF_allVars(Feed(w)) /\ WF_allVars(WorkerExit(w))
                          /\ WF_allVars(Fetch(w)) /\ WF_allVars(Deliver(w))
    /\ WF_allVars(CloseInputs)
    /\ WF_allVars(Return)

MGSpec == MGInit /\ [][MGNext]_allVars /\ MGFairness

-----------------------------------------------------------------------------
(* Properties. *)

MGTypeOK ==
    /\ TypeOK
    /\ mgPhase \in {"idle", "running", "done", "crashed"}
    /\ itemIDs \in Seq(Names)
    /\ fed \in 0..Len(itemIDs)
    /\ inputsOpen \in BOOLEAN
    /\ wst \in [Workers -> {"recv", "fetch", "send", "exit"}]
    /\ witem \in [Workers -> Names \cup {NoBlob}]
    /\ wres \in [Workers -> Result]
    /\ received \in 0..Len(itemIDs)
    /\ resultErr \in Outcomes \cup {"nil"}
    /\ resultMap \in [Names -> Data \cup {Garbled, NoBlob}]
    /\ mgOut \in {"pending", "map"} \cup Outcomes
    /\ errs \in Seq(Outcomes)

\* A successful MultiGet returns an entry for every requested item and for
\* nothing else: the feeder, the workers and the caller's loop together
\* neither lose nor invent a result, and the caller returns only once every
\* result is in.
MultiGetComplete ==
    mgOut = "map" => {n \in Names : resultMap[n] # NoBlob} = Range(itemIDs)

\* Every call returns, and when it has, the feeder has closed inputs and
\* every worker goroutine has exited: no goroutine is left blocked.
MultiGetTerminates ==
    mgPhase = "running" ~>
        \/ mgPhase = "crashed"
        \/ mgPhase = "done" /\ ~inputsOpen /\ \A w \in Workers : wst[w] = "exit"

\* The doc comment of MultiGet: items that are not found are left out of
\* the map; MultiGet fails only when some item fails for another reason.
MultiGetOmitsMissing ==
    mgPhase = "done" /\ mgOut # "map" =>
        \E i \in DOMAIN errs : errs[i] # "ErrNotFound"

\* The spec (4.6): when items fail, MultiGet returns the first error.
MultiGetFirstError ==
    mgPhase = "done" /\ mgOut # "map" => mgOut = errs[1]
====
