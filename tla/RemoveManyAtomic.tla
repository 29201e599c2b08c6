-------------------------- MODULE RemoveManyAtomic --------------------------
(***************************************************************************)
(* What RemoveMany promises its caller, without the worker pool: between   *)
(* the call and its return, Remove is applied once for every entry of      *)
(* itemIDs (a duplicated ID is removed as often as it occurs), in any      *)
(* order and interleaved with other writes; the call returns nil when      *)
(* every one of them succeeded and otherwise one of the errors they        *)
(* returned.                                                               *)
(***************************************************************************)
EXTENDS MetadataManager

CONSTANT RemoveRequests     \* the itemIDs slices a caller may pass

VARIABLES
    phase,      \* "idle", "running" or "done"
    left,       \* name -> how many of its occurrences are still to remove
    failed,     \* the errors the Remove calls made so far returned
    out         \* what the call returned: "pending", "nil" or an error

atomicVars == <<vars, phase, left, failed, out>>

\* How often name n occurs in the slice ids.
Occurrences(ids, n) == Cardinality({i \in DOMAIN ids : ids[i] = n})

Begin(ids) ==
    /\ phase = "idle"
    /\ phase' = "running"
    /\ left' = [n \in Names |-> Occurrences(ids, n)]
    /\ failed' = {}
    /\ out' = "pending"
    /\ UNCHANGED vars

\* One Remove(n) of the call: it deletes the item, or fails with the
\* reserved-name error or a backend error and changes nothing.
RemoveOne(n) ==
    /\ phase = "running"
    /\ left[n] > 0
    /\ left' = [left EXCEPT ![n] = @ - 1]
    /\ \/ /\ ~isReservedName(n)
          /\ storage' = [storage EXCEPT ![n] = Absent]
          /\ cache' = cache \ {n}
          /\ written' = [written EXCEPT ![n] = NoBlob]
          /\ UNCHANGED failed
       \/ /\ \E e \in {"invalid", "ioerror"} :
                /\ e = "invalid" <=> isReservedName(n)
                /\ e = "ioerror" => Faults
                /\ failed' = failed \cup {e}
          /\ UNCHANGED <<storage, cache, written>>
    /\ lastRead' = NoRead
    /\ UNCHANGED <<phase, out>>

Return ==
    /\ phase = "running"
    /\ \A n \in Names : left[n] = 0
    /\ phase' = "done"
    /\ out' \in IF failed = {} THEN {"nil"} ELSE failed
    /\ UNCHANGED <<vars, left, failed>>

\* Writes of other goroutines and clients, and cache refreshes.
OtherWrite ==
    /\ \/ \E id \in Names, c \in Payloads :
             Put(id, c) \/ PutJSON(id, c) \/ ExternalPut(id, c)
       \/ \E id \in Names : Remove(id) \/ ExternalRemove(id)
       \/ RefreshCache
    /\ UNCHANGED <<phase, left, failed, out>>

AtomicInit ==
    /\ Init
    /\ phase = "idle"
    /\ left = [n \in Names |-> 0]
    /\ failed = {}
    /\ out = "pending"

AtomicNext ==
    \/ \E ids \in RemoveRequests : Begin(ids)
    \/ \E n \in Names : RemoveOne(n)
    \/ Return
    \/ OtherWrite

\* A call that has items left removes them, and one that has none returns.
AtomicSpec ==
    /\ AtomicInit
    /\ [][AtomicNext]_atomicVars
    /\ WF_atomicVars(\E n \in Names : RemoveOne(n))
    /\ WF_atomicVars(Return)
====
