\* The inductive invariants of ErrchSafe and of RemoveManyOutcomeHolds on RemoveMany with two workers.
CONSTANTS
    a = a  b = b  format = format  p1 = p1  w1 = w1  w2 = w2
    Names <- MCNames
    Reserved <- MCReserved
    Payloads <- MCPayloads
    RemoveWorkers <- MCRemoveWorkers
    RemoveRequests <- MCRemoveRequests
    Algorithm = "AES256_GCM"
    Faults = TRUE
    Attacks = {}
SPECIFICATION RMSpec
INVARIANT ErrchInv RMInv
