\* RemoveMany on two workers with backend failures while others write; it implements the atomic RemoveMany.
CONSTANTS
    a = a  b = b  format = format  p1 = p1  w1 = w1  w2 = w2
    Names <- MCNames
    Reserved <- MCReserved
    Payloads <- MCPayloads
    RemoveWorkers <- MCRemoveWorkers
    RemoveRequests <- MCRemoveRequests
    Algorithm = "AES256_GCM"
    Faults = TRUE
    Attacks = {}
SPECIFICATION RMSpec
INVARIANT RMTypeOK  ErrchNeverBlocks
PROPERTY RemoveManyTerminates RefinesAtomic
