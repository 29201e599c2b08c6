\* A sealed blob truncated below the nonce size is read.
CONSTANTS
    a = a  b = b  format = format  p1 = p1  p2 = p2
    Names <- MCNames
    Reserved <- MCReserved
    Payloads <- MCPayloads
    Algorithm = "AES256_GCM"
    Faults = FALSE
    Attacks = {"truncate"}
SPECIFICATION Spec
INVARIANT ReadNeverPanics
