\* MultiGet of a missing item and a reserved name: two different errors.
CONSTANTS
    a = a  b = b  format = format  p1 = p1  p2 = p2  w1 = w1  w2 = w2
    Names <- MCNames
    Reserved <- MCReserved
    Payloads <- MCOnePayload
    Workers <- MCWorkers
    Requests <- MCRequests
    Algorithm = "AES256_GCM"
    Faults = FALSE
    Attacks = {}
SPECIFICATION MGSpec
INVARIANT MultiGetFirstError
