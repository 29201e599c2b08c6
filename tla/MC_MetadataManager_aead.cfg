\* AES256_GCM with bit flips, truncations and transient backend failures.
CONSTANTS
    a = a  b = b  format = format  p1 = p1  p2 = p2
    Names <- MCNames
    Reserved <- MCReserved
    Payloads <- MCPayloads
    Algorithm = "AES256_GCM"
    Faults = TRUE
    Attacks = {"flip", "truncate"}
SPECIFICATION Spec
INVARIANT TypeOK GetAuthentic
