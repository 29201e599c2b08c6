\* A genuine sealed blob copied under another name is read back as that item.
CONSTANTS
    a = a  b = b  format = format  p1 = p1  p2 = p2
    Names <- MCNames
    Reserved <- MCReserved
    Payloads <- MCPayloads
    Algorithm = "AES256_GCM"
    Faults = FALSE
    Attacks = {"relocate"}
SPECIFICATION Spec
INVARIANT GetAuthentic
