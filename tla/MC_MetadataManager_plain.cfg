\* Algorithm NONE with every attack, the relocation of blobs included, and
\* transient backend failures; one payload, as the property concerns only
\* whether an item is stored.
CONSTANTS
    a = a  b = b  format = format  p1 = p1  p2 = p2
    Names <- MCNames
    Reserved <- MCReserved
    Payloads <- MCOnePayload
    Algorithm = "NONE"
    Faults = TRUE
    Attacks = {"flip", "truncate", "relocate"}
SPECIFICATION Spec
PROPERTY NotFoundMeansAbsent
