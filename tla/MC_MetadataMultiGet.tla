------------------------ MODULE MC_MetadataMultiGet ------------------------
(* Small instances of MetadataMultiGet for TLC. *)
EXTENDS MetadataMultiGetProofs, TLC

CONSTANTS a, b, format, p1, p2, w1, w2

MCNames == {a, b, format}
MCReserved == {format}
MCPayloads == {p1, p2}
MCOnePayload == {p1}
MCWorkers == {w1, w2}
\* Three items over two workers, a duplicate, a reserved name, no items.
MCRequests == {<<a, b, a>>, <<a, format>>, <<>>}
====
