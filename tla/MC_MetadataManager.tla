------------------------ MODULE MC_MetadataManager -------------------------
(* Small instances of MetadataManager for TLC: two ordinary item names and *)
(* one reserved name, two payloads (one where only presence matters).      *)
EXTENDS MetadataManager, TLC

CONSTANTS a, b, format, p1, p2

MCNames == {a, b, format}
MCReserved == {format}
MCPayloads == {p1, p2}
MCOnePayload == {p1}
====
