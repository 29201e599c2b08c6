----------------------- MODULE MC_MetadataRemoveMany -----------------------
(* Small instances of MetadataRemoveMany for TLC. *)
EXTENDS MetadataRemoveMany, TLC

CONSTANTS a, b, format, p1, w1, w2

MCNames == {a, b, format}
MCReserved == {format}
MCPayloads == {p1}
MCRemoveWorkers == {w1, w2}
\* More items than workers, a duplicate, and a reserved name that fails.
MCRemoveRequests == {<<a, b, a>>, <<format, a>>, <<format>>, <<>>}
====
