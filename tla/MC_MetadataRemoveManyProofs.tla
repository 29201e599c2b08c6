------------------- MODULE MC_MetadataRemoveManyProofs -------------------
(* The instance of MC_MetadataRemoveMany, for checking the inductive       *)
(* invariant of the ErrchSafe proof with TLC.                              *)
EXTENDS MetadataRemoveManyProofs, TLC

CONSTANTS a, b, format, p1, w1, w2

MCNames == {a, b, format}
MCReserved == {format}
MCPayloads == {p1}
MCRemoveWorkers == {w1, w2}
MCRemoveRequests == {<<a, b, a>>, <<format, a>>, <<format>>, <<>>}
====
