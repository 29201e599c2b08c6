------------------------ MODULE MC_PolicyUploadFlags ------------------------
(* A small instance of PolicyUploadFlags for TLC. *)
EXTENDS PolicyUploadFlagsProofs, TLC

CONSTANT nil

MCValues == {0, 7}
MCSpelling == 0 :> "0" @@ 7 :> "7"
====
