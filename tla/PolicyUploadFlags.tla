------------------------- MODULE PolicyUploadFlags -------------------------
(***************************************************************************)
(* policyUploadFlags of the CLI (appended to metadata_manager.go): setup   *)
(* binds two command-line flags to the struct's string fields, and        *)
(* setUploadPolicyFromFlags applies them, in order, to an upload policy    *)
(* through applyOptionalInt, returning at the first error.  Other flag     *)
(* groups of the same command add to the shared changeCount.               *)
(***************************************************************************)
EXTENDS Naturals, FiniteSets

CONSTANTS
    Values,     \* the integers a flag may give (small naturals)
    Spelling,   \* integer -> its decimal spelling on the command line
    Bad,        \* a flag string that does not parse as an integer
    NoValue,    \* a nil OptionalInt in the policy
    MaxChanges  \* bound on changeCount, for TLC

\* The flag's value when it is not given on the command line.
Unset == ""

ASSUME PolicyFlagsAssumption ==
    /\ Values \subseteq Nat /\ NoValue \notin Values
    /\ Spelling \in [Values -> STRING]
    /\ \A v, w \in Values : Spelling[v] = Spelling[w] => v = w
    /\ Bad \in STRING /\ Bad # Unset
    /\ \A v \in Values : Spelling[v] \notin {Bad, Unset}
    /\ MaxChanges \in Nat

FlagNames == {"max-parallel-file-reads", "max-parallel-snapshots"}
Numerals == {Spelling[v] : v \in Values}
Inputs == Numerals \cup {Unset, Bad}
\* strconv's parse of a numeral.
ParseInt(str) == CHOOSE v \in Values : Spelling[v] = str
\* A policy field: an OptionalInt, NoValue when nil.
Setting == Values \cup {NoValue}

VARIABLES
    args,        \* the command line: flag name -> what was given
    c,           \* the policyUploadFlags struct after parsing
    up,          \* the UploadPolicy being edited
    changeCount, \* the caller's count of changed settings
    result,      \* what setUploadPolicyFromFlags returned
    phase        \* "start", "parsed" or "applied"

policyVars == <<args, c, up, changeCount, result, phase>>

\* Mutant: the two StringVar targets swapped.
SetupSwapped(a) ==
    [maxParallelFileReads |-> a["max-parallel-snapshots"],
     maxParallelUploads |-> a["max-parallel-file-reads"]]

\* setup: each flag stores its string in the field StringVar names.
Setup(a) ==
    [maxParallelFileReads |-> a["max-parallel-file-reads"],
     maxParallelUploads |-> a["max-parallel-snapshots"]]

\* The command line is parsed once: the flags fill the struct.
Parse ==
    /\ phase = "start"
    /\ \E a \in [FlagNames -> Inputs] :
          /\ args' = a
          /\ c' = Setup(a)
    /\ phase' = "parsed"
    /\ UNCHANGED <<up, changeCount, result>>

\* Mutant: a set value counted twice, by the callee and again by the caller.
applyOptionalIntCountedTwice(cur, str) ==
    CASE str = Unset      -> [err |-> FALSE, old |-> cur, val |-> cur, changed |-> 0]
      [] str \in Numerals -> [err |-> FALSE, old |-> cur, val |-> ParseInt(str),
                              changed |-> 2]
      [] OTHER            -> [err |-> TRUE, old |-> cur, val |-> cur, changed |-> 0]

\* Mutant: a flag that fails to parse is still counted as a change.
applyOptionalIntCountsError(cur, str) ==
    CASE str = Unset      -> [err |-> FALSE, old |-> cur, val |-> cur, changed |-> 0]
      [] str \in Numerals -> [err |-> FALSE, old |-> cur, val |-> ParseInt(str),
                              changed |-> 1]
      [] OTHER            -> [err |-> TRUE, old |-> cur, val |-> cur, changed |-> 1]

\* applyOptionalInt (not under src/): an unset flag leaves the field alone,
\* a value that parses is stored and counted, any other value is an error.
applyOptionalInt(cur, str) ==
    CASE str = Unset      -> [err |-> FALSE, old |-> cur, val |-> cur, changed |-> 0]
      [] str \in Numerals -> [err |-> FALSE, old |-> cur, val |-> ParseInt(str),
                              changed |-> 1]
      [] OTHER            -> [err |-> TRUE, old |-> cur, val |-> cur, changed |-> 0]

\* Mutant: the first error does not stop the second flag.
ApplyNoEarlyReturn(r1, r2) ==
    [files |-> r1.val, snapshots |-> r2.val, changed |-> r1.changed + r2.changed,
     err |-> IF r1.err THEN "max parallel file reads"
             ELSE IF r2.err THEN "max parallel snapshots" ELSE "nil"]

\* The two calls in order, returning at the first error.
ApplyInOrder(r1, r2) ==
    IF r1.err
    THEN [files |-> r1.val, snapshots |-> r2.old, changed |-> r1.changed,
          err |-> "max parallel file reads"]
    ELSE [files |-> r1.val, snapshots |-> r2.val,
          changed |-> r1.changed + r2.changed,
          err |-> IF r2.err THEN "max parallel snapshots" ELSE "nil"]

SetUploadPolicyFromFlags ==
    LET r1 == applyOptionalInt(up.MaxParallelFileReads, c.maxParallelFileReads)
        r2 == applyOptionalInt(up.MaxParallelSnapshots, c.maxParallelUploads)
        r  == ApplyInOrder(r1, r2)
    IN /\ phase = "parsed"
       /\ up' = [MaxParallelFileReads |-> r.files,
                 MaxParallelSnapshots |-> r.snapshots]
       /\ changeCount' = changeCount + r.changed
       /\ result' = r.err
       /\ phase' = "applied"
       /\ UNCHANGED <<args, c>>

\* Another flag group of the command counts a change of its own.
OtherFlagGroup ==
    /\ changeCount < MaxChanges
    /\ changeCount' = changeCount + 1
    /\ UNCHANGED <<args, c, up, result, phase>>

PolicyInit ==
    /\ args = [f \in FlagNames |-> Unset]
    /\ c = Setup(args)
    /\ up \in [{"MaxParallelFileReads", "MaxParallelSnapshots"} -> Setting]
    /\ changeCount = 0
    /\ result = "nil"
    /\ phase = "start"

PolicyNext == Parse \/ SetUploadPolicyFromFlags \/ OtherFlagGroup

PolicySpec == PolicyInit /\ [][PolicyNext]_policyVars

-----------------------------------------------------------------------------
(* Properties. *)

PolicyTypeOK ==
    /\ args \in [FlagNames -> Inputs]
    /\ up \in [{"MaxParallelFileReads", "MaxParallelSnapshots"} -> Setting]
    /\ changeCount \in 0..MaxChanges + 2
    /\ phase \in {"start", "parsed", "applied"}

\* The field a command-line flag is meant to set.
FieldOf == [f \in FlagNames |->
               IF f = "max-parallel-file-reads" THEN "MaxParallelFileReads"
                                                ELSE "MaxParallelSnapshots"]

\* A successful apply step: each field holds its own flag's integer, or is
\* kept when the flag is absent, and changeCount grows by the flags given.
AppliedAsGiven ==
    phase = "parsed" /\ phase' = "applied" /\ result' = "nil" =>
        /\ \A f \in FlagNames :
              up'[FieldOf[f]] = IF args[f] = Unset THEN up[FieldOf[f]]
                                ELSE CHOOSE v \in Values : Spelling[v] = args[f]
        /\ changeCount' - changeCount
              = Cardinality({f \in FlagNames : args[f] # Unset})

\* A successful setUploadPolicyFromFlags sets each policy field to the
\* integer given on its own flag, keeps it when the flag is absent, and
\* adds to changeCount exactly the number of fields it set.
UploadFlagsApplied == [][AppliedAsGiven]_policyVars

\* An apply step whose first flag does not parse.
StopsAtFirst ==
    phase = "parsed" /\ phase' = "applied" /\ args["max-parallel-file-reads"] = Bad =>
        /\ result' = "max parallel file reads"
        /\ up'.MaxParallelSnapshots = up.MaxParallelSnapshots

\* When max-parallel-file-reads does not parse, the call fails naming it
\* and leaves the snapshots setting alone, whatever its flag says.
FirstErrorStops == [][StopsAtFirst]_policyVars

\* An apply step whose first flag is fine and whose second does not parse.
KeepsFirstOnSecond ==
    LET f1 == args["max-parallel-file-reads"] IN
    phase = "parsed" /\ phase' = "applied"
    /\ f1 # Bad /\ args["max-parallel-snapshots"] = Bad =>
        /\ result' = "max parallel snapshots"
        /\ up'.MaxParallelFileReads
              = IF f1 = Unset THEN up.MaxParallelFileReads
                ELSE CHOOSE v \in Values : Spelling[v] = f1
        /\ up'.MaxParallelSnapshots = up.MaxParallelSnapshots
        /\ changeCount' = changeCount + (IF f1 = Unset THEN 0 ELSE 1)

\* When max-parallel-snapshots does not parse but max-parallel-file-reads
\* does, the call fails naming the second flag, the first field keeps the
\* value already applied (there is no rollback), and changeCount counts that
\* first flag and nothing for the failed one.
SecondErrorKeepsFirst == [][KeepsFirstOnSecond]_policyVars
====
