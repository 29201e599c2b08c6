---------------------- MODULE PolicyUploadFlagsProofs ----------------------
(***************************************************************************)
(* Proofs about PolicyUploadFlags for every set of values, every spelling  *)
(* of them and every bound: the state stays typed, a successful           *)
(* setUploadPolicyFromFlags sets each field from its own flag and counts   *)
(* exactly the flags given, and a bad first flag stops the call before the *)
(* second field is touched.                                                *)
(***************************************************************************)
EXTENDS PolicyUploadFlags, FiniteSetTheorems, TLAPS

\* The struct always holds what setup bound the flags to, and changeCount
\* exceeds MaxChanges only by what the one apply adds.
PolicyInv ==
    /\ PolicyTypeOK
    /\ c = Setup(args)
    /\ phase # "applied" => changeCount <= MaxChanges

USE PolicyFlagsAssumption

Fields == {"MaxParallelFileReads", "MaxParallelSnapshots"}

\* What applyOptionalInt returns for a typed field and a flag string: the
\* error exactly for the string that does not parse, the old value kept,
\* the new value typed, and a count of one exactly for a numeral.
LEMMA ApplyFacts ==
    ASSUME NEW cur \in Setting, NEW str \in Inputs
    PROVE  LET r == applyOptionalInt(cur, str) IN
             /\ r.old = cur
             /\ r.err \in BOOLEAN
             /\ r.err <=> str = Bad
             /\ r.val = IF str \in {Unset, Bad} THEN cur
                        ELSE CHOOSE v \in Values : Spelling[v] = str
             /\ r.val \in Setting
             /\ r.changed = IF str \in {Unset, Bad} THEN 0 ELSE 1
<1>1. Unset \notin Numerals /\ Bad \notin Numerals
  BY DEF Numerals, Unset
<1>2. str \in Numerals => (CHOOSE v \in Values : Spelling[v] = str) \in Values
  BY DEF Numerals
<1>3. CASE str = Unset
  BY <1>1, <1>3 DEF applyOptionalInt, Unset
<1>4. CASE str = Bad
  BY <1>1, <1>4 DEF applyOptionalInt, Unset
<1>5. CASE str \in Numerals
  <2>1. applyOptionalInt(cur, str)
          = [err |-> FALSE, old |-> cur, val |-> ParseInt(str), changed |-> 1]
    BY <1>1, <1>5 DEF applyOptionalInt
  <2>2. str \notin {Unset, Bad} /\ ParseInt(str) \in Setting
    BY <1>1, <1>2, <1>5 DEF ParseInt, Setting
  <2>3. QED
    BY <2>1, <2>2 DEF ParseInt
<1>6. QED
  BY <1>3, <1>4, <1>5 DEF Inputs

\* The number of flags given on the command line, flag by flag.
LEMMA CountGiven ==
    ASSUME NEW a \in [FlagNames -> Inputs]
    PROVE  Cardinality({f \in FlagNames : a[f] # Unset})
             = (IF a["max-parallel-file-reads"] = Unset THEN 0 ELSE 1)
               + (IF a["max-parallel-snapshots"] = Unset THEN 0 ELSE 1)
<1> DEFINE F1 == "max-parallel-file-reads"
           F2 == "max-parallel-snapshots"
           G == {f \in FlagNames : a[f] # Unset}
<1>1. CASE a[F1] = Unset /\ a[F2] = Unset
  <2>1. G = {}
    BY <1>1 DEF FlagNames
  <2>2. QED
    BY <1>1, <2>1, FS_EmptySet
<1>2. CASE a[F1] # Unset /\ a[F2] = Unset
  <2>1. G = {F1}
    BY <1>2 DEF FlagNames
  <2>2. QED
    BY <1>2, <2>1, FS_Singleton
<1>3. CASE a[F1] = Unset /\ a[F2] # Unset
  <2>1. G = {F2}
    BY <1>3 DEF FlagNames
  <2>2. QED
    BY <1>3, <2>1, FS_Singleton
<1>4. CASE a[F1] # Unset /\ a[F2] # Unset
  <2>1. G = {F1} \cup {F2} /\ F2 \notin {F1}
    BY <1>4 DEF FlagNames
  <2>2. IsFiniteSet({F1}) /\ Cardinality({F1}) = 1
    BY FS_Singleton
  <2>3. Cardinality({F1} \cup {F2}) = 2
    BY <2>1, <2>2, FS_AddElement
  <2>4. QED
    BY <1>4, <2>1, <2>3
<1>5. QED
  BY <1>1, <1>2, <1>3, <1>4

\* The two applyOptionalInt calls of setUploadPolicyFromFlags, on the
\* flags as the command line gave them.
R1 == applyOptionalInt(up.MaxParallelFileReads, args["max-parallel-file-reads"])
R2 == applyOptionalInt(up.MaxParallelSnapshots, args["max-parallel-snapshots"])

\* What one setUploadPolicyFromFlags step does, in terms of the two calls.
LEMMA ApplyStepFacts ==
    ASSUME PolicyInv, SetUploadPolicyFromFlags
    PROVE  /\ up'.MaxParallelFileReads = R1.val
           /\ up'.MaxParallelSnapshots = IF R1.err THEN up.MaxParallelSnapshots
                                                    ELSE R2.val
           /\ up' \in [Fields -> Setting]
           /\ R1.changed \in 0..1 /\ R2.changed \in 0..1
           /\ changeCount' = changeCount + R1.changed
                              + (IF R1.err THEN 0 ELSE R2.changed)
           /\ result' = IF R1.err THEN "max parallel file reads"
                        ELSE IF R2.err THEN "max parallel snapshots" ELSE "nil"
           /\ phase = "parsed" /\ phase' = "applied"
           /\ UNCHANGED <<args, c>>
<1>1. /\ c.maxParallelFileReads = args["max-parallel-file-reads"]
      /\ c.maxParallelUploads = args["max-parallel-snapshots"]
  BY DEF PolicyInv, Setup
<1>2. /\ up.MaxParallelFileReads \in Setting /\ up.MaxParallelSnapshots \in Setting
      /\ args["max-parallel-file-reads"] \in Inputs
      /\ args["max-parallel-snapshots"] \in Inputs
  BY DEF PolicyInv, PolicyTypeOK, FlagNames
<1>3. /\ R1.val \in Setting /\ R2.val \in Setting
      /\ R2.old = up.MaxParallelSnapshots
  BY <1>2, ApplyFacts DEF R1, R2
\* The steps that need arithmetic keep the error strings, which the SMT
\* backend does not encode, out of their facts; the result is taken apart
\* on its own with Zenon.
<1>4. /\ up' = [MaxParallelFileReads |-> ApplyInOrder(R1, R2).files,
                MaxParallelSnapshots |-> ApplyInOrder(R1, R2).snapshots]
      /\ changeCount' = changeCount + ApplyInOrder(R1, R2).changed
      /\ phase = "parsed" /\ phase' = "applied"
      /\ UNCHANGED <<args, c>>
  BY <1>1 DEF SetUploadPolicyFromFlags, R1, R2
<1>5. result' = ApplyInOrder(R1, R2).err
  BY <1>1, Zenon DEF SetUploadPolicyFromFlags, R1, R2
<1>6. /\ ApplyInOrder(R1, R2).files = R1.val
      /\ ApplyInOrder(R1, R2).snapshots = IF R1.err THEN R2.old ELSE R2.val
      /\ ApplyInOrder(R1, R2).changed = IF R1.err THEN R1.changed
                                        ELSE R1.changed + R2.changed
  BY Zenon DEF ApplyInOrder
<1>7. ApplyInOrder(R1, R2).err = IF R1.err THEN "max parallel file reads"
                                 ELSE IF R2.err THEN "max parallel snapshots"
                                 ELSE "nil"
  BY Zenon DEF ApplyInOrder
<1>8. /\ R1.changed \in 0..1 /\ R2.changed \in 0..1
      /\ R1.err \in BOOLEAN /\ R2.err \in BOOLEAN
  BY <1>2, ApplyFacts DEF R1, R2
<1>9. up' \in [Fields -> Setting]
  <2>1. ApplyInOrder(R1, R2).files \in Setting
        /\ ApplyInOrder(R1, R2).snapshots \in Setting
    BY <1>2, <1>3, <1>6, <1>8
  <2>2. QED
    BY <1>4, <2>1 DEF Fields
<1>10. /\ up'.MaxParallelFileReads = R1.val
       /\ up'.MaxParallelSnapshots = IF R1.err THEN up.MaxParallelSnapshots
                                                ELSE R2.val
  BY <1>3, <1>4, <1>6
<1>11. changeCount' = changeCount + R1.changed + (IF R1.err THEN 0 ELSE R2.changed)
  <2>1. changeCount \in Nat
    BY DEF PolicyInv, PolicyTypeOK
  <2>2. QED
    BY <1>4, <1>6, <1>8, <2>1
<1>12. result' = IF R1.err THEN "max parallel file reads"
                 ELSE IF R2.err THEN "max parallel snapshots" ELSE "nil"
  BY <1>5, <1>7, Zenon
<1>13. QED
  BY <1>4, <1>8, <1>9, <1>10, <1>11, <1>12

LEMMA PolicyInitInv == PolicyInit => PolicyInv
<1> SUFFICES ASSUME PolicyInit PROVE PolicyInv
  OBVIOUS
<1>1. args \in [FlagNames -> Inputs]
  BY DEF PolicyInit, Inputs
<1>2. changeCount \in 0..MaxChanges + 2 /\ changeCount <= MaxChanges
  BY DEF PolicyInit
<1>3. QED
  BY <1>1, <1>2 DEF PolicyInit, PolicyInv, PolicyTypeOK

LEMMA PolicyStep == PolicyInv /\ [PolicyNext]_policyVars => PolicyInv'
<1> SUFFICES ASSUME PolicyInv, [PolicyNext]_policyVars PROVE PolicyInv'
  OBVIOUS
<1>1. CASE Parse
  BY <1>1 DEF Parse, PolicyInv, PolicyTypeOK
<1>2. CASE SetUploadPolicyFromFlags
  <2>1. changeCount <= MaxChanges /\ changeCount \in Nat
    BY <1>2 DEF SetUploadPolicyFromFlags, PolicyInv, PolicyTypeOK
  <2>2. /\ R1.changed \in 0..1 /\ R2.changed \in 0..1
        /\ changeCount' = changeCount + R1.changed
                           + (IF R1.err THEN 0 ELSE R2.changed)
    BY <1>2, ApplyStepFacts
  <2>3. changeCount' \in 0..MaxChanges + 2
    BY <2>1, <2>2
  <2>4. up' \in [Fields -> Setting] /\ phase' = "applied" /\ UNCHANGED <<args, c>>
    BY <1>2, ApplyStepFacts
  <2>5. QED
    BY <2>3, <2>4 DEF PolicyInv, PolicyTypeOK, Fields
<1>3. CASE OtherFlagGroup
  BY <1>3 DEF OtherFlagGroup, PolicyInv, PolicyTypeOK
<1>4. CASE UNCHANGED policyVars
  BY <1>4 DEF policyVars, PolicyInv, PolicyTypeOK
<1>5. QED
  BY <1>1, <1>2, <1>3, <1>4 DEF PolicyNext

\* The policy-flag state stays typed: the command line holds flag strings,
\* the policy fields hold integers or nil, and changeCount stays bounded.
THEOREM PolicyTypeCorrect == PolicySpec => []PolicyTypeOK
<1>1. PolicyInv => PolicyTypeOK
  BY DEF PolicyInv
<1>2. QED
  BY <1>1, PolicyInitInv, PolicyStep, PTL DEF PolicySpec

\* The struct setup filled always holds the command line's own flags, and
\* changeCount exceeds MaxChanges only after the apply step.
THEOREM PolicyInvariant == PolicySpec => []PolicyInv
  BY PolicyInitInv, PolicyStep, PTL DEF PolicySpec

\* Only setUploadPolicyFromFlags moves the phase from parsed to applied.
LEMMA OnlyApplyApplies ==
    ASSUME [PolicyNext]_policyVars, phase = "parsed", phase' = "applied"
    PROVE  SetUploadPolicyFromFlags
  BY DEF PolicyNext, Parse, OtherFlagGroup, policyVars

\* The step behind UploadFlagsApplied: an apply step that returns nil set
\* each field from its own flag and counted exactly the flags given.
LEMMA AppliedStep ==
    PolicyInv /\ [PolicyNext]_policyVars => [AppliedAsGiven]_policyVars
<1> DEFINE F1 == "max-parallel-file-reads"
           F2 == "max-parallel-snapshots"
           New(f) == CHOOSE v \in Values : Spelling[v] = args[f]
<1> SUFFICES ASSUME PolicyInv, [PolicyNext]_policyVars,
                    phase = "parsed", phase' = "applied", result' = "nil"
             PROVE  /\ \A f \in FlagNames :
                          up'[FieldOf[f]] = IF args[f] = Unset THEN up[FieldOf[f]]
                                            ELSE New(f)
                    /\ changeCount' - changeCount
                          = Cardinality({f \in FlagNames : args[f] # Unset})
  BY DEF AppliedAsGiven
<1>1. SetUploadPolicyFromFlags
  BY OnlyApplyApplies
<1>2. ~R1.err /\ ~R2.err
  <2>1. result' = IF R1.err THEN "max parallel file reads"
                  ELSE IF R2.err THEN "max parallel snapshots" ELSE "nil"
    BY <1>1, ApplyStepFacts
  <2>2. QED
    BY <2>1, Zenon
<1>3. /\ args \in [FlagNames -> Inputs]
      /\ args[F1] \in Inputs /\ args[F2] \in Inputs
      /\ up.MaxParallelFileReads \in Setting /\ up.MaxParallelSnapshots \in Setting
      /\ changeCount \in Nat
  BY DEF PolicyInv, PolicyTypeOK, FlagNames
<1>4. args[F1] # Bad /\ args[F2] # Bad
  BY <1>2, <1>3, ApplyFacts DEF R1, R2
<1>5. /\ R1.val = IF args[F1] = Unset THEN up.MaxParallelFileReads ELSE New(F1)
      /\ R2.val = IF args[F2] = Unset THEN up.MaxParallelSnapshots ELSE New(F2)
      /\ R1.changed = IF args[F1] = Unset THEN 0 ELSE 1
      /\ R2.changed = IF args[F2] = Unset THEN 0 ELSE 1
  BY <1>3, <1>4, ApplyFacts DEF R1, R2
<1>6. /\ up'.MaxParallelFileReads = R1.val
      /\ up'.MaxParallelSnapshots = R2.val
      /\ changeCount' = changeCount + R1.changed + R2.changed
  <2>1. /\ up'.MaxParallelFileReads = R1.val
        /\ up'.MaxParallelSnapshots = IF R1.err THEN up.MaxParallelSnapshots
                                                 ELSE R2.val
        /\ changeCount' = changeCount + R1.changed
                           + (IF R1.err THEN 0 ELSE R2.changed)
    BY <1>1, ApplyStepFacts
  <2>2. QED
    BY <1>2, <2>1
<1>7. \A f \in FlagNames :
        up'[FieldOf[f]] = IF args[f] = Unset THEN up[FieldOf[f]] ELSE New(f)
  BY <1>5, <1>6 DEF FlagNames, FieldOf
<1>8. changeCount' - changeCount = Cardinality({f \in FlagNames : args[f] # Unset})
  <2>1. Cardinality({f \in FlagNames : args[f] # Unset})
          = (IF args[F1] = Unset THEN 0 ELSE 1) + (IF args[F2] = Unset THEN 0 ELSE 1)
    BY <1>3, CountGiven
  <2>2. QED
    BY <1>3, <1>5, <1>6, <2>1
<1>9. QED
  BY <1>7, <1>8

\* The step behind FirstErrorStops: a first flag that does not parse ends
\* the apply step naming it, with the snapshots field untouched.
LEMMA StopsStep ==
    PolicyInv /\ [PolicyNext]_policyVars => [StopsAtFirst]_policyVars
<1> SUFFICES ASSUME PolicyInv, [PolicyNext]_policyVars,
                    phase = "parsed", phase' = "applied",
                    args["max-parallel-file-reads"] = Bad
             PROVE  /\ result' = "max parallel file reads"
                    /\ up'.MaxParallelSnapshots = up.MaxParallelSnapshots
  BY DEF StopsAtFirst
<1>1. SetUploadPolicyFromFlags
  BY OnlyApplyApplies
<1>2. R1.err
  <2>1. args["max-parallel-file-reads"] \in Inputs
        /\ up.MaxParallelFileReads \in Setting
    BY DEF PolicyInv, PolicyTypeOK, FlagNames
  <2>2. QED
    BY <2>1, ApplyFacts DEF R1
<1>3. /\ up'.MaxParallelSnapshots = IF R1.err THEN up.MaxParallelSnapshots
                                               ELSE R2.val
      /\ result' = IF R1.err THEN "max parallel file reads"
                   ELSE IF R2.err THEN "max parallel snapshots" ELSE "nil"
  BY <1>1, ApplyStepFacts
<1>4. QED
  BY <1>2, <1>3, Zenon

\* The step behind SecondErrorKeepsFirst: a second flag that does not parse
\* ends the apply step naming it, after the first flag was applied and
\* counted.
LEMMA SecondStep ==
    PolicyInv /\ [PolicyNext]_policyVars => [KeepsFirstOnSecond]_policyVars
<1> DEFINE F1 == "max-parallel-file-reads"
           F2 == "max-parallel-snapshots"
           New1 == CHOOSE v \in Values : Spelling[v] = args[F1]
<1> SUFFICES ASSUME PolicyInv, [PolicyNext]_policyVars,
                    phase = "parsed", phase' = "applied",
                    args[F1] # Bad, args[F2] = Bad
             PROVE  /\ result' = "max parallel snapshots"
                    /\ up'.MaxParallelFileReads
                          = IF args[F1] = Unset THEN up.MaxParallelFileReads ELSE New1
                    /\ up'.MaxParallelSnapshots = up.MaxParallelSnapshots
                    /\ changeCount' = changeCount + (IF args[F1] = Unset THEN 0 ELSE 1)
  BY Zenon DEF KeepsFirstOnSecond
<1>1. SetUploadPolicyFromFlags
  BY OnlyApplyApplies
<1>2. /\ args[F1] \in Inputs /\ args[F2] \in Inputs
      /\ up.MaxParallelFileReads \in Setting /\ up.MaxParallelSnapshots \in Setting
      /\ changeCount \in Nat
  BY DEF PolicyInv, PolicyTypeOK, FlagNames
<1>3. /\ ~R1.err /\ R2.err
      /\ R1.val = IF args[F1] = Unset THEN up.MaxParallelFileReads ELSE New1
      /\ R1.changed = IF args[F1] = Unset THEN 0 ELSE 1
  BY <1>2, ApplyFacts DEF R1, R2
<1>4. /\ up'.MaxParallelFileReads = R1.val
      /\ up'.MaxParallelSnapshots = IF R1.err THEN up.MaxParallelSnapshots
                                               ELSE R2.val
      /\ changeCount' = changeCount + R1.changed
                         + (IF R1.err THEN 0 ELSE R2.changed)
  BY <1>1, ApplyStepFacts
<1>5. result' = IF R1.err THEN "max parallel file reads"
                ELSE IF R2.err THEN "max parallel snapshots" ELSE "nil"
  BY <1>1, ApplyStepFacts
<1>6. R2.changed = 0 /\ R2.val = up.MaxParallelSnapshots
  BY <1>2, ApplyFacts DEF R2
<1>7. /\ up'.MaxParallelFileReads
          = IF args[F1] = Unset THEN up.MaxParallelFileReads ELSE New1
      /\ up'.MaxParallelSnapshots = up.MaxParallelSnapshots
      /\ changeCount' = changeCount + (IF args[F1] = Unset THEN 0 ELSE 1)
  <2>1. up'.MaxParallelFileReads
          = IF args[F1] = Unset THEN up.MaxParallelFileReads ELSE New1
    BY <1>3, <1>4
  <2>2. up'.MaxParallelSnapshots = up.MaxParallelSnapshots
    BY <1>3, <1>4, <1>6
  <2>3. changeCount' = changeCount + (IF args[F1] = Unset THEN 0 ELSE 1)
    <3>1. R1.changed \in 0..1
      BY <1>3
    <3>2. changeCount' = changeCount + R1.changed
      BY <1>2, <1>3, <1>4, <1>6, <3>1
    <3>3. QED
      BY <1>3, <3>2
  <2>4. QED
    BY <2>1, <2>2, <2>3
<1>8. result' = "max parallel snapshots"
  BY <1>3, <1>5, Zenon
<1>9. QED
  BY <1>7, <1>8

\* A successful setUploadPolicyFromFlags sets each policy field from its
\* own flag and adds to changeCount exactly the flags given, for every set
\* of values, spellings and bound.
THEOREM UploadFlagsAppliedHolds == PolicySpec => UploadFlagsApplied
  BY PolicyInvariant, AppliedStep, PTL DEF PolicySpec, UploadFlagsApplied

\* A max-parallel-file-reads flag that does not parse stops the call with
\* its own error before the snapshots field is touched.
THEOREM FirstErrorStopsHolds == PolicySpec => FirstErrorStops
  BY PolicyInvariant, StopsStep, PTL DEF PolicySpec, FirstErrorStops

\* A max-parallel-snapshots flag that does not parse, after a good
\* max-parallel-file-reads flag, fails naming the second flag and keeps the
\* first field as applied and counted.
THEOREM SecondErrorKeepsFirstHolds == PolicySpec => SecondErrorKeepsFirst
  BY PolicyInvariant, SecondStep, PTL DEF PolicySpec, SecondErrorKeepsFirst
====
