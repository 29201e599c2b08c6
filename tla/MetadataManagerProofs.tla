----------------------- MODULE MetadataManagerProofs -----------------------
(***************************************************************************)
(* Proofs about MetadataManager for every value of its constants: type     *)
(* correctness, and authenticity of reads under AES256_GCM when the        *)
(* adversary can damage blobs but not move them between names.            *)
(***************************************************************************)
EXTENDS MetadataManager, TLAPS

USE ConstantsAssumption

\* What a read may return is a well-typed result.
LEMMA ReadResultsTyped ==
    ASSUME TypeOK, NEW id \in Names
    PROVE  /\ readEncryptedBlock(id) \subseteq Result
           /\ GetMetadataResults(id) \subseteq Result
<1>1. storage[id] # Absent => decryptBlock(storage[id]) \in Result
  BY DEF TypeOK, decryptBlock, Result, Blob, Absent, Failure, Outcomes, Data
<1>2. readEncryptedBlock(id) \subseteq Result
  BY <1>1 DEF readEncryptedBlock, Failure, Result, Outcomes
<1>3. QED
  BY <1>2 DEF GetMetadataResults, Failure, Result, Outcomes

\* Every step of Next keeps the state well typed.
LEMMA TypeStep == TypeOK /\ [Next]_vars => TypeOK'
<1> SUFFICES ASSUME TypeOK, [Next]_vars PROVE TypeOK'
  OBVIOUS
<1>1. \A c \in Payloads : Seal(c) \in Blob
  BY DEF Seal, Blob, Data, Damage, aeadOn
<1>2. NoRead \in ReadRecord
  BY DEF NoRead, ReadRecord, Outcomes
<1>3. ASSUME NEW id \in Names, NEW c \in Payloads, Put(id, c) \/ PutJSON(id, c)
      PROVE  TypeOK'
  BY <1>1, <1>2, <1>3 DEF Put, PutJSON, writeEncryptedBlock, TypeOK, Data
<1>4. ASSUME NEW id \in Names, GetMetadata(id) PROVE TypeOK'
  BY <1>4, ReadResultsTyped DEF GetMetadata, TypeOK, ReadRecord, Result
<1>5. ASSUME NEW id \in Names, GetJSON(id) PROVE TypeOK'
  BY <1>5, ReadResultsTyped DEF GetJSON, TypeOK, ReadRecord, Result, Outcomes
<1>6. ASSUME NEW id \in Names, Remove(id) PROVE TypeOK'
  BY <1>2, <1>6 DEF Remove, TypeOK, Absent
<1>7. CASE RefreshCache
  BY <1>7 DEF RefreshCache, TypeOK, Present
<1>8. ASSUME NEW id \in Names, NEW c \in Payloads, ExternalPut(id, c)
      PROVE  TypeOK'
  BY <1>1, <1>2, <1>8 DEF ExternalPut, TypeOK, Data
<1>9. ASSUME NEW id \in Names, ExternalRemove(id) \/ Tamper(id) PROVE TypeOK'
  BY <1>2, <1>9 DEF ExternalRemove, Tamper, TypeOK, Blob, Damage, Absent
<1>10. ASSUME NEW src \in Names, NEW dst \in Names, Relocate(src, dst)
       PROVE  TypeOK'
  BY <1>10 DEF Relocate, TypeOK
<1>11. CASE UNCHANGED vars
  BY <1>11 DEF vars, TypeOK
<1>12. QED
  BY <1>3, <1>4, <1>5, <1>6, <1>7, <1>8, <1>9, <1>10, <1>11
     DEF Next, ManagerNext, EnvironmentNext

\* The manager's state is always well typed.
THEOREM TypeCorrect == Spec => []TypeOK
<1>1. Init => TypeOK
  BY DEF Init, TypeOK, FormatBlob, Blob, Data, Damage, NoRead, ReadRecord,
         Outcomes, Absent
<1>2. QED
  BY <1>1, TypeStep, PTL DEF Spec

-----------------------------------------------------------------------------
(* Authenticity.  GetAuthentic is not inductive: a step that reads an      *)
(* intact sealed blob needs to know that the blob carries the plaintext    *)
(* last written under its name.  SealedBlobsCurrent says so, and holds as  *)
(* long as the adversary cannot move a sealed blob to another name.        *)

SealedBlobsCurrent ==
    \A n \in Names :
        storage[n] \in Blob /\ storage[n].sealed /\ storage[n].damage = "intact"
            => storage[n].data = written[n]

AuthInv == TypeOK /\ (aeadOn => SealedBlobsCurrent /\ GetAuthentic)

\* Under the AEAD a read never yields garbage, and yields data only from an
\* intact sealed blob stored under the name read.
LEMMA ReadFromSealed ==
    ASSUME TypeOK, aeadOn, NEW id \in Names, NEW r \in readEncryptedBlock(id)
    PROVE  /\ r.data # Garbled
           /\ r.out = "ok" => /\ storage[id] \in Blob
                              /\ storage[id].sealed
                              /\ storage[id].damage = "intact"
                              /\ r.data = storage[id].data
<1>1. CASE storage[id] = Absent
  BY <1>1 DEF readEncryptedBlock, Failure, Garbled, NoBlob
<1>2. CASE storage[id] # Absent
  <2> DEFINE b == storage[id]
  <2>1. b \in Blob
    BY <1>2 DEF TypeOK
  <2>2. r = decryptBlock(b) \/ r = Failure("ioerror")
    BY <1>2 DEF readEncryptedBlock
  <2>3. CASE r = Failure("ioerror")
    BY <2>3 DEF Failure, Garbled, NoBlob
  <2>4. CASE r = decryptBlock(b) /\ (b.damage # "intact" \/ ~b.sealed)
    <3>1. r = Failure("panic") \/ r = Failure("malformed")
      BY <2>1, <2>4 DEF decryptBlock, Blob, Damage
    <3>2. QED
      BY <3>1 DEF Failure, Garbled, NoBlob
  <2>5. CASE r = decryptBlock(b) /\ b.damage = "intact" /\ b.sealed
    <3>1. r = [out |-> "ok", data |-> b.data]
      BY <2>5 DEF decryptBlock
    <3>2. b.data # Garbled
      BY <2>1 DEF Blob, Data, Garbled, FormatDoc
    <3>3. QED
      BY <2>1, <2>5, <3>1, <3>2
  <2>6. QED
    BY <2>2, <2>3, <2>4, <2>5
<1>3. QED
  BY <1>1, <1>2

\* Every step keeps AuthInv when no blob can be relocated.
LEMMA AuthStep ==
    ASSUME "relocate" \notin Attacks
    PROVE  AuthInv /\ [Next]_vars => AuthInv'
<1> SUFFICES ASSUME AuthInv, [Next]_vars PROVE AuthInv'
  OBVIOUS
<1>1. TypeOK'
  BY TypeStep DEF AuthInv
<1> USE DEF AuthInv
<1> SUFFICES ASSUME aeadOn PROVE SealedBlobsCurrent' /\ GetAuthentic'
  BY <1>1
<1>2. NoRead.out # "ok"
  BY DEF NoRead
<1>4. ASSUME NEW id \in Names, NEW c \in Payloads,
             Put(id, c) \/ PutJSON(id, c) \/ ExternalPut(id, c)
      PROVE  SealedBlobsCurrent' /\ GetAuthentic'
  BY <1>2, <1>4 DEF Put, PutJSON, ExternalPut, writeEncryptedBlock, Seal,
                   SealedBlobsCurrent, GetAuthentic, TypeOK
<1>5. ASSUME NEW id \in Names, NEW r \in readEncryptedBlock(id),
             lastRead' = [id |-> id, out |-> r.out, data |-> r.data],
             UNCHANGED <<storage, written>>
      PROVE  SealedBlobsCurrent' /\ GetAuthentic'
  <2>1. r.out = "ok" => r.data = written[id]
    BY ReadFromSealed DEF SealedBlobsCurrent
  <2>2. QED
    BY <1>5, <2>1 DEF SealedBlobsCurrent, GetAuthentic
<1>6. ASSUME NEW id \in Names, GetMetadata(id)
      PROVE  SealedBlobsCurrent' /\ GetAuthentic'
  <2>1. CASE isReservedName(id)
    BY <1>6, <2>1 DEF GetMetadata, GetMetadataResults, Failure,
                       SealedBlobsCurrent, GetAuthentic
  <2>2. CASE ~isReservedName(id)
    <3>1. PICK r \in readEncryptedBlock(id) :
               lastRead' = [id |-> id, out |-> r.out, data |-> r.data]
      BY <1>6, <2>2 DEF GetMetadata, GetMetadataResults
    <3>2. QED
      BY <1>5, <1>6, <3>1 DEF GetMetadata
  <2>3. QED
    BY <2>1, <2>2
<1>7. ASSUME NEW id \in Names, GetJSON(id)
      PROVE  SealedBlobsCurrent' /\ GetAuthentic'
  <2>1. PICK r \in readEncryptedBlock(id) :
             \/ r.data # Garbled
                /\ lastRead' = [id |-> id, out |-> r.out, data |-> r.data]
             \/ r.data = Garbled
    BY <1>7 DEF GetJSON
  <2>2. r.data # Garbled
    BY ReadFromSealed
  <2>3. QED
    BY <1>5, <1>7, <2>1, <2>2 DEF GetJSON
<1>8. ASSUME NEW id \in Names, Remove(id) \/ ExternalRemove(id)
      PROVE  SealedBlobsCurrent' /\ GetAuthentic'
  BY <1>2, <1>8 DEF Remove, ExternalRemove, SealedBlobsCurrent, GetAuthentic,
                    Absent, TypeOK
<1>9. ASSUME NEW id \in Names, Tamper(id)
      PROVE  SealedBlobsCurrent' /\ GetAuthentic'
  BY <1>9 DEF Tamper, SealedBlobsCurrent, GetAuthentic, TypeOK
<1>10. ASSUME NEW src \in Names, NEW dst \in Names, Relocate(src, dst)
      PROVE  FALSE
  BY <1>10 DEF Relocate
<1>11. CASE RefreshCache \/ UNCHANGED vars
  BY <1>11 DEF RefreshCache, vars, SealedBlobsCurrent, GetAuthentic
<1>12. QED
  BY <1>4, <1>6, <1>7, <1>8, <1>9, <1>10, <1>11
     DEF Next, ManagerNext, EnvironmentNext

\* The initial state satisfies the authenticity invariant.
LEMMA AuthInitInv == Init => AuthInv
<1>1. Init => TypeOK
  BY DEF Init, TypeOK, FormatBlob, Blob, Data, Damage, NoRead, ReadRecord,
         Outcomes, Absent
<1>2. Init => SealedBlobsCurrent /\ GetAuthentic
  BY DEF Init, SealedBlobsCurrent, GetAuthentic, FormatBlob, Absent, NoRead
<1>3. QED
  BY <1>1, <1>2 DEF AuthInv

\* Authenticity for every instance: with AES256_GCM, and an adversary that
\* may flip bits in or truncate the stored blobs but not copy a blob to
\* another name, a successful GetMetadata or GetJSON returns exactly the
\* plaintext last written under that name.
THEOREM Authenticity ==
    ASSUME "relocate" \notin Attacks
    PROVE  Spec => []GetAuthentic
<1>1. AuthInv => GetAuthentic
  BY DEF AuthInv, GetAuthentic
<1>2. QED
  BY <1>1, AuthInitInv, AuthStep, PTL DEF Spec
====
