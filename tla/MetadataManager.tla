-------------------------- MODULE MetadataManager --------------------------
(***************************************************************************)
(* The metadata manager of src/metadata/metadata_manager.go: a keyed store *)
(* of named items layered on the blob storage, with optional AES-256-GCM   *)
(* sealing and protection of the reserved names "format" and "repo".       *)
(*                                                                         *)
(* A stored blob is abstracted to the plaintext it carries, whether it was *)
(* sealed by the AEAD, and what damage the storage did to it: "intact",    *)
(* "corrupt" (a flipped bit, or a length change that keeps it at least a   *)
(* nonce long) or "short" (shorter than the 12-byte nonce).  The metadata  *)
(* cache (metadataCache, not under src/) is modelled from the spec as the  *)
(* set of names it lists.  Every operation is one atomic step: the backend *)
(* is safe for concurrent calls and the manager holds no lock of its own.  *)
(***************************************************************************)
EXTENDS Naturals, FiniteSets

CONSTANTS
    Names,      \* item IDs a caller may pass, the reserved ones included
    Reserved,   \* the names isReservedName accepts: "format" and "repo"
    Payloads,   \* plaintext contents of metadata items (JSON documents)
    Algorithm,  \* Format.EncryptionAlgorithm given to NewManager
    Faults,     \* TRUE when backend calls may fail with a transient error
    Attacks     \* what an adversary with write access to storage may do

\* The document the repository initialiser stores in plain text under each
\* reserved name, the garbage a damaged plaintext blob reads back as, and
\* the value of an absent blob or of a read that returned no data.
FormatDoc == "format-document"
Garbled == "garbled"
NoBlob == "no-blob"

ASSUME ConstantsAssumption ==
    /\ Reserved \subseteq Names
    /\ FormatDoc \notin Payloads /\ Garbled \notin Payloads
    /\ NoBlob \notin Payloads
    /\ Algorithm \in {"AES256_GCM", "NONE"}
    /\ Faults \in BOOLEAN
    /\ Attacks \subseteq {"flip", "truncate", "relocate"}

VARIABLES
    storage,    \* name -> blob held by the backend, or Absent
    cache,      \* the names metadataCache lists
    written,    \* ghost: plaintext of the last write made with the key
    lastRead    \* ghost: outcome of the last GetMetadata/GetJSON step

vars == <<storage, cache, written, lastRead>>

Data == Payloads \cup {FormatDoc}
Damage == {"intact", "corrupt", "short"}
Blob == [data : Data, sealed : BOOLEAN, damage : Damage]
Absent == [data |-> NoBlob, sealed |-> FALSE, damage |-> "absent"]

\* Outcomes a read hands back to its caller: ErrNotFound, the reserved-name
\* error, an AEAD or JSON failure, a wrapped backend error, a runtime panic.
Outcomes == {"ok", "ErrNotFound", "invalid", "malformed", "ioerror", "panic"}
Result == [out : Outcomes, data : Data \cup {Garbled, NoBlob}]
ReadRecord == [id : Names \cup {NoBlob}, out : Outcomes \cup {"none"},
               data : Data \cup {Garbled, NoBlob}]
Failure(e) == [out |-> e, data |-> NoBlob]
NoRead == [id |-> NoBlob, out |-> "none", data |-> NoBlob]

\* initCrypto: mm.aead is set exactly for "AES256_GCM".
aeadOn == Algorithm = "AES256_GCM"

isReservedName(id) == id \in Reserved

\* writeEncryptedBlock's transformation of the content: nonce, ciphertext
\* and tag when the AEAD is on, the plaintext itself otherwise.
Seal(c) == [data |-> c, sealed |-> aeadOn, damage |-> "intact"]

FormatBlob == [data |-> FormatDoc, sealed |-> FALSE, damage |-> "intact"]

Present == {n \in Names : storage[n] # Absent}

\* Mutant: the stored bytes are returned without aead.Open.
decryptBlockSkipOpen(b) ==
    [out |-> "ok", data |-> IF b.damage = "intact" THEN b.data ELSE Garbled]

\* decryptBlock: slicing off the nonce panics when the blob is shorter than
\* the nonce; aead.Open rejects any other damage and any unsealed blob.
\* Without the AEAD the stored bytes are returned as they are.
decryptBlock(b) ==
    IF ~aeadOn
    THEN [out |-> "ok", data |-> IF b.damage = "intact" THEN b.data ELSE Garbled]
    ELSE IF b.damage = "short" THEN Failure("panic")
    ELSE IF b.damage = "corrupt" \/ ~b.sealed THEN Failure("malformed")
    ELSE [out |-> "ok", data |-> b.data]

\* Mutant: storage.ErrBlockNotFound is passed on instead of ErrNotFound.
readEncryptedBlockUnmapped(id) ==
    (IF storage[id] = Absent THEN {Failure("ErrBlockNotFound")}
                             ELSE {decryptBlock(storage[id])})
    \cup (IF Faults THEN {Failure("ioerror")} ELSE {})

\* Mutant: every error of GetBlock is reported as ErrNotFound.
readEncryptedBlockAllNotFound(id) ==
    (IF storage[id] = Absent THEN {Failure("ErrNotFound")}
                             ELSE {decryptBlock(storage[id])})
    \cup (IF Faults THEN {Failure("ErrNotFound")} ELSE {})

\* readEncryptedBlock: the possible results of reading item id through the
\* cache; storage.ErrBlockNotFound is remapped to ErrNotFound.
readEncryptedBlock(id) ==
    (IF storage[id] = Absent THEN {Failure("ErrNotFound")}
                             ELSE {decryptBlock(storage[id])})
    \cup (IF Faults THEN {Failure("ioerror")} ELSE {})

\* GetMetadata: the reserved-name check, then readEncryptedBlock.
GetMetadataResults(id) ==
    IF isReservedName(id) THEN {Failure("invalid")} ELSE readEncryptedBlock(id)

\* writeEncryptedBlock followed by metadataCache.PutBlock: the blob is
\* stored and the name listed, or the random nonce or the backend put fails
\* and nothing changes.  A write resets the last read.
writeEncryptedBlock(id, c) ==
    /\ \/ /\ storage' = [storage EXCEPT ![id] = Seal(c)]
          /\ cache' = cache \cup {id}
          /\ written' = [written EXCEPT ![id] = c]
       \/ /\ Faults
          /\ UNCHANGED <<storage, cache, written>>
    /\ lastRead' = NoRead

-----------------------------------------------------------------------------
(* The manager's operations. *)

Init ==
    /\ storage = [n \in Names |-> IF n \in Reserved THEN FormatBlob ELSE Absent]
    /\ cache = Reserved
    /\ written = [n \in Names |-> IF n \in Reserved THEN FormatDoc ELSE NoBlob]
    /\ lastRead = NoRead

Put(id, c) ==
    \/ /\ isReservedName(id)
       /\ UNCHANGED <<storage, cache, written>>
       /\ lastRead' = NoRead
    \/ /\ ~isReservedName(id)
       /\ writeEncryptedBlock(id, c)

\* PutJSON marshals the value and writes it without the reserved-name check.
PutJSON(id, c) == writeEncryptedBlock(id, c)

GetMetadata(id) ==
    /\ \E r \in GetMetadataResults(id) : lastRead' = [id |-> id, out |-> r.out, data |-> r.data]
    /\ UNCHANGED <<storage, cache, written>>

\* GetJSON reads without the reserved-name check and unmarshals: garbage
\* read back from a damaged plaintext blob may or may not parse.
GetJSON(id) ==
    /\ \E r \in readEncryptedBlock(id) :
          \/ /\ r.data # Garbled
             /\ lastRead' = [id |-> id, out |-> r.out, data |-> r.data]
          \/ /\ r.data = Garbled
             /\ \E o \in {"ok", "malformed"} :
                   lastRead' = [id |-> id, out |-> o,
                                data |-> IF o = "ok" THEN Garbled ELSE NoBlob]
    /\ UNCHANGED <<storage, cache, written>>

\* Remove: the reserved-name check, then metadataCache.DeleteBlock, which
\* deletes the blob and unlists the name unless the backend call fails.
Remove(id) ==
    /\ \/ isReservedName(id) /\ UNCHANGED <<storage, cache, written>>
       \/ /\ ~isReservedName(id)
          /\ storage' = [storage EXCEPT ![id] = Absent]
          /\ cache' = cache \ {id}
          /\ written' = [written EXCEPT ![id] = NoBlob]
       \/ /\ ~isReservedName(id) /\ Faults
          /\ UNCHANGED <<storage, cache, written>>
    /\ lastRead' = NoRead

\* RefreshCache: metadataCache.refresh lists the backend again.
RefreshCache ==
    /\ \/ cache' = Present
       \/ Faults /\ UNCHANGED cache
    /\ UNCHANGED <<storage, written, lastRead>>

-----------------------------------------------------------------------------
(* The environment: another repository client sharing the storage with the *)
(* same keys, and an adversary with write access to the storage.  A write  *)
(* with the key resets the ghost lastRead, as the manager's own writes do.  *)

ExternalPut(id, c) ==
    /\ ~isReservedName(id)
    /\ storage' = [storage EXCEPT ![id] = Seal(c)]
    /\ written' = [written EXCEPT ![id] = c]
    /\ lastRead' = NoRead
    /\ UNCHANGED cache

ExternalRemove(id) ==
    /\ ~isReservedName(id)
    /\ storage' = [storage EXCEPT ![id] = Absent]
    /\ written' = [written EXCEPT ![id] = NoBlob]
    /\ lastRead' = NoRead
    /\ UNCHANGED cache

Tamper(id) ==
    /\ storage[id] # Absent
    /\ \E a \in Attacks \ {"relocate"} :
          storage' = [storage EXCEPT ![id].damage =
                                  IF a = "flip" THEN "corrupt" ELSE "short"]
    /\ UNCHANGED <<cache, written, lastRead>>

\* Copy a genuine blob stored under one name to another name.
Relocate(src, dst) ==
    /\ "relocate" \in Attacks
    /\ src # dst /\ storage[src] # Absent
    /\ storage' = [storage EXCEPT ![dst] = storage[src]]
    /\ UNCHANGED <<cache, written, lastRead>>

ManagerNext ==
    \/ \E id \in Names, c \in Payloads : Put(id, c) \/ PutJSON(id, c)
    \/ \E id \in Names : GetMetadata(id) \/ GetJSON(id) \/ Remove(id)
    \/ RefreshCache

EnvironmentNext ==
    \/ \E id \in Names, c \in Payloads : ExternalPut(id, c)
    \/ \E id \in Names : ExternalRemove(id) \/ Tamper(id)
    \/ \E src, dst \in Names : Relocate(src, dst)

Next == ManagerNext \/ EnvironmentNext

Spec == Init /\ [][Next]_vars

-----------------------------------------------------------------------------
(* Properties. *)

TypeOK ==
    /\ storage \in [Names -> Blob \cup {Absent}]
    /\ cache \subseteq Names
    /\ written \in [Names -> Data \cup {NoBlob}]
    /\ lastRead \in ReadRecord

\* Authenticity (spec 4.6, 8): with AES256_GCM, a read of a metadata item
\* that succeeds returns exactly the plaintext last written under that name
\* by a holder of the key, whatever the storage did to the blobs since.
GetAuthentic ==
    aeadOn /\ lastRead.out = "ok" => lastRead.data = written[lastRead.id]

\* Reserved names (spec 4.6): no write through the manager ever replaces
\* the repository format document stored under "format" or "repo".
ReservedProtected == \A r \in Reserved : written[r] = FormatDoc

\* Damaged data is reported as an error (spec 7): reading a stored blob that
\* storage damaged, sealed or not, returns a Malformed error and never
\* crashes the process.
ReadNeverPanics == lastRead.out # "panic"

\* What a read of item id may report, given what storage holds for it.
ReadVerdict(id) ==
    /\ lastRead'.out = "ErrNotFound" => storage[id] = Absent
    /\ storage[id] = Absent => lastRead'.out \in {"ErrNotFound", "ioerror"}

\* Absence is reported faithfully (readEncryptedBlock's remap of
\* storage.ErrBlockNotFound): a GetMetadata or GetJSON step returns
\* ErrNotFound only for an item absent from storage, never for a transient
\* backend failure, and an absent item is reported as ErrNotFound unless the
\* backend call failed.
NotFoundMeansAbsent ==
    [][\A id \in Names : GetMetadata(id) \/ GetJSON(id) => ReadVerdict(id)]_vars
====
