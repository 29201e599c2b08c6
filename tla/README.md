# TLA+ models of the kopia metadata manager

This directory holds TLA+ models of `src/metadata/metadata_manager.go`. It also holds the TLC configurations that check them and the TLAPS proofs about them.

## The system

The repository core (see `spec.md`) has three layers:

- the object layer: splitter, object writer and object reader;
- the block layer: packing, pack indexes and index compaction;
- the metadata manager.

Only the metadata manager's implementation is under `src/`. `src/unnamed/part_000` holds the repository tests, which exercise the object and block layers.

The metadata manager (`Manager`) is a keyed store of named items. It sits on the blob storage backend, behind a small cache of known names (`metadataCache`).

- **Single-item operations:**
  - `Put` and `PutJSON` seal the content with AES-256-GCM when the format says `AES256_GCM`. Sealing prepends a random 12-byte nonce and authenticates with a constant `authData`. The sealed blob is then stored through `cache.PutBlock`.
  - `GetMetadata` and `GetJSON` read the blob through `cache.GetBlock`. They map `storage.ErrBlockNotFound` to `ErrNotFound` and open the AEAD.
  - `Remove` deletes the blob.
  - `RefreshCache` relists the backend.
  - The names `format` and `repo` are reserved. `Put`, `GetMetadata` and `Remove` reject them.
- **Bulk operations:**
  - `MultiGet` (and `ListContents`, which lists the cache and calls `MultiGet`) starts 5 worker goroutines. A feeder goroutine sends the item IDs to the workers over an unbuffered channel. The caller receives exactly `len(itemIDs)` results from a second unbuffered channel.
  - `RemoveMany` starts 30 workers under a `WaitGroup`. It feeds them over an unbuffered channel, waits, closes `errch` (buffered to `len(itemIDs)`) and returns the first error in it.
- **Other actors:**
  - Other goroutines of the same process call the manager concurrently. It has no lock; the backend is safe for concurrent calls.
  - Other repository clients share the storage.
  - An adversary with write access to the storage may damage or move blobs.

## Modules

| Module | Models | State | Actions |
|---|---|---|---|
| `MetadataManager` | the single-item operations, `initCrypto`, the reserved-name checks, the cache (spec-modelled), other clients and the adversary | `storage` (name -> blob: plaintext, sealed?, damage), `cache`, ghost `written` (last plaintext written with the key), ghost `lastRead` | `Put`, `PutJSON`, `GetMetadata`, `GetJSON`, `Remove`, `RefreshCache`; environment `ExternalPut`, `ExternalRemove`, `Tamper`, `Relocate` |
| `MetadataMultiGet` | `MultiGet`, `ListContents` composed with the manager | `mgPhase`, `itemIDs`, `fed`, `inputsOpen`, per-worker `wst`/`witem`/`wres`, `received`, `resultErr`, `resultMap`, `mgOut`, ghost `errs` | `MultiGet`, `ListContents`, `Feed`, `CloseInputs`, `WorkerExit`, `Fetch`, `Deliver`, `Return`, `OtherStep` |
| `MetadataRemoveMany` | `RemoveMany` composed with the manager | `rmPhase`, `rmIDs`, `rmFed`, `chOpen`, per-worker `rst`/`ritem`/`rerr`, `wg`, `errch`, `rmOut`, ghost `removed` | `RemoveMany`, `SendID`, `CloseCh`, `RemoveItem`, `SendErr`, `WorkerDone`, `Finish`, `OtherRmStep` |
| `RemoveManyAtomic` | what `RemoveMany` promises: one `Remove` per entry of `itemIDs`, then a return of nil or one of their errors | the manager's variables, `phase`, `left` (name -> occurrences still to remove), `failed`, `out` | `Begin`, `RemoveOne`, `Return`, `OtherWrite` |
| `PolicyUploadFlags` | the CLI's `policyUploadFlags` (appended to `metadata_manager.go`) | `args` (the command line), `c` (the struct), `up` (the upload policy), `changeCount`, `result`, `phase` | `Parse` (`setup` plus flag parsing), `SetUploadPolicyFromFlags`, `OtherFlagGroup` |
| `MetadataManagerProofs` | TLAPS proofs about `MetadataManager` | | |
| `MetadataRemoveManyProofs` | TLAPS proofs about `RemoveMany`: `errch` never blocks, typing, and the outcome | | |
| `MetadataMultiGetProofs` | TLAPS proofs about `MultiGet`: typing, the counting invariant `MGInv`, and `MultiGetComplete` | | |
| `PolicyUploadFlagsProofs` | TLAPS proofs about `policyUploadFlags`: typing and both action properties | | |
| `MC_*` | TLC instances: model values for names, payloads and workers | | |

`PROJECT.json` ("map") lists the lines of code each definition translates.

### How the data is abstracted

A blob is a record of three things:

- the plaintext it carries;
- whether the AEAD sealed it;
- the damage the storage did to it: `intact`, `corrupt`, or `short` (shorter than the nonce).

This is exactly what `decryptBlock` distinguishes:

- Under the AEAD:
  - a `short` blob panics in the slice expressions at line 112;
  - a `corrupt` or unsealed blob fails `aead.Open`;
  - an intact sealed blob opens.
- Without the AEAD, the stored bytes come back as they are: garbage if they were damaged.

`GetJSON` either parses the garbage or fails on it. Errors are reduced to the outcomes the callers distinguish: `ErrNotFound`, the reserved-name error, a malformed blob, a wrapped backend error, and a panic.

### How the concurrency is abstracted

Each manager operation is one atomic step, because the manager holds no state of its own outside the backend and the cache. In the pool modules:

- a send on an unbuffered channel and the receive that takes it are a single step;
- a buffered channel is a sequence with its capacity in the guard of the send.

The other goroutines, the other clients and the adversary interleave between any two steps of the pool.

## Runs

| Run | Checks | Result |
|---|---|---|
| `metadata_aead` | `TypeOK`, `GetAuthentic` with AES256_GCM, bit flips, truncations and transient backend errors | pass |
| `metadata_plain` | action property `NotFoundMeansAbsent` with encryption `NONE`, every attack and transient backend failures | pass |
| `multiget_pass` | `MGTypeOK`, `MultiGetComplete`, `MGInv` (the inductive invariant of its proof), liveness `MultiGetTerminates` | pass |
| `removemany_inductive` | `ErrchInv` and `RMInv`, the inductive invariants of `ErrchSafe`, and of `RMTypeCorrect` and `RemoveManyOutcomeHolds` | pass |
| `policy_flags` | `PolicyTypeOK`, action properties `UploadFlagsApplied`, `FirstErrorStops` and `SecondErrorKeepsFirst` | pass |
| `removemany_pass` | `RMTypeOK`, `RemoveManyOutcome`, `ErrchNeverBlocks`, liveness `RemoveManyTerminates`, refinement `RefinesAtomic` (the pool implements `RemoveManyAtomic`, fairness included) | pass |
| `reserved` | `ReservedProtected` | violated: `PutJSON` has no reserved-name check (line 193) |
| `panic` | `ReadNeverPanics` | violated: under AES256_GCM, a stored blob truncated below the nonce size (in the trace, the plain-text format document) panics at line 112 or 113 instead of returning a Malformed error |
| `relocate` | `GetAuthentic` when the storage may copy blobs between names | violated: `authData` is constant, so a moved blob opens under its new name |
| `multiget_missing` | `MultiGetOmitsMissing` (the doc comment at line 130) | violated: a missing item makes `MultiGet` fail with `ErrNotFound` |
| `multiget_firsterror` | `MultiGetFirstError` (spec 4.6) | violated: `resultErr` is overwritten, so the last error is returned |

What the passing properties mean:

- **`GetAuthentic`**: under the AEAD, a successful read returns the plaintext last written with the key under that name.
- **`MultiGetComplete`**: a successful `MultiGet` has an entry for exactly the requested items. Neither the feeder, the workers nor the collecting loop loses or invents a result.
- **`MultiGetTerminates`**: every call returns, and afterwards `inputs` is closed and every worker has exited, so no goroutine leaks.
- **`RemoveManyOutcome`**: `RemoveMany` returns only after every worker is done. It returns nil only if every item was deleted during the call.
- **`ErrchNeverBlocks`**: a worker never waits on a full `errch`.
- **`RefinesAtomic`**: every behaviour of the pool, seen through the refinement mapping below, is a behaviour of the atomic `RemoveMany`. That includes its fairness, so every call also returns.
- **`UploadFlagsApplied`**: a successful `setUploadPolicyFromFlags` sets each policy field to the integer on its own flag, or keeps it when the flag is absent. It adds to `changeCount` exactly the number of flags given.
- **`FirstErrorStops`**: when `max-parallel-file-reads` does not parse, the call fails naming that flag and leaves `MaxParallelSnapshots` alone.
- **`SecondErrorKeepsFirst`**: when `max-parallel-file-reads` is fine but `max-parallel-snapshots` does not parse, the call fails naming the second flag. The first field keeps the value already applied, since nothing is rolled back. `changeCount` counts the first flag and nothing for the failed one.
- **`NotFoundMeansAbsent`**: a `GetMetadata` or `GetJSON` step returns `ErrNotFound` only for an item absent from storage, never for a transient backend failure. An absent item is reported as `ErrNotFound` unless the backend call failed. This is `readEncryptedBlock`'s remap of `storage.ErrBlockNotFound` (lines 101-105).

### Refinement: the pool implements an atomic `RemoveMany`

`RemoveManyAtomic` states what a caller of `RemoveMany` may rely on without the worker pool:

- `Begin` records how often each name occurs in `itemIDs`.
- Each `RemoveOne(n)` is one `Remove(n)`. It either deletes `n` or fails with the reserved-name error or a backend error. These steps run in any order, interleaved with other writes.
- `Return` happens once nothing is left. It returns nil if no `Remove` failed, and otherwise one of the errors.

`MetadataRemoveMany` instantiates it with this mapping:

- `phase` is `"running"` while the caller feeds or waits.
- `left[n]` counts the occurrences of `n` that are not yet sent on `ch`, plus the workers in the middle of removing `n`.
- `failed` is the set of errors in `errch`, plus those of workers about to send.
- `out` is `rmOut`.

Each step maps as follows:

- A worker's `Remove` step is a `RemoveOne` step.
- The final `Finish` is `Return`.
- Every other pool step is a stutter: sending an ID, sending an error, `wg.Done` and `close(ch)` change no abstract variable.

The mutant that drops `wg.Wait` breaks the refinement: the call returns while `left` is not zero.

### `PolicyUploadFlags`

- `setup` binds each flag to a string field of the struct. The model keeps the binding as the function `Setup` from flag names to fields. A swapped binding is a mutant.
- `setUploadPolicyFromFlags` calls `applyOptionalInt` for the file-reads flag and then for the snapshots flag, and returns at the first error.
- `applyOptionalInt` is not under `src/`. It is modelled from its use (`spec_modelled` in `PROJECT.json`):
  - an empty string leaves the field as it is;
  - a numeral is parsed, stored and counted in `changeCount`;
  - anything else is an error.
- A flag's value is one of three things: absent, the decimal spelling of a small integer, or a string that does not parse.
- `OtherFlagGroup` stands for the other flag groups of the same command, which also add to `changeCount`.

Each property of a passing run has a mutant in `PROJECT.json`: a plausible bug that TLC shows breaks the property. The mutants are:

- `errch` one slot short;
- the `wg.Wait` dropped;
- `wg.Done` called twice;
- the collecting loop stopping one result early;
- `close(inputs)` missing;
- `aead.Open` skipped;
- `ErrBlockNotFound` not remapped to `ErrNotFound`.
- the two flags bound to swapped fields;
- `setUploadPolicyFromFlags` not returning at the first error;
- a set flag counted twice in `changeCount`.

### Bounds

- **Names:** two ordinary names and one reserved name. This is enough for a write to one name to be read under another, and for a reserved name to be attacked.
- **Payloads:** two payloads. This is enough for an overwrite to be observable. The pool runs and `metadata_plain` use one payload, since their properties concern only whether an item is stored.
- **Workers:** two workers. That is the smallest pool in which results arrive out of order and two workers compete for the channel.
- **Requests:** they include a duplicated ID (`<<a, b, a>>`) and a reserved name. There are three items for two workers, so a worker takes a second item while the other is still busy.
- **Empty requests:** `<<>>` is among the requests. With it `errch` has capacity 0, and the call must return nil from the closed empty channel.
- **Policy flags:** the values 0 and 7 (0 is a legal setting), a non-numeral, and every combination of absent and given flags. Starting policies include nil fields.
- **Failure modes:** `Faults` enables transient backend failures. `Attacks` enables damage and relocation.

Every run finishes within a minute.

### Fairness

The pool specifications assume weak fairness of every pool step. The reasons:

- Go schedules every runnable goroutine eventually.
- A send on a channel whose receiver is waiting completes.

No fairness is assumed of the other callers, the other clients or the adversary.

Liveness holds only because of two things in the code:

- `close(inputs)` makes the workers' range loops end;
- `errch` has room for every error.

The mutants show this: without the close, or with an unbuffered `errch`, the liveness properties fail.

## Proofs (TLAPS)

`MetadataManagerProofs` proves the following for every value of the constants, under `ConstantsAssumption`:

- **`TypeCorrect`**: `Spec => []TypeOK`. The step lemma `TypeStep` has one step per action. It rests on `ReadResultsTyped`, which says what a read can return.
- **`Authenticity`**: if `"relocate" \notin Attacks`, then `Spec => []GetAuthentic`.
  - `GetAuthentic` alone is not inductive. A read of an intact sealed blob needs to know that the blob holds the last plaintext written under its name.
  - The strengthening `SealedBlobsCurrent` states exactly that. It is preserved because writes with the key update `written` and `storage` together, and removals reset both.
  - It is also preserved because tampering only changes `damage`, and a damaged blob never opens (lemma `ReadFromSealed`).
  - `AuthInv == TypeOK /\ (aeadOn => SealedBlobsCurrent /\ GetAuthentic)` holds initially and is preserved by every step (`AuthStep`).
  - The hypothesis on `Attacks` is necessary: the `relocate` run is the counterexample.

`MetadataRemoveManyProofs` proves **`ErrchSafe`**: `RMSpec => []ErrchNeverBlocks` for every finite, non-empty set of workers and every slice of item IDs. The premise is `RemoveManyAssumption`.
  - `ErrchNeverBlocks` is not inductive by itself. The strengthening `ErrchInv` counts errors: `Len(errch) + Cardinality(Busy) <= rmFed`.
  - `Busy` is the set of workers that hold an item whose error, if any, is not yet in `errch`.
  - The count is preserved by each step:
    - sending an ID adds one to `rmFed` and one busy worker;
    - a successful removal frees a worker;
    - an error send moves one unit from `Busy` to `errch`.
  - The cardinality facts come from `FiniteSetTheorems` (`FS_AddElement`, `FS_RemoveElement`, `FS_Subset`, `FS_EmptySet`). They are packaged as the lemmas `BusyJoin`, `BusyLeave` and `BusyStay`.
  - A worker about to send is busy, so `Len(errch) < rmFed <= Len(rmIDs)`, which is the capacity of `errch`.
  - The run `removemany_inductive` checks `ErrchInv` with TLC.

It also proves **`RMTypeCorrect`** (`RMSpec => []RMTypeOK`) and **`RemoveManyOutcomeHolds`** (`RMSpec => []RemoveManyOutcome`), under the same assumption.

- `RemoveManyOutcome` is not inductive. Its strengthening `RMInv` adds five facts:
  - `WaitGroupCounts`: `wg` equals the number of workers that have not exited, so `wg = 0` means none is running (lemma `NoneRunning`);
  - `ErrorsHeld` and `ItemsHeld`: what a busy worker holds is an error or a name;
  - `PhaseFacts`: what each phase of the caller implies of `ch`, `rmFed`, `wg` and `rmOut`. In particular, a finished call returned nil exactly when `errch` was empty;
  - `ItemsAccounted`: every item sent on `ch` is deleted, or has an error in `errch`, or is held by a worker.
- Only then do the pieces fit at the return:
  - every worker has exited, so no item is held;
  - nil means `errch` is empty;
  - so every item was deleted.
- The step lemma `RMStep` has one lemma per action. They are `SendIDStep`, `RemoveItemStep`, `SendErrStep`, `WorkerDoneStep`, `CloseChStep`, `FinishStep`, `StartStep` and `OtherStep`.
  - The cardinality of the exiting worker's set comes from `FS_RemoveElement`.
  - The other clients' steps reuse `TypeStep` of `MetadataManagerProofs`.
- The run `removemany_inductive` checks `RMInv` with TLC.
- `ErrchInvariant` and `RMInvariant` state `RMSpec => []ErrchInv` and `RMSpec => []RMInv` themselves, so that the strengthenings are results too.

`MetadataMultiGetProofs` proves **`MGTypeCorrect`**, **`MGInvariant`** (`MGSpec => []MGInv`) and **`MultiGetCompleteHolds`** (`MGSpec => []MultiGetComplete`). They hold for every finite, non-empty pool, every finite set of names and every requested slice of names. That premise is `MultiGetAssumption`: the pool has `parallelFetches` goroutines, and the cache lists finitely many names.

- `MultiGetComplete` is not inductive. When `Return` fires, the proof must know that every item fed has its result in the map. `MGInv` adds the facts for that:
  - `ResultsCounted`: `received + Cardinality(Busy) = fed`, where `Busy` is the set of workers fetching or sending. So `received = Len(itemIDs)` at the return means no result is still in flight.
  - `ItemsFed`: a busy worker holds an item already fed.
  - `MapCoversFed`: without an error, each fed item is in `resultMap` or is held by a busy worker. `Deliver` moves an item from the second case to the first.
  - `MapWithinRequest`: every map entry names a requested item.
  - `ResultsCarryData`: an `ok` result carries data (lemma `OkResultsCarryData`).
  - `ReturnedAfterAll`: a map is returned only after every result arrived and none failed.
- The step lemma `MGStep` has one lemma per action (`StartStep`, `FeedStep`, `FetchStep`, `DeliverStep`, `ReturnStep` and others). The other clients' steps reuse `TypeStep`.
- `ListTyped` shows that the slice `ListContents` builds from the cache is a `Seq(Names)`. For this it needs `Names` finite.
- The run `multiget_pass` checks `MGInv` with TLC.

`PolicyUploadFlagsProofs` proves **`PolicyTypeCorrect`**, **`UploadFlagsAppliedHolds`** (`PolicySpec => UploadFlagsApplied`) **`FirstErrorStopsHolds`** (`PolicySpec => FirstErrorStops`) and **`SecondErrorKeepsFirstHolds`** (`PolicySpec => SecondErrorKeepsFirst`). They hold for every set of values, every injective spelling and every `MaxChanges`, under `PolicyFlagsAssumption`.

- The invariant `PolicyInv` adds two facts to typing:
  - the struct always holds the flags `setup` bound (`c = Setup(args)`);
  - `changeCount <= MaxChanges` until the apply step.
  TLC checked it on the `policy_flags` instance before the proof.
- `ApplyFacts` says what `applyOptionalInt` returns for each kind of string. `CountGiven` counts the flags given, case by case.
- The action properties follow from `[]PolicyInv` and a step lemma each (`AppliedStep`, `StopsStep`, `SecondStep`), by PTL.
- In these steps the error strings are kept out of the SMT obligations, because the SMT backend cannot encode string literals with spaces. Those steps go to Zenon.

What stays with TLC only:

- the liveness properties (`MultiGetTerminates`, `RemoveManyTerminates`), because TLAPS does not reason about fairness and `ENABLED` here;
- the refinement `RefinesAtomic`. Its mapping uses `Cardinality` of index sets, and its fairness conditions need `ENABLED`;
- the properties that the violation runs show false (`GetAuthentic` under relocation, `ReservedProtected`, `ReadNeverPanics`, `MultiGetOmitsMissing`, `MultiGetFirstError`).

## Not modelled

- **Block manager, index compaction, object writer and reader, splitter, repository facade.** Their code is not under `src/`; only their tests are (`src/unnamed/part_000`).
- **`applyOptionalInt`'s parsing and its context argument.** They are not under `src/`. The parse is reduced to numeral / non-numeral, and the context is unused by what is modelled.
- **Cancellation contexts.** The metadata code has none.

## Plan

1. A spec-modelled block manager for packing, flush, dedup and pack-index listing. Then index compaction with its cutoff, including crash safety and a refinement to an abstract content store.
2. An object writer and splitter checked against a reference chunking over bounded inputs.
3. A TLAPS proof of the refinement step of `RemoveMany`, which needs cardinality lemmas about `Pending`.
