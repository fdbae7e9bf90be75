# Higgaion core crypto: TLA+ models, checks and proofs

This directory holds a TLA+ model of the C core in `src/src/pqc_crypto.c`, of the
Go, Rust and Python bindings over it, and of the parts of the node (migration
engine, consensus, ledger, governance, gateway, bridge, snapshots) whose code the
repository carries in `verification/`; the TLC configurations that check them on
small instances, and TLAPS proofs of their main properties for all instances.
Line numbers below refer to `src/src/pqc_crypto.c` unless another file is named.

## 1. Inventory

| part | state | operations | talks to |
|---|---|---|---|
| key lifecycle (230-303, 177-228) | `HiggaionKey.pkey`, one pointer per struct; OpenSSL's reference count per `EVP_PKEY` | `higgaion_key_init`, `generate_keypair`, `higgaion_key_free`, `higgaion_key_up_ref` | OpenSSL's `EVP_PKEY_free`, `EVP_PKEY_up_ref`, `EVP_PKEY_keygen` |
| durable erasure (242-286) | the handle, an open file, `<path>.tmp` and `<path>`, the directory that names them | `higgaion_key_erase_durable` | key lifecycle, the file system |
| signing and verification (307-420) | no state of its own; allocations and outputs of each running call | `pqc_sign`, `pqc_verify` | key handles, encoding, OpenSSL digests, `malloc` |
| domain separation (23-124) | none | `build_domain_separated_message` | called by sign and verify |
| algorithm allowlist (147-173) | none (a compile-time flag) | `higgaion_is_algorithm_allowed` | called by `generate_keypair` |
| bindings (`go/higgaion.go`, `rust/src/lib.rs`, `python/higgaion/core.py`) | `PrivateKey` and `PublicKey` wrappers, each with a `HiggaionKey` | `GenerateKeypair`, sign, verify, `Free` / `Drop` / `__del__` | all of the C core; the languages' collectors |
| utilities (424-472) | none | `secure_zero`, `hash`, `hig_error_str` | OpenSSL |

The rest of the node is closed source (`README.md:16`), but `verification/` carries
C copies and models of its functions, with contracts (`framac/`) and harnesses
(`cbmc/`), and executable Coq functions. Their code is modelled as it stands there;
what calls it is external, and named so in the map.

| part | state | operations | source |
|---|---|---|---|
| key migration | migration records, the table's capacity, a write-ahead log | import, begin, enter, finalise, roll back, replay | `coq/PQCMigration.v:68-147, 1229-1275`, `framac/wp_pqc_wal.c`, `wp_pqc_migration.c`, `cbmc/cbmc_pqc_migration*.c` |
| codec | none | `mig_hex_to_bin`, `wal_crc32`, the record layout | `cbmc/cbmc_pqc_migration.c`, `cbmc_pqc_migration_actual.c` |
| consensus | proposals, ballots and decisions of a view (external) | `bft_quorum`, `get_leader_for_view` | `framac/wp_consensus.c`, `cbmc/cbmc_consensus.c` |
| UTXO set | a spent flag per entry, shared by callers | `utxo_mark_spent` | `framac/wp_utxo.c`, `cbmc/cbmc_utxo.c` |
| ledger | balances and counts in words | credit, debit, transfer, fee arithmetic | `framac/wp_token_ledger.c`, `cbmc/cbmc_overflow.c` |
| governance | ballots and tallies of a proposal | `has_voted`, `accumulate_vote`, `quorum_reached`, `approval_reached` | `framac/wp_governance.c` |
| gateway session | upstream descriptor, state, two buffers | `handle_client_in`, `send_403_forbidden` | `framac/wp_gateway.c`, `eva_gateway.c`, `cbmc/cbmc_gateway.c` |
| bridge | none | what a transfer id and a lock proof hash | `cbmc/cbmc_bridge_bounds.c` |
| snapshots | status and copies of each snapshot | replication step | `cbmc/cbmc_disaster_recovery.c` |

These parts exchange nothing in the code of the tree: each is a function or a
record of its own, so there is no interaction to compose.

What is hard here, and which properties answer it:

* **Shared ownership.** A key pair is two structs over one object. The owners
  may free, regenerate, share again (also over a live handle, or with
  themselves) in any order, and a freed address may be handed out again.
  `EveryOwnerCounted`, `NoDanglingHandle`, `LeaksOnlyByOverwrite`, and
  `ImplementsOwners`, proved of the handles alone and of the bindings' wrappers; for an
  erasure of a shared key, `DestructionLeavesOwners`.
* **Guards and uses of one pointer in two places.** `pqc_sign` tests
  `sk->pkey` at 318 and uses it at 335, with no lock. `KeyAliveDuringCall`.
* **Failure at any step.** Six calls in `pqc_sign` may fail, each with its own
  clean-up. `NothingLeftBehind`, `OutputsAgree`; for the wrappers `NoKeyLeaks`.
* **Crashes and lost writes** during an erasure, and two erasures at once.
  `MarkerFollowsDestruction`, `WalIsAbsentOrErased`, `DestructionLeavesTrace`,
  `TrueMeansDurable`, `ErasedIsForever`, `ImplementsLog`, `DestroyedIsRecorded`.
* **An injective encoding**, at length limits and through C strings.
  `NoCrossDomainAcceptance`; for the bridge, `IdsIdentify` and `LocksIdentify`.
* **A log and a destruction that cannot be one step.** A finalisation destroys
  the classical key two steps before it is logged, a crash may come between any
  two, and the log may come back torn or damaged. `PqcOnlyMeansErased`,
  `RecoveryRestores`, `WellFormed`, `KeyRemains`, `OnlyRollbackLoses`, `CrcDetects`, `RecordsTold`,
  and `RecordsFit` for the table that grows while it is rebuilt.
* **Check, then set**: `SpentOnce`, under the mutex the callers hold.
* **Rounding and wrapping** in quorums, tallies, balances and fees: `Agreement`,
  `RoundCanFinish`, `TalliesAreStakes`, `AcceptedByMajority`, `SupplyConserved`,
  `FeesSaturate`.
* **What is stale when it is used**: bytes behind the request in a buffer
  (`VerdictFromReceived`), a region count (`VerifiedHasRegions`).

## 2. Modules

```
KeyOwners  <--refines--  KeyHandles  <--EXTENDS--  DurableErase --refines--> ErasureLog
                             ^
                             +--EXTENDS-- CryptoCalls <--EXTENDS-- Bindings
ByteStrings  <--EXTENDS--  DomainSeparation, BridgeIds, MigrationCodec

MigrationWal  Quorums  UtxoSet  TokenLedger  Governance  Gateway  Snapshots
   (independent; MCNode EXTENDS them, MigrationCodec, BridgeIds and DomainSeparation)

theorems: KeyHandles_proofs  <--EXTENDS--  DurableErase_proofs, Bindings_proofs
          Sums_proofs  <--EXTENDS--  Encodings_proofs  (ByteStrings, DomainSeparation,
                                                        BridgeIds, MigrationCodec)
                       <--EXTENDS--  Votes_proofs      (Quorums, Governance)
          MigrationWal_proofs, Votes_proofs  <--EXTENDS--  Node_proofs
                                  (UtxoSet, TokenLedger, Gateway, MCNode)
```

`MC...` modules give the constants their values for TLC.

**KeyHandles** has `pkey`, the pointer in every handle, and `refs`, OpenSSL's
counter per address. `Raw` is the content of a struct before
`higgaion_key_init`. There is one action per function and outcome:
`KeyInit`, `GenerateRejected` (policy, 185-192), `GenerateFails`,
`GenerateOk`, `KeyFree`, `EraseDestroys` (258-260), `KeyUpRef`, and `Retire`,
the end of an empty struct's storage. Each is one step because the functions do
not yield the handle in between; two threads on one handle at once is a race the
header does not allow. `GenerateOk` may return any free address, the one just
released included. `Permitted` is what `higgaion_is_algorithm_allowed` accepts in
the build at hand: the allowlist when `Required`, every name in a test build.

**KeyOwners** is what `pqc_crypto.h:35-44` promises, without counters: owners
hold keys, nothing one owner does touches another's key, and a key leaves memory
only when the acting owner was its last holder. `KeyHandles` implements it.

**DurableErase** runs `higgaion_key_erase_durable` system call by system call
(`EraseOpen`, `WriteErasing`, `EraseDestroy`, `WriteErased`, `EraseRename`,
`EraseSyncDir`), one thread per handle, over a file system in which `data` and
`dir` are what a reader sees and `disk` and `dirs` are what a power loss may
leave. `open` with `O_TRUNC` empties an existing file in place; a completed
write under `O_SYNC` is durable; a rename is durable only after the directory
is synced (or, with `SyncCommitsEntry`, after a later synced write, as on
journalling file systems). `ProcessCrash` keeps the files, `PowerLoss` picks one
of the possible directories and contents. The code has no recovery, so the
properties speak of what the files would say. Around the calls, handles that no call
is working on go through every lifecycle operation of `KeyHandles` (`UseHandles`),
those that overwrite a live handle included: a refused regeneration (190) and an
`up_ref` into a struct that holds a key (301). `lost` is a history of the keys whose
reference went that way (`Overwrites`). Only `DestructionLeavesOwners` reads it: an
erasure of a key that lost a reference leaves more references than owners, and of any
other key exactly one per remaining owner.

**ErasureLog** is its abstract specification: per path a destruction, then a
record, never early and never withdrawn.

**CryptoCalls** models `pqc_sign` and `pqc_verify` as threads run them: the
guard, the encoding, the context, the second read of `pkey`, the size query,
the allocation, the signature; every step can fail and every exit releases what
exists. `heap`, `sig` and `siglen` are the call's allocations and the caller's
two outputs. `TakeResult` is what all three bindings do with them.

**Bindings** adds the wrappers: `MakeInit` .. `MakeUnshared` are the steps of
`GenerateKeypair`, the same in the three languages; `Use` starts a call;
`GoFree`, `LetGo` and `Collect` end a wrapper. `language` is chosen once: in Rust
and Python a destructor frees the key, in Go nobody does unless the program
calls `Free`. `GoFree` is the method as it stands: it takes no lock and knows of no
running call. What a Go program owes it is a definition of its own, external to the
code: `FreesInTurn` says it frees the halves it promised to (`Freed`) and none that one
of its goroutines is using. A program that breaks this breaks its own call, and nothing
in the binding prevents it. `LetGo` and `Collect` come in any order: one half may be
finalised long before the other is dropped, and `DroppedKeysAreFreed` speaks of the key
object and asks only that none of its holders is kept for ever.

**DomainSeparation** has the encoder (`U32`, `U64`, `CString`, `Tag`, `Encode`,
`Build`) as operators over byte strings, and a small machine that signs and
verifies. The signature scheme is ideal: verification accepts exactly the byte
strings that were signed.

Both limits of that property are the caller's to know. It speaks of the domain
as C reads it (`Tag`): NULL and `""` are one domain, and so are two Go or Python
strings that differ only after a zero byte (`go/higgaion.go:109`; Rust refuses
such a string). And the signer and the verifier must have been given the same
prefix and limits, which are compiled in.

**MigrationWal** has one record per key (`rec`: state and which keys exist), the
table's `capacity`, and the log. `Import`, `Begin`, `EnterFinalizing` and
`Rollback` are one step each: they hold the engine's lock and log before they
return. A finalisation is three, `EraseClassical`, `MarkPqcOnly` and `LogPqcOnly`,
in the order `wp_pqc_wal.c:188-241` numbers them. `Crash` loses memory and may
leave the record being written torn: a record of full size whose checksum does
not match. `Damage` spoils one field of a logged record before a replay,
`ReplayRecord` applies one record at a time (`apply_wal_record`), and the table
grows again as it does (`EnsureCapacity`). Whether the replay restores FINALIZING
is left open, because the Coq function has no such operation and the comment at
`wp_pqc_wal.c:224-233` says it does. A finalisation starts from FINALIZING, as
the steps there do. `erased` and `committed` are history for the properties:
keys whose classical half is gone, and the state each key was last logged in.

**MigrationCodec** has the hex decoder, the checksum as the code's two loops compute it
(`Registers` over the bytes, `Shift` over the bits of one; a register is the set of its
one bits) and the 101 bytes of a record.
Around them one call is made: a string is decoded, or a record is sealed and then
its bits flip or other fields take their place under the old sum.

**Quorums** has the two functions inside a round of proposals, votes and decisions,
which is external: the formulas are the code's, the steps around them are not in the
tree. **UtxoSet** has one thread per caller with a separate step for the lookup, for
reading and for setting the flag; neither file takes a lock, so the mutex the harness
leaves out (`cbmc_utxo.c:36-37`) is two external steps around them, `Acquire` and
`Leave`. **TokenLedger** computes in words that wrap at `Top`, and the count of
outputs wraps at `CountTop`: the functions credit and debit nothing, or one output too
many, if asked to, although their contracts exclude it. **Governance** casts ballots
with stakes and tallies them; that a sum still fits its word is what the contract of
`accumulate_vote` assumes of the caller (`FitsTally`, external). **Gateway** lets client
bytes arrive one by one behind what is in the buffer and never clears it; patterns are
short sequences that overlap as the real ones can. **Snapshots** lets regions come and
go between replications.
**BridgeIds** collects the transfers that were given an id and the lock proofs relays
signed, over the encodings of **ByteStrings**; a hash is ideal, so the bytes stand
for it.

**MCNode** puts the independent parts side by side. An execution runs one of them,
so its state space is the sum of theirs and not the product.

Definitions marked *Mutated* are plausible bugs (a dropped `up_ref`, a missing
`fsync`, an early marker, ...); each property of a passing run is violated when
the mutated form replaces the real one.

## 3. Runs

| run | instance | shows |
|---|---|---|
| `KeyHandles.cfg` | 3 handles, 3 addresses, counter up to 4 | lifecycle invariants, implements `KeyOwners` |
| `DurableErase.cfg` | 2 threads, a path each, 2 inodes, 2 keys, 2 algorithms (one refused), 1 fault, 1 crash, running calls fair | marker safety, implements `ErasureLog`, what an erasure leaves of a shared key, lost references included, `DestroyedIsRecorded` |
| `Bindings.cfg` | 2 pairs, 2 threads, each of the three languages, fair | no use after free, no leak, nothing left behind, dropped keys are destroyed in either order of the halves |
| `Node.cfg` | see below | the parts under `verification/`, and no cross-domain acceptance |

`Node.cfg`, part by part:

| part | instance | why it is enough |
|---|---|---|
| rounds | 4 validators, one faulty, views 1 and 4, 2 values | the least number with a faulty one; quorum 3, any two meet in 2 |
| ledger | 2 accounts, words 0..7, counts up to 3 | every pair of words, so each guard at, below and above its limit |
| UTXO | 2 threads, 2 calls each, 2 entries, one index past the end | both threads on one entry in every order |
| governance | 3 voters with stakes of 1, 2, 7 or 1200, words up to 2047 | two ballots of 1200 for one choice, which would wrap; totals that are multiples of 10 and that are not, up to the bound of 20; 2 of 3 for |
| gateway | 5 bytes, a scan of 4, 5 letters, all fillings, upstream -1, 0 or 5 | a pattern across the old and the new bytes, and at the scan's end |
| snapshots | 2 snapshots, 2 regions | every status; no property of its own passes (see `Snapshots_verified.cfg`) |
| migration | 2 keys, a table from 1 to 2, 5 log records, 2 crashes, 1 damage | a whole finalisation, a crash in it and one in the recovered engine |
| domains | strings up to 3 over three bytes, limits 2, 2 signatures | both sides of each limit; bytes that also occur as lengths |
| codec | one call: hex strings up to 5 over 7 characters, compared with a table of the sixteen digits; errors of up to 3 bits, and every burst within 8 bits, of a 4-byte record; any 2 of 28 records of 101 bytes | each boundary of the digits; records that differ in one field, also in a late byte |
| bridge | any 2 transfers or lock proofs of 454; addresses up to 3 bytes with a limit of 2, words with a zero and a non-zero low part | all splits of a concatenation, cut addresses |

The bounds: three handles give one handle that acts, one that shares its key and
one bystander; the counter bound 4 exceeds the number of handles, so leaked
references occur too. Two threads and two paths give every pairwise overlap of
two erasures, and one crash after one fault reaches each line that can be the
last one. Two inodes let each path have a file of either name, and one path both; a
second call on each of two paths that have a marker already would need four, which the
proofs cover and the run does not. Two
signatures and strings on both sides of the limit 2, over bytes that also occur
as lengths, include all collisions of the unprefixed concatenation. Symmetry is
used only in `KeyHandles.cfg`, which has no liveness property. `NoDanglingHandle`, which
`EveryOwnerCounted` implies, and the refinement of `KeyOwners` by `Bindings` are in no
run of their own: both are theorems (section 4). Runs whose actions
are bounded by counters (`Node.cfg` and the two violations of its parts) may stop
when the bounds are used up, so they do not look for deadlock.

Fairness: a thread inside a C call or inside `GenerateKeypair` is scheduled and
the calls do not block for ever; Rust's `Drop` and CPython's reference counting
do run finalisers of unreachable wrappers. Nothing is assumed about callers
starting calls: `DurableErase.cfg` uses `CallsSpec`, fairness of running calls only. The
`retry` run below adds `Retries` (`FairEraseSpec`), where a caller that got `false`
tries again, so that its counterexample is no mere lack of a second call.

Runs that are expected to fail, each a disagreement between the code and what
its documents, comments or tests say (quoted in `PROJECT.json`):

| run | property | what happens |
|---|---|---|
| `KeyHandles_regenerate.cfg` | `RegenerationDoesNotLeak` | a refused algorithm clears the pointer (190) before the old key is freed (197) |
| `DurableErase_shared.cfg` | `DestructionIsFinal` | the erased handle was one of two owners; the material stays. `DestructionLeavesOwners` says exactly when |
| `DurableErase_together.cfg` | `ErasedIsForever` | two calls on one path share the temporary file and withdraw a durable marker |
| `DurableErase_unslashed.cfg` | `TrueMeansDurable` | a path without a directory part is never synced |
| `DurableErase_retry.cfg` | `DestroyedIsMarked` | a failure after the destruction cannot be retried, the guard refuses the empty handle |
| `Bindings_outputs.cfg` | `OutputsAgree` | a failed allocation leaves a NULL signature with a length |
| `MigrationWal_rollback.cfg` | `KeyRemains` | a crash after the erasure and before its log record, then a rollback: both keys are gone. `OnlyRollbackLoses` shows there is no other way without damage |
| `Snapshots_verified.cfg` | `VerifiedHasRegions` | a verified snapshot is not looked at again when its regions are lost |

## 4. Proofs

All proofs are checked by TLAPS with no step left open. The invariants and action
properties of the runs each have a theorem, with the exceptions at the end of this
section. Every theorem holds for all values of the constants the modules' named
assumptions allow; where it needs more, the hypothesis is in its statement and
listed here with the reason.

| hypothesis | theorems | why it cannot be dropped |
|---|---|---|
| `OneCallPerPath` | `WalNeverTorn`, `RecordsStay`, `FilesImplementLog`, `DestructionIsTraced`, `TrueIsDurable` | two calls on one path share a temporary file (`DurableErase_together.cfg`) |
| `SyncCommitsEntry` | `DestructionIsTraced` | the directory is synced after the destruction only (270-284): with a file system that needs that sync for a new name, a power loss between 260 and 284 leaves nothing |
| every path names a directory | `TrueIsDurable` | without a slash no directory is synced (`DurableErase_unslashed.cfg`) |
| `Finalised \/ Handle \subseteq Freed` | `KeysNeverLeak`, in the property | Go has no finaliser: a program that does not call `Free` keeps the key |
| `~SameAccount` | `SupplyIsConserved`, `NodeTypes` | a transfer to oneself mints (`cbmc_overflow.c:62-63`) |
| every error in the sample is `Told`: within 32 bits in a row, or seen in as many zero bytes | `ErrorsAreDetected` | 32 bits cannot tell all longer errors apart. The run's sample has 4 bytes, so each of its errors lies within 32 bits |
| so is every difference between two covered records | `RecordsAreTold` | the same: some records of 101 bytes do share a sum. One that differs in one field of up to four bytes always meets it |
| running calls are not freed under themselves (`FreesInTurn`, a conjunct of `BindNext`) | `CallsKeepKeyAlive` and the other theorems of `Bindings_proofs` | `go/higgaion.go:74-91` takes no lock |
| callers hold the mutex (`Acquire`, a step of `UtxoNext`) | `EntriesSpentOnce` | `wp_utxo.c:117-132` reads and sets the flag with no lock |

`KeyHandles_proofs`, for every set of addresses, every finite set of handles and
every `MaxRefs`. The inductive invariant is `Inv == TypeOK /\ EveryOwnerCounted`:
type correctness alone is not inductive, because a release would take a counter
of 0 to -1; that every handle is covered by a reference of its own is what rules
it out. The lemmas count the holders of an address before and after one pointer
changes (`PointCounts`, `ReleaseCounts`), and each action is a release, a gain
or both. From the invariant follow
`TypeCorrect`, `OwnersAreCounted`, `HandlesNeverDangle` (a holder exists, so the
counter is positive), `LeaksAreOverwrites` (the difference of counter and
holders per action) and the refinement `CountersImplementOwnership` (every
action maps to a step of `KeyOwners` or a stutter). Assumptions: `HandleFinite`,
`PointerValues`, `PolicyConstants`, `MaxRefsPositive`.

`Bindings_proofs`, for any pairs, handles, threads and addresses, in each language.
`BInv` joins the invariant of `KeyHandles` with what the wrappers and the calls add.
A call that is past its guard uses an owned wrapper whose handle is live, and the
key it is bound to is that handle's (`CallOK`): no action but the program's own
`Free` changes the handle of an owned wrapper, and a program does not free what a
goroutine uses. Where `GenerateKeypair` stands fixes the two structs it works on
(`MakingOK`), so the second `up_ref` overwrites nothing; a struct without a wrapper is
indeterminate and a dropped Go wrapper that was to be freed is empty
(`WrapperOK`), so what a collector takes away holds no reference. `HeapOK` says,
step by step, what a call has allocated and put out. `CallsKeepKeyAlive` adds that
the counter of a handle's key is positive (`OwnerHasReference`). `BindingsImplementOwnership`
maps every step to one of `KeyOwners` or to none: in the constructors two pointers
change at once, but at most one of them held a key (`MakeRefines`), and a collector
either releases a reference or, in Go, forgets it, which an owner may do too.

`DurableErase_proofs`, for any handles, paths, inodes, faults and crashes. A marker
is true for any assignment of paths to calls (`MarkersAreTrue`). The invariant
`FInv` says what a call in progress has open and where it stands (`Progress`), that
files of different paths are different inodes as far as a marker can reach
(`Separate`), and that content saying ERASED, visible or on disk, belongs to a
destroyed key (`Truthful`): a marker alone is not inductive, because the next
rename publishes whatever the temporary file holds. Under the assumption
`OneCallPerPath`, that no two calls share a path, `WalInv` adds that an open file is
its path's temporary one, that a temporary file is under no marker name, and that
whatever is under a marker name says ERASED durably; `WalNeverTorn`, `RecordsStay`
and the refinement `FilesImplementLog` follow. `DestructionIsTraced` needs that
whatever a file shows may also be on disk (`DiskHoldsData`), and that from the ERASING
marker to the rename every directory a power loss may leave has the call's file,
which cannot come back empty (`MarkerCommitted`). `TrueIsDurable` needs only that a
call which renamed its file finds it under the marker name (`RenamedHasWal`), as the
directory sync does the rest. `ErasureLeavesOtherOwners` needs the counters to be exact,
not only large enough: a key has exactly one reference per holder unless a struct
that held it was overwritten, and more than that once one was, for good (`Accounted`,
kept by `EraseAccountsReferences`). `StepHasEffect` reduces the system calls to their
effects on files and names, so that each effect is looked at once.

`MigrationWal_proofs`, for any keys, capacities and any number of crashes, damages
and log records, with one lemma per action for each of three invariants.

* `MInv` adds three things to what is claimed. A key is in the table exactly when an
  intact import of it is in the replayed part of the log (`PresentIsImported`), and an
  intact finalisation that follows one belongs to an erased key (`FinalIsErased`):
  without them a replay could rebuild PQC_ONLY for a key that was imported again and
  never erased. And the stages of a finalisation in progress fix the record in
  memory (`Finalisation`).
* `FitInv`, for `TableNeverOverflows`: the log has intact imports of at most
  `MaxRecords` keys. That is true when they are logged, because every key of the table
  is one of them, and damage only removes some. So a replay, which may come to any
  subset of them first, always finds room.
* `HInv`, for `CrashesLoseNothing`: while nothing was damaged there is a history of the
  log, one table of states per record, whose last table is what was committed; the
  table in memory follows it up to the replayed record, lagging only where it missed
  an entry into FINALIZING (`Lags`). The replay of a single record keeps the lag
  whichever way an entry is taken (`ReplayLags`), which is why the choice the sources
  leave open (see MigrationWal above) costs nothing but a second entry.

`OnlyRollbackLosesKeys` uses `CrashesLoseNothing`: an erasure finds its entry into
FINALIZING logged, so the last accepted record of an erased key that is CLASSICAL again
can only be a rollback (`LossLogged`). This is the theorem beside the violated
`KeyRemains`: it names the one step that has to be forbidden.

`Sums_proofs` has what the others need of sums over finite sets. The community
modules define `MapThenSumSet` by a recursive function over subsets; here that
function is shown to exist and not to depend on the order of the elements
(`IterExists`, `ItersAgree`), and the sum to split, to change with one element, and to
grow with the set. The induction principles of the library take an operator as a
parameter, which the provers cannot instantiate; `NaturalInduction` and
`SubsetInduction` are stated over a set of good values instead, and proved from the
least value that is not good. `RunExists` shows that a function defined by its value
at 0 and at each next number exists, which every loop of the codec needs.

`Votes_proofs`. For any number of validators with fewer than a third faulty,
`RoundsAgree` counts: two quorums overlap in more validators than are faulty, so
some correct validator would have voted twice. `RoundsCanFinish` adds that votes
are only for proposals (`VotesAreForProposals`): while a view has one proposal, the
votes it has and the correct validators still to vote make a quorum. For any voters
and stakes, `TalliesAreTrue` and `AcceptanceIsMajority` rest on `VInv`: each tally is the
sum of the stakes behind its choice, because a ballot adds one voter to one side
(`OneBallotEach`) and the check before the addition keeps the sum in its word. The
bound on the stakes that `AcceptedByMajority` states is the code's own
(`wp_governance.c:169-197`); without it the product by 100 wraps. The property leaves
open what happens at exactly a tenth of the stake, where the sources disagree (section 5);
the proof has the exact line of the code on the way (step <2>9).

`Encodings_proofs`. For every prefix, every domain limit below 2^32 and every message
length, `EncodeInjective` rests on two lemmas: four octets determine a number below
2^32 (`U32Injective`), and a concatenation determines its parts once the length of
the first is known (`Cancel`). `NoCrossDomain` then needs two facts about the machine:
only encodings of requests are signed (`Traced`) and no request with an overlong
domain was built (`Buildable`), which is where the length check at 73-74 is used.
The length of a message is not bounded in the proof: the domain's length fixes
where the message's own length field is, and the message is the rest. For any
addresses, limit and digests of one length, words in front and behind are cancelled
by length (`Cancel`, `CancelBack`), and eight octets, last first, determine a word
(`LE64Injective`): what remains of a transfer id is the two addresses written one
after the other. `HexIsDecoded`, for hex strings of any length: the value of the
digits by sixteens and of the decoded bytes by 256 agree after every pair
(`PairsAreBytes`). The digits of the property come from a table of characters, not from
`hex_nibble`; `NibbleIsPlace` shows that the two agree.

For the checksum, of strings of any length. One shift of the register is linear over
exclusive or and loses nothing, because the polynomial has its top bit; the same holds
of the loop over a byte. Two strings of one length therefore lead to registers whose
difference is what their differing bits make of an empty register, fed bit by bit
(`BitByBit`), and their sums agree or not by their length and those bits alone
(`DifferenceDecides`). As long as fewer than 32 bits have been fed since the first one,
the difference is the bits fed, moved down (`BurstStays`); after that it is never empty
again, so a burst is always detected (`BurstChangesSum`). `ErrorsAreDetected` and
`RecordsAreTold` state this for the machine. The second also needs that a record has 101
bytes and that they give back its fields, the key name as far as it is kept
(`RecordIsBytes`, `RecordsGivenBack`, `CoveredInjective`): records that differ after the
cut have bits in which they differ.

`Node_proofs`. An entry is spent once because the mutex holder is the only thread
between finding and leaving, so what it read of the flag is still true when it
writes. The supply is conserved because every operation changes the sum by what it
changes one balance (`SumChange`), and the two writes of a transfer cancel; the
checks before them make the wrapped result the exact one (`CheckedAdd`,
`CheckedSub`). A verdict is of received bytes because every position an inspection
reads lies before `c2u_len` (`Window`, `Occurrence`). `NodeRunsItsParts` shows that every execution of the composition in `Node.cfg`
is one of each part, so the theorems about `MigrationSpec`, `GovSpec` and the others
are theorems about the node; `NodeTypes` uses them for the composed type invariant.

Assumptions the proofs made explicit, all true of the code: the sets of accounts
and voters are finite; the gateway's patterns are not empty and the longer verb
is one byte longer than the shorter, because `wp_gateway.c` compares five bytes once
it has more than four (with a longer one the comparison would read stale bytes).

Only model-checked:

* Liveness (`DestroyedIsRecorded`, `DroppedKeysAreFreed`, and the violated
  `DestroyedIsMarked`): TLAPS has no rules for ENABLED under fairness.
* Which errors wider than 32 bits the sum tells: for one error that is a single
  computation on zero bytes (`Seen`), but that, say, any three bits of a record are
  told is a fact about all of them. The run looks at errors of up to three bits in four
  bytes, and at 28 whole records.
* The intermediate stages of `CryptoCalls` on its own; its properties are those of
  `Bindings`, which extends it.

## 5. Not modelled

* `secure_zero`, `hash`, `hig_error_str`, logging: stateless, or text.
* References that OpenSSL contexts take to a key for themselves while a call
  runs; without them the properties are harder to satisfy, not easier.
* Failures of `fsync`, `lseek`, `close`, whose results the code ignores.
* Programs over the bindings, as examples: the repository's Go example
  (`README.md:50`) frees only the private half, which in `Bindings` is a run
  whose `Freed` names one half and keeps the key for ever.
* Calls on structs nobody initialised, and two threads changing one struct.
* `src/pqc_crypto.c` at the repository's root: an older copy that the Makefile
  does not build and whose includes do not resolve.
* `gateway/deploy`, `scripts`, CI files: deployment and tooling without state.

* Of the migration engine: peer state updates (operation 5 changes no local
  record), sequence numbers, truncation of the log, the hash table of key names,
  the hybrid verification policies of `PQCMigration.v`, and a record torn to less
  than its size, which a reader of fixed-size records cannot see.
* A transfer from an account to itself, which would mint (`cbmc_overflow.c:62-63`
  writes the receiver last): the run sets `SameAccount` to FALSE as the harness has
  two separate balances.
* Of the gateway: the event loop, routing, and the contents of the refusal.
* The retention rule of `cbmc_disaster_recovery.c:143-160`: one subtraction of two
  numbers, with no state and no caller in the tree.
* `safe_add_votes` (`cbmc_overflow.c:101-107`): a 32-bit sum that nothing in the tree
  calls on the 64-bit tallies of `wp_governance.c`.
* The life cycle of a proposal, the consensus protocol and the bridge's relays,
  whose code is not in the tree.
* `cbmc_crypto.c`, `cbmc_did_vc.c`, `cbmc_mica_dora.c`,
  `cbmc_confidential_contracts.c`, `cbmc_siem_export.c`: assertions about sizes,
  enumerations and single calls without state.
* The repository's own specifications in `verification/tla`. They are specifications
  and not code, so nothing here is translated from them. `pqc_migration` has the four
  states of `MigrationWal` with a finalisation and a rollback in one step each, and no
  log: its rollback from FINALIZING always finds the classical key, which
  `MigrationWal_rollback.cfg` shows the finer steps do not. `pqc_crash_recovery` puts
  ERASING and ERASED markers around the erasure, as `higgaion_key_erase_durable` does
  and the migration code in the tree does not; its claim that an ERASED marker never
  reverts is `ErasedIsForever` here, over a file system. The gossip of `pqc_distributed`
  and the tokens of `Gateway` have no code in the tree.

Where the artefacts disagree with each other, and which one is modelled:

* With three validators `bft_quorum` gives 2 in `wp_consensus.c:41-45` and 3 in
  `cbmc_consensus.c`; the first is modelled, and `Agreement` holds for both.
* A spent entry is refused with -100 in `cbmc_utxo.c` and -200 in `wp_utxo.c`;
  both are "rejected".
* `finalize` is allowed from HYBRID only (`cbmc_pqc_migration.c:224-225`) or from
  HYBRID and FINALIZING (`wp_pqc_migration.c:55-83`); the guard is the second, and
  the steps of a finalisation start in FINALIZING.
* `MIGRATION_MAX_RECORDS` differs between files; it is the constant `MaxRecords`.
* `wp_pqc_migration.c:217-225` has a log record without the peer fields; the 101
  bytes of the others are modelled, and the shorter layout is the mutant of
  `RecordsTold`.
* `cbmc_pqc_migration.c:297` asserts `new_cap >= 16 || capacity == 0`, which fails
  for capacities from 1 to 7; no reachable table has one.
* `wp_gateway.c:51` states a length of 69 for the refusal, whose text is shorter, and
  `send_403_forbidden` leaves the descriptor 0 open (line 46) although its contract
  says `u_fd == -1` (line 42) and `eva_gateway.c:90` starts sessions with it. The code
  is modelled, with descriptors -1, 0 and 5, and no property says that it is closed.
* `cbmc_overflow.c:116` says "10% quorum floor: votes >= total/10" over code, there and
  in `wp_governance.c:179`, that asks for `total / 10 + 1`: with a total of 10, one vote
  is enough for the comment and not for the code. The code is modelled, and
  `AcceptedByMajority` does not decide the case.
* `wp_token_ledger.c:80-81` requires an amount and room in the count of outputs, which
  the functions below it do not check and `cbmc_overflow.c:53-54` answers for a transfer
  with "no-op"; the code is modelled.

## 6. Plan

Done: everything listed above. What is left, in order of worth:

1. The hybrid verification policies of `PQCMigration.v` beside `CryptoCalls`.
2. Which errors of three bits or less the sum tells in a whole record of 101 bytes.
