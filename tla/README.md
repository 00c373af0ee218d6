# Formal models of BlueRipple Passkey

TLA+ models of the daemon in this repository, checked with TLC, with proofs
checked by TLAPS. The daemon is a virtual FIDO2 key: it creates a HID device
through `/dev/uhid`, speaks CTAPHID and CTAP2 to browsers, asks for a
fingerprint through `fprintd-verify`, and keeps its keys in the TPM.

## The system

| Component | Source | State | Operations | Talks to |
|---|---|---|---|---|
| CTAPHID transport | `fidohid/fidohid.go` | `Device.channels` (command, length, bytes so far, sequence number, last use, cancel function) under `Device.mu`; one goroutine per CBOR message | handlers of initialization and continuation packets, `handleInit`, `handleCBOR`, `cleanupChannels`, `Run`, `Close` | calls `HandleCommand`, once per message, from a goroutine with a 30 s context |
| CTAP2 handler | `ctap2/ctap2.go`, `makecredential.go`, `getassertion.go` | `Handler.assertionState` with its index, without a lock | `MakeCredential`, `GetAssertion`, `GetNextAssertion`, `GetInfo` | presence gate, signer, storage |
| User presence gate | `userpresence/userpresence.go` | `activeRequest` under a mutex, one prompt goroutine per request | `ConfirmPresence`, `promptFingerprint`, `sendResult` | runs `fprintd-verify`; hands the verdict over on an unbuffered channel |
| Credential storage | `ctap2/storage.go` | list and two indexes under an RW mutex, JSON file | `NewCredentialStorage`, `Save`, `Delete`, lookups | file system |
| Signers | `tpm/tpm.go`, `memory/memory.go` | a mutex around the TPM; or a master key and an atomic counter | `RegisterKey`, `SignASN1`, `Counter` | `/dev/tpmrm0` |
| Key-handle framing | `internal/lencode` | decoder position and sticky error | `Encode`, `Decode`, `DecodeInto`, `NextLen` | used by the TPM signer |
| Daemon, tray, auto-switch | `main.go`, `tray/`, `usbmon/` | current device, `stoppedByAuto`, `yubiKeyPresent`, tray state | start, stop, clicks, insertion, removal, signals | creates and closes the transport's device |
| Start-up | `main.go` | path of the credentials file, allowed RPs | migration of the legacy file, RP-id validation, `-check` | storage, file system |
| Encodings | `ctap2/authenticatordata.go`, `commands.go`, `types.go`, `getinfo.go` | none | marshalling | handler |
| Installation | `install.sh`, `contrib/`, ... | none in the daemon | | |

What is hard here is the concurrency that nobody serialises. The transport
starts a goroutine per message and never waits for it, so on one channel an old
operation, its cancellation and a new message overlap, and the cancel function
is stored by the goroutine and not by the packet that starts it. Operations of
different channels share the assertion state without a lock. A prompt outlives
the operation that asked for it. The file is written by a sequence of calls each
of which may fail or be the last one before a crash. Unit tests cover the
parsing helpers and the RP policy; none of the interleavings.

What makes each component correct:

- transport: assembly stays in bounds and never gets stuck; a cancel function
  acts on the operation it was made for; an operation ends, and it ends
  silently only when it was aborted; a message is dispatched once;
- handler: nothing is signed or registered without a finger that matched for
  this request; an aborted operation leaves nothing behind; calls of
  `GetNextAssertion` that do not overlap go through the list in order and cannot
  index past its end, whatever else is at work on the shared assertion state;
- gate: one prompt at a time, and the gate always reopens;
- storage: never a torn file, no acknowledged credential lost by a crash, one
  credential per account;
- signers: a credential id signs for its relying party as long as its key
  exists, and nothing but that id does; counters do not run backwards;
- encodings: what a signature covers reads back as what it is about;
- start-up: the migration of the old product's file leaves no credential behind;
- daemon: the device runs when the user and the auto-switch want it, no device
  runs on unnoticed, and a signal ends the process.

## Modules

| Module | Models | Notes |
|---|---|---|
| `CtapHid` | transport | `channels` is `Device.channels`; `txn[t]` is the goroutine of one `handleCBOR` with its program counter, context, worker and whether it replied; `loop` is the run loop, which is between the two critical sections of `handleInit` when it holds a channel id |
| `CtapHidProofs` | | inductive invariant, refinement and liveness |
| `MCCtapHid` | | instance for TLC |
| `UserPresence` | presence gate | steps of `ConfirmPresence` and of the prompt goroutine, to be composed |
| `Authenticator` | CTAP2 handler | EXTENDS `UserPresence`; `op[o]` is the goroutine of one `HandleCommand` |
| `AuthenticatorProofs`, `AuthenticatorLiveness` | | inductive invariant, refinement; liveness |
| `MCAuthenticator` | | instance for TLC |
| `CredentialStorage` | storage | memory, the file operations of `save` and what a power loss may leave |
| `CredentialStorageProofs` | | inductive invariant and theorems |
| `MCCredentialStorage` | | instance for TLC |
| `CredentialStore` | what the storage promises | abstract: a list, committed as a whole; `CredentialStorage` implements it |
| `UserConsent` | what the handler promises the user | abstract: one decision per operation; `Authenticator` implements it |
| `Transactions` | what the transport promises the host | abstract: a transaction is answered once, or aborted; `CtapHid` implements it |
| `Daemon` | `main.go`'s device, tray, USB monitor, signals | `at` is where each goroutine is, `device[d]` a `fidohid.Device` with its goroutine |
| `DaemonProofs`, `DaemonLiveness` | | inductive invariant; liveness |
| `MCDaemon` | | instance for TLC |
| `Lencode` | key-handle framing | encoder and decoder as operators on records |
| `LencodeProofs` | | what the decoder returns, for every stream |
| `AuthenticatorData` | what a credential's key signs | the bytes of authenticator data and COSE key, and a relying party's reading of them |
| `Keystore` | signers, counters, start-up's choice of the file | EXTENDS `Lencode` and `AuthenticatorData`; spans several processes |
| `KeystoreProofs`, `MCKeystore` | | theorems (with those of `LencodeProofs`, and those about `AuthenticatorData`), instance for TLC |

Every action is one critical section, one branch of a `select`, or one call to
something outside the process. Definitions named `...Missing`, `...Only`,
`...Unchecked` and the like, marked "mutated form", are wrong variants of the
definition they precede; each breaks one property and shows that the property
depends on that piece of code. No specification uses them.

### CtapHid

The contents of a message are abstracted to its length, so a channel's `data`
is the number of bytes held (`got`). `lastSeen` is abstracted to `stale`: time
may pass the limit at any moment (`GoStale`), and a packet refreshes it. The
host sends any packet at any time on any id (channels need not be allocated
with CTAPHID_INIT: the code does not ask for that). PING, MSG and unknown
commands (`"other"`) are answered by the run loop and start nothing. The
fragmentation of responses has no shared state and is left out. `AllocateCID`
takes any free id; the fallback for a failing random source (a clock value that
is not compared with the channels) is left out. `ExitLoop` needs no
cancellation: the event channel of the device may be closed as well.

`Close` may run next to a run loop that is still handling a packet, as
`stopDevice` in `main.go` makes it do.

### Authenticator and UserPresence

Client data hashes are named by the operation that carried them, credential ids
by the operation that registered the key, so "signed for this request" is
`op[o].from`. A signer knows for each id the RP the key was made for (`keys`),
and every call may fail: the TPM is opened per call. `EndContext` is a
cancellation by the transport or the end of one of the two 30 s timeouts; the
history field `early` says that the context ended before the finger matched.
`select` picks any ready branch; a verdict that meets an ended context is
refused, as in the code. `DropResult` needs a receiver that is not waiting: a
goroutine that is at its `select` receives in less than two seconds.

`handleGetNextAssertion` reads and writes `h.assertionState` and its
`currentIndex` without a lock, and every such load and store is a step: the test
for nil (`CheckState`), the load of the pointer (`LoadState`), the two halves of
`currentIndex++` (`ReadIndex`, `AdvanceIndex`), the test against the length, which
loads the index again (`CheckIndex`), the store of nil (`DropState`), and the index
expression, which loads it once more (`PickCredential`). The pointer itself is
loaded once, into `state`. So an operation may panic in two places: another one
drops the state between `ctap2.go:142` and 147, and `state` is nil; or another
call's increment comes between the test at 150 and the index expression at 156,
which is then out of range. Nobody recovers a panic (`Panic`): it ends the process,
and with it the behaviour (`Running`); the next process begins at `Init`. Two calls
may also read the same index, and one increment is lost.

`EndContext` is there where the `select` will look at the context; an end after
that, or of `GetNextAssertion`'s context, changes nothing that a step depends on.

The exclude list is answered before the user is asked, although the comment at
`makecredential.go:53` speaks of a touch; `MakeCredential` does what the code does.

The conversion of requests is abstracted to what refuses them (`flaw`);
exclude and allow lists are sets, because any of their members may be the first
one that the signer accepts.

### CredentialStorage

The list is a set; the two indexes are rebuilt with it under the lock and are not
kept apart. `writer` is the next file operation of the call that holds
the write lock. `file` is what a process reads, `onDisk` every content a power
loss may leave: a rename adds to it, and only the file system's own `WriteBack`
removes the old content, because the directory is not synced. Without the fsync
the new content may also be torn. Process and machine may stop at any point.
`used`, `acked` and `refused` are history variables: the ids passed to `Save`,
those the file must hold, and those whose `Save` failed in this process. `acked`
gives up an id when its account's credential is replaced or deleted, at a power
loss that brings back a file without it, and when the file cannot be read at
start, which the code answers with an empty storage.

### CredentialStore, UserConsent and Transactions

`CredentialStore` has no file. Its list is changed in memory by `Put` and
`Remove` and committed by one step; a crash keeps the committed list, a power
loss one of those committed since the disk last settled. `CredentialStorage`
maps `list` to the list in memory, `committed` to what a process would read and
`possible` to what is on disk; creating, writing and syncing the temporary file
are stutters, the rename is the commit, and the start after an unreadable file is
a load of nothing. A torn file reads as a list that nobody committed, so an
implementation that can tear one does not implement it.

`UserConsent` knows no prompts, goroutines or shared state: every operation's
consent is open, then given or withdrawn for good; keys are made and responses
signed on a given one only. In `Authenticator` consent is given when the finger
matches, and withdrawn when the operation's context ends first; after a finger
that does not match it stays open. `Decide` has no step out of given or
withdrawn: neither a late verdict nor a second operation on the shared assertion
state can change what was decided.

`Transactions` knows no packets, goroutines or timers. A transaction belongs to
one channel and is open until it is answered or aborted; one that was not
aborted cannot be dropped. A new message may abort a transaction of its own
channel and of no other, and no step aborts two of one channel, because a channel
stores one cancel function. `CtapHid` maps a transaction to open or aborted by its
context while its goroutine is before its reply, and to answered or dropped by
whether it replied; the cancel that the goroutine defers is hidden.

### Daemon

`dev`, `devCancel` and the three flags of the auto-switch are guarded by one
mutex, so a section between `Lock` and `Unlock` is one action. Between two
sections the other goroutines run, and what a callback has read is in its
program counter: `"autodisable"` is the goroutine of the clicks in
`onAutoSwitchChanged` that has seen a key. `Start`, `Stop` and `Show` are shared by
all callbacks, which end with `startDevice` or `stopDevice` and `SetActive`; the
map gives one of their call sites. The tray's own fields have no mutex; each is a
word that is read and written whole.

A device is *spawned* (its goroutine has not opened it), *running*, *returned*
(`Run` is over, `Close` to come) or *gone*. `stopDevice` may come before the open:
`Run` then opens a device that was closed, which stays in the kernel until the
goroutine notices its cancellation. `DeviceRunFails` is the end of `Run` by
itself; `dev` stays set, as in the code. `Panic` is the insertion that reaches
`SetActive` before `onReady` has made the menu. The end of a process closes its
devices; `Restart` is the service's `Restart=on-failure`. Without the tray main
itself runs the device (`HeadlessRun`), and its end is that of the process.

The checkbox starts checked also when `-auto-switch` is off, because
`SetAutoSwitch` (`main.go:287`) runs before the item exists; `CalmAgrees` excepts
that.

`user` is the last thing the user did by hand until something else overrides
it. `calm` says that in this process no state was `Disturbed`: no two callbacks
overlapped, none ran before `onReady` or during shutdown, no device failed.
With overlapping callbacks the code does let the menu and the device disagree.
`CalmAgrees` and `ComesBack` are about calm processes; `LiveDeviceIsCurrent`,
`StaleDevicesGo`, `ExitsOnSignal` and `YieldsToKey` hold in all.

### Lencode, AuthenticatorData and Keystore

`Lencode` treats the encoder and the decoder as records, each call as an operator
that returns the next one, errors included. A message's length is one byte.
`Decode` is `NextLen`, a buffer of that length, and `DecodeInto`, as in the code.

`AuthenticatorData` has the bytes that are hashed and signed: `Marshal`, the COSE
key with its padded coordinates, and the client data hash behind them. The only
CBOR in it is that of the key, a fixed header and two byte strings; the library's
canonical order of its five entries is written out. `Read` is the relying party,
which finds every part by the lengths before it, as WebAuthn lays them out.
Its inputs are the 32-byte words of a point, and `BigIntBytes` drops their leading
zeros, as `big.Int.Bytes` does.

`Keystore` follows the keys over several processes with either signer. A key is
*made under* a template: for the TPM the parent that HKDF derives from a seed, a
label and the relying party, for the memory signer its master key and the
relying party. Cryptography is ideal: a blob opens under what it was made under
and nothing else, and random bytes differ. What is not ideal is the byte strings:
`Strings` are what hosts offer as credential ids, `Opens` runs the decoder over
them. `Counter` and `SignASN1` are two steps of an operation, as in the code, so that
overlapping operations take and use counters in any order. A start chooses the
credentials file as `credentialStoragePath` does, with `Stat`, `MkdirAll` and
`Rename` each failing at will, and reads it.

`Start` is main up to the point where the daemon runs. `NewCredentialStorage` comes
after the choice of the path, and an error of its `MkdirAll` or of one of its two
`Chmod`s (`storage.go:47-58`) is fatal (`main.go:120-121`): `LaunchFails` leaves no
process, but the file as the choice of the path has left it, perhaps renamed.
`starts` counts those starts too. `Sandboxed` says whether systemd runs the daemon.
The unit (`contrib/blueripple-passkey.service:15-17`) leaves only the new data
directory of the home directory writable (`Writable`), so there the rename of the
old file always fails, the old path is chosen, the `Chmod` of its directory fails as
well, and the start ends; `Restart=on-failure` repeats it every three seconds. The
credentials are all still there (`NothingForgotten`), but `install.sh:115-116`
promises their migration on first launch, which is the claim that
`keystore_first_launch` finds violated. A daemon started by hand, outside the
sandbox, migrates them, unless the rename fails for a reason of its own.

## Runs

| Run | Shows |
|---|---|
| `ctaphid_safety` | `TypeOK`, `AssemblyInBounds`, `StoredCancelIsCurrent`, `SilentOnlyIfAborted`, and `ImplementsTransactions`: the transport implements `Transactions` |
| `ctaphid_live` | `TransactionsEnd`: every transaction ends, with a silent host and a handler that may hang |
| `authenticator_safety` | `TypeOK`, `OnePrompt`, `UserVerified`, `AbortedLeavesNothing`, `StorageSound`, `NextInOrder` (calls that do not overlap get every credential once, in order), `RangePanicNeedsOverlap` (and do not index past the end of the list) |
| `authenticator_live` | `NeverStuck` (an operation under way can go on, and so can the prompt that holds the gate), `OperationsEnd`, `GateReopens`, and `ImplementsConsent`: the handler implements `UserConsent` |
| `storage_safety` | `TypeOK`, `FileIntact`, `AckedSurvives`, `AccountsUnique`, `FileCommitsAtomically`, and `ImplementsStore`: the storage implements `CredentialStore` |
| `daemon_safety` | `TypeOK`, `LiveDeviceIsCurrent` (no device runs on unnoticed), `CalmAgrees` (device, menu and auto-switch agree) |
| `daemon_live` | `NeverStuck` (nobody in the middle of something waits for ever), `StaleDevicesGo`, `ExitsOnSignal`, `YieldsToKey` (off in the end while a key stays), `ComesBack` (on again once it is gone) |
| `keystore` | `TypeOK`, `OnlyItsHandle` (a tampered id never signs), `HandlesLast` (an id goes on to sign), `NothingForgotten` (the migration loses nothing, also when starts end in main), `CountersGrow`, `ResponsesReadBack` (a relying party reads from the signed bytes what they are about) |
| `ctaphid_dispatched_once` | violated: a stray continuation packet dispatches a one-packet message again |
| `ctaphid_close_cancels` | violated: `Close` misses a running transaction |
| `storage_failed_save` | violated: a credential whose `Save` failed is still discoverable |
| `keystore_first_launch` | violated: in the sandbox of the unit the first launch migrates nothing, and ends |

Bounds, and why they are enough:

- transport: two channels and two transactions. A property of a channel involves
  that channel and at most two transactions on it (the one that stored its cancel
  function and the one that clears it); the second channel is there for what acts
  on all of them (cleanup, `Close`). The lengths are 57 (fits one packet), 117
  (three packets, the last with one byte), 1201 (refused), and for liveness also
  0. The proofs cover every other number and length.
- handler: three operations. The races on the assertion state need a
  `GetAssertion` and two others. Two accounts of one RP are stored at start, the
  least for which there is an assertion state. The safety run has the four
  requests that get past the checks; the liveness run, with two operations, has
  refused and stateless ones as well.
- storage: three saves (and any number of deletions) over two RPs with two users
  each: enough to add, replace and fail once in between. Each id is registered
  once, as the signers make fresh ones.

- daemon: two devices, the current one and one whose goroutine has not ended;
  nothing else is bounded, processes included. The liveness run has one device,
  so that a start waits until the last one is gone or fails.
- keystore: a key of the old product and a new one, two starts, also of those that end in
  main, two relying
  parties, two operations (one that takes its counter before and signs after the
  other). Blobs of at most `MaxLen = 2` bytes over the bytes 0 to 2, where the
  separator is a byte that also occurs in blobs and as a length; the strings
  are the ids themselves, their prefixes, one-byte changes, extensions and
  splices. One jump of the clock, `MaxClock = 1`, `MaxCounter = 2`, and
  `CounterMod = 8` for 2^32, so that a clock before 2021 wraps around. The new
  key's point has coordinates with leading zeros, one of them nothing else; all
  hashes of a kind are one, since relying parties and operations are
  interchangeable (the theorem has them all different). A
  behaviour with both a file that was not read and a clock that was set back is
  followed no further (`OneFault`): files and counters share no state. `Sandboxed` is
  false in `keystore`, where every branch of the migration can be taken, and true in
  `keystore_first_launch`; the theorems hold for both.

Deadlock is checked for the storage and the daemon, where something can always
happen (a key can always be plugged in). The transport may exit its loop with
all transactions done, the handler's operations are bounded by `Ops`, and the
keystore's processes by `MaxStarts`, so those runs turn the check off.

Fairness is weak, and of a goroutine as a whole: of the disjunction of its own
steps (`Advance`, `MainStep`, ...) and not of each of them, so nothing is assumed of
the branch a `select` takes. Transport: the goroutines that can take a step do
so, and the 30 s timer of a context fires. Nothing is assumed of the host, and nothing of
`HandleCommand`, which may hang. Handler: goroutines are scheduled, signer calls
return, `fprintd-verify` ends because its context kills it after 30 s, the
two-second timer of `sendResult` fires, and the timeout of a waiting operation
fires. Nothing is assumed of the user or the host. Daemon: goroutines are
scheduled, the monitor's ticker fires, a device that was cancelled ends, the
process ends once it was told to. Nobody has to click, plug or send a signal,
and nothing has to fail. The keystore has no liveness property.

## Proofs

The theorems hold for every value of the constants that meets the named
assumptions of the modules: any channel ids, transactions, lengths, packet sizes
and command sets; any relying parties, users and credential ids.

`CtapHidProofs`. `TypeOK` and `AssemblyInBounds` are inductive together; the
sequence number stays within seven bits because of `SeqAssumption`, which the
code's sizes meet (1200 <= 57 + 128 * 59). `StoredCancelIsCurrent` is preserved
because a goroutine clears the field of its channel before it ends; it needs that a started goroutine has a channel id.
`SilentOnlyIfAborted` is not inductive: what a step needs is that a goroutine that
is *about* to end already has its explanation. `EndingExplained` says both, and a
context released only by its own goroutine, and is the conjunct that makes `IInv`
inductive. Each theorem is `Spec => []IInv`, which TLAPS derives from one lemma
per action, plus an implication.

`CredentialStorageProofs`. The strengthening is `SaveInProgress` (a save runs in a
live process, has written exactly the list in memory, and reaches the rename only
with synced data), `MemoryHoldsAcked` (what the file must hold is in memory as
well, so the next save cannot drop it) and `DiskUnique` (no content that may come
back holds two credentials of an account). `CommitsAreAtomic` is an action
property, from the same invariant.

`AuthenticatorProofs`. The safety properties speak of what is left in the end: a
signature, a key, a credential, an assertion state. None of them is inductive,
because nothing in them says why a `granted` operation was. The notion that
carries the proof is `Sealed(o)`: the finger matched for `o`, before its context
ended, for an allowed RP, and the prompt is past its verdict. It is stable: once
sealed an operation stays so (`Kept`), also when its context ends later, since
`early` looks at the prompt. `IsState(o)` is a sealed sign-in with a list, the
only thing the assertion state may point to. The invariant says what each stage
implies (`Staged`), that a sign-in has matched something (`Matched`), and that
keys, signatures, assertion states and what `GetNextAssertion` reads stem from
sealed operations (`KeyGranted`, `SignedGranted`, `StateGranted`, `Reading`,
`StorageGranted`). `GetNextAssertion` needs nothing of the shared state at the
time it signs: its list belongs to the operation it loaded, and that list never
changes. Each action's lemma shows `Step(o)`, which says what one operation's
step may do to everything else; `StepKeepsIInv` derives the invariant of all the
other operations from it once.

`NextInOrder` needs a longer history than the state holds: `alone` records, when a
call loads the state, that no other `GetNextAssertion` is at work on that state's
list. `Ordered` is the strengthening. `InsideOrdered` says that then at most one call
is at work on the list, that it knows the index as it is, and that past the test
the index is within the list; `TakenOrdered`, that the calls so far have taken the
indexes from 1 to the present one, one each, and got the credential there without a
panic. `RangePanicNeedsOverlap` follows from the same invariant. Without `alone`
both are false, since the two loads of the index (`ctap2.go:150` and 156) and the
two halves of its increment have nothing that holds them together. The panic of a
dropped state (`ctap2.go:147`) needs no second call, only a `GetAssertion`, so no
property excludes it.

`ConsentImplemented` adds to that invariant that a prompt whose verdict is still
to come has none yet (`Undecided`), without which the end of a context could
take back a consent, and shows each step to be one of `UserConsent`
or a stutter. `StoreImplemented` does the same for `CredentialStore` from the storage's invariant: the rename commits the list in
memory because `SaveInProgress` says that it was written whole.

`DaemonProofs`. `LiveDeviceIsCurrent` is inductive once it is known that before
main's first step and after the end of a process nothing is there (`Quiescent`).
`CalmAgrees` speaks only of the moments between two callbacks, so the invariant
says what holds of a calm process before `onReady` is through (`Early`), and in
the middle of a callback, where it is about to start, stop or show the device
(`Between`). The checkbox follows the auto-switch in every process (`Checkbox`).

`LencodeProofs`. The decoder is canonical (`DecodeCanonical`: whatever it returns
was framed by the encoder's bytes and no others) and complete (`DecodeFrame`),
for every separator and every stream. `KeystoreProofs` draws `OnlyItsHandle` and
`HandlesLast` from the two, for any strings, blobs and relying parties: three
frames and the end leave the concatenation no other reading. Its inductive
invariant adds that a key was made as `RegisterKey` makes it, or is an old one
(`MadeRight`), that no counter seen exceeds the one in use (`CountersBounded`,
which needs the fresh master key of `New`) or 32 bits (`CountersFit`), and that a
process uses the only file there is (`OnlyFile`). `Started` says what the proofs
need of a start, which may rename the file and then fail: it leaves no process, or
one that has read the file at its path.

`ResponsesRead` is the same for what is signed. `CoordinatePadded` says that
`PadTo32` undoes `big.Int.Bytes` on every 32-byte number: what was cut off were
zeros, and as many as are put back. `AssertionReads` and `AttestationReads` walk
through the bytes with one notion from `LencodeProofs`: `Stands(s, k, t)`, that `t`
is what follows the first `k` numbers of `s`; a part of known length that stands
there is what a relying party cuts out, and the rest stands behind it. The
invariant supplies the lengths: an id is at most three frames, or a nonce and a
ciphertext, which 16 bits tell (`HandleFits`), and a counter fits 32 bits.

`Refinement` (in `CtapHidProofs`) shows each step of the transport to be one of
`Transactions` or a stutter. The sets of transactions that a new message or the
cleanup aborts are those of the stored cancel functions. `IInv` says that only an
aborted one may end silently and that a channel's function belongs to that
channel; `NotYetAborted`, that no context ends before its goroutine has stored the
cancel function.

Liveness. The provers know nothing of ENABLED. `TransactionsTerminate`,
`OperationsTerminate`, `GateAlwaysReopens`, `StoppedDevicesLeave`,
`SignalEndsProcess`, `DeviceYields` and `DeviceComesBack` have the form
`FairSpec /\ []GuardsEnable => P`. `GuardsEnable` says of single actions that they are
enabled where their guards (`CanAdvance`, `CanPrompt`, `Enabled`; for the transport, an
open transaction) hold. It is a hypothesis and nothing more: it says nothing of
the code, so no run checks it. That whoever must go on always *has* such a guard
is about the code, and is proved: `NobodyStuck`, for the handler and for the daemon,
derives `NeverStuck`
from the inductive invariants (an operation that goes through a list has one, a
prompt that holds the gate is on its way, a callback that shows the device's state
has a menu, and main in headless mode a device that ends). The goals of the handler
have the alternative that a panic has ended the process.
Everything else is proved: that no step of
anybody else takes a goroutine back (`OnTheWay`), that a step of its own brings
it to a later stage (`OwnSteps`), and that the stages are finitely many, which
leaves a temporal formula for LS4. The daemon's theorems need more than `IInv`, and
`Leads` is that invariant (TLC checked it on the instance of
`daemon_safety` first): what the monitor has seen and what it told the callbacks
(`Monitoring`), that a device which runs beside the key is about to be stopped
(`Yielding`), that clicks come after the menu and the menu after the monitor's start
(`Menu`), which mode the process is in (`Modes`), and that a device in the kernel has
a goroutine (`Opened`, for `StoppedDevicesLeave`).

The assumptions are on constants: ids and blobs are byte strings, the blobs of a
P-256 key fit a byte of length, random bytes differ, bounds are natural numbers;
hashes and coordinates have 32 bytes, the AAGUID 16, and ids (at most three frames of
255 bytes) are shorter than 2^16.

Only model-checked: the claims that are violated.

## Not modelled

- TPM commands, AES-GCM, HKDF and signatures: ideal, as described above.
- The CBOR of requests and responses (apart from the COSE key, which is signed), the
  answer to getInfo, and the packets of responses: layout without state, most of it
  the library's.
- Flag parsing, the validation of relying-party ids, and the `-check` report:
  functions of the command line and of the file system, without state.
- The choice of a trusted `fprintd-verify` (`trustedExecutable`,
  `hostUIDMapped`): inspects owners and modes of files once, at start.
- Callers of `DecodeInto` with a buffer of their own: the daemon has none.
  `Lencode` has the operator for every length and capacity: the test at
  `lencode.go:136` refuses a buffer that is longer than the message, and lets a
  shorter one through to a slice expression that may panic, the reverse of its
  comment and of its error text. `Decode` makes the buffer exactly as long, so
  no run can meet it.
- `allocateCID`'s fallback for a failing random source, which `crypto/rand` of the
  Go version in `go.mod` no longer reports.
- The tray's YubiKey line and the wording of the menu.
- Two daemons at a time: nothing locks the credentials file, and two processes
  would replace each other's lists; the models have one process at a time.
- Transport and handler composed. What the transport needs of a command is in
  `CtapHid` (it returns at any time or never, and sees its context), and what
  the handler needs of a transport is in `Authenticator` (its context may end at
  any time). Responses name no request, so the composition would have no
  claim of the repository to check that the two do not have already.
- The installation scripts, which run outside the daemon. What the unit lets the
  daemon write is the constant `Sandboxed`.

## Order of the work

1. `CtapHid`, `UserPresence`, `Authenticator`, `CredentialStorage`, their runs,
   and the proofs of all their safety properties.
2. `Daemon` with its proofs; `CredentialStore` and `UserConsent` and the
   refinements; `Lencode` and `Keystore` with the signature counter and the
   migration, and their proofs.
3. `Transactions` and its refinement, `NextInOrder`, and the liveness of
   transport, handler and daemon as theorems; headless mode's main goroutine.
4. `AuthenticatorData` with the theorem that responses read back; `NeverStuck` of
   the handler and the daemon as theorems.
5. `GetNextAssertion` load by load, with the panics it can meet; starts that end in
   main and the unit's sandbox, with the finding about the first launch.
6. Next: `hostUIDMapped` and `validRPID` against reference definitions, and the
   composition of transport and handler if the repository comes to promise
   something of it.
