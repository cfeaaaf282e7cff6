# bhwi-ffi in TLA+

Specifications of the Rust/Kotlin hardware-wallet binding of this repository:
what they model, what TLC checks on small instances, what TLAPS proves for every
instance, and what is left.  Paths below are relative to the repository;
`bhwi/X.kt` stands for `android/lib/src/main/kotlin/com/wizardsardine/bhwi/X.kt`.

## 1. Inventory

### Parts, their state and their operations

| part | code | state | operations |
|---|---|---|---|
| lease cell | `bhwi-ffi/src/state.rs` `Leased<T>` | an atomic flag and the `UnsafeCell` it guards | `acquire`, `release`, `get_leased`, `with` |
| device-state handles | `state.rs` `NoiseHandle`, `ColdcardEncryption`, `HostPassphraseHandle` | noise state, link engine, pairing-code slot, passphrase | `export`, `take_pairing_code`, `clone_passphrase`, `validate`, `clear` |
| Specter decoder | `state.rs` `SpecterFrameDecoder` | the bytes of one reply, or nothing once retired | `push` |
| interpreter object | `bhwi-ffi/src/interp.rs` | a mutex around `Option<Session>`: core interpreter, lease, `started`, `finished`, expectations, PSBT snapshot | constructors, `start`, `exchange`, `end`, drop |
| commands and validation | `bhwi-ffi/src/types.rs` | none | `HwiCommand::plan`, its validators, `Expect::matches`, `map_error` |
| wallet helpers | `bhwi-ffi/src/helpers.rs` | none | descriptors, addresses, PSBT summary |
| command loop | `bhwi/Hwi.kt` | local to a call | `runCommand`, `deliver` |
| device session | `bhwi/HwiSession.kt` | coroutine mutex, monitor, `closed`, passphrase choice, the handles | commands, `bitboxPairing`, `configurePassphrase`, `disconnect` |
| links | `bhwi/Links.kt`, `bhwi/Cbor.kt` | `ready` (Trezor, Specter), `frameSize` (Ledger BLE) | `exchange` |
| transports | `bhwi/Transports.kt` | the host's | interfaces only |

### How they interact

    caller tasks ──> HwiSession ──(mutex, monitor)──> Hwi.runCommand
                        │                               │        │
                        │ generated wrappers            │        └─> Link.exchange ──> transport ──> device
                        v                               v
                NoiseHandle / ColdcardEncryption     Interp.start / exchange / end
                   └── Leased<T> <── lease + &mut ──┘      └── plan, result gate

A session builds one `Interp` per command.  BitBox and Coldcard interpreters
borrow a handle that outlives them, through a lease; the other families own their
state.  The loop moves payloads between the interpreter and a link until the
interpreter has no more, then asks for the typed result.

### What is hard here, and what makes each part correct

* **Leases.** Foreign threads may call anything in any order.  `unsafe` code hands
  out `&mut` under a flag: no two references coexist, none outlives the lease, the
  lease always comes back, the Coldcard key is installed while it is held.
* **Session fate.** A device failure retires the session; misuse and failed
  preflights do not.  Both are `Err`.
* **Facade.** Two locks, taken in both orders; `disconnect` outside one of them;
  generated wrappers that are destroyed under a caller; a transport that never
  answers; "one command at a time" for all of them (`HwiSession.kt:24`); secrets that must be cleared exactly once they are replaced.
* **Loop.** Cancellation between any two operations; the pairing code must be
  seen before the payload it is about.
* **Retiring links.** Timeouts, cancellations and damaged packets half way
  through an exchange; a late answer must not be taken for the next request's.
* **Plain links.** Ledger, Coldcard, BitBox and Jade links do not retire.  A
  cancelled exchange leaves its answer, or the rest of it, to the next one: it may
  be taken whole, never mixed with another.  Each framing has its own edges: the
  MTU that Ledger BLE infers from two sources, the `fram` reply of the Coldcard
  that forgets its last flag, the BitBox that answers NOTREADY until its user
  confirms, continuation numbers of one byte.
* **CBOR walk.** A Jade answer may be cut anywhere, inside a header too: a cut
  must be told from a broken value at every byte, and what is found must not depend
  on the reads that brought it.  Headers announce up to 2^64 bytes or items, and
  values nest: the walk has to stay inside the bytes that are there.
* **Result gate.** A PSBT that goes from device to device keeps what earlier ones
  signed, and new signatures carry the mode that was asked for.
* **Preflight.** Per-family validation with boundaries, whose later uses must
  agree with the earlier ones (a name registered is a name that can be used).
* **Wallet helpers.** Index ranges next to 2^32 and the hardened half; a fee from
  optional amounts in checked 64-bit sums; a descriptor that has to be the one a
  Ledger signs without a registration, a rule written down in another file.

`PROJECT.json` lists each hazard at its line, with the properties that cover it.

## 2. Modules

| module | models | composes |
|---|---|---|
| `Leased` | the cell's operations; the set of live references is added, `unsafe` leaves it to the programmer | |
| `ExclusiveLease` | abstract: an owner per cell, references only while owned | |
| `Interp` | interpreter objects, threads, handles | `INSTANCE Leased`; implements `ExclusiveLease` |
| `OneCommand` | abstract: one command at a time, alone on the link, with the passphrase choice it began with, and about an account only after that choice was made | |
| `HwiSession` | the facade with its locks, wrappers and secrets | the loop in five places, the interpreter as a leased native object; implements `OneCommand` |
| `RunCommand` | the loop, operation by operation, over several commands | |
| `RetiringLink` | abstract: ready, claimed by one caller, retired | |
| `TrezorLink`, `SpecterLink` | the two links that retire | implement `RetiringLink` |
| `PacketLinks` | Ledger HID and BLE, Coldcard and BitBox with U2F | |
| `CborWalk` | the walk of `Cbor.kt`, one call or iteration at a time | |
| `Cbor` | what the walk returns, and the grammar it stands for | `INSTANCE CborWalk` |
| `WalkCuts` | the walks over all prefixes of a stream, side by side | `EXTENDS CborWalk` |
| `JadeLink` | the Jade link over its byte stream, for any walk | |
| `PlainLinks` | whichever of the five a session has | `PacketLinks` and `INSTANCE JadeLink` |
| `SigningRounds` | the gate on signed PSBTs, over any number of rounds | |
| `CommandPlan` | preflight, the errors of a command, the gate on response kinds | |
| `Wallet` | the helpers, and the command a host builds from a result | `EXTENDS CommandPlan` |
| `InterpProofs`, `HwiSessionProofs`, `RunCommandProofs`, `TrezorLinkProofs`, `SpecterLinkProofs`, `PlainLinksProofs`, `SigningProofs`, `WalletProofs` | theorems about the module each is named after; `PlainLinksProofs` has those about `WalkCuts` too | |
| `MC*` | constants of the runs; `MCPlainLinks` gives `JadeLink` the walk of `Cbor` and has `WalkCuts` beside it | |

### Correspondence with the code

*Interp.*  A step is what a thread does between two points at which another
thread can tell the difference.  `phase[i]` is the `Option<Session>` with its two
flags: `fresh` (neither), `running` (started), `finished`, `gone` (`None`), and
`absent`/`building` before the constructor has returned.  `holds[i]` is a
`StateLease` that is not `None`; `refs` are the live `&mut`.  `lock[i]` is the
session mutex: the core works (`core`) and sessions are dropped (`dropInner`,
`dropLease`) while it is held.  A drop takes two steps, in the order in which
`Session` declares its fields.  The checks after the release in `end` read
nothing shared, so their outcome is chosen in `EndInner`.  The core is external:
it transmits, finishes or fails, and answers `end` with any response (`Responses`).
A Coldcard may make a session key while it answers any command (`Rekeys`): `key[i]` is
what the core of object `i` was given, `engine[c]` what the handle has, each of them
`current` or, once the device has made another, `old`.  `end` installs a key whatever the
command was.  An unlock that is answered otherwise passes `Expect::Any` and is reported
as it is, with no key.

*HwiSession.*  Tasks are coroutines (commands, `bitboxPairing`) or worker threads
(`configurePassphrase`, `disconnect`).  `mutex` is the coroutine mutex,
`monitor` the `@Synchronized` one.  `wrapper` and `inflight` are the generated
Kotlin object: destroying it makes further method calls throw, the call in
flight that leaves last frees the native object (`arcs` is who shares it), while
lowering it as a constructor argument is not guarded.  `lease` and `interp` are
the native side as `Interp` specifies it.  `adopted` and `cleared` say which
passphrase handles the session took over and which were cleared.  Callers keep to
`HwiSession.kt:61`: they neither clear nor close a handle the session has.

*OneCommand* is what the class comment promises of all this: commands one by one, each
with the choice it began with, none about an account before there was a choice, nobody
else on the link, no configuration under a command, and `disconnect` at any time.  A command of `HwiSession` runs there from the
constructor of its interpreter to its close, and talks while the transport has its
payload.

*RunCommand.*  Places whose name begins with `?` are `ensureActive()`; each other
place is one operation.  `slot` is the pairing-code slot, `awaiting` the
handshake whose verification the device waits for, `late` how many operations
were begun after the cancellation, counted up to `LateCap`.

*TrezorLink, SpecterLink.*  `ready` is the `AtomicBoolean`.  A request is a
sequence of packets (bytes) tagged with its number, so that an answer that is put
together from several, or given to another request, shows.  The environment
loses, damages and delays; the device answers the request it assembled.

*SigningRounds.*  `partial_sigs`, `tap_script_sigs` and `tap_key_sig` are one
function from places to signatures: the gate treats them alike but for the mode a
request without a `sighash_type` stands for.  The device returns anything that
differs from the request in two respects; since each part of the gate looks at
one input and at one field with the final fields, two are enough to combine a
removal with its excuse.

*CommandPlan.*  One command for one family at a time, from preflight to result.
Names, keys, paths and descriptors are records of what the validators tell apart.
`MapError` is `map_error`: which outcome of the core becomes which error.
`Responses` are those of the core, any of which may answer any command; `Answers`
are the `HwiResponse` the conversion makes of them.  `End` is the gate on kinds and on
the PSBT that was not asked for; the key of a Coldcard goes past it (`EndKeyed`).
`Casts` is what the methods of `HwiSession.kt` take the answer for.

*Wallet.*  `call` is the helper call; each loop (`derive_addresses`, the inputs
and the outputs of `psbt_summary`) takes one step per element, with the accumulators
`entries`, `totalIn`, `totalOut` of the code.  `exactIn` and `exactOut` are history:
the same sums in unbounded integers.  A text is described by what its parsers make
of it.  After `build_descriptor` the host may give the descriptor to a Ledger
command, which is the flow of `README.md:365-368`.

*PacketLinks.*  The bytes of a message are an interval, a frame is a part of it
with the header fields the link reads.  `out` and `in` are the locals of
`exchange`, `frameSize` the field of the BLE link.  The device assembles requests
as the framing defines and answers them in order; a BitBox may ask for patience
first.  A send or receive may fail or be cancelled before or after the frame moved,
and one frame may be lost, or read short (the buffer of `LedgerHid` then ends with
bytes of the frame before, `Links.kt:135-137`).  A wrong channel or tag is refused
as a wrong sequence number is, and not told apart from it.

*JadeLink.*  The stream holds bytes tagged with the request they answer.
`JadeLink` takes the walk and the grammar as parameters, `Walk` and `WellFormed`: all it needs of the walk is
that it finds the end of what a Jade sends and of no part of it.  An `alien` device
is not a Jade and sends any bytes, so the walk meets every short buffer.

*CborWalk, Cbor, WalkCuts.*  The three functions of `Cbor.kt` call each other; here
the calls of `endOfItems` and `endOfChunks` that wait for a value are a stack, `calls`,
with what the loop has `left`, and so are those `endOfValue` makes of itself for a tag, which
have nothing left; the depth that `WalkIsBounded` bounds counts all of them.  `ValueStep` is `endOfValue` up to its next call or its return,
`LoopStep` an iteration of either loop.  `owed` is the only thing the code has no
counterpart for: how many bytes the loops further out still need at least, which follows from
their `left` and is carried along for the properties.  `EndOfValue` of `Cbor` takes
the steps to the end; `IsValue` is written from the grammar of CBOR, which reads a
string and not positions.  `JadeSerialLink` walks its whole buffer after every read:
which prefixes of a stream these are depends on the reads, so `WalkCuts` walks them all
at once.

## 3. Runs

| run | bounds | shows |
|---|---|---|
| `interp` | 2 threads, 2 objects, 1 noise and 1 Coldcard handle | `NoAliasing`, `LeaseHasOneOwner`, `CoreHasSession`, `SessionFate`, `KeyIsCurrent`, `GoneReleasesLease`; refines `ExclusiveLease` |
| `session` | 3 tasks, 2 passphrase handles, four kinds of session | `NoUseAfterFree`, `LeaseFreeUnderMutex`, `CommandErrorsTyped`, `SecretsCleared`, no deadlock of the two locks; refines `OneCommand` |
| `session_liveness` | 2 tasks | `MonitorIsBrief`, `StalledCanBeCancelled` |
| `run_command` | 3 commands in a row | `CodeBeforeVerify`, `OneOperationAfterCancel`, `CancelledEnds` |
| `trezor_link` | 2 callers, 3 exchanges, requests and answers of up to 2 packets | `OwnAnswer`, `ReadyIsQuiet`, `CancelledEnds`; refines `RetiringLink` |
| `specter_link` | 2 callers, 3 exchanges, answers of 2 bytes | `OwnAnswer`, `ReadyIsQuiet`, `ExchangeEnds`; refines `RetiringLink` |
| `plain_links` | 2 exchanges on each of the five links, lengths at the edges of each framing, every buffer and every stream of up to 4 bytes of a 14-byte alphabet, 8 longer streams with nested and 8-byte headers | `OwnAnswer`, `RequestIntact`, `WalkAgrees`, `CutsAgree`, `WalkIsBounded`, `ExchangeEnds` |
| `signing_rounds` | 1 input, 3 places, 3 signatures, any number of rounds | `NothingLost`, `HonestAccepted`, `AddedAsRequested` |
| `wallet` | 7 families, every command, every helper call, arguments around each boundary | `RegisteredIsUsable`, `LedgerBound`, `BuiltIsSignable`, `ResultFits`, `DerivedRange`, `FeeExact` |

The three runs that expect a violation are described below.

Why these bounds are enough: an aliasing or a lost lease needs two parties on one
handle, and a third object only adds another loser of the same compare-exchange.
Two callers and three exchanges let a failed exchange be followed by a retry and
by a bystander's.  The third task of `session` lets a disconnect race a command
while another waits for the mutex.  One input is enough for a gate that treats
inputs one by one.  For all of these, the theorems of section 4 remove the bound.

`plain_links` takes two exchanges, enough for a cancelled one and the one that finds
what it left (`MaxRequests = 3` was tried too, for the invariants).  The lengths are
those where a frame is just full and where one byte more starts the next: 57 and 58
for a Ledger packet, 63 and 64 for a Coldcard report, 56 and 57 for a U2F init frame (which holds the
HWW byte too) and 7549 and 7550 for the longest U2F message, 15 and 16 for a
BLE frame of 20 bytes, and the empty APDU.  `PlatformMtus` has a value below the
20 bytes that the link never goes under and one above, `DeviceMtus` a device that does not say and
one that says 30.  The CBOR alphabet has integers, strings, arrays, maps and tags of definite
and indefinite length, lengths of two bytes, most of which do not fit, the reserved
information and the break; four bytes are enough to nest one container, or one
chunk, in another and to cut either anywhere.  The messages that a Jade answers
with nest further and have a length of eight bytes.

`wallet` scales the numbers the helpers compare with: `MaxDerive` 3 for 1000,
`Hardened` 5 for 2^31, `Top` 10 for 2^32, `MaxAmount` 3 for 2^64 - 1, so that every
start, count and amount is tried.  `FeeNeverWrong` and `DerivesExactly` hold for the
real ones as for any others.

The walks of `WalkCuts` take no part in an exchange, so `plain_links` runs them in
behaviours of their own, one for each stream, beside a link that is not used
(`MCSpec`): every behaviour is one of `PlainSpec` or one of `WalksSpec`.  The longer
streams are those in which a header of 2, 4 or 8 bytes is itself cut and what it
announces does or does not fit.

`CHECK_DEADLOCK FALSE` appears where the model stops by design: walks end, the number of
commands, requests or calls is bounded in `run_command`, `stale_code`,
`trezor_link`, `specter_link` and `plain_links`, and a behaviour of `wallet` and
`tapscript` is one call and one command.  The other runs check it; for `session`
this is the deadlock freedom of monitor and mutex.

### Fairness

* `Interp`: a thread inside the library keeps running (`Proceeds`), except at
  the session mutex, for which nothing is assumed; no thread has to call anything.
* `HwiSession`: a task keeps running where it waits for nobody.  Nothing is
  assumed of the two locks, of an answer of the transport (`Answers`) or of
  callers; a suspended transport call ends when its coroutine is cancelled
  (`Stops`).
* `RunCommand`: the loop runs, and a suspended transport call ends when its
  coroutine is cancelled, which is what suspension points of the interfaces are
  for; a reply is never assumed.
* `TrezorLink`, `SpecterLink`: `exchange` runs; a suspended call of a cancelled
  coroutine ends (`Abandons`, `Interrupted`); the timer of the Specter exchange
  fires (`Expires`).  The device and the wire owe nothing.
* `PacketLinks`, `JadeLink`: `exchange` runs (`Proceeds`, `JadeProceeds`), and a
  cancelled transport call ends (`Abandons`).  These links have no deadline of
  their own, so `ExchangeEnds` speaks of an exchange that is cancelled, or whose
  device answers: the device takes its steps, and a BitBox confirms in the end
  (strong fairness of `DeviceAnswers`, since each NOTREADY disables it for a while).
  Nothing in the code bounds that polling, and no property here covers it.

### What the code does not do (violation runs)

* `stale_code`: the pairing code is taken out of its slot only after
  `ensureActive()` (`Hwi.kt:58`, `:62`).  A command cancelled there leaves the
  code to the next one, which shows it although the device awaits none of it
  (`Hwi.kt:59-61`).
* `pairing_race`: `bitboxPairing` has no handler around `handle.export()`
  (`HwiSession.kt:168`): racing `disconnect` it throws the wrapper's
  `IllegalStateException`, not one of the three kinds of `HwiSession.kt:34-36`.
  `run` has that handler, and `CommandErrorsTyped` holds.
* `tapscript`: the BitBox preflight (`types.rs:386-403`) recognises script spends
  by witness script, P2WSH output and redeem script.  A Taproot script-path input
  has none of them, so it is planned without the policy that `README.md:85-86`
  and `types.rs:401` require.

## 4. Proofs

Every theorem has the form `Spec => ...` and holds for every value of the constants
that satisfies the assumption named; TLC evaluates each assumption on the runs of
its module.  In each module the property is not inductive alone: an invariant made
of named parts is, `Invariance` (or the module's theorem of type correctness) proves
it with one step per action, and the properties follow.  The type invariants (`TypeOK`)
are the first of these parts and are proved, so no run repeats them.

* `InterpProofs` (`InterpAssumption`: the sets of identities are disjoint).
  `NoAliasing` needs to know who owns each lease, that is which object or which
  exporting thread; that depends on where each thread stands in a call
  (`Shape`), hence on who holds each session mutex (`Mutex`) and on the phase of
  the object it works on (`PhaseOf`, `HoldsOf`, `RefsOf`, `OutOf`).  The same
  invariant gives `LeaseIsExclusive`: `Interp` implements `ExclusiveLease`.  The
  owner of a cell in the abstract specification is determined by
  `LeaseHasOneOwner`; the four steps that change a flag take or give the lease, every other
  step reads and returns references under it or stutters.  `KeyInstalled` needs of the
  invariant that an interpreter only has a key while it holds its lease (`KeyOf`), so that no
  other interpreter on the handle can have the device make a newer one before it is installed.
* `HwiSessionProofs` (`SessionAssumption`).  Who holds mutex and monitor
  (`Holders`), which wrappers and native objects are alive at each place of a task
  (`Alive`), what a failing command throws (`Typed`), where the passphrase choice
  may change (`Choice`), and which handles are adopted and cleared (`Secrets`).
  `SessionIsOneCommand` is the refinement of `OneCommand`, step by step: an interpreter is
  constructed with no other alive, since whoever constructs holds the mutex
  (`OthersIdle`); a configuration takes effect under the mutex, so it finds no
  command; and a passphrase is only dropped behind the flag of `disconnect`.  That a
  running command has the choice the session shows (`ChoiceStable`) is a theorem of its own.
* `RunCommandProofs` (`RunAssumption`).  A code that the device awaits is on its way
  from the slot to the callback (`CodeOnItsWay`), and at most one operation is
  late, at a known place (`OneLate`).
* `TrezorLinkProofs`, `SpecterLinkProofs` (`TrezorAssumption`, `SpecterAssumption`:
  callers are not named like the states of the abstract link).  A caller in the
  middle of an exchange is the one that claimed the link (`Claimed`), a ready link has
  nothing under way (`ReadyIsQuiet`), and while an exchange goes on the wire and the
  device hold consecutive parts of its request, or of its answer, and of nothing else
  (`Exchanging`); in the Specter case damaged bytes never enter the decoder.  From
  these, `OwnAnswer` and the refinement of `RetiringLink`.
* `PlainLinksProofs` (`PacketAssumption`, `LengthsAssumption`, `MessagesAssumption`).
  For messages of any length, any number of exchanges, any MTUs and any walk as
  above; the assumptions on lengths are those the code relies on without a check
  of its own (a Ledger payload and its length of two bytes, a Coldcard request that is not
  empty), or that a device keeps to.  `PlainInv` has these parts:
  - every frame on the wire is one the framing defines, with its bytes where its
    number says (`WireFormed`, `Formed`);
  - neighbouring frames are consecutive parts of a message, or the end of one and the beginning
    of the next, as long as no frame was lost; after one was, a frame with the number that is
    due still belongs to the same message on the numbered links (`Chained`);
  - the device has what was sent of the request, for a Coldcard unless an exchange
    failed, and never queues a broken one (`SendInv`); hence `RequestsArriveWhole`;
  - what was read is a prefix of one message and the next frame is its continuation, or is
    refused (`ReadInv`);
  - while nothing went wrong, exactly one party owes something: the host a request,
    the device the answer to the current one, or the wire that answer
    (`QuietInv`), with a BitBox's polling accounted for by `working`;
  - between a Jade's stream and the link's buffer is its whole answer (`JadeClean`).

  `ExchangesReturnOwnAnswer` needs all of them: `QuietInv` says whose the answer is,
  `ReadInv` that it is whole, and `Chained` that a lost frame is noticed.  A short
  read of `LedgerHid` and a lost Coldcard or U2F frame are excepted, as in the property.
* `PlainLinksProofs`, last part (`StreamsAssumption`: streams are bytes).  What a
  walk does to its stack is needed for every stream and every depth: the loops further
  out need what `owed` says of them (`StackedOn`), a step never brings the walk nearer
  to an end than `Need` says it is, and `Work` decreases with it (`Progress`).
  `CutsInv` compares the walk over m bytes with the one over more: they are the same until
  the short one is done with INCOMPLETE, and from then on the long one is past m bytes, or
  will be when it finds an end (`Cut`).  The step that tells them apart is always one
  that looks at a byte, a header or a length behind m (`HeadCut`, `SizedCut`, `LoopCut`).
  `CutsAlwaysAgree` follows, and `WalkAlwaysBounded` from `WalkAlwaysInside` and
  `WalkAlwaysLinear`.
* `WalletProofs` (`NoneAssumption`, `PlanAssumption`, `CommandsAssumption`,
  `PoliciesAssumption`, `NumbersAssumption`, `CallsAssumption`, `BuildAssumption`: what
  arguments the types of the source admit).  While a sum is built the
  accumulator is the exact sum, or unknown (`SumInv`); while addresses are derived
  the entries are those of consecutive indices from `start`, below `Hardened` where a
  wildcard is derived (`DeriveInv`); what was registered or answered stays tied to
  its command (`PlanInv`).  `ResultsFit` goes through the commands: the kind the gate
  admits is converted to the kind the facade casts to, in every case but the Coldcard's key.  `LedgerIsBound` rests on the guard of the
  preflight: a policy without a registration passes only with the purpose, coin, account,
  depth and branches that make it one of the descriptors `build_singlesig_descriptor`
  writes (`DefaultIsStandard`).  `BuiltSignsExactly` needs that the command a
  host asks after `build_descriptor` is about the descriptor built from this very
  call (`BuiltInv`); then the helper's rules and the preflight's are shown
  equivalent, in both directions, for any account and origin.
* `SigningProofs` (`SigningAssumption`).  For any number of inputs, places, signatures and rounds the PSBT
  stays well formed (`SigningTypeCorrect`), no signature is ever lost and the
  spend stays the one asked for (`NothingLostForever`), and additions carry the mode
  that was asked for (`ModesKept`).  The strengthening of `NothingLost` is that
  every signature in the history belongs to an input the PSBT still has.
  `HonestNeverRefused` is the other side of the gate: it refuses no round of an honest device.
  It needs the types only, but these in every state that rounds lead to.

Only model-checked: all liveness (TLAPS does not handle `ENABLED`), that is
`GoneReleasesLease`, `MonitorIsBrief`, `StalledCanBeCancelled`, `CancelledEnds` and
`ExchangeEnds`; and `WalkAgrees`.  It compares the walk with a grammar that is recursive
over its data, and the provers have neither recursive operators nor induction with an
operator as parameter.  This is why `JadeLink` takes the walk as a parameter.  What the
proofs assume of it is `MessagesAssumption`, which TLC evaluates on
the messages of the `plain_links` run with the walk of `Cbor`.  Its second half, that no
part of a message is taken for one, is what `CutsAlwaysAgree` proves of the walk itself.

## 5. What the models do not say

* A late answer may be taken whole by the next exchange of a plain link, and
  `OwnAnswer` says so: while every exchange has completed an answer is its own,
  after one that did not it is at least an answer and not parts of two.
  `README.md:411-413` names only two links that retire.
* `FeeExact` is relative to the PSBT's own data: a fee is never wrong for the
  amounts the PSBT claims.  That these are the amounts of the chain is the
  signer's business.
* The walk accepts an indefinite map with an odd number of items, which CBOR does
  not; `IsValue` does too, since the decoder behind the link refuses such a map.
* `HwiSession.kt:231` takes an unexpected response kind for a bug of the bindings.  `ResultFits` makes
  the one exception the code makes: a Coldcard that answers another command with a session
  key has it installed, `end` reports `TaskDone` before the gate (`interp.rs:464-474`), and the
  facade then reports an internal error.  Whether the core can return that response there is the `bhwi` crate's matter.
* A BLE frame never goes below 20 bytes, so a platform MTU below that is exceeded.

Not modelled:

* `HwiSession`: `supportsHostPin`, how `unlock` maps `DeviceAlreadyUnlocked` (single
  expressions).
* Passphrase handles: the limit of 50 bytes and the normalisation; `NoiseConfig`
  key lengths (conversions done by the `bhwi` crate).
* Wording, `Debug` redaction, base64, the conversion of records between the crate
  and the binding, the address of an output.
* Poisoned mutexes: a panic under the session mutex makes every later call fail
  with an internal error; the release profile is not assumed to unwind.
* `bindgen`, `tools`, the Android sample, Gradle files, fixtures, tests: no
  state of the running system.
* The `bhwi` crate and the generated bindings: outside the repository, modelled
  only by what this code sees of them.

## 6. Plan

1. Done, modules: leases and interpreter objects; facade; loop; retiring links; plain links with the
   CBOR walk; signing gate; preflight; wallet helpers.
2. Done, proofs: the safety of leases, facade, loop, retiring and plain links, CBOR
   walk, signing gate, preflight and helpers, which is every safety property of a passing run but
   `WalkAgrees`; the refinements of `ExclusiveLease`, `OneCommand` and `RetiringLink`.
3. Left: the facade's commands as instances of `RunCommand` (a refinement that would tie the five
   places of `HwiSession` to the loop's operations), and an abstract specification
   of the plain links beside `RetiringLink`.
