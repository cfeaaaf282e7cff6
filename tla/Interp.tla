------------------------------- MODULE Interp -------------------------------
(***************************************************************************)
(* The driving surface of bhwi-ffi/src/interp.rs and the handles of        *)
(* state.rs it borrows from.  One interpreter object runs one command.     *)
(* Foreign threads construct interpreters, call start / exchange / end on  *)
(* them, drop them and export the noise pairing state, in any order and    *)
(* concurrently.                                                           *)
(*                                                                         *)
(* A step is what one thread does between two points at which another      *)
(* thread can tell the difference: the compare-exchange on the lease, the  *)
(* creation and the death of each `&mut`, the session mutex, the decision  *)
(* taken under it, the work of the core interpreter, the release of the    *)
(* lease.  The sans-io core (the bhwi crate) is external: it answers each  *)
(* call with any of the outcomes this code distinguishes.                  *)
(***************************************************************************)
CONSTANTS Threads,        \* foreign threads
          Interps,        \* identities of interpreter objects, reused once freed
          NoiseCells,     \* one per NoiseHandle (BitBox02)
          ColdcardCells,  \* one per ColdcardEncryption
          NoCell,         \* StateLease::None: Jade, Ledger, Trezor, KeepKey, Specter
          Nobody          \* no thread

ASSUME InterpAssumption ==
  /\ Nobody \notin Threads \cup Interps \cup NoiseCells
  /\ NoCell \notin NoiseCells \cup ColdcardCells
  /\ NoiseCells \cap ColdcardCells = {}
  /\ Threads \cap Interps = {}
  /\ Interps \cap NoiseCells = {}

VARIABLES leased, refs,   \* the cells, see Leased
          engine,         \* the session key each Coldcard cell holds
          phase,          \* each interpreter: Option<Session>, started, finished
          borrows,        \* the cell each interpreter was built on
          holds,          \* whether its StateLease is alive and not None
          cmd,            \* the command a started interpreter runs
          lock,           \* owner of the session mutex
          pc, op, at, out,\* each thread: position, operation, object, result
          key             \* the session key the core of each interpreter was given

Cells == NoiseCells \cup ColdcardCells

Lease == INSTANCE Leased WITH Holders <- Threads \cup Interps

cellVars   == <<leased, refs>>
threadVars == <<pc, op, at, out>>
vars == <<leased, refs, engine, phase, borrows, holds, cmd, lock,
          pc, op, at, out, key>>

Phases  == {"absent", "building", "fresh", "running", "finished", "gone"}
Ops     == {"none", "new", "start", "exchange", "end", "free", "export"}
Results == {"none", "ok", "keyed", "badstate", "invalid", "device"}
Keys    == {"none", "current", "old"}   \* none, the one the device uses now, another
Places  == {"idle", "acquire", "build",                    \* constructor
            "lock", "body", "core", "unlock",              \* start, exchange
            "inner", "install", "ready",                   \* end
            "dropInner", "dropLease",                      \* Session dropped
            "expAcquire", "expBorrow", "expRead", "expRelease"}

TypeOK ==
  /\ Lease!LeasedTypeOK
  /\ engine \in [ColdcardCells -> Keys]
  /\ phase \in [Interps -> Phases]
  /\ borrows \in [Interps -> Cells \cup {NoCell}]
  /\ holds \in [Interps -> BOOLEAN]
  /\ cmd \in [Interps -> {"none", "unlock", "other"}]
  /\ lock \in [Interps -> Threads \cup {Nobody}]
  /\ pc \in [Threads -> Places]
  /\ op \in [Threads -> Ops]
  /\ at \in [Threads -> Interps \cup NoiseCells \cup {Nobody}]
  /\ out \in [Threads -> Results]
  /\ key \in [Interps -> Keys]

Init ==
  /\ Lease!LeasedInit
  /\ engine = [c \in ColdcardCells |-> "none"]
  /\ phase = [i \in Interps |-> "absent"]
  /\ borrows = [i \in Interps |-> NoCell]
  /\ holds = [i \in Interps |-> FALSE]
  /\ cmd = [i \in Interps |-> "none"]
  /\ lock = [i \in Interps |-> Nobody]
  /\ pc = [t \in Threads |-> "idle"]
  /\ op = [t \in Threads |-> "none"]
  /\ at = [t \in Threads |-> Nobody]
  /\ out = [t \in Threads |-> "none"]
  /\ key = [i \in Interps |-> "none"]

-----------------------------------------------------------------------------
(* Moves of a thread. *)

Goto(t, place) == pc' = [pc EXCEPT ![t] = place]

(* A thread enters an operation o on the object x. *)
Enter(t, o, x, place) ==
  /\ pc[t] = "idle"
  /\ Goto(t, place)
  /\ op' = [op EXCEPT ![t] = o]
  /\ at' = [at EXCEPT ![t] = x]
  /\ UNCHANGED out

(* The operation returns to its caller. *)
Leave(t) ==
  /\ Goto(t, "idle")
  /\ op' = [op EXCEPT ![t] = "none"]
  /\ at' = [at EXCEPT ![t] = Nobody]
  /\ out' = [out EXCEPT ![t] = "none"]

(* It goes on, or to the point where it returns r. *)
Continue(t, place)  == Goto(t, place) /\ UNCHANGED <<op, at, out>>
Yields(t, r, place) ==
  /\ Goto(t, place)
  /\ out' = [out EXCEPT ![t] = r]
  /\ UNCHANGED <<op, at>>

SetPhase(i, p) == phase' = [phase EXCEPT ![i] = p]

(* The object is reachable from the foreign side: built, not being freed. *)
Reachable(i) ==
  /\ phase[i] \notin {"absent", "building"}
  /\ \A u \in Threads : ~(op[u] = "free" /\ at[u] = i)

-----------------------------------------------------------------------------
(* Constructors. *)

(* new_bitbox and new_coldcard: enter with a handle. *)
NewBorrowing(t, i, c) ==
  /\ phase[i] = "absent"
  /\ Enter(t, "new", i, "acquire")
  /\ SetPhase(i, "building")
  /\ borrows' = [borrows EXCEPT ![i] = c]
  /\ UNCHANGED <<cellVars, engine, holds, cmd, lock, key>>

(* Mutant of NewAcquires: a store where a compare-exchange is needed. *)
NewAcquiresUntested(t) ==
  LET i == at[t] IN
  /\ pc[t] = "acquire"
  /\ leased' = [leased EXCEPT ![borrows[i]] = TRUE]
  /\ holds' = [holds EXCEPT ![i] = TRUE]
  /\ Continue(t, "build")
  /\ UNCHANGED <<refs, engine, phase, borrows, cmd, lock, key>>

(* The lease is free: it is taken, and belongs to the interpreter to be. *)
NewAcquires(t) ==
  LET i == at[t] IN
  /\ pc[t] = "acquire"
  /\ Lease!Acquire(borrows[i])
  /\ holds' = [holds EXCEPT ![i] = TRUE]
  /\ Continue(t, "build")
  /\ UNCHANGED <<engine, phase, borrows, cmd, lock, key>>

(* A lease is out: BadState, and no object. *)
NewRefused(t) ==
  LET i == at[t] IN
  /\ pc[t] = "acquire"
  /\ Lease!Refused(borrows[i])
  /\ SetPhase(i, "absent")
  /\ borrows' = [borrows EXCEPT ![i] = NoCell]
  /\ Leave(t)
  /\ UNCHANGED <<engine, holds, cmd, lock, key>>

(* `&mut *pointer`, the core interpreter around it, and Interp::build. *)
Build(t) ==
  LET i == at[t] IN
  /\ pc[t] = "build"
  /\ Lease!Borrow(borrows[i], i)
  /\ SetPhase(i, "fresh")
  /\ Leave(t)
  /\ UNCHANGED <<engine, borrows, holds, cmd, lock, key>>

(* The families that own their state: no lease, one step. *)
NewOwned(t, i) ==
  /\ pc[t] = "idle"
  /\ phase[i] = "absent"
  /\ SetPhase(i, "fresh")
  /\ UNCHANGED <<cellVars, engine, borrows, holds, cmd, lock, threadVars, key>>

-----------------------------------------------------------------------------
(* The session mutex. *)

Call(t, i, o) ==
  /\ Reachable(i)
  /\ Enter(t, o, i, "lock")
  /\ UNCHANGED <<cellVars, engine, phase, borrows, holds, cmd, lock, key>>

(* Mutant of Lock: the session is not behind a mutex. *)
LockUntested(t) ==
  /\ pc[t] = "lock"
  /\ lock' = [lock EXCEPT ![at[t]] = t]
  /\ Continue(t, "body")
  /\ UNCHANGED <<cellVars, engine, phase, borrows, holds, cmd, key>>

Lock(t) ==
  LET i == at[t] IN
  /\ pc[t] = "lock"
  /\ lock[i] = Nobody
  /\ lock' = [lock EXCEPT ![i] = t]
  /\ Continue(t, "body")
  /\ UNCHANGED <<cellVars, engine, phase, borrows, holds, cmd, key>>

(* The guard is dropped and the call returns. *)
Unlock(t) ==
  LET i == at[t] IN
  /\ pc[t] = "unlock"
  /\ lock' = [lock EXCEPT ![i] = Nobody]
  /\ Leave(t)
  /\ UNCHANGED <<cellVars, engine, phase, borrows, holds, cmd, key>>

-----------------------------------------------------------------------------
(* Interp::start and Interp::exchange, under the mutex. *)

(* The checks that answer BadState and change nothing: the Option is None, *)
(* start on a started session, exchange on one that does not run.          *)
Misuse(t) ==
  /\ pc[t] = "body"
  /\ \/ phase[at[t]] = "gone"
     \/ op[t] = "start" /\ phase[at[t]] # "fresh"
     \/ op[t] = "exchange" /\ phase[at[t]] # "running"
  /\ Yields(t, "badstate", "unlock")
  /\ UNCHANGED <<cellVars, engine, phase, borrows, holds, cmd, lock, key>>

(* Mutant of PreflightFails: `started` is set before the lowering. *)
PreflightFailsStarted(t) ==
  /\ pc[t] = "body" /\ op[t] = "start"
  /\ phase[at[t]] = "fresh"
  /\ SetPhase(at[t], "running")
  /\ Yields(t, "invalid", "unlock")
  /\ UNCHANGED <<cellVars, engine, borrows, holds, cmd, lock, key>>

(* HwiCommand::plan, the lowering to the family's command or the Ledger    *)
(* policy id fails: `started` is still false and the session survives.     *)
PreflightFails(t) ==
  /\ pc[t] = "body" /\ op[t] = "start"
  /\ phase[at[t]] = "fresh"
  /\ Yields(t, "invalid", "unlock")
  /\ UNCHANGED <<cellVars, engine, phase, borrows, holds, cmd, lock, key>>

(* `started = true` and the expectations are set, before the core is asked. *)
StartCommits(t, k) ==
  LET i == at[t] IN
  /\ pc[t] = "body" /\ op[t] = "start"
  /\ phase[i] = "fresh"
  /\ SetPhase(i, "running")
  /\ cmd' = [cmd EXCEPT ![i] = k]
  /\ Continue(t, "core")
  /\ UNCHANGED <<cellVars, engine, borrows, holds, lock, key>>

(* require_running passes. *)
ExchangeCommits(t) ==
  /\ pc[t] = "body" /\ op[t] = "exchange"
  /\ phase[at[t]] = "running"
  /\ Continue(t, "core")
  /\ UNCHANGED <<cellVars, engine, phase, borrows, holds, cmd, lock, key>>

(* A Coldcard that has no session key cannot encrypt another command. *)
CanEncrypt(i) ==
  ~(borrows[i] \in ColdcardCells /\ cmd[i] = "other" /\ engine[borrows[i]] = "none")

(* A Coldcard that answers may make a new session key and give it to the   *)
(* interpreter that asks: whatever another interpreter or the engine of    *)
(* this handle holds is then no longer what the device uses.               *)
Outdated(k) == IF k = "current" THEN "old" ELSE k

Rekeys(t) ==
  LET c == borrows[at[t]] IN
  /\ op[t] = "exchange" /\ c \in ColdcardCells
  /\ engine' = [engine EXCEPT ![c] = Outdated(@)]
  /\ key' = [j \in Interps |-> CASE j = at[t] -> "current"
                                [] j # at[t] /\ borrows[j] = c -> Outdated(key[j])
                                [] OTHER -> key[j]]

Consumes(t) == Rekeys(t) \/ UNCHANGED <<engine, key>>

(* The core returns the next payload to send. *)
CoreTransmits(t) ==
  /\ pc[t] = "core"
  /\ CanEncrypt(at[t])
  /\ Consumes(t)
  /\ Yields(t, "ok", "unlock")
  /\ UNCHANGED <<cellVars, phase, borrows, holds, cmd, lock>>

(* The core has no more to send: `finished = true`. *)
CoreFinishes(t) ==
  /\ pc[t] = "core" /\ op[t] = "exchange"
  /\ SetPhase(at[t], "finished")
  /\ Consumes(t)
  /\ Yields(t, "ok", "unlock")
  /\ UNCHANGED <<cellVars, borrows, holds, cmd, lock>>

(* Mutant of ProtocolFails: `lease` is declared before `inner`. *)
ProtocolFailsLeaseFirst(t) ==
  /\ pc[t] = "core"
  /\ SetPhase(at[t], "gone")
  /\ Consumes(t)
  /\ Yields(t, "device", "dropLease")
  /\ UNCHANGED <<cellVars, borrows, holds, cmd, lock>>

(* A malformed V1 reply, a foreign Ledger registration id or an error of   *)
(* the core: with_session retires the session, *guard = None.              *)
ProtocolFails(t) ==
  /\ pc[t] = "core"
  /\ SetPhase(at[t], "gone")
  /\ Consumes(t)
  /\ Yields(t, "device", "dropInner")
  /\ UNCHANGED <<cellVars, borrows, holds, cmd, lock>>

-----------------------------------------------------------------------------
(* A Session dies: its fields are dropped in the order of declaration. *)

DropInner(t) ==
  LET i == at[t] IN
  /\ pc[t] = "dropInner"
  /\ IF holds[i] THEN Lease!Return(borrows[i], i) ELSE UNCHANGED cellVars
  /\ Continue(t, "dropLease")
  /\ UNCHANGED <<engine, phase, borrows, holds, cmd, lock, key>>

(* Mutant of DropLease: the flag is not stored back. *)
DropLeaseForgets(t) ==
  LET i == at[t] IN
  /\ pc[t] = "dropLease"
  /\ holds' = [holds EXCEPT ![i] = FALSE]
  /\ IF op[t] = "free"
     THEN /\ SetPhase(i, "absent")
          /\ borrows' = [borrows EXCEPT ![i] = NoCell]
          /\ cmd' = [cmd EXCEPT ![i] = "none"]
          /\ Leave(t)
     ELSE Continue(t, "unlock") /\ UNCHANGED <<phase, borrows, cmd>>
  /\ key' = [key EXCEPT ![i] = "none"]
  /\ UNCHANGED <<cellVars, engine, lock>>

(* impl Drop for StateLease.  Freeing the object ends here; a key the core *)
(* had, and that end did not install, is gone with it.                     *)
DropLease(t) ==
  LET i == at[t] IN
  /\ pc[t] = "dropLease"
  /\ IF holds[i] THEN Lease!Release(borrows[i]) ELSE UNCHANGED cellVars
  /\ holds' = [holds EXCEPT ![i] = FALSE]
  /\ IF op[t] = "free"
     THEN /\ SetPhase(i, "absent")
          /\ borrows' = [borrows EXCEPT ![i] = NoCell]
          /\ cmd' = [cmd EXCEPT ![i] = "none"]
          /\ Leave(t)
     ELSE Continue(t, "unlock") /\ UNCHANGED <<phase, borrows, cmd>>
  /\ key' = [key EXCEPT ![i] = "none"]
  /\ UNCHANGED <<engine, lock>>

-----------------------------------------------------------------------------
(* Interp::end. *)

(* Mutant of EndTakes: an unfinished session is leaked, not dropped. *)
EndTakesLeaks(t) ==
  LET i == at[t] IN
  /\ pc[t] = "body" /\ op[t] = "end"
  /\ phase[i] # "gone"
  /\ SetPhase(i, "gone")
  /\ IF phase[i] = "finished" THEN Continue(t, "inner") ELSE Yields(t, "badstate", "unlock")
  /\ UNCHANGED <<cellVars, engine, borrows, holds, cmd, lock, key>>

(* guard.take(): from here the Option is None whatever happens next.  An   *)
(* unfinished session is dropped and the call reports BadState.            *)
EndTakes(t) ==
  LET i == at[t] IN
  /\ pc[t] = "body" /\ op[t] = "end"
  /\ phase[i] # "gone"
  /\ SetPhase(i, "gone")
  /\ IF phase[i] = "finished" THEN Continue(t, "inner")
                              ELSE Yields(t, "badstate", "dropInner")
  /\ UNCHANGED <<cellVars, engine, borrows, holds, cmd, lock, key>>

(* The answers of inner.end(), for any command: a key if the core was     *)
(* given one, an error, a response that the command's Expect admits or one *)
(* it does not.  Unlock expects Any: no response is a mismatch, and that of *)
(* a Coldcard which is not a key is an ordinary result.                    *)
Responses(i) ==
  {"match", "error"}
    \cup (IF cmd[i] = "unlock" THEN {} ELSE {"mismatch"})
    \cup (IF key[i] = "none" THEN {} ELSE {"key"})

(* Mutant of EndInner: the lease is released before the key is installed. *)
EndInnerReleasesFirst(t, r) ==
  LET i == at[t] IN
  /\ pc[t] = "inner"
  /\ r \in Responses(i)
  /\ IF holds[i] THEN refs' = [refs EXCEPT ![borrows[i]] = @ \ {i}] ELSE UNCHANGED refs
  /\ IF r = "key" THEN leased' = [leased EXCEPT ![borrows[i]] = FALSE] ELSE UNCHANGED leased
  /\ holds' = [holds EXCEPT ![i] = @ /\ r # "key"]
  /\ CASE r = "key"   -> Continue(t, "install")
       [] r = "match" -> Yields(t, "ok", "dropLease")
       [] OTHER       -> Yields(t, "device", "dropLease")
  /\ UNCHANGED <<engine, phase, borrows, cmd, lock, key>>

(* inner.end() consumes the interpreter, and with it its reference.  A key *)
(* goes to the engine whatever the command was.  Otherwise the result of   *)
(* the checks that follow the release of the lease is decided here: they   *)
(* read nothing that is shared.                                            *)
EndInner(t, r) ==
  LET i == at[t] IN
  /\ pc[t] = "inner"
  /\ r \in Responses(i)
  /\ IF holds[i] THEN Lease!Return(borrows[i], i) ELSE UNCHANGED cellVars
  /\ CASE r = "key"   -> Continue(t, "install")
       [] r = "match" -> Yields(t, "ok", "dropLease")
       [] OTHER       -> Yields(t, "device", "dropLease")
  /\ UNCHANGED <<engine, phase, borrows, holds, cmd, lock, key>>

(* `&mut *encryption.engine.get_leased()` through the lease still held. *)
Install(t) ==
  /\ pc[t] = "install"
  /\ Lease!Borrow(borrows[at[t]], t)
  /\ Continue(t, "ready")
  /\ UNCHANGED <<engine, phase, borrows, holds, cmd, lock, key>>

(* engine.ready(key), which may refuse; the reference ends here, the lease *)
(* is dropped next on either path.  "keyed" is the TaskDone end makes up.  *)
Ready(t) ==
  LET c == borrows[at[t]] IN
  /\ pc[t] = "ready"
  /\ Lease!Return(c, t)
  /\ \/ engine' = [engine EXCEPT ![c] = key[at[t]]] /\ Yields(t, "keyed", "dropLease")
     \/ UNCHANGED engine /\ Yields(t, "device", "dropLease")
  /\ UNCHANGED <<phase, borrows, holds, cmd, lock, key>>

-----------------------------------------------------------------------------
(* The foreign side lets go of the last reference to the object.  No call  *)
(* on it is in flight then: each call keeps an Arc of its own.  What the   *)
(* Option still holds is dropped, nothing when it is None.                 *)
Free(t, i) ==
  /\ Reachable(i)
  /\ \A u \in Threads : at[u] # i
  /\ Enter(t, "free", i, "dropInner")
  /\ SetPhase(i, "gone")
  /\ UNCHANGED <<cellVars, engine, borrows, holds, cmd, lock, key>>

-----------------------------------------------------------------------------
(* NoiseHandle::export, which is Leased::with around a copy of the data. *)

Export(t, c) ==
  /\ Enter(t, "export", c, "expAcquire")
  /\ UNCHANGED <<cellVars, engine, phase, borrows, holds, cmd, lock, key>>

ExportAcquires(t) ==
  /\ pc[t] = "expAcquire"
  /\ Lease!Acquire(at[t])
  /\ Continue(t, "expBorrow")
  /\ UNCHANGED <<engine, phase, borrows, holds, cmd, lock, key>>

ExportRefused(t) ==
  /\ pc[t] = "expAcquire"
  /\ Lease!Refused(at[t])
  /\ Leave(t)
  /\ UNCHANGED <<engine, phase, borrows, holds, cmd, lock, key>>

ExportBorrows(t) ==
  /\ pc[t] = "expBorrow"
  /\ Lease!Borrow(at[t], t)
  /\ Continue(t, "expRead")
  /\ UNCHANGED <<engine, phase, borrows, holds, cmd, lock, key>>

ExportReads(t) ==
  /\ pc[t] = "expRead"
  /\ Lease!Return(at[t], t)
  /\ Continue(t, "expRelease")
  /\ UNCHANGED <<engine, phase, borrows, holds, cmd, lock, key>>

ExportReleases(t) ==
  /\ pc[t] = "expRelease"
  /\ Lease!Release(at[t])
  /\ Leave(t)
  /\ UNCHANGED <<engine, phase, borrows, holds, cmd, lock, key>>

-----------------------------------------------------------------------------
(* What a thread does on its own initiative, and what it does once inside. *)
Enters(t) ==
  \/ \E i \in Interps, c \in Cells : NewBorrowing(t, i, c)
  \/ \E i \in Interps : NewOwned(t, i)
  \/ \E i \in Interps, o \in {"start", "exchange", "end"} : Call(t, i, o)
  \/ \E i \in Interps : Free(t, i)
  \/ \E c \in NoiseCells : Export(t, c)

Proceeds(t) ==
  \/ NewAcquires(t) \/ NewRefused(t) \/ Build(t)
  \/ Misuse(t) \/ PreflightFails(t)
  \/ \E k \in {"unlock", "other"} : StartCommits(t, k)
  \/ ExchangeCommits(t)
  \/ CoreTransmits(t) \/ CoreFinishes(t) \/ ProtocolFails(t)
  \/ EndTakes(t)
  \/ \E r \in {"key", "match", "mismatch", "error"} : EndInner(t, r)
  \/ Install(t) \/ Ready(t)
  \/ DropInner(t) \/ DropLease(t) \/ Unlock(t)
  \/ ExportAcquires(t) \/ ExportRefused(t) \/ ExportBorrows(t)
  \/ ExportReads(t) \/ ExportReleases(t)

Next == \E t \in Threads : Enters(t) \/ Lock(t) \/ Proceeds(t)

Spec == Init /\ [][Next]_vars

(* A thread inside the library keeps running: no step but the mutex waits. *)
FairSpec == Spec /\ \A t \in Threads : WF_vars(Proceeds(t))

-----------------------------------------------------------------------------
(***************************************************************************)
(* Properties.                                                             *)
(***************************************************************************)

(* At most one `&mut` into a NoiseState or an Engine exists at any time,   *)
(* and none survives the lease it was made under: what the SAFETY comments *)
(* of new_bitbox, new_coldcard, StateLease::drop and end argue from the    *)
(* lease, the mutex and the order in which Session's fields are dropped.   *)
NoAliasing == Lease!NoAliasing

(* The parties entitled to a cell: an interpreter whose StateLease lives,  *)
(* a thread inside Leased::with.                                           *)
Owners(c) ==
  {i \in Interps : holds[i] /\ borrows[i] = c}
    \cup {t \in Threads : pc[t] \in {"expBorrow", "expRead", "expRelease"} /\ at[t] = c}

(* The flag is set exactly while one party is entitled to the cell: a lease *)
(* is never taken twice, never released under its owner by somebody else,   *)
(* and never left set when its owner is gone, which would make the handle   *)
(* "permanently unavailable" (state.rs:31).                                 *)
LeaseHasOneOwner ==
  \A c \in Cells :
    /\ leased[c] <=> Owners(c) # {}
    /\ \A x, y \in Owners(c) : x = y

(* A thread that is inside the core interpreter works on a live session:   *)
(* no concurrent start, exchange, end or drop has consumed or retired it,  *)
(* its reference is alive and no other thread is inside the same core.     *)
CoreHasSession ==
  \A t \in Threads : pc[t] = "core" =>
    /\ phase[at[t]] = "running"
    /\ borrows[at[t]] \in Cells => at[t] \in refs[borrows[at[t]]]
    /\ \A u \in Threads : pc[u] = "core" /\ at[u] = at[t] => u = t

(* What a call reports agrees with what it leaves behind when it returns:  *)
(* a protocol failure has retired the session and freed the lease, a       *)
(* preflight error leaves it as it was, still startable, a result leaves   *)
(* it running or finished, and a result of end leaves it consumed.         *)
SessionFate ==
  \A t \in Threads : pc[t] = "unlock" =>
    LET i == at[t] IN
    /\ out[t] = "device"  => phase[i] = "gone" /\ ~holds[i]
    /\ out[t] = "invalid" => phase[i] = "fresh" /\ (borrows[i] \in Cells => holds[i])
    /\ out[t] = "ok" /\ op[t] = "start" => phase[i] = "running"
    /\ out[t] = "ok" /\ op[t] = "exchange" => phase[i] \in {"running", "finished"}
    /\ op[t] = "end" => phase[i] = "gone" /\ ~holds[i]

(* The key that end() is about to install, and the one it has installed    *)
(* when it gives the lease back with its TaskDone, is the key the device   *)
(* uses: "no other interpreter can slip in between the release and the     *)
(* install" (interp.rs:460) and have the device make another, which the    *)
(* engine would lose.                                                      *)
KeyIsCurrent ==
  \A t \in Threads :
    /\ pc[t] \in {"install", "ready"} => key[at[t]] = "current"
    /\ pc[t] = "dropLease" /\ out[t] = "keyed" => engine[borrows[at[t]]] = "current"

(* A session that was consumed, retired or freed gives its lease back. *)
GoneReleasesLease == \A i \in Interps : phase[i] = "gone" /\ holds[i] ~> ~holds[i]

(* The interpreters and handles implement the exclusive lease of the       *)
(* abstract specification.                                                 *)
OwnerOf(c) == IF leased[c] THEN CHOOSE h \in Owners(c) : TRUE ELSE Nobody

Exclusive == INSTANCE ExclusiveLease
  WITH Holders <- Threads \cup Interps, None <- Nobody,
       owner <- [c \in Cells |-> OwnerOf(c)], borrower <- refs

ImplementsExclusiveLease == Exclusive!Spec
=============================================================================
