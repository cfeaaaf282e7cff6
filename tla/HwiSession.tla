----------------------------- MODULE HwiSession -----------------------------
(***************************************************************************)
(* The session facade, HwiSession.kt, with the parts of Hwi.runCommand     *)
(* that touch what the session shares.  Tasks (coroutines on Dispatchers.IO *)
(* and worker threads) run commands, export the BitBox pairing, configure  *)
(* the passphrase and disconnect, concurrently.  They meet at              *)
(*                                                                         *)
(*   mutex     the coroutine mutex that serialises commands,               *)
(*   monitor   the object's JVM monitor (@Synchronized),                   *)
(*   closed    the AtomicBoolean read outside the monitor as well,         *)
(*   wrapper   the generated object of the native handle (NoiseHandle or   *)
(*             ColdcardEncryption): method calls count themselves and      *)
(*             refuse a destroyed object, while lowering it as a           *)
(*             constructor's argument clones the native pointer unchecked. *)
(*                                                                         *)
(* The native lease is that of Interp, seen as its owner.  The transport   *)
(* may answer, fail or never answer.                                       *)
(***************************************************************************)
CONSTANTS Tasks,     \* coroutines and threads that use the session
          Handles,   \* HostPassphraseHandle objects of the caller
          Families,  \* kinds of session: "bitbox", "coldcard", "pin", "owned"
          Nobody, NoHandle, Wrapper

ASSUME SessionAssumption ==
  /\ Families \subseteq {"bitbox", "coldcard", "pin", "owned"}
  /\ Nobody \notin Tasks /\ Wrapper \notin Tasks /\ NoHandle \notin Handles

VARIABLES family,      \* which factory built the session
          closed, monitor, mutex,
          wrapper,     \* "open", or "destroyed" once close() was called
          inflight,    \* tasks inside a generated method call on the wrapper
          arcs,        \* who keeps the native handle alive
          lease,       \* who leases the native state
          interp,      \* tasks that own a live Interp
          mode,        \* the passphrase each Interp was built with
          passphrase, configured,
          adopted,     \* handles that were ever configured
          cleared,     \* handles whose native secret is gone
          cancelled,   \* tasks whose Job is cancelled
          pc, cmd, arg, result

locks    == <<closed, monitor, mutex>>
native   == <<wrapper, inflight, arcs, lease, interp, mode>>
secrets  == <<passphrase, configured, adopted, cleared>>
taskVars == <<pc, cmd, arg, result, cancelled>>
vars == <<family, closed, monitor, mutex, wrapper, inflight, arcs, lease, interp,
          mode, passphrase, configured, adopted, cleared, cancelled, pc, cmd,
          arg, result>>

HasHandle == family \in {"bitbox", "coldcard"}

RunPlaces == {"runLock", "runCheck", "runEnter", "create", "lower", "start",
              "deliver", "exchange", "code", "taking", "end", "close"}
PairPlaces == {"pairLock", "pairCheck", "export", "exporting"}
CfgPlaces  == {"cfgEnter", "cfgTry", "cfgCheck", "cfgClear", "cfgSet",
               "cfgUnlock", "cfgLeave"}
DisPlaces  == {"disEnter", "disFlag", "disClose", "disClear"}

TypeOK ==
  /\ family \in Families
  /\ closed \in BOOLEAN
  /\ monitor \in Tasks \cup {Nobody}
  /\ mutex \in Tasks \cup {Nobody}
  /\ wrapper \in {"open", "destroyed"}
  /\ inflight \subseteq Tasks
  /\ arcs \subseteq Tasks \cup {Wrapper}
  /\ lease \in Tasks \cup {Nobody}
  /\ interp \subseteq Tasks
  /\ mode \in [Tasks -> Handles \cup {NoHandle}]
  /\ passphrase \in Handles \cup {NoHandle}
  /\ configured \in BOOLEAN
  /\ adopted \subseteq Handles /\ cleared \subseteq Handles
  /\ cancelled \subseteq Tasks
  /\ pc \in [Tasks -> {"idle", "unlock"} \cup RunPlaces \cup PairPlaces
                        \cup CfgPlaces \cup DisPlaces]
  /\ cmd \in [Tasks -> {"none", "account", "basic"}]
  /\ arg \in [Tasks -> Handles \cup {NoHandle}]
  /\ result \in [Tasks -> {"none", "ok", "hwi", "badstate", "transport",
                           "cancelled", "illegalstate"}]

Init ==
  /\ family \in Families
  /\ closed = FALSE /\ monitor = Nobody /\ mutex = Nobody
  /\ wrapper = "open" /\ inflight = {}
  /\ arcs = IF HasHandle THEN {Wrapper} ELSE {}
  /\ lease = Nobody /\ interp = {}
  /\ mode = [p \in Tasks |-> NoHandle]
  /\ passphrase = NoHandle /\ configured = FALSE
  /\ adopted = {} /\ cleared = {}
  /\ cancelled = {}
  /\ pc = [p \in Tasks |-> "idle"]
  /\ cmd = [p \in Tasks |-> "none"]
  /\ arg = [p \in Tasks |-> NoHandle]
  /\ result = [p \in Tasks |-> "none"]

-----------------------------------------------------------------------------
(* Moves of a task. *)

Goto(p, place) ==
  /\ pc' = [pc EXCEPT ![p] = place]
  /\ UNCHANGED <<cmd, arg, result, cancelled>>

(* The operation returns or throws r: it unwinds through `place` first. *)
Unwind(p, r, place) ==
  /\ pc' = [pc EXCEPT ![p] = place]
  /\ result' = [result EXCEPT ![p] = r]
  /\ UNCHANGED <<cmd, arg, cancelled>>

(* Back to the caller: what was local to the operation is gone. *)
Done(p) ==
  /\ pc' = [pc EXCEPT ![p] = "idle"]
  /\ cmd' = [cmd EXCEPT ![p] = "none"]
  /\ arg' = [arg EXCEPT ![p] = NoHandle]
  /\ result' = [result EXCEPT ![p] = "none"]
  /\ cancelled' = cancelled \ {p}

(* The Job of a suspend operation is cancelled, at any moment. *)
Cancel(p) ==
  /\ pc[p] \in RunPlaces \cup PairPlaces
  /\ p \notin cancelled
  /\ cancelled' = cancelled \cup {p}
  /\ UNCHANGED <<family, locks, native, secrets, pc, cmd, arg, result>>

-----------------------------------------------------------------------------
(* lock.withLock { } of run and bitboxPairing. *)

RunBegins(p, k) ==
  /\ pc[p] = "idle"
  /\ pc' = [pc EXCEPT ![p] = "runLock"]
  /\ cmd' = [cmd EXCEPT ![p] = k]
  /\ UNCHANGED <<family, locks, native, secrets, arg, result, cancelled>>

PairingBegins(p) ==
  /\ pc[p] = "idle"
  /\ Goto(p, "pairLock")
  /\ UNCHANGED <<family, locks, native, secrets>>

Locks(p) ==
  /\ pc[p] \in {"runLock", "pairLock"}
  /\ mutex = Nobody
  /\ mutex' = p
  /\ Goto(p, IF pc[p] = "runLock" THEN "runCheck" ELSE "pairCheck")
  /\ UNCHANGED <<family, closed, monitor, native, secrets>>

(* Waiting for the mutex is cancellable; nothing is held. *)
CancelledWaiting(p) ==
  /\ pc[p] \in {"runLock", "pairLock"}
  /\ p \in cancelled
  /\ Done(p)
  /\ UNCHANGED <<family, locks, native, secrets>>

Unlocks(p) ==
  /\ pc[p] = "unlock"
  /\ mutex' = Nobody
  /\ Done(p)
  /\ UNCHANGED <<family, closed, monitor, native, secrets>>

-----------------------------------------------------------------------------
(* run: ensureActive, requireOpen, then createInterp under the monitor. *)

RunChecks(p) ==
  /\ pc[p] = "runCheck"
  /\ IF p \in cancelled THEN Unwind(p, "cancelled", "unlock")
     ELSE IF closed THEN Unwind(p, "badstate", "unlock")
     ELSE Goto(p, "runEnter")
  /\ UNCHANGED <<family, locks, native, secrets>>

RunEnters(p) ==
  /\ pc[p] = "runEnter"
  /\ monitor = Nobody
  /\ monitor' = p
  /\ Goto(p, "create")
  /\ UNCHANGED <<family, closed, mutex, native, secrets>>

(* Mutant of MustRefuse: no second requireOpen under the monitor. *)
MustRefuseUnconfigured(p) == family = "pin" /\ ~configured /\ cmd[p] = "account"

(* createInterp refuses: the session closed since, or the passphrase       *)
(* question is unanswered.                                                 *)
MustRefuse(p) ==
  \/ closed
  \/ family = "pin" /\ ~configured /\ cmd[p] = "account"

CreateRefuses(p) ==
  /\ pc[p] = "create"
  /\ MustRefuse(p)
  /\ monitor' = Nobody
  /\ Unwind(p, "badstate", "unlock")
  /\ UNCHANGED <<family, closed, mutex, native, secrets>>

CreateProceeds(p) ==
  /\ pc[p] = "create"
  /\ ~MustRefuse(p)
  /\ Goto(p, "lower")
  /\ UNCHANGED <<family, locks, native, secrets>>

(* HostPassphraseHandle: clear drops the secret, validate and the clone a  *)
(* constructor makes fail once it is gone.  `passphrase?.clear()` is       *)
(* nothing when there is no handle.                                        *)
ClearSecret(h) == cleared' = cleared \cup ({h} \ {NoHandle})
Validates(h)   == h \notin cleared
CloneFails(h)  == h \in cleared

(* The generated constructor: lowering clones the native pointer without   *)
(* asking the wrapper, then the native side leases or clones the secret.   *)
(* LeaseFreeUnderMutex says that it is never refused for the lease.        *)
ConstructorFails ==
  \/ HasHandle /\ lease # Nobody
  \/ family = "pin" /\ CloneFails(passphrase)

Constructs(p) ==
  /\ pc[p] = "lower"
  /\ IF ConstructorFails
     THEN Unwind(p, "badstate", "unlock") /\ UNCHANGED native
     ELSE /\ interp' = interp \cup {p}
          /\ mode' = [mode EXCEPT ![p] = passphrase]
          /\ IF HasHandle THEN arcs' = arcs \cup {p} /\ lease' = p
                          ELSE UNCHANGED <<arcs, lease>>
          /\ Goto(p, "start")
          /\ UNCHANGED <<wrapper, inflight>>
  /\ monitor' = Nobody
  /\ UNCHANGED <<family, closed, mutex, secrets>>

-----------------------------------------------------------------------------
(* Hwi.runCommand: `interp.use { }` around the loop.  Each operation is    *)
(* preceded by ensureActive.                                               *)

Loop == {"start", "deliver", "exchange", "code", "end"}

(* Mutant of Stops: cancellation bypasses `interp.use`. *)
StopsUnclosed(p) ==
  /\ pc[p] \in Loop
  /\ p \in cancelled
  /\ Unwind(p, "cancelled", "unlock")
  /\ UNCHANGED <<family, locks, native, secrets>>

(* ensureActive throws, or the suspended transport call is cancelled. *)
Stops(p) ==
  /\ pc[p] \in Loop
  /\ p \in cancelled
  /\ Unwind(p, "cancelled", "close")
  /\ UNCHANGED <<family, locks, native, secrets>>

(* start, exchange or the link fails, each with its own kind of exception. *)
Fails(p) ==
  /\ \/ pc[p] \in {"start", "exchange"} /\ p \notin cancelled /\ Unwind(p, "hwi", "close")
     \/ pc[p] = "deliver" /\ Unwind(p, "transport", "close")
  /\ UNCHANGED <<family, locks, native, secrets>>

(* start -> deliver -> exchange -> code. *)
Advances(p) ==
  /\ \/ pc[p] = "start" /\ p \notin cancelled /\ Goto(p, "deliver")
     \/ pc[p] = "exchange" /\ p \notin cancelled /\ Goto(p, "code")
  /\ UNCHANGED <<family, locks, native, secrets>>

(* The transport answers.  Nothing says that it must. *)
Answers(p) ==
  /\ pc[p] = "deliver"
  /\ Goto(p, "exchange")
  /\ UNCHANGED <<family, locks, native, secrets>>

(* noise.takePairingCode(), a guarded method call, on BitBox sessions.     *)
(* The generated wrapper throws IllegalStateException once destroyed; run  *)
(* turns that into BadState when the session is closed.                    *)
CallsWrapper(p, place) ==
  /\ wrapper = "open"
  /\ inflight' = inflight \cup {p}
  /\ Goto(p, place)
  /\ UNCHANGED <<family, locks, secrets, wrapper, arcs, lease, interp, mode>>

(* The end of a method call; the last one out frees a destroyed object. *)
WrapperReturns(p) ==
  /\ inflight' = inflight \ {p}
  /\ arcs' = IF wrapper = "destroyed" /\ inflight = {p} THEN arcs \ {Wrapper} ELSE arcs
  /\ UNCHANGED <<wrapper, lease, interp, mode>>

TakesCode(p) ==
  /\ pc[p] = "code" /\ p \notin cancelled /\ family = "bitbox"
  /\ CallsWrapper(p, "taking")

TakesCodeDestroyed(p) ==
  /\ pc[p] = "code" /\ p \notin cancelled /\ family = "bitbox"
  /\ wrapper = "destroyed"
  /\ Unwind(p, IF closed THEN "badstate" ELSE "illegalstate", "close")
  /\ UNCHANGED <<family, locks, native, secrets>>

(* The loop goes on with the next payload or breaks. *)
TookCode(p) ==
  /\ pc[p] = "taking"
  /\ WrapperReturns(p)
  /\ \E place \in {"deliver", "end"} : Goto(p, place)
  /\ UNCHANGED <<family, locks, secrets>>

NoPairing(p) ==
  /\ pc[p] = "code" /\ p \notin cancelled /\ family # "bitbox"
  /\ \E place \in {"deliver", "end"} : Goto(p, place)
  /\ UNCHANGED <<family, locks, native, secrets>>

(* interp.end() consumes the native session and with it the lease. *)
Ends(p) ==
  /\ pc[p] = "end" /\ p \notin cancelled
  /\ lease' = IF lease = p THEN Nobody ELSE lease
  /\ \E r \in {"ok", "hwi"} : Unwind(p, r, "close")
  /\ UNCHANGED <<family, locks, secrets, wrapper, inflight, arcs, interp, mode>>

(* Mutant of Closes: the native object is left to the garbage collector. *)
ClosesLater(p) ==
  /\ pc[p] = "close"
  /\ Goto(p, "unlock")
  /\ UNCHANGED <<family, locks, native, secrets>>

(* interp.use closes the Interp on every path: the native object goes, the *)
(* lease with it, and its share of the handle.                             *)
Closes(p) ==
  /\ pc[p] = "close"
  /\ interp' = interp \ {p}
  /\ arcs' = arcs \ {p}
  /\ lease' = IF lease = p THEN Nobody ELSE lease
  /\ mode' = [mode EXCEPT ![p] = NoHandle]
  /\ Goto(p, "unlock")
  /\ UNCHANGED <<family, locks, secrets, wrapper, inflight>>

-----------------------------------------------------------------------------
(* bitboxPairing. *)

PairingChecks(p) ==
  /\ pc[p] = "pairCheck"
  /\ IF p \in cancelled THEN Unwind(p, "cancelled", "unlock")
     ELSE IF closed \/ family # "bitbox" THEN Unwind(p, "badstate", "unlock")
     ELSE Goto(p, "export")
  /\ UNCHANGED <<family, locks, native, secrets>>

Exports(p) ==
  /\ pc[p] = "export"
  /\ CallsWrapper(p, "exporting")

(* No handler here: the generated wrapper's exception goes to the caller. *)
ExportsDestroyed(p) ==
  /\ pc[p] = "export"
  /\ wrapper = "destroyed"
  /\ Unwind(p, "illegalstate", "unlock")
  /\ UNCHANGED <<family, locks, native, secrets>>

(* NoiseHandle::export refuses while an interpreter leases the state. *)
Exported(p) ==
  /\ pc[p] = "exporting"
  /\ WrapperReturns(p)
  /\ Unwind(p, IF lease = Nobody THEN "ok" ELSE "badstate", "unlock")
  /\ UNCHANGED <<family, locks, secrets>>

-----------------------------------------------------------------------------
(* configurePassphrase, under the monitor; it tries the mutex. *)

ConfigureBegins(p, h) ==
  /\ pc[p] = "idle"
  /\ pc' = [pc EXCEPT ![p] = "cfgEnter"]
  /\ arg' = [arg EXCEPT ![p] = h]
  /\ UNCHANGED <<family, locks, native, secrets, cmd, result, cancelled>>

ConfigureEnters(p) ==
  /\ pc[p] = "cfgEnter"
  /\ monitor = Nobody
  /\ monitor' = p
  /\ Goto(p, "cfgTry")
  /\ UNCHANGED <<family, closed, mutex, native, secrets>>

(* Mutant of TriesMutex: the outcome of tryLock is ignored. *)
TriesMutexIgnoring(p) ==
  /\ pc[p] = "cfgTry"
  /\ mutex' = IF mutex = Nobody THEN p ELSE mutex
  /\ Goto(p, "cfgCheck")
  /\ UNCHANGED <<family, closed, monitor, native, secrets>>

(* Mutant of TriesMutex: lock where tryLock is needed. *)
TriesMutexWaiting(p) ==
  /\ pc[p] = "cfgTry"
  /\ mutex = Nobody
  /\ mutex' = p
  /\ Goto(p, "cfgCheck")
  /\ UNCHANGED <<family, closed, monitor, native, secrets>>

(* tryLock: a running command makes it fail, it never waits. *)
TriesMutex(p) ==
  /\ pc[p] = "cfgTry"
  /\ IF mutex = Nobody THEN mutex' = p /\ Goto(p, "cfgCheck")
                       ELSE UNCHANGED mutex /\ Goto(p, "cfgLeave")
  /\ UNCHANGED <<family, closed, monitor, native, secrets>>

(* Closed, another family, an invalid combination of choices, or a handle  *)
(* whose validate() fails: the configuration stays as it was.              *)
ConfigureRefuses(p) ==
  /\ pc[p] = "cfgCheck"
  /\ Goto(p, "cfgUnlock")
  /\ UNCHANGED <<family, locks, native, secrets>>

(* Mutant of ConfigureAccepts: the replaced handle is not cleared. *)
ConfigureAcceptsUncleared(p) ==
  /\ pc[p] = "cfgCheck"
  /\ ~closed /\ family = "pin" /\ Validates(arg[p])
  /\ Goto(p, "cfgSet")
  /\ UNCHANGED <<family, locks, native, secrets>>

ConfigureAccepts(p) ==
  /\ pc[p] = "cfgCheck"
  /\ ~closed /\ family = "pin" /\ Validates(arg[p])
  /\ Goto(p, IF passphrase # arg[p] /\ passphrase # NoHandle THEN "cfgClear" ELSE "cfgSet")
  /\ UNCHANGED <<family, locks, native, secrets>>

(* The replaced handle is cleared before the field changes. *)
ClearsReplaced(p) ==
  /\ pc[p] = "cfgClear"
  /\ ClearSecret(passphrase)
  /\ Goto(p, "cfgSet")
  /\ UNCHANGED <<family, locks, native, passphrase, configured, adopted>>

SetsPassphrase(p) ==
  /\ pc[p] = "cfgSet"
  /\ passphrase' = arg[p]
  /\ configured' = TRUE
  /\ adopted' = adopted \cup ({arg[p]} \ {NoHandle})
  /\ Goto(p, "cfgUnlock")
  /\ UNCHANGED <<family, locks, native, cleared>>

ConfigureUnlocks(p) ==
  /\ pc[p] = "cfgUnlock"
  /\ mutex' = Nobody
  /\ Goto(p, "cfgLeave")
  /\ UNCHANGED <<family, closed, monitor, native, secrets>>

ConfigureLeaves(p) ==
  /\ pc[p] = "cfgLeave"
  /\ monitor' = Nobody
  /\ Done(p)
  /\ UNCHANGED <<family, closed, mutex, native, secrets>>

-----------------------------------------------------------------------------
(* disconnect, under the monitor and outside the command mutex. *)

DisconnectBegins(p) ==
  /\ pc[p] = "idle"
  /\ Goto(p, "disEnter")
  /\ UNCHANGED <<family, locks, native, secrets>>

(* Mutant of DisconnectEnters: the wrapper is closed, the flag not yet set. *)
DisconnectEntersUnflagged(p) ==
  /\ pc[p] = "disEnter"
  /\ monitor = Nobody
  /\ monitor' = p
  /\ Goto(p, "disClose")
  /\ UNCHANGED <<family, closed, mutex, native, secrets>>

DisconnectEnters(p) ==
  /\ pc[p] = "disEnter"
  /\ monitor = Nobody
  /\ monitor' = p
  /\ Goto(p, "disFlag")
  /\ UNCHANGED <<family, closed, mutex, native, secrets>>

(* closed.compareAndSet(false, true): the second call does nothing. *)
DisconnectFlags(p) ==
  /\ pc[p] = "disFlag" /\ ~closed
  /\ closed' = TRUE
  /\ Goto(p, "disClose")
  /\ UNCHANGED <<family, monitor, mutex, native, secrets>>

DisconnectAgain(p) ==
  /\ pc[p] = "disFlag" /\ closed
  /\ monitor' = Nobody
  /\ Done(p)
  /\ UNCHANGED <<family, closed, mutex, native, secrets>>

(* noise?.close(), coldcard?.close(): the wrapper lets go of the native    *)
(* object now, or when the last method call in progress returns.           *)
ClosesWrapper(p) ==
  /\ pc[p] = "disClose"
  /\ wrapper' = "destroyed"
  /\ arcs' = IF inflight = {} THEN arcs \ {Wrapper} ELSE arcs
  /\ Goto(p, "disClear")
  /\ UNCHANGED <<family, locks, secrets, inflight, lease, interp, mode>>

(* passphrase?.clear(); passphrase = null. *)
ClearsPassphrase(p) ==
  /\ pc[p] = "disClear"
  /\ ClearSecret(passphrase)
  /\ passphrase' = NoHandle
  /\ monitor' = Nobody
  /\ Done(p)
  /\ UNCHANGED <<family, closed, mutex, native, configured, adopted>>

-----------------------------------------------------------------------------
Begins(p) ==
  \/ \E k \in {"account", "basic"} : RunBegins(p, k)
  \/ PairingBegins(p)
  \/ \E h \in Handles \cup {NoHandle} : ConfigureBegins(p, h)
  \/ DisconnectBegins(p)

(* Steps that wait for a lock. *)
Waits(p) == Locks(p) \/ RunEnters(p) \/ ConfigureEnters(p) \/ DisconnectEnters(p)

(* Steps the code takes by itself. *)
Proceeds(p) ==
  \/ CancelledWaiting(p) \/ Unlocks(p)
  \/ RunChecks(p) \/ CreateRefuses(p) \/ CreateProceeds(p)
  \/ Constructs(p)
  \/ Stops(p) \/ Advances(p)
  \/ TakesCode(p) \/ TakesCodeDestroyed(p) \/ TookCode(p) \/ NoPairing(p)
  \/ Ends(p) \/ Closes(p)
  \/ PairingChecks(p) \/ Exports(p) \/ ExportsDestroyed(p) \/ Exported(p)
  \/ TriesMutex(p) \/ ConfigureRefuses(p) \/ ConfigureAccepts(p)
  \/ ClearsReplaced(p) \/ SetsPassphrase(p) \/ ConfigureUnlocks(p) \/ ConfigureLeaves(p)
  \/ DisconnectFlags(p) \/ DisconnectAgain(p) \/ ClosesWrapper(p) \/ ClearsPassphrase(p)

Next ==
  \E p \in Tasks : Begins(p) \/ Cancel(p) \/ Waits(p) \/ Proceeds(p) \/ Fails(p) \/ Answers(p)

Spec == Init /\ [][Next]_vars

(* A task that need not wait keeps running; the transport, the locks and   *)
(* the callers are owed nothing.                                           *)
FairSpec == Spec /\ \A p \in Tasks : WF_vars(Proceeds(p))

-----------------------------------------------------------------------------
(***************************************************************************)
(* Properties.                                                             *)
(***************************************************************************)

(* No constructor lowers a handle whose native object may be gone: lowering *)
(* is not guarded by the generated wrapper (HwiSession.kt:75), so only the  *)
(* second requireOpen under the monitor stands between disconnect and a     *)
(* use after free.  Every Interp and every method call keeps the native     *)
(* object alive, and after a disconnect the last of them lets it go.        *)
NoUseAfterFree ==
  HasHandle =>
    /\ \A p \in Tasks : pc[p] = "lower" => Wrapper \in arcs
    /\ interp \subseteq arcs
    /\ inflight # {} => Wrapper \in arcs
    /\ wrapper = "destroyed" /\ interp = {} /\ inflight = {} => arcs = {}

(* The command mutex is what keeps a command from leasing the state while  *)
(* another one holds it (HwiSession.kt:28): a constructor never finds the   *)
(* lease taken, nor does an export, because every path of a command gives   *)
(* it back before the mutex is released.                                   *)
LeaseFreeUnderMutex ==
  /\ \A p \in Tasks : pc[p] \in {"lower", "exporting"} => lease = Nobody
  /\ lease # Nobody => mutex = lease

(* The session as its callers and its link see it: commands one at a time, *)
(* begun only while it is open, each with one passphrase choice and the    *)
(* link to itself until its Interp is closed, however configuring and      *)
(* disconnecting interleave (HwiSession.kt:24-29).  A configuration        *)
(* that takes effect under a command, an account command that does not     *)
(* wait for one, a command begun behind a disconnect or one that leaves    *)
(* its exchange behind is no step of OneCommand.                           *)
Running ==
  {[task |-> p, choice |-> mode[p], account |-> family = "pin" /\ cmd[p] = "account"] :
     p \in interp}
Talking == {p \in Tasks : pc[p] = "deliver"}

Serial == INSTANCE OneCommand WITH
  Choices <- Handles \cup {NoHandle}, NoChoice <- NoHandle,
  open <- ~closed, choice <- passphrase, asked <- configured, running <- Running, talking <- Talking

ImplementsOneCommand == Serial!Spec

(* A command that races disconnect ends with the typed post-disconnect     *)
(* error and never with the wrapper's IllegalStateException                *)
(* (HwiSession.kt:204): the flag is set before any wrapper is closed.      *)
CommandErrorsTyped ==
  \A p \in Tasks : cmd[p] # "none" => result[p] # "illegalstate"

(* What class HwiSession documents for all its operations: errors are      *)
(* HwiException, TransportException or cancellation (HwiSession.kt:34).    *)
AllErrorsTyped == \A p \in Tasks : result[p] # "illegalstate"

(* The passphrase choice cannot change under a command: an Interp runs     *)
(* with the choice the session shows as long as the session is open, and   *)
(* an account command runs only after the question was answered.           *)
ChoiceStable ==
  family = "pin" => \A p \in interp :
    /\ ~closed => mode[p] = passphrase
    /\ cmd[p] = "account" => configured

(* Every handle the session ever adopted is the current one or is cleared, *)
(* the current one is usable except while it is being replaced, and once   *)
(* disconnect has returned no secret is left, however configure, commands  *)
(* and disconnect interleave.                                              *)
SecretsCleared ==
  /\ adopted \subseteq cleared \cup {passphrase}
  /\ passphrase \in cleared => \E p \in Tasks : pc[p] = "cfgSet" /\ monitor = p
  /\ closed /\ monitor = Nobody => adopted \subseteq cleared

(* Whoever holds the monitor leaves it without waiting for the command     *)
(* mutex or the device: disconnect does not hang behind a stalled command, *)
(* and a command waiting in createInterp with the mutex cannot deadlock    *)
(* with configurePassphrase, which takes the two the other way round.      *)
MonitorIsBrief == \A p \in Tasks : monitor = p ~> monitor # p

(* A command stalled in its transport can be cancelled, and then frees the *)
(* mutex, the lease and its Interp for the next one.                       *)
StalledCanBeCancelled ==
  \A p \in Tasks :
    pc[p] = "deliver" /\ p \in cancelled ~> mutex # p /\ lease # p /\ p \notin interp
=============================================================================
