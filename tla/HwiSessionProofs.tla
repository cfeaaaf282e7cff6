-------------------------- MODULE HwiSessionProofs --------------------------
(***************************************************************************)
(* Proofs about HwiSession for any number of tasks and passphrase handles:  *)
(* who holds the monitor and the command mutex, that the native object is  *)
(* alive when a constructor lowers it, that the lease follows the mutex,   *)
(* which errors a command may end with, and what becomes of the secrets.   *)
(***************************************************************************)
EXTENDS HwiSession, TLAPS

USE SessionAssumption

-----------------------------------------------------------------------------
(* The inductive invariant. *)

UnderMonitor == {"create", "lower", "cfgTry", "cfgCheck", "cfgClear", "cfgSet",
                 "cfgUnlock", "cfgLeave", "disFlag", "disClose", "disClear"}
Owning       == {"start", "deliver", "exchange", "code", "taking", "end", "close"}
UnderMutex   == Owning \cup {"runCheck", "runEnter", "create", "lower", "unlock",
                             "pairCheck", "export", "exporting",
                             "cfgCheck", "cfgClear", "cfgSet", "cfgUnlock"}

(* Whoever is between an acquisition and its release holds the lock. *)
Holders ==
  \A p \in Tasks :
    /\ monitor = p <=> pc[p] \in UnderMonitor
    /\ mutex = p <=> pc[p] \in UnderMutex

(* Who keeps the native object alive, and when its wrapper is gone. *)
Alive ==
  /\ \A p \in Tasks : p \in interp <=> pc[p] \in Owning
  /\ \A p \in Tasks : p \in inflight <=> pc[p] \in {"taking", "exporting"}
  /\ lease # Nobody => lease \in interp
  /\ HasHandle =>
       arcs = interp \cup (IF wrapper = "open" \/ inflight # {} THEN {Wrapper} ELSE {})
  /\ wrapper = "destroyed" => closed
  /\ \A p \in Tasks : pc[p] \in {"disClose", "disClear"} => closed
  /\ \A p \in Tasks : pc[p] \in {"lower", "cfgClear", "cfgSet"} => ~closed

(* The errors of a task are those of the operation it runs. *)
Typed ==
  \A p \in Tasks :
    /\ cmd[p] # "none" => pc[p] \in RunPlaces \cup {"unlock"} /\ result[p] # "illegalstate"
    /\ pc[p] = "idle" => cmd[p] = "none" /\ result[p] = "none"

(* The choice of a command, from the check under the monitor on. *)
Choice ==
  family = "pin" =>
    /\ \A p \in Tasks : pc[p] = "lower" /\ cmd[p] = "account" => configured
    /\ \A p \in interp : /\ ~closed => mode[p] = passphrase
                         /\ cmd[p] = "account" => configured

(* The secrets while configurePassphrase and disconnect are at work. *)
Secrets ==
  /\ adopted \subseteq cleared \cup {passphrase}
  /\ passphrase \in cleared => \E p \in Tasks : pc[p] = "cfgSet"
  /\ closed => adopted \subseteq cleared \/ \E p \in Tasks : pc[p] \in {"disClose", "disClear"}
  /\ \A p \in Tasks :
       /\ pc[p] \in {"cfgClear", "cfgSet"} => arg[p] \notin cleared
       /\ pc[p] = "cfgClear" => passphrase # arg[p]
       /\ pc[p] = "cfgSet" => passphrase \in cleared \cup {arg[p], NoHandle}

IInv == TypeOK /\ Holders /\ Alive /\ Typed /\ Choice /\ Secrets

-----------------------------------------------------------------------------
(* Types. *)
LEMMA TypeStep ==
  TypeOK /\ [Next]_vars => TypeOK'
<1> SUFFICES ASSUME TypeOK, [Next]_vars PROVE TypeOK'
  OBVIOUS
<1> USE DEF TypeOK, RunPlaces, PairPlaces, CfgPlaces, DisPlaces, Goto, Unwind, Done, locks, native, secrets
<1>0. CASE UNCHANGED vars
  BY <1>0 DEF vars
<1>1. CASE \E p \in Tasks : Begins(p) \/ Cancel(p) \/ Waits(p) \/ Proceeds(p) \/ Fails(p) \/ Answers(p)
  <2> PICK p \in Tasks : Begins(p) \/ Cancel(p) \/ Waits(p) \/ Proceeds(p) \/ Fails(p) \/ Answers(p)
    BY <1>1
  <2>1. CASE Begins(p) \/ Cancel(p)
    BY <2>1 DEF Begins, RunBegins, PairingBegins, ConfigureBegins, DisconnectBegins, Cancel
  <2>2. CASE Locks(p) \/ CancelledWaiting(p) \/ Unlocks(p)
    BY <2>2 DEF Locks, CancelledWaiting, Unlocks
  <2>3. CASE RunChecks(p) \/ RunEnters(p) \/ CreateRefuses(p) \/ CreateProceeds(p)
    BY <2>3 DEF RunChecks, RunEnters, CreateRefuses, CreateProceeds, MustRefuse
  <2>4. CASE Constructs(p)
    BY <2>4 DEF Constructs, ConstructorFails
  <2>5. CASE Stops(p) \/ Fails(p) \/ Advances(p) \/ Answers(p) \/ NoPairing(p)
    BY <2>5 DEF Stops, Fails, Advances, Answers, NoPairing, Loop
  <2>6. CASE TakesCode(p) \/ TakesCodeDestroyed(p) \/ TookCode(p)
    BY <2>6 DEF TakesCode, TakesCodeDestroyed, TookCode, CallsWrapper, WrapperReturns
  <2>7. CASE Ends(p) \/ Closes(p)
    BY <2>7 DEF Ends, Closes
  <2>8. CASE PairingChecks(p) \/ Exports(p) \/ ExportsDestroyed(p) \/ Exported(p)
    BY <2>8 DEF PairingChecks, Exports, ExportsDestroyed, Exported, CallsWrapper, WrapperReturns
  <2>9. CASE ConfigureEnters(p) \/ TriesMutex(p) \/ ConfigureRefuses(p) \/ ConfigureAccepts(p)
    BY <2>9 DEF ConfigureEnters, TriesMutex, ConfigureRefuses, ConfigureAccepts, Validates
  <2>10. CASE ClearsReplaced(p) \/ SetsPassphrase(p)
    <3>1. arg[p] \in Handles \cup {NoHandle}
      OBVIOUS
    <3>2. CASE ClearsReplaced(p)
      BY <3>2 DEF ClearsReplaced, ClearSecret
    <3>3. CASE SetsPassphrase(p)
      <4>1. adopted' \subseteq Handles
        BY <3>1, <3>3 DEF SetsPassphrase
      <4> QED
        BY <3>1, <3>3, <4>1 DEF SetsPassphrase
    <3> QED
      BY <2>10, <3>2, <3>3
  <2>11. CASE ConfigureUnlocks(p) \/ ConfigureLeaves(p)
    BY <2>11 DEF ConfigureUnlocks, ConfigureLeaves
  <2>12. CASE DisconnectEnters(p) \/ DisconnectFlags(p) \/ DisconnectAgain(p)
    <3>1. CASE DisconnectEnters(p)
      BY <3>1 DEF DisconnectEnters
    <3>2. CASE DisconnectFlags(p)
      BY <3>2 DEF DisconnectFlags
    <3>3. CASE DisconnectAgain(p)
      BY <3>3 DEF DisconnectAgain
    <3> QED
      BY <2>12, <3>1, <3>2, <3>3
  <2>13. CASE ClosesWrapper(p) \/ ClearsPassphrase(p)
    BY <2>13 DEF ClosesWrapper, ClearsPassphrase, ClearSecret
  <2> QED
    BY <2>1, <2>2, <2>3, <2>4, <2>5, <2>6, <2>7, <2>8, <2>9, <2>10, <2>11, <2>12, <2>13 DEF Waits, Proceeds
<1> QED
  BY <1>0, <1>1 DEF Next

(* The locks: each step that takes or releases one goes through its place. *)
LEMMA HoldersStep ==
  TypeOK /\ Holders /\ [Next]_vars => Holders'
<1> SUFFICES ASSUME TypeOK /\ Holders, [Next]_vars PROVE Holders'
  OBVIOUS
<1> USE DEF TypeOK, RunPlaces, PairPlaces, CfgPlaces, DisPlaces, Goto, Unwind, Done, Holders, UnderMonitor, UnderMutex, Owning, locks
<1>0. CASE UNCHANGED vars
  BY <1>0 DEF vars
<1>1. CASE \E p \in Tasks : Begins(p) \/ Cancel(p) \/ Waits(p) \/ Proceeds(p) \/ Fails(p) \/ Answers(p)
  <2> PICK p \in Tasks : Begins(p) \/ Cancel(p) \/ Waits(p) \/ Proceeds(p) \/ Fails(p) \/ Answers(p)
    BY <1>1
  <2>1. CASE Begins(p) \/ Cancel(p)
    BY <2>1 DEF Begins, RunBegins, PairingBegins, ConfigureBegins, DisconnectBegins, Cancel
  <2>2. CASE Locks(p) \/ CancelledWaiting(p) \/ Unlocks(p)
    BY <2>2 DEF Locks, CancelledWaiting, Unlocks
  <2>3. CASE RunChecks(p) \/ RunEnters(p) \/ CreateRefuses(p) \/ CreateProceeds(p)
    BY <2>3 DEF RunChecks, RunEnters, CreateRefuses, CreateProceeds, MustRefuse
  <2>4. CASE Constructs(p)
    BY <2>4 DEF Constructs, ConstructorFails
  <2>5. CASE Stops(p) \/ Fails(p) \/ Advances(p) \/ Answers(p) \/ NoPairing(p)
    BY <2>5 DEF Stops, Fails, Advances, Answers, NoPairing, Loop
  <2>6. CASE TakesCode(p) \/ TakesCodeDestroyed(p) \/ TookCode(p)
    BY <2>6 DEF TakesCode, TakesCodeDestroyed, TookCode, CallsWrapper, WrapperReturns
  <2>7. CASE Ends(p) \/ Closes(p)
    BY <2>7 DEF Ends, Closes
  <2>8. CASE PairingChecks(p) \/ Exports(p) \/ ExportsDestroyed(p) \/ Exported(p)
    BY <2>8 DEF PairingChecks, Exports, ExportsDestroyed, Exported, CallsWrapper, WrapperReturns
  <2>9. CASE ConfigureEnters(p) \/ TriesMutex(p) \/ ConfigureRefuses(p) \/ ConfigureAccepts(p)
    BY <2>9 DEF ConfigureEnters, TriesMutex, ConfigureRefuses, ConfigureAccepts, Validates
  <2>10. CASE ClearsReplaced(p) \/ SetsPassphrase(p)
    BY <2>10 DEF ClearsReplaced, SetsPassphrase, ClearSecret
  <2>11. CASE ConfigureUnlocks(p) \/ ConfigureLeaves(p)
    BY <2>11 DEF ConfigureUnlocks, ConfigureLeaves
  <2>12. CASE DisconnectEnters(p) \/ DisconnectFlags(p) \/ DisconnectAgain(p)
    BY <2>12 DEF DisconnectEnters, DisconnectFlags, DisconnectAgain
  <2>13. CASE ClosesWrapper(p) \/ ClearsPassphrase(p)
    BY <2>13 DEF ClosesWrapper, ClearsPassphrase, ClearSecret
  <2> QED
    BY <2>1, <2>2, <2>3, <2>4, <2>5, <2>6, <2>7, <2>8, <2>9, <2>10, <2>11, <2>12, <2>13 DEF Waits, Proceeds
<1> QED
  BY <1>0, <1>1 DEF Next

(* Interpreters, calls in flight, the lease and the native object. *)
LEMMA AliveStep ==
  TypeOK /\ Holders /\ Alive /\ [Next]_vars => Alive'
<1> SUFFICES ASSUME TypeOK /\ Holders /\ Alive, [Next]_vars PROVE Alive'
  OBVIOUS
<1> USE DEF TypeOK, RunPlaces, PairPlaces, CfgPlaces, DisPlaces, Goto, Unwind, Done, Holders, UnderMonitor, UnderMutex, Owning, Alive, HasHandle, locks, native
<1>0. CASE UNCHANGED vars
  BY <1>0 DEF vars
<1>1. CASE \E p \in Tasks : Begins(p) \/ Cancel(p) \/ Waits(p) \/ Proceeds(p) \/ Fails(p) \/ Answers(p)
  <2> PICK p \in Tasks : Begins(p) \/ Cancel(p) \/ Waits(p) \/ Proceeds(p) \/ Fails(p) \/ Answers(p)
    BY <1>1
  <2>1. CASE Begins(p) \/ Cancel(p)
    BY <2>1 DEF Begins, RunBegins, PairingBegins, ConfigureBegins, DisconnectBegins, Cancel
  <2>2. CASE Locks(p) \/ CancelledWaiting(p) \/ Unlocks(p)
    BY <2>2 DEF Locks, CancelledWaiting, Unlocks
  <2>3. CASE RunChecks(p) \/ RunEnters(p) \/ CreateRefuses(p) \/ CreateProceeds(p)
    BY <2>3 DEF RunChecks, RunEnters, CreateRefuses, CreateProceeds, MustRefuse
  <2>4. CASE Constructs(p)
    BY <2>4 DEF Constructs, ConstructorFails
  <2>5. CASE Stops(p) \/ Fails(p) \/ Advances(p) \/ Answers(p) \/ NoPairing(p)
    BY <2>5 DEF Stops, Fails, Advances, Answers, NoPairing, Loop
  <2>6. CASE TakesCode(p) \/ TakesCodeDestroyed(p) \/ TookCode(p)
    BY <2>6 DEF TakesCode, TakesCodeDestroyed, TookCode, CallsWrapper, WrapperReturns
  <2>7. CASE Ends(p) \/ Closes(p)
    BY <2>7 DEF Ends, Closes
  <2>8. CASE PairingChecks(p) \/ Exports(p) \/ ExportsDestroyed(p) \/ Exported(p)
    BY <2>8 DEF PairingChecks, Exports, ExportsDestroyed, Exported, CallsWrapper, WrapperReturns
  <2>9. CASE ConfigureEnters(p) \/ TriesMutex(p) \/ ConfigureRefuses(p) \/ ConfigureAccepts(p)
    BY <2>9 DEF ConfigureEnters, TriesMutex, ConfigureRefuses, ConfigureAccepts, Validates
  <2>10. CASE ClearsReplaced(p) \/ SetsPassphrase(p)
    BY <2>10 DEF ClearsReplaced, SetsPassphrase, ClearSecret
  <2>11. CASE ConfigureUnlocks(p) \/ ConfigureLeaves(p)
    BY <2>11 DEF ConfigureUnlocks, ConfigureLeaves
  <2>12. CASE DisconnectEnters(p) \/ DisconnectFlags(p) \/ DisconnectAgain(p)
    BY <2>12 DEF DisconnectEnters, DisconnectFlags, DisconnectAgain
  <2>13. CASE ClosesWrapper(p) \/ ClearsPassphrase(p)
    BY <2>13 DEF ClosesWrapper, ClearsPassphrase, ClearSecret
  <2> QED
    BY <2>1, <2>2, <2>3, <2>4, <2>5, <2>6, <2>7, <2>8, <2>9, <2>10, <2>11, <2>12, <2>13 DEF Waits, Proceeds
<1> QED
  BY <1>0, <1>1 DEF Next

(* Results: a destroyed wrapper means a closed session. *)
LEMMA TypedStep ==
  TypeOK /\ Alive /\ Typed /\ [Next]_vars => Typed'
<1> SUFFICES ASSUME TypeOK /\ Alive /\ Typed, [Next]_vars PROVE Typed'
  OBVIOUS
<1> USE DEF TypeOK, RunPlaces, PairPlaces, CfgPlaces, DisPlaces, Goto, Unwind, Done, Alive, Owning, Typed, locks, native
<1>0. CASE UNCHANGED vars
  BY <1>0 DEF vars
<1>1. CASE \E p \in Tasks : Begins(p) \/ Cancel(p) \/ Waits(p) \/ Proceeds(p) \/ Fails(p) \/ Answers(p)
  <2> PICK p \in Tasks : Begins(p) \/ Cancel(p) \/ Waits(p) \/ Proceeds(p) \/ Fails(p) \/ Answers(p)
    BY <1>1
  <2>1. CASE Begins(p) \/ Cancel(p)
    BY <2>1 DEF Begins, RunBegins, PairingBegins, ConfigureBegins, DisconnectBegins, Cancel
  <2>2. CASE Locks(p) \/ CancelledWaiting(p) \/ Unlocks(p)
    BY <2>2 DEF Locks, CancelledWaiting, Unlocks
  <2>3. CASE RunChecks(p) \/ RunEnters(p) \/ CreateRefuses(p) \/ CreateProceeds(p)
    BY <2>3 DEF RunChecks, RunEnters, CreateRefuses, CreateProceeds, MustRefuse
  <2>4. CASE Constructs(p)
    BY <2>4 DEF Constructs, ConstructorFails
  <2>5. CASE Stops(p) \/ Fails(p) \/ Advances(p) \/ Answers(p) \/ NoPairing(p)
    BY <2>5 DEF Stops, Fails, Advances, Answers, NoPairing, Loop
  <2>6. CASE TakesCode(p) \/ TakesCodeDestroyed(p) \/ TookCode(p)
    BY <2>6 DEF TakesCode, TakesCodeDestroyed, TookCode, CallsWrapper, WrapperReturns
  <2>7. CASE Ends(p) \/ Closes(p)
    BY <2>7 DEF Ends, Closes
  <2>8. CASE PairingChecks(p) \/ Exports(p) \/ ExportsDestroyed(p) \/ Exported(p)
    BY <2>8 DEF PairingChecks, Exports, ExportsDestroyed, Exported, CallsWrapper, WrapperReturns
  <2>9. CASE ConfigureEnters(p) \/ TriesMutex(p) \/ ConfigureRefuses(p) \/ ConfigureAccepts(p)
    BY <2>9 DEF ConfigureEnters, TriesMutex, ConfigureRefuses, ConfigureAccepts, Validates
  <2>10. CASE ClearsReplaced(p) \/ SetsPassphrase(p)
    BY <2>10 DEF ClearsReplaced, SetsPassphrase, ClearSecret
  <2>11. CASE ConfigureUnlocks(p) \/ ConfigureLeaves(p)
    BY <2>11 DEF ConfigureUnlocks, ConfigureLeaves
  <2>12. CASE DisconnectEnters(p) \/ DisconnectFlags(p) \/ DisconnectAgain(p)
    BY <2>12 DEF DisconnectEnters, DisconnectFlags, DisconnectAgain
  <2>13. CASE ClosesWrapper(p) \/ ClearsPassphrase(p)
    BY <2>13 DEF ClosesWrapper, ClearsPassphrase, ClearSecret
  <2> QED
    BY <2>1, <2>2, <2>3, <2>4, <2>5, <2>6, <2>7, <2>8, <2>9, <2>10, <2>11, <2>12, <2>13 DEF Waits, Proceeds
<1> QED
  BY <1>0, <1>1 DEF Next

(* The choice changes only while its writer holds the command mutex, or   *)
(* once the session is closed.                                            *)
LEMMA ChoiceStep ==
  TypeOK /\ Holders /\ Alive /\ Choice /\ [Next]_vars => Choice'
<1> SUFFICES ASSUME TypeOK /\ Holders /\ Alive /\ Choice, [Next]_vars PROVE Choice'
  OBVIOUS
<1> USE DEF TypeOK, RunPlaces, PairPlaces, CfgPlaces, DisPlaces, Goto, Unwind, Done, Holders, UnderMonitor, UnderMutex, Owning, Alive, Choice, locks, native, secrets
<1>0. CASE UNCHANGED vars
  BY <1>0 DEF vars
<1>1. CASE \E p \in Tasks : Begins(p) \/ Cancel(p) \/ Waits(p) \/ Proceeds(p) \/ Fails(p) \/ Answers(p)
  <2> PICK p \in Tasks : Begins(p) \/ Cancel(p) \/ Waits(p) \/ Proceeds(p) \/ Fails(p) \/ Answers(p)
    BY <1>1
  <2>1. CASE Begins(p) \/ Cancel(p)
    BY <2>1 DEF Begins, RunBegins, PairingBegins, ConfigureBegins, DisconnectBegins, Cancel
  <2>2. CASE Locks(p) \/ CancelledWaiting(p) \/ Unlocks(p)
    BY <2>2 DEF Locks, CancelledWaiting, Unlocks
  <2>3. CASE RunChecks(p) \/ RunEnters(p) \/ CreateRefuses(p) \/ CreateProceeds(p)
    BY <2>3 DEF RunChecks, RunEnters, CreateRefuses, CreateProceeds, MustRefuse
  <2>4. CASE Constructs(p)
    BY <2>4 DEF Constructs, ConstructorFails
  <2>5. CASE Stops(p) \/ Fails(p) \/ Advances(p) \/ Answers(p) \/ NoPairing(p)
    BY <2>5 DEF Stops, Fails, Advances, Answers, NoPairing, Loop
  <2>6. CASE TakesCode(p) \/ TakesCodeDestroyed(p) \/ TookCode(p)
    BY <2>6 DEF TakesCode, TakesCodeDestroyed, TookCode, CallsWrapper, WrapperReturns
  <2>7. CASE Ends(p) \/ Closes(p)
    BY <2>7 DEF Ends, Closes
  <2>8. CASE PairingChecks(p) \/ Exports(p) \/ ExportsDestroyed(p) \/ Exported(p)
    BY <2>8 DEF PairingChecks, Exports, ExportsDestroyed, Exported, CallsWrapper, WrapperReturns
  <2>9. CASE ConfigureEnters(p) \/ TriesMutex(p) \/ ConfigureRefuses(p) \/ ConfigureAccepts(p)
    BY <2>9 DEF ConfigureEnters, TriesMutex, ConfigureRefuses, ConfigureAccepts, Validates
  <2>10. CASE ClearsReplaced(p) \/ SetsPassphrase(p)
    BY <2>10 DEF ClearsReplaced, SetsPassphrase, ClearSecret
  <2>11. CASE ConfigureUnlocks(p) \/ ConfigureLeaves(p)
    BY <2>11 DEF ConfigureUnlocks, ConfigureLeaves
  <2>12. CASE DisconnectEnters(p) \/ DisconnectFlags(p) \/ DisconnectAgain(p)
    BY <2>12 DEF DisconnectEnters, DisconnectFlags, DisconnectAgain
  <2>13. CASE ClosesWrapper(p) \/ ClearsPassphrase(p)
    BY <2>13 DEF ClosesWrapper, ClearsPassphrase, ClearSecret
  <2> QED
    BY <2>1, <2>2, <2>3, <2>4, <2>5, <2>6, <2>7, <2>8, <2>9, <2>10, <2>11, <2>12, <2>13 DEF Waits, Proceeds
<1> QED
  BY <1>0, <1>1 DEF Next

(* The secrets change only under the monitor. *)
LEMMA SecretsStep ==
  TypeOK /\ Holders /\ Alive /\ Secrets /\ [Next]_vars => Secrets'
<1> SUFFICES ASSUME TypeOK /\ Holders /\ Alive /\ Secrets, [Next]_vars PROVE Secrets'
  OBVIOUS
<1> USE DEF TypeOK, RunPlaces, PairPlaces, CfgPlaces, DisPlaces, Goto, Unwind, Done, Holders, UnderMonitor, UnderMutex, Owning, Alive, Secrets, locks, secrets
<1>0. CASE UNCHANGED vars
  BY <1>0 DEF vars
<1>1. CASE \E p \in Tasks : Begins(p) \/ Cancel(p) \/ Waits(p) \/ Proceeds(p) \/ Fails(p) \/ Answers(p)
  <2> PICK p \in Tasks : Begins(p) \/ Cancel(p) \/ Waits(p) \/ Proceeds(p) \/ Fails(p) \/ Answers(p)
    BY <1>1
  <2>1. CASE Begins(p) \/ Cancel(p)
    BY <2>1 DEF Begins, RunBegins, PairingBegins, ConfigureBegins, DisconnectBegins, Cancel
  <2>2. CASE Locks(p) \/ CancelledWaiting(p) \/ Unlocks(p)
    BY <2>2 DEF Locks, CancelledWaiting, Unlocks
  <2>3. CASE RunChecks(p) \/ RunEnters(p) \/ CreateRefuses(p) \/ CreateProceeds(p)
    BY <2>3 DEF RunChecks, RunEnters, CreateRefuses, CreateProceeds, MustRefuse
  <2>4. CASE Constructs(p)
    BY <2>4 DEF Constructs, ConstructorFails
  <2>5. CASE Stops(p) \/ Fails(p) \/ Advances(p) \/ Answers(p) \/ NoPairing(p)
    BY <2>5 DEF Stops, Fails, Advances, Answers, NoPairing, Loop
  <2>6. CASE TakesCode(p) \/ TakesCodeDestroyed(p) \/ TookCode(p)
    BY <2>6 DEF TakesCode, TakesCodeDestroyed, TookCode, CallsWrapper, WrapperReturns
  <2>7. CASE Ends(p) \/ Closes(p)
    BY <2>7 DEF Ends, Closes
  <2>8. CASE PairingChecks(p) \/ Exports(p) \/ ExportsDestroyed(p) \/ Exported(p)
    BY <2>8 DEF PairingChecks, Exports, ExportsDestroyed, Exported, CallsWrapper, WrapperReturns
  <2>9. CASE ConfigureEnters(p) \/ TriesMutex(p) \/ ConfigureRefuses(p) \/ ConfigureAccepts(p)
    BY <2>9 DEF ConfigureEnters, TriesMutex, ConfigureRefuses, ConfigureAccepts, Validates
  <2>10. CASE ClearsReplaced(p) \/ SetsPassphrase(p)
    BY <2>10 DEF ClearsReplaced, SetsPassphrase, ClearSecret
  <2>11. CASE ConfigureUnlocks(p) \/ ConfigureLeaves(p)
    BY <2>11 DEF ConfigureUnlocks, ConfigureLeaves
  <2>12. CASE DisconnectEnters(p) \/ DisconnectFlags(p) \/ DisconnectAgain(p)
    BY <2>12 DEF DisconnectEnters, DisconnectFlags, DisconnectAgain
  <2>13. CASE ClosesWrapper(p) \/ ClearsPassphrase(p)
    BY <2>13 DEF ClosesWrapper, ClearsPassphrase, ClearSecret
  <2> QED
    BY <2>1, <2>2, <2>3, <2>4, <2>5, <2>6, <2>7, <2>8, <2>9, <2>10, <2>11, <2>12, <2>13 DEF Waits, Proceeds
<1> QED
  BY <1>0, <1>1 DEF Next

-----------------------------------------------------------------------------
LEMMA InitHolds == Init => IInv
<1> SUFFICES ASSUME Init PROVE IInv
  OBVIOUS
<1>1. TypeOK
  BY DEF Init, TypeOK
<1>2. Holders
  BY DEF Init, Holders, UnderMonitor, UnderMutex, Owning
<1>3. Alive
  BY DEF Init, Alive, Owning, HasHandle
<1>4. Typed /\ Choice /\ Secrets
  BY DEF Init, Typed, Choice, Secrets
<1> QED
  BY <1>1, <1>2, <1>3, <1>4 DEF IInv

LEMMA StepHolds == IInv /\ [Next]_vars => IInv'
BY TypeStep, HoldersStep, AliveStep, TypedStep, ChoiceStep, SecretsStep DEF IInv

(* The inductive invariant of the session, for any tasks and handles. *)
THEOREM SessionInvariance == Spec => []IInv
BY InitHolds, StepHolds, PTL DEF Spec

(* Every variable of the session keeps its type. *)
THEOREM SessionTypeCorrect == Spec => []TypeOK
<1>1. IInv => TypeOK
  BY DEF IInv
<1> QED
  BY <1>1, SessionInvariance, PTL

(* No constructor lowers a freed native object, and the last user of a     *)
(* disconnected session lets it go.                                        *)
THEOREM NativeObjectSafe == Spec => []NoUseAfterFree
<1>1. IInv => NoUseAfterFree
  <2> SUFFICES ASSUME IInv, HasHandle PROVE NoUseAfterFree
    BY DEF NoUseAfterFree
  <2>1. arcs = interp \cup (IF wrapper = "open" \/ inflight # {} THEN {Wrapper} ELSE {})
    BY DEF IInv, Alive
  <2>2. \A p \in Tasks : pc[p] = "lower" => wrapper = "open"
    BY DEF IInv, Alive, TypeOK
  <2> QED
    BY <2>1, <2>2 DEF NoUseAfterFree
<1> QED
  BY <1>1, SessionInvariance, PTL

(* A constructor and an export find the lease free: its owner holds the    *)
(* command mutex.                                                          *)
THEOREM LeaseFollowsMutex == Spec => []LeaseFreeUnderMutex
<1>1. IInv => LeaseFreeUnderMutex
  <2> SUFFICES ASSUME IInv PROVE LeaseFreeUnderMutex
    OBVIOUS
  <2>1. lease # Nobody => lease \in Tasks /\ pc[lease] \in Owning
    BY DEF IInv, Alive, TypeOK
  <2>2. \A p \in Tasks : pc[p] \in Owning \cup {"lower", "exporting"} => mutex = p
    BY DEF IInv, Holders, UnderMutex
  <2>3. \A p \in Tasks : pc[p] \in {"lower", "exporting"} => pc[p] \notin Owning
    BY DEF Owning
  <2> QED
    BY <2>1, <2>2, <2>3 DEF LeaseFreeUnderMutex
<1> QED
  BY <1>1, SessionInvariance, PTL

(* A command never ends with the wrapper's IllegalStateException. *)
THEOREM CommandsFailTyped == Spec => []CommandErrorsTyped
<1>1. IInv => CommandErrorsTyped
  BY DEF IInv, Typed, CommandErrorsTyped
<1> QED
  BY <1>1, SessionInvariance, PTL

(* The passphrase choice does not change under a command. *)
THEOREM ChoiceHolds == Spec => []ChoiceStable
<1>1. IInv => ChoiceStable
  BY DEF IInv, Choice, ChoiceStable
<1> QED
  BY <1>1, SessionInvariance, PTL

(* Every handle ever adopted is the current one or cleared, and after      *)
(* disconnect every one is cleared.                                        *)
THEOREM NoSecretLeft == Spec => []SecretsCleared
<1>1. IInv => SecretsCleared
  <2> SUFFICES ASSUME IInv PROVE SecretsCleared
    OBVIOUS
  <2>1. passphrase \in cleared => \E p \in Tasks : pc[p] = "cfgSet" /\ monitor = p
    BY DEF IInv, Secrets, Holders, UnderMonitor
  <2>2. closed /\ monitor = Nobody => adopted \subseteq cleared
    BY DEF IInv, Secrets, Holders, UnderMonitor
  <2> QED
    BY <2>1, <2>2 DEF IInv, Secrets, SecretsCleared
<1> QED
  BY <1>1, SessionInvariance, PTL
-----------------------------------------------------------------------------
(* The session is a OneCommand.                                            *)

serialVars == <<~closed, passphrase, configured, Running, Talking>>

(* Whoever is under the mutex keeps everybody else from an Interp.         *)
LEMMA OthersIdle ==
  ASSUME IInv, NEW p \in Tasks, pc[p] \in UnderMutex
  PROVE  /\ interp \subseteq {p} /\ Talking \subseteq {p}
         /\ pc[p] \notin Owning => interp = {} /\ Running = {} /\ Talking = {}
<1>1. \A q \in Tasks : q # p => pc[q] \notin Owning
  BY DEF IInv, Holders, UnderMutex
<1>2. interp \subseteq {p} /\ Talking \subseteq {p}
  BY <1>1 DEF IInv, Alive, TypeOK, Talking, Owning
<1> QED
  BY <1>1, <1>2 DEF IInv, Alive, TypeOK, Talking, Running, Owning

(* A step that leaves interp and mode alone leaves the running command,    *)
(* unless it changes what kind of command its task runs.                   *)
LEMMA RunningKept ==
  ASSUME TypeOK, UNCHANGED <<interp, mode, family>>,
         NEW p \in Tasks, p \notin interp \/ UNCHANGED cmd,
         \A q \in Tasks : q # p => cmd'[q] = cmd[q]
  PROVE  UNCHANGED Running
<1>1. \A q \in interp : cmd'[q] = cmd[q]
  BY DEF TypeOK
<1> QED
  BY <1>1 DEF Running

(* So does one that neither enters nor leaves an exchange for the link.    *)
LEMMA TalkingKept ==
  ASSUME TypeOK, NEW p \in Tasks, NEW place, place # "deliver", pc[p] # "deliver",
         pc' = [pc EXCEPT ![p] = place]
  PROVE  UNCHANGED Talking
BY DEF TypeOK, Talking

LEMMA SerialInit == Init => Serial!Init
BY DEF Init, Serial!Init, Running, Talking

(* A constructor is the beginning of a command, close its end.             *)
LEMMA BeginRefines ==
  ASSUME IInv, NEW p \in Tasks, Constructs(p)
  PROVE  Serial!Next \/ UNCHANGED serialVars
<1>1. /\ pc[p] = "lower" /\ ~closed /\ interp = {} /\ Running = {} /\ Talking = {}
  BY OthersIdle DEF IInv, Alive, Constructs, UnderMutex, Owning
<1>2. UNCHANGED Talking /\ UNCHANGED <<closed, passphrase, configured, family, cmd>>
  BY <1>1, TalkingKept DEF IInv, Constructs, Goto, Unwind, secrets
<1>3. CASE ConstructorFails
  <2>1. UNCHANGED Running
    BY <1>2, <1>3, RunningKept DEF IInv, Constructs, native
  <2> QED
    BY <1>2, <2>1 DEF serialVars
<1>4. CASE ~ConstructorFails
  <2>1. interp' = {p} /\ mode'[p] = passphrase
    BY <1>1, <1>4 DEF Constructs, IInv, TypeOK
  <2> DEFINE account == family = "pin" /\ cmd[p] = "account"
  <2>2. Running' = {[task |-> p, choice |-> passphrase, account |-> account]}
    BY <1>2, <2>1 DEF Running
  <2>3. account => configured
    BY <1>1 DEF IInv, Choice
  <2>4. account \in BOOLEAN
    OBVIOUS
  <2> HIDE DEF account
  <2>5. Serial!Begin(p)
    BY <1>1, <1>2, <2>2, <2>3, <2>4 DEF Serial!Begin
  <2> QED
    BY <2>5 DEF Serial!Next
<1> QED
  BY <1>3, <1>4

LEMMA FinishRefines ==
  ASSUME IInv, NEW p \in Tasks, Closes(p)
  PROVE  Serial!Next
<1>1. interp \subseteq {p} /\ Talking = {}
  BY OthersIdle DEF Closes, UnderMutex, Owning, Talking
<1>2. Running' = {}
  BY <1>1 DEF Closes, Running
<1>3. UNCHANGED Talking /\ UNCHANGED <<closed, passphrase, configured>>
  BY TalkingKept DEF IInv, Closes, Goto, locks, secrets
<1>4. Serial!Finish
  BY <1>1, <1>2, <1>3 DEF Serial!Finish
<1> QED
  BY <1>4 DEF Serial!Next

(* Into an exchange with the link, and out of it.                          *)
LEMMA TalkRefines ==
  ASSUME IInv, NEW p \in Tasks,
         Stops(p) \/ Fails(p) \/ Advances(p) \/ Answers(p) \/ NoPairing(p) \/ TookCode(p)
  PROVE  Serial!Next \/ UNCHANGED serialVars
<1>1. pc[p] \in Owning /\ p \in Tasks
  BY DEF Stops, Fails, Advances, Answers, NoPairing, TookCode, Loop, Owning
<1>2. interp = {p} /\ Talking \subseteq {p}
  BY <1>1, OthersIdle DEF IInv, Alive, UnderMutex
<1>3. UNCHANGED <<closed, passphrase, configured, family, interp, mode, cmd>>
  BY DEF Goto, Unwind, Stops, Fails, Advances, Answers, NoPairing, TookCode, WrapperReturns,
         locks, native, secrets
<1>3a. UNCHANGED Running
  BY <1>3, RunningKept DEF IInv
<1>4. PICK place : pc' = [pc EXCEPT ![p] = place]
  BY DEF Stops, Fails, Advances, Answers, NoPairing, TookCode, Goto, Unwind
<1>5. Talking' = IF place = "deliver" THEN {p} ELSE {}
  BY <1>2, <1>4 DEF IInv, TypeOK, Talking
<1>6. CASE Talking' = {}
  BY <1>3, <1>3a, <1>6 DEF Serial!Next, Serial!Silence
<1>7. CASE Talking' = {p} /\ Talking = {}
  <2> DEFINE job == [task |-> p, choice |-> mode[p],
                     account |-> family = "pin" /\ cmd[p] = "account"]
  <2>1. job \in Running /\ job.task = p
    BY <1>2 DEF Running
  <2>2. \E j \in Running : j.task = p
    BY <2>1
  <2>3. Serial!Talk(p)
    BY <1>3, <1>3a, <1>7, <2>2 DEF Serial!Talk
  <2> QED
    BY <2>3 DEF Serial!Next
<1>8. CASE Talking' = {p} /\ Talking = {p}
  BY <1>3, <1>3a, <1>8 DEF serialVars
<1> QED
  BY <1>2, <1>5, <1>6, <1>7, <1>8

(* The choice changes between commands, or after the session's end.        *)
LEMMA ChooseRefines ==
  ASSUME IInv, NEW p \in Tasks,
         SetsPassphrase(p) \/ DisconnectFlags(p) \/ ClearsPassphrase(p)
  PROVE  Serial!Next
<1>0. p \notin interp /\ \A q \in Tasks : q # p => cmd'[q] = cmd[q]
  BY DEF SetsPassphrase, DisconnectFlags, ClearsPassphrase, Goto, Done, IInv, TypeOK, Alive, Owning
<1>1. UNCHANGED Running
  BY <1>0, RunningKept DEF IInv, SetsPassphrase, DisconnectFlags, ClearsPassphrase, native
<1>2. UNCHANGED Talking
  BY TalkingKept DEF IInv, SetsPassphrase, DisconnectFlags, ClearsPassphrase, Goto, Done
<1>3. CASE SetsPassphrase(p)
  <2>1. pc[p] = "cfgSet" /\ ~closed /\ Running = {}
    BY <1>3, OthersIdle DEF SetsPassphrase, IInv, Alive, UnderMutex, Owning
  <2>2. arg[p] \in Handles \cup {NoHandle}
    BY DEF IInv, TypeOK
  <2>3. Serial!Choose(arg[p])
    BY <1>1, <1>2, <1>3, <2>1 DEF SetsPassphrase, Serial!Choose, locks
  <2> QED
    BY <2>2, <2>3 DEF Serial!Next
<1>4. CASE DisconnectFlags(p)
  BY <1>1, <1>2, <1>4 DEF DisconnectFlags, secrets, Serial!Next, Serial!Disconnect
<1>5. CASE ClearsPassphrase(p)
  <2>1. closed /\ closed' = closed
    BY <1>5 DEF ClearsPassphrase, IInv, Alive
  <2> QED
    BY <1>1, <1>2, <1>5, <2>1 DEF ClearsPassphrase, Serial!Next, Serial!Forget
<1> QED
  BY <1>3, <1>4, <1>5

(* Every other step of a task is none of a OneCommand's.                   *)
LEMMA OtherStepsStutter ==
  ASSUME IInv, NEW p \in Tasks,
         \/ Begins(p) \/ Cancel(p) \/ Waits(p)
         \/ CancelledWaiting(p) \/ Unlocks(p) \/ RunChecks(p) \/ CreateRefuses(p)
         \/ CreateProceeds(p) \/ TakesCode(p) \/ TakesCodeDestroyed(p) \/ Ends(p)
         \/ PairingChecks(p) \/ Exports(p) \/ ExportsDestroyed(p) \/ Exported(p)
         \/ TriesMutex(p) \/ ConfigureRefuses(p) \/ ConfigureAccepts(p)
         \/ ClearsReplaced(p) \/ ConfigureUnlocks(p) \/ ConfigureLeaves(p)
         \/ DisconnectAgain(p) \/ ClosesWrapper(p)
  PROVE  UNCHANGED serialVars
<1> USE DEF Begins, RunBegins, PairingBegins, ConfigureBegins, DisconnectBegins, Cancel, Waits,
            Locks, RunEnters, ConfigureEnters, DisconnectEnters, CancelledWaiting, Unlocks,
            RunChecks, CreateRefuses, CreateProceeds, TakesCode, TakesCodeDestroyed, Ends,
            PairingChecks, Exports, ExportsDestroyed, Exported, CallsWrapper, WrapperReturns,
            TriesMutex, ConfigureRefuses, ConfigureAccepts, ClearsReplaced, ConfigureUnlocks,
            ConfigureLeaves, DisconnectAgain, ClosesWrapper
<1>1. UNCHANGED <<family, closed, passphrase, configured, interp, mode>>
  BY DEF locks, native, secrets
<1>2. cmd' = cmd \/ \E k : cmd' = [cmd EXCEPT ![p] = k]
  BY DEF Goto, Unwind, Done
<1>3. cmd' = cmd \/ p \notin interp
  BY DEF Goto, Unwind, Done, IInv, Alive, Owning
<1>4. UNCHANGED Running
  BY <1>1, <1>2, <1>3, RunningKept DEF IInv, TypeOK
<1>5. pc' = pc \/ \E place : /\ pc' = [pc EXCEPT ![p] = place]
                             /\ place # "deliver" /\ pc[p] # "deliver"
  BY DEF Goto, Unwind, Done, RunPlaces, PairPlaces
<1>6. UNCHANGED Talking
  BY <1>5, TalkingKept DEF IInv, Talking
<1> QED
  BY <1>1, <1>6, <1>4 DEF serialVars

LEMMA SerialStep == IInv /\ [Next]_vars => [Serial!Next]_serialVars
<1> SUFFICES ASSUME IInv, [Next]_vars PROVE Serial!Next \/ UNCHANGED serialVars
  OBVIOUS
<1>1. CASE UNCHANGED vars
  BY <1>1 DEF vars, serialVars, Running, Talking
<1>2. CASE Next
  <2>1. PICK p \in Tasks : Begins(p) \/ Cancel(p) \/ Waits(p) \/ Proceeds(p) \/ Fails(p) \/ Answers(p)
    BY <1>2 DEF Next
  <2> QED
    BY <2>1, BeginRefines, FinishRefines, TalkRefines, ChooseRefines, OtherStepsStutter DEF Proceeds
<1> QED
  BY <1>1, <1>2

(* The session is a OneCommand: every step of its tasks begins or ends the *)
(* one command, takes or leaves the link for it, chooses between commands, *)
(* disconnects, or changes nothing a caller or the link can tell.          *)
THEOREM SessionIsOneCommand == Spec => ImplementsOneCommand
BY SerialInit, SerialStep, SessionInvariance, PTL
   DEF Spec, ImplementsOneCommand, Serial!Spec, serialVars
=============================================================================
