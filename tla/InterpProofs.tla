---------------------------- MODULE InterpProofs ----------------------------
(***************************************************************************)
(* Proofs about Interp for any number of threads, interpreter objects and  *)
(* handles: the lease has one owner, references do not alias, results and  *)
(* sessions agree, and a Coldcard key is installed while it is current.    *)
(***************************************************************************)
EXTENDS Interp, TLAPS

USE InterpAssumption DEF Cells

Calls == {"start", "exchange", "end"}
Live  == {"fresh", "running", "finished"}
Exporting == {"expAcquire", "expBorrow", "expRead", "expRelease"}
Dropping  == {"inner", "install", "ready", "dropInner", "dropLease"}
Inside    == {"body", "core", "unlock"} \cup Dropping

(* Where a thread may be in each operation, and what it is then at. *)
Shape ==
  \A t \in Threads :
    /\ pc[t] = "idle" => op[t] = "none" /\ at[t] = Nobody
    /\ pc[t] \in {"acquire", "build"} <=> op[t] = "new"
    /\ pc[t] \in Exporting <=> op[t] = "export"
    /\ pc[t] \in {"lock", "body", "unlock"} => op[t] \in Calls
    /\ pc[t] = "core" => op[t] \in {"start", "exchange"}
    /\ pc[t] \in {"inner", "install", "ready"} => op[t] = "end"
    /\ pc[t] \in {"dropInner", "dropLease"} => op[t] \in Calls \cup {"free"}
    /\ op[t] \in Calls \cup {"new", "free"} => at[t] \in Interps
    /\ op[t] = "export" => at[t] \in NoiseCells

(* Who is inside an interpreter: one thread under its mutex, or the one    *)
(* thread that builds or frees it.                                         *)
Mutex ==
  \A t \in Threads :
    /\ pc[t] \in Inside /\ op[t] # "free" => lock[at[t]] = t
    /\ op[t] \in {"new", "free"} => \A u \in Threads : at[u] = at[t] => u = t

(* How the phase of the object follows the thread that works on it. *)
PhaseOf ==
  \A t \in Threads :
    /\ op[t] = "new" => phase[at[t]] = "building"
    /\ op[t] \in Calls => phase[at[t]] \notin {"absent", "building"}
    /\ pc[t] = "core" => phase[at[t]] = "running"
    /\ pc[t] \in Dropping => phase[at[t]] = "gone"

(* When an interpreter owns its lease. *)
HoldsOf ==
  /\ \A i \in Interps :
       /\ holds[i] => borrows[i] \in Cells
       /\ phase[i] = "absent" => ~holds[i] /\ borrows[i] = NoCell
       /\ phase[i] \in Live /\ borrows[i] \in Cells =>
            holds[i] /\ i \in refs[borrows[i]]
       /\ phase[i] = "gone" /\ holds[i] =>
            \E t \in Threads : at[t] = i /\ pc[t] \in Dropping
  /\ \A t \in Threads :
       /\ op[t] = "new" =>
            borrows[at[t]] \in Cells /\ (holds[at[t]] <=> pc[t] = "build")
       /\ pc[t] = "inner" /\ borrows[at[t]] \in Cells => holds[at[t]]
       /\ pc[t] \in {"install", "ready"} =>
            holds[at[t]] /\ borrows[at[t]] \in ColdcardCells

(* Who may hold a reference, and when it is gone. *)
RefsOf ==
  /\ \A c \in Cells : \A h \in refs[c] :
       \/ h \in Interps /\ holds[h] /\ borrows[h] = c
       \/ h \in Threads /\ pc[h] = "expRead" /\ at[h] = c
       \/ h \in Threads /\ pc[h] = "ready" /\ borrows[at[h]] = c
  /\ \A t \in Threads :
       pc[t] \in {"install", "ready", "dropLease"} =>
         \A c \in Cells : at[t] \notin refs[c]

(* What a thread is about to report. *)
OutOf ==
  \A t \in Threads :
    /\ pc[t] \in {"dropInner", "dropLease"} /\ op[t] \in {"start", "exchange"} =>
         out[t] = "device"
    /\ pc[t] = "dropInner" /\ op[t] = "end" => out[t] = "badstate"
    /\ pc[t] = "dropLease" /\ op[t] = "end" => out[t] \in {"badstate", "ok", "keyed", "device"}
    /\ out[t] = "keyed" => op[t] = "end" /\ pc[t] \in {"dropLease", "unlock"}
    /\ out[t] = "keyed" /\ pc[t] = "dropLease" =>
         holds[at[t]] /\ borrows[at[t]] \in ColdcardCells

(* A key is only held under the lease, hence is the one the device made    *)
(* last; end installs one it holds.                                        *)
KeyOf ==
  /\ \A i \in Interps : key[i] # "none" =>
       holds[i] /\ borrows[i] \in ColdcardCells /\ key[i] = "current"
  /\ \A t \in Threads : pc[t] \in {"install", "ready"} => key[at[t]] = "current"

IInv ==
  /\ TypeOK /\ Shape /\ Mutex /\ PhaseOf /\ HoldsOf /\ RefsOf /\ OutOf
  /\ LeaseHasOneOwner /\ SessionFate /\ KeyOf /\ KeyIsCurrent

-----------------------------------------------------------------------------
(* IInv is inductive: one lemma per group of actions, one step per action. *)

LEMMA InitInv == Init => IInv
BY DEF Init, Lease!LeasedInit, IInv, TypeOK, Shape, Mutex, PhaseOf, HoldsOf, RefsOf, OutOf,
          LeaseHasOneOwner, SessionFate, KeyOf, KeyIsCurrent, Owners, Keys,
       Calls, Live, Exporting, Dropping, Inside, Phases, Ops, Results, Places,
       Lease!LeasedTypeOK

(* The operations on a cell keep the types of its flag and references. *)
LEMMA LeaseType ==
  ASSUME Lease!LeasedTypeOK, NEW c, NEW h \in Threads \cup Interps,
         \/ UNCHANGED cellVars
         \/ Lease!Acquire(c) \/ Lease!Refused(c) \/ Lease!Release(c)
         \/ Lease!Borrow(c, h) \/ Lease!Return(c, h)
  PROVE  Lease!LeasedTypeOK'
<1> USE DEF Lease!LeasedTypeOK, cellVars
<1>1. CASE UNCHANGED cellVars
  BY <1>1
<1>2. CASE Lease!Acquire(c) \/ Lease!Refused(c) \/ Lease!Release(c)
  BY <1>2 DEF Lease!Acquire, Lease!Refused, Lease!Release
<1>3. CASE Lease!Borrow(c, h)
  <2>1. \A d \in Cells : refs'[d] \subseteq Threads \cup Interps
    BY <1>3 DEF Lease!Borrow
  <2> QED BY <1>3, <2>1 DEF Lease!Borrow
<1>4. CASE Lease!Return(c, h)
  <2>1. \A d \in Cells : refs'[d] \subseteq Threads \cup Interps
    BY <1>4 DEF Lease!Return
  <2> QED BY <1>4, <2>1 DEF Lease!Return
<1> QED BY <1>1, <1>2, <1>3, <1>4

(* What an answer of the device may change of the keys. *)
LEMMA ConsumesType ==
  ASSUME engine \in [ColdcardCells -> Keys], key \in [Interps -> Keys],
         NEW t \in Threads, Consumes(t)
  PROVE  engine' \in [ColdcardCells -> Keys] /\ key' \in [Interps -> Keys]
<1>1. \A k \in Keys : Outdated(k) \in Keys
  BY DEF Outdated, Keys
<1>2. CASE Rekeys(t)
  <2>1. engine' \in [ColdcardCells -> Keys]
    BY <1>1, <1>2 DEF Rekeys
  <2>2. \A j \in Interps : key'[j] \in Keys
    BY <1>1, <1>2 DEF Rekeys, Keys
  <2>3. key' \in [Interps -> Keys]
    BY <1>2, <2>2 DEF Rekeys
  <2> QED
    BY <2>1, <2>3
<1>3. CASE UNCHANGED <<engine, key>>
  BY <1>3
<1> QED
  BY <1>2, <1>3 DEF Consumes

(* Every step keeps the types. *)
LEMMA TypeInv ==
  ASSUME TypeOK, Shape, NEW t \in Threads, Enters(t) \/ Lock(t) \/ Proceeds(t)
  PROVE  TypeOK'
<1> USE DEF TypeOK, Shape, Calls, Exporting, Phases, Ops, Results, Places, Keys,
          threadVars, Enter, Leave, Goto, Continue, Yields, SetPhase
<1>1. CASE Enters(t)
  <2>1. ASSUME NEW i \in Interps, NEW c \in Cells, NewBorrowing(t, i, c) PROVE TypeOK'
    BY <2>1, LeaseType DEF NewBorrowing
  <2>2. ASSUME NEW i \in Interps, NewOwned(t, i) PROVE TypeOK'
    BY <2>2, LeaseType DEF NewOwned
  <2>3. ASSUME NEW i \in Interps, NEW o \in {"start", "exchange", "end"}, Call(t, i, o)
        PROVE  TypeOK'
    BY <2>3, LeaseType DEF Call
  <2>4. ASSUME NEW i \in Interps, Free(t, i) PROVE TypeOK'
    BY <2>4, LeaseType DEF Free
  <2>5. ASSUME NEW c \in NoiseCells, Export(t, c) PROVE TypeOK'
    BY <2>5, LeaseType DEF Export
  <2> HIDE DEF TypeOK
  <2> QED BY <1>1, <2>1, <2>2, <2>3, <2>4, <2>5 DEF Enters
<1>2. CASE Lock(t)
  BY <1>2, LeaseType DEF Lock
<1>3. CASE NewAcquires(t)
  BY <1>3, LeaseType DEF NewAcquires
<1>4. CASE NewRefused(t)
  BY <1>4, LeaseType DEF NewRefused
<1>5. CASE Build(t)
  BY <1>5, LeaseType DEF Build
<1>6. CASE Misuse(t)
  BY <1>6, LeaseType DEF Misuse
<1>7. CASE PreflightFails(t)
  BY <1>7, LeaseType DEF PreflightFails
<1>8. CASE \E k \in {"unlock", "other"} : StartCommits(t, k)
  BY <1>8, LeaseType DEF StartCommits
<1>9. CASE ExchangeCommits(t)
  BY <1>9, LeaseType DEF ExchangeCommits
<1>10. CASE CoreTransmits(t)
  BY <1>10, LeaseType, ConsumesType DEF CoreTransmits
<1>11. CASE CoreFinishes(t)
  BY <1>11, LeaseType, ConsumesType DEF CoreFinishes
<1>12. CASE ProtocolFails(t)
  BY <1>12, LeaseType, ConsumesType DEF ProtocolFails
<1>13. CASE Unlock(t)
  BY <1>13, LeaseType DEF Unlock
<1>14. CASE EndTakes(t)
  <2>1. CASE phase[at[t]] = "finished"
    BY <1>14, <2>1, LeaseType DEF EndTakes
  <2>2. CASE phase[at[t]] # "finished"
    BY <1>14, <2>2, LeaseType DEF EndTakes
  <2> QED BY <2>1, <2>2
<1>15. CASE \E r \in {"key", "match", "mismatch", "error"} : EndInner(t, r)
  <2>1. /\ Lease!LeasedTypeOK'
        /\ UNCHANGED <<engine, phase, borrows, holds, cmd, lock, op, at, key>>
    BY <1>15, LeaseType DEF EndInner
  <2>2. pc' \in [Threads -> Places] /\ out' \in [Threads -> Results]
    BY <1>15, LeaseType DEF EndInner
  <2> QED BY <2>1, <2>2
<1>16. CASE Install(t)
  BY <1>16, LeaseType DEF Install
<1>17. CASE DropInner(t)
  BY <1>17, LeaseType DEF DropInner
<1>18. CASE Ready(t)
  <2>1. engine' \in [ColdcardCells -> Keys]
    BY <1>18, LeaseType DEF Ready
  <2>2. pc' \in [Threads -> Places] /\ out' \in [Threads -> Results]
    BY <1>18, LeaseType DEF Ready
  <2>3. /\ Lease!LeasedTypeOK'
        /\ UNCHANGED <<phase, borrows, holds, cmd, lock, op, at, key>>
    BY <1>18, LeaseType DEF Ready
  <2> QED BY <2>1, <2>2, <2>3
<1>19. CASE DropLease(t)
  <2>1. Lease!LeasedTypeOK'
    BY <1>19, LeaseType DEF DropLease
  <2>2. phase' \in [Interps -> Phases] /\ borrows' \in [Interps -> Cells \cup {NoCell}]
    BY <1>19, LeaseType DEF DropLease
  <2>3. /\ cmd' \in [Interps -> {"none", "unlock", "other"}]
        /\ holds' \in [Interps -> BOOLEAN]
        /\ key' \in [Interps -> Keys]
        /\ UNCHANGED <<engine, lock>>
    BY <1>19, LeaseType DEF DropLease
  <2>4. pc' \in [Threads -> Places] /\ op' \in [Threads -> Ops]
    BY <1>19, LeaseType DEF DropLease
  <2>5. /\ at' \in [Threads -> Interps \cup NoiseCells \cup {Nobody}]
        /\ out' \in [Threads -> Results]
    BY <1>19, LeaseType DEF DropLease
  <2> QED BY <2>1, <2>2, <2>3, <2>4, <2>5
<1>20. CASE ExportAcquires(t)
  BY <1>20, LeaseType DEF ExportAcquires
<1>21. CASE ExportRefused(t)
  BY <1>21, LeaseType DEF ExportRefused
<1>22. CASE ExportBorrows(t)
  BY <1>22, LeaseType DEF ExportBorrows
<1>23. CASE ExportReads(t)
  BY <1>23, LeaseType DEF ExportReads
<1>24. CASE ExportReleases(t)
  BY <1>24, LeaseType DEF ExportReleases
<1> QED
  BY <1>1, <1>2, <1>3, <1>4, <1>5, <1>6, <1>7, <1>8, <1>9, <1>10,
     <1>11, <1>12, <1>13, <1>14, <1>15, <1>16, <1>17, <1>18, <1>19, <1>20,
     <1>21, <1>22, <1>23, <1>24
  DEF Proceeds

(* A thread starts an operation: nothing is touched but the thread itself and,
   for a constructor or the drop of the object, the phase of an object no other
   thread is at. *)
LEMMA EntersInv ==
  ASSUME IInv, NEW t \in Threads, Enters(t)
  PROVE  IInv'
<1> USE DEF IInv, TypeOK, Shape, Mutex, PhaseOf, HoldsOf, RefsOf, OutOf,
          LeaseHasOneOwner, SessionFate, KeyOf, KeyIsCurrent, Owners, Keys,
          Calls, Live, Exporting, Dropping, Inside, Phases, Ops, Results, Places,
          Lease!LeasedTypeOK, Lease!Acquire, Lease!Refused, Lease!Borrow,
          Lease!Return, Lease!Release, cellVars, threadVars,
          Enter, Leave, Goto, Continue, Yields, SetPhase, Reachable
<1>1. ASSUME NEW i \in Interps, NEW c \in Cells, NewBorrowing(t, i, c) PROVE IInv'
  BY <1>1, SMTT(60) DEF NewBorrowing
<1>2. ASSUME NEW i \in Interps, NewOwned(t, i) PROVE IInv'
  BY <1>2, SMTT(60) DEF NewOwned
<1>3. ASSUME NEW i \in Interps, NEW o \in {"start", "exchange", "end"}, Call(t, i, o) PROVE IInv'
  BY <1>3, SMTT(60) DEF Call
<1>4. ASSUME NEW i \in Interps, Free(t, i) PROVE IInv'
  BY <1>4, SMTT(60) DEF Free
<1>5. ASSUME NEW c \in NoiseCells, Export(t, c) PROVE IInv'
  BY <1>5, SMTT(60) DEF Export
<1> HIDE DEF IInv
<1> QED BY <1>1, <1>2, <1>3, <1>4, <1>5 DEF Enters

(* The constructor takes the lease before it makes the reference, so that
   nobody else has one. *)
LEMMA ConstructorInv ==
  ASSUME IInv, NEW t \in Threads, NewAcquires(t) \/ NewRefused(t) \/ Build(t)
  PROVE  IInv'
<1> USE DEF IInv, TypeOK, Shape, Mutex, PhaseOf, HoldsOf, RefsOf, OutOf,
          LeaseHasOneOwner, SessionFate, KeyOf, KeyIsCurrent, Owners, Keys,
          Calls, Live, Exporting, Dropping, Inside, Phases, Ops, Results, Places,
          Lease!LeasedTypeOK, Lease!Acquire, Lease!Refused, Lease!Borrow,
          Lease!Return, Lease!Release, cellVars, threadVars,
          Enter, Leave, Goto, Continue, Yields, SetPhase, Reachable
<1>1. CASE NewAcquires(t)
  BY <1>1, SMTT(60) DEF NewAcquires
<1>2. CASE NewRefused(t)
  BY <1>2, SMTT(60) DEF NewRefused
<1>3. CASE Build(t)
  <2> USE <1>3 DEF Build
  <2>1. TypeOK' /\ Shape' /\ Mutex' /\ PhaseOf'
    BY SMTT(60)
  <2>2. HoldsOf' /\ RefsOf' /\ OutOf'
    BY SMTT(60)
  <2>3. LeaseHasOneOwner' /\ SessionFate' /\ KeyOf' /\ KeyIsCurrent'
    BY SMTT(60)
  <2> QED BY <2>1, <2>2, <2>3
<1> HIDE DEF IInv
<1> QED BY <1>1, <1>2, <1>3 

(* An interpreter that is answered holds the lease: no other one has a key *)
(* of this handle to lose, and no end is about to install or report one.   *)
LEMMA ConsumesKeepsKeys ==
  ASSUME IInv, NEW t \in Threads, pc[t] = "core", Consumes(t)
  PROVE  /\ \A i \in Interps : key'[i] # "none" =>
              holds[i] /\ borrows[i] \in ColdcardCells /\ key'[i] = "current"
         /\ \A u \in Threads : pc[u] \in {"install", "ready"} => key'[at[u]] = "current"
         /\ \A u \in Threads : pc[u] = "dropLease" /\ out[u] = "keyed" =>
              engine'[borrows[at[u]]] = "current"
<1> DEFINE i == at[t]
           c == borrows[i]
<1>1. CASE UNCHANGED <<engine, key>>
  BY <1>1 DEF IInv, KeyOf, KeyIsCurrent
<1>2. CASE Rekeys(t)
  <2>1. op[t] = "exchange" /\ c \in ColdcardCells /\ i \in Interps
    BY <1>2 DEF Rekeys, IInv, Shape, Calls
  <2>2. phase[i] = "running" /\ holds[i]
    BY <2>1 DEF IInv, PhaseOf, HoldsOf, Live
  <2>3. \A j \in Interps : holds[j] /\ borrows[j] = c => j = i
    BY <2>1, <2>2 DEF IInv, LeaseHasOneOwner, Owners
  <2>4. /\ key'[i] = "current"
        /\ \A j \in Interps : j # i /\ borrows[j] # c => key'[j] = key[j]
        /\ \A j \in Interps : j # i /\ borrows[j] = c => key'[j] = Outdated(key[j])
        /\ \A d \in ColdcardCells : d # c => engine'[d] = engine[d]
    BY <1>2, <2>1 DEF Rekeys, IInv, TypeOK
  <2>5. \A j \in Interps : j # i => key'[j] = key[j]
    BY <2>3, <2>4 DEF IInv, KeyOf, Outdated
  <2>6. \A j \in Interps : key'[j] # "none" =>
           holds[j] /\ borrows[j] \in ColdcardCells /\ key'[j] = "current"
    BY <2>1, <2>2, <2>4, <2>5 DEF IInv, KeyOf
  <2>7. \A u \in Threads : pc[u] \in {"install", "ready"} => key'[at[u]] = "current"
    BY <2>4, <2>5 DEF IInv, KeyOf, Shape, Calls
  <2>8. ASSUME NEW u \in Threads, pc[u] = "dropLease", out[u] = "keyed"
        PROVE  engine'[borrows[at[u]]] = "current"
    <3>1. at[u] \in Interps /\ phase[at[u]] = "gone" /\ holds[at[u]]
          /\ borrows[at[u]] \in ColdcardCells
      BY <2>8 DEF IInv, OutOf, Shape, Calls, PhaseOf, Dropping
    <3>2. borrows[at[u]] # c
      BY <2>2, <2>3, <3>1
    <3> QED
      BY <2>4, <2>8, <3>1, <3>2 DEF IInv, KeyIsCurrent
  <2> QED
    BY <2>6, <2>7, <2>8
<1> QED
  BY <1>1, <1>2 DEF Consumes

(* start and exchange, under the session mutex. *)
LEMMA StartExchangeInv ==
  ASSUME IInv, NEW t \in Threads, \/ Lock(t) \/ Misuse(t) \/ PreflightFails(t)
         \/ \E k \in {"unlock", "other"} : StartCommits(t, k)
         \/ ExchangeCommits(t) \/ CoreTransmits(t) \/ CoreFinishes(t)
         \/ ProtocolFails(t) \/ Unlock(t)
  PROVE  IInv'
<1> USE DEF IInv, TypeOK, Shape, Mutex, PhaseOf, HoldsOf, RefsOf, OutOf,
          LeaseHasOneOwner, SessionFate, KeyOf, KeyIsCurrent, Owners, Keys,
          Calls, Live, Exporting, Dropping, Inside, Phases, Ops, Results, Places,
          Lease!LeasedTypeOK, Lease!Acquire, Lease!Refused, Lease!Borrow,
          Lease!Return, Lease!Release, cellVars, threadVars,
          Enter, Leave, Goto, Continue, Yields, SetPhase, Reachable
<1>1. CASE Lock(t)
  BY <1>1, SMTT(60) DEF Lock
<1>2. CASE Misuse(t)
  BY <1>2, SMTT(60) DEF Misuse
<1>3. CASE PreflightFails(t)
  BY <1>3, SMTT(60) DEF PreflightFails
<1>4. ASSUME NEW k \in {"unlock", "other"}, StartCommits(t, k) PROVE IInv'
  BY <1>4, SMTT(60) DEF StartCommits
<1>5. CASE ExchangeCommits(t)
  BY <1>5, SMTT(60) DEF ExchangeCommits
<1>6. CASE CoreTransmits(t)
  <2>1. TypeOK'
    BY <1>6, TypeInv DEF IInv, Proceeds
  <2>2. KeyOf' /\ KeyIsCurrent'
    BY <1>6, ConsumesKeepsKeys, SMTT(60) DEF CoreTransmits
  <2>3. Shape' /\ Mutex' /\ PhaseOf'
    BY <1>6, SMTT(60) DEF CoreTransmits
  <2>4. HoldsOf' /\ RefsOf' /\ OutOf'
    BY <1>6, SMTT(60) DEF CoreTransmits
  <2>5. LeaseHasOneOwner' /\ SessionFate'
    BY <1>6, SMTT(60) DEF CoreTransmits
  <2> HIDE DEF TypeOK, Shape, Mutex, PhaseOf, HoldsOf, RefsOf, OutOf, LeaseHasOneOwner, SessionFate, KeyOf, KeyIsCurrent
  <2> QED BY <2>1, <2>2, <2>3, <2>4, <2>5 DEF IInv
<1>7. CASE CoreFinishes(t)
  <2>1. TypeOK'
    BY <1>7, TypeInv DEF IInv, Proceeds
  <2>2. KeyOf' /\ KeyIsCurrent'
    BY <1>7, ConsumesKeepsKeys, SMTT(60) DEF CoreFinishes
  <2>3. Shape' /\ Mutex' /\ PhaseOf'
    BY <1>7, SMTT(60) DEF CoreFinishes
  <2>4. HoldsOf' /\ RefsOf' /\ OutOf'
    BY <1>7, SMTT(60) DEF CoreFinishes
  <2>5. LeaseHasOneOwner' /\ SessionFate'
    BY <1>7, SMTT(60) DEF CoreFinishes
  <2> HIDE DEF TypeOK, Shape, Mutex, PhaseOf, HoldsOf, RefsOf, OutOf, LeaseHasOneOwner, SessionFate, KeyOf, KeyIsCurrent
  <2> QED BY <2>1, <2>2, <2>3, <2>4, <2>5 DEF IInv
<1>8. CASE ProtocolFails(t)
  <2>1. TypeOK'
    BY <1>8, TypeInv DEF IInv, Proceeds
  <2>2. KeyOf' /\ KeyIsCurrent'
    BY <1>8, ConsumesKeepsKeys, SMTT(60) DEF ProtocolFails
  <2>3. Shape' /\ Mutex' /\ PhaseOf'
    BY <1>8, SMTT(60) DEF ProtocolFails
  <2>4. HoldsOf' /\ RefsOf' /\ OutOf'
    BY <1>8, SMTT(60) DEF ProtocolFails
  <2>5. LeaseHasOneOwner' /\ SessionFate'
    BY <1>8, SMTT(60) DEF ProtocolFails
  <2> HIDE DEF TypeOK, Shape, Mutex, PhaseOf, HoldsOf, RefsOf, OutOf, LeaseHasOneOwner, SessionFate, KeyOf, KeyIsCurrent
  <2> QED BY <2>1, <2>2, <2>3, <2>4, <2>5 DEF IInv
<1>9. CASE Unlock(t)
  BY <1>9, SMTT(60) DEF Unlock
<1> HIDE DEF IInv
<1> QED BY <1>1, <1>2, <1>3, <1>4, <1>5, <1>6, <1>7, <1>8, <1>9 

(* end: the session is consumed first, its reference dies with the core
   interpreter, and the key is installed while the lease is still held. *)
LEMMA EndInv ==
  ASSUME IInv, NEW t \in Threads, \/ EndTakes(t)
         \/ \E r \in {"key", "match", "mismatch", "error"} : EndInner(t, r)
         \/ Install(t) \/ Ready(t)
  PROVE  IInv'
<1> USE DEF IInv, TypeOK, Shape, Mutex, PhaseOf, HoldsOf, RefsOf, OutOf,
          LeaseHasOneOwner, SessionFate, KeyOf, KeyIsCurrent, Owners, Keys,
          Calls, Live, Exporting, Dropping, Inside, Phases, Ops, Results, Places,
          Lease!LeasedTypeOK, Lease!Acquire, Lease!Refused, Lease!Borrow,
          Lease!Return, Lease!Release, cellVars, threadVars,
          Enter, Leave, Goto, Continue, Yields, SetPhase, Reachable
<1>1. CASE EndTakes(t)
  <2>1. TypeOK'
    BY <1>1, TypeInv DEF IInv, Proceeds
  <2> USE <1>1 DEF EndTakes
  <2>2. Shape'
    BY SMTT(60)
  <2>3. Mutex'
    BY SMTT(60)
  <2>4. PhaseOf'
    BY SMTT(60)
  <2>5. HoldsOf'
    <3>1. CASE phase[at[t]] = "finished"
      BY <3>1, SMTT(60)
    <3>2. CASE phase[at[t]] # "finished"
      BY <3>2, SMTT(60)
    <3> QED BY <3>1, <3>2
  <2>6. RefsOf'
    BY SMTT(60)
  <2>7. OutOf'
    BY SMTT(60)
  <2>8. LeaseHasOneOwner'
    <3>1. CASE phase[at[t]] = "finished"
      BY <3>1, SMTT(60)
    <3>2. CASE phase[at[t]] # "finished"
      BY <3>2, SMTT(60)
    <3> QED BY <3>1, <3>2
  <2>9. SessionFate'
    BY SMTT(60)
  <2>10. (KeyOf /\ KeyIsCurrent)'
    BY SMTT(60)
  <2> HIDE DEF TypeOK, Shape, Mutex, PhaseOf, HoldsOf, RefsOf, OutOf, LeaseHasOneOwner, SessionFate, KeyOf, KeyIsCurrent
  <2> QED BY <2>1, <2>2, <2>3, <2>4, <2>5, <2>6, <2>7, <2>8, <2>9, <2>10 DEF IInv
<1>2. ASSUME NEW r \in {"key", "match", "mismatch", "error"}, EndInner(t, r) PROVE IInv'
  <2>1. TypeOK'
    <3> HIDE DEF TypeOK, Shape
    <3>1. Proceeds(t)
      BY <1>2 DEF Proceeds
    <3>2. TypeOK /\ Shape
      BY DEF IInv
    <3> QED
      BY <3>1, <3>2, TypeInv
  <2> USE <1>2 DEF EndInner, Responses
  <2>2. Shape'
    BY SMTT(60)
  <2>3. Mutex'
    BY SMTT(60)
  <2>4. PhaseOf'
    BY SMTT(60)
  <2>5. HoldsOf'
    BY SMTT(60)
  <2>6. RefsOf'
    <3>1. CASE r = "key"
      BY <3>1, SMTT(60)
    <3>2. CASE r = "match"
      BY <3>2, SMTT(60)
    <3>3. CASE r \in {"mismatch", "error"}
      BY <3>3, SMTT(60)
    <3> QED BY <3>1, <3>2, <3>3
  <2>7. OutOf'
    BY SMTT(60)
  <2>8. LeaseHasOneOwner'
    <3>1. CASE r = "key"
      BY <3>1, SMTT(60)
    <3>2. CASE r = "match"
      BY <3>2, SMTT(60)
    <3>3. CASE r \in {"mismatch", "error"}
      BY <3>3, SMTT(60)
    <3> QED BY <3>1, <3>2, <3>3
  <2>9. SessionFate'
    BY SMTT(60)
  <2>10. (KeyOf /\ KeyIsCurrent)'
    BY SMTT(60)
  <2> HIDE DEF TypeOK, Shape, Mutex, PhaseOf, HoldsOf, RefsOf, OutOf, LeaseHasOneOwner, SessionFate, KeyOf, KeyIsCurrent
  <2> QED BY <2>1, <2>2, <2>3, <2>4, <2>5, <2>6, <2>7, <2>8, <2>9, <2>10 DEF IInv
<1>3. CASE Install(t)
  BY <1>3, SMTT(60) DEF Install
<1>4. CASE Ready(t)
  <2>1. TypeOK'
    BY <1>4, TypeInv DEF IInv, Proceeds
  <2> USE <1>4 DEF Ready
  <2>2. Shape'
    BY SMTT(60)
  <2>3. Mutex'
    BY SMTT(60)
  <2>4. PhaseOf'
    BY SMTT(60)
  <2>5. HoldsOf'
    BY SMTT(60)
  <2>6. RefsOf'
    BY SMTT(60)
  <2>7. OutOf'
    BY SMTT(60)
  <2>8. LeaseHasOneOwner'
    BY SMTT(60)
  <2>9. SessionFate'
    BY SMTT(60)
  <2>10. (KeyOf /\ KeyIsCurrent)'
    BY SMTT(60)
  <2> HIDE DEF TypeOK, Shape, Mutex, PhaseOf, HoldsOf, RefsOf, OutOf, LeaseHasOneOwner, SessionFate, KeyOf, KeyIsCurrent
  <2> QED BY <2>1, <2>2, <2>3, <2>4, <2>5, <2>6, <2>7, <2>8, <2>9, <2>10 DEF IInv
<1> HIDE DEF IInv
<1> QED BY <1>1, <1>2, <1>3, <1>4 

(* The drop of a lease: what it changes, whose it is, and who else can be  *)
(* at the object meanwhile.                                                *)
LEMMA DropLeaseFrame ==
  ASSUME IInv, NEW t \in Threads, DropLease(t)
  PROVE  LET i == at[t] IN
         /\ i \in Interps /\ pc[t] = "dropLease" /\ phase[i] = "gone"
         /\ op[t] \in Calls \cup {"free"}
         /\ holds[i] => borrows[i] \in Cells
         /\ refs' = refs /\ \A c \in Cells : i \notin refs[c]
         /\ \A j \in Interps : holds'[j] <=> (j # i /\ holds[j])
         /\ \A j \in Interps : j # i => phase'[j] = phase[j] /\ borrows'[j] = borrows[j]
         /\ \A u \in Threads : u # t => pc'[u] = pc[u] /\ at'[u] = at[u] /\ op'[u] = op[u]
         /\ op[t] # "free" => phase'[i] = "gone" /\ pc'[t] = "unlock" /\ at'[t] = i /\ op'[t] = op[t]
         /\ op[t] = "free" =>
              /\ phase'[i] = "absent" /\ borrows'[i] = NoCell
              /\ pc'[t] = "idle" /\ at'[t] = Nobody /\ op'[t] = "none"
         /\ \A u \in Threads : u # t /\ at[u] = i =>
              op[t] # "free" /\ op[u] # "new" /\ pc[u] \notin Dropping
         /\ \A c \in Cells : leased'[c] <=> (leased[c] /\ ~(holds[i] /\ borrows[i] = c))
<1> DEFINE i == at[t]
<1>1. i \in Interps /\ pc[t] = "dropLease" /\ op[t] \in Calls \cup {"free"}
  BY DEF DropLease, IInv, Shape, Calls
<1>2. phase[i] = "gone" /\ (holds[i] => borrows[i] \in Cells) /\ \A c \in Cells : i \notin refs[c]
  BY <1>1 DEF IInv, PhaseOf, Dropping, HoldsOf, RefsOf
<1>3. refs' = refs
  BY DEF DropLease, Lease!Release, cellVars
<1>4. \A j \in Interps : holds'[j] <=> (j # i /\ holds[j])
  BY <1>1 DEF DropLease, IInv, TypeOK
<1>5. \A j \in Interps : j # i => phase'[j] = phase[j] /\ borrows'[j] = borrows[j]
  BY DEF DropLease, SetPhase, IInv, TypeOK
<1>6. \A u \in Threads : u # t => pc'[u] = pc[u] /\ at'[u] = at[u] /\ op'[u] = op[u]
  BY DEF DropLease, Leave, Continue, Goto, IInv, TypeOK
<1>7. op[t] # "free" => phase'[i] = "gone" /\ pc'[t] = "unlock" /\ at'[t] = i /\ op'[t] = op[t]
  BY <1>2 DEF DropLease, Continue, Goto, IInv, TypeOK
<1>8. op[t] = "free" => /\ phase'[i] = "absent" /\ borrows'[i] = NoCell
                        /\ pc'[t] = "idle" /\ at'[t] = Nobody /\ op'[t] = "none"
  BY <1>1 DEF DropLease, Leave, Goto, SetPhase, IInv, TypeOK
<1>9. ASSUME NEW u \in Threads, u # t, at[u] = i
      PROVE  op[t] # "free" /\ op[u] # "new" /\ pc[u] \notin Dropping
  <2>1. op[t] # "free" /\ op[u] \notin {"new", "free"}
    BY <1>9 DEF IInv, Mutex
  <2>2. lock[i] = t
    BY <1>1, <2>1 DEF IInv, Mutex, Inside, Dropping
  <2> QED
    BY <1>9, <2>1, <2>2 DEF IInv, Mutex, Inside, Dropping
<1>10. \A c \in Cells : leased'[c] <=> (leased[c] /\ ~(holds[i] /\ borrows[i] = c))
  <2>1. leased \in [Cells -> BOOLEAN]
    BY DEF IInv, TypeOK, Lease!LeasedTypeOK
  <2>2. CASE holds[i]
    <3>1. leased' = [leased EXCEPT ![borrows[i]] = FALSE]
      BY <2>2 DEF DropLease, Lease!Release
    <3> QED
      BY <2>1, <2>2, <3>1
  <2>3. CASE ~holds[i]
    BY <2>1, <2>3 DEF DropLease, cellVars
  <2> QED
    BY <2>2, <2>3
<1> QED
  BY <1>1, <1>2, <1>3, <1>4, <1>5, <1>6, <1>7, <1>8, <1>9, <1>10, Zenon

LEMMA DropLeaseHolds ==
  ASSUME IInv, NEW t \in Threads, DropLease(t)
  PROVE  HoldsOf' /\ RefsOf' /\ LeaseHasOneOwner'
<1> DEFINE i == at[t]
<1>1. /\ i \in Interps /\ pc[t] = "dropLease" /\ phase[i] = "gone"
      /\ op[t] \in Calls \cup {"free"}
      /\ holds[i] => borrows[i] \in Cells
      /\ refs' = refs /\ \A c \in Cells : i \notin refs[c]
  BY DropLeaseFrame
<1>2. /\ \A j \in Interps : holds'[j] <=> (j # i /\ holds[j])
      /\ \A j \in Interps : j # i => phase'[j] = phase[j] /\ borrows'[j] = borrows[j]
      /\ \A u \in Threads : u # t => pc'[u] = pc[u] /\ at'[u] = at[u] /\ op'[u] = op[u]
  BY DropLeaseFrame
<1>3. /\ op[t] # "free" => phase'[i] = "gone" /\ pc'[t] = "unlock" /\ at'[t] = i /\ op'[t] = op[t]
      /\ op[t] = "free" => /\ phase'[i] = "absent" /\ borrows'[i] = NoCell
                            /\ pc'[t] = "idle" /\ at'[t] = Nobody /\ op'[t] = "none"
  BY DropLeaseFrame
<1>4. \A u \in Threads : u # t /\ at[u] = i =>
         op[t] # "free" /\ op[u] # "new" /\ pc[u] \notin Dropping
  BY DropLeaseFrame
<1>5. \A c \in Cells : leased'[c] <=> (leased[c] /\ ~(holds[i] /\ borrows[i] = c))
  BY DropLeaseFrame
<1> HIDE DEF i
<1>6. HoldsOf'
  <2>1. ASSUME NEW j \in Interps
        PROVE  /\ holds'[j] => borrows'[j] \in Cells
               /\ phase'[j] = "absent" => ~holds'[j] /\ borrows'[j] = NoCell
               /\ phase'[j] \in Live /\ borrows'[j] \in Cells =>
                    holds'[j] /\ j \in refs'[borrows'[j]]
               /\ phase'[j] = "gone" /\ holds'[j] =>
                    \E u \in Threads : at'[u] = j /\ pc'[u] \in Dropping
    <3>1. CASE j = i
      BY <1>2, <1>3, <3>1, <1>1 DEF Live, Calls
    <3>2. CASE j # i
      <4>1. /\ holds[j] => borrows[j] \in Cells
            /\ phase[j] = "absent" => ~holds[j] /\ borrows[j] = NoCell
            /\ phase[j] \in Live /\ borrows[j] \in Cells => holds[j] /\ j \in refs[borrows[j]]
            /\ phase[j] = "gone" /\ holds[j] =>
                 \E u \in Threads : at[u] = j /\ pc[u] \in Dropping
        BY DEF IInv, HoldsOf
      <4>2. (holds'[j] <=> holds[j]) /\ phase'[j] = phase[j] /\ borrows'[j] = borrows[j]
        BY <1>2, <3>2
      <4>3. \A u \in Threads : at[u] = j => u # t
        BY <3>2 DEF i
      <4> QED
        BY <1>1, <1>2, <4>1, <4>2, <4>3
    <3> QED
      BY <3>1, <3>2
  <2>2. ASSUME NEW u \in Threads
        PROVE  /\ op'[u] = "new" =>
                    borrows'[at'[u]] \in Cells /\ (holds'[at'[u]] <=> pc'[u] = "build")
               /\ pc'[u] = "inner" /\ borrows'[at'[u]] \in Cells => holds'[at'[u]]
               /\ pc'[u] \in {"install", "ready"} =>
                    holds'[at'[u]] /\ borrows'[at'[u]] \in ColdcardCells
    <3>1. CASE u = t
      BY <1>1, <1>3, <3>1 DEF Calls
    <3>2. CASE u # t
      <4>1. /\ op[u] = "new" => borrows[at[u]] \in Cells /\ (holds[at[u]] <=> pc[u] = "build")
            /\ pc[u] = "inner" /\ borrows[at[u]] \in Cells => holds[at[u]]
            /\ pc[u] \in {"install", "ready"} => holds[at[u]] /\ borrows[at[u]] \in ColdcardCells
        BY DEF IInv, HoldsOf
      <4>2. op[u] = "new" \/ pc[u] \in {"inner", "install", "ready"} => at[u] \in Interps /\ at[u] # i
        BY <1>4, <3>2 DEF IInv, Shape, Calls, Dropping
      <4>3. pc'[u] = pc[u] /\ at'[u] = at[u] /\ op'[u] = op[u]
        BY <1>2, <3>2
      <4> QED
        BY <1>2, <4>1, <4>2, <4>3
    <3> QED
      BY <3>1, <3>2
  <2> QED
    BY <2>1, <2>2, Zenon DEF HoldsOf
<1>7. RefsOf'
  <2>1. ASSUME NEW c \in Cells, NEW h \in refs'[c]
        PROVE  \/ h \in Interps /\ holds'[h] /\ borrows'[h] = c
               \/ h \in Threads /\ pc'[h] = "expRead" /\ at'[h] = c
               \/ h \in Threads /\ pc'[h] = "ready" /\ borrows'[at'[h]] = c
    <3>1. h \in refs[c] /\ h # i
      BY <1>1, <2>1
    <3>2. CASE h \in Interps /\ holds[h] /\ borrows[h] = c
      BY <1>2, <3>1, <3>2
    <3>3. CASE h \in Threads /\ pc[h] = "expRead" /\ at[h] = c
      BY <1>1, <1>2, <3>3
    <3>4. CASE h \in Threads /\ pc[h] = "ready" /\ borrows[at[h]] = c
      <4>1. h # t /\ at[h] \in Interps /\ at[h] # i
        BY <1>1, <1>4, <3>4 DEF IInv, Shape, Calls, Dropping
      <4> QED
        BY <1>2, <3>4, <4>1
    <3> QED
      BY <3>1, <3>2, <3>3, <3>4 DEF IInv, RefsOf
  <2>2. ASSUME NEW u \in Threads, pc'[u] \in {"install", "ready", "dropLease"}, NEW c \in Cells
        PROVE  at'[u] \notin refs'[c]
    <3>1. u # t
      BY <1>1, <1>3, <2>2 DEF Calls
    <3> QED
      BY <1>1, <1>2, <2>2, <3>1 DEF IInv, RefsOf
  <2> QED
    BY <2>1, <2>2, Zenon DEF RefsOf
<1>8. LeaseHasOneOwner'
  <2>1. \A c \in Cells : Owners(c)' = Owners(c) \ {i}
    <3> TAKE c \in Cells
    <3>1. \A j \in Interps : holds'[j] /\ borrows'[j] = c <=> j # i /\ holds[j] /\ borrows[j] = c
      BY <1>2
    <3>2. \A u \in Threads : pc'[u] \in {"expBorrow", "expRead", "expRelease"} /\ at'[u] = c
                           <=> pc[u] \in {"expBorrow", "expRead", "expRelease"} /\ at[u] = c
      BY <1>1, <1>2, <1>3 DEF Calls
    <3>3. i \notin Threads
      BY <1>1
    <3> QED
      BY <3>1, <3>2, <3>3 DEF Owners
  <2>2. \A c \in Cells : i \in Owners(c) <=> holds[i] /\ borrows[i] = c
    BY <1>1 DEF Owners
  <2>3. \A c \in Cells : (leased[c] <=> Owners(c) # {}) /\ \A x, y \in Owners(c) : x = y
    BY DEF IInv, LeaseHasOneOwner
  <2> QED
    BY <1>5, <2>1, <2>2, <2>3 DEF LeaseHasOneOwner
<1> QED
  BY <1>6, <1>7, <1>8

(* A Session is dropped: its reference first, then the lease. *)
LEMMA DropInv ==
  ASSUME IInv, NEW t \in Threads, DropInner(t) \/ DropLease(t)
  PROVE  IInv'
<1> USE DEF IInv, TypeOK, Shape, Mutex, PhaseOf, HoldsOf, RefsOf, OutOf,
          LeaseHasOneOwner, SessionFate, KeyOf, KeyIsCurrent, Owners, Keys,
          Calls, Live, Exporting, Dropping, Inside, Phases, Ops, Results, Places,
          Lease!LeasedTypeOK, Lease!Acquire, Lease!Refused, Lease!Borrow,
          Lease!Return, Lease!Release, cellVars, threadVars,
          Enter, Leave, Goto, Continue, Yields, SetPhase, Reachable
<1>1. CASE DropInner(t)
  <2>1. TypeOK'
    BY <1>1, TypeInv DEF IInv, Proceeds
  <2> USE <1>1 DEF DropInner
  <2>2. Shape'
    BY SMTT(60)
  <2>3. Mutex'
    BY SMTT(60)
  <2>4. PhaseOf'
    BY SMTT(60)
  <2>5. HoldsOf'
    BY SMTT(60)
  <2>6. RefsOf'
    BY SMTT(60)
  <2>7. OutOf'
    BY SMTT(60)
  <2>8. LeaseHasOneOwner'
    BY SMTT(60)
  <2>9. SessionFate'
    BY SMTT(60)
  <2>10. (KeyOf /\ KeyIsCurrent)'
    BY SMTT(60)
  <2> HIDE DEF TypeOK, Shape, Mutex, PhaseOf, HoldsOf, RefsOf, OutOf, LeaseHasOneOwner, SessionFate, KeyOf, KeyIsCurrent
  <2> QED BY <2>1, <2>2, <2>3, <2>4, <2>5, <2>6, <2>7, <2>8, <2>9, <2>10 DEF IInv
<1>2. CASE DropLease(t)
  <2>1. TypeOK'
    BY <1>2, TypeInv DEF IInv, Proceeds
  <2> USE <1>2 DEF DropLease
  <2>2. Shape'
    BY SMTT(60)
  <2>3. Mutex'
    BY SMTT(60)
  <2>4. PhaseOf'
    BY SMTT(60)
  <2>5. HoldsOf' /\ RefsOf' /\ LeaseHasOneOwner'
    BY DropLeaseHolds
  <2>7. OutOf'
    BY SMTT(60)
  <2>9. SessionFate'
    <3>1. CASE op[t] = "free"
      <4>1. ASSUME NEW u \in Threads, pc'[u] = "unlock"
            PROVE  u # t /\ at[u] # at[t] /\ pc[u] = "unlock"
        BY <3>1, <4>1
      <4>2. \A i \in Interps : i # at[t] => phase'[i] = phase[i] /\ borrows'[i] = borrows[i]
        BY <3>1, SMTT(60)
      <4>3. \A i \in Interps : holds'[i] => holds[i]
        BY SMTT(60)
      <4>4. \A i \in Interps : i # at[t] => holds'[i] = holds[i]
        BY SMTT(60)
      <4>5. \A u \in Threads : u # t => out'[u] = out[u] /\ op'[u] = op[u] /\ at'[u] = at[u]
        BY <3>1, SMTT(60)
      <4> QED BY <4>1, <4>2, <4>3, <4>4, <4>5
    <3>2. CASE op[t] # "free" /\ holds[at[t]]
      BY <3>2, SMTT(60)
    <3>3. CASE op[t] # "free" /\ ~holds[at[t]]
      BY <3>3, SMTT(60)
    <3> QED BY <3>1, <3>2, <3>3
  <2>10. (KeyOf /\ KeyIsCurrent)'
    BY SMTT(60)
  <2> HIDE DEF TypeOK, Shape, Mutex, PhaseOf, HoldsOf, RefsOf, OutOf, LeaseHasOneOwner, SessionFate, KeyOf, KeyIsCurrent
  <2> QED BY <2>1, <2>2, <2>3, <2>4, <2>5, <2>7, <2>9, <2>10 DEF IInv
<1> HIDE DEF IInv
<1> QED BY <1>1, <1>2 

(* Leased::with. *)
LEMMA ExportInv ==
  ASSUME IInv, NEW t \in Threads, \/ ExportAcquires(t) \/ ExportRefused(t) \/ ExportBorrows(t)
         \/ ExportReads(t) \/ ExportReleases(t)
  PROVE  IInv'
<1> USE DEF IInv, TypeOK, Shape, Mutex, PhaseOf, HoldsOf, RefsOf, OutOf,
          LeaseHasOneOwner, SessionFate, KeyOf, KeyIsCurrent, Owners, Keys,
          Calls, Live, Exporting, Dropping, Inside, Phases, Ops, Results, Places,
          Lease!LeasedTypeOK, Lease!Acquire, Lease!Refused, Lease!Borrow,
          Lease!Return, Lease!Release, cellVars, threadVars,
          Enter, Leave, Goto, Continue, Yields, SetPhase, Reachable
<1>1. CASE ExportAcquires(t)
  BY <1>1, SMTT(60) DEF ExportAcquires
<1>2. CASE ExportRefused(t)
  <2> USE <1>2 DEF ExportRefused
  <2>1. TypeOK' /\ Shape' /\ Mutex' /\ PhaseOf'
    BY SMTT(60)
  <2>2. HoldsOf' /\ RefsOf' /\ OutOf'
    BY SMTT(60)
  <2>3. LeaseHasOneOwner' /\ SessionFate' /\ KeyOf' /\ KeyIsCurrent'
    BY SMTT(60)
  <2> QED BY <2>1, <2>2, <2>3
<1>3. CASE ExportBorrows(t)
  BY <1>3, SMTT(60) DEF ExportBorrows
<1>4. CASE ExportReads(t)
  BY <1>4, SMTT(60) DEF ExportReads
<1>5. CASE ExportReleases(t)
  BY <1>5, SMTT(60) DEF ExportReleases
<1> HIDE DEF IInv
<1> QED BY <1>1, <1>2, <1>3, <1>4, <1>5

LEMMA StutterInv == IInv /\ UNCHANGED vars => IInv'
BY DEF vars, IInv, TypeOK, Shape, Mutex, PhaseOf, HoldsOf, RefsOf, OutOf,
       LeaseHasOneOwner, SessionFate, KeyOf, KeyIsCurrent, Owners,
       Lease!LeasedTypeOK

LEMMA Inductive == IInv /\ [Next]_vars => IInv'
<1> SUFFICES ASSUME IInv, [Next]_vars PROVE IInv'
  OBVIOUS
<1>1. CASE UNCHANGED vars
  BY <1>1, StutterInv
<1>2. ASSUME NEW t \in Threads, Enters(t) PROVE IInv'
  BY <1>2, EntersInv
<1>3. ASSUME NEW t \in Threads, Lock(t) PROVE IInv'
  BY <1>3, StartExchangeInv
<1>4. ASSUME NEW t \in Threads, Proceeds(t) PROVE IInv'
  BY <1>4, ConstructorInv, StartExchangeInv, EndInv, DropInv, ExportInv DEF Proceeds
<1> QED BY <1>1, <1>2, <1>3, <1>4 DEF Next

-----------------------------------------------------------------------------
(* The references under IInv: each belongs to the owner of the lease. *)
LEMMA ReferencesOwned ==
  ASSUME IInv
  PROVE  NoAliasing
<1> USE DEF IInv
<1> SUFFICES ASSUME NEW c \in Cells
             PROVE  /\ \A g, h \in refs[c] : g = h
                    /\ refs[c] # {} => leased[c]
  BY DEF NoAliasing, Lease!NoAliasing
<1> DEFINE ownerOf(h) == IF h \in Threads /\ pc[h] = "ready" THEN at[h] ELSE h
<1>1. \A h \in refs[c] : ownerOf(h) \in Owners(c)
  BY DEF RefsOf, HoldsOf, Shape, Owners, Exporting, Calls
<1>2. \A h \in refs[c] : \A u \in Threads :
        pc[u] = "ready" /\ at[u] = h => FALSE
  BY DEF RefsOf
<1>3. \A g, h \in refs[c] : ownerOf(g) = ownerOf(h) => g = h
  BY <1>2 DEF RefsOf, Mutex, Shape, Inside, Dropping
<1>4. \A g, h \in refs[c] : ownerOf(g) = ownerOf(h)
  BY <1>1 DEF LeaseHasOneOwner
<1>5. \A g, h \in refs[c] : g = h
  BY <1>3, <1>4
<1>6. refs[c] # {} => leased[c]
  BY <1>1 DEF LeaseHasOneOwner
<1> QED BY <1>5, <1>6

-----------------------------------------------------------------------------
(* The theorems. *)

(* The inductive invariant holds in every reachable state. *)
THEOREM Invariance == Spec => []IInv
BY InitInv, Inductive, PTL DEF Spec

(* The state keeps its types. *)
THEOREM TypeCorrect == Spec => []TypeOK
<1>1. IInv => TypeOK
  BY DEF IInv
<1> QED BY <1>1, Invariance, PTL

(* The flag of a handle is set exactly while one interpreter or one export *)
(* is entitled to it, whatever the number of threads.                      *)
THEOREM OneOwner == Spec => []LeaseHasOneOwner
<1>1. IInv => LeaseHasOneOwner
  BY DEF IInv
<1> QED BY <1>1, Invariance, PTL

(* No two `&mut` into a handle coexist and none outlives its lease: the    *)
(* soundness argument of the `unsafe` blocks of interp.rs and state.rs.    *)
THEOREM Soundness == Spec => []NoAliasing
BY ReferencesOwned, Invariance, PTL

(* No thread is ever inside a core interpreter that another call consumed, *)
(* retired or entered.                                                     *)
THEOREM CoreSafe == Spec => []CoreHasSession
<1>1. ASSUME IInv PROVE CoreHasSession
  <2> SUFFICES ASSUME NEW t \in Threads, pc[t] = "core"
               PROVE  /\ phase[at[t]] = "running"
                      /\ borrows[at[t]] \in Cells => at[t] \in refs[borrows[at[t]]]
                      /\ \A u \in Threads : pc[u] = "core" /\ at[u] = at[t] => u = t
    BY DEF CoreHasSession
  <2> USE <1>1 DEF IInv, Shape, Calls
  <2>1. phase[at[t]] = "running"
    BY DEF PhaseOf
  <2>2. borrows[at[t]] \in Cells => at[t] \in refs[borrows[at[t]]]
    BY <2>1 DEF HoldsOf, Live
  <2>3. \A u \in Threads : pc[u] = "core" /\ at[u] = at[t] => u = t
    BY DEF Mutex, Inside
  <2> QED BY <2>1, <2>2, <2>3
<1> QED BY <1>1, Invariance, PTL

(* What a call reports agrees with the session it leaves behind. *)
THEOREM FateCorrect == Spec => []SessionFate
<1>1. IInv => SessionFate
  BY DEF IInv
<1> QED BY <1>1, Invariance, PTL

(* The key that is installed, and reported with the lease still held, is   *)
(* the one the device uses, however many interpreters compete for it.      *)
THEOREM KeyInstalled == Spec => []KeyIsCurrent
<1>1. IInv => KeyIsCurrent
  BY DEF IInv
<1> QED BY <1>1, Invariance, PTL
-----------------------------------------------------------------------------
(* The refinement: the owner of a lease is the interpreter or the export   *)
(* that is entitled to it.                                                 *)

Owned == [c \in Cells |-> OwnerOf(c)]

LEMMA OwnerIsHolder ==
  ASSUME IInv, NEW c \in Cells
  PROVE  /\ leased[c] => OwnerOf(c) \in Owners(c) /\ OwnerOf(c) # Nobody
         /\ ~leased[c] => OwnerOf(c) = Nobody
         /\ \A h \in Owners(c) : OwnerOf(c) = h
<1>1. leased[c] <=> Owners(c) # {}
  BY DEF IInv, LeaseHasOneOwner
<1>2. \A x, y \in Owners(c) : x = y
  BY DEF IInv, LeaseHasOneOwner
<1>3. leased[c] => OwnerOf(c) \in Owners(c)
  BY <1>1 DEF OwnerOf
<1>4. Nobody \notin Owners(c)
  BY DEF Owners
<1> QED
  BY <1>1, <1>2, <1>3, <1>4 DEF OwnerOf

(* A step that leaves the flag of a cell and those entitled to it alone    *)
(* does not change its owner.                                              *)
LEMMA OwnerKept ==
  ASSUME IInv, IInv', NEW c \in Cells, leased'[c] = leased[c], Owners(c)' = Owners(c)
  PROVE  OwnerOf(c)' = OwnerOf(c)
<1>1. CASE leased[c]
  <2>1. PICK x : x \in Owners(c)
    BY <1>1 DEF IInv, LeaseHasOneOwner
  <2>2. OwnerOf(c) = x
    BY <2>1, OwnerIsHolder
  <2>3. leased'[c] /\ x \in Owners(c)' /\ \A g, h \in Owners(c)' : g = h
    BY <1>1, <2>1 DEF IInv, LeaseHasOneOwner
  <2>4. OwnerOf(c)' = x
    BY <2>3 DEF OwnerOf
  <2> QED
    BY <2>2, <2>4
<1>2. CASE ~leased[c]
  BY <1>2 DEF OwnerOf
<1> QED
  BY <1>1, <1>2

LEMMA OwnersKept ==
  ASSUME IInv, IInv', leased' = leased, \A c \in Cells : Owners(c)' = Owners(c)
  PROVE  Owned' = Owned
<1>1. \A c \in Cells : OwnerOf(c)' = OwnerOf(c)
  BY OwnerKept
<1> QED
  BY <1>1 DEF Owned

LEMMA BorrowRefines ==
  ASSUME IInv, NoAliasing', NEW c \in Cells, NEW h \in Threads \cup Interps,
         Lease!Borrow(c, h), Owned' = Owned
  PROVE  Exclusive!Next \/ UNCHANGED <<Owned, refs>>
<1>1. /\ refs' = [refs EXCEPT ![c] = @ \cup {h}] /\ leased' = leased
      /\ refs \in [Cells -> SUBSET (Threads \cup Interps)]
  BY DEF Lease!Borrow, IInv, TypeOK, Lease!LeasedTypeOK
<1>2. h \in refs'[c]
  BY <1>1
<1>3. leased[c] /\ \A g \in refs'[c] : g = h
  BY <1>1, <1>2 DEF NoAliasing, Lease!NoAliasing
<1>4. CASE refs[c] = {}
  <2>1. refs' = [refs EXCEPT ![c] = {h}]
    BY <1>1, <1>4
  <2>2. Owned[c] # Nobody
    BY <1>3, OwnerIsHolder DEF Owned
  <2>3. Exclusive!Borrow(c, h)
    BY <1>4, <2>1, <2>2 DEF Exclusive!Borrow, Owned
  <2> QED
    BY <2>3 DEF Exclusive!Next
<1>5. CASE refs[c] # {}
  <2>1. h \in refs[c]
    BY <1>1, <1>3, <1>5
  <2> QED
    BY <1>1, <2>1
<1> QED
  BY <1>4, <1>5

LEMMA ReturnRefines ==
  ASSUME IInv, NEW c \in Cells, NEW h, Lease!Return(c, h), Owned' = Owned
  PROVE  Exclusive!Next \/ UNCHANGED <<Owned, refs>>
<1>1. /\ refs' = [refs EXCEPT ![c] = @ \ {h}]
      /\ refs \in [Cells -> SUBSET (Threads \cup Interps)]
  BY DEF Lease!Return, IInv, TypeOK, Lease!LeasedTypeOK
<1>2. CASE h \in refs[c]
  <2>1. refs[c] \ {h} = {}
    BY <1>2, ReferencesOwned DEF NoAliasing, Lease!NoAliasing
  <2>2. Exclusive!Return(c)
    BY <1>1, <2>1 DEF Exclusive!Return, Owned
  <2> QED
    BY <2>2 DEF Exclusive!Next
<1>3. CASE h \notin refs[c]
  BY <1>1, <1>3
<1> QED
  BY <1>2, <1>3

LEMMA TakeRefines ==
  ASSUME IInv, IInv', NEW c \in Cells, NEW h \in Threads \cup Interps,
         Lease!Acquire(c), h \in Owners(c)',
         \A d \in Cells \ {c} : Owners(d)' = Owners(d)
  PROVE  Exclusive!Next
<1>1. /\ ~leased[c] /\ leased' = [leased EXCEPT ![c] = TRUE] /\ refs' = refs
      /\ leased \in [Cells -> BOOLEAN]
  BY DEF Lease!Acquire, IInv, TypeOK, Lease!LeasedTypeOK
<1>2. OwnerOf(c) = Nobody
  BY <1>1, OwnerIsHolder
<1>3. OwnerOf(c)' = h
  <2>1. leased'[c] /\ \A x, y \in Owners(c)' : x = y
    BY <1>1 DEF IInv, LeaseHasOneOwner
  <2> QED
    BY <2>1 DEF OwnerOf
<1>4. \A d \in Cells \ {c} : OwnerOf(d)' = OwnerOf(d)
  BY <1>1, OwnerKept
<1>5. Exclusive!Take(c, h)
  BY <1>1, <1>2, <1>3, <1>4 DEF Exclusive!Take
<1> QED
  BY <1>5 DEF Exclusive!Next

LEMMA GiveRefines ==
  ASSUME IInv, IInv', NoAliasing', NEW c \in Cells, Lease!Release(c),
         \A d \in Cells \ {c} : Owners(d)' = Owners(d)
  PROVE  Exclusive!Next
<1>1. /\ leased' = [leased EXCEPT ![c] = FALSE] /\ refs' = refs
      /\ leased \in [Cells -> BOOLEAN]
  BY DEF Lease!Release, IInv, TypeOK, Lease!LeasedTypeOK
<1>2. ~leased'[c]
  BY <1>1
<1>3. refs[c] = {}
  BY <1>1, <1>2 DEF NoAliasing, Lease!NoAliasing
<1>4. OwnerOf(c)' = Nobody
  BY <1>2 DEF OwnerOf
<1>5. \A d \in Cells \ {c} : OwnerOf(d)' = OwnerOf(d)
  BY <1>1, OwnerKept
<1>6. Exclusive!Give(c)
  BY <1>1, <1>3, <1>4, <1>5 DEF Exclusive!Give
<1> QED
  BY <1>6 DEF Exclusive!Next

LEMMA RefinementInit == Init => Exclusive!Init
BY DEF Init, Lease!LeasedInit, Exclusive!Init, OwnerOf

(* All steps but four leave the flags and those entitled to them alone. *)
LEMMA OtherSteps ==
  ASSUME IInv, NEW t \in Threads,
         \/ Enters(t) \/ Lock(t) \/ NewRefused(t) \/ Build(t) \/ Misuse(t) \/ PreflightFails(t)
         \/ \E k \in {"unlock", "other"} : StartCommits(t, k)
         \/ ExchangeCommits(t) \/ CoreTransmits(t) \/ CoreFinishes(t) \/ ProtocolFails(t)
         \/ EndTakes(t) \/ \E r \in {"key", "match", "mismatch", "error"} : EndInner(t, r)
         \/ Install(t) \/ Ready(t) \/ DropInner(t) \/ Unlock(t)
         \/ ExportRefused(t) \/ ExportBorrows(t) \/ ExportReads(t)
  PROVE  leased' = leased /\ \A c \in Cells : Owners(c)' = Owners(c)
<1> USE DEF IInv, TypeOK, Shape, HoldsOf, Owners, Lease!LeasedTypeOK, cellVars, threadVars,
          Calls, Exporting, Lease!Refused, Lease!Borrow, Lease!Return,
          Enter, Leave, Goto, Continue, Yields
<1>1. CASE Enters(t)
  <2>1. ASSUME NEW i \in Interps, NEW c \in Cells, NewBorrowing(t, i, c)
        PROVE  leased' = leased /\ \A d \in Cells : Owners(d)' = Owners(d)
    BY <2>1 DEF NewBorrowing
  <2>2. CASE \/ \E i \in Interps : NewOwned(t, i) \/ Free(t, i)
             \/ \E i \in Interps, o \in {"start", "exchange", "end"} : Call(t, i, o)
             \/ \E c \in NoiseCells : Export(t, c)
    BY <2>2 DEF NewOwned, Free, Call, Export
  <2> QED
    BY <1>1, <2>1, <2>2 DEF Enters
<1>2. CASE NewRefused(t)
  BY <1>2 DEF NewRefused
<1>3. CASE Lock(t) \/ Build(t) \/ Misuse(t) \/ PreflightFails(t)
  BY <1>3 DEF Lock, Build, Misuse, PreflightFails
<1>4. CASE \/ \E k \in {"unlock", "other"} : StartCommits(t, k)
           \/ ExchangeCommits(t) \/ CoreTransmits(t) \/ CoreFinishes(t)
  BY <1>4 DEF StartCommits, ExchangeCommits, CoreTransmits, CoreFinishes
<1>5. CASE ProtocolFails(t) \/ EndTakes(t) \/ Install(t) \/ Unlock(t)
  BY <1>5 DEF ProtocolFails, EndTakes, Install, Unlock
<1>6. CASE \E r \in {"key", "match", "mismatch", "error"} : EndInner(t, r)
  BY <1>6 DEF EndInner
<1>7. CASE Ready(t) \/ DropInner(t)
  BY <1>7 DEF Ready, DropInner
<1>8. CASE ExportRefused(t) \/ ExportBorrows(t) \/ ExportReads(t)
  BY <1>8 DEF ExportRefused, ExportBorrows, ExportReads
<1> QED
  BY <1>1, <1>2, <1>3, <1>4, <1>5, <1>6, <1>7, <1>8

(* Every step takes, borrows, returns, gives or leaves the cells as they are. *)
LEMMA RefinementStep ==
  ASSUME IInv, IInv', NoAliasing', [Next]_vars
  PROVE  Exclusive!Next \/ UNCHANGED <<Owned, refs>>
<1>1. CASE UNCHANGED vars
  BY <1>1, OwnersKept DEF vars, Owners
<1>2. ASSUME NEW t \in Threads, NewAcquires(t)
      PROVE  Exclusive!Next
  <2>1. at[t] \in Interps /\ borrows[at[t]] \in Cells /\ ~holds[at[t]]
    BY <1>2 DEF NewAcquires, IInv, Shape, HoldsOf
  <2>2. /\ Lease!Acquire(borrows[at[t]]) /\ holds' = [holds EXCEPT ![at[t]] = TRUE]
        /\ pc' = [pc EXCEPT ![t] = "build"] /\ pc[t] = "acquire"
        /\ UNCHANGED <<borrows, at>>
    BY <1>2 DEF NewAcquires, Continue, Goto
  <2>3. at[t] \in Owners(borrows[at[t]])'
    BY <2>1, <2>2 DEF Owners, IInv, TypeOK
  <2>4. \A d \in Cells \ {borrows[at[t]]} : Owners(d)' = Owners(d)
    BY <2>1, <2>2 DEF Owners, IInv, TypeOK
  <2> QED
    BY <2>1, <2>2, <2>3, <2>4, TakeRefines
<1>3. ASSUME NEW t \in Threads, ExportAcquires(t)
      PROVE  Exclusive!Next
  <2>1. at[t] \in Cells
    BY <1>3 DEF ExportAcquires, IInv, Shape, Exporting
  <2>2. /\ Lease!Acquire(at[t]) /\ pc' = [pc EXCEPT ![t] = "expBorrow"]
        /\ pc[t] = "expAcquire" /\ UNCHANGED <<holds, borrows, at>>
    BY <1>3 DEF ExportAcquires, Continue, Goto
  <2>3. t \in Owners(at[t])'
    BY <2>1, <2>2 DEF Owners, IInv, TypeOK
  <2>4. \A d \in Cells \ {at[t]} : Owners(d)' = Owners(d)
    BY <2>1, <2>2 DEF Owners, IInv, TypeOK
  <2> QED
    BY <2>1, <2>2, <2>3, <2>4, TakeRefines
<1>4. ASSUME NEW t \in Threads, ExportReleases(t)
      PROVE  Exclusive!Next
  <2>1. at[t] \in Cells
    BY <1>4 DEF ExportReleases, IInv, Shape, Exporting
  <2>2. /\ Lease!Release(at[t]) /\ pc' = [pc EXCEPT ![t] = "idle"] /\ pc[t] = "expRelease"
        /\ at' = [at EXCEPT ![t] = Nobody] /\ UNCHANGED <<holds, borrows>>
    BY <1>4 DEF ExportReleases, Leave, Goto
  <2>3. \A d \in Cells \ {at[t]} : Owners(d)' = Owners(d)
    BY <2>1, <2>2 DEF Owners, IInv, TypeOK
  <2> QED
    BY <2>1, <2>2, <2>3, GiveRefines
<1>5. ASSUME NEW t \in Threads, DropLease(t)
      PROVE  Exclusive!Next \/ UNCHANGED <<Owned, refs>>
  <2>1. /\ at[t] \in Interps /\ pc[t] = "dropLease"
        /\ holds[at[t]] => borrows[at[t]] \in Cells
    BY <1>5 DEF DropLease, IInv, Shape, Calls, HoldsOf
  <2>2. /\ holds' = [holds EXCEPT ![at[t]] = FALSE]
        /\ \A i \in Interps \ {at[t]} : borrows'[i] = borrows[i]
        /\ \A u \in Threads \ {t} : pc'[u] = pc[u] /\ at'[u] = at[u]
        /\ pc'[t] \in {"idle", "unlock"}
    BY <1>5 DEF DropLease, Leave, Continue, Goto, IInv, TypeOK
  <2>3. CASE holds[at[t]]
    <3>1. Lease!Release(borrows[at[t]])
      BY <1>5, <2>3 DEF DropLease
    <3>2. \A d \in Cells \ {borrows[at[t]]} : Owners(d)' = Owners(d)
      BY <2>1, <2>2 DEF Owners, IInv, TypeOK
    <3> QED
      BY <2>1, <2>3, <3>1, <3>2, GiveRefines
  <2>4. CASE ~holds[at[t]]
    <3>1. UNCHANGED cellVars
      BY <1>5, <2>4 DEF DropLease
    <3>2. \A d \in Cells : Owners(d)' = Owners(d)
      BY <2>1, <2>2, <2>4 DEF Owners, IInv, TypeOK
    <3> QED
      BY <3>1, <3>2, OwnersKept DEF cellVars
  <2> QED
    BY <2>3, <2>4
<1>6. ASSUME NEW t \in Threads,
             Build(t) \/ Install(t) \/ ExportBorrows(t)
      PROVE  Exclusive!Next \/ UNCHANGED <<Owned, refs>>
  <2>1. Owned' = Owned
    BY <1>6, OtherSteps, OwnersKept
  <2>2. CASE Build(t)
    <3>1. Lease!Borrow(borrows[at[t]], at[t]) /\ at[t] \in Interps /\ borrows[at[t]] \in Cells
      BY <2>2 DEF Build, IInv, Shape, HoldsOf
    <3> QED
      BY <2>1, <3>1, BorrowRefines
  <2>3. CASE Install(t)
    <3>1. Lease!Borrow(borrows[at[t]], t) /\ borrows[at[t]] \in Cells
      BY <2>3 DEF Install, IInv, HoldsOf
    <3> QED
      BY <2>1, <3>1, BorrowRefines
  <2>4. CASE ExportBorrows(t)
    <3>1. Lease!Borrow(at[t], t) /\ at[t] \in Cells
      BY <2>4 DEF ExportBorrows, IInv, Shape, Exporting
    <3> QED
      BY <2>1, <3>1, BorrowRefines
  <2> QED
    BY <1>6, <2>2, <2>3, <2>4
<1>7. ASSUME NEW t \in Threads,
             \/ \E r \in {"key", "match", "mismatch", "error"} : EndInner(t, r)
             \/ Ready(t) \/ DropInner(t) \/ ExportReads(t)
      PROVE  Exclusive!Next \/ UNCHANGED <<Owned, refs>>
  <2>1. Owned' = Owned
    BY <1>7, OtherSteps, OwnersKept
  <2>2. ASSUME NEW i \in Interps, at[t] = i, holds[i], Lease!Return(borrows[i], i)
        PROVE  Exclusive!Next \/ UNCHANGED <<Owned, refs>>
    <3>1. borrows[i] \in Cells
      BY <2>2 DEF IInv, HoldsOf
    <3> QED
      BY <2>1, <2>2, <3>1, ReturnRefines
  <2>3. CASE DropInner(t) \/ \E r \in {"key", "match", "mismatch", "error"} : EndInner(t, r)
    <3>1. at[t] \in Interps
      BY <2>3 DEF DropInner, EndInner, IInv, Shape, Calls
    <3>2. CASE holds[at[t]]
      BY <2>2, <2>3, <3>1, <3>2 DEF DropInner, EndInner
    <3>3. CASE ~holds[at[t]]
      BY <2>1, <2>3, <3>3 DEF DropInner, EndInner, cellVars
    <3> QED
      BY <3>2, <3>3
  <2>4. CASE Ready(t)
    <3>1. Lease!Return(borrows[at[t]], t) /\ borrows[at[t]] \in Cells
      BY <2>4 DEF Ready, IInv, HoldsOf
    <3> QED
      BY <2>1, <3>1, ReturnRefines
  <2>5. CASE ExportReads(t)
    <3>1. Lease!Return(at[t], t) /\ at[t] \in Cells
      BY <2>5 DEF ExportReads, IInv, Shape, Exporting
    <3> QED
      BY <2>1, <3>1, ReturnRefines
  <2> QED
    BY <1>7, <2>3, <2>4, <2>5
<1>8. ASSUME NEW t \in Threads,
             \/ Enters(t) \/ Lock(t) \/ NewRefused(t) \/ Misuse(t) \/ PreflightFails(t)
             \/ \E k \in {"unlock", "other"} : StartCommits(t, k)
             \/ ExchangeCommits(t) \/ CoreTransmits(t) \/ CoreFinishes(t) \/ ProtocolFails(t)
             \/ EndTakes(t) \/ Unlock(t) \/ ExportRefused(t)
      PROVE  UNCHANGED <<Owned, refs>>
  <2>1. Owned' = Owned
    BY <1>8, OtherSteps, OwnersKept
  <2>2. refs' = refs
    BY <1>8 DEF Enters, NewBorrowing, NewOwned, Call, Free, Export, Lock, NewRefused, Misuse,
                PreflightFails, StartCommits, ExchangeCommits, CoreTransmits, CoreFinishes,
                ProtocolFails, EndTakes, Unlock, ExportRefused, cellVars, Lease!Refused
  <2> QED
    BY <2>1, <2>2
<1> QED
  BY <1>1, <1>2, <1>3, <1>4, <1>5, <1>6, <1>7, <1>8 DEF Next, Proceeds

(* The interpreters and handles together are an ExclusiveLease: a lease is *)
(* taken only from nobody, borrowed under its owner by one reference at a  *)
(* time, and given up only when no reference is left.                      *)
THEOREM LeaseIsExclusive == Spec => ImplementsExclusiveLease
<1>1. IInv /\ IInv' /\ NoAliasing' /\ [Next]_vars => [Exclusive!Next]_<<Owned, refs>>
  BY RefinementStep
<1> QED
  BY <1>1, RefinementInit, Invariance, Soundness, PTL DEF Spec, ImplementsExclusiveLease, Exclusive!Spec, Owned
=============================================================================
