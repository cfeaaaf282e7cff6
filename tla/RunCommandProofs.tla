-------------------------- MODULE RunCommandProofs --------------------------
(***************************************************************************)
(* Proofs about RunCommand for any number of commands, with and without an  *)
(* HttpBridge: a handshake's code is shown before its verification is sent, *)
(* and a cancelled command carries out at most the operation it has begun. *)
(***************************************************************************)
EXTENDS RunCommand, TLAPS

USE RunAssumption

-----------------------------------------------------------------------------
(* Where the code of a handshake whose verification is due may be. *)
CodeOnItsWay ==
  transmit.kind = "verify" =>
    \/ n \in shown
    \/ pc \in {"?take", "take"} /\ slot = n
    \/ pc = "onCode" /\ code = n
    \/ pc = "close"

(* An operation that is about to begin is the first since the cancellation. *)
OneLate ==
  /\ late \in {0, 1}
  /\ ~cancelled => late = 0
  /\ pc \in Operations => late = 0

IInv ==
  /\ TypeOK
  /\ pc # "idle" => n \in Commands
  /\ pc = "idle" => transmit = NoPayload
  /\ pc = "onCode" => code # 0
  /\ CodeOnItsWay
  /\ OneLate

LEMMA InitHolds == Init => IInv
<1> SUFFICES ASSUME Init PROVE IInv
  OBVIOUS
<1>1. TypeOK
  <2>1. /\ n \in Handshakes /\ slot \in Handshakes /\ awaiting \in Handshakes
        /\ code \in Handshakes /\ late \in 0 .. LateCap
    BY DEF Init, Handshakes, LateCap
  <2>2. broke \in BOOLEAN /\ cancelled \in BOOLEAN
    BY Zenon DEF Init
  <2> QED
    BY <2>1, <2>2, Zenon DEF Init, TypeOK, Places
<1>2. CodeOnItsWay /\ OneLate
  BY DEF Init, CodeOnItsWay, OneLate, Operations, NoPayload
<1> QED
  BY <1>1, <1>2 DEF Init, IInv

(* Caller, transport and the checks between the operations. *)
LEMMA OutsideHolds ==
  ASSUME IInv, Invoke \/ Cancel \/ Reply \/ TransportFails \/ TransportCancelled
  PROVE  IInv'
<1> USE DEF IInv, TypeOK, CodeOnItsWay, OneLate, Places, Operations, Checkpoints, Handshakes,
            Commands, Payloads, Recipients, NoPayload, LateCap
<1>1. CASE Invoke
  <2>1. n' \in Commands
    BY <1>1 DEF Invoke
  <2>2. TypeOK'
    <3>1. /\ n' \in Handshakes /\ pc' \in Places /\ late' \in 0 .. LateCap
      BY <1>1, <2>1 DEF Invoke
    <3>2. broke' \in BOOLEAN /\ cancelled' \in BOOLEAN
      BY <1>1, Zenon DEF Invoke
    <3> HIDE DEF IInv, Places, Handshakes, Commands, Payloads, NoPayload
    <3> QED
      BY <1>1, <3>1, <3>2 DEF Invoke, IInv
  <2>3. CodeOnItsWay' /\ OneLate'
    BY <1>1 DEF Invoke
  <2> QED
    BY <1>1, <2>1, <2>2, <2>3 DEF Invoke
<1>2. CASE Cancel
  BY <1>2 DEF Cancel
<1>3. CASE Reply
  BY <1>3 DEF Reply
<1>4. CASE TransportFails \/ TransportCancelled
  BY <1>4 DEF TransportFails, TransportCancelled
<1> QED
  BY <1>1, <1>2, <1>3, <1>4

LEMMA LoopHolds ==
  ASSUME IInv, Loop
  PROVE  IInv'
<1> USE DEF IInv, TypeOK, CodeOnItsWay, OneLate, Places, Operations, Checkpoints, Handshakes,
            Commands, Payloads, Recipients, NoPayload, LateCap, BeginsOp
<1>1. CASE Check
  <2>1. Guarded[pc] \in Operations /\ (Guarded[pc] = "take" <=> pc = "?take")
    BY <1>1 DEF Check, Guarded
  <2> QED
    BY <1>1, <2>1 DEF Check
<1>2. CASE Start
  BY <1>2 DEF Start
<1>3. CASE DeliverToDevice
  BY <1>3 DEF DeliverToDevice
<1>4. CASE DeliverToPinServer \/ DeliverRefused
  <2>1. CASE DeliverToPinServer
    BY <2>1 DEF DeliverToPinServer
  <2>2. CASE DeliverRefused
    BY <2>2 DEF DeliverRefused
  <2> QED
    BY <1>4, <2>1, <2>2
<1>5. CASE Exchange
  <2>1. TypeOK'
    <3>1. transmit' \in Payloads \cup {NoPayload}
      <4>1. \A to \in Recipients : [to |-> to, kind |-> "plain"] \in Payloads
        OBVIOUS
      <4> QED
        BY <1>5, <4>1, Zenon DEF Exchange
    <3>2. late' \in 0 .. LateCap /\ pc' \in Places
      BY <1>5 DEF Exchange
    <3>3. broke' \in BOOLEAN
      BY <1>5, Zenon DEF Exchange
    <3> HIDE DEF IInv, Places, Handshakes, Commands, Payloads, NoPayload
    <3> QED
      BY <1>5, <3>1, <3>2, <3>3 DEF Exchange, IInv
  <2>2. CodeOnItsWay' /\ OneLate'
    BY <1>5 DEF Exchange
  <2> QED
    BY <1>5, <2>1, <2>2 DEF Exchange
<1>6. CASE ExchangeHandshake
  BY <1>6 DEF ExchangeHandshake
<1>7. CASE TakePairingCode
  BY <1>7 DEF TakePairingCode
<1>8. CASE OnCode
  BY <1>8 DEF OnCode
<1>9. CASE End
  BY <1>9 DEF End
<1>10. CASE Close
  BY <1>10 DEF Close
<1> QED
  BY <1>1, <1>2, <1>3, <1>4, <1>5, <1>6, <1>7, <1>8, <1>9, <1>10 DEF Loop

LEMMA StutterHolds == IInv /\ UNCHANGED vars => IInv'
BY DEF vars, IInv, TypeOK, CodeOnItsWay, OneLate

LEMMA Invariance == Spec => []IInv
<1>1. IInv /\ [Next]_vars => IInv'
  BY OutsideHolds, LoopHolds, StutterHolds DEF Next
<1> QED
  BY InitHolds, <1>1, PTL DEF Spec

(* Every variable of the loop keeps its type. *)
THEOREM RunTypeCorrect == Spec => []TypeOK
<1>1. IInv => TypeOK
  BY DEF IInv
<1> QED
  BY <1>1, Invariance, PTL

(* The device is asked for the outcome of a comparison only after the user *)
(* was shown the code, however many handshakes the session has.            *)
THEOREM CodeShownFirst == Spec => []CodeBeforeVerify
<1>1. IInv => CodeBeforeVerify
  BY DEF IInv, CodeOnItsWay, CodeBeforeVerify
<1> QED
  BY <1>1, Invariance, PTL

(* After its cancellation a command begins at most one operation. *)
THEOREM CancellationIsPrompt == Spec => []OneOperationAfterCancel
<1>1. IInv => OneOperationAfterCancel
  BY DEF IInv, OneLate, OneOperationAfterCancel
<1> QED
  BY <1>1, Invariance, PTL
=============================================================================
