----------------------------- MODULE RunCommand -----------------------------
(***************************************************************************)
(* The driving loop Hwi.runCommand (Hwi.kt) over successive commands of    *)
(* one BitBox02 session: the checkpoints at which cancellation is seen,    *)
(* the routing of payloads, and the pairing code, which travels from the   *)
(* core's hook through a slot of the NoiseHandle (state.rs) to the host's  *)
(* callback.  HwiSession shows that commands do not overlap, so they run   *)
(* one after the other here; each check and the operation it guards are    *)
(* two steps, so that cancellation may fall between them.                  *)
(*                                                                         *)
(* Handshakes are numbered by the command that performs them; number 0     *)
(* means none.  The core and the device are external: what the module      *)
(* assumes of them is that a handshake's code reaches the hook during the  *)
(* exchange whose next payload asks for the verification, and that the     *)
(* device waits for that comparison until it is answered or the device     *)
(* is sent the first payload of another command.                           *)
(***************************************************************************)
EXTENDS Naturals

CONSTANTS MaxCommands,  \* bound on the commands of the session
          HasBridge     \* whether an HttpBridge was supplied

ASSUME RunAssumption == MaxCommands \in Nat \ {0} /\ HasBridge \in BOOLEAN

VARIABLES n,          \* number of the current or last command
          pc,         \* position of the loop
          transmit,   \* the payload to deliver
          broke,      \* `next` was null: the loop breaks
          slot,       \* pairing_code of the NoiseHandle
          awaiting,   \* the handshake the device waits to have compared
          code,       \* the code handed to onCode
          shown,      \* the handshakes whose code the host has shown
          cancelled,  \* the command's Job is cancelled
          late        \* operations begun since then

vars == <<n, pc, transmit, broke, slot, awaiting, code, shown, cancelled, late>>

Commands   == 1 .. MaxCommands
Handshakes == 0 .. MaxCommands
Recipients == {"device", "pinserver", "host"}
Payloads   == [to : Recipients, kind : {"first", "plain", "verify"}]
LateCap    == 2   \* where the count of late operations stops
NoPayload  == [to |-> "host", kind |-> "none"]

(* A place and the checkpoint before it. *)
Operations  == {"start", "deliver", "exchange", "take", "end"}
Checkpoints == {"?start", "?deliver", "?exchange", "?take", "?end"}
Places == Operations \cup Checkpoints \cup {"idle", "transport", "bridge", "onCode", "close"}

Guarded == [q \in Checkpoints |->
  CASE q = "?start" -> "start" [] q = "?deliver" -> "deliver"
    [] q = "?exchange" -> "exchange" [] q = "?take" -> "take" [] q = "?end" -> "end"]

TypeOK ==
  /\ n \in Handshakes
  /\ pc \in Places
  /\ transmit \in Payloads \cup {NoPayload}
  /\ broke \in BOOLEAN
  /\ slot \in Handshakes /\ awaiting \in Handshakes /\ code \in Handshakes
  /\ shown \subseteq Commands
  /\ cancelled \in BOOLEAN
  /\ late \in 0 .. LateCap

Init ==
  /\ n = 0 /\ pc = "idle"
  /\ transmit = NoPayload /\ broke = FALSE
  /\ slot = 0 /\ awaiting = 0 /\ code = 0 /\ shown = {}
  /\ cancelled = FALSE /\ late = 0

-----------------------------------------------------------------------------
(* An operation begins: counted, up to LateCap, when the Job is already    *)
(* cancelled; one too many is enough to tell.                              *)
BeginsOp == late' = IF cancelled /\ late < LateCap THEN late + 1 ELSE late

(* The next command, on a fresh Interp. *)
Invoke ==
  /\ pc = "idle"
  /\ n < MaxCommands
  /\ n' = n + 1
  /\ pc' = "?start"
  /\ cancelled' = FALSE /\ late' = 0
  /\ UNCHANGED <<transmit, broke, slot, awaiting, code, shown>>

(* The caller cancels the Job at any moment of the command. *)
Cancel ==
  /\ pc # "idle"
  /\ ~cancelled
  /\ cancelled' = TRUE
  /\ UNCHANGED <<n, pc, transmit, broke, slot, awaiting, code, shown, late>>

(* Mutant of Check: ensureActive is called before the first operation only. *)
CheckOnlyFirst ==
  /\ pc \in Checkpoints
  /\ pc' = IF cancelled /\ pc = "?start" THEN "close" ELSE Guarded[pc]
  /\ UNCHANGED <<n, transmit, broke, slot, awaiting, code, shown, cancelled, late>>

(* ensureActive(). *)
Check ==
  /\ pc \in Checkpoints
  /\ pc' = IF cancelled THEN "close" ELSE Guarded[pc]
  /\ UNCHANGED <<n, transmit, broke, slot, awaiting, code, shown, cancelled, late>>

(* interp.start(cmd): the first payload, or an error. *)
Start ==
  /\ pc = "start"
  /\ BeginsOp
  /\ \/ /\ transmit' = [to |-> "device", kind |-> "first"]
        /\ pc' = "?deliver"
     \/ pc' = "close" /\ UNCHANGED transmit
  /\ UNCHANGED <<n, broke, slot, awaiting, code, shown, cancelled>>

(* deliver(): the recipient decides.  A Host payload, or a PIN-server one  *)
(* without a bridge, is a BadState and nothing leaves the host.            *)
DeliverToDevice ==
  /\ pc = "deliver" /\ transmit.to = "device"
  /\ BeginsOp
  /\ pc' = "transport"
  /\ awaiting' = IF transmit.kind = "first" THEN 0 ELSE awaiting
  /\ UNCHANGED <<n, transmit, broke, slot, code, shown, cancelled>>

DeliverToPinServer ==
  /\ pc = "deliver" /\ transmit.to = "pinserver" /\ HasBridge
  /\ BeginsOp
  /\ pc' = "bridge"
  /\ UNCHANGED <<n, transmit, broke, slot, awaiting, code, shown, cancelled>>

DeliverRefused ==
  /\ pc = "deliver"
  /\ transmit.to = "host" \/ (transmit.to = "pinserver" /\ ~HasBridge)
  /\ pc' = "close"
  /\ UNCHANGED <<n, transmit, broke, slot, awaiting, code, shown, cancelled, late>>

(* The reply comes; to a verification payload it is the user's answer. *)
Reply ==
  /\ pc \in {"transport", "bridge"}
  /\ pc' = "?exchange"
  /\ awaiting' = IF transmit.kind = "verify" THEN 0 ELSE awaiting
  /\ UNCHANGED <<n, transmit, broke, slot, code, shown, cancelled, late>>

TransportFails ==
  /\ pc \in {"transport", "bridge"}
  /\ pc' = "close"
  /\ UNCHANGED <<n, transmit, broke, slot, awaiting, code, shown, cancelled, late>>

(* A transport that cooperates is cancelled where it is suspended. *)
TransportCancelled ==
  /\ pc \in {"transport", "bridge"}
  /\ cancelled
  /\ pc' = "close"
  /\ UNCHANGED <<n, transmit, broke, slot, awaiting, code, shown, cancelled, late>>

(* interp.exchange(reply): another payload, none, or an error. *)
Exchange ==
  /\ pc = "exchange"
  /\ BeginsOp
  /\ \/ /\ \E to \in Recipients : transmit' = [to |-> to, kind |-> "plain"]
        /\ pc' = "?take" /\ UNCHANGED broke
     \/ broke' = TRUE /\ pc' = "?take" /\ UNCHANGED transmit
     \/ pc' = "close" /\ UNCHANGED <<transmit, broke>>
  /\ UNCHANGED <<n, slot, awaiting, code, shown, cancelled>>

(* The exchange that completes a handshake: the hook stores the code and   *)
(* the next payload asks the device for the verification.                  *)
ExchangeHandshake ==
  /\ pc = "exchange" /\ transmit.kind = "plain" /\ n \notin shown
  /\ BeginsOp
  /\ slot' = n /\ awaiting' = n
  /\ transmit' = [to |-> "device", kind |-> "verify"]
  /\ pc' = "?take"
  /\ UNCHANGED <<n, broke, code, shown, cancelled>>

(* Mutant of TakePairingCode: the code is surfaced once the loop is over. *)
TakePairingCodeAtEnd ==
  /\ pc = "take"
  /\ BeginsOp
  /\ slot' = IF broke THEN 0 ELSE slot
  /\ code' = IF broke THEN slot ELSE 0
  /\ pc' = IF ~broke THEN "?deliver" ELSE IF slot # 0 THEN "onCode" ELSE "?end"
  /\ UNCHANGED <<n, transmit, broke, awaiting, shown, cancelled>>

(* noise.takePairingCode()?.let(onCode): the slot is emptied. *)
TakePairingCode ==
  /\ pc = "take"
  /\ BeginsOp
  /\ slot' = 0
  /\ code' = slot
  /\ pc' = IF slot # 0 THEN "onCode" ELSE IF broke THEN "?end" ELSE "?deliver"
  /\ UNCHANGED <<n, transmit, broke, awaiting, shown, cancelled>>

(* The host's callback has the code. *)
OnCode ==
  /\ pc = "onCode"
  /\ shown' = shown \cup {code}
  /\ code' = 0
  /\ pc' = IF broke THEN "?end" ELSE "?deliver"
  /\ UNCHANGED <<n, transmit, broke, slot, awaiting, cancelled, late>>

(* interp.end(): the session is consumed. *)
End ==
  /\ pc = "end"
  /\ BeginsOp
  /\ pc' = "close"
  /\ UNCHANGED <<n, transmit, broke, slot, awaiting, code, shown, cancelled>>

(* interp.use destroys the Interp on every path. *)
Close ==
  /\ pc = "close"
  /\ pc' = "idle"
  /\ transmit' = NoPayload /\ broke' = FALSE
  /\ UNCHANGED <<n, slot, awaiting, code, shown, cancelled, late>>

-----------------------------------------------------------------------------
(* What the loop does by itself, as opposed to caller and transport. *)
Loop ==
  \/ Check \/ Start \/ DeliverToDevice \/ DeliverToPinServer \/ DeliverRefused
  \/ Exchange \/ ExchangeHandshake \/ TakePairingCode \/ OnCode \/ End \/ Close

Next == Invoke \/ Cancel \/ Loop \/ Reply \/ TransportFails \/ TransportCancelled

Spec == Init /\ [][Next]_vars

(* The loop keeps running and the transport cooperates with cancellation. *)
FairSpec == Spec /\ WF_vars(Loop) /\ WF_vars(TransportCancelled)

-----------------------------------------------------------------------------
(***************************************************************************)
(* Properties.                                                             *)
(***************************************************************************)

(* The user has been shown the code of this handshake before the device is *)
(* asked for the outcome of the comparison (state.rs:183, Hwi.kt:59).      *)
CodeBeforeVerify ==
  pc = "transport" /\ transmit.kind = "verify" => n \in shown

(* Cancellation is seen at every boundary: after it at most the one        *)
(* operation that was past its checkpoint is still carried out, so a       *)
(* cancelled command neither sends another payload nor mutates the native  *)
(* state again (README.md:305).                                            *)
OneOperationAfterCancel == late <= 1

(* A cancelled command comes to its end. *)
CancelledEnds == cancelled /\ pc # "idle" ~> pc = "idle"

(* What the comment in the loop says of the code it surfaces: "the device  *)
(* is already waiting for the user to compare it" (Hwi.kt:61).             *)
SurfacedCodeIsAwaited == pc = "onCode" => code = awaiting
=============================================================================
