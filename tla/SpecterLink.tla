----------------------------- MODULE SpecterLink -----------------------------
(***************************************************************************)
(* SpecterSerialLink (Links.kt) with the SpecterFrameDecoder it creates    *)
(* for each exchange (state.rs): a framed request, written whole to a byte *)
(* stream, and one framed answer that arrives in chunks, within a deadline *)
(* that the user's confirmation on the device may well exceed.             *)
(*                                                                         *)
(* The bytes of a frame are [req, no, of]: whose it is, the position and   *)
(* the length.  The decoder sees where a frame begins and ends, never req. *)
(* Stream, device and the core's decoder are external: the stream may fail *)
(* at any time, end, or hand out the bytes in any chunks; the device       *)
(* answers each request once, at any later time, well or badly framed.     *)
(* Time is reduced to whether an exchange has exceeded its deadline; the   *)
(* timer notices that at some later suspension, or not before the exchange *)
(* reads the clock itself.                                                 *)
(***************************************************************************)
EXTENDS Naturals, Sequences

CONSTANTS Callers,      \* coroutines that call exchange on one link
          MaxRequests,  \* bound on the exchanges attempted
          FrameLength   \* bytes of an answer

ASSUME SpecterAssumption ==
  /\ MaxRequests \in Nat /\ FrameLength \in Nat \ {0}
  /\ "ready" \notin Callers /\ "retired" \notin Callers

VARIABLES ready,      \* the link's AtomicBoolean
          pc,         \* position of each caller in exchange
          req,        \* the request it exchanges, 0 when none
          buffer,     \* bytes its decoder has been pushed
          chunk,      \* the last chunk read
          cancelled,  \* callers whose Job is cancelled
          expired,    \* callers whose deadline has passed
          issued,     \* history: number of exchanges attempted
          toDevice,   \* requests written and not yet answered
          toHost,     \* bytes on their way from the device
          ended       \* end of stream: the device is gone

hostVars == <<ready, req, buffer, chunk, cancelled, expired, issued>>
wireVars == <<toDevice, toHost, ended>>
vars == <<ready, pc, req, buffer, chunk, cancelled, expired, issued,
          toDevice, toHost, ended>>

Requests == 1 .. MaxRequests
Bytes == [req : Requests, no : 1 .. FrameLength]
BadByte == [req |-> 0, no |-> 0]
Places == {"idle", "claim", "write", "written?", "read", "read?", "push",
           "framed", "done?", "elapsed?", "ready"}

Frame(r) == [k \in 1 .. FrameLength |-> [req |-> r, no |-> k]]

TypeOK ==
  /\ ready \in BOOLEAN /\ ended \in BOOLEAN
  /\ pc \in [Callers -> Places]
  /\ req \in [Callers -> Requests \cup {0}]
  /\ buffer \in [Callers -> Seq(Bytes \cup {BadByte})]
  /\ chunk \in [Callers -> Seq(Bytes \cup {BadByte})]
  /\ cancelled \subseteq Callers /\ expired \subseteq Callers
  /\ issued \in 0 .. MaxRequests
  /\ toDevice \in Seq(Requests)
  /\ toHost \in Seq(Bytes \cup {BadByte})

Init ==
  /\ ready = TRUE
  /\ pc = [c \in Callers |-> "idle"]
  /\ req = [c \in Callers |-> 0]
  /\ buffer = [c \in Callers |-> << >>]
  /\ chunk = [c \in Callers |-> << >>]
  /\ cancelled = {} /\ expired = {} /\ issued = 0
  /\ toDevice = << >> /\ toHost = << >> /\ ended = FALSE

-----------------------------------------------------------------------------
Goto(c, place) ==
  /\ pc' = [pc EXCEPT ![c] = place]
  /\ UNCHANGED <<ready, req, cancelled, expired, issued>>

(* exchange returns or throws; `use` closes the decoder on every path. *)
Leave(c) ==
  /\ pc' = [pc EXCEPT ![c] = "idle"]
  /\ req' = [req EXCEPT ![c] = 0]
  /\ buffer' = [buffer EXCEPT ![c] = << >>]
  /\ chunk' = [chunk EXCEPT ![c] = << >>]
  /\ cancelled' = cancelled \ {c} /\ expired' = expired \ {c}
  /\ UNCHANGED issued

(* Mutant of Throw: `ready` is restored in a finally block. *)
ThrowRestoring(c) == Leave(c) /\ ready' = TRUE

(* It throws after it has claimed the link: `ready` stays false. *)
Throw(c) == Leave(c) /\ UNCHANGED ready

Invoke(c) ==
  /\ pc[c] = "idle"
  /\ issued < MaxRequests
  /\ issued' = issued + 1
  /\ req' = [req EXCEPT ![c] = issued + 1]
  /\ pc' = [pc EXCEPT ![c] = "claim"]
  /\ UNCHANGED <<ready, buffer, chunk, cancelled, expired, wireVars>>

Cancel(c) ==
  /\ pc[c] # "idle"
  /\ c \notin cancelled
  /\ cancelled' = cancelled \cup {c}
  /\ UNCHANGED <<ready, pc, req, buffer, chunk, expired, issued, wireVars>>

(* The deadline of an exchange passes. *)
Expires(c) ==
  /\ pc[c] \notin {"idle", "claim"}
  /\ c \notin expired
  /\ expired' = expired \cup {c}
  /\ UNCHANGED <<ready, pc, req, buffer, chunk, cancelled, issued, wireVars>>

(* Mutant of Claim: the flag is set without being tested. *)
ClaimUntested(c) ==
  /\ pc[c] = "claim"
  /\ ready' = FALSE
  /\ pc' = [pc EXCEPT ![c] = "write"]
  /\ UNCHANGED <<req, buffer, chunk, cancelled, expired, issued, wireVars>>

(* ready.compareAndSet(true, false), or Disconnected. *)
Claim(c) ==
  /\ pc[c] = "claim"
  /\ ready
  /\ ready' = FALSE
  /\ pc' = [pc EXCEPT ![c] = "write"]
  /\ UNCHANGED <<req, buffer, chunk, cancelled, expired, issued, wireVars>>

ClaimRefused(c) ==
  /\ pc[c] = "claim"
  /\ ~ready
  /\ Throw(c)
  /\ UNCHANGED wireVars

-----------------------------------------------------------------------------
(* Inside withTimeoutOrNull. *)

Write(c) ==
  /\ pc[c] = "write"
  /\ toDevice' = Append(toDevice, req[c])
  /\ Goto(c, "written?")
  /\ UNCHANGED <<buffer, chunk, toHost, ended>>

(* The write throws, is cancelled or timed out; the request may be out. *)
WriteFails(c) ==
  /\ pc[c] = "write"
  /\ Throw(c)
  /\ toDevice' \in {toDevice, Append(toDevice, req[c])}
  /\ UNCHANGED <<toHost, ended>>

(* ensureActive() after a suspension: the Job, or the timer that fired. *)
Stops(c) ==
  /\ \/ pc[c] \in {"written?", "read?"} /\ c \in cancelled \cup expired
     \/ pc[c] = "done?" /\ c \in cancelled
  /\ Throw(c)
  /\ UNCHANGED wireVars

Passes(c) ==
  /\ c \notin cancelled
  /\ \/ pc[c] = "written?" /\ Goto(c, "read")
     \/ pc[c] = "read?" /\ Goto(c, "push")
     \/ pc[c] = "done?" /\ Goto(c, "elapsed?")
  /\ UNCHANGED <<buffer, chunk, wireVars>>

Read(c) ==
  /\ pc[c] = "read"
  /\ \E k \in 1 .. Len(toHost) :
       /\ chunk' = [chunk EXCEPT ![c] = SubSeq(toHost, 1, k)]
       /\ toHost' = SubSeq(toHost, k + 1, Len(toHost))
  /\ Goto(c, "read?")
  /\ UNCHANGED <<buffer, toDevice, ended>>

(* Mutant of ReadFails: a timeout does not retire the link. *)
ReadFailsRestoring(c) ==
  /\ pc[c] = "read"
  /\ Leave(c) /\ ready' = (c \in expired)
  /\ UNCHANGED wireVars

(* Mutant of ReadFails: the deadline covers the write only. *)
ReadFailsUntimed(c) ==
  /\ pc[c] = "read" /\ c \in cancelled
  /\ Throw(c)
  /\ UNCHANGED wireVars

(* The read throws or is cancelled, with bytes lost or not, the timer      *)
(* fires, the chunk exceeds what was asked for, or it is empty: the stream *)
(* has ended.                                                              *)
ReadFails(c) ==
  /\ pc[c] = "read"
  /\ Throw(c)
  /\ \E k \in 0 .. Len(toHost) : toHost' = SubSeq(toHost, k + 1, Len(toHost))
  /\ UNCHANGED <<toDevice, ended>>

ReadsNothing(c) ==
  /\ pc[c] = "read"
  /\ ended /\ toHost = << >>
  /\ Throw(c)
  /\ UNCHANGED wireVars

(* decoder.push: a frame when the bytes end where it ends, an error when   *)
(* they do not begin one, are damaged or go on after its end; else null.   *)
Pushed(c)  == buffer[c] \o chunk[c]
Framing(b) == /\ BadByte \notin {b[k] : k \in DOMAIN b}
              /\ \A k \in DOMAIN b : b[k].no = k

Push(c) ==
  /\ pc[c] = "push"
  /\ Framing(Pushed(c)) /\ Len(Pushed(c)) <= FrameLength
  /\ buffer' = [buffer EXCEPT ![c] = Pushed(c)]
  /\ chunk' = [chunk EXCEPT ![c] = << >>]
  /\ Goto(c, IF Len(Pushed(c)) = FrameLength THEN "framed" ELSE "read")
  /\ UNCHANGED wireVars

PushFails(c) ==
  /\ pc[c] = "push"
  /\ ~Framing(Pushed(c)) \/ Len(Pushed(c)) > FrameLength
  /\ Throw(c)
  /\ UNCHANGED wireVars

(* withTimeoutOrNull hands the frame out, or null when its timer has fired *)
(* meanwhile: Timeout.                                                     *)
Framed(c) ==
  /\ pc[c] = "framed"
  /\ Goto(c, "done?")
  /\ UNCHANGED <<buffer, chunk, wireVars>>

TimesOut(c) ==
  /\ pc[c] = "framed"
  /\ c \in expired
  /\ Throw(c)
  /\ UNCHANGED wireVars

-----------------------------------------------------------------------------
(* After it: the clock is read once more. *)

ElapsedInTime(c) ==
  /\ pc[c] = "elapsed?" /\ c \notin expired
  /\ Goto(c, "ready")
  /\ UNCHANGED <<buffer, chunk, wireVars>>

ElapsedTooLate(c) ==
  /\ pc[c] = "elapsed?" /\ c \in expired
  /\ Throw(c)
  /\ UNCHANGED wireVars

(* ready.set(true) and the frame goes to the caller. *)
Return(c) ==
  /\ pc[c] = "ready"
  /\ ready' = TRUE
  /\ Leave(c)
  /\ UNCHANGED wireVars

-----------------------------------------------------------------------------
(* The device answers the oldest request, or it goes away. *)

DeviceAnswers ==
  /\ toDevice # << >> /\ ~ended
  /\ toDevice' = Tail(toDevice)
  /\ toHost' \in {toHost \o Frame(Head(toDevice)), Append(toHost, BadByte)}
  /\ UNCHANGED <<hostVars, pc, ended>>

DeviceLeaves ==
  /\ ~ended
  /\ ended' = TRUE
  /\ UNCHANGED <<hostVars, pc, toDevice, toHost>>

-----------------------------------------------------------------------------
Proceeds(c) ==
  \/ Claim(c) \/ ClaimRefused(c) \/ Write(c) \/ Stops(c) \/ Passes(c)
  \/ Read(c) \/ ReadsNothing(c) \/ Push(c) \/ PushFails(c)
  \/ Framed(c) \/ TimesOut(c) \/ ElapsedInTime(c) \/ ElapsedTooLate(c) \/ Return(c)

(* A suspended call is ended by the timer, or by the Job's cancellation. *)
Interrupted(c) == c \in cancelled \cup expired /\ (WriteFails(c) \/ ReadFails(c))

Next ==
  \/ \E c \in Callers :
       \/ Invoke(c) \/ Cancel(c) \/ Expires(c)
       \/ WriteFails(c) \/ ReadFails(c) \/ Proceeds(c)
  \/ DeviceAnswers \/ DeviceLeaves

Spec == Init /\ [][Next]_vars

(* Time passes, a caller's own code keeps running and the stream can be    *)
(* interrupted.  The device owes nothing.                                  *)
FairSpec ==
  Spec /\ \A c \in Callers :
            WF_vars(Proceeds(c)) /\ WF_vars(Interrupted(c)) /\ WF_vars(Expires(c))

-----------------------------------------------------------------------------
(***************************************************************************)
(* Properties.                                                             *)
(***************************************************************************)

(* The callers past the compare-and-set. *)
Inside == {c \in Callers : pc[c] \notin {"idle", "claim"}}

(* The frame that leaves the decoder is the device's answer to this very   *)
(* request: "Never consume a stale reply on retry" (Links.kt:403), and no  *)
(* bytes left over from another exchange.                                  *)
OwnAnswer ==
  \A c \in Callers :
    pc[c] \in {"framed", "done?", "elapsed?", "ready"} => buffer[c] = Frame(req[c])

(* A link that can be claimed has no request outstanding and no byte in    *)
(* flight, so the answer of a user who confirms after the deadline meets   *)
(* only a retired link.                                                    *)
ReadyIsQuiet == ready => toDevice = << >> /\ toHost = << >> /\ Inside = {}

(* Every exchange ends, with a silent device as well. *)
ExchangeEnds == \A c \in Callers : pc[c] # "idle" ~> pc[c] = "idle"

(* One caller at a time, and retired for good after one failure. *)
Link == INSTANCE RetiringLink WITH
  Ready <- "ready", Retired <- "retired",
  link <- IF Inside # {} THEN CHOOSE c \in Inside : TRUE
          ELSE IF ready THEN "ready" ELSE "retired"

ImplementsRetiringLink == Link!Spec
=============================================================================
