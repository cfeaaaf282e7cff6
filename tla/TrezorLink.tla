----------------------------- MODULE TrezorLink -----------------------------
(***************************************************************************)
(* TrezorV1Link (Links.kt): one request and one answer, each cut into V1   *)
(* packets, over a packet channel that is shared by every caller of the    *)
(* link.  The packets of a message carry no identity and no sequence       *)
(* number: only the first shows that it is one and gives the length.  What *)
(* keeps an answer with its request is the flag `ready`, taken before the  *)
(* first suspension and given back only when a whole answer was read.      *)
(*                                                                         *)
(* A packet is [req, no, of]: the request it belongs to, its number in the *)
(* message, the length of the message in packets.  The link looks at       *)
(* `no = 1` (the magic) and then at `of` (the body length), never at req.  *)
(* Channel and device are external: a send or a receive may fail at any    *)
(* time, before or after the packet moved, and the device answers every    *)
(* complete request it sees with one message, at any later time.           *)
(***************************************************************************)
EXTENDS Naturals, Sequences

CONSTANTS Callers,      \* coroutines that call exchange on one link
          MaxRequests,  \* bound on the exchanges attempted
          MaxPackets    \* bound on the packets of a message

ASSUME TrezorAssumption ==
  /\ MaxRequests \in Nat /\ MaxPackets \in Nat \ {0}
  /\ "ready" \notin Callers /\ "retired" \notin Callers

VARIABLES ready,      \* the link's AtomicBoolean
          pc,         \* position of each caller in exchange
          req,        \* the request it exchanges, 0 when none
          length,     \* packets of that request
          sent,       \* packets of it that were sent
          answer,     \* packets of the answer read so far
          cancelled,  \* callers whose Job is cancelled
          issued,     \* history: number of exchanges attempted
          toDevice, toHost,  \* the two directions of the channel
          assembly    \* packets of the message the device is receiving

hostVars == <<ready, cancelled, req, length, sent, answer>>
wireVars == <<toDevice, toHost, assembly>>
vars == <<ready, pc, req, length, sent, answer, cancelled, issued,
          toDevice, toHost, assembly>>

Requests == 1 .. MaxRequests
Packets  == [req : Requests, no : 1 .. MaxPackets, of : 1 .. MaxPackets]
BadPacket == [req |-> 0, no |-> 0, of |-> 0]  \* wrong size, prefix or over-long body
Places == {"idle", "frame", "claim", "claimed?", "send", "sent?",
           "receive", "received?", "done?", "ready"}

Message(r, n) == [k \in 1 .. n |-> [req |-> r, no |-> k, of |-> n]]

TypeOK ==
  /\ ready \in BOOLEAN
  /\ pc \in [Callers -> Places]
  /\ req \in [Callers -> Requests \cup {0}]
  /\ length \in [Callers -> 0 .. MaxPackets]
  /\ sent \in [Callers -> 0 .. MaxPackets]
  /\ answer \in [Callers -> Seq(Packets \cup {BadPacket})]
  /\ cancelled \subseteq Callers
  /\ issued \in 0 .. MaxRequests
  /\ toDevice \in Seq(Packets) /\ assembly \in Seq(Packets)
  /\ toHost \in Seq(Packets \cup {BadPacket})

Init ==
  /\ ready = TRUE
  /\ pc = [c \in Callers |-> "idle"]
  /\ req = [c \in Callers |-> 0]
  /\ length = [c \in Callers |-> 0]
  /\ sent = [c \in Callers |-> 0]
  /\ answer = [c \in Callers |-> << >>]
  /\ cancelled = {} /\ issued = 0
  /\ toDevice = << >> /\ toHost = << >> /\ assembly = << >>

-----------------------------------------------------------------------------
Goto(c, place) == pc' = [pc EXCEPT ![c] = place]

(* exchange returns or throws: what was local to it is gone. *)
Leave(c) ==
  /\ Goto(c, "idle")
  /\ req' = [req EXCEPT ![c] = 0]
  /\ length' = [length EXCEPT ![c] = 0]
  /\ sent' = [sent EXCEPT ![c] = 0]
  /\ answer' = [answer EXCEPT ![c] = << >>]
  /\ cancelled' = cancelled \ {c}

(* Mutant of Throw: `ready` is restored in a finally block. *)
ThrowRestoring(c) == Leave(c) /\ ready' = TRUE /\ UNCHANGED issued

(* It throws after it has claimed the link: `ready` stays false. *)
Throw(c) == Leave(c) /\ UNCHANGED <<ready, issued>>

Invoke(c, n) ==
  /\ pc[c] = "idle"
  /\ issued < MaxRequests
  /\ issued' = issued + 1
  /\ req' = [req EXCEPT ![c] = issued + 1]
  /\ length' = [length EXCEPT ![c] = n]
  /\ Goto(c, "frame")
  /\ UNCHANGED <<ready, cancelled, sent, answer, wireVars>>

Cancel(c) ==
  /\ pc[c] # "idle"
  /\ c \notin cancelled
  /\ cancelled' = cancelled \cup {c}
  /\ UNCHANGED <<ready, pc, req, length, sent, answer, issued, wireVars>>

(* The request is checked before the link is claimed: a payload that is    *)
(* not one whole V1 frame is refused and the link stays as it is.          *)
FrameRefused(c) ==
  /\ pc[c] = "frame"
  /\ Leave(c)
  /\ UNCHANGED <<ready, issued, wireVars>>

FrameAccepted(c) ==
  /\ pc[c] = "frame"
  /\ Goto(c, "claim")
  /\ UNCHANGED <<hostVars, issued, wireVars>>

(* Mutant of Claim: the flag is set without being tested. *)
ClaimUntested(c) ==
  /\ pc[c] = "claim"
  /\ ready' = FALSE
  /\ Goto(c, "claimed?")
  /\ UNCHANGED <<req, length, sent, answer, cancelled, issued, wireVars>>

(* ready.compareAndSet(true, false), or Disconnected. *)
Claim(c) ==
  /\ pc[c] = "claim"
  /\ ready
  /\ ready' = FALSE
  /\ Goto(c, "claimed?")
  /\ UNCHANGED <<req, length, sent, answer, cancelled, issued, wireVars>>

ClaimRefused(c) ==
  /\ pc[c] = "claim"
  /\ ~ready
  /\ Leave(c)
  /\ UNCHANGED <<ready, issued, wireVars>>

(* ensureActive() throws at one of the checkpoints. *)
Stops(c) ==
  /\ pc[c] \in {"claimed?", "sent?", "received?", "done?"}
  /\ c \in cancelled
  /\ Throw(c)
  /\ UNCHANGED wireVars

Starts(c) ==
  /\ pc[c] = "claimed?" /\ c \notin cancelled
  /\ Goto(c, "send")
  /\ UNCHANGED <<hostVars, issued, wireVars>>

-----------------------------------------------------------------------------
(* The request. *)

NextPacket(c) == Message(req[c], length[c])[sent[c] + 1]

Send(c) ==
  /\ pc[c] = "send"
  /\ toDevice' = Append(toDevice, NextPacket(c))
  /\ sent' = [sent EXCEPT ![c] = @ + 1]
  /\ Goto(c, "sent?")
  /\ UNCHANGED <<ready, req, length, answer, cancelled, issued, toHost, assembly>>

(* channel.send throws, is cancelled or reports a short write; the packet  *)
(* may be on its way all the same.                                         *)
SendFails(c) ==
  /\ pc[c] = "send"
  /\ Throw(c)
  /\ toDevice' \in {toDevice, Append(toDevice, NextPacket(c))}
  /\ UNCHANGED <<toHost, assembly>>

Sent(c) ==
  /\ pc[c] = "sent?" /\ c \notin cancelled
  /\ Goto(c, IF sent[c] < length[c] THEN "send" ELSE "receive")
  /\ UNCHANGED <<hostVars, issued, wireVars>>

-----------------------------------------------------------------------------
(* The answer. *)

Receive(c) ==
  /\ pc[c] = "receive"
  /\ toHost # << >>
  /\ answer' = [answer EXCEPT ![c] = Append(@, Head(toHost))]
  /\ toHost' = Tail(toHost)
  /\ Goto(c, "received?")
  /\ UNCHANGED <<ready, req, length, sent, cancelled, issued, toDevice, assembly>>

(* Mutant of ReceiveFails: a receive that fails is tried again. *)
ReceiveRetries(c) == pc[c] = "receive" /\ UNCHANGED vars

(* channel.receive throws or is cancelled, with a packet lost or not. *)
ReceiveFails(c) ==
  /\ pc[c] = "receive"
  /\ Throw(c)
  /\ toHost' \in {toHost} \cup (IF toHost = << >> THEN {} ELSE {Tail(toHost)})
  /\ UNCHANGED <<toDevice, assembly>>

(* The packet is checked: 64 bytes and the prefix, the magic on the first. *)
Malformed(c) ==
  \/ answer[c][Len(answer[c])] = BadPacket
  \/ answer[c][1].no # 1

PacketRefused(c) ==
  /\ pc[c] = "received?" /\ c \notin cancelled
  /\ Malformed(c)
  /\ Throw(c)
  /\ UNCHANGED wireVars

(* Mutant of PacketAccepted: the answer is thought to be one packet shorter. *)
PacketAcceptedShort(c) ==
  /\ pc[c] = "received?" /\ c \notin cancelled
  /\ ~Malformed(c)
  /\ Goto(c, IF Len(answer[c]) + 1 < answer[c][1].of THEN "receive" ELSE "done?")
  /\ UNCHANGED <<hostVars, issued, wireVars>>

(* The first packet has given the length: read on or finish. *)
PacketAccepted(c) ==
  /\ pc[c] = "received?" /\ c \notin cancelled
  /\ ~Malformed(c)
  /\ Goto(c, IF Len(answer[c]) < answer[c][1].of THEN "receive" ELSE "done?")
  /\ UNCHANGED <<hostVars, issued, wireVars>>

Completes(c) ==
  /\ pc[c] = "done?" /\ c \notin cancelled
  /\ Goto(c, "ready")
  /\ UNCHANGED <<hostVars, issued, wireVars>>

(* ready.set(true) and the answer goes to the caller. *)
Return(c) ==
  /\ pc[c] = "ready"
  /\ ready' = TRUE
  /\ Leave(c)
  /\ UNCHANGED <<issued, wireVars>>

-----------------------------------------------------------------------------
(* The device: it assembles a message from the packets as they come and    *)
(* answers a complete one, well or badly formed.                           *)

Assembled == assembly # << >> /\ Len(assembly) = assembly[1].of

DeviceReceives ==
  /\ toDevice # << >>
  /\ ~Assembled
  /\ assembly' = Append(assembly, Head(toDevice))
  /\ toDevice' = Tail(toDevice)
  /\ UNCHANGED <<hostVars, pc, issued, toHost>>

DeviceAnswers(n) ==
  /\ Assembled
  /\ assembly' = << >>
  /\ toHost' \in {toHost \o Message(assembly[1].req, n), Append(toHost, BadPacket)}
  /\ UNCHANGED <<hostVars, pc, issued, toDevice>>

-----------------------------------------------------------------------------
Proceeds(c) ==
  \/ FrameAccepted(c) \/ Claim(c) \/ ClaimRefused(c)
  \/ Stops(c) \/ Starts(c) \/ Send(c) \/ Sent(c)
  \/ Receive(c) \/ PacketRefused(c) \/ PacketAccepted(c) \/ Completes(c) \/ Return(c)

(* A cooperating channel ends a suspended call whose Job is cancelled. *)
Abandons(c) == c \in cancelled /\ (SendFails(c) \/ ReceiveFails(c))

Next ==
  \/ \E c \in Callers :
       \/ \E n \in 1 .. MaxPackets : Invoke(c, n)
       \/ Cancel(c) \/ FrameRefused(c) \/ SendFails(c) \/ ReceiveFails(c) \/ Proceeds(c)
  \/ DeviceReceives
  \/ \E n \in 1 .. MaxPackets : DeviceAnswers(n)

Spec == Init /\ [][Next]_vars

(* A caller's own code keeps running and the channel honours cancellation. *)
FairSpec == Spec /\ \A c \in Callers : WF_vars(Proceeds(c)) /\ WF_vars(Abandons(c))

-----------------------------------------------------------------------------
(***************************************************************************)
(* Properties.                                                             *)
(***************************************************************************)

(* The callers past the compare-and-set. *)
Inside == {c \in Callers : pc[c] \notin {"idle", "frame", "claim"}}

(* An exchange that is about to return has read the device's answer to its *)
(* own request, whole and in order, although no packet says whose it is:   *)
(* no stale answer, no gap, no packet of another caller's answer.          *)
OwnAnswer ==
  \A c \in Callers :
    pc[c] \in {"done?", "ready"} => answer[c] = Message(req[c], answer[c][1].of)

(* A link that can be claimed is quiet: no packet of an earlier exchange    *)
(* is on either wire or still being worked on by the device.  This is why  *)
(* a failed or cancelled exchange has to retire the link (README.md:412).  *)
ReadyIsQuiet ==
  ready => toDevice = << >> /\ toHost = << >> /\ assembly = << >> /\ Inside = {}

(* A cancelled exchange ends. *)
CancelledEnds == \A c \in Callers : c \in cancelled ~> pc[c] = "idle"

(* One caller at a time, and retired for good after one failure, in        *)
(* whatever order the callers come and leave.                              *)
Link == INSTANCE RetiringLink WITH
  Ready <- "ready", Retired <- "retired",
  link <- IF Inside # {} THEN CHOOSE c \in Inside : TRUE
          ELSE IF ready THEN "ready" ELSE "retired"

ImplementsRetiringLink == Link!Spec
=============================================================================
