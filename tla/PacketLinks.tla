----------------------------- MODULE PacketLinks -----------------------------
(***************************************************************************)
(* The packet links that do not retire (Links.kt): LedgerHidLink ("ledger"), *)
(* LedgerBleLink ("ble"), ColdcardHidLink ("coldcard") and BitBoxHidLink    *)
(* with U2f ("bitbox").  One exchange at a time, as HwiSession runs them,   *)
(* but any number of them over one channel, whatever became of the others.  *)
(*                                                                         *)
(* The bytes of a message are the interval 0 .. len - 1; a frame carries    *)
(* some of them, from up to to, and the header fields the links read:       *)
(*   seq    frame number; for "bitbox" -1 on the init frame, then 0, 1, ..  *)
(*   total  length of the message, meaningful in a first frame             *)
(*   last   the 0x80 flag, fram the reply that forgets it ("coldcard")      *)
(*   tag    "data", or "mtu" and "other" for the rest of a BLE device's     *)
(*          notifications                                                  *)
(* A message is [req, kind, len]: the request it is or answers, and for    *)
(* "bitbox" the HWW byte in front.  No link reads req.                     *)
(*                                                                         *)
(* Channel and device are external: a send or receive may fail or honour a  *)
(* cancellation at any time, before or after the frame moved; the device   *)
(* assembles requests as the framing defines them and answers every one,   *)
(* in order.                                                               *)
(***************************************************************************)
EXTENDS Integers, Sequences

CONSTANTS Links,         \* the links, a set of the names above
          RequestSizes,  \* per link, lengths of payloads and answers
          AnswerSizes,
          PlatformMtus,  \* what BleChannel.mtu() may return
          DeviceMtus,    \* what a Ledger may answer to the MTU probe
          MaxRequests,   \* bound on the exchanges attempted
          MtuAttempts    \* MTU_ATTEMPTS

ASSUME PacketAssumption ==
  /\ Links \subseteq {"ledger", "ble", "coldcard", "bitbox"}
  /\ \A l \in Links : RequestSizes[l] \subseteq Nat /\ AnswerSizes[l] \subseteq Nat
  /\ PlatformMtus \subseteq Nat /\ DeviceMtus \subseteq Nat
  /\ MaxRequests \in Nat /\ MtuAttempts \in Nat

(* A Coldcard request holds at least the name of a command; a length that   *)
(* travels in two bytes fits them, and no device sends a longer U2F message *)
(* than it may be sent.  The BLE link and U2F check the host's side.        *)
ASSUME LengthsAssumption ==
  \A l \in Links :
    /\ l = "coldcard" => 0 \notin RequestSizes[l]
    /\ l = "ledger" => \A n \in RequestSizes[l] : n < 65536
    /\ l \in {"ledger", "ble"} => \A n \in AnswerSizes[l] : n < 65536
    /\ l = "bitbox" => \A n \in AnswerSizes[l] : n < 57 + 127 * 59

VARIABLES link,       \* the link this behaviour is about
          pc,         \* where exchange is
          out,        \* the message it sends: [msg, seq, offset]
          in,         \* what it has read: [want, expected, have, pieces]
          frameSize,  \* LedgerBleLink.frameSize, 0 for null
          attempts,   \* notifications it still waits for the MTU in
          platform,   \* BleChannel.mtu()
          cancelled,  \* the caller's Job is cancelled
          failed,     \* history: an exchange of this link did not complete
          fault,      \* history: "lost" or "short" once the channel misbehaved
          issued,     \* history: number of exchanges attempted
          wire,       \* frames on their way to the host
          assembly,   \* frames of the request the device is receiving
          inbox,      \* whole requests it has yet to answer, and MTU probes
          working     \* "bitbox": the request it wants confirmed, 0 if none

hostVars   == <<out, in, frameSize, attempts>>
deviceVars == <<assembly, inbox, working>>
vars == <<link, pc, out, in, frameSize, attempts, platform, cancelled, failed, fault,
          issued, wire, assembly, inbox, working>>

Smaller(a, b) == IF a < b THEN a ELSE b
Larger(a, b)  == IF a < b THEN b ELSE a

NoMessage == [req |-> 0, kind |-> "none", len |-> 0]
MtuProbe  == [req |-> 0, kind |-> "probe", len |-> 0]
NotSending == [msg |-> NoMessage, seq |-> 0, offset |-> 0]
NotReading == [want |-> 0, expected |-> 0, have |-> 0, pieces |-> << >>]

Init ==
  /\ link \in Links /\ platform \in PlatformMtus
  /\ pc = "idle" /\ out = NotSending /\ in = NotReading
  /\ frameSize = 0 /\ attempts = 0
  /\ cancelled = FALSE /\ failed = FALSE /\ fault = "none" /\ issued = 0
  /\ wire = << >> /\ assembly = << >> /\ inbox = << >> /\ working = 0

-----------------------------------------------------------------------------
(* Frames.  The links differ in how much of a message a frame takes.       *)

Room(l, size, first) ==
  CASE l = "ledger"   -> 59  \* of the payload and its two bytes of length
    [] l = "ble"      -> IF first THEN size - 5 ELSE size - 3
    [] l = "coldcard" -> 63
    [] l = "bitbox"   -> IF first THEN 57 ELSE 59

(* What the link puts in front of a payload: its length, or REQ_NEW.       *)
Framed(l, size) == size + (CASE l = "ledger" -> 2 [] l = "bitbox" -> 1 [] OTHER -> 0)

(* The longest message the framing is allowed to carry. *)
TooLong(l, len) ==
  \/ l = "bitbox" /\ len > 57 + 127 * 59
  \/ l = "ble" /\ len > 65535

(* Frame number seq of msg. *)
Carrying(l, msg, seq, from, to, last) ==
  [tag |-> "data", msg |-> msg, from |-> from, to |-> to, fram |-> FALSE,
   seq |-> IF l = "bitbox" THEN seq - 1 ELSE seq, total |-> msg.len, last |-> last]

FrameOf(l, size, msg, seq, offset) ==
  LET to == offset + Smaller(Room(l, size, seq = 0), msg.len - offset) IN
  Carrying(l, msg, seq, offset, to, to >= msg.len)

(* The frame exchange sends next. *)
NextFrame == FrameOf(link, frameSize, out.msg, out.seq, out.offset)

(* A device's message, frame by frame; a Ledger's length is not part of its *)
(* payload.                                                                *)
AnswerFrames(l, msg) ==
  LET first == IF l = "ledger" THEN 57 ELSE Room(l, 20, TRUE)
      rest  == Room(l, 20, FALSE)
      count == IF msg.len <= first THEN 1 ELSE 1 + (msg.len - first + rest - 1) \div rest
  IN [k \in 1 .. count |->
       Carrying(l, msg, k - 1, IF k = 1 THEN 0 ELSE first + (k - 2) * rest,
                Smaller(msg.len, first + (k - 1) * rest), k = count)]

(* Bytes that make up one whole message. *)
Whole(pieces) ==
  /\ pieces # << >>
  /\ pieces[1].from = 0
  /\ \A k \in DOMAIN pieces :
       /\ pieces[k].msg = pieces[1].msg
       /\ k > 1 => pieces[k].from = pieces[k - 1].to
  /\ pieces[Len(pieces)].to = pieces[1].msg.len

Piece(f, take) == [msg |-> f.msg, from |-> f.from, to |-> f.from + take]

-----------------------------------------------------------------------------
Sending(msg) == out' = [msg |-> msg, seq |-> 0, offset |-> 0] /\ in' = NotReading

(* exchange returns, or throws; a link keeps nothing but its frame size.   *)
Leave ==
  /\ pc' = "idle"
  /\ out' = NotSending /\ in' = NotReading /\ attempts' = 0
  /\ cancelled' = FALSE
  /\ UNCHANGED <<link, platform, frameSize, issued>>

Throw == Leave /\ failed' = TRUE

Invoke(n) ==
  /\ pc = "idle" /\ issued < MaxRequests
  /\ issued' = issued + 1
  /\ Sending([req |-> issued + 1, kind |-> "new", len |-> Framed(link, n)])
  /\ pc' = IF link = "ble" /\ frameSize = 0 THEN "probe" ELSE "send"
  /\ UNCHANGED <<link, frameSize, attempts, platform, cancelled, failed, fault, wire, deviceVars>>

Cancel ==
  /\ pc # "idle" /\ ~cancelled
  /\ cancelled' = TRUE
  /\ UNCHANGED <<link, pc, hostVars, platform, failed, fault, issued, wire, deviceVars>>

(* LedgerBleLink.inferMtu: a probe, then the first MTU notification.       *)
Probe ==
  /\ pc = "probe"
  /\ pc' = "infer" /\ attempts' = MtuAttempts
  /\ inbox' = Append(inbox, MtuProbe)
  /\ UNCHANGED <<link, out, in, frameSize, platform, cancelled, failed, fault, issued,
                 wire, assembly, working>>

(* Mutant of InferMtu: the platform's bound is forgotten. *)
InferMtuUnbounded ==
  /\ pc = "infer" /\ wire # << >> /\ attempts > 0
  /\ wire' = Tail(wire)
  /\ IF Head(wire).tag = "mtu"
     THEN frameSize' = Larger(20, Head(wire).total) /\ pc' = "send" /\ attempts' = 0
     ELSE attempts' = attempts - 1 /\ UNCHANGED <<frameSize, pc>>
  /\ UNCHANGED <<link, out, in, platform, cancelled, failed, fault, issued, deviceVars>>

InferMtu ==
  /\ pc = "infer" /\ wire # << >> /\ attempts > 0
  /\ wire' = Tail(wire)
  /\ IF Head(wire).tag = "mtu"
     THEN /\ frameSize' = Larger(20, Smaller(Head(wire).total, platform))
          /\ pc' = "send" /\ attempts' = 0
     ELSE attempts' = attempts - 1 /\ UNCHANGED <<frameSize, pc>>
  /\ UNCHANGED <<link, out, in, platform, cancelled, failed, fault, issued, deviceVars>>

NoMtu ==
  /\ pc = "infer" /\ attempts = 0
  /\ Throw
  /\ UNCHANGED <<fault, wire, deviceVars>>

(* The length is checked before anything of the message is sent.           *)
Refuse ==
  /\ pc = "send" /\ TooLong(link, out.msg.len)
  /\ Leave
  /\ UNCHANGED <<failed, fault, wire, deviceVars>>

-----------------------------------------------------------------------------
(* The device takes a frame: a first frame starts a request over, except   *)
(* for a Coldcard, whose frames only say which is the last.                *)

Assembled(f) ==
  LET piece == Piece(f, f.to - f.from)
      next  == IF link = "bitbox" THEN f.seq + 1 ELSE f.seq
  IN IF link = "coldcard" THEN Append(assembly, piece)
     ELSE IF next = 0 THEN <<piece>>
     ELSE IF next = Len(assembly) THEN Append(assembly, piece)
     ELSE << >>

Covered(pieces) ==
  pieces # << >> /\ pieces[Len(pieces)].to >= pieces[1].msg.len

DeviceHears(f) ==
  LET pieces == Assembled(f)
      whole  == IF link = "coldcard" THEN f.last ELSE Covered(pieces)
  IN IF whole
     THEN /\ assembly' = << >>
          /\ inbox' = Append(inbox, IF Whole(pieces) THEN pieces[1].msg ELSE NoMessage)
     ELSE assembly' = pieces /\ UNCHANGED inbox

(* One turn of the sending loop.                                           *)
Send ==
  /\ pc = "send" /\ ~TooLong(link, out.msg.len)
  /\ DeviceHears(NextFrame)
  /\ out' = [out EXCEPT !.seq = @ + 1, !.offset = NextFrame.to]
  /\ pc' = IF NextFrame.to < out.msg.len THEN "send" ELSE "receive"
  /\ UNCHANGED <<link, in, frameSize, attempts, platform, cancelled, failed, fault,
                 issued, wire, working>>

(* A write that throws, is cancelled or is short; the frame may have gone. *)
SendFails ==
  /\ \/ pc = "send" /\ ~TooLong(link, out.msg.len)
     \/ pc = "probe"
  /\ Throw
  /\ \/ UNCHANGED <<assembly, inbox>>
     \/ IF pc = "send" THEN DeviceHears(NextFrame)
        ELSE inbox' = Append(inbox, MtuProbe) /\ UNCHANGED assembly
  /\ UNCHANGED <<fault, wire, working>>

-----------------------------------------------------------------------------
(* Reading.  Ignored frames are other notifications of a BLE device;       *)
(* refused ones throw.                                                     *)

Ignores(f) == link = "ble" /\ f.tag # "data"

(* Mutant of Refuses: the sequence number of a report is not compared. *)
RefusesUnnumbered(f) == link = "bitbox" /\ in.want = 0 /\ f.seq # -1

Refuses(f) ==
  \/ link \in {"ledger", "ble"} /\ f.seq # in.want
  \/ link = "bitbox" /\ in.want = 0 /\ f.seq # -1

(* The bytes copied from a frame: of a HID report as many as are missing,  *)
(* whatever the report holds.                                              *)
Taken(f) ==
  LET total == IF in.want = 0 THEN f.total ELSE in.expected IN
  CASE link = "coldcard" -> f.to - f.from
    [] link = "ble"      -> Smaller(f.to - f.from, total - in.have)
    [] OTHER             -> Smaller(IF in.want = 0 THEN 57 ELSE 59, total - in.have)

Accept(f) ==
  [want |-> in.want + 1,
   expected |-> IF in.want = 0 THEN f.total ELSE in.expected,
   have |-> in.have + Taken(f),
   pieces |-> Append(in.pieces, Piece(f, Taken(f)))]

(* Mutant of Last: a message is over once more than its length is there. *)
LastStrict(f) ==
  IF link = "coldcard" THEN f.last \/ (in.want = 0 /\ f.fram)
  ELSE in.have + Taken(f) > (IF in.want = 0 THEN f.total ELSE in.expected)

Last(f) ==
  IF link = "coldcard" THEN f.last \/ (in.want = 0 /\ f.fram)
  ELSE in.have + Taken(f) >= (IF in.want = 0 THEN f.total ELSE in.expected)

Take(f) ==
  IF Ignores(f) THEN UNCHANGED <<pc, in>>
  ELSE in' = Accept(f) /\ pc' = IF Last(f) THEN "read" ELSE "receive"

Receive ==
  /\ pc = "receive" /\ wire # << >>
  /\ Ignores(Head(wire)) \/ ~Refuses(Head(wire))
  /\ wire' = Tail(wire)
  /\ Take(Head(wire))
  /\ UNCHANGED <<link, out, frameSize, attempts, platform, cancelled, failed, fault,
                 issued, deviceVars>>

(* A report cut short behind its header: refused, except by LedgerHidLink,  *)
(* whose buffer then still holds the report before it.                     *)
ReceiveShort ==
  /\ pc = "receive" /\ wire # << >> /\ fault = "none"
  /\ link = "ledger" /\ ~Refuses(Head(wire))
  /\ fault' = "short"
  /\ wire' = Tail(wire)
  /\ Take([Head(wire) EXCEPT !.msg = NoMessage])
  /\ UNCHANGED <<link, out, frameSize, attempts, platform, cancelled, failed, issued, deviceVars>>

ReceiveRefused ==
  /\ pc = "receive" /\ wire # << >>
  /\ ~Ignores(Head(wire)) /\ Refuses(Head(wire))
  /\ wire' = Tail(wire)
  /\ Throw
  /\ UNCHANGED <<fault, deviceVars>>

(* The channel throws, is cancelled or returns a report of the wrong size. *)
ReceiveFails ==
  /\ pc \in {"receive", "infer"}
  /\ Throw
  /\ wire' \in {wire} \cup (IF wire = << >> THEN {} ELSE {Tail(wire)})
  /\ UNCHANGED <<fault, deviceVars>>

(* The reply is whole; a BitBox's first byte says what it is.              *)
Status == IF link = "bitbox" THEN in.pieces[1].msg.kind ELSE "ack"

Polls ==
  /\ pc = "read" /\ Status = "notready"
  /\ Sending([req |-> issued, kind |-> "retry", len |-> 1])
  /\ pc' = "send"
  /\ UNCHANGED <<link, frameSize, attempts, platform, cancelled, failed, fault, issued,
                 wire, deviceVars>>

Rejected ==
  /\ pc = "read" /\ Status \notin {"ack", "notready"}
  /\ Throw
  /\ UNCHANGED <<fault, wire, deviceVars>>

Return ==
  /\ pc = "read" /\ Status = "ack"
  /\ Leave
  /\ UNCHANGED <<failed, fault, wire, deviceVars>>

-----------------------------------------------------------------------------
(* The device and the channel. *)

Reply(r, kind, n) ==
  wire' = wire \o AnswerFrames(link, [req |-> r, kind |-> kind, len |-> n])

(* A reply of one report that is not marked as the last. *)
Fram(msg) ==
  [tag |-> "data", msg |-> msg, from |-> 0, to |-> msg.len, fram |-> TRUE, seq |-> 0,
   total |-> msg.len, last |-> FALSE]

(* A BitBox asks for patience, or refuses a request while it is busy with  *)
(* another, or a poll for none.                                            *)
DeviceStalls ==
  /\ link = "bitbox" /\ inbox # << >>
  /\ LET m == Head(inbox) IN
     \/ /\ m.kind = "new" /\ working \in {0, m.req}
        /\ working' = m.req /\ Reply(m.req, "notready", 1)
     \/ m.kind = "new" /\ working \notin {0, m.req} /\ UNCHANGED working /\ Reply(m.req, "busy", 1)
     \/ m.kind = "retry" /\ working # 0 /\ UNCHANGED working /\ Reply(working, "notready", 1)
     \/ m.kind = "retry" /\ working = 0 /\ UNCHANGED working /\ Reply(m.req, "nack", 1)
  /\ inbox' = Tail(inbox)
  /\ UNCHANGED <<link, pc, hostVars, platform, cancelled, failed, fault, issued, assembly>>

DeviceAnswers ==
  /\ inbox # << >> /\ Head(inbox).kind # "probe"
  /\ LET m == Head(inbox) IN
     /\ m.kind = "retry" => working # 0
     /\ \E n \in AnswerSizes[link] :
          \/ Reply(IF m.kind = "retry" THEN working ELSE m.req, "ack",
                   n + IF link = "bitbox" THEN 1 ELSE 0)
          \/ /\ link = "coldcard" /\ n <= 63
             /\ wire' = Append(wire, Fram([req |-> m.req, kind |-> "ack", len |-> n]))
  /\ working' = 0
  /\ inbox' = Tail(inbox)
  /\ UNCHANGED <<link, pc, hostVars, platform, cancelled, failed, fault, issued, assembly>>

Notification(tag, n) ==
  [tag |-> tag, msg |-> NoMessage, from |-> 0, to |-> 0, fram |-> FALSE, seq |-> 0,
   total |-> n, last |-> FALSE]

DeviceTellsMtu(n) ==
  /\ inbox # << >> /\ Head(inbox).kind = "probe"
  /\ wire' = Append(wire, Notification("mtu", n))
  /\ inbox' = Tail(inbox)
  /\ UNCHANGED <<link, pc, hostVars, platform, cancelled, failed, fault, issued, assembly, working>>

(* A keep-alive, at most one on the wire at a time. *)
DeviceChatters ==
  /\ link = "ble"
  /\ \A k \in DOMAIN wire : wire[k].tag # "other"
  /\ wire' = Append(wire, Notification("other", 0))
  /\ UNCHANGED <<link, pc, hostVars, platform, cancelled, failed, fault, issued, deviceVars>>

(* One frame is lost, once. *)
ChannelLoses ==
  /\ fault = "none"
  /\ \E k \in DOMAIN wire :
       wire' = SubSeq(wire, 1, k - 1) \o SubSeq(wire, k + 1, Len(wire))
  /\ fault' = "lost"
  /\ UNCHANGED <<link, pc, hostVars, platform, cancelled, failed, issued, deviceVars>>

-----------------------------------------------------------------------------
Proceeds ==
  \/ Probe \/ InferMtu \/ NoMtu \/ Refuse \/ Send \/ Receive \/ ReceiveRefused
  \/ Polls \/ Rejected \/ Return

(* A cooperating channel ends a suspended call whose Job is cancelled. *)
Abandons == cancelled /\ (SendFails \/ ReceiveFails)

DeviceActs == DeviceStalls \/ DeviceAnswers \/ \E n \in DeviceMtus : DeviceTellsMtu(n)

Next ==
  \/ \E n \in RequestSizes[link] : Invoke(n)
  \/ Cancel \/ Proceeds \/ SendFails \/ ReceiveFails \/ ReceiveShort
  \/ DeviceActs \/ DeviceChatters \/ ChannelLoses

Spec == Init /\ [][Next]_vars

(* exchange keeps running, the device answers what it is asked, and does   *)
(* not ask for patience for ever.                                          *)
Fairness == WF_vars(Proceeds) /\ WF_vars(Abandons) /\ WF_vars(DeviceActs) /\ SF_vars(DeviceAnswers)

-----------------------------------------------------------------------------
(***************************************************************************)
(* Properties.                                                             *)
(***************************************************************************)

(* While every exchange completes, an exchange returns the whole answer to *)
(* its own request.  These links do not retire (README.md:411-413 names    *)
(* the two that do), so after a failure or a cancellation the answer may be *)
(* an earlier request's; but numbered frames never yield parts of one, even *)
(* when the channel loses a frame, nor does U2F while it loses none.       *)
PacketAnswer ==
  pc = "read" /\ Status = "ack" =>
    /\ ~failed /\ fault = "none" => Whole(in.pieces) /\ in.pieces[1].msg.req = issued
    /\ (link \in {"ledger", "ble"} /\ fault # "short") \/ (link = "bitbox" /\ fault = "none")
         => Whole(in.pieces)

(* The device only ever acts on a request that the host was asked to send, *)
(* whole, although an earlier one may have stopped half way; a Coldcard,   *)
(* which cannot tell where a request starts, as long as none has.  And     *)
(* every frame keeps to its format: a continuation number below the bit    *)
(* that marks an init frame, a length of 16 bits, a count of 6, and no     *)
(* more than the platform's MTU where that is at least 20.                 *)
RequestIntact ==
  /\ link # "coldcard" \/ ~failed =>
       \A k \in DOMAIN inbox : inbox[k] # NoMessage
  /\ pc = "send" /\ ~TooLong(link, out.msg.len) =>
       LET f == NextFrame IN
       CASE link = "bitbox"   -> f.seq < 128 /\ f.total < 65536
         [] link = "coldcard" -> f.to - f.from \in 1 .. 63
         [] link = "ble"      -> (f.to - f.from) + (IF f.seq = 0 THEN 5 ELSE 3) <= Larger(20, platform)
         [] OTHER             -> f.to > f.from

(* An exchange ends: with a device that answers, unless a frame was lost;  *)
(* and in any case once it is cancelled, lost frame or not.                *)
PacketEnds ==
  /\ (pc # "idle" /\ fault = "none") ~> (pc = "idle" \/ fault # "none")
  /\ cancelled ~> ~cancelled
=============================================================================
