-------------------------- MODULE PlainLinksProofs --------------------------
(***************************************************************************)
(* Proofs about the links that do not retire, for messages of any length,  *)
(* any number of exchanges and any CBOR walk that knows where the device's *)
(* messages end: an exchange returns its own answer, and the device acts on *)
(* whole requests.                                                       *)
(***************************************************************************)
EXTENDS PlainLinks, WalkCuts, SequenceTheorems, TLAPS

-----------------------------------------------------------------------------
(* Types of the packet links.                                            *)

LinkNames == {"ledger", "ble", "coldcard", "bitbox"}

Kinds == {"none", "probe", "new", "retry", "ack", "notready", "busy", "nack"}

Message == [req : Nat, kind : Kinds, len : Nat]

PieceOf == [msg : Message, from : Int, to : Int]

Frame ==
  [tag : {"data", "mtu", "other"}, msg : Message, from : Nat, to : Nat, fram : BOOLEAN,
   seq : Int, total : Nat, last : BOOLEAN]

PacketTypeOK ==
  /\ link \in Links
  /\ pc \in {"idle", "probe", "infer", "send", "receive", "read"}
  /\ out \in [msg : Message, seq : Nat, offset : Int]
  /\ in \in [want : Nat, expected : Nat, have : Int, pieces : Seq(PieceOf)]
  /\ frameSize \in Nat /\ attempts \in Nat /\ platform \in Nat
  /\ cancelled \in BOOLEAN /\ failed \in BOOLEAN
  /\ fault \in {"none", "lost", "short"}
  /\ issued \in Nat
  /\ wire \in Seq(Frame) /\ assembly \in Seq(PieceOf) /\ inbox \in Seq(Message)
  /\ working \in Nat

-----------------------------------------------------------------------------
(* The inductive invariant.                                              *)

(* Where a device's frame number n begins: the length of the n before it.  *)
First(l) == IF l = "ledger" THEN 57 ELSE Room(l, 20, TRUE)
Rest(l)  == Room(l, 20, FALSE)
Start(l, n) == IF n = 0 THEN 0 ELSE First(l) + (n - 1) * Rest(l)

IsData(f) == f.tag = "data"

Number(l, f) == IF l = "bitbox" THEN f.seq + 1 ELSE f.seq

Ends(f) == f.to = f.msg.len

(* A frame as the framing of the link defines it.                        *)
Formed(l, f) ==
  /\ f.fram => Number(l, f) = 0
  /\ Number(l, f) \in Nat /\ f.total = f.msg.len
  /\ f.from = Start(l, Number(l, f)) /\ f.from <= f.msg.len
  /\ f.to = Smaller(f.msg.len, Start(l, Number(l, f) + 1))
  /\ l = "coldcard" => (Ends(f) <=> f.last \/ f.fram)

WireFormed ==
  \A k \in DOMAIN wire :
    /\ IsData(wire[k]) => Formed(link, wire[k])
    /\ ~IsData(wire[k]) => link = "ble"

(* The pieces are the bytes of m up to off.                              *)
Covers(pieces, m, off) ==
  /\ pieces # << >>
  /\ pieces[1].from = 0
  /\ \A k \in DOMAIN pieces : pieces[k].msg = m
  /\ \A k \in DOMAIN pieces : k > 1 => pieces[k].from = pieces[k - 1].to
  /\ pieces[Len(pieces)].to = off

(* What the device has of the request that is being sent.                *)
Sent ==
  /\ out.seq > 0 =>
       /\ out.offset \in 0 .. out.msg.len - 1
       /\ link # "coldcard" \/ ~failed => Covers(assembly, out.msg, out.offset)
       /\ link # "coldcard" => Len(assembly) = out.seq
  /\ out.seq = 0 =>
       /\ out.offset = 0
       /\ link = "coldcard" /\ ~failed => assembly = << >>
  /\ link = "bitbox" /\ out.seq > 0 => out.offset = 57 + 59 * (out.seq - 1)
  /\ link # "ble" => out.msg.len > 0
  /\ link = "ble" => frameSize >= 20

(* What waits in the device, or is being put together there.             *)
Queued ==
  /\ \A k \in DOMAIN assembly : assembly[k].msg.kind \in {"new", "retry"}
  /\ \A k \in DOMAIN inbox :
       /\ inbox[k].kind = "probe" => link = "ble"
       /\ link # "coldcard" \/ ~failed => inbox[k].kind # "none"

SendInv ==
  /\ Queued
  /\ pc = "send" => Sent
  /\ pc # "send" /\ link = "coldcard" /\ ~failed => assembly = << >>
  /\ pc \in {"probe", "infer"} => link = "ble" /\ out.seq = 0 /\ out.offset = 0
  /\ pc \in {"probe", "infer", "send"} => out.msg.kind \in {"new", "retry"}
  /\ frameSize # 0 => frameSize \in 20 .. Larger(20, platform)

(* j is the next data frame behind i; the first one.                     *)
Neighbours(w, i, j) ==
  /\ i \in DOMAIN w /\ j \in DOMAIN w /\ i < j
  /\ IsData(w[i]) /\ IsData(w[j])
  /\ \A k \in i + 1 .. j - 1 : ~IsData(w[k])

Foremost(w, j) == j \in DOMAIN w /\ IsData(w[j]) /\ \A k \in 1 .. j - 1 : ~IsData(w[k])
Hindmost(w, i) == i \in DOMAIN w /\ IsData(w[i]) /\ \A k \in i + 1 .. Len(w) : ~IsData(w[k])

(* g follows when n frames of m were there, the last of them up to off: as *)
(* sent, and as it may look when a frame was lost.                       *)
Continues(l, m, n, off, g) ==
  IF off < m.len THEN g.msg = m /\ Number(l, g) = n ELSE Number(l, g) = 0
MayFollow(l, m, n, off, g) ==
  off < m.len /\ Number(l, g) = n => g.msg = m

Strong(l, w) ==
  /\ \A i, j \in DOMAIN w : Neighbours(w, i, j) =>
       Continues(l, w[i].msg, Number(l, w[i]) + 1, w[i].to, w[j])
  /\ \A i \in DOMAIN w : Hindmost(w, i) => Ends(w[i])
Linked(l, w) ==
  \A i, j \in DOMAIN w : Neighbours(w, i, j) =>
    MayFollow(l, w[i].msg, Number(l, w[i]) + 1, w[i].to, w[j])

Chained ==
  /\ fault = "none" => Strong(link, wire)
  /\ fault = "lost" /\ link \in {"ledger", "ble"} => Linked(link, wire)

(* When pieces are never mixed.                                          *)
Sound ==
  \/ link \in {"ledger", "ble"} /\ fault # "short"
  \/ fault = "none" /\ (link = "bitbox" \/ ~failed)

Prefix(m) ==
  /\ in.want = Len(in.pieces)
  /\ in.have = Smaller(m.len, Start(link, in.want)) /\ in.expected = m.len
  /\ Covers(in.pieces, m, in.have)

(* The next data frame is number n of m, or unless n was lost may be.    *)
Expects(l, w, fl, m, n) ==
  /\ fl = "none" => \E j \in DOMAIN w : IsData(w[j])
  /\ \A j \in DOMAIN w : Foremost(w, j) =>
       /\ fl = "none" => w[j].msg = m /\ Number(l, w[j]) = n
       /\ Number(l, w[j]) = n => w[j].msg = m

Reading ==
  /\ in = NotReading \/ Prefix(in.pieces[1].msg)
  /\ pc = "receive" /\ in.want > 0 =>
       /\ in.have < in.pieces[1].msg.len
       /\ Expects(link, wire, fault, in.pieces[1].msg, in.want)
  /\ pc = "read" => in.want > 0 /\ in.have = in.pieces[1].msg.len

ReadInv ==
  /\ pc \notin {"receive", "read"} => in = NotReading
  /\ Sound => Reading

(* While nothing went wrong: who owes what.                              *)
NoData == \A k \in DOMAIN wire : ~IsData(wire[k])

Settles(m) == m.req = issued /\ working = IF m.kind = "notready" THEN issued ELSE 0

Asked ==
  /\ in = NotReading /\ NoData
  /\ \E m \in Message :
       /\ inbox = <<m>> /\ m.req = issued /\ m.kind \in {"new", "retry"}
       /\ working = IF m.kind = "retry" THEN issued ELSE 0

Answered ==
  /\ inbox = << >>
  /\ \E k \in DOMAIN wire : IsData(wire[k])
  /\ \A k \in DOMAIN wire : IsData(wire[k]) => Settles(wire[k].msg)
  /\ \A k \in DOMAIN wire : Foremost(wire, k) => Number(link, wire[k]) = in.want
  /\ \A i, j \in DOMAIN wire : i < j /\ IsData(wire[i]) /\ IsData(wire[j]) => ~Ends(wire[i])
  /\ in.want > 0 => Settles(in.pieces[1].msg)

Quiet ==
  /\ working # 0 => link = "bitbox" /\ working = issued
  /\ pc \in {"idle", "probe"} =>
       /\ inbox = << >> /\ NoData /\ working = 0
       /\ link = "ble" /\ frameSize = 0 => \A k \in DOMAIN wire : wire[k].tag = "other"
  /\ pc = "infer" =>
       /\ NoData /\ working = 0
       /\ \/ /\ \E m \in Message : inbox = <<m>> /\ m.kind = "probe"
             /\ \A k \in DOMAIN wire : wire[k].tag = "other"
          \/ inbox = << >>
  /\ pc = "send" =>
       /\ inbox = << >> /\ NoData
       /\ working = IF out.msg.kind = "retry" THEN issued ELSE 0
       /\ TooLong(link, out.msg.len) => out.msg.kind = "new"
  /\ pc # "idle" => issued > 0
  /\ pc \in {"probe", "infer"} => out.msg.kind = "new" /\ frameSize = 0
  /\ pc \in {"probe", "infer", "send"} => out.msg.req = issued
  /\ pc \in {"receive", "read"} => link # "ble" \/ frameSize # 0
  /\ pc = "receive" => Asked \/ Answered
  /\ pc = "read" => inbox = << >> /\ NoData /\ Settles(in.pieces[1].msg)

QuietInv == ~failed /\ fault = "none" => Quiet

PacketInv == PacketTypeOK /\ WireFormed /\ SendInv /\ Chained /\ ReadInv /\ QuietInv

-----------------------------------------------------------------------------
(* The Jade link.                                                        *)

Tagged(m, r) == [k \in DOMAIN m |-> [req |-> r, byte |-> m[k]]]

JadeByte == [req : Nat, byte : 0 .. 255 \cup Alphabet]

JadeTypeOK ==
  /\ alien \in BOOLEAN /\ stopped \in BOOLEAN /\ broke \in BOOLEAN
  /\ phase \in {"idle", "read", "whole", "thrown"}
  /\ buffer \in Seq(JadeByte) /\ stream \in Seq(JadeByte)
  /\ unanswered \in Seq(Nat) /\ called \in Nat
  /\ message \in Messages \cup {<< >>}

(* A Jade whose exchanges all completed owes what was asked last, and no *)
(* more; between buffer and stream is its whole answer.                  *)
JadeClean ==
  /\ phase # "thrown"
  /\ phase = "idle" => buffer = << >> /\ stream = << >> /\ unanswered = << >>
  /\ phase = "read" =>
       \/ buffer = << >> /\ stream = << >> /\ unanswered = <<called>>
       \/ /\ message \in Messages /\ unanswered = << >> /\ stream # << >>
          /\ buffer \o stream = Tagged(message, called)
  /\ phase = "whole" =>
       /\ message \in Messages /\ unanswered = << >> /\ stream = << >>
       /\ buffer = Tagged(message, called)

JadeInv ==
  /\ JadeTypeOK
  /\ ~alien /\ ~broke => JadeClean
  /\ ~alien /\ phase # "idle" /\ called <= 1 => ~broke
  /\ called = 0 => phase = "idle" /\ ~broke

PlainInv == serial \in BOOLEAN /\ PacketInv /\ JadeInv
-----------------------------------------------------------------------------
(* The frames of a device.                                               *)

(* The link is one of the four, and its lengths are naturals.            *)
LEMMA LinkKnown ==
  ASSUME link \in Links
  PROVE  /\ link \in LinkNames
         /\ RequestSizes[link] \subseteq Nat /\ AnswerSizes[link] \subseteq Nat
BY PacketAssumption DEF LinkNames

(* The smaller of two integers.                                          *)
LEMMA SmallerFacts ==
  ASSUME NEW a \in Int, NEW b \in Int
  PROVE  /\ Smaller(a, b) \in Int /\ Smaller(a, b) <= a /\ Smaller(a, b) <= b
         /\ Smaller(a, b) \in {a, b}
BY DEF Smaller

(* What the frames of a device hold, link by link.                       *)
LEMMA RoomFacts ==
  ASSUME NEW l \in LinkNames
  PROVE  /\ First(l) = IF l = "ble" THEN 15 ELSE IF l = "coldcard" THEN 63 ELSE 57
         /\ Rest(l) = IF l = "ble" THEN 17 ELSE IF l = "coldcard" THEN 63 ELSE 59
<1>1. CASE l = "ledger"
  BY <1>1 DEF First, Rest, Room
<1>2. CASE l = "ble"
  <2>1. (IF TRUE THEN 20 - 5 ELSE 20 - 3) = 15 /\ (IF FALSE THEN 20 - 5 ELSE 20 - 3) = 17
    OBVIOUS
  <2>2. /\ Room("ble", 20, TRUE) = IF TRUE THEN 20 - 5 ELSE 20 - 3
        /\ Room("ble", 20, FALSE) = IF FALSE THEN 20 - 5 ELSE 20 - 3
    BY Zenon DEF Room
  <2> QED
    BY <1>2, <2>1, <2>2 DEF First, Rest
<1>3. CASE l = "coldcard"
  BY <1>3 DEF First, Rest, Room
<1>4. CASE l = "bitbox"
  <2>1. (IF TRUE THEN 57 ELSE 59) = 57 /\ (IF FALSE THEN 57 ELSE 59) = 59
    OBVIOUS
  <2>2. /\ Room("bitbox", 20, TRUE) = IF TRUE THEN 57 ELSE 59
        /\ Room("bitbox", 20, FALSE) = IF FALSE THEN 57 ELSE 59
    BY Zenon DEF Room
  <2> QED
    BY <1>4, <2>1, <2>2 DEF First, Rest
<1> QED
  BY <1>1, <1>2, <1>3, <1>4 DEF LinkNames

(* A device's frames begin at increasing places, one room apart.         *)
LEMMA StartFacts ==
  ASSUME NEW l \in LinkNames, NEW n \in Nat
  PROVE  /\ Start(l, n) \in Nat /\ Start(l, 0) = 0 /\ Start(l, 1) = First(l)
         /\ Start(l, n + 1) = Start(l, n) + (IF n = 0 THEN First(l) ELSE Rest(l))
         /\ Start(l, n) < Start(l, n + 1)
<1>1. First(l) \in Nat \ {0} /\ Rest(l) \in {17, 59, 63}
  BY RoomFacts DEF LinkNames
<1>2. PICK r \in {17, 59, 63} : r = Rest(l)
  BY <1>1
<1>3. \A m \in Nat \ {0} : Start(l, m) = First(l) + (m - 1) * r
  BY <1>1, <1>2 DEF Start
<1>4. Start(l, 0) = 0 /\ Start(l, 1) = First(l)
  BY <1>1, <1>3 DEF Start
<1>5. CASE n = 0
  BY <1>1, <1>4, <1>5
<1>6. CASE n # 0
  <2>1. Start(l, n) = First(l) + (n - 1) * r /\ Start(l, n + 1) = First(l) + n * r
    BY <1>3, <1>6
  <2>2. n - 1 \in Nat /\ n * r = (n - 1) * r + r /\ (n - 1) * r \in Nat
    BY <1>6
  <2> QED
    BY <1>1, <1>2, <1>4, <1>6, <2>1, <2>2
<1> QED
  BY <1>5, <1>6

(* How many frames a message takes: enough, and not one more.            *)
LEMMA CountFacts ==
  ASSUME NEW first \in Nat, NEW rest \in {17, 59, 63}, NEW len \in Nat
  PROVE  LET count == IF len <= first THEN 1 ELSE 1 + (len - first + rest - 1) \div rest
         IN  /\ count \in Nat \ {0}
             /\ count > 1 => first + (count - 2) * rest < len
             /\ len <= first + (count - 1) * rest
<1>1. CASE rest = 17
  BY <1>1, Z3
<1>2. CASE rest = 59
  BY <1>2, Z3
<1>3. CASE rest = 63
  BY <1>3, Z3
<1> QED
  BY <1>1, <1>2, <1>3

(* A device's message is cut where its frames begin, to the end.         *)
LEMMA AnswerFormed ==
  ASSUME NEW l \in LinkNames, NEW msg \in Message
  PROVE  LET s == AnswerFrames(l, msg) IN
         /\ s \in Seq(Frame) /\ Len(s) \in Nat \ {0}
         /\ \A k \in 1 .. Len(s) :
              /\ IsData(s[k]) /\ s[k].msg = msg /\ Number(l, s[k]) = k - 1
              /\ Formed(l, s[k])
              /\ Ends(s[k]) <=> k = Len(s)
              /\ ~s[k].fram
<1> DEFINE first == First(l)
           rest == Rest(l)
           len == msg.len
           count == IF len <= first THEN 1 ELSE 1 + (len - first + rest - 1) \div rest
           F(k) == [tag |-> "data", msg |-> msg,
                    from |-> IF k = 1 THEN 0 ELSE first + (k - 2) * rest,
                    to |-> Smaller(len, first + (k - 1) * rest), fram |-> FALSE,
                    seq |-> IF l = "bitbox" THEN (k - 1) - 1 ELSE k - 1,
                    total |-> len, last |-> (k = count)]
           s == [k \in 1 .. count |-> F(k)]
<1>1. AnswerFrames(l, msg) = s
  BY DEF AnswerFrames, Carrying, First, Rest
<1>2. len \in Nat /\ first \in Nat \ {0} /\ rest \in {17, 59, 63}
  BY RoomFacts DEF LinkNames, Message
<1>3. /\ count \in Nat \ {0}
      /\ count > 1 => first + (count - 2) * rest < len
      /\ len <= first + (count - 1) * rest
  <2> HIDE DEF first, rest, len
  <2> QED
    BY <1>2, CountFacts
<1> HIDE DEF count
<1>4. ASSUME NEW k \in 1 .. count
      PROVE  /\ Start(l, k - 1) = IF k = 1 THEN 0 ELSE first + (k - 2) * rest
             /\ Start(l, k) = first + (k - 1) * rest
             /\ Start(l, k - 1) \in Nat /\ Start(l, k) \in Nat
             /\ Start(l, k - 1) < Start(l, k)
             /\ (k - 1) + 1 = k
  <2>1. k - 1 \in Nat /\ k \in Nat \ {0} /\ (k - 1) + 1 = k /\ (k - 1) - 1 = k - 2
    BY <1>3
  <2>2. Start(l, k) = first + (k - 1) * rest
    BY <2>1 DEF Start
  <2>3. Start(l, k - 1) = IF k = 1 THEN 0 ELSE first + (k - 2) * rest
    BY <2>1 DEF Start
  <2> QED
    BY <2>1, <2>2, <2>3, StartFacts
<1>5. ASSUME NEW k \in 1 .. count
      PROVE  /\ k < count => Start(l, k) < len
             /\ Start(l, k - 1) <= len
             /\ len <= Start(l, count)
  <2>1. count \in 1 .. count
    BY <1>3
  <2>2. len <= Start(l, count)
    BY <1>3, <1>4, <2>1
  <2>3. CASE k = count
    <3>1. CASE count = 1
      BY <1>2, <1>4, <2>2, <2>3, <3>1
    <3>2. CASE count # 1
      BY <1>2, <1>3, <1>4, <2>2, <2>3, <3>2
    <3> QED
      BY <3>1, <3>2
  <2>4. CASE k < count
    <3>1. first + (count - 2) * rest < len
      BY <1>3, <2>4
    <3>2. k - 1 <= count - 2 /\ k - 1 \in Nat /\ count - 2 \in Nat
      BY <1>3, <2>4
    <3>3. (k - 1) * rest <= (count - 2) * rest
      <4>1. CASE rest = 17
        BY <3>2, <4>1
      <4>2. CASE rest = 59
        BY <3>2, <4>2
      <4>3. CASE rest = 63
        BY <3>2, <4>3
      <4> QED
        BY <1>2, <4>1, <4>2, <4>3
    <3>4. /\ first + (k - 1) * rest \in Int /\ first + (count - 2) * rest \in Int
          /\ (k - 1) * rest \in Int /\ (count - 2) * rest \in Int
      BY <1>2, <3>2
    <3>5. first + (k - 1) * rest < len
      <4> HIDE DEF first, rest, len
      <4> QED
        BY <1>2, <3>1, <3>3, <3>4
    <3> QED
      BY <1>2, <1>4, <2>2, <3>5
  <2> QED
    BY <1>3, <2>3, <2>4
<1>6. ASSUME NEW k \in 1 .. count
      PROVE  /\ F(k) \in Frame
             /\ IsData(F(k)) /\ F(k).msg = msg /\ Number(l, F(k)) = k - 1
             /\ Formed(l, F(k))
             /\ Ends(F(k)) <=> k = count
             /\ ~F(k).fram
  <2>1. /\ F(k).from = Start(l, k - 1) /\ F(k).to = Smaller(len, Start(l, k))
        /\ F(k).total = len /\ F(k).msg = msg /\ F(k).tag = "data" /\ F(k).fram = FALSE
    BY <1>4
  <2>2. F(k).last <=> k = count
    OBVIOUS
  <2>3. F(k).last \in BOOLEAN /\ F(k).seq \in Int /\ k - 1 \in Nat
    BY <1>3
  <2>4. Number(l, F(k)) = k - 1
    BY <1>3 DEF Number
  <2>5. F(k).to \in Nat /\ (F(k).to = len <=> k = count)
    BY <1>2, <1>3, <1>4, <1>5, <2>1 DEF Smaller
  <2>6. F(k) = [tag |-> F(k).tag, msg |-> F(k).msg, from |-> F(k).from, to |-> F(k).to,
                fram |-> F(k).fram, seq |-> F(k).seq, total |-> F(k).total, last |-> F(k).last]
    OBVIOUS
  <2> HIDE DEF F
  <2>7. F(k) \in Frame
    BY <1>2, <1>4, <2>1, <2>3, <2>5, <2>6 DEF Frame
  <2>8. Formed(l, F(k))
    BY <1>2, <1>4, <1>5, <2>1, <2>2, <2>3, <2>4, <2>5 DEF Formed, Ends
  <2> QED
    BY <2>1, <2>4, <2>5, <2>7, <2>8 DEF IsData, Ends
<1>7. s \in Seq(Frame) /\ Len(s) = count /\ \A k \in 1 .. count : s[k] = F(k)
  <2>1. \A k \in 1 .. count : F(k) \in Frame
    BY <1>6
  <2> HIDE DEF F
  <2> QED
    BY <1>3, <2>1
<1> HIDE DEF s, F
<1> QED
  BY <1>1, <1>3, <1>6, <1>7
-----------------------------------------------------------------------------
(* Types.                                                                *)

(* The values of a link at rest.                                         *)
LEMMA NoneTyped ==
  /\ NoMessage \in Message /\ MtuProbe \in Message
  /\ NotSending \in [msg : Message, seq : Nat, offset : Int]
  /\ NotReading \in [want : Nat, expected : Nat, have : Int, pieces : Seq(PieceOf)]
<1>1. NoMessage \in Message /\ MtuProbe \in Message
  BY DEF NoMessage, MtuProbe, Message, Kinds
<1>2. NotSending \in [msg : Message, seq : Nat, offset : Int]
  BY <1>1 DEF NotSending
<1>3. << >> \in Seq(PieceOf)
  OBVIOUS
<1>4. NotReading \in [want : Nat, expected : Nat, have : Int, pieces : Seq(PieceOf)]
  BY <1>3 DEF NotReading
<1> QED
  BY <1>1, <1>2, <1>4

(* The fields of the frame that goes out next.                           *)
LEMMA NextFrameFacts ==
  ASSUME PacketTypeOK
  PROVE  /\ NextFrame.msg = out.msg /\ NextFrame.from = out.offset
         /\ NextFrame.to =
              out.offset + Smaller(Room(link, frameSize, out.seq = 0), out.msg.len - out.offset)
         /\ NextFrame.seq = IF link = "bitbox" THEN out.seq - 1 ELSE out.seq
         /\ NextFrame.total = out.msg.len
         /\ NextFrame.last <=> NextFrame.to >= out.msg.len
         /\ NextFrame.to \in Int
         /\ Room(link, frameSize, out.seq = 0) \in Int
<1>1. /\ link \in LinkNames /\ out.msg \in Message /\ out.msg.len \in Nat /\ out.offset \in Int
      /\ out.seq \in Nat /\ frameSize \in Nat
  BY PacketAssumption DEF PacketTypeOK, LinkNames, Message
<1>2. Room(link, frameSize, out.seq = 0) \in Int
  BY <1>1 DEF Room, LinkNames
<1>3. /\ NextFrame.msg = out.msg /\ NextFrame.from = out.offset
      /\ NextFrame.to =
           out.offset + Smaller(Room(link, frameSize, out.seq = 0), out.msg.len - out.offset)
      /\ NextFrame.seq = IF link = "bitbox" THEN out.seq - 1 ELSE out.seq
      /\ NextFrame.total = out.msg.len
  BY DEF NextFrame, FrameOf, Carrying
<1>4. NextFrame.last <=> NextFrame.to >= out.msg.len
  BY DEF NextFrame, FrameOf, Carrying
<1>5. Smaller(Room(link, frameSize, out.seq = 0), out.msg.len - out.offset) \in Int
  BY <1>1, <1>2, SmallerFacts
<1>6. NextFrame.to \in Int
  BY <1>1, <1>3, <1>5
<1> QED
  BY <1>2, <1>3, <1>4, <1>6

(* What a device puts together is a sequence of pieces,                  *)
LEMMA AssembledTyped ==
  ASSUME PacketTypeOK
  PROVE  Assembled(NextFrame) \in Seq(PieceOf)
<1>1. Piece(NextFrame, NextFrame.to - NextFrame.from) \in PieceOf
  BY NextFrameFacts DEF PacketTypeOK, Piece, PieceOf
<1> QED
  BY <1>1 DEF PacketTypeOK, Assembled

(* whose first one carries a message,                                    *)
LEMMA FirstPiece ==
  ASSUME NEW p \in Seq(PieceOf), p # << >>
  PROVE  p[1] \in PieceOf /\ p[1].msg \in Message
<1>1. p[1] \in PieceOf
  BY EmptySeq, LenProperties
<1> QED
  BY <1>1 DEF PieceOf

(* so that hearing a frame keeps the types,                              *)
LEMMA HearsTyped ==
  ASSUME PacketTypeOK, DeviceHears(NextFrame)
  PROVE  assembly' \in Seq(PieceOf) /\ inbox' \in Seq(Message)
<1> DEFINE pieces == Assembled(NextFrame)
<1>1. pieces \in Seq(PieceOf)
  BY AssembledTyped
<1> HIDE DEF pieces
<1>2. Whole(pieces) => pieces[1].msg \in Message
  BY <1>1, FirstPiece DEF Whole
<1>3. inbox \in Seq(Message) /\ << >> \in Seq(PieceOf)
  BY DEF PacketTypeOK
<1>4. (IF Whole(pieces) THEN pieces[1].msg ELSE NoMessage) \in Message
  BY <1>2, NoneTyped
<1>5. \/ /\ assembly' = << >>
         /\ inbox' = Append(inbox, IF Whole(pieces) THEN pieces[1].msg ELSE NoMessage)
      \/ assembly' = pieces /\ inbox' = inbox
  BY DEF DeviceHears, pieces
<1>6. CASE assembly' = pieces /\ inbox' = inbox
  BY <1>1, <1>3, <1>6
<1>7. CASE /\ assembly' = << >>
           /\ inbox' = Append(inbox, IF Whole(pieces) THEN pieces[1].msg ELSE NoMessage)
  BY <1>3, <1>4, <1>7, AppendProperties
<1> QED
  BY <1>5, <1>6, <1>7

(* as answering does.                                                    *)
LEMMA AnswerTyped ==
  ASSUME PacketTypeOK, NEW r \in Nat, NEW k \in Kinds, NEW n \in Nat, Reply(r, k, n)
  PROVE  wire' \in Seq(Frame)
<1> DEFINE msg == [req |-> r, kind |-> k, len |-> n]
<1>1. msg \in Message
  BY DEF Message
<1>2. AnswerFrames(link, msg) \in Seq(Frame)
  BY <1>1, AnswerFormed, LinkKnown DEF PacketTypeOK
<1> HIDE DEF msg
<1> QED
  BY <1>2 DEF Reply, PacketTypeOK, msg

(* A report cut short is a frame still.                                  *)
LEMMA ShortTyped ==
  ASSUME NEW f \in Frame
  PROVE  [f EXCEPT !.msg = NoMessage] \in Frame
BY NoneTyped DEF Frame

(* Taking a frame moves the exchange on and keeps what it has read typed.   *)
LEMMA TakeTyped ==
  ASSUME PacketTypeOK, NEW f \in Frame, Take(f)
  PROVE  /\ pc' \in {"receive", "read"} \cup {pc}
         /\ in' \in [want : Nat, expected : Nat, have : Int, pieces : Seq(PieceOf)]
<1>1. in.want \in Nat /\ in.expected \in Nat /\ in.have \in Int /\ in.pieces \in Seq(PieceOf)
  BY DEF PacketTypeOK
<1>2. f.from \in Nat /\ f.to \in Nat /\ f.total \in Nat /\ f.msg \in Message
  BY DEF Frame
<1>3. Taken(f) \in Int
  <2> DEFINE total == IF in.want = 0 THEN f.total ELSE in.expected
  <2>1. /\ f.to - f.from \in Int /\ total - in.have \in Int
        /\ (IF in.want = 0 THEN 57 ELSE 59) \in Int
    BY <1>1, <1>2
  <2>2. /\ Smaller(f.to - f.from, total - in.have) \in Int
        /\ Smaller(IF in.want = 0 THEN 57 ELSE 59, total - in.have) \in Int
    <3> HIDE DEF total
    <3> QED
      BY <2>1, SmallerFacts
  <2> QED
    BY <2>1, <2>2 DEF Taken
<1>4. Piece(f, Taken(f)) \in PieceOf
  BY <1>2, <1>3 DEF Piece, PieceOf
<1>5. Append(in.pieces, Piece(f, Taken(f))) \in Seq(PieceOf)
  BY <1>1, <1>4, AppendProperties
<1>6. Accept(f) \in [want : Nat, expected : Nat, have : Int, pieces : Seq(PieceOf)]
  BY <1>1, <1>2, <1>3, <1>5 DEF Accept
<1> QED
  BY <1>6 DEF Take, PacketTypeOK

(* Leaving an exchange keeps the types,                                  *)
LEMMA LeaveTyped ==
  ASSUME PacketTypeOK, Leave, failed' \in BOOLEAN, fault' = fault, wire' \in Seq(Frame),
         assembly' \in Seq(PieceOf), inbox' \in Seq(Message), working' = working
  PROVE  PacketTypeOK'
<1>1. /\ pc' = "idle" /\ cancelled' = FALSE /\ attempts' = 0
      /\ link' = link /\ platform' = platform /\ frameSize' = frameSize /\ issued' = issued
  BY DEF Leave
<1>2. /\ out' \in [msg : Message, seq : Nat, offset : Int]
      /\ in' \in [want : Nat, expected : Nat, have : Int, pieces : Seq(PieceOf)]
  BY NoneTyped DEF Leave
<1> QED
  BY <1>1, <1>2 DEF PacketTypeOK

(* and so does throwing.                                                 *)
LEMMA ThrowTyped ==
  ASSUME PacketTypeOK, Throw, fault' = fault, wire' \in Seq(Frame),
         assembly' \in Seq(PieceOf), inbox' \in Seq(Message), working' = working
  PROVE  PacketTypeOK'
BY LeaveTyped DEF Throw

(* The first elements of wire and inbox, and what is behind them.        *)
LEMMA HeadTyped ==
  ASSUME PacketTypeOK
  PROVE  /\ wire # << >> => Head(wire) \in Frame /\ Tail(wire) \in Seq(Frame)
         /\ inbox # << >> => Head(inbox) \in Message /\ Tail(inbox) \in Seq(Message)
         /\ Len(wire) \in Nat /\ DOMAIN wire = 1 .. Len(wire)
         /\ wire \in Seq(Frame) /\ assembly \in Seq(PieceOf) /\ inbox \in Seq(Message)
BY HeadTailProperties, LenProperties DEF PacketTypeOK

(* Whatever the links do, their state keeps its types.                   *)
LEMMA TypeStep ==
  ASSUME PacketTypeOK, Next
  PROVE  PacketTypeOK'
<1> USE DEF hostVars, deviceVars
<1>1. ASSUME NEW n \in RequestSizes[link], Invoke(n)
      PROVE  PacketTypeOK'
  <2>1. [req |-> issued + 1, kind |-> "new", len |-> Framed(link, n)] \in Message
    <3>1. Framed(link, n) \in Nat
      <4>1. n \in Nat
        BY LinkKnown DEF PacketTypeOK
      <4> QED
        BY <4>1 DEF Framed
    <3> QED
      BY <3>1 DEF PacketTypeOK, Message, Kinds
  <2> QED
    BY <1>1, <2>1, NoneTyped DEF Invoke, Sending, PacketTypeOK
<1>2. CASE Cancel
  BY <1>2 DEF Cancel, PacketTypeOK
<1>3. CASE Probe
  BY <1>3, NoneTyped, AppendProperties, PacketAssumption DEF Probe, PacketTypeOK
<1>4. CASE InferMtu
  <2>1. Head(wire) \in Frame /\ Tail(wire) \in Seq(Frame)
    BY <1>4, HeadTyped DEF InferMtu
  <2>2. Head(wire).total \in Nat /\ platform \in Nat /\ attempts \in Nat
    BY <2>1 DEF Frame, PacketTypeOK
  <2>3. Larger(20, Smaller(Head(wire).total, platform)) \in Nat
    BY <2>2 DEF Larger, Smaller
  <2>4. CASE Head(wire).tag = "mtu"
    <3>1. /\ frameSize' = Larger(20, Smaller(Head(wire).total, platform))
          /\ pc' = "send" /\ attempts' = 0
      BY <1>4, <2>4 DEF InferMtu
    <3> QED
      BY <1>4, <2>1, <2>3, <3>1 DEF InferMtu, PacketTypeOK
  <2>5. CASE Head(wire).tag # "mtu"
    <3>1. attempts' = attempts - 1 /\ frameSize' = frameSize /\ pc' = pc /\ attempts > 0
      BY <1>4, <2>5 DEF InferMtu
    <3>2. attempts' \in Nat
      BY <2>2, <3>1
    <3> QED
      BY <1>4, <2>1, <3>1, <3>2 DEF InferMtu, PacketTypeOK
  <2> QED
    BY <2>4, <2>5
<1>5. CASE NoMtu
  BY <1>5, ThrowTyped, HeadTyped DEF NoMtu
<1>6. CASE Refuse
  <2>1. failed' \in BOOLEAN
    BY <1>6 DEF Refuse, PacketTypeOK
  <2> QED
    BY <1>6, <2>1, LeaveTyped, HeadTyped DEF Refuse
<1>7. CASE Send
  <2>1. out.msg \in Message /\ out.seq + 1 \in Nat /\ NextFrame.to \in Int
    BY NextFrameFacts DEF PacketTypeOK
  <2>2. out' = [out EXCEPT !.seq = @ + 1, !.offset = NextFrame.to]
    BY <1>7 DEF Send
  <2>3. out' \in [msg : Message, seq : Nat, offset : Int]
    BY <2>1, <2>2 DEF PacketTypeOK
  <2>4. assembly' \in Seq(PieceOf) /\ inbox' \in Seq(Message)
    BY <1>7, HearsTyped DEF Send
  <2> QED
    BY <1>7, <2>3, <2>4 DEF Send, PacketTypeOK
<1>8. CASE SendFails
  <2>1. Append(inbox, MtuProbe) \in Seq(Message)
    BY NoneTyped, HeadTyped, AppendProperties
  <2>2. \/ assembly' = assembly /\ inbox' = inbox
        \/ DeviceHears(NextFrame)
        \/ inbox' = Append(inbox, MtuProbe) /\ assembly' = assembly
    BY <1>8 DEF SendFails
  <2>3. assembly' \in Seq(PieceOf) /\ inbox' \in Seq(Message)
    BY <2>1, <2>2, HearsTyped, HeadTyped
  <2> QED
    BY <1>8, <2>3, ThrowTyped, HeadTyped DEF SendFails
<1>9. CASE Receive
  <2>1. Head(wire) \in Frame /\ Tail(wire) \in Seq(Frame)
    BY <1>9, HeadTyped DEF Receive
  <2> QED
    BY <1>9, <2>1, TakeTyped DEF Receive, PacketTypeOK
<1>10. CASE ReceiveShort
  <2>1. Head(wire) \in Frame /\ Tail(wire) \in Seq(Frame)
    BY <1>10, HeadTyped DEF ReceiveShort
  <2>2. [Head(wire) EXCEPT !.msg = NoMessage] \in Frame
    BY <2>1, ShortTyped
  <2> QED
    BY <1>10, <2>1, <2>2, TakeTyped DEF ReceiveShort, PacketTypeOK
<1>11. CASE ReceiveRefused
  <2>1. Tail(wire) \in Seq(Frame)
    BY <1>11, HeadTyped DEF ReceiveRefused
  <2> QED
    BY <1>11, <2>1, ThrowTyped, HeadTyped DEF ReceiveRefused
<1>12. CASE ReceiveFails
  <2>1. wire' \in Seq(Frame)
    <3>1. wire' = wire \/ (wire # << >> /\ wire' = Tail(wire))
      BY <1>12 DEF ReceiveFails
    <3> QED
      BY <3>1, HeadTyped
  <2> QED
    BY <1>12, <2>1, ThrowTyped, HeadTyped DEF ReceiveFails
<1>13. CASE Polls
  <2>1. [req |-> issued, kind |-> "retry", len |-> 1] \in Message
    BY DEF PacketTypeOK, Message, Kinds
  <2> QED
    BY <1>13, <2>1, NoneTyped DEF Polls, Sending, PacketTypeOK
<1>14. CASE Rejected
  BY <1>14, ThrowTyped, HeadTyped DEF Rejected
<1>15. CASE Return
  <2>1. failed' \in BOOLEAN
    BY <1>15 DEF Return, PacketTypeOK
  <2> QED
    BY <1>15, <2>1, LeaveTyped, HeadTyped DEF Return
<1>16. CASE DeviceStalls
  <2>1. Head(inbox) \in Message /\ Tail(inbox) \in Seq(Message)
    BY <1>16, HeadTailProperties DEF DeviceStalls, PacketTypeOK
  <2>2. Head(inbox).req \in Nat /\ working \in Nat
    BY <2>1 DEF Message, PacketTypeOK
  <2>3. {"notready", "busy", "nack"} \subseteq Kinds /\ 1 \in Nat
    BY DEF Kinds
  <2>4. wire' \in Seq(Frame) /\ working' \in Nat
    BY <1>16, <2>2, <2>3, AnswerTyped DEF DeviceStalls
  <2> QED
    BY <1>16, <2>1, <2>4 DEF DeviceStalls, PacketTypeOK
<1>17. CASE DeviceAnswers
  <2>1. Head(inbox) \in Message /\ Tail(inbox) \in Seq(Message)
    BY <1>17, HeadTailProperties DEF DeviceAnswers, PacketTypeOK
  <2>2. Head(inbox).req \in Nat /\ working \in Nat /\ "ack" \in Kinds
    BY <2>1 DEF Message, PacketTypeOK, Kinds
  <2>3. PICK n \in AnswerSizes[link] :
          \/ Reply(IF Head(inbox).kind = "retry" THEN working ELSE Head(inbox).req, "ack",
                   n + IF link = "bitbox" THEN 1 ELSE 0)
          \/ /\ link = "coldcard" /\ n <= 63
             /\ wire' = Append(wire, Fram([req |-> Head(inbox).req, kind |-> "ack", len |-> n]))
    BY <1>17 DEF DeviceAnswers
  <2>4. n \in Nat /\ n + (IF link = "bitbox" THEN 1 ELSE 0) \in Nat
    BY LinkKnown DEF PacketTypeOK
  <2>5. Fram([req |-> Head(inbox).req, kind |-> "ack", len |-> n]) \in Frame
    BY <2>2, <2>4 DEF Fram, Frame, Message
  <2>6. (IF Head(inbox).kind = "retry" THEN working ELSE Head(inbox).req) \in Nat
    BY <2>2
  <2>7. wire' \in Seq(Frame)
    <3>1. CASE wire' = Append(wire, Fram([req |-> Head(inbox).req, kind |-> "ack", len |-> n]))
      BY <2>5, <3>1, AppendProperties, HeadTyped
    <3>2. CASE Reply(IF Head(inbox).kind = "retry" THEN working ELSE Head(inbox).req, "ack",
                     n + IF link = "bitbox" THEN 1 ELSE 0)
      BY <2>2, <2>4, <2>6, <3>2, AnswerTyped
    <3> QED
      BY <2>3, <3>1, <3>2
  <2> QED
    BY <1>17, <2>1, <2>7 DEF DeviceAnswers, PacketTypeOK
<1>18. ASSUME NEW n \in DeviceMtus, DeviceTellsMtu(n)
       PROVE  PacketTypeOK'
  <2>1. Tail(inbox) \in Seq(Message)
    BY <1>18, HeadTailProperties DEF DeviceTellsMtu, PacketTypeOK
  <2>2. Notification("mtu", n) \in Frame
    BY NoneTyped, PacketAssumption DEF Notification, Frame
  <2> QED
    BY <1>18, <2>1, <2>2, AppendProperties DEF DeviceTellsMtu, PacketTypeOK
<1>19. CASE DeviceChatters
  <2>1. Notification("other", 0) \in Frame
    BY NoneTyped DEF Notification, Frame
  <2> QED
    BY <1>19, <2>1, AppendProperties DEF DeviceChatters, PacketTypeOK
<1>20. CASE ChannelLoses
  <2>1. PICK k \in DOMAIN wire : wire' = SubSeq(wire, 1, k - 1) \o SubSeq(wire, k + 1, Len(wire))
    BY <1>20 DEF ChannelLoses
  <2>2. wire \in Seq(Frame) /\ Len(wire) \in Nat /\ k \in 1 .. Len(wire)
    BY LenProperties DEF PacketTypeOK
  <2>3. SubSeq(wire, 1, k - 1) \in Seq(Frame) /\ SubSeq(wire, k + 1, Len(wire)) \in Seq(Frame)
    BY <2>2, SubSeqProperties
  <2>4. wire' \in Seq(Frame)
    BY <2>1, <2>3, ConcatProperties
  <2> QED
    BY <1>20, <2>4 DEF ChannelLoses, PacketTypeOK
<1> QED
  BY <1>1, <1>2, <1>3, <1>4, <1>5, <1>6, <1>7, <1>8, <1>9, <1>10, <1>11, <1>12, <1>13, <1>14,
     <1>15, <1>16, <1>17, <1>18, <1>19, <1>20 DEF Next, Proceeds, DeviceActs
-----------------------------------------------------------------------------
(* The request on its way to the device.                                 *)

(* A piece from the start covers what it holds.                          *)
LEMMA CoversFirst ==
  ASSUME NEW p \in PieceOf, p.from = 0
  PROVE  <<p>> \in Seq(PieceOf) /\ Len(<<p>>) = 1 /\ Covers(<<p>>, p.msg, p.to)
BY DEF Covers

(* A piece that begins where the others end extends what they cover.     *)
LEMMA CoversAppend ==
  ASSUME NEW s \in Seq(PieceOf), NEW m, NEW off, Covers(s, m, off),
         NEW p \in PieceOf, p.msg = m, p.from = off
  PROVE  /\ Append(s, p) \in Seq(PieceOf) /\ Len(Append(s, p)) = Len(s) + 1
         /\ Covers(Append(s, p), m, p.to)
<1> DEFINE t == Append(s, p)
<1>1. /\ t \in Seq(PieceOf) /\ Len(t) = Len(s) + 1 /\ Len(s) \in Nat \ {0}
      /\ t[Len(s) + 1] = p /\ \A k \in 1 .. Len(s) : t[k] = s[k]
      /\ DOMAIN t = 1 .. Len(s) + 1 /\ DOMAIN s = 1 .. Len(s)
  BY AppendProperties, LenProperties, EmptySeq DEF Covers
<1> HIDE DEF t
<1>2. t # << >> /\ t[1].from = 0
  BY <1>1 DEF Covers
<1>3. \A k \in DOMAIN t : t[k].msg = m
  BY <1>1 DEF Covers
<1>4. \A k \in DOMAIN t : k > 1 => t[k].from = t[k - 1].to
  <2> SUFFICES ASSUME NEW k \in DOMAIN t, k > 1 PROVE t[k].from = t[k - 1].to
    OBVIOUS
  <2>1. CASE k = Len(s) + 1
    <3>1. k - 1 = Len(s) /\ t[k] = p /\ t[k - 1] = s[Len(s)]
      BY <1>1, <2>1
    <3> QED
      BY <3>1 DEF Covers
  <2>2. CASE k # Len(s) + 1
    <3>1. k \in 1 .. Len(s) /\ k - 1 \in 1 .. Len(s)
      BY <1>1, <2>2
    <3> QED
      BY <1>1, <3>1 DEF Covers
  <2> QED
    BY <2>1, <2>2
<1>5. t[Len(t)].to = p.to
  BY <1>1
<1>6. Covers(t, m, p.to)
  BY <1>2, <1>3, <1>4, <1>5 DEF Covers
<1> QED
  BY <1>1, <1>6 DEF t

(* Pieces that cover all of a message are the whole message.             *)
LEMMA CoversWhole ==
  ASSUME NEW s \in Seq(PieceOf), NEW m \in Message, Covers(s, m, m.len)
  PROVE  Whole(s) /\ s[1].msg = m
<1>1. 1 \in DOMAIN s
  BY LenProperties, EmptySeq DEF Covers
<1> QED
  BY <1>1 DEF Covers, Whole

(* The frame sent next carries something new, and no more than there is. *)
LEMMA FrameAdvances ==
  ASSUME PacketTypeOK, Sent
  PROVE  /\ out.offset \in Nat /\ out.offset <= out.msg.len /\ out.msg.len \in Nat
         /\ NextFrame.to \in Nat /\ NextFrame.to <= out.msg.len
         /\ out.offset < out.msg.len => out.offset < NextFrame.to
         /\ NextFrame.to < out.msg.len =>
              NextFrame.to = out.offset + Room(link, frameSize, out.seq = 0)
         /\ NextFrame.to - out.offset <= Room(link, frameSize, out.seq = 0)
<1>1. /\ link \in LinkNames /\ out.msg.len \in Nat /\ out.seq \in Nat /\ out.offset \in Int
      /\ frameSize \in Nat
  BY LinkKnown DEF PacketTypeOK, Message
<1>2. out.offset \in Nat /\ out.offset <= out.msg.len
  <2>1. CASE out.seq = 0
    BY <1>1, <2>1 DEF Sent
  <2>2. CASE out.seq > 0
    BY <1>1, <2>2 DEF Sent
  <2> QED
    BY <1>1, <2>1, <2>2
<1>3. Room(link, frameSize, out.seq = 0) \in Nat \ {0}
  <2>1. CASE link = "ble"
    BY <1>1, <2>1 DEF Sent, Room
  <2>2. CASE link # "ble"
    BY <1>1, <2>2 DEF Room, LinkNames
  <2> QED
    BY <2>1, <2>2
<1>4. /\ NextFrame.to =
           out.offset + Smaller(Room(link, frameSize, out.seq = 0), out.msg.len - out.offset)
  BY NextFrameFacts
<1> DEFINE room == Room(link, frameSize, out.seq = 0)
<1> HIDE DEF room
<1>5. NextFrame.to = out.offset + Smaller(room, out.msg.len - out.offset) /\ room \in Nat \ {0}
  BY <1>3, <1>4 DEF room
<1> QED
  BY <1>1, <1>2, <1>5 DEF Smaller, room

(* What the device makes of it: more of the request, or the request.     *)
LEMMA HeardFacts ==
  ASSUME PacketTypeOK, SendInv, pc = "send", DeviceHears(NextFrame)
  PROVE  /\ \A k \in DOMAIN assembly' : assembly'[k].msg.kind \in {"new", "retry"}
         /\ inbox' = inbox \/ \E m \in Message :
              /\ inbox' = Append(inbox, m)
              /\ m.kind \in {"none", "new", "retry"}
         /\ link # "coldcard" \/ ~failed =>
              IF NextFrame.to < out.msg.len
              THEN /\ inbox' = inbox
                   /\ Covers(assembly', out.msg, NextFrame.to)
                   /\ link # "coldcard" => Len(assembly') = out.seq + 1
              ELSE assembly' = << >> /\ inbox' = Append(inbox, out.msg)
<1> DEFINE f == NextFrame
           piece == Piece(f, f.to - f.from)
           pieces == Assembled(f)
           whole == IF link = "coldcard" THEN f.last ELSE Covered(pieces)
<1>1. /\ Sent /\ out.msg \in Message /\ out.msg.len \in Nat /\ out.seq \in Nat
      /\ out.msg.kind \in {"new", "retry"} /\ link \in LinkNames
  BY LinkKnown DEF SendInv, PacketTypeOK, Message
<1>2. /\ f.msg = out.msg /\ f.from = out.offset /\ f.to \in Nat
      /\ f.seq = (IF link = "bitbox" THEN out.seq - 1 ELSE out.seq)
      /\ f.last <=> f.to >= out.msg.len
  BY <1>1, NextFrameFacts, FrameAdvances
<1>3. out.offset \in Nat /\ f.to <= out.msg.len
  BY <1>1, FrameAdvances
<1>4. piece \in PieceOf /\ piece.msg = out.msg /\ piece.from = out.offset /\ piece.to = f.to
  <2>1. f.from + (f.to - f.from) = f.to /\ f.to - f.from \in Int
    BY <1>2, <1>3
  <2> QED
    BY <1>1, <1>2, <1>3, <2>1 DEF Piece, PieceOf
<1>5. assembly \in Seq(PieceOf) /\ pieces \in Seq(PieceOf)
  BY AssembledTyped DEF PacketTypeOK
<1>6. /\ Append(assembly, piece) \in Seq(PieceOf)
      /\ DOMAIN Append(assembly, piece) = 1 .. Len(assembly) + 1 /\ Len(assembly) \in Nat
      /\ \A k \in 1 .. Len(assembly) : Append(assembly, piece)[k] = assembly[k]
      /\ Append(assembly, piece)[Len(assembly) + 1] = piece
      /\ DOMAIN assembly = 1 .. Len(assembly)
  <2> HIDE DEF piece
  <2> QED
    BY <1>4, <1>5, AppendProperties, LenProperties
<1>7. pieces \in {<< >>, <<piece>>, Append(assembly, piece)}
  BY DEF Assembled
<1>8. \A k \in DOMAIN pieces : pieces[k].msg.kind \in {"new", "retry"}
  <2>1. piece.msg.kind \in {"new", "retry"}
    BY <1>1, <1>4
  <2>2. \A k \in DOMAIN <<piece>> : <<piece>>[k].msg.kind \in {"new", "retry"}
    <3> HIDE DEF piece
    <3> QED
      BY <2>1
  <2>3. \A k \in DOMAIN Append(assembly, piece) :
           Append(assembly, piece)[k].msg.kind \in {"new", "retry"}
    <3> HIDE DEF piece
    <3> QED
      BY <1>6, <2>1 DEF SendInv, Queued
  <2> HIDE DEF piece, pieces
  <2> QED
    BY <1>7, <2>2, <2>3
<1>9. \/ /\ whole /\ assembly' = << >>
         /\ inbox' = Append(inbox, IF Whole(pieces) THEN pieces[1].msg ELSE NoMessage)
      \/ ~whole /\ assembly' = pieces /\ inbox' = inbox
  BY DEF DeviceHears
<1>10. CASE ~(link # "coldcard" \/ ~failed)
  <2>1. Whole(pieces) => pieces[1].msg \in Message /\ pieces[1].msg.kind \in {"new", "retry"}
    <3> HIDE DEF pieces
    <3>1. Whole(pieces) => pieces # << >> /\ 1 \in DOMAIN pieces
      BY <1>5, LenProperties, EmptySeq DEF Whole
    <3> QED
      BY <1>5, <1>8, <3>1, FirstPiece
  <2>2. NoMessage \in Message /\ NoMessage.kind = "none"
    BY NoneTyped DEF NoMessage
  <2>3. PICK m : m = IF Whole(pieces) THEN pieces[1].msg ELSE NoMessage
    OBVIOUS
  <2>4. m \in Message /\ m.kind \in {"none", "new", "retry"}
    <3> HIDE DEF pieces
    <3> QED
      BY <2>1, <2>2, <2>3
  <2>5. \A k \in DOMAIN assembly' : assembly'[k].msg.kind \in {"new", "retry"}
    <3> HIDE DEF pieces, whole
    <3> QED
      BY <1>8, <1>9
  <2>6. inbox' = inbox \/ inbox' = Append(inbox, m)
    BY <1>9, <2>3
  <2> QED
    BY <1>10, <2>4, <2>5, <2>6
<1>11. CASE link # "coldcard" \/ ~failed
  <2>1. Covers(pieces, out.msg, f.to) /\ (link # "coldcard" => Len(pieces) = out.seq + 1)
    <3>1. CASE out.seq = 0
      <4>1. out.offset = 0 /\ (link = "coldcard" => assembly = << >>)
        BY <1>11, <3>1 DEF SendInv, Sent
      <4>2. pieces = <<piece>>
        <5>1. CASE link = "coldcard"
          <6>1. pieces = Append(<< >>, piece)
            BY <4>1, <5>1 DEF Assembled
          <6> HIDE DEF piece, pieces
          <6> QED
            BY <1>4, <6>1
        <5>2. CASE link # "coldcard"
          <6>1. (IF link = "bitbox" THEN f.seq + 1 ELSE f.seq) = 0
            BY <1>2, <3>1
          <6> QED
            BY <5>2, <6>1 DEF Assembled
        <5> QED
          BY <5>1, <5>2
      <4>3. Covers(<<piece>>, piece.msg, piece.to) /\ Len(<<piece>>) = 1
        <5> HIDE DEF piece
        <5> QED
          BY <1>4, <4>1, CoversFirst
      <4> QED
        BY <1>4, <3>1, <4>2, <4>3
    <3>2. CASE out.seq # 0
      <4>1. /\ Covers(assembly, out.msg, out.offset)
            /\ link # "coldcard" => Len(assembly) = out.seq
        BY <1>1, <1>11, <3>2 DEF Sent
      <4>2. link = "bitbox" => f.seq + 1 = out.seq
        BY <1>1, <1>2
      <4>3. pieces = Append(assembly, piece)
        BY <1>1, <1>2, <3>2, <4>1, <4>2 DEF Assembled
      <4>4. /\ Len(Append(assembly, piece)) = Len(assembly) + 1
            /\ Covers(Append(assembly, piece), out.msg, piece.to)
        <5> HIDE DEF piece
        <5> QED
          BY <1>4, <1>5, <4>1, CoversAppend
      <4> QED
        BY <1>4, <4>1, <4>3, <4>4
    <3> QED
      BY <3>1, <3>2
  <2>2. whole <=> ~(f.to < out.msg.len)
    <3>1. f.last <=> ~(f.to < out.msg.len)
      BY <1>1, <1>2
    <3>2. 1 \in DOMAIN pieces /\ pieces # << >>
      <4> HIDE DEF pieces
      <4> QED
        BY <1>5, <2>1, LenProperties, EmptySeq DEF Covers
    <3>3. pieces[Len(pieces)].to = f.to /\ pieces[1].msg = out.msg
      BY <2>1, <3>2 DEF Covers
    <3>4. Covered(pieces) <=> ~(f.to < out.msg.len)
      <4> HIDE DEF pieces, f
      <4> QED
        BY <1>1, <1>2, <3>2, <3>3 DEF Covered
    <3> QED
      BY <3>1, <3>4
  <2>3. CASE f.to < out.msg.len
    BY <1>8, <1>9, <1>11, <2>1, <2>2, <2>3
  <2>4. CASE ~(f.to < out.msg.len)
    <3>1. f.to = out.msg.len
      BY <1>1, <1>2, <1>3, <2>4
    <3>2. Whole(pieces) /\ pieces[1].msg = out.msg
      <4> HIDE DEF pieces
      <4> QED
        BY <1>1, <1>5, <2>1, <3>1, CoversWhole
    <3>3. assembly' = << >> /\ inbox' = Append(inbox, out.msg)
      BY <1>9, <2>2, <2>4, <3>2
    <3> QED
      BY <1>1, <1>11, <2>4, <3>3
  <2> QED
    BY <2>3, <2>4
<1> QED
  BY <1>10, <1>11

(* The device's queue after a step.                                      *)
LEMMA TailElements ==
  ASSUME NEW S, NEW s \in Seq(S), s # << >>
  PROVE  /\ Head(s) = s[1] /\ Head(s) \in S /\ Tail(s) \in Seq(S)
         /\ Len(s) \in Nat \ {0} /\ Len(Tail(s)) = Len(s) - 1
         /\ DOMAIN s = 1 .. Len(s) /\ DOMAIN Tail(s) = 1 .. Len(s) - 1
         /\ \A k \in 1 .. Len(s) - 1 : Tail(s)[k] = s[k + 1] /\ k + 1 \in 1 .. Len(s)
BY HeadTailProperties, LenProperties, EmptySeq

(* Elements of a sequence that grew at its end.                          *)
LEMMA AppendElements ==
  ASSUME NEW S, NEW s \in Seq(S), NEW e \in S
  PROVE  /\ Append(s, e) \in Seq(S) /\ Len(s) \in Nat /\ Len(Append(s, e)) = Len(s) + 1
         /\ DOMAIN s = 1 .. Len(s) /\ DOMAIN Append(s, e) = 1 .. Len(s) + 1
         /\ Append(s, e)[Len(s) + 1] = e
         /\ \A k \in 1 .. Len(s) : Append(s, e)[k] = s[k]
BY AppendProperties, LenProperties

(* What no step undoes.                                                  *)
LEMMA HistoryStep ==
  ASSUME Next
  PROVE  /\ link' = link /\ platform' = platform
         /\ failed' = failed \/ failed' = TRUE
         /\ fault' = fault \/ fault = "none"
<1> USE DEF hostVars, deviceVars
<1>1. link' = link /\ platform' = platform
  BY DEF Next, Proceeds, DeviceActs, Invoke, Cancel, Probe, InferMtu, NoMtu, Refuse, Send,
         SendFails, Receive, ReceiveShort, ReceiveRefused, ReceiveFails, Polls, Rejected, Return,
         DeviceStalls, DeviceAnswers, DeviceTellsMtu, DeviceChatters, ChannelLoses, Throw, Leave
<1>2. failed' = failed \/ failed' = TRUE
  BY Zenon
  DEF Next, Proceeds, DeviceActs, Invoke, Cancel, Probe, InferMtu, NoMtu, Refuse, Send,
      SendFails, Receive, ReceiveShort, ReceiveRefused, ReceiveFails, Polls, Rejected, Return,
      DeviceStalls, DeviceAnswers, DeviceTellsMtu, DeviceChatters, ChannelLoses, Throw
<1>3. fault' = fault \/ fault = "none"
  BY DEF Next, Proceeds, DeviceActs, Invoke, Cancel, Probe, InferMtu, NoMtu, Refuse, Send,
         SendFails, Receive, ReceiveShort, ReceiveRefused, ReceiveFails, Polls, Rejected, Return,
         DeviceStalls, DeviceAnswers, DeviceTellsMtu, DeviceChatters, ChannelLoses
<1> QED
  BY <1>1, <1>2, <1>3

(* No step queues a broken request, unless a Coldcard's sender failed    *)
(* before.                                                               *)
LEMMA QueuedStep ==
  ASSUME PacketTypeOK, SendInv, Next
  PROVE  Queued'
<1> USE DEF hostVars, deviceVars
<1>1. inbox \in Seq(Message) /\ failed \in BOOLEAN /\ Queued
  BY DEF PacketTypeOK, SendInv
<1>2. link' = link /\ (failed => failed')
  <2>1. failed' \in BOOLEAN
    BY TypeStep DEF PacketTypeOK
  <2> QED
    BY <1>1, <2>1, HistoryStep
<1>3. CASE inbox' = inbox /\ assembly' = assembly
  BY <1>1, <1>2, <1>3 DEF Queued
<1>4. CASE inbox # << >> /\ inbox' = Tail(inbox) /\ assembly' = assembly
  <2>1. /\ DOMAIN inbox = 1 .. Len(inbox) /\ DOMAIN Tail(inbox) = 1 .. Len(inbox) - 1
        /\ \A k \in 1 .. Len(inbox) - 1 : Tail(inbox)[k] = inbox[k + 1] /\ k + 1 \in 1 .. Len(inbox)
    BY <1>1, <1>4, TailElements
  <2> QED
    BY <1>1, <1>2, <1>4, <2>1 DEF Queued
<1>5. CASE pc = "probe" /\ inbox' = Append(inbox, MtuProbe) /\ assembly' = assembly
  <2>1. link = "ble" /\ MtuProbe.kind = "probe" /\ MtuProbe \in Message
    BY <1>5, NoneTyped DEF SendInv, MtuProbe
  <2>2. /\ DOMAIN inbox = 1 .. Len(inbox) /\ DOMAIN inbox' = 1 .. Len(inbox) + 1
        /\ Len(inbox) \in Nat /\ inbox'[Len(inbox) + 1] = MtuProbe
        /\ \A k \in 1 .. Len(inbox) : inbox'[k] = inbox[k]
    BY <1>1, <1>5, <2>1, AppendElements
  <2>3. \A k \in DOMAIN inbox' : k \in DOMAIN inbox \/ k = Len(inbox) + 1
    BY <2>2
  <2> QED
    BY <1>1, <1>2, <1>5, <2>1, <2>2, <2>3 DEF Queued
<1>6. CASE pc = "send" /\ DeviceHears(NextFrame)
  <2>1. \A k \in DOMAIN assembly' : assembly'[k].msg.kind \in {"new", "retry"}
    BY <1>6, HeardFacts
  <2>2. CASE inbox' = inbox
    BY <1>1, <1>2, <2>1, <2>2 DEF Queued
  <2>3. CASE inbox' # inbox
    <3>1. PICK m \in Message : inbox' = Append(inbox, m) /\ m.kind \in {"none", "new", "retry"}
      BY <1>6, <2>3, HeardFacts
    <3>2. /\ DOMAIN inbox = 1 .. Len(inbox) /\ DOMAIN inbox' = 1 .. Len(inbox) + 1
          /\ Len(inbox) \in Nat /\ inbox'[Len(inbox) + 1] = m
          /\ \A k \in 1 .. Len(inbox) : inbox'[k] = inbox[k]
      BY <1>1, <3>1, AppendElements
    <3>3. link # "coldcard" \/ ~failed => m.kind # "none"
      <4> SUFFICES ASSUME link # "coldcard" \/ ~failed PROVE m.kind # "none"
        OBVIOUS
      <4>1. inbox' = Append(inbox, out.msg)
        BY <1>6, <2>3, HeardFacts
      <4>2. inbox'[Len(inbox) + 1] = out.msg
        BY <1>1, <4>1, AppendElements DEF PacketTypeOK
      <4> QED
        BY <1>6, <3>2, <4>2 DEF SendInv
    <3>4. \A k \in DOMAIN inbox' : k \in DOMAIN inbox \/ k = Len(inbox) + 1
      BY <3>2
    <3> QED
      BY <1>1, <1>2, <2>1, <3>1, <3>2, <3>3, <3>4 DEF Queued
  <2> QED
    BY <2>2, <2>3
<1> QED
  BY <1>3, <1>4, <1>5, <1>6
  DEF Next, Proceeds, DeviceActs, Invoke, Cancel, Probe, InferMtu, NoMtu, Refuse, Send,
      SendFails, Receive, ReceiveShort, ReceiveRefused, ReceiveFails, Polls, Rejected, Return,
      DeviceStalls, DeviceAnswers, DeviceTellsMtu, DeviceChatters, ChannelLoses

(* A step keeps what device and sender agree on: the device has what was *)
(* sent.                                                                 *)
LEMMA SendStep ==
  ASSUME PacketTypeOK, SendInv, Next
  PROVE  SendInv'
<1> USE DEF hostVars, deviceVars
<1>1. Queued'
  BY QueuedStep
<1>2. /\ link' = link /\ platform' = platform /\ failed' \in BOOLEAN /\ failed \in BOOLEAN
      /\ failed' = failed \/ failed' = TRUE
  BY HistoryStep, TypeStep DEF PacketTypeOK
<1>3. frameSize' # 0 => frameSize' \in 20 .. Larger(20, platform)
  <2>1. CASE frameSize' = frameSize
    BY <1>2, <2>1 DEF SendInv
  <2>2. CASE frameSize' # frameSize
    <3>1. InferMtu
      BY <2>2 DEF Next, Proceeds, DeviceActs, Invoke, Cancel, Probe, NoMtu, Refuse, Send,
         SendFails, Receive, ReceiveShort, ReceiveRefused, ReceiveFails, Polls, Rejected, Return,
         DeviceStalls, DeviceAnswers, DeviceTellsMtu, DeviceChatters, ChannelLoses, Throw, Leave
    <3>2. Head(wire).total \in Nat /\ platform \in Nat
      BY <3>1, HeadTyped DEF InferMtu, Frame, PacketTypeOK
    <3>3. frameSize' = Larger(20, Smaller(Head(wire).total, platform))
      BY <2>2, <3>1 DEF InferMtu
    <3> QED
      BY <3>2, <3>3 DEF Larger, Smaller
  <2> QED
    BY <2>1, <2>2
<1> DEFINE Place == 
             /\ pc = "send" => Sent
             /\ pc # "send" /\ link = "coldcard" /\ ~failed => assembly = << >>
             /\ pc \in {"probe", "infer"} => link = "ble" /\ out.seq = 0 /\ out.offset = 0
             /\ pc \in {"probe", "infer", "send"} => out.msg.kind \in {"new", "retry"}
<1>4. Place
  BY DEF SendInv
<1> SUFFICES Place'
  BY <1>1, <1>2, <1>3 DEF SendInv
<1>5. ASSUME NEW n \in RequestSizes[link], Invoke(n)
      PROVE  Place'
  <2>1. /\ pc' \in {"probe", "send"} /\ pc = "idle" /\ frameSize' = frameSize /\ failed' = failed
        /\ pc' = "probe" <=> link = "ble" /\ frameSize = 0
        /\ out' = [msg |-> [req |-> issued + 1, kind |-> "new", len |-> Framed(link, n)],
                   seq |-> 0, offset |-> 0]
        /\ assembly' = assembly
    BY <1>5 DEF Invoke, Sending
  <2>2. /\ out'.msg.kind = "new" /\ out'.seq = 0 /\ out'.offset = 0
        /\ out'.msg.len = Framed(link, n)
    BY <2>1
  <2>3. link # "ble" => Framed(link, n) > 0
    <3>1. link \in LinkNames /\ n \in Nat /\ (link = "coldcard" => n # 0)
      <4>1. link \in Links
        BY DEF PacketTypeOK
      <4>2. link \in LinkNames /\ n \in Nat
        BY <1>5, <4>1, LinkKnown
      <4>3. link = "coldcard" => 0 \notin RequestSizes[link]
        BY <4>1, LengthsAssumption
      <4> QED
        BY <1>5, <4>2, <4>3
    <3> QED
      BY <3>1 DEF Framed, LinkNames
  <2>4. pc' = "send" /\ link = "ble" => frameSize >= 20
    BY <2>1, <1>2 DEF SendInv, PacketTypeOK
  <2> QED
    BY <1>2, <1>4, <2>1, <2>2, <2>3, <2>4 DEF Sent
<1>6. CASE Probe
  BY <1>4, <1>6 DEF Probe
<1>7. CASE InferMtu
  <2>1. pc' \in {"infer", "send"} /\ pc = "infer" /\ out' = out /\ failed' = failed
        /\ assembly' = assembly
    BY <1>7 DEF InferMtu
  <2>2. pc' = "send" => frameSize' >= 20
    <3>1. Head(wire).total \in Nat /\ platform \in Nat
      BY <1>7, HeadTyped DEF InferMtu, Frame, PacketTypeOK
    <3>2. pc' = "send" => frameSize' = Larger(20, Smaller(Head(wire).total, platform))
      BY <1>7 DEF InferMtu
    <3> QED
      BY <3>1, <3>2 DEF Larger, Smaller
  <2> QED
    BY <1>2, <1>4, <2>1, <2>2 DEF Sent
<1>8. CASE Send
  <2>1. /\ pc = "send" /\ DeviceHears(NextFrame) /\ failed' = failed /\ frameSize' = frameSize
        /\ out' = [out EXCEPT !.seq = @ + 1, !.offset = NextFrame.to]
        /\ pc' = IF NextFrame.to < out.msg.len THEN "send" ELSE "receive"
    BY <1>8 DEF Send
  <2>2. /\ out'.msg = out.msg /\ out'.seq = out.seq + 1 /\ out'.offset = NextFrame.to
        /\ out.seq \in Nat /\ Sent
    BY <1>4, <2>1 DEF PacketTypeOK
  <2>3. CASE NextFrame.to < out.msg.len
    <3>1. NextFrame.to \in 0 .. out.msg.len - 1
      BY <2>2, <2>3, FrameAdvances
    <3>2. link # "coldcard" \/ ~failed => Covers(assembly', out.msg, NextFrame.to)
      BY <2>1, <2>3, HeardFacts
    <3>3. link # "coldcard" => Len(assembly') = out.seq + 1
      BY <2>1, <2>3, HeardFacts
    <3>4. link = "bitbox" => NextFrame.to = 57 + 59 * out.seq
      <4> SUFFICES ASSUME link = "bitbox" PROVE NextFrame.to = 57 + 59 * out.seq
        OBVIOUS
      <4>1. NextFrame.to = out.offset + Room(link, frameSize, out.seq = 0)
        BY <2>2, <2>3, FrameAdvances
      <4>2. CASE out.seq = 0
        BY <2>2, <4>1, <4>2 DEF Room, Sent
      <4>3. CASE out.seq # 0
        <5>1. Room(link, frameSize, out.seq = 0) = 59
          BY <4>3 DEF Room
        <5>2. out.offset = 57 + 59 * (out.seq - 1)
          BY <2>2, <4>3 DEF Sent
        <5> QED
          BY <2>2, <4>1, <5>1, <5>2
      <4> QED
        BY <4>2, <4>3
    <3>5. pc' = "send" /\ out'.msg.len = out.msg.len /\ out'.seq - 1 = out.seq /\ out'.seq > 0
      BY <2>1, <2>2, <2>3
    <3>6. Sent'
      BY <1>2, <2>1, <2>2, <3>1, <3>2, <3>3, <3>4, <3>5 DEF Sent
    <3> QED
      BY <1>4, <2>1, <2>2, <3>5, <3>6
  <2>4. CASE ~(NextFrame.to < out.msg.len)
    <3>1. link = "coldcard" /\ ~failed => assembly' = << >>
      BY <2>1, <2>4, HeardFacts
    <3> QED
      BY <1>2, <2>1, <2>4, <3>1
  <2> QED
    BY <2>3, <2>4
<1>9. CASE Polls
  <2>1. /\ pc = "read" /\ pc' = "send" /\ failed' = failed /\ assembly' = assembly
        /\ out' = [msg |-> [req |-> issued, kind |-> "retry", len |-> 1], seq |-> 0, offset |-> 0]
    BY <1>9 DEF Polls, Sending
  <2>2. link = "bitbox"
    BY <1>9 DEF Polls, Status
  <2> QED
    BY <1>2, <1>4, <2>1, <2>2 DEF Sent
<1>10. CASE Throw
  BY <1>2, <1>10 DEF Throw, Leave
<1>11. CASE Leave /\ failed' = failed /\ assembly' = assembly /\ pc # "send"
  BY <1>2, <1>4, <1>11 DEF Leave
<1>12. CASE Refuse
  <2>1. pc' = "idle" /\ link # "coldcard"
    BY <1>12 DEF Refuse, Leave, TooLong
  <2> QED
    BY <1>2, <2>1
<1>13. CASE UNCHANGED <<failed, out, assembly, frameSize>> /\
             (pc' = pc \/ (pc' \in {"receive", "read"} /\ pc = "receive"))
  BY <1>2, <1>4, <1>13 DEF Sent
<1>14. QED
  <2>1. CASE \E n \in RequestSizes[link] : Invoke(n)
    BY <1>5, <2>1
  <2>2. CASE Cancel \/ DeviceActs \/ DeviceChatters \/ ChannelLoses
    BY <1>13, <2>2 DEF Cancel, DeviceActs, DeviceStalls, DeviceAnswers, DeviceTellsMtu,
       DeviceChatters, ChannelLoses
  <2>3. CASE Receive \/ ReceiveShort
    BY <1>13, <2>3 DEF Receive, ReceiveShort, Take
  <2>4. CASE Proceeds \/ SendFails \/ ReceiveFails
    BY <1>6, <1>7, <1>8, <1>9, <1>10, <1>11, <1>12, <2>3, <2>4
    DEF Proceeds, NoMtu, SendFails, ReceiveRefused, ReceiveFails, Rejected, Return
  <2> QED
    BY <2>1, <2>2, <2>3, <2>4 DEF Next

(* What the framings promise of the frame that is sent next.             *)
LEMMA SentIntact ==
  ASSUME PacketTypeOK, SendInv
  PROVE  RequestIntact
<1>1. ASSUME link # "coldcard" \/ ~failed, NEW k \in DOMAIN inbox
      PROVE  inbox[k] # NoMessage
  <2>1. inbox[k].kind # "none" /\ NoMessage.kind = "none"
    BY <1>1 DEF SendInv, Queued, NoMessage
  <2> QED
    BY <2>1
<1>2. ASSUME pc = "send", ~TooLong(link, out.msg.len)
      PROVE  LET f == NextFrame IN
             CASE link = "bitbox"   -> f.seq < 128 /\ f.total < 65536
               [] link = "coldcard" -> f.to - f.from \in 1 .. 63
               [] link = "ble"      -> (f.to - f.from) + (IF f.seq = 0 THEN 5 ELSE 3)
                                          <= Larger(20, platform)
               [] OTHER             -> f.to > f.from
  <2>1. /\ Sent /\ link \in LinkNames /\ out.seq \in Nat /\ out.msg.len \in Nat
        /\ frameSize \in Nat /\ platform \in Nat
    BY <1>2, LinkKnown DEF SendInv, PacketTypeOK, Message
  <2>2. /\ NextFrame.from = out.offset /\ NextFrame.total = out.msg.len
        /\ NextFrame.seq = IF link = "bitbox" THEN out.seq - 1 ELSE out.seq
    BY NextFrameFacts
  <2>3. /\ out.offset \in Nat /\ NextFrame.to \in Nat
        /\ out.offset < out.msg.len => out.offset < NextFrame.to
        /\ NextFrame.to - out.offset <= Room(link, frameSize, out.seq = 0)
    BY <2>1, FrameAdvances
  <2>4. link # "ble" => out.offset < out.msg.len
    BY <2>1 DEF Sent
  <2>5. CASE link = "bitbox"
    <3>1. out.msg.len <= 57 + 127 * 59
      BY <1>2, <2>1, <2>5 DEF TooLong
    <3>2. out.seq > 0 => out.offset = 57 + 59 * (out.seq - 1)
      BY <2>1, <2>5 DEF Sent
    <3>3. out.seq > 0 => out.seq - 1 < 128
      BY <2>1, <2>3, <2>4, <2>5, <3>1, <3>2
    <3>4. NextFrame.seq < 128 /\ NextFrame.total < 65536
      BY <2>1, <2>2, <2>5, <3>1, <3>3
    <3> QED
      BY <2>5, <3>4
  <2>6. CASE link = "coldcard"
    <3>1. Room(link, frameSize, out.seq = 0) = 63
      BY <2>6 DEF Room
    <3>2. NextFrame.to - NextFrame.from \in 1 .. 63
      BY <2>2, <2>3, <2>4, <2>6, <3>1
    <3> QED
      BY <2>6, <3>2
  <2>7. CASE link = "ble"
    <3>1. Room(link, frameSize, out.seq = 0) = IF out.seq = 0 THEN frameSize - 5 ELSE frameSize - 3
      BY <2>7 DEF Room
    <3>2. frameSize <= Larger(20, platform) /\ Larger(20, platform) \in Nat
      BY <2>1, <2>7 DEF SendInv, Sent, Larger
    <3>3. NextFrame.seq = out.seq
      BY <2>2, <2>7
    <3>4. (NextFrame.to - NextFrame.from) + (IF NextFrame.seq = 0 THEN 5 ELSE 3)
            <= Larger(20, platform)
      BY <2>1, <2>2, <2>3, <3>1, <3>2, <3>3
    <3> QED
      BY <2>7, <3>4
  <2>8. CASE link = "ledger"
    <3>1. NextFrame.to > NextFrame.from
      BY <2>2, <2>3, <2>4, <2>8
    <3> QED
      BY <2>8, <3>1
  <2> QED
    BY <2>1, <2>5, <2>6, <2>7, <2>8 DEF LinkNames
<1> QED
  BY <1>1, <1>2 DEF RequestIntact
-----------------------------------------------------------------------------
(* What becomes of the frames on their way to the host.                  *)

(* The frames of one message, from the first to the last.                *)
Answer(l, s, m) ==
  /\ s \in Seq(Frame) /\ Len(s) \in Nat \ {0}
  /\ \A k \in 1 .. Len(s) :
       /\ IsData(s[k]) /\ s[k].msg = m /\ Number(l, s[k]) = k - 1
       /\ Formed(l, s[k])
       /\ Ends(s[k]) <=> k = Len(s)

Without(w, k) == SubSeq(w, 1, k - 1) \o SubSeq(w, k + 1, Len(w))

(* A reply puts the frames of one message on the wire,                   *)
LEMMA ReplyAnswers ==
  ASSUME PacketTypeOK, NEW r \in Nat, NEW k \in Kinds, NEW n \in Nat, Reply(r, k, n)
  PROVE  \E m \in Message, s \in Seq(Frame) :
           m.req = r /\ m.kind = k /\ Answer(link, s, m) /\ wire' = wire \o s
<1> DEFINE m == [req |-> r, kind |-> k, len |-> n]
           s == AnswerFrames(link, m)
<1>1. m \in Message /\ m.req = r /\ m.kind = k /\ link \in LinkNames
  BY LinkKnown DEF Message, PacketTypeOK
<1>2. wire' = wire \o s
  BY DEF Reply
<1> HIDE DEF m
<1>3. Answer(link, s, m)
  BY <1>1, AnswerFormed DEF Answer
<1>4. s \in Seq(Frame)
  BY <1>3 DEF Answer
<1> QED
  BY <1>1, <1>2, <1>3, <1>4

(* and so does the Coldcard's report without the last flag.              *)
LEMMA FramAnswers ==
  ASSUME NEW m \in Message, m.len <= 63
  PROVE  Answer("coldcard", <<Fram(m)>>, m)
<1> DEFINE f == Fram(m)
<1>1. /\ f \in Frame /\ IsData(f) /\ f.msg = m /\ f.seq = 0 /\ f.from = 0 /\ f.to = m.len
      /\ f.total = m.len /\ f.fram /\ m.len \in Nat
  BY DEF Fram, Frame, Message, IsData
<1>2. Start("coldcard", 0) = 0 /\ Start("coldcard", 0 + 1) = 63
  <2>1. "coldcard" \in LinkNames
    BY DEF LinkNames
  <2>2. First("coldcard") = 63
    BY <2>1, RoomFacts
  <2>3. Start("coldcard", 0) = 0 /\ Start("coldcard", 1) = First("coldcard")
    BY <2>1, StartFacts
  <2> QED
    BY <2>2, <2>3
<1>3. Number("coldcard", f) = 0
  BY <1>1 DEF Number
<1>4. Ends(f)
  BY <1>1 DEF Ends
<1> HIDE DEF f
<1>5. Formed("coldcard", f)
  BY <1>1, <1>2, <1>3, <1>4 DEF Formed, Smaller
<1>6. <<f>> \in Seq(Frame) /\ Len(<<f>>) = 1 /\ <<f>>[1] = f
  BY <1>1
<1>7. Answer("coldcard", <<f>>, m)
  BY <1>1, <1>3, <1>4, <1>5, <1>6 DEF Answer
<1> QED
  BY <1>7 DEF f

(* The request a device works for, when it answers what it took last.    *)
LEMMA DeviceAnswersFacts ==
  ASSUME PacketTypeOK, DeviceAnswers
  PROVE  \E m \in Message, s \in Seq(Frame) :
           /\ m.req = Head(inbox).req \/ (Head(inbox).kind = "retry" /\ m.req = working)
           /\ m.kind = "ack" /\ Answer(link, s, m) /\ wire' = wire \o s
<1>1. Head(inbox) \in Message /\ inbox # << >>
  BY HeadTyped DEF DeviceAnswers
<1> DEFINE r == IF Head(inbox).kind = "retry" THEN working ELSE Head(inbox).req
<1>2. r \in Nat /\ "ack" \in Kinds /\ Head(inbox).req \in Nat
  BY <1>1 DEF Message, PacketTypeOK, Kinds
<1>3. PICK n \in AnswerSizes[link] :
        \/ Reply(r, "ack", n + IF link = "bitbox" THEN 1 ELSE 0)
        \/ /\ link = "coldcard" /\ n <= 63
           /\ wire' = Append(wire, Fram([req |-> Head(inbox).req, kind |-> "ack", len |-> n]))
  BY DEF DeviceAnswers
<1>4. n \in Nat /\ n + (IF link = "bitbox" THEN 1 ELSE 0) \in Nat
  BY LinkKnown DEF PacketTypeOK
<1>5. CASE Reply(r, "ack", n + IF link = "bitbox" THEN 1 ELSE 0)
  <2> HIDE DEF r
  <2>1. \E m \in Message, s \in Seq(Frame) :
          m.req = r /\ m.kind = "ack" /\ Answer(link, s, m) /\ wire' = wire \o s
    BY <1>2, <1>4, <1>5, ReplyAnswers
  <2> QED
    BY <2>1 DEF r
<1>6. CASE /\ link = "coldcard" /\ n <= 63
           /\ wire' = Append(wire, Fram([req |-> Head(inbox).req, kind |-> "ack", len |-> n]))
  <2>1. PICK m : m = [req |-> Head(inbox).req, kind |-> "ack", len |-> n]
    OBVIOUS
  <2>2. m \in Message /\ m.len <= 63 /\ m.req = Head(inbox).req /\ m.kind = "ack"
    BY <1>2, <1>4, <1>6, <2>1 DEF Message
  <2>3. Answer(link, <<Fram(m)>>, m)
    BY <1>6, <2>2, FramAnswers
  <2>4. <<Fram(m)>> \in Seq(Frame)
    BY <2>3 DEF Answer
  <2>5. wire' = wire \o <<Fram(m)>>
    <3>1. Fram(m) \in Frame
      BY <2>2 DEF Fram, Frame, Message
    <3>2. wire' = Append(wire, Fram(m)) /\ wire \in Seq(Frame)
      BY <1>6, <2>1 DEF PacketTypeOK
    <3> QED
      BY <3>1, <3>2
  <2> QED
    BY <2>2, <2>3, <2>4, <2>5
<1> QED
  BY <1>3, <1>5, <1>6

(* What a BitBox says instead of an answer, and for whom it then works.  *)
LEMMA DeviceStallsFacts ==
  ASSUME PacketTypeOK, DeviceStalls
  PROVE  /\ link = "bitbox"
         /\ \E m \in Message, s \in Seq(Frame) :
           /\ Answer(link, s, m) /\ wire' = wire \o s
           /\ \/ /\ Head(inbox).kind = "new" /\ working \in {0, Head(inbox).req}
                 /\ working' = Head(inbox).req /\ m.req = Head(inbox).req /\ m.kind = "notready"
              \/ /\ Head(inbox).kind = "new" /\ working \notin {0, Head(inbox).req}
                 /\ working' = working
              \/ /\ Head(inbox).kind = "retry" /\ working # 0
                 /\ working' = working /\ m.req = working /\ m.kind = "notready"
              \/ Head(inbox).kind = "retry" /\ working = 0 /\ working' = working
<1>1. Head(inbox) \in Message /\ inbox # << >>
  BY HeadTyped DEF DeviceStalls
<1>2. /\ {"notready", "busy", "nack"} \subseteq Kinds /\ 1 \in Nat
      /\ Head(inbox).req \in Nat /\ working \in Nat
  BY <1>1 DEF Message, PacketTypeOK, Kinds
<1>3. ASSUME NEW r \in Nat, NEW k \in {"notready", "busy", "nack"}, Reply(r, k, 1)
      PROVE  \E m \in Message, s \in Seq(Frame) :
               m.req = r /\ m.kind = k /\ Answer(link, s, m) /\ wire' = wire \o s
  <2>1. k \in Kinds /\ r \in Nat /\ 1 \in Nat /\ Reply(r, k, 1)
    BY <1>2, <1>3
  <2> QED
    BY <2>1, ReplyAnswers
<1>4. link = "bitbox"
  BY DEF DeviceStalls
<1>5. CASE /\ Head(inbox).kind = "new" /\ working \in {0, Head(inbox).req}
           /\ working' = Head(inbox).req /\ Reply(Head(inbox).req, "notready", 1)
  <2>1. PICK m \in Message, s \in Seq(Frame) :
          m.req = Head(inbox).req /\ m.kind = "notready" /\ Answer(link, s, m) /\ wire' = wire \o s
    BY <1>2, <1>3, <1>5
  <2> QED
    BY <1>4, <1>5, <2>1
<1>6. CASE /\ Head(inbox).kind = "new" /\ working \notin {0, Head(inbox).req}
           /\ working' = working /\ Reply(Head(inbox).req, "busy", 1)
  BY <1>2, <1>3, <1>4, <1>6
<1>7. CASE /\ Head(inbox).kind = "retry" /\ working # 0
           /\ working' = working /\ Reply(working, "notready", 1)
  <2>1. PICK m \in Message, s \in Seq(Frame) :
          m.req = working /\ m.kind = "notready" /\ Answer(link, s, m) /\ wire' = wire \o s
    BY <1>2, <1>3, <1>7
  <2> QED
    BY <1>4, <1>7, <2>1
<1>8. CASE /\ Head(inbox).kind = "retry" /\ working = 0
           /\ working' = working /\ Reply(Head(inbox).req, "nack", 1)
  BY <1>2, <1>3, <1>4, <1>8
<1> QED
  BY <1>5, <1>6, <1>7, <1>8 DEF DeviceStalls

(* One thing happens to the frames in a step.                            *)
LEMMA WireStep ==
  ASSUME PacketTypeOK, SendInv, Next
  PROVE  \/ wire' = wire /\ fault' = fault
         \/ /\ wire # << >> /\ wire' = Tail(wire)
            /\ fault' = "short" \/ (fault' = fault /\ (Receive \/ pc' # "receive"))
         \/ /\ fault' = fault
            /\ \E m \in Message, s \in Seq(Frame) : Answer(link, s, m) /\ wire' = wire \o s
         \/ /\ fault' = fault /\ link = "ble"
            /\ \E g \in Frame : ~IsData(g) /\ wire' = Append(wire, g)
         \/ /\ fault = "none" /\ fault' = "lost"
            /\ \E k \in 1 .. Len(wire) : wire' = Without(wire, k)
<1> USE DEF hostVars, deviceVars
<1>1. CASE DeviceAnswers
  BY <1>1, DeviceAnswersFacts DEF DeviceAnswers
<1>2. CASE DeviceStalls
  BY <1>2, DeviceStallsFacts DEF DeviceStalls
<1>3. ASSUME NEW n \in DeviceMtus, DeviceTellsMtu(n)
      PROVE  /\ fault' = fault /\ link = "ble"
             /\ \E g \in Frame : ~IsData(g) /\ wire' = Append(wire, g)
  <2>1. Notification("mtu", n) \in Frame /\ ~IsData(Notification("mtu", n))
    BY NoneTyped, PacketAssumption DEF Notification, Frame, IsData
  <2>2. inbox # << >> /\ Head(inbox).kind = "probe" /\ inbox \in Seq(Message)
    BY <1>3 DEF DeviceTellsMtu, PacketTypeOK
  <2>3. Head(inbox) = inbox[1] /\ 1 \in DOMAIN inbox
    BY <2>2, TailElements
  <2>4. link = "ble"
    BY <2>2, <2>3 DEF SendInv, Queued
  <2> QED
    BY <1>3, <2>1, <2>4 DEF DeviceTellsMtu
<1>4. CASE DeviceChatters
  <2>1. Notification("other", 0) \in Frame /\ ~IsData(Notification("other", 0))
    BY NoneTyped DEF Notification, Frame, IsData
  <2> QED
    BY <1>4, <2>1 DEF DeviceChatters
<1>5. CASE ChannelLoses
  <2>1. DOMAIN wire = 1 .. Len(wire)
    BY HeadTyped
  <2> QED
    BY <1>5, <2>1 DEF ChannelLoses, Without
<1>6. CASE InferMtu \/ Receive \/ ReceiveShort \/ ReceiveRefused
  BY <1>6 DEF InferMtu, Receive, ReceiveShort, ReceiveRefused, Throw, Leave
<1>7. CASE ReceiveFails
  BY <1>7 DEF ReceiveFails, Throw, Leave
<1>8. CASE \/ \E n \in RequestSizes[link] : Invoke(n)
           \/ Cancel \/ Probe \/ NoMtu \/ Refuse \/ Send \/ SendFails \/ Polls \/ Rejected \/ Return
  BY <1>8 DEF Invoke, Cancel, Probe, NoMtu, Refuse, Send, SendFails, Polls, Rejected, Return
<1> QED
  BY <1>1, <1>2, <1>3, <1>4, <1>5, <1>6, <1>7, <1>8 DEF Next, Proceeds, DeviceActs

(* Where the frames are after such a step.                               *)
LEMMA ConcatElements ==
  ASSUME NEW w \in Seq(Frame), NEW s \in Seq(Frame)
  PROVE  /\ w \o s \in Seq(Frame) /\ Len(w) \in Nat /\ Len(s) \in Nat
         /\ Len(w \o s) = Len(w) + Len(s)
         /\ DOMAIN w = 1 .. Len(w) /\ DOMAIN s = 1 .. Len(s)
         /\ DOMAIN (w \o s) = 1 .. Len(w) + Len(s)
         /\ \A k \in 1 .. Len(w) : (w \o s)[k] = w[k]
         /\ \A k \in 1 .. Len(s) : (w \o s)[Len(w) + k] = s[k]
<1>1. w \o s \in Seq(Frame) /\ Len(w \o s) = Len(w) + Len(s)
  BY ConcatProperties
<1>2. \A k \in 1 .. Len(w) : (w \o s)[k] = w[k]
  BY ConcatProperties, LenProperties
<1>3. \A k \in 1 .. Len(s) : (w \o s)[Len(w) + k] = s[k]
  BY LenProperties
<1> QED
  BY <1>1, <1>2, <1>3, LenProperties

Up(i, k) == IF i < k THEN i ELSE i + 1

(* Elements of the wire after frame k was lost.                          *)
LEMMA WithoutElements ==
  ASSUME NEW w \in Seq(Frame), NEW k \in 1 .. Len(w)
  PROVE  /\ Without(w, k) \in Seq(Frame) /\ Len(w) \in Nat
         /\ DOMAIN w = 1 .. Len(w)
         /\ Len(Without(w, k)) = Len(w) - 1
         /\ DOMAIN Without(w, k) = 1 .. Len(w) - 1
         /\ \A i \in 1 .. Len(w) - 1 : Without(w, k)[i] = w[Up(i, k)] /\ Up(i, k) \in 1 .. Len(w)
<1> DEFINE a == SubSeq(w, 1, k - 1)
           b == SubSeq(w, k + 1, Len(w))
<1>1. /\ a \in Seq(Frame) /\ Len(a) = k - 1 /\ \A i \in 1 .. k - 1 : a[i] = w[i]
      /\ Len(w) \in Nat
  BY SubSeqProperties, LenProperties
<1>2. /\ b \in Seq(Frame) /\ Len(b) = Len(w) - k
      /\ \A i \in 1 .. Len(w) - k : b[i] = w[k + i]
  BY <1>1, SubSeqProperties, LenProperties
<1> HIDE DEF a, b
<1>3. /\ a \o b \in Seq(Frame) /\ Len(a \o b) = Len(w) - 1
      /\ \A i \in 1 .. k - 1 : (a \o b)[i] = w[i]
      /\ \A i \in 1 .. Len(w) - k : (a \o b)[(k - 1) + i] = w[k + i]
  <2>1. /\ a \o b \in Seq(Frame) /\ Len(a \o b) = Len(a) + Len(b)
        /\ \A i \in 1 .. Len(a) : (a \o b)[i] = a[i]
        /\ \A i \in 1 .. Len(b) : (a \o b)[Len(a) + i] = b[i]
    BY <1>1, <1>2, ConcatElements
  <2>2. Len(a \o b) = Len(w) - 1
    BY <1>1, <1>2, <2>1
  <2>3. ASSUME NEW i \in 1 .. k - 1
        PROVE  (a \o b)[i] = w[i]
    BY <1>1, <2>1
  <2>4. ASSUME NEW i \in 1 .. Len(w) - k
        PROVE  (a \o b)[(k - 1) + i] = w[k + i]
    <3>1. (a \o b)[(k - 1) + i] = b[i]
      BY <1>1, <1>2, <2>1
    <3> QED
      BY <1>2, <3>1
  <2> QED
    BY <2>1, <2>2, <2>3, <2>4
<1>4. \A i \in 1 .. Len(w) - 1 : (a \o b)[i] = w[Up(i, k)] /\ Up(i, k) \in 1 .. Len(w)
  <2> TAKE i \in 1 .. Len(w) - 1
  <2>1. CASE i < k
    BY <1>1, <1>3, <2>1 DEF Up
  <2>2. CASE ~(i < k)
    <3>1. PICK j : j = i - (k - 1)
      OBVIOUS
    <3>2. j \in 1 .. Len(w) - k /\ (k - 1) + j = i /\ k + j = i + 1
      BY <1>1, <2>2, <3>1
    <3>3. (a \o b)[i] = w[i + 1]
      BY <1>3, <3>2
    <3> QED
      BY <1>1, <2>2, <3>3 DEF Up
  <2> QED
    BY <2>1, <2>2
<1> QED
  BY <1>1, <1>3, <1>4, LenProperties DEF Without, a, b

(* Neighbours after such a step were neighbours before it, but where the *)
(* frame between them is gone or an answer is new.                       *)
LEMMA NeighboursTail ==
  ASSUME NEW w \in Seq(Frame), w # << >>
  PROVE  LET t == Tail(w) IN
         /\ \A i, j \in DOMAIN t : Neighbours(t, i, j) =>
              Neighbours(w, i + 1, j + 1) /\ t[i] = w[i + 1] /\ t[j] = w[j + 1]
         /\ \A i \in DOMAIN t : Hindmost(t, i) => Hindmost(w, i + 1) /\ t[i] = w[i + 1]
         /\ \A j \in DOMAIN t : Foremost(t, j) =>
              /\ t[j] = w[j + 1]
              /\ IF IsData(w[1]) THEN Neighbours(w, 1, j + 1) ELSE Foremost(w, j + 1)
         /\ IsData(w[1]) /\ (\A j \in DOMAIN t : ~IsData(t[j])) => Hindmost(w, 1)
<1> DEFINE t == Tail(w)
<1>1. /\ Len(w) \in Nat \ {0} /\ Len(t) = Len(w) - 1
      /\ DOMAIN w = 1 .. Len(w) /\ DOMAIN t = 1 .. Len(w) - 1
      /\ \A k \in 1 .. Len(w) - 1 : t[k] = w[k + 1] /\ k + 1 \in 1 .. Len(w)
  BY TailElements
<1> HIDE DEF t
<1>2. \A m \in 2 .. Len(w) : m - 1 \in 1 .. Len(w) - 1 /\ t[m - 1] = w[m]
  <2> TAKE m \in 2 .. Len(w)
  <2>1. m - 1 \in 1 .. Len(w) - 1 /\ (m - 1) + 1 = m
    BY <1>1
  <2> QED
    BY <1>1, <2>1
<1>3. ASSUME NEW i \in DOMAIN t, NEW j \in DOMAIN t, Neighbours(t, i, j)
      PROVE  Neighbours(w, i + 1, j + 1)
  <2>1. \A m \in i + 2 .. j : ~IsData(w[m])
    <3> TAKE m \in i + 2 .. j
    <3>1. m - 1 \in i + 1 .. j - 1 /\ m \in 2 .. Len(w)
      BY <1>1
    <3> QED
      BY <1>2, <1>3, <3>1 DEF Neighbours
  <2>2. (i + 1) + 1 = i + 2 /\ (j + 1) - 1 = j /\ i + 1 < j + 1
    BY <1>1, <1>3 DEF Neighbours
  <2> QED
    BY <1>1, <1>3, <2>1, <2>2 DEF Neighbours
<1>4. ASSUME NEW i \in DOMAIN t, Hindmost(t, i)
      PROVE  Hindmost(w, i + 1)
  <2>1. \A m \in i + 2 .. Len(w) : ~IsData(w[m])
    <3> TAKE m \in i + 2 .. Len(w)
    <3>1. m - 1 \in i + 1 .. Len(t) /\ m \in 2 .. Len(w)
      BY <1>1
    <3> QED
      BY <1>2, <1>4, <3>1 DEF Hindmost
  <2>2. (i + 1) + 1 = i + 2
    BY <1>1
  <2> QED
    BY <1>1, <1>4, <2>1, <2>2 DEF Hindmost
<1>5. ASSUME NEW j \in DOMAIN t, Foremost(t, j)
      PROVE  IF IsData(w[1]) THEN Neighbours(w, 1, j + 1) ELSE Foremost(w, j + 1)
  <2>1. \A m \in 2 .. j : ~IsData(w[m])
    <3> TAKE m \in 2 .. j
    <3>1. m - 1 \in 1 .. j - 1 /\ m \in 2 .. Len(w)
      BY <1>1
    <3> QED
      BY <1>2, <1>5, <3>1 DEF Foremost
  <2>2. 1 + 1 = 2 /\ (j + 1) - 1 = j /\ 1 < j + 1 /\ 1 \in DOMAIN w /\ j + 1 \in DOMAIN w
    BY <1>1
  <2>3. IsData(w[j + 1])
    BY <1>1, <1>5 DEF Foremost
  <2>4. CASE IsData(w[1])
    BY <2>1, <2>2, <2>3, <2>4 DEF Neighbours
  <2>5. CASE ~IsData(w[1])
    <3>1. \A m \in 1 .. j : ~IsData(w[m])
      BY <1>1, <2>1, <2>5
    <3> QED
      BY <2>2, <2>3, <2>5, <3>1 DEF Foremost
  <2> QED
    BY <2>4, <2>5
<1>6. ASSUME IsData(w[1]), \A j \in DOMAIN t : ~IsData(t[j])
      PROVE  Hindmost(w, 1)
  <2>1. \A m \in 2 .. Len(w) : ~IsData(w[m])
    BY <1>1, <1>2, <1>6
  <2> QED
    BY <1>1, <1>6, <2>1 DEF Hindmost
<1>7. \A k \in DOMAIN t : t[k] = w[k + 1]
  BY <1>1
<1> QED
  BY <1>3, <1>4, <1>5, <1>6, <1>7 DEF t

(* Neighbours on a wire that a whole message was added to,               *)
LEMMA NeighboursConcat ==
  ASSUME NEW l, NEW w \in Seq(Frame), NEW m, NEW s \in Seq(Frame), Answer(l, s, m)
  PROVE  LET v == w \o s IN
         /\ \A i, j \in DOMAIN v : Neighbours(v, i, j) =>
              \/ Neighbours(w, i, j) /\ v[i] = w[i] /\ v[j] = w[j]
              \/ Hindmost(w, i) /\ v[i] = w[i] /\ v[j] = s[1]
              \/ \E k \in 1 .. Len(s) - 1 : v[i] = s[k] /\ v[j] = s[k + 1]
         /\ \A i \in DOMAIN v : Hindmost(v, i) => v[i] = s[Len(s)]
         /\ \A j \in DOMAIN v : Foremost(v, j) =>
              \/ Foremost(w, j) /\ v[j] = w[j]
              \/ (\A k \in DOMAIN w : ~IsData(w[k])) /\ v[j] = s[1]
<1> DEFINE v == w \o s
           n == Len(w)
<1>1. /\ n \in Nat /\ Len(s) \in Nat \ {0} /\ Len(v) = n + Len(s)
      /\ DOMAIN w = 1 .. n /\ DOMAIN v = 1 .. n + Len(s)
      /\ \A k \in 1 .. n : v[k] = w[k]
      /\ \A k \in 1 .. Len(s) : v[n + k] = s[k] /\ IsData(s[k])
  BY ConcatElements DEF Answer
<1> HIDE DEF v, n
<1>2. \A k \in n + 1 .. n + Len(s) :
        k - n \in 1 .. Len(s) /\ v[k] = s[k - n] /\ IsData(v[k])
  <2> TAKE k \in n + 1 .. n + Len(s)
  <2>1. k - n \in 1 .. Len(s) /\ n + (k - n) = k
    BY <1>1
  <2> QED
    BY <1>1, <2>1
<1>3. ASSUME NEW i \in DOMAIN v, NEW j \in DOMAIN v, Neighbours(v, i, j)
      PROVE  \/ Neighbours(w, i, j) /\ v[i] = w[i] /\ v[j] = w[j]
             \/ Hindmost(w, i) /\ v[i] = w[i] /\ v[j] = s[1]
             \/ \E k \in 1 .. Len(s) - 1 : v[i] = s[k] /\ v[j] = s[k + 1]
  <2>1. i < j /\ i \in Nat /\ j \in Nat /\ IsData(v[i]) /\ IsData(v[j])
    BY <1>1, <1>3 DEF Neighbours
  <2>2. CASE j <= n
    BY <1>1, <1>3, <2>1, <2>2 DEF Neighbours
  <2>3. CASE i <= n /\ n < j
    <3>1. j = n + 1
      <4>1. SUFFICES ASSUME j # n + 1 PROVE FALSE
        OBVIOUS
      <4>2. n + 1 \in n + 1 .. n + Len(s)
        BY <1>1
      <4>3. n + 1 \in i + 1 .. j - 1
        BY <1>1, <2>1, <2>3, <4>1
      <4> QED
        BY <1>2, <1>3, <4>2, <4>3 DEF Neighbours
    <3>2. v[j] = s[1]
      BY <1>1, <3>1
    <3>3. Hindmost(w, i) /\ v[i] = w[i]
      BY <1>1, <1>3, <2>1, <2>3, <3>1 DEF Neighbours, Hindmost
    <3> QED
      BY <3>2, <3>3
  <2>4. CASE n < i
    <3>1. j = i + 1
      <4>1. SUFFICES ASSUME j # i + 1 PROVE FALSE
        OBVIOUS
      <4>2. i + 1 \in i + 1 .. j - 1 /\ i + 1 \in n + 1 .. n + Len(s)
        BY <1>1, <2>1, <2>4, <4>1
      <4> QED
        BY <1>2, <1>3, <4>2 DEF Neighbours
    <3>2. i \in n + 1 .. n + Len(s) /\ j \in n + 1 .. n + Len(s)
      BY <1>1, <2>1, <2>4
    <3>3. i - n \in 1 .. Len(s) - 1 /\ j - n = (i - n) + 1
      BY <1>1, <2>1, <2>4, <3>1, <3>2
    <3> QED
      BY <1>2, <3>2, <3>3
  <2> QED
    BY <1>1, <2>1, <2>2, <2>3, <2>4
<1>4. ASSUME NEW i \in DOMAIN v, Hindmost(v, i)
      PROVE  v[i] = s[Len(s)]
  <2>1. i = n + Len(s)
    <3>1. SUFFICES ASSUME i # n + Len(s) PROVE FALSE
      OBVIOUS
    <3>2. n + Len(s) \in i + 1 .. Len(v) /\ n + Len(s) \in n + 1 .. n + Len(s)
      BY <1>1, <3>1
    <3> QED
      BY <1>2, <1>4, <3>2 DEF Hindmost
  <2> QED
    BY <1>1, <2>1
<1>5. ASSUME NEW j \in DOMAIN v, Foremost(v, j)
      PROVE  \/ Foremost(w, j) /\ v[j] = w[j]
             \/ (\A k \in DOMAIN w : ~IsData(w[k])) /\ v[j] = s[1]
  <2>1. CASE j <= n
    BY <1>1, <1>5, <2>1 DEF Foremost
  <2>2. CASE n < j
    <3>1. j = n + 1
      <4>1. SUFFICES ASSUME j # n + 1 PROVE FALSE
        OBVIOUS
      <4>2. n + 1 \in n + 1 .. n + Len(s)
        BY <1>1
      <4>3. n + 1 \in 1 .. j - 1
        <5>1. j \in Nat /\ n + 1 \in Nat
          BY <1>1
        <5> QED
          BY <1>1, <2>2, <4>1, <5>1
      <4> QED
        BY <1>2, <1>5, <4>2, <4>3 DEF Foremost
    <3>2. v[j] = s[1]
      BY <1>1, <3>1
    <3>3. \A k \in 1 .. n : ~IsData(w[k])
      BY <1>1, <1>5, <3>1 DEF Foremost
    <3> QED
      BY <1>1, <3>2, <3>3
  <2> QED
    BY <1>1, <2>1, <2>2
<1> QED
  BY <1>3, <1>4, <1>5 DEF v

(* and so, what is foremost on it;                                       *)
LEMMA ForemostConcat ==
  ASSUME NEW l, NEW w \in Seq(Frame), NEW m, NEW s \in Seq(Frame), Answer(l, s, m)
  PROVE  \A j \in DOMAIN (w \o s) : Foremost(w \o s, j) =>
           \/ Foremost(w, j) /\ (w \o s)[j] = w[j]
           \/ (\A k \in DOMAIN w : ~IsData(w[k])) /\ (w \o s)[j] = s[1]
BY NeighboursConcat, Zenon

(* that a notification was added to,                                     *)
LEMMA NeighboursAppend ==
  ASSUME NEW w \in Seq(Frame), NEW g \in Frame, ~IsData(g)
  PROVE  LET v == Append(w, g) IN
         /\ \A i, j \in DOMAIN v : Neighbours(v, i, j) =>
              Neighbours(w, i, j) /\ v[i] = w[i] /\ v[j] = w[j]
         /\ \A i \in DOMAIN v : Hindmost(v, i) => Hindmost(w, i) /\ v[i] = w[i]
         /\ \A j \in DOMAIN v : Foremost(v, j) => Foremost(w, j) /\ v[j] = w[j]
         /\ \A j \in DOMAIN v : IsData(v[j]) => j \in DOMAIN w /\ v[j] = w[j]
<1> DEFINE v == Append(w, g)
           n == Len(w)
<1>1. /\ n \in Nat /\ Len(v) = n + 1 /\ DOMAIN w = 1 .. n /\ DOMAIN v = 1 .. n + 1
      /\ v[n + 1] = g /\ \A k \in 1 .. n : v[k] = w[k]
  BY AppendElements
<1> HIDE DEF v, n
<1>2. \A k \in DOMAIN v : IsData(v[k]) => k \in 1 .. n /\ v[k] = w[k]
  BY <1>1
<1>3. \A i, j \in DOMAIN v : Neighbours(v, i, j) => Neighbours(w, i, j) /\ v[i] = w[i] /\ v[j] = w[j]
  BY <1>1, <1>2 DEF Neighbours
<1>4. \A i \in DOMAIN v : Hindmost(v, i) => Hindmost(w, i) /\ v[i] = w[i]
  <2> SUFFICES ASSUME NEW i \in DOMAIN v, Hindmost(v, i) PROVE Hindmost(w, i) /\ v[i] = w[i]
    OBVIOUS
  <2>1. i \in 1 .. n /\ v[i] = w[i]
    BY <1>2 DEF Hindmost
  <2>2. \A k \in i + 1 .. n : k \in i + 1 .. Len(v) /\ v[k] = w[k]
    BY <1>1, <2>1
  <2>3. n = Len(w)
    BY DEF n
  <2> QED
    BY <1>1, <2>1, <2>2, <2>3 DEF Hindmost
<1>5. \A j \in DOMAIN v : Foremost(v, j) => Foremost(w, j) /\ v[j] = w[j]
  BY <1>1, <1>2 DEF Foremost
<1> QED
  BY <1>1, <1>2, <1>3, <1>4, <1>5 DEF v

(* and that lost a frame: two that were apart may now be neighbours.     *)
LEMMA NeighboursWithout ==
  ASSUME NEW w \in Seq(Frame), NEW k \in 1 .. Len(w)
  PROVE  LET v == Without(w, k) IN
         /\ \A i \in DOMAIN v : v[i] = w[Up(i, k)] /\ Up(i, k) \in DOMAIN w
         /\ \A i, j \in DOMAIN v : Neighbours(v, i, j) =>
              \/ Neighbours(w, Up(i, k), Up(j, k))
              \/ Neighbours(w, Up(i, k), k) /\ Neighbours(w, k, Up(j, k))
         /\ \A j \in DOMAIN v : Foremost(v, j) =>
              \/ Foremost(w, Up(j, k))
              \/ Foremost(w, k) /\ Neighbours(w, k, Up(j, k))
<1> DEFINE v == Without(w, k)
<1>1. /\ Len(w) \in Nat /\ DOMAIN w = 1 .. Len(w) /\ DOMAIN v = 1 .. Len(w) - 1
      /\ \A i \in 1 .. Len(w) - 1 : v[i] = w[Up(i, k)] /\ Up(i, k) \in 1 .. Len(w)
  BY WithoutElements
<1> HIDE DEF v
(* Each frame but the lost one is still there.                           *)
<1>2. ASSUME NEW x \in 1 .. Len(w), x # k
      PROVE  \E i \in DOMAIN v : Up(i, k) = x /\ (x < k => i = x) /\ (x > k => i = x - 1)
  <2>1. CASE x < k
    <3>1. x \in DOMAIN v /\ Up(x, k) = x
      BY <1>1, <2>1 DEF Up
    <3> QED
      BY <2>1, <3>1
  <2>2. CASE x > k
    <3>1. x - 1 \in DOMAIN v /\ Up(x - 1, k) = x
      BY <1>1, <2>2 DEF Up
    <3> QED
      BY <2>2, <3>1
  <2> QED
    BY <1>1, <1>2, <2>1, <2>2
<1>3. \A i, j \in DOMAIN v : i < j <=> Up(i, k) < Up(j, k)
  BY <1>1 DEF Up
<1>4. ASSUME NEW i \in DOMAIN v, NEW j \in DOMAIN v, Neighbours(v, i, j)
      PROVE  \/ Neighbours(w, Up(i, k), Up(j, k))
             \/ Neighbours(w, Up(i, k), k) /\ Neighbours(w, k, Up(j, k))
  <2>1. /\ Up(i, k) \in DOMAIN w /\ Up(j, k) \in DOMAIN w /\ Up(i, k) < Up(j, k)
        /\ IsData(w[Up(i, k)]) /\ IsData(w[Up(j, k)])
    BY <1>1, <1>3, <1>4 DEF Neighbours
  <2>2. ASSUME NEW x \in 1 .. Len(w), x # k, Up(i, k) < x, x < Up(j, k)
        PROVE  ~IsData(w[x])
    <3>1. PICK y \in DOMAIN v : Up(y, k) = x
      BY <1>2, <2>2
    <3>2. i < y /\ y < j
      BY <1>3, <2>2, <3>1
    <3>3. y \in i + 1 .. j - 1
      BY <1>1, <3>2
    <3> QED
      BY <1>1, <1>4, <3>1, <3>3 DEF Neighbours
  <2>3. CASE Up(i, k) < k /\ k < Up(j, k) /\ IsData(w[k])
    <3>1. \A x \in Up(i, k) + 1 .. k - 1 :
            x \in 1 .. Len(w) /\ x # k /\ Up(i, k) < x /\ x < Up(j, k)
      BY <1>1, <2>1, <2>3
    <3>2. \A x \in k + 1 .. Up(j, k) - 1 :
            x \in 1 .. Len(w) /\ x # k /\ Up(i, k) < x /\ x < Up(j, k)
      BY <1>1, <2>1, <2>3
    <3> QED
      BY <1>1, <2>1, <2>2, <2>3, <3>1, <3>2 DEF Neighbours
  <2>4. CASE ~(Up(i, k) < k /\ k < Up(j, k) /\ IsData(w[k]))
    <3>1. ASSUME NEW x \in Up(i, k) + 1 .. Up(j, k) - 1
          PROVE  ~IsData(w[x])
      <4>1. x \in 1 .. Len(w) /\ Up(i, k) < x /\ x < Up(j, k)
        BY <1>1, <2>1
      <4> QED
        BY <2>2, <2>4, <4>1
    <3> QED
      BY <2>1, <3>1 DEF Neighbours
  <2> QED
    BY <2>3, <2>4
<1>5. ASSUME NEW j \in DOMAIN v, Foremost(v, j)
      PROVE  \/ Foremost(w, Up(j, k))
             \/ Foremost(w, k) /\ Neighbours(w, k, Up(j, k))
  <2>1. Up(j, k) \in DOMAIN w /\ IsData(w[Up(j, k)])
    BY <1>1, <1>5 DEF Foremost
  <2>2. ASSUME NEW x \in 1 .. Len(w), x # k, x < Up(j, k)
        PROVE  ~IsData(w[x])
    <3>1. PICK y \in DOMAIN v : Up(y, k) = x
      BY <1>2, <2>2
    <3>2. y < j
      BY <1>3, <2>2, <3>1
    <3>3. y \in 1 .. j - 1
      BY <1>1, <3>2
    <3> QED
      BY <1>1, <1>5, <3>1, <3>3 DEF Foremost
  <2>3. CASE k < Up(j, k) /\ IsData(w[k])
    <3>1. \A x \in 1 .. k - 1 : x \in 1 .. Len(w) /\ x # k /\ x < Up(j, k)
      BY <1>1, <2>1, <2>3
    <3>2. \A x \in k + 1 .. Up(j, k) - 1 : x \in 1 .. Len(w) /\ x # k /\ x < Up(j, k)
      BY <1>1, <2>1, <2>3
    <3> QED
      BY <1>1, <2>1, <2>2, <2>3, <3>1, <3>2 DEF Neighbours, Foremost
  <2>4. CASE ~(k < Up(j, k) /\ IsData(w[k]))
    <3>1. \A x \in 1 .. Up(j, k) - 1 : ~IsData(w[x])
      BY <1>1, <2>1, <2>2, <2>4
    <3> QED
      BY <2>1, <3>1 DEF Foremost
  <2> QED
    BY <2>3, <2>4
<1> QED
  BY <1>1, <1>4, <1>5 DEF v

(* A step keeps every frame on the wire as the framing defines it.       *)
LEMMA FormedStep ==
  ASSUME PacketTypeOK, SendInv, WireFormed, Next
  PROVE  WireFormed'
<1>1. link' = link /\ wire \in Seq(Frame)
  BY HistoryStep DEF PacketTypeOK
<1> DEFINE Good(f) == (IsData(f) => Formed(link, f)) /\ (~IsData(f) => link = "ble")
<1>2. \A k \in DOMAIN wire : Good(wire[k])
  BY DEF WireFormed
<1> SUFFICES \A k \in DOMAIN wire' : Good(wire'[k])
  BY <1>1 DEF WireFormed
<1>3. CASE wire' = wire
  BY <1>2, <1>3
<1>4. CASE wire # << >> /\ wire' = Tail(wire)
  <2>1. /\ DOMAIN wire = 1 .. Len(wire) /\ DOMAIN Tail(wire) = 1 .. Len(wire) - 1
        /\ \A k \in 1 .. Len(wire) - 1 : Tail(wire)[k] = wire[k + 1] /\ k + 1 \in 1 .. Len(wire)
    BY <1>1, <1>4, TailElements
  <2> HIDE DEF Good
  <2> QED
    BY <1>2, <1>4, <2>1
<1>5. ASSUME NEW m \in Message, NEW s \in Seq(Frame), Answer(link, s, m), wire' = wire \o s
      PROVE  \A k \in DOMAIN wire' : Good(wire'[k])
  <2>1. \A k \in 1 .. Len(s) : Good(s[k])
    BY <1>5 DEF Answer
  <2>2. /\ Len(wire) \in Nat /\ Len(s) \in Nat /\ DOMAIN wire = 1 .. Len(wire)
        /\ DOMAIN (wire \o s) = 1 .. Len(wire) + Len(s)
        /\ \A k \in 1 .. Len(wire) : (wire \o s)[k] = wire[k]
        /\ \A k \in 1 .. Len(s) : (wire \o s)[Len(wire) + k] = s[k]
    BY <1>1, ConcatElements
  <2>3. \A k \in 1 .. Len(wire) + Len(s) :
          \/ k \in 1 .. Len(wire)
          \/ k - Len(wire) \in 1 .. Len(s) /\ Len(wire) + (k - Len(wire)) = k
    BY <2>2
  <2> HIDE DEF Good
  <2>4. \A k \in 1 .. Len(wire) + Len(s) : Good((wire \o s)[k])
    <3> TAKE k \in 1 .. Len(wire) + Len(s)
    <3>1. CASE k \in 1 .. Len(wire)
      BY <1>2, <2>2, <3>1
    <3>2. CASE k - Len(wire) \in 1 .. Len(s) /\ Len(wire) + (k - Len(wire)) = k
      <4>1. PICK x \in 1 .. Len(s) : Len(wire) + x = k
        BY <3>2
      <4> QED
        BY <2>1, <2>2, <4>1
    <3> QED
      BY <2>3, <3>1, <3>2
  <2> QED
    BY <1>5, <2>2, <2>4
<1>6. ASSUME NEW g \in Frame, link = "ble", ~IsData(g), wire' = Append(wire, g)
      PROVE  \A k \in DOMAIN wire' : Good(wire'[k])
  <2>1. /\ DOMAIN wire = 1 .. Len(wire) /\ DOMAIN wire' = 1 .. Len(wire) + 1
        /\ Len(wire) \in Nat /\ wire'[Len(wire) + 1] = g
        /\ \A k \in 1 .. Len(wire) : wire'[k] = wire[k]
    BY <1>1, <1>6, AppendElements
  <2>2. Good(g)
    BY <1>6
  <2>3. \A k \in DOMAIN wire' : k \in 1 .. Len(wire) \/ k = Len(wire) + 1
    BY <2>1
  <2> HIDE DEF Good
  <2> QED
    BY <1>2, <2>1, <2>2, <2>3
<1>7. ASSUME NEW k \in 1 .. Len(wire), wire' = Without(wire, k)
      PROVE  \A i \in DOMAIN wire' : Good(wire'[i])
  <2>1. \A i \in DOMAIN wire' : wire'[i] = wire[Up(i, k)] /\ Up(i, k) \in DOMAIN wire
    BY <1>1, <1>7, NeighboursWithout
  <2> HIDE DEF Good
  <2> QED
    BY <1>2, <2>1
<1> QED
  BY <1>3, <1>4, <1>5, <1>6, <1>7, WireStep

(* An answer's frames continue each other, and the answer is whole.      *)
LEMMA AnswerContinues ==
  ASSUME NEW l \in LinkNames, NEW m \in Message, NEW s \in Seq(Frame), Answer(l, s, m)
  PROVE  /\ Len(s) \in Nat \ {0}
         /\ Number(l, s[1]) = 0 /\ Ends(s[Len(s)])
         /\ \A k \in 1 .. Len(s) - 1 :
              Continues(l, s[k].msg, Number(l, s[k]) + 1, s[k].to, s[k + 1])
<1>1. Len(s) \in Nat \ {0}
  BY DEF Answer
<1>2. Number(l, s[1]) = 0 /\ Ends(s[Len(s)])
  BY <1>1 DEF Answer
<1>3. ASSUME NEW k \in 1 .. Len(s) - 1
      PROVE  Continues(l, s[k].msg, Number(l, s[k]) + 1, s[k].to, s[k + 1])
  <2>1. k \in 1 .. Len(s) /\ k + 1 \in 1 .. Len(s) /\ k # Len(s) /\ (k + 1) - 1 = (k - 1) + 1
    BY <1>1
  <2>2. /\ s[k].msg = m /\ s[k + 1].msg = m
        /\ Number(l, s[k]) = k - 1 /\ Number(l, s[k + 1]) = (k + 1) - 1
    BY <2>1 DEF Answer
  <2>3. m.len \in Nat
    BY DEF Message
  <2>4. s[k].to # m.len /\ s[k].to = Smaller(m.len, Start(l, Number(l, s[k]) + 1))
    BY <2>1, <2>2 DEF Answer, Formed, Ends
  <2>5. s[k].to < m.len
    <3>1. Start(l, Number(l, s[k]) + 1) \in Nat
      BY <2>1, <2>2, StartFacts
    <3> QED
      BY <2>3, <2>4, <3>1 DEF Smaller
  <2> QED
    BY <2>1, <2>2, <2>5 DEF Continues
<1> QED
  BY <1>1, <1>2, <1>3

(* What continues a message may follow it;                               *)
LEMMA ContinuesFollows ==
  ASSUME NEW l, NEW m, NEW n \in Nat, NEW off, NEW g, Continues(l, m, n + 1, off, g)
  PROVE  MayFollow(l, m, n + 1, off, g)
BY DEF Continues, MayFollow

(* so may what continues the frame that was lost between.                *)
LEMMA ContinuesTwice ==
  ASSUME NEW l, NEW m, NEW n \in Nat, NEW off, NEW g, NEW h,
         Continues(l, m, n + 1, off, g),
         Continues(l, g.msg, Number(l, g) + 1, g.to, h)
  PROVE  MayFollow(l, m, n + 1, off, h)
<1> SUFFICES ASSUME off < m.len, Number(l, h) = n + 1
             PROVE  h.msg = m
  BY DEF MayFollow
<1>1. g.msg = m /\ Number(l, g) = n + 1
  BY DEF Continues
<1>2. Number(l, h) # (n + 1) + 1 /\ Number(l, h) # 0
  OBVIOUS
<1> QED
  BY <1>1, <1>2 DEF Continues

(* A step keeps the frames of a message in order, less the one that was  *)
(* lost.                                                                 *)
LEMMA ChainedStep ==
  ASSUME PacketTypeOK, SendInv, WireFormed, Chained, Next
  PROVE  Chained'
<1>1. /\ link' = link /\ wire \in Seq(Frame) /\ link \in LinkNames
      /\ fault' = fault \/ fault = "none"
      /\ fault' = "none" => fault = "none"
  BY HistoryStep, LinkKnown DEF PacketTypeOK
<1>2. \A k \in DOMAIN wire : IsData(wire[k]) => Number(link, wire[k]) \in Nat
  BY DEF WireFormed, Formed
<1>3. ASSUME fault' = "none"
      PROVE  Strong(link, wire')
  <2>1. Strong(link, wire)
    BY <1>1, <1>3 DEF Chained
  <2>2. CASE wire' = wire
    BY <2>1, <2>2
  <2>3. CASE wire # << >> /\ wire' = Tail(wire)
    <3> DEFINE t == Tail(wire)
    <3>1. /\ \A i, j \in DOMAIN t : Neighbours(t, i, j) =>
               Neighbours(wire, i + 1, j + 1) /\ t[i] = wire[i + 1] /\ t[j] = wire[j + 1]
          /\ \A i \in DOMAIN t : Hindmost(t, i) => Hindmost(wire, i + 1) /\ t[i] = wire[i + 1]
      BY <1>1, <2>3, NeighboursTail
    <3> HIDE DEF t
    <3>2. \A i, j \in DOMAIN t : Neighbours(t, i, j) =>
            Continues(link, t[i].msg, Number(link, t[i]) + 1, t[i].to, t[j])
      BY <2>1, <3>1 DEF Strong, Neighbours
    <3>3. \A i \in DOMAIN t : Hindmost(t, i) => Ends(t[i])
      BY <2>1, <3>1 DEF Strong, Hindmost
    <3> QED
      BY <2>3, <3>2, <3>3 DEF Strong, t
  <2>4. ASSUME NEW m \in Message, NEW s \in Seq(Frame), Answer(link, s, m), wire' = wire \o s
        PROVE  Strong(link, wire')
    <3> DEFINE v == wire \o s
    <3>1. /\ \A i, j \in DOMAIN v : Neighbours(v, i, j) =>
               \/ Neighbours(wire, i, j) /\ v[i] = wire[i] /\ v[j] = wire[j]
               \/ Hindmost(wire, i) /\ v[i] = wire[i] /\ v[j] = s[1]
               \/ \E k \in 1 .. Len(s) - 1 : v[i] = s[k] /\ v[j] = s[k + 1]
          /\ \A i \in DOMAIN v : Hindmost(v, i) => v[i] = s[Len(s)]
      BY <1>1, <2>4, NeighboursConcat
    <3>2. /\ Number(link, s[1]) = 0 /\ Ends(s[Len(s)])
          /\ \A k \in 1 .. Len(s) - 1 :
               Continues(link, s[k].msg, Number(link, s[k]) + 1, s[k].to, s[k + 1])
      BY <1>1, <2>4, AnswerContinues
    <3> HIDE DEF v
    <3>3. ASSUME NEW i \in DOMAIN v, NEW j \in DOMAIN v, Neighbours(v, i, j)
          PROVE  Continues(link, v[i].msg, Number(link, v[i]) + 1, v[i].to, v[j])
      <4>1. CASE Neighbours(wire, i, j) /\ v[i] = wire[i] /\ v[j] = wire[j]
        BY <2>1, <4>1 DEF Strong, Neighbours
      <4>2. CASE Hindmost(wire, i) /\ v[i] = wire[i] /\ v[j] = s[1]
        <5>1. Ends(wire[i]) /\ wire[i] \in Frame
          BY <1>1, <2>1, <4>2 DEF Strong, Hindmost
        <5>2. ~(v[i].to < v[i].msg.len)
          BY <4>2, <5>1 DEF Ends, Frame, Message
        <5> QED
          BY <3>2, <4>2, <5>2 DEF Continues
      <4>3. CASE \E k \in 1 .. Len(s) - 1 : v[i] = s[k] /\ v[j] = s[k + 1]
        BY <3>2, <4>3
      <4> QED
        BY <3>1, <3>3, <4>1, <4>2, <4>3
    <3>4. \A i \in DOMAIN v : Hindmost(v, i) => Ends(v[i])
      BY <3>1, <3>2
    <3> QED
      BY <2>4, <3>3, <3>4 DEF Strong, v
  <2>5. ASSUME NEW g \in Frame, ~IsData(g), wire' = Append(wire, g)
        PROVE  Strong(link, wire')
    <3> DEFINE v == Append(wire, g)
    <3>1. /\ \A i, j \in DOMAIN v : Neighbours(v, i, j) =>
               Neighbours(wire, i, j) /\ v[i] = wire[i] /\ v[j] = wire[j]
          /\ \A i \in DOMAIN v : Hindmost(v, i) => Hindmost(wire, i) /\ v[i] = wire[i]
      BY <1>1, <2>5, NeighboursAppend
    <3> HIDE DEF v
    <3>2. \A i, j \in DOMAIN v : Neighbours(v, i, j) =>
            Continues(link, v[i].msg, Number(link, v[i]) + 1, v[i].to, v[j])
      BY <2>1, <3>1 DEF Strong, Neighbours
    <3>3. \A i \in DOMAIN v : Hindmost(v, i) => Ends(v[i])
      BY <2>1, <3>1 DEF Strong, Hindmost
    <3> QED
      BY <2>5, <3>2, <3>3 DEF Strong, v
  <2> QED
    BY <1>3, <2>2, <2>3, <2>4, <2>5, WireStep
<1>4. ASSUME fault' = "lost", link \in {"ledger", "ble"}
      PROVE  Linked(link, wire')
  <2>1. CASE fault = "lost"
    <3>1. Linked(link, wire)
      BY <1>4, <2>1 DEF Chained
    <3>2. CASE wire' = wire
      BY <3>1, <3>2
    <3>3. CASE wire # << >> /\ wire' = Tail(wire)
      <4> DEFINE t == Tail(wire)
      <4>1. \A i, j \in DOMAIN t : Neighbours(t, i, j) =>
              Neighbours(wire, i + 1, j + 1) /\ t[i] = wire[i + 1] /\ t[j] = wire[j + 1]
        BY <1>1, <3>3, NeighboursTail
      <4> HIDE DEF t
      <4>2. \A i, j \in DOMAIN t : Neighbours(t, i, j) =>
              MayFollow(link, t[i].msg, Number(link, t[i]) + 1, t[i].to, t[j])
        BY <3>1, <4>1 DEF Linked, Neighbours
      <4> QED
        BY <3>3, <4>2 DEF Linked, t
    <3>4. ASSUME NEW m \in Message, NEW s \in Seq(Frame), Answer(link, s, m), wire' = wire \o s
          PROVE  Linked(link, wire')
      <4> DEFINE v == wire \o s
      <4>1. \A i, j \in DOMAIN v : Neighbours(v, i, j) =>
              \/ Neighbours(wire, i, j) /\ v[i] = wire[i] /\ v[j] = wire[j]
              \/ Hindmost(wire, i) /\ v[i] = wire[i] /\ v[j] = s[1]
              \/ \E k \in 1 .. Len(s) - 1 : v[i] = s[k] /\ v[j] = s[k + 1]
        BY <1>1, <3>4, NeighboursConcat
      <4>2. /\ Number(link, s[1]) = 0
            /\ \A k \in 1 .. Len(s) - 1 :
                 /\ Number(link, s[k]) \in Nat
                 /\ Continues(link, s[k].msg, Number(link, s[k]) + 1, s[k].to, s[k + 1])
        <5>1. /\ Number(link, s[1]) = 0 /\ Len(s) \in Nat
              /\ \A k \in 1 .. Len(s) - 1 :
                   Continues(link, s[k].msg, Number(link, s[k]) + 1, s[k].to, s[k + 1])
          BY <1>1, <3>4, AnswerContinues
        <5>2. \A k \in 1 .. Len(s) : Number(link, s[k]) \in Nat
          BY <3>4 DEF Answer, Formed
        <5> QED
          BY <5>1, <5>2
      <4> HIDE DEF v
      <4>3. ASSUME NEW i \in DOMAIN v, NEW j \in DOMAIN v, Neighbours(v, i, j)
            PROVE  MayFollow(link, v[i].msg, Number(link, v[i]) + 1, v[i].to, v[j])
        <5>1. CASE Neighbours(wire, i, j) /\ v[i] = wire[i] /\ v[j] = wire[j]
          BY <3>1, <5>1 DEF Linked, Neighbours
        <5>2. CASE Hindmost(wire, i) /\ v[i] = wire[i] /\ v[j] = s[1]
          <6>1. Number(link, v[i]) \in Nat
            BY <1>2, <5>2 DEF Hindmost
          <6> QED
            BY <4>2, <5>2, <6>1 DEF MayFollow
        <5>3. CASE \E k \in 1 .. Len(s) - 1 : v[i] = s[k] /\ v[j] = s[k + 1]
          BY <4>2, <5>3, ContinuesFollows
        <5> QED
          BY <4>1, <4>3, <5>1, <5>2, <5>3
      <4> QED
        BY <3>4, <4>3 DEF Linked, v
    <3>5. ASSUME NEW g \in Frame, ~IsData(g), wire' = Append(wire, g)
          PROVE  Linked(link, wire')
      <4> DEFINE v == Append(wire, g)
      <4>1. \A i, j \in DOMAIN v : Neighbours(v, i, j) =>
              Neighbours(wire, i, j) /\ v[i] = wire[i] /\ v[j] = wire[j]
        BY <1>1, <3>5, NeighboursAppend
      <4> HIDE DEF v
      <4>2. \A i, j \in DOMAIN v : Neighbours(v, i, j) =>
              MayFollow(link, v[i].msg, Number(link, v[i]) + 1, v[i].to, v[j])
        BY <3>1, <4>1 DEF Linked, Neighbours
      <4> QED
        BY <3>5, <4>2 DEF Linked, v
    <3> QED
      BY <2>1, <3>2, <3>3, <3>4, <3>5, WireStep
  <2>2. CASE fault # "lost"
    <3>1. PICK k \in 1 .. Len(wire) : wire' = Without(wire, k) /\ fault = "none"
      BY <1>4, <2>2, WireStep
    <3>2. Strong(link, wire)
      BY <3>1 DEF Chained
    <3> DEFINE v == Without(wire, k)
    <3>3. /\ \A i \in DOMAIN v : v[i] = wire[Up(i, k)] /\ Up(i, k) \in DOMAIN wire
          /\ \A i, j \in DOMAIN v : Neighbours(v, i, j) =>
               \/ Neighbours(wire, Up(i, k), Up(j, k))
               \/ Neighbours(wire, Up(i, k), k) /\ Neighbours(wire, k, Up(j, k))
      BY <1>1, NeighboursWithout
    <3> HIDE DEF v
    <3>4. ASSUME NEW i \in DOMAIN v, NEW j \in DOMAIN v, Neighbours(v, i, j)
          PROVE  MayFollow(link, v[i].msg, Number(link, v[i]) + 1, v[i].to, v[j])
      <4> DEFINE x == Up(i, k)
                 y == Up(j, k)
      <4>1. /\ x \in DOMAIN wire /\ y \in DOMAIN wire
            /\ v[i] = wire[x] /\ v[j] = wire[y]
            /\ Neighbours(wire, x, y) \/ (Neighbours(wire, x, k) /\ Neighbours(wire, k, y))
        <5>1. v[i] = wire[x] /\ x \in DOMAIN wire
          BY <3>3
        <5>2. v[j] = wire[y] /\ y \in DOMAIN wire
          BY <3>3
        <5>3. Neighbours(wire, x, y) \/ (Neighbours(wire, x, k) /\ Neighbours(wire, k, y))
          BY <3>3, <3>4, Zenon
        <5> QED
          BY <5>1, <5>2, <5>3
      <4> HIDE DEF x, y
      <4>2. Number(link, wire[x]) \in Nat
        BY <1>2, <4>1 DEF Neighbours
      <4>3. CASE Neighbours(wire, x, y)
        BY <3>2, <4>1, <4>2, <4>3, ContinuesFollows DEF Strong
      <4>4. CASE Neighbours(wire, x, k) /\ Neighbours(wire, k, y)
        <5>1. /\ Continues(link, wire[x].msg, Number(link, wire[x]) + 1, wire[x].to, wire[k])
              /\ Continues(link, wire[k].msg, Number(link, wire[k]) + 1, wire[k].to, wire[y])
          BY <3>2, <4>4 DEF Strong, Neighbours
        <5> QED
          BY <4>1, <4>2, <5>1, ContinuesTwice
      <4> QED
        BY <4>1, <4>3, <4>4
    <3> QED
      BY <3>1, <3>4 DEF Linked, v
  <2> QED
    BY <2>1, <2>2
<1> QED
  BY <1>1, <1>3, <1>4 DEF Chained
-----------------------------------------------------------------------------
(* What the next data frame may be, after a step.                        *)
LEMMA ExpectsKept ==
  ASSUME NEW l \in LinkNames, NEW w \in Seq(Frame), NEW fl, NEW m, NEW n \in Nat \ {0},
         Expects(l, w, fl, m, n)
  PROVE  /\ w # << >> /\ ~IsData(w[1]) => Expects(l, Tail(w), fl, m, n)
         /\ \A q \in Message, s \in Seq(Frame) :
              Answer(l, s, q) => Expects(l, w \o s, fl, m, n)
         /\ \A g \in Frame : ~IsData(g) => Expects(l, Append(w, g), fl, m, n)
<1>1. ASSUME w # << >>, ~IsData(w[1])
      PROVE  Expects(l, Tail(w), fl, m, n)
  <2> DEFINE t == Tail(w)
  <2>1. /\ DOMAIN w = 1 .. Len(w) /\ DOMAIN t = 1 .. Len(w) - 1 /\ Len(w) \in Nat
        /\ \A k \in 1 .. Len(w) - 1 : t[k] = w[k + 1]
    BY <1>1, TailElements
  <2>2. \A j \in DOMAIN t : Foremost(t, j) => t[j] = w[j + 1] /\ Foremost(w, j + 1)
    BY <1>1, NeighboursTail
  <2> HIDE DEF t
  <2>3. fl = "none" => \E j \in DOMAIN t : IsData(t[j])
    <3> SUFFICES ASSUME fl = "none" PROVE \E j \in DOMAIN t : IsData(t[j])
      OBVIOUS
    <3>1. PICK i \in DOMAIN w : IsData(w[i])
      BY DEF Expects
    <3>2. i # 1
      BY <1>1, <3>1
    <3>3. i - 1 \in DOMAIN t /\ t[i - 1] = w[i]
      BY <2>1, <3>2
    <3> QED
      BY <3>1, <3>3
  <2>4. \A j \in DOMAIN t : Foremost(t, j) => j + 1 \in DOMAIN w
    BY <2>1
  <2>5. Expects(l, t, fl, m, n)
    BY <2>2, <2>3, <2>4 DEF Expects
  <2> QED
    BY <2>5 DEF t
<1>2. ASSUME NEW q \in Message, NEW s \in Seq(Frame), Answer(l, s, q)
      PROVE  Expects(l, w \o s, fl, m, n)
  <2> DEFINE v == w \o s
  <2>1. \A j \in DOMAIN v : Foremost(v, j) =>
          \/ Foremost(w, j) /\ v[j] = w[j]
          \/ (\A k \in DOMAIN w : ~IsData(w[k])) /\ v[j] = s[1]
    BY <1>2, ForemostConcat, Zenon
  <2>2. DOMAIN w \subseteq DOMAIN v /\ \A k \in DOMAIN w : v[k] = w[k]
    BY ConcatElements
  <2>3. Number(l, s[1]) = 0
    BY <1>2, AnswerContinues
  <2> HIDE DEF v
  <2>4. ASSUME NEW j \in DOMAIN v, Foremost(v, j)
        PROVE  /\ fl = "none" => v[j].msg = m /\ Number(l, v[j]) = n
               /\ Number(l, v[j]) = n => v[j].msg = m
    <3>1. CASE Foremost(w, j) /\ v[j] = w[j]
      BY <3>1 DEF Expects, Foremost
    <3>2. CASE (\A k \in DOMAIN w : ~IsData(w[k])) /\ v[j] = s[1]
      BY <2>3, <3>2 DEF Expects
    <3> QED
      BY <2>1, <2>4, <3>1, <3>2
  <2>5. Expects(l, v, fl, m, n)
    BY <2>2, <2>4 DEF Expects
  <2> QED
    BY <2>5 DEF v
<1>3. ASSUME NEW g \in Frame, ~IsData(g)
      PROVE  Expects(l, Append(w, g), fl, m, n)
  <2> DEFINE v == Append(w, g)
  <2>1. \A j \in DOMAIN v : Foremost(v, j) => Foremost(w, j) /\ v[j] = w[j]
    BY <1>3, NeighboursAppend
  <2>2. DOMAIN w \subseteq DOMAIN v /\ \A k \in DOMAIN w : v[k] = w[k]
    BY AppendElements
  <2> HIDE DEF v
  <2>3. Expects(l, v, fl, m, n)
    BY <2>1, <2>2 DEF Expects, Foremost
  <2> QED
    BY <2>3 DEF v
<1> QED
  BY <1>1, <1>2, <1>3

(* Whichever frame is lost, the next one is due or is numbered otherwise.   *)
LEMMA ExpectsLost ==
  ASSUME NEW l \in LinkNames, NEW w \in Seq(Frame), NEW m, NEW n \in Nat \ {0},
         Expects(l, w, "none", m, n), Strong(l, w), NEW k \in 1 .. Len(w)
  PROVE  Expects(l, Without(w, k), "lost", m, n)
<1> DEFINE v == Without(w, k)
<1>1. /\ \A i \in DOMAIN v : v[i] = w[Up(i, k)] /\ Up(i, k) \in DOMAIN w
      /\ \A j \in DOMAIN v : Foremost(v, j) =>
           \/ Foremost(w, Up(j, k))
           \/ Foremost(w, k) /\ Neighbours(w, k, Up(j, k))
  BY NeighboursWithout
<1> HIDE DEF v
<1>2. ASSUME NEW j \in DOMAIN v, Foremost(v, j), Number(l, v[j]) = n
      PROVE  v[j].msg = m
  <2> DEFINE y == Up(j, k)
  <2>1. v[j] = w[y] /\ y \in DOMAIN w
    BY <1>1
  <2>2. Foremost(w, y) \/ (Foremost(w, k) /\ Neighbours(w, k, y))
    BY <1>1, <1>2, Zenon
  <2> HIDE DEF y
  <2>3. CASE Foremost(w, y)
    BY <2>1, <2>3 DEF Expects
  <2>4. CASE Foremost(w, k) /\ Neighbours(w, k, y)
    <3>1. Number(l, w[k]) = n
      BY <2>4 DEF Expects, Foremost
    <3>2. Continues(l, w[k].msg, n + 1, w[k].to, w[y])
      BY <2>4, <3>1 DEF Strong, Neighbours
    <3> QED
      BY <1>2, <2>1, <3>2 DEF Continues
  <2> QED
    BY <2>2, <2>3, <2>4
<1>3. Expects(l, v, "lost", m, n)
  BY <1>2 DEF Expects
<1> QED
  BY <1>3 DEF v

(* What the first frame of the wire says of the next one.                *)
LEMMA ExpectsNext ==
  ASSUME NEW l \in LinkNames, NEW w \in Seq(Frame), w # << >>, IsData(w[1]),
         Number(l, w[1]) \in Nat, w[1].to < w[1].msg.len
  PROVE  /\ Strong(l, w) => Expects(l, Tail(w), "none", w[1].msg, Number(l, w[1]) + 1)
         /\ \A fl : fl # "none" /\ Linked(l, w) =>
              Expects(l, Tail(w), fl, w[1].msg, Number(l, w[1]) + 1)
<1> DEFINE t == Tail(w)
<1>1. /\ \A j \in DOMAIN t : Foremost(t, j) =>
           t[j] = w[j + 1] /\ Neighbours(w, 1, j + 1)
      /\ (\A j \in DOMAIN t : ~IsData(t[j])) => Hindmost(w, 1)
  BY NeighboursTail
<1> HIDE DEF t
<1>2. w[1].to # w[1].msg.len
  <2>1. 1 \in DOMAIN w
    BY TailElements
  <2>2. w[1] \in Frame
    BY <2>1, TailElements
  <2>3. w[1].to \in Nat
    BY <2>2 DEF Frame
  <2> QED
    BY <2>3
<1>3. ASSUME Strong(l, w)
      PROVE  Expects(l, t, "none", w[1].msg, Number(l, w[1]) + 1)
  <2>1. \E j \in DOMAIN t : IsData(t[j])
    BY <1>1, <1>2, <1>3 DEF Strong, Hindmost, Ends
  <2>2. ASSUME NEW j \in DOMAIN t, Foremost(t, j)
        PROVE  t[j].msg = w[1].msg /\ Number(l, t[j]) = Number(l, w[1]) + 1
    <3>1. t[j] = w[j + 1] /\ Neighbours(w, 1, j + 1)
      BY <1>1, <2>2
    <3>2. Continues(l, w[1].msg, Number(l, w[1]) + 1, w[1].to, w[j + 1])
      BY <1>3, <3>1 DEF Strong, Neighbours
    <3> QED
      BY <3>1, <3>2 DEF Continues
  <2> QED
    BY <2>1, <2>2 DEF Expects
<1>4. ASSUME NEW fl, fl # "none", Linked(l, w)
      PROVE  Expects(l, t, fl, w[1].msg, Number(l, w[1]) + 1)
  <2>1. ASSUME NEW j \in DOMAIN t, Foremost(t, j), Number(l, t[j]) = Number(l, w[1]) + 1
        PROVE  t[j].msg = w[1].msg
    <3>1. t[j] = w[j + 1] /\ Neighbours(w, 1, j + 1)
      BY <1>1, <2>1
    <3>2. MayFollow(l, w[1].msg, Number(l, w[1]) + 1, w[1].to, w[j + 1])
      BY <1>4, <3>1 DEF Linked, Neighbours
    <3> QED
      BY <2>1, <3>1, <3>2 DEF MayFollow
  <2> QED
    BY <1>4, <2>1 DEF Expects
<1> QED
  BY <1>3, <1>4 DEF t
-----------------------------------------------------------------------------
(* The frame that is due is taken whole, and says whether it is the last.  *)
LEMMA TakenFormed ==
  ASSUME PacketTypeOK, NEW f \in Frame, Formed(link, f), Number(link, f) = in.want,
         in.have = f.from, in.want > 0 => in.expected = f.msg.len
  PROVE  /\ Taken(f) = f.to - f.from /\ in.have + Taken(f) = f.to
         /\ f.from + Taken(f) = f.to
         /\ f.to \in Nat /\ f.msg.len \in Nat /\ f.to <= f.msg.len
         /\ Last(f) <=> f.to = f.msg.len
         /\ f.total = f.msg.len
<1> DEFINE total == IF in.want = 0 THEN f.total ELSE in.expected
           len == f.msg.len
           step == IF in.want = 0 THEN First(link) ELSE Rest(link)
<1>1. /\ link \in LinkNames /\ in.want \in Nat /\ in.have \in Int /\ f.msg \in Message
      /\ f.from \in Nat /\ f.to \in Nat /\ len \in Nat
  <2>1. f.msg \in Message /\ f.from \in Nat /\ f.to \in Nat
    BY DEF Frame
  <2> QED
    BY <2>1, LinkKnown DEF PacketTypeOK, Message
<1>2. total = len /\ f.total = len
  BY <1>1 DEF Formed
<1>3. /\ Start(link, in.want) \in Nat
      /\ Start(link, in.want + 1) = Start(link, in.want) + step
      /\ f.from = Start(link, in.want) /\ f.from <= len
      /\ f.to = Smaller(len, Start(link, in.want + 1))
  BY <1>1, StartFacts DEF Formed
<1>4. step \in Nat
  BY <1>1, RoomFacts DEF LinkNames
<1>5. f.to = Smaller(len, f.from + step)
  BY <1>3
<1>6. link \in {"ledger", "bitbox"} => step = IF in.want = 0 THEN 57 ELSE 59
  BY <1>1, RoomFacts
<1> HIDE DEF total, len, step
<1>7. Taken(f) = f.to - f.from
  <2>1. CASE link = "coldcard"
    BY <2>1 DEF Taken
  <2>2. CASE link = "ble"
    <3>1. Taken(f) = Smaller(f.to - f.from, total - in.have)
      BY <2>2 DEF Taken, total
    <3>2. f.to - f.from <= len - f.from
      BY <1>1, <1>3, <1>4, <1>5 DEF Smaller
    <3> QED
      BY <1>1, <1>2, <3>1, <3>2 DEF Smaller
  <2>3. CASE link \in {"ledger", "bitbox"}
    <3>1. Taken(f) = Smaller(IF in.want = 0 THEN 57 ELSE 59, total - in.have)
      BY <2>3 DEF Taken, total
    <3>2. Taken(f) = Smaller(step, len - f.from)
      BY <1>2, <1>6, <2>3, <3>1
    <3> QED
      BY <1>1, <1>3, <1>4, <1>5, <3>2 DEF Smaller
  <2> QED
    BY <1>1, <2>1, <2>2, <2>3 DEF LinkNames
<1>8. in.have + Taken(f) = f.to /\ f.from + Taken(f) = f.to
  BY <1>1, <1>7
<1>9. f.to <= len
  BY <1>1, <1>3, <1>4, <1>5 DEF Smaller
<1>10. Last(f) <=> f.to = len
  <2>1. CASE link = "coldcard"
    <3>1. f.fram => in.want = 0
      BY DEF Formed
    <3>2. f.to = len <=> f.last \/ f.fram
      BY <2>1 DEF Formed, Ends, len
    <3>3. Last(f) <=> f.last \/ (in.want = 0 /\ f.fram)
      BY <2>1 DEF Last
    <3> QED
      BY <3>1, <3>2, <3>3
  <2>2. CASE link # "coldcard"
    <3>1. Last(f) <=> in.have + Taken(f) >= total
      BY <2>2 DEF Last, total
    <3> QED
      BY <1>1, <1>2, <1>8, <1>9, <3>1
  <2> QED
    BY <2>1, <2>2
<1> QED
  BY <1>1, <1>2, <1>7, <1>8, <1>9, <1>10 DEF len

(* While frames are not mixed, the one that is accepted is the one due.  *)
LEMMA AcceptedIsDue ==
  ASSUME PacketTypeOK, WireFormed, ReadInv, QuietInv, Sound,
         pc = "receive", wire # << >>, ~Ignores(wire[1]), ~Refuses(wire[1])
  PROVE  /\ IsData(wire[1]) /\ Formed(link, wire[1]) /\ Number(link, wire[1]) = in.want
         /\ in.want = 0 => in = NotReading
         /\ in.want > 0 => Prefix(wire[1].msg) /\ in.have < wire[1].msg.len
<1> DEFINE f == wire[1]
<1>1. /\ link \in LinkNames /\ in.want \in Nat /\ 1 \in DOMAIN wire /\ f \in Frame /\ f.seq \in Int
      /\ in.pieces \in Seq(PieceOf)
  <2>1. 1 \in DOMAIN wire /\ f \in Frame
    BY TailElements DEF PacketTypeOK
  <2>2. f.seq \in Int
    BY <2>1 DEF Frame
  <2> QED
    BY <2>1, <2>2, LinkKnown DEF PacketTypeOK
<1>2. IsData(f) /\ Formed(link, f)
  BY <1>1 DEF WireFormed, Ignores, IsData
<1>3. Foremost(wire, 1)
  BY <1>1, <1>2 DEF Foremost
<1>4. Reading
  BY DEF ReadInv
<1>5. in.want = 0 => in = NotReading
  <2> SUFFICES ASSUME Prefix(in.pieces[1].msg) PROVE in.want # 0
    BY <1>4 DEF Reading
  <2> QED
    BY <1>1, LenProperties, EmptySeq DEF Prefix, Covers
<1>6. CASE in.want = 0
  <2>1. CASE link \in {"ledger", "ble"}
    BY <1>1, <1>2, <1>5, <1>6, <2>1 DEF Refuses, Number
  <2>2. CASE link = "bitbox"
    BY <1>1, <1>2, <1>5, <1>6, <2>2 DEF Refuses, Number
  <2>3. CASE link = "coldcard"
    <3>1. ~failed /\ fault = "none"
      BY <2>3 DEF Sound
    <3>2. Asked \/ Answered
      BY <3>1 DEF QuietInv, Quiet
    <3>3. Answered
      BY <1>1, <1>2, <3>2 DEF Asked, NoData
    <3> QED
      BY <1>1, <1>2, <1>3, <1>5, <1>6, <3>3 DEF Answered
  <2> QED
    BY <1>1, <2>1, <2>2, <2>3 DEF LinkNames
<1>7. CASE in.want > 0
  <2>1. /\ in.have < in.pieces[1].msg.len
        /\ Expects(link, wire, fault, in.pieces[1].msg, in.want)
    BY <1>4, <1>7 DEF Reading
  <2>2. in # NotReading
    BY <1>7 DEF NotReading
  <2>3. Prefix(in.pieces[1].msg)
    BY <1>4, <2>2 DEF Reading
  <2>4. Number(link, f) = in.want
    <3>1. CASE fault = "none"
      BY <1>1, <1>3, <2>1, <3>1 DEF Expects
    <3>2. CASE link \in {"ledger", "ble"}
      BY <3>2 DEF Refuses, Number
    <3> QED
      BY <3>1, <3>2 DEF Sound
  <2>5. f.msg = in.pieces[1].msg
    BY <1>1, <1>3, <2>1, <2>4 DEF Expects
  <2> QED
    BY <1>2, <1>7, <2>1, <2>3, <2>4, <2>5
<1> QED
  BY <1>1, <1>6, <1>7

(* What has been read after it.                                          *)
LEMMA AcceptExtends ==
  ASSUME PacketTypeOK, WireFormed, ReadInv, QuietInv, Sound, Receive, ~Ignores(wire[1])
  PROVE  LET f == wire[1] IN
         /\ IsData(f) /\ wire # << >> /\ wire' = Tail(wire)
         /\ f.msg \in Message /\ Number(link, f) = in.want /\ in.want \in Nat
         /\ in.want > 0 => f.msg = in.pieces[1].msg
         /\ in'.want = in.want + 1 /\ in'.expected = f.msg.len /\ in'.have = f.to
         /\ f.to = Smaller(f.msg.len, Start(link, in.want + 1))
         /\ f.to \in Nat /\ f.msg.len \in Nat /\ f.to <= f.msg.len
         /\ in'.pieces \in Seq(PieceOf) /\ Len(in'.pieces) = in'.want
         /\ in'.pieces[1].msg = f.msg
         /\ Covers(in'.pieces, f.msg, f.to)
         /\ pc' = IF f.to = f.msg.len THEN "read" ELSE "receive"
<1> DEFINE f == wire[1]
           p == Piece(f, Taken(f))
<1>1. /\ pc = "receive" /\ wire # << >> /\ Head(wire) = f /\ f \in Frame /\ wire' = Tail(wire)
      /\ link \in LinkNames /\ in.want \in Nat /\ in.pieces \in Seq(PieceOf)
  BY TailElements, LinkKnown DEF Receive, PacketTypeOK
<1>2. ~Refuses(f) /\ in' = Accept(f) /\ pc' = IF Last(f) THEN "read" ELSE "receive"
  BY <1>1 DEF Receive, Take
<1> HIDE DEF f
<1>3. /\ IsData(f) /\ Formed(link, f) /\ Number(link, f) = in.want
      /\ in.want = 0 => in = NotReading
      /\ in.want > 0 => Prefix(f.msg) /\ in.have < f.msg.len
  BY <1>1, <1>2, AcceptedIsDue DEF f
<1>4. f.msg \in Message /\ f.from \in Nat
  BY <1>1 DEF Frame
<1>5. Start(link, in.want) \in Nat /\ Start(link, 0) = 0
  BY <1>1, StartFacts
<1>6. in.have = f.from
  <2>1. f.from = Start(link, in.want) /\ f.from <= f.msg.len
    BY <1>3 DEF Formed
  <2>2. CASE in.want = 0
    BY <1>3, <1>5, <2>1, <2>2 DEF NotReading
  <2>3. CASE in.want > 0
    <3>1. in.have = Smaller(f.msg.len, Start(link, in.want)) /\ in.have < f.msg.len
      BY <1>3, <2>3 DEF Prefix
    <3>2. f.msg.len \in Nat
      BY <1>4 DEF Message
    <3> QED
      BY <1>5, <2>1, <3>1, <3>2 DEF Smaller
  <2> QED
    BY <1>1, <2>2, <2>3
<1>7. in.want > 0 => in.expected = f.msg.len
  BY <1>3 DEF Prefix
<1>8. /\ in.have + Taken(f) = f.to /\ f.from + Taken(f) = f.to
      /\ f.to \in Nat /\ f.msg.len \in Nat /\ f.to <= f.msg.len
      /\ Last(f) <=> f.to = f.msg.len
      /\ f.total = f.msg.len
  BY <1>1, <1>3, <1>6, <1>7, TakenFormed
<1>9. p \in PieceOf /\ p.msg = f.msg /\ p.from = in.have /\ p.to = f.to
  BY <1>4, <1>6, <1>8 DEF Piece, PieceOf
<1>10. /\ in'.want = in.want + 1 /\ in'.have = f.to /\ in'.expected = f.msg.len
       /\ in'.pieces = Append(in.pieces, p)
  BY <1>1, <1>2, <1>7, <1>8 DEF Accept
<1> HIDE DEF p
<1>11. /\ in'.pieces \in Seq(PieceOf) /\ Len(in'.pieces) = in'.want
       /\ Covers(in'.pieces, f.msg, f.to)
  <2>1. CASE in.want = 0
    <3>1. in.pieces = << >> /\ in.have = 0
      BY <1>3, <2>1 DEF NotReading
    <3>2. in'.pieces = <<p>>
      BY <1>9, <1>10, <3>1
    <3> QED
      BY <1>9, <1>10, <2>1, <3>1, <3>2, CoversFirst
  <2>2. CASE in.want > 0
    <3>1. in.want = Len(in.pieces) /\ Covers(in.pieces, f.msg, in.have)
      BY <1>3, <2>2 DEF Prefix
    <3> QED
      BY <1>1, <1>9, <1>10, <3>1, CoversAppend
  <2> QED
    BY <1>1, <2>1, <2>2
<1>12. in'.pieces[1].msg = f.msg
  <2>1. 1 \in DOMAIN in'.pieces
    BY <1>11, LenProperties, EmptySeq DEF Covers
  <2> QED
    BY <1>11, <2>1 DEF Covers
<1>13. in.want > 0 => f.msg = in.pieces[1].msg
  <2> SUFFICES ASSUME in.want > 0 PROVE f.msg = in.pieces[1].msg
    OBVIOUS
  <2>1. 1 \in DOMAIN in.pieces
    BY <1>1, <1>3, LenProperties, EmptySeq DEF Prefix, Covers
  <2> QED
    BY <1>3, <2>1 DEF Prefix, Covers
<1>14. f.to = Smaller(f.msg.len, Start(link, in.want + 1))
  BY <1>3 DEF Formed
<1> QED
  BY <1>1, <1>2, <1>3, <1>4, <1>8, <1>10, <1>11, <1>12, <1>13, <1>14 DEF f

(* Whatever else happens leaves what is due where it is.                 *)
LEMMA ExpectsStep ==
  ASSUME PacketTypeOK, SendInv, WireFormed, Chained, Next, Sound, Sound',
         in' = in, pc' = "receive", NEW m, NEW n \in Nat \ {0},
         Expects(link, wire, fault, m, n)
  PROVE  Expects(link, wire', fault', m, n)
<1>1. link \in LinkNames /\ wire \in Seq(Frame) /\ link' = link
  BY LinkKnown, HistoryStep DEF PacketTypeOK
<1>2. CASE wire' = wire /\ fault' = fault
  BY <1>2
<1>3. CASE /\ wire # << >> /\ wire' = Tail(wire)
           /\ fault' = "short" \/ (fault' = fault /\ (Receive \/ pc' # "receive"))
  <2>1. fault' # "short"
    <3>1. fault' = "short" => link \in {"ledger", "ble"}
      <4>1. fault' = "short" => fault' # "none"
        OBVIOUS
      <4> QED
        BY <1>1, <4>1 DEF Sound
    <3> QED
      BY <1>1 DEF Sound
  <2>2. Receive /\ fault' = fault
    BY <1>3, <2>1
  <2>3. ~IsData(wire[1])
    <3>1. Head(wire) = wire[1] /\ in.want \in Nat
      BY <1>1, <1>3, TailElements DEF PacketTypeOK
    <3>2. SUFFICES ASSUME IsData(wire[1]) PROVE FALSE
      OBVIOUS
    <3>3. in' = Accept(wire[1])
      BY <2>2, <3>1, <3>2 DEF Receive, Take, Ignores, IsData
    <3>4. in'.want = in.want + 1
      BY <3>3 DEF Accept
    <3> QED
      BY <3>1, <3>4
  <2> QED
    BY <1>1, <1>3, <2>2, <2>3, ExpectsKept
<1>4. CASE /\ fault' = fault
           /\ \E q \in Message, s \in Seq(Frame) : Answer(link, s, q) /\ wire' = wire \o s
  BY <1>1, <1>4, ExpectsKept
<1>5. CASE /\ fault' = fault /\ link = "ble"
           /\ \E g \in Frame : ~IsData(g) /\ wire' = Append(wire, g)
  BY <1>1, <1>5, ExpectsKept
<1>6. CASE /\ fault = "none" /\ fault' = "lost"
           /\ \E k \in 1 .. Len(wire) : wire' = Without(wire, k)
  <2>1. Strong(link, wire)
    BY <1>6 DEF Chained
  <2> QED
    BY <1>1, <1>6, <2>1, ExpectsLost
<1> QED
  BY <1>2, <1>3, <1>4, <1>5, <1>6, WireStep

(* What a step does to what has been read.                               *)
LEMMA InStep ==
  ASSUME PacketTypeOK, ReadInv, Next
  PROVE  \/ in' = NotReading /\ pc' # "read"
         \/ Receive /\ pc = "receive" /\ wire # << >> /\ ~Ignores(wire[1])
         \/ fault' = "short" /\ link = "ledger" /\ pc' \in {"receive", "read"}
         \/ in' = in /\ pc' = pc /\ pc \in {"receive", "read"}
<1> USE DEF hostVars, deviceVars
<1>1. pc \notin {"receive", "read"} => in = NotReading
  BY DEF ReadInv
<1>2. CASE Receive
  <2>1. pc = "receive" /\ wire # << >> /\ Head(wire) = wire[1]
    BY <1>2, TailElements DEF Receive, PacketTypeOK
  <2>2. Ignores(wire[1]) => in' = in /\ pc' = pc
    BY <1>2, <2>1 DEF Receive, Take
  <2> QED
    BY <1>2, <2>1, <2>2
<1>3. CASE ReceiveShort
  <2>1. pc = "receive" /\ pc' \in {"receive", "read"} /\ fault' = "short" /\ link = "ledger"
    BY <1>3 DEF ReceiveShort, Take
  <2> QED
    BY <2>1
<1>4. CASE \/ \E n \in RequestSizes[link] : Invoke(n)
           \/ NoMtu \/ Refuse \/ SendFails \/ ReceiveRefused \/ ReceiveFails
           \/ Polls \/ Rejected \/ Return
  BY <1>4 DEF Invoke, Sending, NoMtu, Refuse, SendFails, ReceiveRefused, ReceiveFails, Polls,
     Rejected, Return, Throw, Leave
<1>5. CASE Probe \/ InferMtu \/ Send
  BY <1>1, <1>5 DEF Probe, InferMtu, Send
<1>6. CASE Cancel \/ DeviceActs \/ DeviceChatters \/ ChannelLoses
  <2>1. in' = in /\ pc' = pc
    BY <1>6 DEF Cancel, DeviceActs, DeviceStalls, DeviceAnswers, DeviceTellsMtu,
       DeviceChatters, ChannelLoses
  <2> QED
    BY <1>1, <2>1
<1> QED
  BY <1>2, <1>3, <1>4, <1>5, <1>6 DEF Next, Proceeds

(* A step keeps what was read a prefix of one message.                   *)
LEMMA ReadStep ==
  ASSUME PacketTypeOK, SendInv, WireFormed, Chained, ReadInv, QuietInv, Next
  PROVE  ReadInv'
<1>1. /\ link' = link
      /\ fault' = fault \/ fault = "none"
      /\ failed \in BOOLEAN /\ failed' \in BOOLEAN /\ (failed => failed')
      /\ link \in LinkNames /\ wire \in Seq(Frame) /\ in.want \in Nat
  <2>1. failed \in BOOLEAN /\ failed' \in BOOLEAN
    BY TypeStep DEF PacketTypeOK
  <2> QED
    BY <2>1, HistoryStep, LinkKnown DEF PacketTypeOK
<1>2. Sound' => Sound
  BY <1>1 DEF Sound
<1>3. pc' \notin {"receive", "read"} => in' = NotReading
  <2>1. CASE Receive /\ pc = "receive" /\ wire # << >> /\ ~Ignores(wire[1])
    BY <2>1 DEF Receive, Take
  <2> QED
    BY <2>1, InStep
<1>4. ASSUME Sound'
      PROVE  Reading'
  <2>1. Sound /\ Reading
    BY <1>2, <1>4 DEF ReadInv
  <2>2. CASE in' = NotReading /\ pc' # "read"
    BY <2>2 DEF Reading, NotReading
  <2>3. CASE Receive /\ pc = "receive" /\ wire # << >> /\ ~Ignores(wire[1])
    <3>1. PICK f : f = wire[1]
      OBVIOUS
    <3>2. /\ IsData(f) /\ wire' = Tail(wire)
          /\ f.msg \in Message /\ Number(link, f) = in.want
          /\ in'.want = in.want + 1 /\ in'.expected = f.msg.len /\ in'.have = f.to
          /\ f.to = Smaller(f.msg.len, Start(link, in.want + 1))
          /\ f.to \in Nat /\ f.msg.len \in Nat /\ f.to <= f.msg.len
          /\ Len(in'.pieces) = in'.want
          /\ in'.pieces[1].msg = f.msg
          /\ Covers(in'.pieces, f.msg, f.to)
          /\ pc' = IF f.to = f.msg.len THEN "read" ELSE "receive"
      BY <2>1, <2>3, <3>1, AcceptExtends
    <3>3. Prefix(in.pieces[1].msg)'
      BY <1>1, <3>2 DEF Prefix
    <3>4. pc' = "read" => in'.want > 0 /\ in'.have = in'.pieces[1].msg.len
      BY <1>1, <3>2
    <3>5. ASSUME pc' = "receive"
          PROVE  /\ in'.have < in'.pieces[1].msg.len
                 /\ Expects(link, wire', fault', in'.pieces[1].msg, in'.want)
      <4>1. f.to < f.msg.len
        BY <3>2, <3>5
      <4>2. fault' = fault
        BY <2>3 DEF Receive
      <4>3. fault = "none" => Strong(link, wire)
        BY DEF Chained
      <4>4. fault # "none" => Linked(link, wire)
        BY <2>1 DEF Chained, Sound, PacketTypeOK
      <4>5. Expects(link, Tail(wire), fault, f.msg, in.want + 1)
        BY <1>1, <2>3, <3>1, <3>2, <4>1, <4>3, <4>4, ExpectsNext
      <4> QED
        BY <3>2, <4>1, <4>2, <4>5
    <3> QED
      BY <1>1, <3>3, <3>4, <3>5 DEF Reading
  <2>4. CASE fault' = "short" /\ link = "ledger"
    BY <1>1, <1>4, <2>4 DEF Sound
  <2>5. CASE in' = in /\ pc' = pc /\ pc \in {"receive", "read"}
    <3>1. in' = NotReading \/ Prefix(in.pieces[1].msg)'
      BY <1>1, <2>1, <2>5 DEF Reading, Prefix
    <3>2. pc' = "receive" /\ in.want > 0 => Expects(link, wire', fault', in.pieces[1].msg, in.want)
      <4> SUFFICES ASSUME pc' = "receive", in.want > 0
                   PROVE  Expects(link, wire', fault', in.pieces[1].msg, in.want)
        OBVIOUS
      <4>1. Expects(link, wire, fault, in.pieces[1].msg, in.want) /\ in.want \in Nat \ {0}
        BY <1>1, <2>1, <2>5 DEF Reading
      <4> QED
        BY <1>4, <2>1, <2>5, <4>1, ExpectsStep
    <3> QED
      BY <1>1, <2>1, <2>5, <3>1, <3>2 DEF Reading
  <2> QED
    BY <2>2, <2>3, <2>4, <2>5, InStep
<1> QED
  BY <1>3, <1>4 DEF ReadInv
-----------------------------------------------------------------------------
(* Who owes what, while nothing went wrong.                              *)
LEMMA NoDataKept ==
  ASSUME PacketTypeOK, NoData,
         \/ wire' = wire
         \/ wire # << >> /\ wire' = Tail(wire)
         \/ \E g \in Frame : ~IsData(g) /\ wire' = Append(wire, g)
  PROVE  NoData'
<1>1. wire \in Seq(Frame)
  BY DEF PacketTypeOK
<1>2. CASE wire' = wire
  BY <1>2 DEF NoData
<1>3. CASE wire # << >> /\ wire' = Tail(wire)
  <2>1. /\ DOMAIN wire = 1 .. Len(wire) /\ DOMAIN Tail(wire) = 1 .. Len(wire) - 1
        /\ \A k \in 1 .. Len(wire) - 1 : Tail(wire)[k] = wire[k + 1] /\ k + 1 \in 1 .. Len(wire)
    BY <1>1, <1>3, TailElements
  <2> QED
    BY <1>3, <2>1 DEF NoData
<1>4. ASSUME NEW g \in Frame, ~IsData(g), wire' = Append(wire, g)
      PROVE  NoData'
  <2>1. \A j \in DOMAIN Append(wire, g) : IsData(Append(wire, g)[j]) =>
          j \in DOMAIN wire /\ Append(wire, g)[j] = wire[j]
    BY <1>1, <1>4, NeighboursAppend
  <2> QED
    BY <1>4, <2>1 DEF NoData
<1> QED
  BY <1>2, <1>3, <1>4

(* An answer stays on its way while the wire only moves notifications,   *)
LEMMA AnsweredKept ==
  ASSUME PacketTypeOK, Answered, link' = link, in' = in, inbox' = inbox, issued' = issued,
         working' = working,
         \/ wire' = wire
         \/ wire # << >> /\ ~IsData(wire[1]) /\ wire' = Tail(wire)
         \/ \E g \in Frame : ~IsData(g) /\ wire' = Append(wire, g)
  PROVE  Answered'
<1>1. wire \in Seq(Frame) /\ DOMAIN wire = 1 .. Len(wire) /\ Len(wire) \in Nat
  BY HeadTyped
<1> DEFINE Settled(m) == m.req = issued /\ working = IF m.kind = "notready" THEN issued ELSE 0
<1>2. \A m : Settles(m)' <=> Settled(m)
  BY DEF Settles
<1>3. /\ inbox' = << >>
      /\ in'.want > 0 => Settled(in'.pieces[1].msg)
  BY DEF Answered, Settles
<1>4. \A k \in DOMAIN wire : IsData(wire[k]) => Settled(wire[k].msg)
  BY DEF Answered, Settles
<1> HIDE DEF Settled
<1>5. CASE wire' = wire
  BY <1>2, <1>3, <1>4, <1>5 DEF Answered
<1>6. CASE wire # << >> /\ ~IsData(wire[1]) /\ wire' = Tail(wire)
  <2> DEFINE t == Tail(wire)
  <2>1. /\ DOMAIN t = 1 .. Len(wire) - 1
        /\ \A k \in 1 .. Len(wire) - 1 : t[k] = wire[k + 1] /\ k + 1 \in 1 .. Len(wire)
    BY <1>1, <1>6, TailElements
  <2>2. \A j \in DOMAIN t : Foremost(t, j) => t[j] = wire[j + 1] /\ Foremost(wire, j + 1)
    BY <1>1, <1>6, NeighboursTail
  <2> HIDE DEF t
  <2>3. \E k \in DOMAIN t : IsData(t[k])
    <3>1. PICK i \in DOMAIN wire : IsData(wire[i])
      BY DEF Answered
    <3>2. i - 1 \in 1 .. Len(wire) - 1 /\ (i - 1) + 1 = i
      <4>1. i # 1 /\ i \in 1 .. Len(wire)
        BY <1>1, <1>6, <3>1
      <4> QED
        BY <1>1, <4>1
    <3>3. IsData(t[i - 1]) /\ i - 1 \in DOMAIN t
      BY <2>1, <3>1, <3>2
    <3> QED
      BY <3>3
  <2>4. \A k \in DOMAIN t : IsData(t[k]) => Settled(t[k].msg)
    BY <1>1, <1>4, <2>1
  <2>5. \A k \in DOMAIN t : Foremost(t, k) => Number(link, t[k]) = in.want
    BY <1>1, <2>1, <2>2 DEF Answered
  <2>6. \A i, j \in DOMAIN t : i < j /\ IsData(t[i]) /\ IsData(t[j]) => ~Ends(t[i])
    <3> SUFFICES ASSUME NEW i \in DOMAIN t, NEW j \in DOMAIN t,
                        i < j, IsData(t[i]), IsData(t[j])
                 PROVE  ~Ends(t[i])
      OBVIOUS
    <3>1. i + 1 \in DOMAIN wire /\ j + 1 \in DOMAIN wire /\ i + 1 < j + 1
      BY <1>1, <2>1
    <3> QED
      BY <2>1, <3>1 DEF Answered
  <2>7. wire' = t
    BY <1>6 DEF t
  <2> QED
    BY <1>2, <1>3, <2>3, <2>4, <2>5, <2>6, <2>7 DEF Answered
<1>7. ASSUME NEW g \in Frame, ~IsData(g), wire' = Append(wire, g)
      PROVE  Answered'
  <2> DEFINE v == Append(wire, g)
  <2>1. /\ \A j \in DOMAIN v : Foremost(v, j) => Foremost(wire, j) /\ v[j] = wire[j]
        /\ \A j \in DOMAIN v : IsData(v[j]) => j \in DOMAIN wire /\ v[j] = wire[j]
    BY <1>1, <1>7, NeighboursAppend
  <2>2. DOMAIN wire \subseteq DOMAIN v /\ \A k \in DOMAIN wire : v[k] = wire[k]
    BY <1>1, AppendElements
  <2> HIDE DEF v
  <2>3. \E k \in DOMAIN v : IsData(v[k])
    BY <2>2 DEF Answered
  <2>4. \A k \in DOMAIN v : IsData(v[k]) => Settled(v[k].msg)
    BY <1>4, <2>1
  <2>5. \A k \in DOMAIN v : Foremost(v, k) => Number(link, v[k]) = in.want
    BY <2>1 DEF Answered, Foremost
  <2>6. \A i, j \in DOMAIN v : i < j /\ IsData(v[i]) /\ IsData(v[j]) => ~Ends(v[i])
    BY <2>1 DEF Answered
  <2>7. wire' = v
    BY <1>7 DEF v
  <2> QED
    BY <1>2, <1>3, <2>3, <2>4, <2>5, <2>6, <2>7 DEF Answered
<1> QED
  BY <1>5, <1>6, <1>7

(* and is on its way once the device has given it.                       *)
LEMMA AnsweredNow ==
  ASSUME PacketTypeOK, Asked, link' = link, in' = in, issued' = issued, inbox' = Tail(inbox),
         NEW m \in Message, NEW s \in Seq(Frame), Answer(link, s, m), wire' = wire \o s,
         m.req = issued, working' = IF m.kind = "notready" THEN issued ELSE 0
  PROVE  Answered'
<1> DEFINE v == wire \o s
<1>1. link \in LinkNames /\ wire \in Seq(Frame)
  BY LinkKnown DEF PacketTypeOK
<1>2. /\ DOMAIN wire = 1 .. Len(wire) /\ DOMAIN v = 1 .. Len(wire) + Len(s)
      /\ Len(wire) \in Nat /\ Len(s) \in Nat \ {0}
      /\ \A k \in 1 .. Len(wire) : v[k] = wire[k] /\ ~IsData(v[k])
      /\ \A k \in 1 .. Len(s) : v[Len(wire) + k] = s[k]
  BY <1>1, ConcatElements DEF Asked, NoData, Answer
<1>3. \A k \in 1 .. Len(s) :
        IsData(s[k]) /\ s[k].msg = m /\ Number(link, s[k]) = k - 1 /\ (Ends(s[k]) <=> k = Len(s))
  BY DEF Answer
<1>4. \A j \in DOMAIN v : Foremost(v, j) => v[j] = s[1]
  <2>1. \A j \in DOMAIN v : Foremost(v, j) =>
          \/ Foremost(wire, j) /\ v[j] = wire[j]
          \/ (\A k \in DOMAIN wire : ~IsData(wire[k])) /\ v[j] = s[1]
    BY <1>1, NeighboursConcat
  <2> QED
    BY <2>1 DEF Asked, NoData, Foremost
<1> HIDE DEF v
<1>5. ASSUME NEW k \in DOMAIN v, IsData(v[k])
      PROVE  /\ k - Len(wire) \in 1 .. Len(s) /\ v[k] = s[k - Len(wire)]
             /\ v[k].msg = m /\ (Ends(v[k]) <=> k = Len(wire) + Len(s))
  <2>1. k - Len(wire) \in 1 .. Len(s) /\ Len(wire) + (k - Len(wire)) = k
    BY <1>2, <1>5
  <2>2. v[k] = s[k - Len(wire)]
    BY <1>2, <2>1
  <2>3. k - Len(wire) = Len(s) <=> k = Len(wire) + Len(s)
    <3>1. k \in Nat /\ Len(wire) \in Nat /\ Len(s) \in Nat
      BY <1>2
    <3>2. PICK a \in Nat, b \in Nat, c \in Nat : a = k /\ b = Len(wire) /\ c = Len(s)
      BY <3>1
    <3>3. a - b = c <=> a = b + c
      OBVIOUS
    <3> QED
      BY <3>2, <3>3
  <2> QED
    BY <1>3, <2>1, <2>2, <2>3
<1>6. inbox' = << >>
  <2>1. PICK q \in Message : inbox = <<q>>
    BY DEF Asked
  <2> QED
    BY <2>1
<1>7. \E k \in DOMAIN v : IsData(v[k])
  <2>1. Len(wire) + 1 \in DOMAIN v /\ v[Len(wire) + 1] = s[1] /\ 1 \in 1 .. Len(s)
    BY <1>2
  <2> QED
    BY <1>3, <2>1
<1>8. \A k \in DOMAIN v : IsData(v[k]) => v[k].msg = m
  BY <1>5
<1>9. in' = NotReading /\ in'.want = 0
  BY DEF Asked, NotReading
<1>10. \A k \in DOMAIN v : Foremost(v, k) => Number(link, v[k]) = 0
  BY <1>2, <1>3, <1>4
<1>11. \A i, j \in DOMAIN v : i < j /\ IsData(v[i]) /\ IsData(v[j]) => ~Ends(v[i])
  <2> SUFFICES ASSUME NEW i \in DOMAIN v, NEW j \in DOMAIN v, i < j, IsData(v[i])
               PROVE  ~Ends(v[i])
    OBVIOUS
  <2>1. i # Len(wire) + Len(s)
    BY <1>2
  <2> QED
    BY <1>5, <2>1
<1>12. wire' = v
  BY DEF v
<1> QED
  BY <1>6, <1>7, <1>8, <1>9, <1>10, <1>11, <1>12 DEF Answered, Settles

(* A step keeps account of who owes what, while nothing went wrong.      *)
LEMMA QuietStep ==
  ASSUME PacketTypeOK, SendInv, WireFormed, Chained, ReadInv, QuietInv, Next
  PROVE  QuietInv'
<1> USE DEF hostVars, deviceVars
<1> SUFFICES ASSUME ~failed', fault' = "none"
             PROVE  Quiet'
  BY DEF QuietInv
<1>1. link' = link /\ fault = "none" /\ ~failed
  <2>1. failed \in BOOLEAN /\ failed' \in BOOLEAN
    BY TypeStep DEF PacketTypeOK
  <2>2. link' = link /\ (failed' = failed \/ failed' = TRUE) /\ (fault' = fault \/ fault = "none")
    BY HistoryStep
  <2> QED
    BY <2>1, <2>2
<1>2. Quiet
  BY <1>1 DEF QuietInv
<1>3. /\ link \in LinkNames /\ wire \in Seq(Frame) /\ inbox \in Seq(Message)
      /\ issued \in Nat /\ working \in Nat /\ in.want \in Nat /\ frameSize \in Nat
      /\ out.msg \in Message
  BY LinkKnown DEF PacketTypeOK
<1>4. Sound
  BY <1>1, <1>3 DEF Sound, LinkNames
<1>5. ASSUME NEW n \in RequestSizes[link], Invoke(n)
      PROVE  Quiet'
  <2>1. /\ pc = "idle" /\ issued' = issued + 1 /\ in' = NotReading
        /\ out' = [msg |-> [req |-> issued + 1, kind |-> "new", len |-> Framed(link, n)],
                   seq |-> 0, offset |-> 0]
        /\ pc' = IF link = "ble" /\ frameSize = 0 THEN "probe" ELSE "send"
        /\ UNCHANGED <<frameSize, wire, inbox, working>>
    BY <1>5 DEF Invoke, Sending
  <2>2. out'.msg.req = issued' /\ out'.msg.kind = "new" /\ issued' > 0
    BY <1>3, <2>1
  <2>3. /\ inbox = << >> /\ NoData /\ working = 0
        /\ link = "ble" /\ frameSize = 0 => \A k \in DOMAIN wire : wire[k].tag = "other"
    BY <1>2, <2>1 DEF Quiet
  <2>4. NoData'
    BY <2>1, <2>3 DEF NoData
  <2>5. pc' \in {"probe", "send"} /\ (pc' = "probe" => frameSize' = 0)
    BY <2>1
  <2> QED
    BY <1>1, <2>1, <2>2, <2>3, <2>4, <2>5 DEF Quiet
<1>6. CASE Cancel
  <2>1. UNCHANGED <<pc, out, in, frameSize, issued, wire, inbox, working>>
    BY <1>6 DEF Cancel
  <2> QED
    BY <1>1, <1>2, <2>1 DEF Quiet, Asked, Answered, NoData, Settles
<1>7. CASE Probe
  <2>1. /\ pc = "probe" /\ pc' = "infer" /\ inbox' = Append(inbox, MtuProbe)
        /\ UNCHANGED <<out, frameSize, issued, wire, working>>
    BY <1>7 DEF Probe
  <2>2. /\ inbox = << >> /\ NoData /\ working = 0 /\ issued > 0 /\ frameSize = 0 /\ link = "ble"
        /\ \A k \in DOMAIN wire : wire[k].tag = "other"
        /\ out.msg.kind = "new" /\ out.msg.req = issued
    BY <1>2, <2>1 DEF Quiet, SendInv
  <2>3. inbox' = <<MtuProbe>> /\ MtuProbe \in Message /\ MtuProbe.kind = "probe"
    BY <2>1, <2>2, NoneTyped DEF MtuProbe
  <2>4. NoData'
    BY <2>1, <2>2 DEF NoData
  <2> QED
    BY <1>1, <2>1, <2>2, <2>3, <2>4 DEF Quiet
<1>8. CASE InferMtu
  <2>1. /\ pc = "infer" /\ wire # << >> /\ wire' = Tail(wire)
        /\ UNCHANGED <<out, in, issued, inbox, working>>
        /\ IF Head(wire).tag = "mtu" THEN pc' = "send"
           ELSE frameSize' = frameSize /\ pc' = pc
    BY <1>8 DEF InferMtu
  <2>2. /\ NoData /\ working = 0 /\ issued > 0 /\ frameSize = 0
        /\ out.msg.kind = "new" /\ out.msg.req = issued
        /\ \/ /\ \E m \in Message : inbox = <<m>> /\ m.kind = "probe"
              /\ \A k \in DOMAIN wire : wire[k].tag = "other"
           \/ inbox = << >>
    BY <1>2, <2>1 DEF Quiet
  <2>3. NoData'
    BY <2>1, <2>2, NoDataKept
  <2>4. /\ Head(wire) = wire[1] /\ 1 \in DOMAIN wire
        /\ DOMAIN wire' = 1 .. Len(wire) - 1 /\ DOMAIN wire = 1 .. Len(wire)
        /\ \A k \in 1 .. Len(wire) - 1 : wire'[k] = wire[k + 1] /\ k + 1 \in 1 .. Len(wire)
    BY <1>3, <2>1, TailElements
  <2>5. CASE Head(wire).tag = "mtu"
    <3>1. inbox = << >> /\ pc' = "send"
      BY <2>1, <2>2, <2>4, <2>5
    <3> QED
      BY <1>1, <2>1, <2>2, <2>3, <3>1 DEF Quiet
  <2>6. CASE Head(wire).tag # "mtu"
    <3>1. (\A k \in DOMAIN wire : wire[k].tag = "other") => \A k \in DOMAIN wire' : wire'[k].tag = "other"
      BY <2>4
    <3>2. pc' = "infer" /\ frameSize' = 0
      BY <2>1, <2>2, <2>6
    <3>3. \/ /\ \E m \in Message : inbox' = <<m>> /\ m.kind = "probe"
             /\ \A k \in DOMAIN wire' : wire'[k].tag = "other"
          \/ inbox' = << >>
      BY <2>1, <2>2, <3>1
    <3> QED
      BY <1>1, <2>1, <2>2, <2>3, <3>2, <3>3 DEF Quiet
  <2> QED
    BY <2>5, <2>6
<1>9. CASE Refuse
  <2>1. /\ pc = "send" /\ TooLong(link, out.msg.len) /\ pc' = "idle"
        /\ UNCHANGED <<frameSize, issued, wire, inbox, working>>
    BY <1>9 DEF Refuse, Leave
  <2>2. inbox = << >> /\ NoData /\ working = 0
    BY <1>2, <2>1 DEF Quiet
  <2>3. link = "ble" => frameSize >= 20
    BY <2>1 DEF SendInv, Sent
  <2>4. link = "ble" => frameSize # 0
    BY <1>3, <2>3
  <2>5. NoData'
    BY <2>1, <2>2 DEF NoData
  <2> QED
    BY <1>1, <2>1, <2>2, <2>4, <2>5 DEF Quiet
<1>10. CASE Send
  <2>1. /\ pc = "send" /\ DeviceHears(NextFrame) /\ ~TooLong(link, out.msg.len)
        /\ out' = [out EXCEPT !.seq = @ + 1, !.offset = NextFrame.to]
        /\ pc' = IF NextFrame.to < out.msg.len THEN "send" ELSE "receive"
        /\ UNCHANGED <<in, frameSize, issued, wire, working>>
    BY <1>10 DEF Send
  <2>2. out'.msg = out.msg
    BY <2>1 DEF PacketTypeOK
  <2>3. /\ inbox = << >> /\ NoData /\ issued > 0 /\ out.msg.req = issued
        /\ working = IF out.msg.kind = "retry" THEN issued ELSE 0
        /\ working # 0 => link = "bitbox"
        /\ in = NotReading /\ out.msg.kind \in {"new", "retry"}
    BY <1>2, <2>1 DEF Quiet, ReadInv, SendInv
  <2>4. link = "ble" => frameSize # 0
    <3>1. link = "ble" => frameSize >= 20
      BY <2>1 DEF SendInv, Sent
    <3> QED
      BY <1>3, <3>1
  <2>5. NoData'
    BY <2>1, <2>3 DEF NoData
  <2>6. CASE NextFrame.to < out.msg.len
    <3>1. inbox' = << >> /\ pc' = "send"
      BY <1>1, <2>1, <2>3, <2>6, HeardFacts
    <3> QED
      BY <1>1, <2>1, <2>2, <2>3, <2>5, <3>1 DEF Quiet
  <2>7. CASE ~(NextFrame.to < out.msg.len)
    <3>1. inbox' = Append(inbox, out.msg) /\ pc' = "receive"
      BY <1>1, <2>1, <2>7, HeardFacts
    <3>2. inbox' = <<out.msg>>
      BY <2>3, <3>1
    <3>3. Asked'
      BY <1>3, <2>1, <2>3, <2>5, <3>2 DEF Asked
    <3> QED
      BY <1>1, <2>1, <2>3, <2>4, <3>1, <3>3 DEF Quiet
  <2> QED
    BY <2>6, <2>7
<1>11. CASE Receive
  <2>1. /\ pc = "receive" /\ wire # << >> /\ wire' = Tail(wire) /\ Head(wire) = wire[1]
        /\ 1 \in DOMAIN wire /\ DOMAIN wire = 1 .. Len(wire) /\ Len(wire) \in Nat
        /\ UNCHANGED <<out, frameSize, issued, inbox, working>>
    BY <1>3, <1>11, TailElements DEF Receive
  <2>2. /\ issued > 0 /\ (link # "ble" \/ frameSize # 0) /\ (Asked \/ Answered)
        /\ working # 0 => link = "bitbox" /\ working = issued
    BY <1>2, <2>1 DEF Quiet
  <2>3. CASE Ignores(wire[1])
    <3>1. ~IsData(wire[1]) /\ in' = in /\ pc' = "receive"
      BY <1>11, <2>1, <2>3 DEF Receive, Take, Ignores, IsData
    <3>2. Asked => Asked'
      <4> SUFFICES ASSUME Asked PROVE Asked'
        OBVIOUS
      <4>1. NoData'
        BY <2>1, NoDataKept DEF Asked
      <4> QED
        BY <2>1, <3>1, <4>1 DEF Asked
    <3>3. Answered => Answered'
      BY <1>1, <2>1, <3>1, AnsweredKept
    <3> QED
      BY <1>1, <2>1, <2>2, <3>1, <3>2, <3>3 DEF Quiet
  <2>4. CASE ~Ignores(wire[1])
    <3>1. PICK f : f = wire[1]
      OBVIOUS
    <3>2. /\ IsData(f) /\ f.msg \in Message
          /\ in.want > 0 => f.msg = in.pieces[1].msg
          /\ in'.want = in.want + 1 /\ in'.have = f.to
          /\ f.to \in Nat /\ f.msg.len \in Nat /\ f.to <= f.msg.len
          /\ in'.pieces[1].msg = f.msg
          /\ pc' = IF f.to = f.msg.len THEN "read" ELSE "receive"
      BY <1>4, <1>11, <2>4, <3>1, AcceptExtends
    <3>3. Answered
      BY <2>1, <2>2, <3>1, <3>2 DEF Asked, NoData
    <3>4. inbox = << >> /\ Settles(f.msg)
      BY <2>1, <3>1, <3>2, <3>3 DEF Answered
    <3>5. Settles(in.pieces[1].msg)'
      BY <2>1, <3>2, <3>4 DEF Settles
    <3>6. /\ DOMAIN wire' = 1 .. Len(wire) - 1
          /\ \A k \in 1 .. Len(wire) - 1 : wire'[k] = wire[k + 1] /\ k + 1 \in 1 .. Len(wire)
      BY <1>3, <2>1, TailElements
    <3>7. CASE f.to = f.msg.len
      <4>1. ASSUME NEW k \in DOMAIN wire', IsData(wire'[k])
            PROVE  FALSE
        <5>1. k + 1 \in DOMAIN wire /\ 1 < k + 1 /\ IsData(wire[k + 1])
          BY <2>1, <3>6, <4>1
        <5>2. ~Ends(wire[1])
          BY <2>1, <3>1, <3>2, <3>3, <5>1 DEF Answered
        <5> QED
          BY <3>1, <3>7, <5>2 DEF Ends
      <4>2. NoData'
        BY <4>1 DEF NoData
      <4>3. pc' = "read"
        BY <3>2, <3>7
      <4> QED
        BY <1>1, <2>1, <2>2, <3>4, <3>5, <4>2, <4>3 DEF Quiet
    <3>8. CASE f.to # f.msg.len
      <4>1. pc' = "receive" /\ in'.want > 0
        BY <1>3, <3>2, <3>8
      <4>2. Expects(link', wire', fault', in'.pieces[1].msg, in'.want)
        <5>1. Reading'
          <6>1. ReadInv' /\ Sound'
            <7>1. Sound'
              BY <1>1, <1>3 DEF Sound, LinkNames
            <7> QED
              BY <7>1, ReadStep
          <6> QED
            BY <6>1 DEF ReadInv
        <5> QED
          BY <4>1, <5>1 DEF Reading
      <4>3. \E k \in DOMAIN wire' : IsData(wire'[k])
        BY <4>2 DEF Expects
      <4>4. \A k \in DOMAIN wire' : Foremost(wire', k) => Number(link, wire'[k]) = in'.want
        BY <1>1, <4>2 DEF Expects
      <4>5. \A k \in DOMAIN wire' : IsData(wire'[k]) => Settles(wire'[k].msg)
        BY <2>1, <3>3, <3>6 DEF Answered
      <4>6. \A i, j \in DOMAIN wire' :
              i < j /\ IsData(wire'[i]) /\ IsData(wire'[j]) => ~Ends(wire'[i])
        <5> SUFFICES ASSUME NEW i \in DOMAIN wire', NEW j \in DOMAIN wire',
                            i < j, IsData(wire'[i]), IsData(wire'[j])
                     PROVE  ~Ends(wire'[i])
          OBVIOUS
        <5>1. i + 1 \in DOMAIN wire /\ j + 1 \in DOMAIN wire /\ i + 1 < j + 1
          BY <2>1, <3>6
        <5> QED
          BY <3>3, <3>6, <5>1 DEF Answered
      <4>7. Answered'
        BY <1>1, <2>1, <3>4, <3>5, <4>3, <4>4, <4>5, <4>6 DEF Answered, Settles
      <4> QED
        BY <1>1, <2>1, <2>2, <4>1, <4>7 DEF Quiet
    <3> QED
      BY <3>7, <3>8
  <2> QED
    BY <2>3, <2>4
<1>12. CASE Polls
  <2>1. /\ pc = "read" /\ pc' = "send" /\ Status = "notready"
        /\ out' = [msg |-> [req |-> issued, kind |-> "retry", len |-> 1], seq |-> 0, offset |-> 0]
        /\ UNCHANGED <<frameSize, issued, wire, inbox, working>>
    BY <1>12 DEF Polls, Sending
  <2>2. link = "bitbox" /\ in.pieces[1].msg.kind = "notready"
    BY <2>1 DEF Status
  <2>3. inbox = << >> /\ NoData /\ issued > 0 /\ working = issued
    BY <1>2, <2>1, <2>2 DEF Quiet, Settles
  <2>4. out'.msg.req = issued /\ out'.msg.kind = "retry" /\ out'.msg.len = 1
    BY <2>1
  <2>5. ~TooLong(link, out'.msg.len)
    BY <2>2, <2>4 DEF TooLong
  <2>6. NoData'
    BY <2>1, <2>3 DEF NoData
  <2> QED
    BY <1>1, <2>1, <2>2, <2>3, <2>4, <2>5, <2>6 DEF Quiet
<1>13. CASE Return
  <2>1. /\ pc = "read" /\ pc' = "idle" /\ Status = "ack"
        /\ UNCHANGED <<frameSize, issued, wire, inbox, working>>
    BY <1>13 DEF Return, Leave
  <2>2. /\ inbox = << >> /\ NoData /\ Settles(in.pieces[1].msg)
        /\ link # "ble" \/ frameSize # 0
        /\ working # 0 => link = "bitbox"
    BY <1>2, <2>1 DEF Quiet
  <2>3. link = "bitbox" => in.pieces[1].msg.kind = "ack"
    BY <2>1 DEF Status
  <2>4. working = 0
    BY <2>2, <2>3 DEF Settles
  <2>5. NoData'
    BY <2>1, <2>2 DEF NoData
  <2> QED
    BY <1>1, <2>1, <2>2, <2>4, <2>5 DEF Quiet
<1>14. ASSUME inbox # << >>, Head(inbox).kind # "probe"
       PROVE  /\ pc = "receive" /\ Asked
              /\ Head(inbox).req = issued /\ Head(inbox).kind \in {"new", "retry"}
              /\ working = IF Head(inbox).kind = "retry" THEN issued ELSE 0
              /\ issued > 0 /\ (link # "ble" \/ frameSize # 0)
              /\ working # 0 => link = "bitbox" /\ working = issued
  <2>1. pc # "infer"
    <3> SUFFICES ASSUME pc = "infer" PROVE FALSE
      OBVIOUS
    <3>1. PICK m \in Message : inbox = <<m>> /\ m.kind = "probe"
      BY <1>2, <1>14 DEF Quiet
    <3>2. Head(inbox) = m
      BY <3>1
    <3> QED
      BY <1>14, <3>1, <3>2
  <2>2. pc = "receive"
    BY <1>2, <1>14, <2>1 DEF Quiet, PacketTypeOK
  <2>3. Asked
    BY <1>2, <1>14, <2>2 DEF Quiet, Answered
  <2>4. PICK m \in Message :
          /\ inbox = <<m>> /\ m.req = issued /\ m.kind \in {"new", "retry"}
          /\ working = IF m.kind = "retry" THEN issued ELSE 0
    BY <2>3 DEF Asked
  <2>5. Head(inbox) = m
    BY <2>4
  <2> QED
    BY <1>2, <2>2, <2>3, <2>4, <2>5 DEF Quiet
<1>15. CASE DeviceStalls
  <2>1. /\ inbox # << >> /\ inbox' = Tail(inbox)
        /\ UNCHANGED <<pc, out, in, frameSize, issued>>
        /\ Head(inbox).kind \in {"new", "retry"}
    BY <1>15 DEF DeviceStalls
  <2>2. /\ pc = "receive" /\ Asked /\ Head(inbox).req = issued
        /\ working = IF Head(inbox).kind = "retry" THEN issued ELSE 0
        /\ issued > 0 /\ (link # "ble" \/ frameSize # 0)
    BY <1>14, <2>1
  <2>3. link = "bitbox"
    BY <1>15, DeviceStallsFacts
  <2>4. PICK m \in Message, s \in Seq(Frame) :
          /\ Answer(link, s, m) /\ wire' = wire \o s
          /\ \/ /\ Head(inbox).kind = "new" /\ working \in {0, Head(inbox).req}
                /\ working' = Head(inbox).req /\ m.req = Head(inbox).req /\ m.kind = "notready"
             \/ /\ Head(inbox).kind = "new" /\ working \notin {0, Head(inbox).req}
                /\ working' = working
             \/ /\ Head(inbox).kind = "retry" /\ working # 0
                /\ working' = working /\ m.req = working /\ m.kind = "notready"
             \/ Head(inbox).kind = "retry" /\ working = 0 /\ working' = working
    BY <1>15, DeviceStallsFacts
  <2>5. m.req = issued /\ working' = issued /\ m.kind = "notready"
    BY <1>3, <2>2, <2>4
  <2>6. Answered'
    BY <1>1, <2>1, <2>2, <2>4, <2>5, AnsweredNow
  <2> QED
    BY <1>1, <2>1, <2>2, <2>3, <2>5, <2>6 DEF Quiet
<1>16. CASE DeviceAnswers
  <2>1. /\ inbox # << >> /\ inbox' = Tail(inbox) /\ working' = 0
        /\ UNCHANGED <<pc, out, in, frameSize, issued>>
        /\ Head(inbox).kind # "probe"
    BY <1>16 DEF DeviceAnswers
  <2>2. /\ pc = "receive" /\ Asked /\ Head(inbox).req = issued
        /\ working = IF Head(inbox).kind = "retry" THEN issued ELSE 0
        /\ issued > 0 /\ (link # "ble" \/ frameSize # 0)
    BY <1>14, <2>1
  <2>3. PICK m \in Message, s \in Seq(Frame) :
          /\ m.req = Head(inbox).req \/ (Head(inbox).kind = "retry" /\ m.req = working)
          /\ m.kind = "ack" /\ Answer(link, s, m) /\ wire' = wire \o s
    BY <1>16, DeviceAnswersFacts
  <2>4. m.req = issued
    BY <2>2, <2>3
  <2>5. Answered'
    BY <1>1, <2>1, <2>2, <2>3, <2>4, AnsweredNow
  <2> QED
    BY <1>1, <2>1, <2>2, <2>5 DEF Quiet
<1>17. ASSUME NEW n \in DeviceMtus, DeviceTellsMtu(n)
       PROVE  Quiet'
  <2>1. /\ inbox # << >> /\ inbox' = Tail(inbox) /\ Head(inbox).kind = "probe"
        /\ wire' = Append(wire, Notification("mtu", n))
        /\ UNCHANGED <<pc, out, in, frameSize, issued, working>>
    BY <1>17 DEF DeviceTellsMtu
  <2>2. Notification("mtu", n) \in Frame /\ ~IsData(Notification("mtu", n))
    BY NoneTyped, PacketAssumption DEF Notification, Frame, IsData
  <2>3. ~Asked /\ ~Answered
    <3>1. ASSUME Asked PROVE FALSE
      <4>1. PICK m \in Message : inbox = <<m>> /\ m.kind \in {"new", "retry"}
        BY <3>1 DEF Asked
      <4> QED
        BY <2>1, <4>1
    <3> QED
      BY <2>1, <3>1 DEF Answered
  <2>4. pc = "infer"
    BY <1>2, <2>1, <2>3 DEF Quiet, PacketTypeOK
  <2>5. /\ NoData /\ working = 0 /\ issued > 0 /\ frameSize = 0
        /\ out.msg.kind = "new" /\ out.msg.req = issued
        /\ \E m \in Message : inbox = <<m>>
    BY <1>2, <2>1, <2>4 DEF Quiet
  <2>6. NoData'
    BY <2>1, <2>2, <2>5, NoDataKept
  <2>7. inbox' = << >>
    <3>1. PICK m \in Message : inbox = <<m>>
      BY <2>5
    <3> QED
      BY <2>1, <3>1
  <2> QED
    BY <1>1, <2>1, <2>4, <2>5, <2>6, <2>7 DEF Quiet
<1>18. CASE DeviceChatters
  <2>1. /\ wire' = Append(wire, Notification("other", 0)) /\ link = "ble"
        /\ UNCHANGED <<pc, out, in, frameSize, issued, inbox, working>>
    BY <1>18 DEF DeviceChatters
  <2>2. /\ Notification("other", 0) \in Frame /\ ~IsData(Notification("other", 0))
        /\ Notification("other", 0).tag = "other"
    BY NoneTyped DEF Notification, Frame, IsData
  <2>3. PICK g \in Frame : g = Notification("other", 0)
    BY <2>2
  <2>4. ~IsData(g) /\ g.tag = "other" /\ wire' = Append(wire, g)
    BY <2>1, <2>2, <2>3
  <2>5. NoData => NoData'
    BY <2>4, NoDataKept
  <2>6. Answered => Answered'
    BY <1>1, <2>1, <2>4, AnsweredKept
  <2>7. Asked => Asked'
    BY <2>1, <2>5 DEF Asked
  <2>8. (\A k \in DOMAIN wire : wire[k].tag = "other") =>
          \A k \in DOMAIN wire' : wire'[k].tag = "other"
    <3>1. /\ DOMAIN wire = 1 .. Len(wire) /\ DOMAIN wire' = 1 .. Len(wire) + 1
          /\ Len(wire) \in Nat /\ wire'[Len(wire) + 1] = g
          /\ \A k \in 1 .. Len(wire) : wire'[k] = wire[k]
      BY <1>3, <2>4, AppendElements
    <3>2. \A k \in DOMAIN wire' : k \in 1 .. Len(wire) \/ k = Len(wire) + 1
      BY <3>1
    <3> QED
      BY <2>4, <3>1, <3>2
  <2> QED
    BY <1>1, <1>2, <2>1, <2>5, <2>6, <2>7, <2>8 DEF Quiet, Settles
<1>19. CASE NoMtu \/ SendFails \/ ReceiveRefused \/ ReceiveFails \/ Rejected
  <2>1. failed' = TRUE
    BY <1>19 DEF NoMtu, SendFails, ReceiveRefused, ReceiveFails, Rejected, Throw
  <2> QED
    BY <2>1
<1>20. CASE ReceiveShort \/ ChannelLoses
  <2>1. fault' \in {"short", "lost"}
    BY <1>20 DEF ReceiveShort, ChannelLoses
  <2> QED
    BY <2>1
<1> QED
  BY <1>5, <1>6, <1>7, <1>8, <1>9, <1>10, <1>11, <1>12, <1>13, <1>15, <1>16, <1>17, <1>18,
     <1>19, <1>20 DEF Next, Proceeds, DeviceActs
-----------------------------------------------------------------------------
(* What an exchange of a packet link returns follows from the invariant. *)
LEMMA AnswerIsOwn ==
  ASSUME PacketInv
  PROVE  PacketAnswer
<1>1. /\ link \in LinkNames /\ in.pieces \in Seq(PieceOf) /\ fault \in {"none", "lost", "short"}
  BY LinkKnown DEF PacketInv, PacketTypeOK
<1>2. ASSUME pc = "read", Sound
      PROVE  Whole(in.pieces)
  <2>1. in.want > 0 /\ in.have = in.pieces[1].msg.len /\ (in = NotReading \/ Prefix(in.pieces[1].msg))
    BY <1>2 DEF PacketInv, ReadInv, Reading
  <2>2. Prefix(in.pieces[1].msg)
    BY <2>1 DEF NotReading
  <2>3. Covers(in.pieces, in.pieces[1].msg, in.pieces[1].msg.len)
    BY <2>1, <2>2 DEF Prefix
  <2>4. in.pieces[1].msg \in Message
    BY <1>1, <2>3, FirstPiece DEF Covers
  <2> QED
    BY <1>1, <2>3, <2>4, CoversWhole
<1>3. ASSUME pc = "read", ~failed, fault = "none"
      PROVE  Whole(in.pieces) /\ in.pieces[1].msg.req = issued
  <2>1. Sound
    BY <1>1, <1>3 DEF Sound, LinkNames
  <2>2. Settles(in.pieces[1].msg)
    BY <1>3 DEF PacketInv, QuietInv, Quiet
  <2> QED
    BY <1>2, <1>3, <2>1, <2>2 DEF Settles
<1>4. ASSUME pc = "read",
             (link \in {"ledger", "ble"} /\ fault # "short") \/ (link = "bitbox" /\ fault = "none")
      PROVE  Whole(in.pieces)
  <2>1. Sound
    BY <1>4 DEF Sound
  <2> QED
    BY <1>2, <1>4, <2>1
<1> QED
  BY <1>3, <1>4 DEF PacketAnswer

(* The packet links start in the invariant,                              *)
LEMMA PacketInit ==
  ASSUME Init
  PROVE  PacketInv
<1>1. PacketTypeOK
  <2>1. wire \in Seq(Frame) /\ assembly \in Seq(PieceOf) /\ inbox \in Seq(Message)
    BY DEF Init
  <2>2. link \in Links /\ platform \in Nat
    BY PacketAssumption DEF Init
  <2> QED
    BY <2>1, <2>2, NoneTyped DEF Init, PacketTypeOK
<1>2. DOMAIN wire = {} /\ DOMAIN inbox = {} /\ DOMAIN assembly = {}
  BY DEF Init
<1>3. WireFormed /\ NoData
  BY <1>2 DEF WireFormed, NoData
<1>4. SendInv
  BY <1>2 DEF SendInv, Queued, Init
<1>5. Chained
  BY <1>2 DEF Chained, Strong, Linked
<1>6. ReadInv
  BY DEF ReadInv, Reading, Init
<1>7. QuietInv
  BY <1>2, <1>3 DEF QuietInv, Quiet, Init
<1> QED
  BY <1>1, <1>3, <1>4, <1>5, <1>6, <1>7 DEF PacketInv

(* every step of theirs keeps it,                                        *)
LEMMA PacketStep ==
  ASSUME PacketInv, Next
  PROVE  PacketInv'
BY TypeStep, FormedStep, SendStep, ChainedStep, ReadStep, QuietStep DEF PacketInv

(* and so does a step of the other link.                                 *)
LEMMA PacketStutters ==
  ASSUME PacketInv, UNCHANGED vars
  PROVE  PacketInv'
<1>1. PacketTypeOK' /\ WireFormed' /\ SendInv'
  BY DEF PacketInv, vars, hostVars, deviceVars, PacketTypeOK, WireFormed, SendInv, Queued, Sent
<1>2. Chained'
  BY DEF PacketInv, vars, Chained
<1>3. ReadInv'
  BY DEF PacketInv, vars, ReadInv, Sound, Reading, Prefix
<1>4. QuietInv'
  BY DEF PacketInv, vars, QuietInv, Quiet, Asked, Answered, NoData, Settles
<1> QED
  BY <1>1, <1>2, <1>3, <1>4 DEF PacketInv
-----------------------------------------------------------------------------
(* The Jade link: the buffer is the start of the answer, and the walk says *)
(* that more is to come until it is the answer.                          *)

(* The bytes of an answer, tagged with its request.                      *)
LEMMA TaggedFacts ==
  ASSUME NEW m \in Messages, NEW r \in Nat
  PROVE  /\ m \in Seq(0 .. 255) /\ Len(m) \in Nat \ {0}
         /\ Tagged(m, r) \in Seq(JadeByte) /\ Tagged(m, r) # << >>
         /\ Len(Tagged(m, r)) = Len(m) /\ DOMAIN Tagged(m, r) = 1 .. Len(m)
         /\ \A k \in 1 .. Len(m) : Tagged(m, r)[k] = [req |-> r, byte |-> m[k]]
<1>1. m \in Seq(0 .. 255) /\ m # << >>
  BY MessagesAssumption
<1>2. /\ Len(m) \in Nat \ {0} /\ DOMAIN m = 1 .. Len(m)
      /\ \A k \in 1 .. Len(m) : m[k] \in 0 .. 255
  BY <1>1, LenProperties, EmptySeq, ElementOfSeq
<1>3. \A k \in 1 .. Len(m) : [req |-> r, byte |-> m[k]] \in JadeByte
  BY <1>2 DEF JadeByte
<1>4. Tagged(m, r) = [k \in 1 .. Len(m) |-> [req |-> r, byte |-> m[k]]]
  BY <1>2 DEF Tagged
<1>5. Tagged(m, r) \in Seq(JadeByte) /\ Len(Tagged(m, r)) = Len(m)
  BY <1>2, <1>3, <1>4
<1>6. Tagged(m, r) # << >>
  BY <1>2, <1>5, EmptySeq
<1> QED
  BY <1>1, <1>2, <1>4, <1>5, <1>6

(* What has been read of an answer is a prefix of it.                    *)
LEMMA BytesOfPart ==
  ASSUME NEW m \in Messages, NEW r \in Nat, NEW b \in Seq(JadeByte), NEW c \in Seq(JadeByte),
         b \o c = Tagged(m, r)
  PROVE  /\ Len(b) \in 0 .. Len(m)
         /\ Jade!Bytes(b) = SubSeq(m, 1, Len(b))
         /\ c = << >> <=> Len(b) = Len(m)
         /\ c = << >> => Jade!Bytes(b) = m /\ b = Tagged(m, r)
<1>1. /\ m \in Seq(0 .. 255) /\ Len(m) \in Nat \ {0} /\ Len(Tagged(m, r)) = Len(m)
      /\ \A k \in 1 .. Len(m) : Tagged(m, r)[k] = [req |-> r, byte |-> m[k]]
  BY TaggedFacts
<1>2. /\ Len(b) \in Nat /\ Len(c) \in Nat /\ Len(b) + Len(c) = Len(m)
      /\ DOMAIN b = 1 .. Len(b)
  BY <1>1, LenProperties, ConcatProperties
<1>3. \A k \in 1 .. Len(b) : b[k] = [req |-> r, byte |-> m[k]] /\ m[k] \in 0 .. 255
  <2>1. \A k \in 1 .. Len(b) : (b \o c)[k] = b[k] /\ k \in 1 .. Len(m)
    BY <1>2, ConcatProperties
  <2> QED
    BY <1>1, <2>1, ElementOfSeq
<1>4. Jade!Bytes(b) = SubSeq(m, 1, Len(b))
  <2>1. Jade!Bytes(b) = [k \in 1 .. Len(b) |-> b[k].byte]
    BY <1>2 DEF Jade!Bytes
  <2>2. ASSUME NEW k \in 1 .. Len(b)
        PROVE  b[k].byte = m[k] /\ m[k] \in 0 .. 255
    <3>1. b[k] = [req |-> r, byte |-> m[k]] /\ m[k] \in 0 .. 255
      BY <1>3
    <3> QED
      BY <3>1
  <2>3. PICK n \in Nat : n = Len(b)
    BY <1>2
  <2>4. Jade!Bytes(b) = [k \in 1 .. n |-> m[k]] /\ \A k \in 1 .. n : m[k] \in 0 .. 255
    BY <2>1, <2>2, <2>3
  <2>5. /\ Jade!Bytes(b) \in Seq(0 .. 255) /\ Len(Jade!Bytes(b)) = n
        /\ \A k \in 1 .. n : Jade!Bytes(b)[k] = m[k]
    BY <2>4
  <2>6. /\ SubSeq(m, 1, n) \in Seq(0 .. 255)
        /\ Len(SubSeq(m, 1, n)) = IF 1 <= n THEN n - 1 + 1 ELSE 0
        /\ \A k \in 1 .. n - 1 + 1 : SubSeq(m, 1, n)[k] = m[1 + k - 1]
    BY <2>4, SubSeqProperties
  <2>7. /\ Len(SubSeq(m, 1, n)) = n
        /\ \A k \in 1 .. n : SubSeq(m, 1, n)[k] = m[k]
    <3>1. n - 1 + 1 = n /\ \A k \in 1 .. n : 1 + k - 1 = k
      OBVIOUS
    <3> QED
      BY <2>6, <3>1
  <2>8. Jade!Bytes(b) = SubSeq(m, 1, n)
    BY <2>5, <2>6, <2>7, SeqEqual
  <2> QED
    BY <2>3, <2>8
<1>5. c = << >> <=> Len(b) = Len(m)
  <2>1. c = << >> <=> Len(c) = 0
    BY EmptySeq
  <2>2. PICK x \in Nat, y \in Nat, z \in Nat : x = Len(b) /\ y = Len(c) /\ z = Len(m)
    BY <1>1, <1>2
  <2>3. x + y = z
    BY <1>2, <2>2
  <2>4. y = 0 <=> x = z
    BY <2>3
  <2> QED
    BY <2>1, <2>2, <2>4
<1>6. c = << >> => Jade!Bytes(b) = m /\ b = Tagged(m, r)
  <2> SUFFICES ASSUME c = << >> PROVE Jade!Bytes(b) = m /\ b = Tagged(m, r)
    OBVIOUS
  <2>1. b = Tagged(m, r)
    BY ConcatEmptySeq
  <2>2. SubSeq(m, 1, Len(m)) = m
    BY <1>1
  <2> QED
    BY <1>4, <1>5, <2>1, <2>2
<1>7. Len(b) \in 0 .. Len(m)
  BY <1>1, <1>2
<1> QED
  BY <1>4, <1>5, <1>6, <1>7

(* The Jade link starts in the invariant.                                *)
LEMMA JadeStart ==
  ASSUME Jade!JadeInit
  PROVE  JadeInv
<1>1. buffer \in Seq(JadeByte) /\ stream \in Seq(JadeByte) /\ unanswered \in Seq(Nat)
  BY DEF Jade!JadeInit
<1> QED
  BY <1>1 DEF Jade!JadeInit, JadeInv, JadeTypeOK, JadeClean

(* A read takes the stream's first bytes over into the buffer.           *)
LEMMA JadeReadFacts ==
  ASSUME JadeTypeOK, NEW n \in 1 .. Len(stream), Jade!JadeReads(n)
  PROVE  /\ buffer' \in Seq(JadeByte) /\ stream' \in Seq(JadeByte)
         /\ buffer' \o stream' = buffer \o stream
         /\ phase = "read" /\ phase' \in {"read", "whole", "thrown"}
         /\ UNCHANGED <<alien, unanswered, stopped, called, message>>
         /\ broke' = (broke \/ phase' = "thrown")
<1>1. stream \in Seq(JadeByte) /\ buffer \in Seq(JadeByte) /\ Len(stream) \in Nat
  BY LenProperties DEF JadeTypeOK
<1> DEFINE a == SubSeq(stream, 1, n)
           b == SubSeq(stream, n + 1, Len(stream))
<1>2. a \in Seq(JadeByte) /\ b \in Seq(JadeByte)
  BY <1>1, SubSeqProperties, ElementOfSeq
<1>3. a \o b = stream
  <2>1. SubSeq(stream, 1, n) \o SubSeq(stream, n + 1, Len(stream)) = SubSeq(stream, 1, Len(stream))
    BY <1>1, ConcatAdjacentSubSeq
  <2>2. SubSeq(stream, 1, Len(stream)) = stream
    BY <1>1
  <2> QED
    BY <2>1, <2>2
<1>4. /\ buffer' = buffer \o a /\ stream' = b
      /\ phase = "read" /\ phase' \in {"read", "whole", "thrown"}
      /\ UNCHANGED <<alien, unanswered, stopped, called, message>>
      /\ broke' = (broke \/ phase' = "thrown")
  BY DEF Jade!JadeReads
<1> HIDE DEF a, b
<1>5. (buffer \o a) \o b = buffer \o (a \o b) /\ buffer \o a \in Seq(JadeByte)
  <2>1. \A s, t, u \in Seq(JadeByte) : (s \o t) \o u = s \o (t \o u)
    BY ConcatAssociative
  <2>2. buffer \o a \in Seq(JadeByte)
    BY <1>1, <1>2, ConcatProperties
  <2> QED
    BY <1>1, <1>2, <2>1, <2>2
<1>6. buffer' \in Seq(JadeByte) /\ buffer' \o stream' = buffer \o stream
  BY <1>3, <1>4, <1>5, Zenon
<1> QED
  BY <1>2, <1>4, <1>6

(* A step of the Jade link keeps its types,                              *)
LEMMA JadeTypeStep ==
  ASSUME JadeTypeOK, Jade!JadeNext
  PROVE  JadeTypeOK'
<1>1. CASE Jade!JadeWrites \/ Jade!JadeWriteFails
  <2>1. called' \in Nat /\ called' = called + 1 /\ unanswered \in Seq(Nat)
    BY <1>1 DEF Jade!JadeWrites, Jade!JadeWriteFails, JadeTypeOK
  <2>2. Append(unanswered, called') \in Seq(Nat)
    BY <2>1, AppendProperties
  <2> QED
    BY <1>1, <2>1, <2>2 DEF Jade!JadeWrites, Jade!JadeWriteFails, JadeTypeOK
<1>2. CASE Jade!JadeStops
  BY <1>2 DEF Jade!JadeStops, JadeTypeOK
<1>3. CASE Jade!JadeReadFails \/ Jade!JadeReturns
  BY <1>3, EmptySeq DEF Jade!JadeReadFails, Jade!JadeReturns, Jade!JadeLeaves, JadeTypeOK
<1>4. ASSUME NEW n \in 1 .. Len(stream), Jade!JadeReads(n)
      PROVE  JadeTypeOK'
  <2>1. broke' \in BOOLEAN
    BY <1>4, JadeReadFacts
  <2> QED
    BY <1>4, <2>1, JadeReadFacts DEF JadeTypeOK
<1>5. ASSUME NEW m \in Messages, Jade!JadeAnswers(m)
      PROVE  JadeTypeOK'
  <2>1. Head(unanswered) \in Nat /\ Tail(unanswered) \in Seq(Nat)
    BY <1>5, HeadTailProperties DEF Jade!JadeAnswers, JadeTypeOK
  <2>2. stream' = stream \o Tagged(m, Head(unanswered))
    BY <1>5 DEF Jade!JadeAnswers, Tagged
  <2>3. stream' \in Seq(JadeByte)
    BY <2>1, <2>2, TaggedFacts, ConcatProperties DEF JadeTypeOK
  <2> QED
    BY <1>5, <2>1, <2>3 DEF Jade!JadeAnswers, JadeTypeOK
<1>6. ASSUME NEW b \in Alphabet, Jade!AlienSends(b)
      PROVE  JadeTypeOK'
  <2>1. [req |-> 0, byte |-> b] \in JadeByte
    BY DEF JadeByte
  <2>2. stream' = <<[req |-> 0, byte |-> b]>>
    BY <1>6 DEF Jade!AlienSends
  <2>3. stream' \in Seq(JadeByte)
    BY <2>1, <2>2
  <2> QED
    BY <1>6, <2>3 DEF Jade!AlienSends, JadeTypeOK
<1> QED
  BY <1>1, <1>2, <1>3, <1>4, <1>5, <1>6 DEF Jade!JadeNext

(* A read from a Jade that owes one answer: the answer, or more to come. *)
LEMMA JadeReadClean ==
  ASSUME JadeTypeOK, ~alien, JadeClean, NEW n \in 1 .. Len(stream), Jade!JadeReads(n)
  PROVE  JadeClean'
<1>1. /\ buffer' \in Seq(JadeByte) /\ stream' \in Seq(JadeByte)
      /\ buffer' \o stream' = buffer \o stream
      /\ phase = "read" /\ phase' \in {"read", "whole", "thrown"}
      /\ UNCHANGED <<alien, unanswered, stopped, called, message>>
  BY JadeReadFacts
<1>2. stream # << >>
  BY EmptySeq DEF JadeTypeOK
<1>3. /\ message \in Messages /\ unanswered = << >> /\ called \in Nat
      /\ buffer \o stream = Tagged(message, called)
  BY <1>1, <1>2 DEF JadeClean, JadeTypeOK
<1>4. /\ Len(buffer') \in 0 .. Len(message)
      /\ Jade!Bytes(buffer') = SubSeq(message, 1, Len(buffer'))
      /\ stream' = << >> <=> Len(buffer') = Len(message)
      /\ stream' = << >> => Jade!Bytes(buffer') = message /\ buffer' = Tagged(message, called)
  <2>1. PICK b \in Seq(JadeByte), c \in Seq(JadeByte), m \in Messages, r \in Nat :
          b = buffer' /\ c = stream' /\ m = message /\ r = called
    BY <1>1, <1>3
  <2>2. b \o c = Tagged(m, r)
    BY <1>1, <1>3, <2>1
  <2>3. /\ Len(b) \in 0 .. Len(m)
        /\ Jade!Bytes(b) = SubSeq(m, 1, Len(b))
        /\ c = << >> <=> Len(b) = Len(m)
        /\ c = << >> => Jade!Bytes(b) = m /\ b = Tagged(m, r)
    BY <2>2, BytesOfPart
  <2> QED
    BY <2>1, <2>3
<1>5. Len(message) \in Nat \ {0}
  BY <1>3, TaggedFacts
<1>6. phase' = CASE Walk(Jade!Bytes(buffer')) = -1 -> "read"
                 [] Walk(Jade!Bytes(buffer')) = -2 -> "thrown"
                 [] OTHER -> "whole"
  BY DEF Jade!JadeReads, Jade!IsComplete, Jade!INCOMPLETE, Jade!MALFORMED
<1>7. CASE stream' = << >>
  <2>1. Walk(Jade!Bytes(buffer')) = Len(message)
    BY <1>3, <1>4, <1>7, MessagesAssumption
  <2>2. phase' = "whole"
    BY <1>5, <1>6, <2>1
  <2> QED
    BY <1>1, <1>3, <1>4, <1>7, <2>2 DEF JadeClean
<1>8. CASE stream' # << >>
  <2>1. Len(buffer') \in 0 .. Len(message) - 1
    BY <1>4, <1>5, <1>8
  <2>2. Walk(Jade!Bytes(buffer')) = -1
    BY <1>3, <1>4, <2>1, MessagesAssumption
  <2>3. phase' = "read"
    BY <1>6, <2>2
  <2> QED
    BY <1>1, <1>3, <1>8, <2>3 DEF JadeClean
<1> QED
  BY <1>7, <1>8

(* and the rest of its invariant;                                        *)
LEMMA JadeStep ==
  ASSUME JadeInv, Jade!JadeNext
  PROVE  JadeInv'
<1>1. JadeTypeOK /\ JadeTypeOK' /\ broke \in BOOLEAN /\ alien \in BOOLEAN /\ called \in Nat
  BY JadeTypeStep DEF JadeInv, JadeTypeOK
<1>2. CASE Jade!JadeWrites
  <2>1. /\ phase = "idle" /\ phase' = "read" /\ called' = called + 1
        /\ unanswered' = Append(unanswered, called')
        /\ UNCHANGED <<alien, buffer, stream, broke, message>>
    BY <1>2 DEF Jade!JadeWrites
  <2>2. ~alien /\ ~broke => JadeClean'
    <3> SUFFICES ASSUME ~alien, ~broke PROVE JadeClean'
      OBVIOUS
    <3>1. buffer = << >> /\ stream = << >> /\ unanswered = << >>
      BY <2>1 DEF JadeInv, JadeClean
    <3>2. unanswered' = <<called'>>
      BY <2>1, <3>1
    <3> QED
      BY <2>1, <3>1, <3>2 DEF JadeClean
  <2>3. called' <= 1 => called = 0
    BY <1>1, <2>1
  <2>4. called' # 0
    BY <1>1, <2>1
  <2> QED
    BY <1>1, <2>1, <2>2, <2>3, <2>4 DEF JadeInv
<1>3. CASE Jade!JadeWriteFails
  <2>1. phase' = "idle" /\ broke' = TRUE /\ called' = called + 1
    BY <1>3 DEF Jade!JadeWriteFails
  <2> QED
    BY <1>1, <2>1 DEF JadeInv
<1>4. CASE Jade!JadeStops
  BY <1>1, <1>4 DEF Jade!JadeStops, JadeInv, JadeClean
<1>5. CASE Jade!JadeReadFails
  <2>1. phase = "read" /\ phase' = "idle" /\ broke' = TRUE /\ called' = called
    BY <1>5 DEF Jade!JadeReadFails, Jade!JadeLeaves
  <2> QED
    BY <1>1, <2>1 DEF JadeInv
<1>6. CASE Jade!JadeReturns
  <2>1. /\ phase \in {"whole", "thrown"} /\ phase' = "idle" /\ buffer' = << >>
        /\ UNCHANGED <<alien, stream, unanswered, broke, called, message>>
    BY <1>6 DEF Jade!JadeReturns, Jade!JadeLeaves
  <2>2. ~alien /\ ~broke => JadeClean'
    BY <2>1 DEF JadeInv, JadeClean
  <2> QED
    BY <1>1, <2>1, <2>2 DEF JadeInv
<1>7. ASSUME NEW n \in 1 .. Len(stream), Jade!JadeReads(n)
      PROVE  JadeInv'
  <2>1. /\ phase = "read" /\ alien' = alien /\ called' = called
        /\ broke' = (broke \/ phase' = "thrown")
    BY <1>1, <1>7, JadeReadFacts
  <2>2. ~alien /\ ~broke => JadeClean'
    BY <1>1, <1>7, JadeReadClean DEF JadeInv
  <2>3. ~alien /\ ~broke => ~broke'
    BY <2>1, <2>2 DEF JadeClean
  <2> QED
    BY <1>1, <2>1, <2>2, <2>3 DEF JadeInv
<1>8. ASSUME NEW m \in Messages, Jade!JadeAnswers(m)
      PROVE  JadeInv'
  <2>1. /\ ~alien /\ unanswered # << >> /\ unanswered' = Tail(unanswered) /\ message' = m
        /\ stream' = stream \o Tagged(m, Head(unanswered))
        /\ UNCHANGED <<alien, phase, buffer, broke, called>>
    BY <1>8 DEF Jade!JadeAnswers, Tagged
  <2>2. ~broke => JadeClean'
    <3> SUFFICES ASSUME ~broke PROVE JadeClean'
      OBVIOUS
    <3>1. phase = "read" /\ buffer = << >> /\ stream = << >> /\ unanswered = <<called>>
      BY <1>1, <2>1 DEF JadeInv, JadeClean, JadeTypeOK
    <3>2. /\ Tagged(m, called) \in Seq(JadeByte) /\ Tagged(m, called) # << >>
      BY <1>1, TaggedFacts
    <3>3. stream' = Tagged(m, called) /\ unanswered' = << >>
      BY <2>1, <3>1, <3>2, ConcatEmptySeq
    <3>4. buffer' \o stream' = Tagged(m, called)
      BY <2>1, <3>1, <3>2, <3>3, ConcatEmptySeq
    <3> QED
      BY <2>1, <3>1, <3>2, <3>3, <3>4 DEF JadeClean
  <2> QED
    BY <1>1, <2>1, <2>2 DEF JadeInv
<1>9. ASSUME NEW b \in Alphabet, Jade!AlienSends(b)
      PROVE  JadeInv'
  <2>1. alien /\ UNCHANGED <<alien, phase, broke, called>>
    BY <1>9 DEF Jade!AlienSends
  <2> QED
    BY <1>1, <2>1 DEF JadeInv
<1> QED
  BY <1>2, <1>3, <1>4, <1>5, <1>6, <1>7, <1>8, <1>9 DEF Jade!JadeNext

(* which says that what an exchange returns is its own answer.           *)
LEMMA JadeAnswerIsOwn ==
  ASSUME JadeInv
  PROVE  Jade!JadeAnswer
<1> SUFFICES ASSUME phase \in {"whole", "thrown"}, ~alien, ~broke \/ called = 1
             PROVE  /\ phase = "whole" /\ Jade!Bytes(buffer) = message
                    /\ \A k \in DOMAIN buffer : buffer[k].req = called
  BY DEF Jade!JadeAnswer
<1>1. ~broke /\ called \in Nat
  BY DEF JadeInv, JadeTypeOK
<1>2. phase = "whole" /\ message \in Messages /\ buffer = Tagged(message, called)
  BY <1>1 DEF JadeInv, JadeClean
<1>3. \A k \in DOMAIN buffer : buffer[k].req = called
  <2>1. /\ DOMAIN buffer = 1 .. Len(message)
        /\ \A k \in 1 .. Len(message) : buffer[k] = [req |-> called, byte |-> message[k]]
    BY <1>1, <1>2, TaggedFacts
  <2> QED
    BY <2>1
<1>4. Jade!Bytes(buffer) = message
  <2>1. buffer \in Seq(JadeByte) /\ << >> \in Seq(JadeByte)
    BY EmptySeq DEF JadeInv, JadeTypeOK
  <2>2. buffer \o << >> = Tagged(message, called)
    BY <1>2, <2>1, ConcatEmptySeq
  <2> QED
    BY <1>1, <1>2, <2>1, <2>2, BytesOfPart
<1> QED
  BY <1>2, <1>3, <1>4

(* A step of the other link keeps it too.                                *)
LEMMA JadeStutters ==
  ASSUME JadeInv, UNCHANGED serialVars
  PROVE  JadeInv'
BY DEF serialVars, JadeInv, JadeTypeOK, JadeClean

-----------------------------------------------------------------------------
(* Whichever link a session has, its state keeps its types, its frames and *)
(* pieces belong together as the framings say, and while no exchange     *)
(* failed, host and device agree on who owes what.                       *)
THEOREM PlainInvariance == PlainSpec => []PlainInv
<1>1. PlainInit => PlainInv
  <2> SUFFICES ASSUME PlainInit PROVE PlainInv
    OBVIOUS
  <2>1. Init /\ Jade!JadeInit /\ serial \in BOOLEAN
    BY DEF PlainInit
  <2> QED
    BY <2>1, PacketInit, JadeStart DEF PlainInv
<1>2. PlainInv /\ [PlainNext]_plainVars => PlainInv'
  <2> SUFFICES ASSUME PlainInv, [PlainNext]_plainVars PROVE PlainInv'
    OBVIOUS
  <2>1. serial \in BOOLEAN /\ PacketInv /\ JadeInv
    BY DEF PlainInv
  <2>2. serial' = serial
    BY DEF PlainNext, plainVars
  <2>3. \/ Jade!JadeNext /\ UNCHANGED vars
        \/ Next /\ UNCHANGED serialVars
        \/ UNCHANGED vars /\ UNCHANGED serialVars
    BY DEF PlainNext, plainVars
  <2>4. PacketInv'
    BY <2>1, <2>3, PacketStep, PacketStutters
  <2>5. JadeInv'
    BY <2>1, <2>3, JadeStep, JadeStutters
  <2> QED
    BY <2>1, <2>2, <2>4, <2>5 DEF PlainInv
<1> QED
  BY <1>1, <1>2, PTL DEF PlainSpec

(* An exchange that returns hands over the answer to its own request,    *)
(* whole, as long as every exchange before it completed; Ledger links never *)
(* put parts of two answers together, whatever was lost, and U2F does not   *)
(* while nothing is; and a Jade exchange neither stops short of the end of  *)
(* its CBOR value nor reads past it.                                     *)
THEOREM ExchangesReturnOwnAnswer == PlainSpec => []OwnAnswer
<1>1. PlainInv => OwnAnswer
  BY AnswerIsOwn, JadeAnswerIsOwn DEF PlainInv, OwnAnswer
<1> QED
  BY <1>1, PlainInvariance, PTL

(* The device only ever takes whole requests that the host was asked to  *)
(* send, though exchanges stop half way and start over; and every frame  *)
(* keeps to its format, whatever the length of a message.                *)
THEOREM RequestsArriveWhole == PlainSpec => []RequestIntact
<1>1. PlainInv => RequestIntact
  BY SentIntact DEF PlainInv, PacketInv
<1> QED
  BY <1>1, PlainInvariance, PTL

-----------------------------------------------------------------------------
(* The CBOR walk.  What every walk over n bytes keeps to, and what the     *)
(* walks over two prefixes have in common.                                *)

CallFrames == [major : 2 .. 6, left : Int, owed : Nat]
Walks == [at : Int, phase : {"value", "loop", "done"}, calls : Seq(CallFrames)]

Due(f)  == f.owed + (IF f.left < 0 THEN 1 ELSE f.left)

(* The bytes the walk will read at least before it finds an end.           *)
Need(w) == Owed(w.calls) + (IF w.phase = "value" THEN 1 ELSE 0)

StackedOn(n, calls) ==
  /\ \A k \in DOMAIN calls : calls[k].left <= 2 * n
  /\ Len(calls) > 0 => calls[1].owed = 0
  /\ \A k \in 2 .. Len(calls) : calls[k].owed = Due(calls[k - 1])

Good(n, w) ==
  /\ w \in Walks
  /\ w.at <= n
  /\ w.phase # "done" => w.at >= 0
  /\ w.phase = "done" => w.calls = << >> /\ w.at >= -2
  /\ StackedOn(n, w.calls)
  /\ w.phase # "done" => Len(w.calls) <= w.at

(* A walk that is behind m bytes, or will be when it finds an end.         *)
Passes(w, m) == w.at >= 0 => w.at + Need(w) >= m + 1

(* What is left to do for the bytes from `at` on.                          *)
Work(n, w) == 3 * (n - w.at) + Len(w.calls) + (IF w.phase = "loop" THEN 1 ELSE 0)

(* The walks over m bytes and over more of them: once they differ, the     *)
(* short one wants more bytes and the long one is past these.              *)
Cut(short, long, m) ==
  \/ short = long
  \/ short = Result(INCOMPLETE) /\ Passes(long, m)

CutsInv ==
  /\ bytes \in Seq(0 .. 255) /\ steps \in Nat
  /\ walks \in [0 .. Len(bytes) -> Walks]
  /\ \A n \in 0 .. Len(bytes) : Good(n, walks[n])
  /\ \A n \in 0 .. Len(bytes) : walks[n].phase # "done" => steps + Work(n, walks[n]) <= 3 * n
  /\ \A n \in 0 .. Len(bytes) : \A m \in 0 .. n : Cut(walks[m], walks[n], m)

(* A head and the value behind it.                                         *)
LEMMA HeadFacts ==
  ASSUME NEW b \in 0 .. 255
  PROVE  /\ Major(b) \in 0 .. 7 /\ Info(b) \in 0 .. 31
         /\ Width(b) \in 0 .. 8 /\ (Info(b) = 31 => Width(b) = 0)
BY DEF Major, Info, Width

LEMMA HeaderValueType ==
  ASSUME NEW s \in Seq(0 .. 255)
  PROVE  HeaderValue(s) \in Nat
<1>1. \A k \in 0 .. 3 : Octet(s, k) \in Nat
  <2> TAKE k \in 0 .. 3
  <2>1. k < Len(s) => s[Len(s) - k] \in Nat
    <3>1. k < Len(s) => Len(s) - k \in 1 .. Len(s)
      OBVIOUS
    <3>2. k < Len(s) => s[Len(s) - k] \in 0 .. 255
      BY <3>1, ElementOfSeq
    <3>3. \A x \in 0 .. 255 : x \in Nat
      OBVIOUS
    <3> QED
      BY <3>2, <3>3, Zenon
  <2> QED
    BY <2>1 DEF Octet
<1>2. MaxInt \in Nat
  BY SMT DEF MaxInt
<1>3. Octet(s, 0) + 256 * Octet(s, 1) + 65536 * Octet(s, 2) + 16777216 * Octet(s, 3) \in Nat
  BY <1>1, SMTT(40)
<1> QED
  BY <1>2, <1>3, SMTT(40) DEF HeaderValue

LEMMA OwedType ==
  ASSUME NEW calls \in Seq(CallFrames)
  PROVE  Owed(calls) \in Nat /\ (calls # << >> => Owed(calls) = Due(calls[Len(calls)]))
<1>1. CASE calls = << >>
  BY <1>1 DEF Owed
<1>2. CASE calls # << >>
  <2> DEFINE f == calls[Len(calls)]
  <2>1. f \in CallFrames
    BY <1>2, ElementOfSeq
  <2>2. Owed(calls) = Due(f)
    BY <1>2 DEF Owed, Due
  <2> HIDE DEF f
  <2>3. f.owed \in Nat /\ f.left \in Int
    BY <2>1 DEF CallFrames
  <2> QED
    BY <2>2, <2>3 DEF Due, f
<1> QED
  BY <1>1, <1>2

(* Pushing a call on the stack, and taking the innermost one off it.       *)
LEMMA PushStacks ==
  ASSUME NEW n \in Nat, NEW calls \in Seq(CallFrames), StackedOn(n, calls),
         NEW major \in 2 .. 6, NEW left \in Int, left <= 2 * n
  PROVE  LET f == [major |-> major, left |-> left, owed |-> Owed(calls)] IN
         /\ f \in CallFrames /\ Append(calls, f) \in Seq(CallFrames)
         /\ StackedOn(n, Append(calls, f))
         /\ Len(Append(calls, f)) = Len(calls) + 1
         /\ Owed(Append(calls, f)) = Owed(calls) + (IF left < 0 THEN 1 ELSE left)
         /\ Owed(calls) \in Nat
<1> DEFINE f == [major |-> major, left |-> left, owed |-> Owed(calls)]
<1>1. Owed(calls) \in Nat /\ (calls # << >> => Owed(calls) = Due(calls[Len(calls)]))
  BY OwedType
<1>2. f \in CallFrames
  BY <1>1 DEF CallFrames
<1>3. /\ Append(calls, f) \in Seq(CallFrames) /\ Len(Append(calls, f)) = Len(calls) + 1
      /\ \A k \in 1 .. Len(calls) : Append(calls, f)[k] = calls[k]
      /\ Append(calls, f)[Len(calls) + 1] = f /\ Append(calls, f) # << >>
  BY <1>2
<1>4. StackedOn(n, Append(calls, f))
  <2> HIDE DEF f
  <2>1. f.left <= 2 * n /\ f.owed = Owed(calls)
    BY DEF f
  <2>2. \A k \in 1 .. Len(calls) + 1 : Append(calls, f)[k].left <= 2 * n
    BY <1>3, <2>1 DEF StackedOn
  <2>3. Append(calls, f)[1].owed = 0
    BY <1>3, <2>1 DEF StackedOn, Owed
  <2>4. ASSUME NEW k \in 2 .. Len(calls) + 1
        PROVE  Append(calls, f)[k].owed = Due(Append(calls, f)[k - 1])
    <3>1. CASE k = Len(calls) + 1
      BY <1>1, <1>3, <2>1, <3>1
    <3>2. CASE k # Len(calls) + 1
      BY <1>3, <3>2 DEF StackedOn
    <3> QED
      BY <3>1, <3>2
  <2> QED
    BY <1>3, <2>2, <2>3, <2>4 DEF StackedOn
<1> QED
  BY <1>1, <1>2, <1>3, <1>4 DEF Owed

LEMMA PrefixFacts ==
  ASSUME NEW S, NEW s \in Seq(S), NEW k \in Int, 0 <= k, k <= Len(s)
  PROVE  /\ SubSeq(s, 1, k) \in Seq(S) /\ Len(SubSeq(s, 1, k)) = k
         /\ \A i \in 1 .. k : SubSeq(s, 1, k)[i] = s[i]
<1>1. \A i \in 1 .. k : s[i] \in S
  BY ElementOfSeq
<1>2. /\ SubSeq(s, 1, k) \in Seq(S)
      /\ Len(SubSeq(s, 1, k)) = IF 1 <= k THEN k - 1 + 1 ELSE 0
      /\ \A i \in 1 .. k - 1 + 1 : SubSeq(s, 1, k)[i] = s[1 + i - 1]
  BY <1>1, SubSeqProperties
<1> HIDE <1>1
<1>3. Len(SubSeq(s, 1, k)) = k
  BY <1>2
<1>4. \A i \in 1 .. k : i \in 1 .. k - 1 + 1 /\ 1 + i - 1 = i
  OBVIOUS
<1> QED
  BY <1>2, <1>3, <1>4

LEMMA PopStacks ==
  ASSUME NEW n \in Nat, NEW calls \in Seq(CallFrames), StackedOn(n, calls), calls # << >>
  PROVE  LET f     == calls[Len(calls)]
             below == SubSeq(calls, 1, Len(calls) - 1)
         IN /\ f \in CallFrames /\ f.left <= 2 * n
            /\ below \in Seq(CallFrames) /\ Len(below) = Len(calls) - 1 /\ StackedOn(n, below)
            /\ f.owed = Owed(below) /\ Owed(calls) = Due(f)
<1> DEFINE below == SubSeq(calls, 1, Len(calls) - 1)
<1>0. Len(calls) \in Nat /\ Len(calls) >= 1 /\ \A k \in 1 .. Len(calls) : calls[k] \in CallFrames
  BY EmptySeq, ElementOfSeq
<1>1. /\ below \in Seq(CallFrames) /\ Len(below) = Len(calls) - 1
      /\ \A k \in 1 .. Len(calls) - 1 : below[k] = calls[k]
  <2>1. \A x \in Nat : x >= 1 => x - 1 \in Int /\ 0 <= x - 1 /\ x - 1 <= x
    OBVIOUS
  <2>2. Len(calls) - 1 \in Int /\ 0 <= Len(calls) - 1 /\ Len(calls) - 1 <= Len(calls)
    BY <1>0, <2>1, Zenon
  <2> QED
    BY <2>2, PrefixFacts, Zenon
<1>2. calls[Len(calls)] \in CallFrames /\ calls[Len(calls)].left <= 2 * n
  BY <1>0 DEF StackedOn
<1>3. StackedOn(n, below)
  BY <1>0, <1>1 DEF StackedOn
<1>4. calls[Len(calls)].owed = Owed(below)
  <2> HIDE DEF below
  <2>1. CASE Len(calls) = 1
    BY <1>0, <1>1, <2>1 DEF StackedOn, Owed
  <2>2. CASE Len(calls) > 1
    <3>1. below # << >> /\ below[Len(below)] = calls[Len(calls) - 1]
      BY <1>1, <2>2
    <3>2. calls[Len(calls)].owed = Due(calls[Len(calls) - 1])
      BY <2>2 DEF StackedOn
    <3> QED
      BY <3>1, <3>2 DEF Owed, Due
  <2>3. \A x \in Nat : x >= 1 => x = 1 \/ x > 1
    OBVIOUS
  <2>4. Len(calls) = 1 \/ Len(calls) > 1
    BY <1>0, <2>3, Zenon
  <2> QED
    BY <2>1, <2>2, <2>4
<1> QED
  BY <1>0, <1>1, <1>2, <1>3, <1>4 DEF Owed, Due
(* What a step makes of a walk: it is still in order, it has not come      *)
(* nearer than `low` to an end, and there is less work left.               *)
Progress(n, v, low, work) ==
  /\ Good(n, v)
  /\ v.at >= 0 => v.at + Need(v) >= low
  /\ v.phase # "done" => Work(n, v) < work

LEMMA ResultProgress ==
  ASSUME NEW n \in Nat, NEW low \in Nat, NEW work \in Int, NEW r \in {INCOMPLETE, MALFORMED}
  PROVE  Progress(n, Result(r), low, work) /\ Result(r).at < 0
<1>1. Result(r) \in Walks /\ Result(r).calls = << >> /\ Result(r).at = r /\ Result(r).phase = "done"
  BY EmptySeq DEF Result, Walks, INCOMPLETE, MALFORMED
<1>2. StackedOn(n, Result(r).calls)
  BY <1>1, EmptySeq DEF StackedOn
<1>3. r < 0 /\ r >= -2 /\ r <= n
  BY DEF INCOMPLETE, MALFORMED
<1> DEFINE v == Result(r)
<1> HIDE DEF v
<1>4. v.at = r /\ v.phase = "done" /\ v.calls = << >> /\ v \in Walks /\ StackedOn(n, v.calls)
  BY <1>1, <1>2 DEF v
<1>5. Good(n, v)
  BY <1>3, <1>4, Zenon DEF Good
<1>6. ~(v.at >= 0)
  BY <1>4 DEF INCOMPLETE, MALFORMED
<1>7. Progress(n, v, low, work)
  BY <1>4, <1>5, <1>6, Zenon DEF Progress
<1> QED
  BY <1>3, <1>4, <1>7 DEF v

(* Back in the innermost loop behind a value, with less to do.             *)
LEMMA ResumeProgress ==
  ASSUME NEW n \in Nat, NEW pos \in Nat, pos <= n, NEW calls \in Seq(CallFrames),
         StackedOn(n, calls), Len(calls) <= pos, NEW low \in Nat, NEW work \in Int,
         pos + Owed(calls) >= low, 3 * (n - pos) + Len(calls) + 1 < work
  PROVE  Progress(n, Resume(pos, calls), low, work) /\ Need(Resume(pos, calls)) = Owed(calls)
<1>1. /\ Resume(pos, calls) \in Walks /\ Resume(pos, calls).at = pos
      /\ Resume(pos, calls).phase = "loop" /\ Resume(pos, calls).calls = calls
  BY DEF Resume, Walks
<1>2. Owed(calls) \in Nat
  BY OwedType
<1>3. Need(Resume(pos, calls)) = Owed(calls)
  BY <1>1, <1>2 DEF Need
<1> QED
  BY <1>1, <1>2, <1>3 DEF Progress, Good, Work

LEMMA CallValueProgress ==
  ASSUME NEW n \in Nat, NEW pos \in Nat, pos <= n, NEW calls \in Seq(CallFrames),
         StackedOn(n, calls), Len(calls) <= pos, NEW low \in Nat, NEW work \in Int,
         pos + Owed(calls) + 1 >= low, 3 * (n - pos) + Len(calls) < work
  PROVE  Progress(n, CallValue(pos, calls), low, work)
<1>1. /\ CallValue(pos, calls) \in Walks /\ CallValue(pos, calls).at = pos
      /\ CallValue(pos, calls).phase = "value" /\ CallValue(pos, calls).calls = calls
  BY DEF CallValue, Walks
<1>2. Owed(calls) \in Nat
  BY OwedType
<1>3. Need(CallValue(pos, calls)) = Owed(calls) + 1
  BY <1>1, <1>2 DEF Need
<1> QED
  BY <1>1, <1>2, <1>3 DEF Progress, Good, Work

LEMMA CallLoopProgress ==
  ASSUME NEW n \in Nat, NEW pos \in Nat, pos <= n, NEW calls \in Seq(CallFrames),
         StackedOn(n, calls), Len(calls) < pos, NEW low \in Nat, NEW work \in Int,
         NEW major \in 2 .. 5, NEW count \in Int, count <= 2 * n,
         pos + Owed(calls) + (IF count < 0 THEN 1 ELSE count) >= low,
         3 * (n - pos) + Len(calls) + 2 < work
  PROVE  /\ Progress(n, CallLoop(pos, calls, major, count), low, work)
         /\ CallLoop(pos, calls, major, count).at = pos
         /\ Need(CallLoop(pos, calls, major, count))
              = Owed(calls) + (IF count < 0 THEN 1 ELSE count)
<1> DEFINE f    == [major |-> major, left |-> count, owed |-> Owed(calls)]
           more == Append(calls, f)
           due  == IF count < 0 THEN 1 ELSE count
<1>1. /\ more \in Seq(CallFrames) /\ StackedOn(n, more) /\ Len(more) = Len(calls) + 1
      /\ Owed(more) = Owed(calls) + due /\ Owed(calls) \in Nat
  BY PushStacks
<1>2. CallLoop(pos, calls, major, count) = Resume(pos, more)
  BY DEF CallLoop, Called
<1>3. due \in Nat
  OBVIOUS
<1> HIDE DEF f, more
<1>4. /\ Len(more) <= pos /\ pos + Owed(more) >= low /\ 3 * (n - pos) + Len(more) + 1 < work
  BY <1>1, <1>3
<1>5. /\ Progress(n, Resume(pos, more), low, work) /\ Need(Resume(pos, more)) = Owed(more)
  BY <1>1, <1>4, ResumeProgress
<1> QED
  BY <1>1, <1>2, <1>5 DEF Resume

LEMMA SizedProgress ==
  ASSUME NEW n \in Nat, NEW pos \in Nat, pos <= n, NEW calls \in Seq(CallFrames),
         StackedOn(n, calls), Len(calls) < pos, NEW low \in Nat, NEW work \in Int,
         NEW major \in 0 .. 7, NEW value \in Nat,
         pos + Owed(calls) >= low, 3 * (n - pos) + Len(calls) + 2 < work
  PROVE  Progress(n, Sized(n, pos, calls, major, value), low, work)
<1>0. Len(calls) \in Nat /\ Owed(calls) \in Nat
  BY OwedType, LenProperties
<1> DEFINE step == Sized(n, pos, calls, major, value)
<1> SUFFICES Progress(n, step, low, work)
  OBVIOUS
<1> HIDE DEF step
<1>1. CASE major \in {0, 1, 7}
  <2>1. step = Resume(pos, calls)
    <3>1. major \notin 2 .. 5 /\ major # 6
      BY <1>1
    <3> QED
      BY <1>1, <3>1 DEF step, Sized
  <2>2. 3 * (n - pos) + Len(calls) + 1 < work /\ Len(calls) <= pos
    BY <1>0
  <2> QED
    BY <2>1, <2>2, ResumeProgress
<1>2. CASE major = 6
  <2> DEFINE more == Called(calls, 6, 0)
  <2>1. step = CallValue(pos, more)
    BY <1>2 DEF step, Sized, Wrapped
  <2>2. /\ more \in Seq(CallFrames) /\ StackedOn(n, more) /\ Len(more) = Len(calls) + 1
        /\ Owed(more) = Owed(calls)
    BY PushStacks DEF Called
  <2> HIDE DEF more
  <2>3. /\ 3 * (n - pos) + Len(more) < work /\ pos + Owed(more) + 1 >= low
        /\ Len(more) <= pos
    BY <1>0, <2>2
  <2> QED
    BY <2>1, <2>2, <2>3, CallValueProgress
<1>3. CASE major \in 2 .. 5 /\ value > n - pos
  <2>1. step = Result(INCOMPLETE)
    BY <1>3 DEF step, Sized, Fits, Lacking
  <2> QED
    BY <2>1, ResultProgress
<1>4. CASE major \in {2, 3} /\ value <= n - pos
  <2>1. step = Resume(pos + value, calls)
    BY <1>4 DEF step, Sized, Fits
  <2>2. /\ pos + value \in Nat /\ pos + value <= n /\ Len(calls) <= pos + value
        /\ pos + value + Owed(calls) >= low
        /\ 3 * (n - (pos + value)) + Len(calls) + 1 < work
    BY <1>0, <1>4
  <2> QED
    BY <2>1, <2>2, ResumeProgress
<1>5. CASE major \in {4, 5} /\ value <= n - pos
  <2> DEFINE count == IF major = 4 THEN value ELSE 2 * value
  <2>1. step = CallLoop(pos, calls, major, count)
    BY <1>5 DEF step, Sized, Fits
  <2>2. count \in Nat /\ count <= 2 * n
    BY <1>5
  <2> HIDE DEF count
  <2>3. pos + Owed(calls) + (IF count < 0 THEN 1 ELSE count) >= low
    BY <1>0, <2>2
  <2> QED
    BY <1>5, <2>1, <2>2, <2>3, CallLoopProgress
<1> QED
  BY <1>1, <1>2, <1>3, <1>4, <1>5

(* endOfValue, its branches one by one.                                    *)
LEMMA ValueCases ==
  ASSUME NEW buf, NEW n \in Nat, NEW at \in Nat, at < n, NEW calls, NEW b, b = buf[at + 1],
         Major(b) \in 0 .. 7, Info(b) \in 0 .. 31, NEW pos \in Nat, pos = at + 1 + Width(b),
         NEW step, step = ValueStep(buf, n, at, calls)
  PROVE  /\ Info(b) = 31 /\ Major(b) \in 2 .. 5 => step = CallLoop(pos, calls, Major(b), -1)
         /\ Info(b) > 27 /\ ~(Info(b) = 31 /\ Major(b) \in 2 .. 5) => step = Result(MALFORMED)
         /\ Info(b) <= 27 /\ pos > n => step = Result(INCOMPLETE)
         /\ Info(b) <= 27 /\ pos <= n =>
              step = Sized(n, pos, calls, Major(b),
                           IF Info(b) < 24 THEN Info(b)
                           ELSE HeaderValue(SubSeq(buf, at + 2, pos)))
<1>1. CASE Info(b) = 31 /\ Major(b) \in 2 .. 5
  BY <1>1 DEF ValueStep
<1>2. CASE Info(b) > 27 /\ ~(Info(b) = 31 /\ Major(b) \in 2 .. 5)
  BY <1>2 DEF ValueStep
<1>3. CASE Info(b) <= 27 /\ pos > n
  BY <1>3 DEF ValueStep
<1>4. CASE Info(b) <= 27 /\ pos <= n
  BY <1>4 DEF ValueStep
<1> QED
  BY <1>1, <1>2, <1>3, <1>4

(* At least one byte is read, and what a step leaves behind needs what the *)
(* loops below it needed.                                                  *)
LEMMA HeadProgress ==
  ASSUME NEW n \in Nat, NEW at \in Nat, at < n, NEW major \in 0 .. 7, NEW info \in 0 .. 31,
         NEW pos \in Nat, pos >= at + 1, info = 31 => pos = at + 1,
         NEW calls \in Seq(CallFrames), StackedOn(n, calls), Len(calls) <= at, NEW step,
         info = 31 /\ major \in 2 .. 5 => step = CallLoop(pos, calls, major, -1),
         info > 27 /\ ~(info = 31 /\ major \in 2 .. 5) => step = Result(MALFORMED),
         info <= 27 /\ pos > n => step = Result(INCOMPLETE),
         info <= 27 /\ pos <= n =>
           \E value \in Nat : step = Sized(n, pos, calls, major, value)
  PROVE  Progress(n, step, at + Owed(calls) + 1, 3 * (n - at) + Len(calls))
<1> DEFINE low   == at + Owed(calls) + 1
           work  == 3 * (n - at) + Len(calls)
<1>1. Len(calls) \in Nat /\ Owed(calls) \in Nat /\ low \in Nat /\ work \in Int
  BY OwedType, LenProperties
<1>2. /\ Len(calls) < pos /\ pos + Owed(calls) >= low
      /\ 3 * (n - pos) + Len(calls) + 2 < work
  BY <1>1
<1> SUFFICES Progress(n, step, low, work)
  OBVIOUS
<1> HIDE DEF low, work
<1>3. CASE info = 31 /\ major \in 2 .. 5
  <2>1. /\ pos <= n /\ -1 <= 2 * n
        /\ pos + Owed(calls) + (IF -1 < 0 THEN 1 ELSE -1) >= low
    BY <1>1, <1>2, <1>3
  <2>2. step = CallLoop(pos, calls, major, -1) /\ major \in 2 .. 5 /\ -1 \in Int
    BY <1>3
  <2> QED
    BY <1>1, <1>2, <2>1, <2>2, CallLoopProgress
<1>4. CASE info > 27 /\ ~(info = 31 /\ major \in 2 .. 5)
  BY <1>1, <1>4, ResultProgress
<1>5. CASE info <= 27 /\ pos > n
  BY <1>1, <1>5, ResultProgress
<1>6. CASE info <= 27 /\ pos <= n
  <2>1. PICK value \in Nat : step = Sized(n, pos, calls, major, value)
    BY <1>6
  <2> QED
    BY <1>1, <1>2, <1>6, <2>1, SizedProgress
<1> QED
  BY <1>3, <1>4, <1>5, <1>6

LEMMA HeadValue ==
  ASSUME NEW buf \in Seq(0 .. 255), NEW n \in 0 .. Len(buf), NEW at \in Nat,
         at + 1 \in 1 .. Len(buf), NEW pos \in Nat, pos <= n
  PROVE  (IF Info(buf[at + 1]) < 24 THEN Info(buf[at + 1])
          ELSE HeaderValue(SubSeq(buf, at + 2, pos))) \in Nat
<1>1. Info(buf[at + 1]) \in 0 .. 31
  <2>1. buf[at + 1] \in 0 .. 255
    BY ElementOfSeq, Zenon
  <2> QED
    BY <2>1, HeadFacts, Zenon
<1>2. HeaderValue(SubSeq(buf, at + 2, pos)) \in Nat
  <2>1. \A k \in at + 2 .. pos : k \in 1 .. Len(buf)
    OBVIOUS
  <2>2. \A k \in at + 2 .. pos : buf[k] \in 0 .. 255
    BY <2>1, ElementOfSeq, Zenon
  <2>3. SubSeq(buf, at + 2, pos) \in Seq(0 .. 255)
    BY <2>2, SubSeqProperties
  <2> QED
    BY <2>3, HeaderValueType, Zenon
<1>3. \A x \in 0 .. 31 : x \in Nat
  OBVIOUS
<1> QED
  BY <1>1, <1>2, <1>3, Zenon

LEMMA ValueProgress ==
  ASSUME NEW buf \in Seq(0 .. 255), NEW n \in 0 .. Len(buf), NEW at \in Nat, at <= n,
         NEW calls \in Seq(CallFrames), StackedOn(n, calls), Len(calls) <= at
  PROVE  Progress(n, ValueStep(buf, n, at, calls), at + Owed(calls) + 1,
                  3 * (n - at) + Len(calls))
<1> DEFINE b     == buf[at + 1]
           pos   == at + 1 + Width(b)
           value == IF Info(b) < 24 THEN Info(b) ELSE HeaderValue(SubSeq(buf, at + 2, pos))
<1>0. n \in Nat /\ Len(calls) \in Nat /\ Owed(calls) \in Nat
  BY OwedType, LenProperties
<1>1. CASE at >= n
  <2>1. ValueStep(buf, n, at, calls) = Result(INCOMPLETE)
    BY <1>1 DEF ValueStep
  <2>2. at + Owed(calls) + 1 \in Nat /\ 3 * (n - at) + Len(calls) \in Int
    BY <1>0
  <2> QED
    BY <1>0, <2>1, <2>2, ResultProgress
<1>2. CASE at < n
  <2>1. at + 1 \in 1 .. Len(buf)
    BY <1>2
  <2>2. b \in 0 .. 255
    BY <2>1, ElementOfSeq, Zenon
  <2>3. /\ Major(b) \in 0 .. 7 /\ Info(b) \in 0 .. 31
        /\ Width(b) \in 0 .. 8 /\ (Info(b) = 31 => Width(b) = 0)
    BY <2>2, HeadFacts, Zenon
  <2>4. pos \in Nat
    BY <2>3
  <2>5. pos <= n => value \in Nat
    BY <2>1, <2>4, HeadValue
  <2>6. pos >= at + 1 /\ (Info(b) = 31 => pos = at + 1)
    BY <2>3
  <2> DEFINE step == ValueStep(buf, n, at, calls)
  <2>7. /\ Info(b) = 31 /\ Major(b) \in 2 .. 5 => step = CallLoop(pos, calls, Major(b), -1)
        /\ Info(b) > 27 /\ ~(Info(b) = 31 /\ Major(b) \in 2 .. 5) => step = Result(MALFORMED)
        /\ Info(b) <= 27 /\ pos > n => step = Result(INCOMPLETE)
        /\ Info(b) <= 27 /\ pos <= n => step = Sized(n, pos, calls, Major(b), value)
    <3>1. b = buf[at + 1] /\ pos = at + 1 + Width(b) /\ step = ValueStep(buf, n, at, calls)
          /\ value = IF Info(b) < 24 THEN Info(b) ELSE HeaderValue(SubSeq(buf, at + 2, pos))
      OBVIOUS
    <3> HIDE DEF b, pos, value, step
    <3> QED
      BY <1>0, <1>2, <2>3, <2>4, <3>1, ValueCases
  <2> HIDE DEF b, pos, value, step
  <2>8. Info(b) <= 27 /\ pos <= n =>
          \E v \in Nat : step = Sized(n, pos, calls, Major(b), v)
    BY <2>5, <2>7, Zenon
  <2>9. Progress(n, step, at + Owed(calls) + 1, 3 * (n - at) + Len(calls))
    BY <1>0, <1>2, <2>3, <2>4, <2>6, <2>7, <2>8, HeadProgress
  <2> QED
    BY <2>9 DEF step
<1> QED
  BY <1>0, <1>1, <1>2

LEMMA ProgressPasses ==
  ASSUME NEW n \in Nat, NEW w, NEW low \in Nat, NEW work, Progress(n, w, low, work),
         NEW m \in Nat, m < low
  PROVE  Passes(w, m)
<1>1. w \in Walks /\ (w.at >= 0 => w.at + Need(w) >= low)
  BY Zenon DEF Progress, Good
<1>2. w.at \in Int /\ w.calls \in Seq(CallFrames)
  BY <1>1 DEF Walks
<1>3. Need(w) \in Nat
  BY <1>2, OwedType DEF Need
<1> HIDE <1>2
<1>4. w.at \in Int
  BY <1>2
<1> QED
  BY <1>1, <1>3, <1>4 DEF Passes

(* An iteration of a loop.                                                 *)
LEMMA DoneProgress ==
  ASSUME NEW n \in Nat, NEW at \in Nat, at <= n, NEW work \in Int
  PROVE  Progress(n, Result(at), at, work)
<1> DEFINE v == Result(at)
<1>1. v \in Walks /\ v.calls = << >> /\ v.at = at /\ v.phase = "done"
  BY EmptySeq DEF Result, Walks
<1>2. StackedOn(n, << >>)
  BY EmptySeq DEF StackedOn
<1>3. Need(v) = 0
  BY <1>1 DEF Need, Owed
<1> HIDE DEF v
<1>4. Good(n, v)
  BY <1>1, <1>2 DEF Good
<1>5. Progress(n, v, at, work)
  BY <1>1, <1>3, <1>4 DEF Progress
<1> QED
  BY <1>5 DEF v

LEMMA LoopProgress ==
  ASSUME NEW buf, NEW n \in Nat, NEW at \in Nat, at <= n,
         NEW calls \in Seq(CallFrames), StackedOn(n, calls), Len(calls) <= at
  PROVE  Progress(n, LoopStep(buf, n, at, calls), at + Owed(calls),
                  3 * (n - at) + Len(calls) + 1)
<1> DEFINE f     == calls[Len(calls)]
           below == SubSeq(calls, 1, Len(calls) - 1)
           step  == LoopStep(buf, n, at, calls)
           low   == at + Owed(calls)
           work  == 3 * (n - at) + Len(calls) + 1
<1>1. Len(calls) \in Nat /\ Owed(calls) \in Nat /\ low \in Nat /\ work \in Int
  BY OwedType, LenProperties
<1> SUFFICES Progress(n, step, low, work)
  OBVIOUS
<1>2. CASE calls = << >>
  <2>1. step = Result(at)
    BY <1>2 DEF LoopStep
  <2>2. low = at
    BY <1>2 DEF Owed
  <2> HIDE DEF step, low, work
  <2> QED
    BY <1>1, <2>1, <2>2, DoneProgress
<1>3. CASE calls # << >>
  <2>1. /\ f \in CallFrames /\ f.left <= 2 * n
        /\ below \in Seq(CallFrames) /\ Len(below) = Len(calls) - 1 /\ StackedOn(n, below)
        /\ f.owed = Owed(below) /\ Owed(calls) = Due(f)
    BY <1>3, PopStacks
  <2>2. /\ f.left \in Int /\ f.owed \in Nat /\ f.major \in 2 .. 6
        /\ f = [major |-> f.major, left |-> f.left, owed |-> f.owed]
    BY <2>1 DEF CallFrames
  <2>3. /\ f.left = 0 => step = Resume(at, below)
        /\ f.left # 0 /\ at >= n => step = Result(INCOMPLETE)
        /\ f.left # 0 /\ at < n =>
              \/ f.left < 0 /\ step = Resume(at + 1, below)
              \/ step = Result(MALFORMED)
              \/ step = CallValue(at, Append(below,
                            [f EXCEPT !.left = IF f.left < 0 THEN f.left ELSE f.left - 1]))
    <3>1. CASE f.left = 0
      BY <1>3, <2>2, <3>1 DEF LoopStep
    <3>2. CASE f.left # 0 /\ at >= n
      BY <1>3, <2>2, <3>2 DEF LoopStep
    <3>3. CASE f.left # 0 /\ at < n
      BY <1>3, <2>2, <3>3 DEF LoopStep
    <3> QED
      BY <2>2, <3>1, <3>2, <3>3
  <2> HIDE DEF f, below, step
  <2>4. CASE f.left = 0
    <3>1. Owed(below) = Owed(calls)
      BY <2>1, <2>2, <2>4 DEF Due
    <3>2. /\ step = Resume(at, below) /\ Len(below) <= at
          /\ at + Owed(below) >= low /\ 3 * (n - at) + Len(below) + 1 < work
      BY <1>1, <2>1, <2>3, <2>4, <3>1
    <3> HIDE DEF low, work
    <3> QED
      BY <1>1, <2>1, <3>2, ResumeProgress
  <2>5. CASE f.left # 0 /\ at >= n
    <3>1. step = Result(INCOMPLETE)
      BY <2>3, <2>5, Zenon
    <3> HIDE DEF low, work
    <3> QED
      BY <1>1, <3>1, ResultProgress
  <2>6. CASE at < n /\ f.left < 0 /\ step = Resume(at + 1, below)
    <3>1. Owed(calls) = Owed(below) + 1 /\ Owed(below) \in Nat
      BY <2>1, <2>2, <2>6 DEF Due
    <3>2. /\ at + 1 \in Nat /\ at + 1 <= n /\ Len(below) <= at + 1
          /\ at + 1 + Owed(below) >= low /\ 3 * (n - (at + 1)) + Len(below) + 1 < work
      BY <1>1, <2>1, <2>6, <3>1
    <3> HIDE DEF low, work
    <3> QED
      BY <1>1, <2>1, <2>6, <3>2, ResumeProgress
  <2>7. CASE step = Result(MALFORMED)
    <3> HIDE DEF low, work
    <3> QED
      BY <1>1, <2>7, ResultProgress
  <2> DEFINE left == IF f.left < 0 THEN f.left ELSE f.left - 1
             g    == [f EXCEPT !.left = left]
             more == Append(below, g)
  <2>8. CASE f.left # 0 /\ step = CallValue(at, more)
    <3>1. g = [major |-> f.major, left |-> left, owed |-> Owed(below)]
      BY <2>1, <2>2
    <3>2. left \in Int /\ left <= 2 * n
      BY <2>1, <2>2
    <3>3. /\ more \in Seq(CallFrames) /\ StackedOn(n, more)
          /\ Len(more) = Len(below) + 1
          /\ Owed(more) = Owed(below) + (IF left < 0 THEN 1 ELSE left)
          /\ Owed(below) \in Nat
      <4> HIDE DEF left, g
      <4> QED
        BY <2>1, <2>2, <3>1, <3>2, PushStacks
    <3>4. Owed(more) + 1 >= Owed(calls) /\ Len(more) = Len(calls)
      <4> HIDE DEF g, more
      <4>1. Owed(calls) = Owed(below) + (IF f.left < 0 THEN 1 ELSE f.left)
        BY <2>1 DEF Due
      <4>2. Len(more) = Len(calls)
        BY <1>1, <2>1, <3>3
      <4>3. Owed(more) + 1 >= Owed(calls)
        BY <2>2, <2>8, <3>3, <4>1
      <4> QED
        BY <4>2, <4>3
    <3> HIDE DEF left, g, more
    <3>5. /\ Len(more) <= at /\ at + Owed(more) + 1 >= low
          /\ 3 * (n - at) + Len(more) < work
      <4>1. Owed(more) \in Nat
        BY <3>3, OwedType
      <4> QED
        BY <1>1, <3>4, <4>1
    <3> HIDE DEF low, work
    <3> QED
      BY <1>1, <2>8, <3>3, <3>5, CallValueProgress
  <2> QED
    BY <2>2, <2>3, <2>4, <2>5, <2>6, <2>7, <2>8
<1> QED
  BY <1>2, <1>3

(* A call or an iteration of the walks over m and over n bytes.            *)

LEMMA SameCut ==
  ASSUME NEW short, NEW long, short = long, NEW m
  PROVE  Cut(short, long, m)
BY DEF Cut

LEMMA SizedCut ==
  ASSUME NEW n \in Nat, NEW m \in Nat, m <= n, NEW pos \in Nat, pos <= m,
         NEW calls \in Seq(CallFrames), StackedOn(n, calls), Len(calls) < pos,
         NEW major \in 0 .. 7, NEW value \in Nat
  PROVE  Cut(Sized(m, pos, calls, major, value), Sized(n, pos, calls, major, value), m)
<1> DEFINE short == Sized(m, pos, calls, major, value)
           long  == Sized(n, pos, calls, major, value)
<1>0. Len(calls) \in Nat /\ Owed(calls) \in Nat
  BY OwedType, LenProperties
<1>1. CASE major \notin 2 .. 5
  <2>1. short = long
    BY <1>1 DEF Sized
  <2> QED
    BY <2>1, SameCut, Zenon
<1>2. CASE major \in 2 .. 5 /\ value <= m - pos
  <2>1. value <= n - pos
    BY <1>2
  <2>2. short = long
    BY <1>2, <2>1 DEF Sized, Fits
  <2> QED
    BY <2>2, SameCut, Zenon
<1>3. CASE major \in 2 .. 5 /\ value > m - pos
  <2>1. short = Result(INCOMPLETE)
    BY <1>3 DEF Sized, Fits, Lacking
  <2> DEFINE work == 3 * n + Len(calls) + 3
  <2>2. work \in Int /\ m + 1 \in Nat /\ m < m + 1
    BY <1>0
  <2>3. Progress(n, long, m + 1, work)
    <3>1. CASE value > n - pos
      <4>1. long = Result(INCOMPLETE)
        BY <1>3, <3>1 DEF Sized, Fits, Lacking
      <4> QED
        BY <2>2, <4>1, ResultProgress
    <3>2. CASE major \in {2, 3} /\ value <= n - pos
      <4>1. long = Resume(pos + value, calls)
        BY <3>2 DEF Sized, Fits
      <4>2. /\ pos + value \in Nat /\ pos + value <= n /\ Len(calls) <= pos + value
            /\ pos + value + Owed(calls) >= m + 1
            /\ 3 * (n - (pos + value)) + Len(calls) + 1 < work
        BY <1>0, <1>3, <3>2
      <4> HIDE DEF work, long
      <4> SUFFICES Progress(n, long, m + 1, work)
        BY DEF long
      <4> QED
        BY <2>2, <4>1, <4>2, ResumeProgress
    <3>3. CASE major \in {4, 5} /\ value <= n - pos
      <4> DEFINE count == IF major = 4 THEN value ELSE 2 * value
      <4>1. long = CallLoop(pos, calls, major, count)
        BY <3>3 DEF Sized, Fits
      <4>2. count \in Nat /\ count <= 2 * n /\ count >= value
        BY <3>3
      <4> HIDE DEF count
      <4>3. /\ pos + Owed(calls) + (IF count < 0 THEN 1 ELSE count) >= m + 1
            /\ 3 * (n - pos) + Len(calls) + 2 < work
        BY <1>0, <1>3, <4>2
      <4> HIDE DEF work, long
      <4> SUFFICES Progress(n, long, m + 1, work)
        BY DEF long
      <4> QED
        BY <2>2, <3>3, <4>1, <4>2, <4>3, CallLoopProgress
    <3> QED
      BY <1>3, <3>1, <3>2, <3>3
  <2>4. Passes(long, m)
    <3> HIDE DEF work, long
    <3> QED
      BY <2>2, <2>3, ProgressPasses DEF long
  <2> QED
    BY <2>1, <2>4 DEF Cut
<1> QED
  BY <1>1, <1>2, <1>3

LEMMA LoopCut ==
  ASSUME NEW buf, NEW n \in Nat, NEW m \in Nat, m <= n, NEW at \in Nat, at <= m,
         NEW calls \in Seq(CallFrames), StackedOn(n, calls), Len(calls) <= at
  PROVE  Cut(LoopStep(buf, m, at, calls), LoopStep(buf, n, at, calls), m)
<1> DEFINE f     == calls[Len(calls)]
           short == LoopStep(buf, m, at, calls)
           long  == LoopStep(buf, n, at, calls)
<1>1. CASE calls = << >>
  <2>1. short = long
    BY <1>1 DEF LoopStep
  <2> QED
    BY <2>1, SameCut, Zenon
<1>2. CASE calls # << >>
  <2>1. f.left \in Int /\ f.owed \in Nat /\ Owed(calls) = Due(f)
    BY <1>2, PopStacks DEF CallFrames
  <2>2. CASE f.left = 0
    <3>1. short = long
      BY <1>2, <2>1, <2>2 DEF LoopStep
    <3> QED
      BY <3>1, SameCut, Zenon
  <2>3. CASE f.left # 0 /\ at < m
    <3>1. at < n
      BY <2>3
    <3>2. short = long
      BY <1>2, <2>1, <2>3, <3>1 DEF LoopStep
    <3> QED
      BY <3>2, SameCut, Zenon
  <2>4. CASE f.left # 0 /\ at >= m
    <3>1. short = Result(INCOMPLETE)
      BY <1>2, <2>1, <2>4 DEF LoopStep
    <3>2. at + Owed(calls) \in Nat /\ m < at + Owed(calls)
      <4> HIDE DEF f
      <4>1. Owed(calls) = f.owed + (IF f.left < 0 THEN 1 ELSE f.left)
        BY <2>1 DEF Due
      <4>2. Owed(calls) \in Nat /\ Owed(calls) >= 1
        BY <2>1, <2>4, <4>1
      <4> QED
        BY <2>4, <4>2
    <3>3. Progress(n, long, at + Owed(calls), 3 * (n - at) + Len(calls) + 1)
      BY LoopProgress
    <3>4. Passes(long, m)
      <4> HIDE DEF long
      <4> QED
        BY <3>2, <3>3, ProgressPasses DEF long
    <3> QED
      BY <3>1, <3>4 DEF Cut
  <2> QED
    BY <2>1, <2>2, <2>3, <2>4
<1> QED
  BY <1>1, <1>2

LEMMA HeadCut ==
  ASSUME NEW n \in Nat, NEW m \in Nat, m <= n, NEW at \in Nat, at < m,
         NEW buf, NEW b, b = buf[at + 1], Major(b) \in 0 .. 7, Info(b) \in 0 .. 31,
         NEW pos \in Nat, pos = at + 1 + Width(b), NEW calls
  PROVE  \/ ValueStep(buf, m, at, calls) = ValueStep(buf, n, at, calls)
         \/ /\ Info(b) <= 27 /\ pos > m /\ pos <= n
            /\ ValueStep(buf, m, at, calls) = Result(INCOMPLETE)
            /\ ValueStep(buf, n, at, calls)
                 = Sized(n, pos, calls, Major(b),
                         IF Info(b) < 24 THEN Info(b)
                         ELSE HeaderValue(SubSeq(buf, at + 2, pos)))
         \/ /\ Info(b) <= 27 /\ pos <= m
            /\ LET value == IF Info(b) < 24 THEN Info(b)
                            ELSE HeaderValue(SubSeq(buf, at + 2, pos)) IN
               /\ ValueStep(buf, m, at, calls) = Sized(m, pos, calls, Major(b), value)
               /\ ValueStep(buf, n, at, calls) = Sized(n, pos, calls, Major(b), value)
<1>0. at < n
  OBVIOUS
<1>1. CASE Info(b) > 27
  BY <1>0, <1>1 DEF ValueStep
<1>2. CASE Info(b) <= 27 /\ pos > n
  <2>1. pos > m
    BY <1>2
  <2> QED
    BY <1>0, <1>2, <2>1 DEF ValueStep
<1>3. CASE Info(b) <= 27 /\ pos > m /\ pos <= n
  BY <1>0, <1>3 DEF ValueStep
<1>4. CASE Info(b) <= 27 /\ pos <= m
  <2>1. pos <= n
    BY <1>4
  <2> QED
    BY <1>0, <1>4, <2>1 DEF ValueStep
<1> QED
  BY <1>1, <1>2, <1>3, <1>4

LEMMA ValueCut ==
  ASSUME NEW buf \in Seq(0 .. 255), NEW n \in 0 .. Len(buf), NEW m \in 0 .. n,
         NEW at \in Nat, at <= m,
         NEW calls \in Seq(CallFrames), StackedOn(n, calls), Len(calls) <= at
  PROVE  Cut(ValueStep(buf, m, at, calls), ValueStep(buf, n, at, calls), m)
<1> DEFINE b     == buf[at + 1]
           pos   == at + 1 + Width(b)
           value == IF Info(b) < 24 THEN Info(b) ELSE HeaderValue(SubSeq(buf, at + 2, pos))
           short == ValueStep(buf, m, at, calls)
           long  == ValueStep(buf, n, at, calls)
<1>0. n \in Nat /\ m \in Nat /\ m <= n /\ Len(calls) \in Nat /\ Owed(calls) \in Nat
  BY OwedType, LenProperties
<1>1. Progress(n, long, at + Owed(calls) + 1, 3 * (n - at) + Len(calls))
  BY <1>0, ValueProgress
<1>2. CASE at >= m
  <2>1. short = Result(INCOMPLETE)
    BY <1>2 DEF ValueStep
  <2>2. at + Owed(calls) + 1 \in Nat /\ m < at + Owed(calls) + 1
    BY <1>0, <1>2
  <2>3. Passes(long, m)
    <3> HIDE DEF long
    <3> QED
      BY <1>0, <1>1, <2>2, ProgressPasses DEF long
  <2> QED
    BY <2>1, <2>3 DEF Cut
<1>3. CASE at < m
  <2>1. at + 1 \in 1 .. Len(buf)
    BY <1>3
  <2>2. b \in 0 .. 255
    BY <2>1, ElementOfSeq, Zenon
  <2>3. /\ Major(b) \in 0 .. 7 /\ Info(b) \in 0 .. 31
        /\ Width(b) \in 0 .. 8 /\ (Info(b) = 31 => Width(b) = 0)
    BY <2>2, HeadFacts, Zenon
  <2>4. pos \in Nat /\ pos >= at + 1
    BY <2>3
  <2>5. \/ short = long
        \/ /\ Info(b) <= 27 /\ pos > m /\ pos <= n /\ short = Result(INCOMPLETE)
           /\ long = Sized(n, pos, calls, Major(b), value)
        \/ /\ Info(b) <= 27 /\ pos <= m
           /\ short = Sized(m, pos, calls, Major(b), value)
           /\ long = Sized(n, pos, calls, Major(b), value)
    <3>1. b = buf[at + 1] /\ pos = at + 1 + Width(b)
      OBVIOUS
    <3> HIDE DEF b, pos
    <3> QED
      BY <1>0, <1>3, <2>3, <2>4, <3>1, HeadCut
  <2>6. pos <= n => value \in Nat
    BY <2>1, <2>4, HeadValue
  <2>7. Len(calls) < pos
    BY <1>0, <2>4
  <2> SUFFICES Cut(short, long, m)
    OBVIOUS
  <2> HIDE DEF b, pos, value, short, long
  <2>8. CASE /\ Info(b) <= 27 /\ pos > m /\ pos <= n /\ short = Result(INCOMPLETE)
             /\ long = Sized(n, pos, calls, Major(b), value)
    <3> DEFINE low  == pos + Owed(calls)
               work == 3 * n + Len(calls) + 3
    <3>1. low \in Nat /\ work \in Int /\ low >= pos /\ m < low
      BY <1>0, <2>4, <2>8
    <3>2. 3 * (n - pos) + Len(calls) + 2 < work
      BY <1>0, <2>4
    <3>3. pos + Owed(calls) >= low
      BY <3>1
    <3> HIDE DEF low, work
    <3>4. Progress(n, long, low, work)
      BY <1>0, <2>3, <2>4, <2>6, <2>7, <2>8, <3>1, <3>2, <3>3, SizedProgress
    <3>5. Passes(long, m)
      BY <1>0, <3>1, <3>4, ProgressPasses
    <3> QED
      BY <2>8, <3>5, Zenon DEF Cut
  <2>9. CASE /\ Info(b) <= 27 /\ pos <= m
             /\ short = Sized(m, pos, calls, Major(b), value)
             /\ long = Sized(n, pos, calls, Major(b), value)
    <3>1. value \in Nat
      BY <1>0, <2>4, <2>6, <2>9
    <3>2. Cut(Sized(m, pos, calls, Major(b), value), Sized(n, pos, calls, Major(b), value), m)
      BY <1>0, <2>3, <2>4, <2>7, <2>9, <3>1, SizedCut
    <3> QED
      BY <2>9, <3>2, Zenon
  <2> QED
    BY <2>5, <2>8, <2>9, SameCut, Zenon
<1> QED
  BY <1>0, <1>2, <1>3

(* A step of a walk that is under way.                                     *)
LEMMA StepProgress ==
  ASSUME NEW buf \in Seq(0 .. 255), NEW n \in 0 .. Len(buf), NEW w, Good(n, w),
         w.phase # "done"
  PROVE  Progress(n, WalkStep(buf, n, w), w.at + Need(w), Work(n, w))
<1>1. /\ w.at \in Nat /\ w.at <= n /\ w.calls \in Seq(CallFrames)
      /\ StackedOn(n, w.calls) /\ Len(w.calls) <= w.at /\ w.phase \in {"value", "loop"}
  BY DEF Good, Walks
<1>2. n \in Nat /\ Owed(w.calls) \in Nat /\ Len(w.calls) \in Nat
  BY <1>1, OwedType, LenProperties
<1>3. CASE w.phase = "value"
  <2>1. WalkStep(buf, n, w) = ValueStep(buf, n, w.at, w.calls)
    BY <1>3 DEF WalkStep
  <2>2. w.at + Need(w) = w.at + Owed(w.calls) + 1
    <3>1. Need(w) = Owed(w.calls) + 1
      BY <1>3 DEF Need
    <3>2. \A x, y \in Nat : x + (y + 1) = x + y + 1
      OBVIOUS
    <3> QED
      BY <1>1, <1>2, <3>1, <3>2, Zenon
  <2>3. Work(n, w) = 3 * (n - w.at) + Len(w.calls)
    BY <1>1, <1>2, <1>3 DEF Work
  <2> QED
    BY <1>1, <2>1, <2>2, <2>3, ValueProgress, Zenon
<1>4. CASE w.phase = "loop"
  <2>1. WalkStep(buf, n, w) = LoopStep(buf, n, w.at, w.calls)
    BY <1>4 DEF WalkStep
  <2>2. w.at + Need(w) = w.at + Owed(w.calls)
    BY <1>1, <1>2, <1>4 DEF Need
  <2>3. Work(n, w) = 3 * (n - w.at) + Len(w.calls) + 1
    BY <1>1, <1>2, <1>4 DEF Work
  <2> QED
    BY <1>1, <1>2, <2>1, <2>2, <2>3, LoopProgress, Zenon
<1> QED
  BY <1>1, <1>3, <1>4

LEMMA StepCut ==
  ASSUME NEW buf \in Seq(0 .. 255), NEW n \in 0 .. Len(buf), NEW m \in 0 .. n,
         NEW w, Good(n, w), w.phase # "done", w.at <= m
  PROVE  Cut(WalkStep(buf, m, w), WalkStep(buf, n, w), m)
<1>1. /\ w.at \in Nat /\ w.calls \in Seq(CallFrames)
      /\ StackedOn(n, w.calls) /\ Len(w.calls) <= w.at /\ w.phase \in {"value", "loop"}
  BY DEF Good, Walks
<1>2. n \in Nat /\ m \in Nat /\ m <= n
  OBVIOUS
<1>3. CASE w.phase = "value"
  <2>1. /\ WalkStep(buf, n, w) = ValueStep(buf, n, w.at, w.calls)
        /\ WalkStep(buf, m, w) = ValueStep(buf, m, w.at, w.calls)
    BY <1>3 DEF WalkStep
  <2> QED
    BY <1>1, <2>1, ValueCut, Zenon
<1>4. CASE w.phase = "loop"
  <2>1. /\ WalkStep(buf, n, w) = LoopStep(buf, n, w.at, w.calls)
        /\ WalkStep(buf, m, w) = LoopStep(buf, m, w.at, w.calls)
    BY <1>4 DEF WalkStep
  <2> QED
    BY <1>1, <1>2, <2>1, LoopCut, Zenon
<1> QED
  BY <1>1, <1>3, <1>4

(* The walks over m and over n bytes stay the same, or stay told apart.    *)
LEMMA SameStep ==
  ASSUME NEW buf \in Seq(0 .. 255), NEW n \in 0 .. Len(buf), NEW m \in 0 .. n,
         NEW short, NEW long, Good(m, short), Good(n, long), Cut(short, long, m)
  PROVE  Cut(WalkStep(buf, m, short), WalkStep(buf, n, long), m)
<1>0. n \in Nat /\ m \in Nat /\ m <= n
  OBVIOUS
<1>1. CASE long.phase = "done"
  <2>1. WalkStep(buf, n, long) = long
    BY <1>1 DEF WalkStep
  <2>2. short.phase = "done"
    BY <1>1 DEF Cut, Result
  <2>3. WalkStep(buf, m, short) = short
    BY <2>2 DEF WalkStep
  <2> QED
    BY <2>1, <2>3, Zenon
<1>2. CASE short = long /\ long.phase # "done"
  <2>1. long.at <= m
    BY <1>2, Zenon DEF Good
  <2> QED
    BY <1>2, <2>1, StepCut, Zenon
<1>3. CASE short = Result(INCOMPLETE) /\ Passes(long, m) /\ long.phase # "done"
  <2>1. WalkStep(buf, m, short) = short
    BY <1>3 DEF WalkStep, Result
  <2>2. /\ long.at \in Nat /\ long.calls \in Seq(CallFrames) /\ Need(long) \in Nat
    <3>1. long.at \in Nat /\ long.calls \in Seq(CallFrames)
      BY <1>3 DEF Good, Walks
    <3> QED
      BY <3>1, OwedType DEF Need
  <2>3. long.at + Need(long) \in Nat /\ m < long.at + Need(long)
    BY <1>0, <1>3, <2>2 DEF Passes
  <2>4. Passes(WalkStep(buf, n, long), m)
    BY <1>0, <1>3, <2>3, StepProgress, ProgressPasses
  <2> QED
    BY <1>3, <2>1, <2>4, Zenon DEF Cut
<1> QED
  BY <1>1, <1>2, <1>3 DEF Cut

LEMMA StartGood ==
  ASSUME NEW n \in Nat
  PROVE  WalkStart \in Walks /\ Good(n, WalkStart) /\ Work(n, WalkStart) = 3 * n
         /\ WalkStart.phase # "done"
<1>1. /\ WalkStart \in Walks /\ WalkStart.at = 0 /\ WalkStart.phase = "value"
      /\ WalkStart.calls = << >> /\ Len(WalkStart.calls) = 0
  BY EmptySeq DEF WalkStart, CallValue, Walks
<1>2. StackedOn(n, << >>)
  BY EmptySeq DEF StackedOn
<1> QED
  BY <1>1, <1>2 DEF Good, Work

LEMMA CutsStart == WalksInit => CutsInv
<1> SUFFICES ASSUME WalksInit PROVE CutsInv
  OBVIOUS
<1>1. bytes \in Seq(0 .. 255) /\ steps = 0 /\ walks = [n \in 0 .. Len(bytes) |-> WalkStart]
  BY StreamsAssumption DEF WalksInit
<1>2. \A n \in 0 .. Len(bytes) : n \in Nat /\ (\A m \in 0 .. n : m \in 0 .. Len(bytes))
  BY <1>1, LenProperties
<1>3. \A n \in 0 .. Len(bytes) : walks[n] = WalkStart
  BY <1>1
<1>4. \A n \in 0 .. Len(bytes) : /\ WalkStart \in Walks /\ Good(n, WalkStart)
                                /\ Work(n, WalkStart) = 3 * n
  BY <1>2, StartGood, Zenon
<1>5. walks \in [0 .. Len(bytes) -> Walks]
  BY <1>1, <1>4, Zenon
<1>6. \A n \in 0 .. Len(bytes) : steps + Work(n, walks[n]) <= 3 * n
  <2>1. \A n \in Nat : 0 + 3 * n <= 3 * n
    OBVIOUS
  <2> QED
    BY <1>1, <1>2, <1>3, <1>4, <2>1, Zenon
<1>7. \A n \in 0 .. Len(bytes) : \A m \in 0 .. n : Cut(walks[m], walks[n], m)
  BY <1>2, <1>3, SameCut, Zenon
<1>8. \A n \in 0 .. Len(bytes) : Good(n, walks[n])
  BY <1>3, <1>4, Zenon
<1>9. steps \in Nat
  BY <1>1
<1> QED
  BY <1>1, <1>5, <1>6, <1>7, <1>8, <1>9, Zenon DEF CutsInv

LEMMA CutsStep == CutsInv /\ [WalksNext]_walkVars => CutsInv'
<1> SUFFICES ASSUME CutsInv, [WalksNext]_walkVars PROVE CutsInv'
  OBVIOUS
<1>1. CASE UNCHANGED walkVars
  BY <1>1 DEF walkVars, CutsInv, Cut
<1>2. CASE WalksNext
  <2>1. /\ bytes \in Seq(0 .. 255) /\ steps \in Nat
        /\ walks \in [0 .. Len(bytes) -> Walks]
        /\ \A n \in 0 .. Len(bytes) : Good(n, walks[n])
        /\ \A n \in 0 .. Len(bytes) :
             walks[n].phase # "done" => steps + Work(n, walks[n]) <= 3 * n
        /\ \A n \in 0 .. Len(bytes) : \A m \in 0 .. n : Cut(walks[m], walks[n], m)
    BY DEF CutsInv
  <2>2. bytes' = bytes /\ steps' = steps + 1 /\ steps' \in Nat
    BY <1>2, <2>1 DEF WalksNext
  <2>3. walks' = [n \in 0 .. Len(bytes) |-> WalkStep(bytes, n, walks[n])]
    BY <1>2, <2>1 DEF WalksNext
  <2>4. \A n \in 0 .. Len(bytes) : walks'[n] = WalkStep(bytes, n, walks[n])
    BY <2>3
  <2>5. \A n \in 0 .. Len(bytes) : n \in Nat /\ (\A m \in 0 .. n : m \in 0 .. Len(bytes))
    BY <2>1, LenProperties
  <2>6. ASSUME NEW n \in 0 .. Len(bytes)
        PROVE  /\ Good(n, walks'[n])
               /\ walks'[n].phase # "done" => steps' + Work(n, walks'[n]) <= 3 * n
    <3>1. CASE walks[n].phase = "done"
      <4>1. walks'[n] = walks[n]
        BY <2>4, <3>1 DEF WalkStep
      <4> QED
        BY <2>1, <3>1, <4>1
    <3>2. CASE walks[n].phase # "done"
      <4>1. Progress(n, walks'[n], walks[n].at + Need(walks[n]), Work(n, walks[n]))
        BY <2>1, <2>4, <3>2, StepProgress, Zenon
      <4>2. /\ Good(n, walks'[n])
            /\ walks'[n].phase # "done" => Work(n, walks'[n]) < Work(n, walks[n])
        BY <4>1, Zenon DEF Progress
      <4>3. steps + Work(n, walks[n]) <= 3 * n
        BY <2>1, <3>2
      <4>4. Work(n, walks'[n]) \in Int /\ Work(n, walks[n]) \in Int
        <5>1. \A w \in Walks : Work(n, w) \in Int
          <6> TAKE w \in Walks
          <6>1. w.at \in Int /\ Len(w.calls) \in Nat
            BY LenProperties DEF Walks
          <6> QED
            BY <2>5, <6>1 DEF Work
        <5>2. walks[n] \in Walks /\ walks'[n] \in Walks
          BY <2>1, <4>2 DEF Good
        <5> QED
          BY <5>1, <5>2, Zenon
      <4>5. \A x, y \in Int : x < y /\ steps + y <= 3 * n => steps + 1 + x <= 3 * n
        BY <2>1, <2>5
      <4> QED
        BY <2>2, <4>2, <4>3, <4>4, <4>5, Zenon
    <3> QED
      BY <3>1, <3>2
  <2>7. ASSUME NEW n \in 0 .. Len(bytes), NEW m \in 0 .. n
        PROVE  Cut(walks'[m], walks'[n], m)
    BY <2>1, <2>4, <2>5, SameStep, Zenon
  <2>8. walks' \in [0 .. Len(bytes) -> Walks]
    <3>1. \A n \in 0 .. Len(bytes) : WalkStep(bytes, n, walks[n]) \in Walks
      BY <2>4, <2>6, Zenon DEF Good
    <3> QED
      BY <2>3, <3>1, Zenon
  <2> QED
    BY <2>1, <2>2, <2>6, <2>7, <2>8, Zenon DEF CutsInv
<1> QED
  BY <1>1, <1>2 DEF CutsInv

(* The invariant of the walks over all prefixes of a stream.               *)
THEOREM WalkInvariance == WalksSpec => []CutsInv
<1> QED
  BY CutsStart, CutsStep, PTL DEF WalksSpec

(* JadeSerialLink's answer does not depend on the reads its stream arrives *)
(* in (Links.kt:370-379), whatever the device sends: CutsAgree.            *)
THEOREM CutsAlwaysAgree == WalksSpec => []CutsAgree
<1>1. CutsInv => CutsAgree
  <2> SUFFICES ASSUME CutsInv, NEW n \in 0 .. Len(bytes), IsDone(n), NEW m \in 0 .. n
               PROVE  /\ EndFor(n) >= 0 =>
                           /\ IsDone(m)
                           /\ EndFor(m) = IF EndFor(n) <= m THEN EndFor(n) ELSE INCOMPLETE
                      /\ IsDone(m) /\ EndFor(m) # INCOMPLETE => EndFor(n) = EndFor(m)
    <3>1. CutsInv => DOMAIN walks = 0 .. Len(bytes)
      BY DEF CutsInv
    <3> QED
      BY <3>1, Zenon DEF CutsAgree
  <2>1. /\ m \in 0 .. Len(bytes) /\ n \in Nat /\ m \in Nat
    BY LenProperties DEF CutsInv
  <2>2. Good(n, walks[n]) /\ Good(m, walks[m]) /\ Cut(walks[m], walks[n], m)
    BY <2>1 DEF CutsInv
  <2>3. walks[n].at \in Int /\ walks[n].calls = << >> /\ walks[n].phase = "done"
    BY <2>2 DEF Good, Walks, IsDone
  <2>4. CASE walks[m] = walks[n]
    <3>1. walks[n].at <= m
      BY <2>2, <2>4, Zenon DEF Good
    <3> QED
      BY <2>3, <2>4, <3>1 DEF EndFor, IsDone
  <2>5. CASE walks[m] = Result(INCOMPLETE) /\ Passes(walks[n], m)
    <3>1. walks[m].phase = "done" /\ walks[m].at = INCOMPLETE
      BY <2>5 DEF Result
    <3>2. Need(walks[n]) = 0
      BY <2>3 DEF Need, Owed
    <3>3. walks[n].at >= 0 => walks[n].at > m
      BY <2>1, <2>3, <2>5, <3>2 DEF Passes
    <3>4. walks[n].at >= 0 => ~(walks[n].at <= m)
      BY <2>1, <2>3, <3>3
    <3> QED
      BY <3>1, <3>4, Zenon DEF EndFor, IsDone
  <2> QED
    BY <2>2, <2>4, <2>5 DEF Cut
<1> QED
  BY <1>1, WalkInvariance, PTL

(* No walk leaves its bytes, recurses deeper than it has read, or counts   *)
(* beyond an Int while there is less than 1 GiB: WalkStaysInside.          *)
THEOREM WalkAlwaysInside == WalksSpec => []WalkStaysInside
<1>1. CutsInv => WalkStaysInside
  <2> SUFFICES ASSUME CutsInv, NEW n \in 0 .. Len(bytes)
               PROVE  /\ walks[n].at <= n /\ Len(walks[n].calls) <= n
                      /\ 2 * n <= MaxInt =>
                           \A k \in DOMAIN walks[n].calls : walks[n].calls[k].left <= MaxInt
    <3>1. CutsInv => DOMAIN walks = 0 .. Len(bytes)
      BY DEF CutsInv
    <3> QED
      BY <3>1, Zenon DEF WalkStaysInside
  <2>1. n \in Nat /\ Good(n, walks[n])
    BY LenProperties DEF CutsInv
  <2>2. walks[n].at <= n /\ StackedOn(n, walks[n].calls) /\ walks[n] \in Walks
    BY <2>1 DEF Good
  <2>3. walks[n].at \in Int /\ walks[n].calls \in Seq(CallFrames)
    BY <2>2 DEF Walks
  <2>4. Len(walks[n].calls) <= n
    <3>1. CASE walks[n].phase = "done"
      <4>1. Len(walks[n].calls) = 0
        BY <2>1, <3>1, EmptySeq DEF Good
      <4> QED
        BY <2>1, <4>1
    <3>2. CASE walks[n].phase # "done"
      <4>1. Len(walks[n].calls) <= walks[n].at /\ Len(walks[n].calls) \in Nat
        BY <2>1, <2>3, <3>2, LenProperties DEF Good
      <4> QED
        BY <2>1, <2>2, <2>3, <4>1
    <3> QED
      BY <3>1, <3>2
  <2>5. ASSUME 2 * n <= MaxInt, NEW k \in DOMAIN walks[n].calls
        PROVE  walks[n].calls[k].left <= MaxInt
    <3>1. walks[n].calls[k].left <= 2 * n
      BY <2>2, Zenon DEF StackedOn
    <3>2. walks[n].calls[k] \in CallFrames
      BY <2>3, ElementOfSeq, LenProperties
    <3>3. walks[n].calls[k].left \in Int
      BY <3>2 DEF CallFrames
    <3>4. MaxInt \in Int
      BY SMT DEF MaxInt
    <3>5. \A x, y \in Int : x <= 2 * n /\ 2 * n <= y => x <= y
      BY <2>1
    <3> QED
      BY <2>5, <3>1, <3>3, <3>4, <3>5, Zenon
  <2> QED
    BY <2>2, <2>4, <2>5, Zenon
<1> QED
  BY <1>1, WalkInvariance, PTL

(* A walk over n bytes ends after at most 3 * n steps, and JadeSerialLink  *)
(* with it: WalkIsLinear.                                                  *)
THEOREM WalkAlwaysLinear == WalksSpec => []WalkIsLinear
<1>1. CutsInv => WalkIsLinear
  <2> SUFFICES ASSUME CutsInv, NEW n \in 0 .. Len(bytes), ~IsDone(n)
               PROVE  steps <= 3 * n
    <3>1. CutsInv => DOMAIN walks = 0 .. Len(bytes)
      BY DEF CutsInv
    <3> QED
      BY <3>1, Zenon DEF WalkIsLinear
  <2>1. /\ n \in Nat /\ steps \in Nat /\ Good(n, walks[n])
        /\ steps + Work(n, walks[n]) <= 3 * n
    BY LenProperties DEF CutsInv, IsDone
  <2>2. walks[n].at \in Int /\ walks[n].calls \in Seq(CallFrames) /\ walks[n].at <= n
    BY <2>1 DEF Good, Walks
  <2>3. Work(n, walks[n]) \in Nat
    <3>1. Len(walks[n].calls) \in Nat
      BY <2>2, LenProperties
    <3> HIDE <2>2
    <3>2. \A x \in Int, y \in Nat, z \in {0, 1} : x <= n => 3 * (n - x) + y + z \in Nat
      BY <2>1
    <3>3. (IF walks[n].phase = "loop" THEN 1 ELSE 0) \in {0, 1}
      OBVIOUS
    <3> QED
      BY <2>2, <3>1, <3>2, <3>3, Zenon DEF Work
  <2> QED
    BY <2>1, <2>3
<1> QED
  BY <1>1, WalkInvariance, PTL

(* The two together: what JadeSerialLink does with a stream is bounded by  *)
(* its length, whatever it announces.                                      *)
THEOREM WalkAlwaysBounded == WalksSpec => []WalkIsBounded
<1>1. WalkStaysInside /\ WalkIsLinear => WalkIsBounded
  BY DEF WalkIsBounded
<1> QED
  BY <1>1, WalkAlwaysInside, WalkAlwaysLinear, PTL
=============================================================================
