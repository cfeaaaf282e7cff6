-------------------------- MODULE TrezorLinkProofs --------------------------
(***************************************************************************)
(* Proofs about TrezorLink for any callers and any number and length of the *)
(* exchanges: an exchange returns the answer to its own request, a link    *)
(* that can be claimed is quiet, and the link is a RetiringLink.           *)
(***************************************************************************)
EXTENDS TrezorLink, SequenceTheorems, TLAPS

USE TrezorAssumption

-----------------------------------------------------------------------------
(* The inductive invariant. *)

Packet(r, k, n) == [req |-> r, no |-> k, of |-> n]

(* s is the packets m + 1, m + 2, ... of an n-packet message for r. *)
Row(s, r, m, n) == \A k \in 1 .. Len(s) : s[k] = Packet(r, m + k, n)

(* What a caller knows of its request and its answer before it has claimed *)
(* the link.                                                               *)
Local ==
  \A c \in Callers :
    /\ pc[c] # "idle" => req[c] \in Requests /\ length[c] \in 1 .. MaxPackets
    /\ pc[c] \in {"idle", "frame", "claim"} => sent[c] = 0 /\ answer[c] = << >>

(* The compare-and-set lets one caller in. *)
Claimed == \A c \in Inside : ~ready /\ \A d \in Inside : d = c

(* The packets of the request are on their way to the device or in it.     *)
Asking(c) ==
  /\ answer[c] = << >> /\ toHost = << >>
  /\ Len(assembly) + Len(toDevice) = sent[c]
  /\ Row(assembly, req[c], 0, length[c])
  /\ Row(toDevice, req[c], Len(assembly), length[c])

(* The answer, n packets or a malformed one, is on its way to the host. *)
Arriving(c, n) ==
  /\ Len(answer[c]) + Len(toHost) = n
  /\ Row(answer[c], req[c], 0, n)
  /\ Row(toHost, req[c], Len(answer[c]), n)

Answering(c) ==
  /\ assembly = << >> /\ toDevice = << >>
  /\ sent[c] = length[c]
  /\ \/ \E n \in 1 .. MaxPackets : Arriving(c, n)
     \/ answer[c] = << >> /\ toHost = <<BadPacket>>
     \/ answer[c] = <<BadPacket>> /\ toHost = << >>

(* The exchange of the caller inside, by its place. *)
Exchanging(c) ==
  /\ sent[c] \in 0 .. length[c]
  /\ pc[c] = "claimed?" => sent[c] = 0 /\ Asking(c)
  /\ pc[c] = "send" => sent[c] < length[c] /\ Asking(c)
  /\ pc[c] = "sent?" => answer[c] = << >> /\ (Asking(c) \/ Answering(c))
  /\ pc[c] = "receive" => /\ sent[c] = length[c]
                          /\ Asking(c) \/ Answering(c)
                          /\ answer[c] # << >> =>
                               ~Malformed(c) /\ Len(answer[c]) < answer[c][1].of
  /\ pc[c] = "received?" => answer[c] # << >> /\ Answering(c)
  /\ pc[c] \in {"done?", "ready"} =>
       /\ answer[c] # << >> /\ Answering(c)
       /\ ~Malformed(c) /\ Len(answer[c]) >= answer[c][1].of

IInv ==
  /\ TypeOK /\ Local /\ Claimed /\ ReadyIsQuiet
  /\ \A c \in Inside : Exchanging(c)
-----------------------------------------------------------------------------
(* Rows of packets. *)

Any == Packets \cup {BadPacket}

LEMMA PacketTyped ==
  ASSUME NEW r \in Requests, NEW n \in 1 .. MaxPackets, NEW k \in 1 .. n
  PROVE  Packet(r, k, n) \in Packets /\ Packet(r, k, n) # BadPacket
BY DEF Packet, Packets, BadPacket, Requests

LEMMA RowOfNone ==
  ASSUME NEW r, NEW m, NEW n
  PROVE  Row(<< >>, r, m, n) /\ Len(<< >>) = 0
BY DEF Row

LEMMA RowMessage ==
  ASSUME NEW r \in Requests, NEW n \in 1 .. MaxPackets
  PROVE  /\ Message(r, n) \in Seq(Packets) /\ Len(Message(r, n)) = n
         /\ Row(Message(r, n), r, 0, n)
<1>1. \A k \in 1 .. n : Message(r, n)[k] = Packet(r, k, n) /\ Packet(r, k, n) \in Packets
  BY PacketTyped DEF Message, Packet
<1>2. Message(r, n) \in Seq(Packets) /\ Len(Message(r, n)) = n
  BY <1>1 DEF Message
<1>3. \A k \in 1 .. n : 0 + k = k
  OBVIOUS
<1> QED
  BY <1>1, <1>2, <1>3 DEF Row

LEMMA RowAppend ==
  ASSUME NEW S, NEW s \in Seq(S), NEW r, NEW m \in Nat, NEW n, Row(s, r, m, n),
         Packet(r, m + Len(s) + 1, n) \in S
  PROVE  LET t == Append(s, Packet(r, m + Len(s) + 1, n))
         IN t \in Seq(S) /\ Len(t) = Len(s) + 1 /\ Row(t, r, m, n)
<1> DEFINE e == Packet(r, m + Len(s) + 1, n)
           t == Append(s, e)
<1>1. /\ t \in Seq(S) /\ Len(t) = Len(s) + 1 /\ Len(s) \in Nat
      /\ \A k \in 1 .. Len(s) : t[k] = s[k]
      /\ t[Len(s) + 1] = e
  <2>1. e \in S
    OBVIOUS
  <2> HIDE DEF e
  <2> QED
    BY <2>1, AppendProperties, LenProperties
<1>2. \A k \in 1 .. Len(t) : t[k] = Packet(r, m + k, n)
  <2> TAKE k \in 1 .. Len(t)
  <2>1. CASE k \in 1 .. Len(s)
    BY <1>1, <2>1 DEF Row
  <2>2. CASE k = Len(s) + 1
    <3>1. m + k = m + Len(s) + 1
      BY <1>1, <2>2
    <3> QED
      BY <1>1, <2>2, <3>1
  <2>3. k \in 1 .. Len(s) \/ k = Len(s) + 1
    BY <1>1
  <2> QED
    BY <2>1, <2>2, <2>3
<1> QED
  BY <1>1, <1>2 DEF Row

LEMMA RowHead ==
  ASSUME NEW S, NEW s \in Seq(S), s # << >>, NEW r, NEW m \in Nat, NEW n, Row(s, r, m, n)
  PROVE  /\ Head(s) = Packet(r, m + 1, n) /\ Head(s) \in S
         /\ Tail(s) \in Seq(S) /\ Len(Tail(s)) = Len(s) - 1 /\ Len(s) \in Nat \ {0}
         /\ Row(Tail(s), r, m + 1, n)
<1>1. /\ Tail(s) \in Seq(S) /\ Len(Tail(s)) = Len(s) - 1 /\ Len(s) \in Nat \ {0}
      /\ Head(s) = s[1] /\ Head(s) \in S
      /\ \A i \in 1 .. Len(Tail(s)) : Tail(s)[i] = s[i + 1]
  BY HeadTailProperties, EmptySeq
<1>2. Head(s) = Packet(r, m + 1, n)
  BY <1>1 DEF Row
<1>3. \A k \in 1 .. Len(Tail(s)) : Tail(s)[k] = Packet(r, m + 1 + k, n)
  <2> TAKE k \in 1 .. Len(Tail(s))
  <2>1. k + 1 \in 1 .. Len(s) /\ m + (k + 1) = m + 1 + k
    BY <1>1
  <2> QED
    BY <1>1, <2>1 DEF Row
<1> QED
  BY <1>1, <1>2, <1>3 DEF Row

LEMMA RowWhole ==
  ASSUME NEW S, NEW s \in Seq(S), NEW r \in Requests, NEW n \in 1 .. MaxPackets,
         Row(s, r, 0, n), Len(s) = n
  PROVE  s = Message(r, n)
<1>1. s = [k \in 1 .. n |-> s[k]]
  BY LenProperties
<1>2. \A k \in 1 .. n : s[k] = [req |-> r, no |-> k, of |-> n]
  <2> TAKE k \in 1 .. n
  <2>1. 0 + k = k
    OBVIOUS
  <2> QED
    BY <2>1 DEF Row, Packet
<1> QED
  BY <1>1, <1>2 DEF Message
-----------------------------------------------------------------------------
(* Steps that leave the wires alone, or whose caller is not inside. *)

LEMMA InitHolds == Init => IInv
<1> SUFFICES ASSUME Init PROVE IInv
  OBVIOUS
<1>1. TypeOK
  <2>1. issued \in 0 .. MaxRequests /\ \A c \in Callers : sent[c] \in 0 .. MaxPackets
    BY DEF Init
  <2>2. << >> \in Seq(Packets) /\ << >> \in Seq(Packets \cup {BadPacket})
    OBVIOUS
  <2>3. ready \in BOOLEAN
    BY Zenon DEF Init
  <2> QED
    BY <2>1, <2>2, <2>3 DEF Init, TypeOK, Places
<1>2. Inside = {}
  BY DEF Init, Inside
<1>3. Local
  BY DEF Init, Local
<1> QED
  BY <1>1, <1>2, <1>3 DEF Init, IInv, Claimed, ReadyIsQuiet

(* What the invariant of the caller inside depends on. *)
LEMMA Unmoved ==
  ASSUME NEW c, Exchanging(c),
         UNCHANGED <<wireVars, pc[c], sent[c], length[c], req[c], answer[c]>>
  PROVE  Exchanging(c)'
BY DEF Exchanging, Asking, Answering, Arriving, Malformed, wireVars

LEMMA Inert == IInv /\ UNCHANGED vars => IInv'
<1> SUFFICES ASSUME IInv, UNCHANGED vars PROVE IInv'
  OBVIOUS
<1>1. Inside' = Inside
  BY DEF vars, Inside
<1>2. \A c \in Inside : Exchanging(c)'
  BY Unmoved DEF IInv, vars, wireVars
<1>3. TypeOK' /\ Local' /\ Claimed' /\ ReadyIsQuiet'
  BY <1>1 DEF IInv, vars, TypeOK, Local, Claimed, ReadyIsQuiet
<1> QED
  BY <1>1, <1>2, <1>3 DEF IInv

(* Before the claim: the wires and whoever is inside are left alone. *)
LEMMA OutsideHolds ==
  ASSUME IInv, NEW c \in Callers,
         \/ \E n \in 1 .. MaxPackets : Invoke(c, n)
         \/ FrameRefused(c) \/ FrameAccepted(c) \/ ClaimRefused(c)
  PROVE  IInv'
<1> USE DEF IInv
<1>1. /\ pc[c] \in {"idle", "frame", "claim"} /\ pc'[c] \in {"idle", "frame", "claim"}
      /\ \A d \in Callers \ {c} : UNCHANGED <<pc[d], sent[d], length[d], req[d], answer[d]>>
      /\ UNCHANGED <<ready, wireVars>>
  BY DEF Invoke, FrameRefused, FrameAccepted, ClaimRefused, Leave, Goto, hostVars, TypeOK
<1>2. Inside' = Inside /\ c \notin Inside
  BY <1>1 DEF Inside
<1>3. \A d \in Inside : Exchanging(d)'
  BY <1>1, <1>2, Unmoved DEF Inside
<1>4. Claimed' /\ ReadyIsQuiet'
  BY <1>1, <1>2 DEF Claimed, ReadyIsQuiet, wireVars
<1>5. TypeOK' /\ Local'
  <2>1. CASE \E n \in 1 .. MaxPackets : Invoke(c, n)
    <3>1. PICK n \in 1 .. MaxPackets : Invoke(c, n)
      BY <2>1
    <3>2. issued + 1 \in Requests /\ issued' \in 0 .. MaxRequests
      BY <3>1 DEF Invoke, TypeOK, Requests
    <3>3. TypeOK'
      BY <3>1, <3>2 DEF Invoke, Goto, TypeOK, Places, wireVars
    <3>4. Local'
      BY <3>1, <3>2 DEF Invoke, Goto, TypeOK, Local
    <3> QED
      BY <3>3, <3>4
  <2>2. CASE FrameRefused(c) \/ ClaimRefused(c)
    <3>1. Leave(c) /\ UNCHANGED <<ready, issued, wireVars>>
      BY <2>2 DEF FrameRefused, ClaimRefused
    <3>2. TypeOK'
      BY <3>1 DEF Leave, Goto, TypeOK, Places, wireVars
    <3>3. Local'
      BY <3>1 DEF Leave, Goto, TypeOK, Local
    <3> QED
      BY <3>2, <3>3
  <2>3. CASE FrameAccepted(c)
    BY <2>3 DEF FrameAccepted, Goto, TypeOK, Local, Places, wireVars, hostVars
  <2> QED
    BY <2>1, <2>2, <2>3
<1> QED
  BY <1>2, <1>3, <1>4, <1>5

LEMMA CancelHolds ==
  ASSUME IInv, NEW c \in Callers, Cancel(c)
  PROVE  IInv'
<1> USE DEF IInv
<1>1. UNCHANGED <<ready, pc, req, length, sent, answer, issued, wireVars>>
  BY DEF Cancel
<1>2. Inside' = Inside
  BY <1>1 DEF Inside
<1>3. \A d \in Inside : Exchanging(d)'
  BY <1>1, Unmoved
<1>4. TypeOK' /\ Local' /\ Claimed' /\ ReadyIsQuiet'
  BY <1>1, <1>2 DEF Cancel, TypeOK, Local, Claimed, ReadyIsQuiet, wireVars
<1> QED
  BY <1>2, <1>3, <1>4

(* A caller that throws leaves a retired link behind, whatever is on it. *)
LEMMA ThrowHolds ==
  ASSUME IInv, NEW c \in Inside, Throw(c),
         toDevice' \in Seq(Packets), toHost' \in Seq(Packets \cup {BadPacket}),
         assembly' = assembly
  PROVE  IInv'
<1> USE DEF IInv
<1>1. c \in Callers /\ Inside = {c} /\ ~ready /\ ready' = ready /\ issued' = issued
  BY DEF Claimed, Throw, Inside
<1>2. Inside' = {}
  BY <1>1 DEF Throw, Leave, Goto, Inside, TypeOK
<1>3. TypeOK'
  BY <1>1 DEF Throw, Leave, Goto, TypeOK, Places, Requests
<1>4. Local'
  BY <1>1 DEF Throw, Leave, Goto, TypeOK, Local
<1> QED
  BY <1>1, <1>2, <1>3, <1>4 DEF Claimed, ReadyIsQuiet
-----------------------------------------------------------------------------
(* The claim, and the steps of the caller inside. *)

LEMMA ClaimHolds ==
  ASSUME IInv, NEW c \in Callers, Claim(c)
  PROVE  IInv'
<1> USE DEF IInv
<1>1. /\ ready /\ ~ready' /\ Inside = {}
      /\ toDevice = << >> /\ toHost = << >> /\ assembly = << >>
      /\ pc[c] = "claim" /\ pc' = [pc EXCEPT ![c] = "claimed?"]
      /\ UNCHANGED <<req, length, sent, answer, cancelled, issued, wireVars>>
  BY DEF Claim, ReadyIsQuiet, Goto, wireVars
<1>2. Inside' = {c}
  BY <1>1 DEF Inside, TypeOK
<1>3. TypeOK'
  <2>1. ready' \in BOOLEAN
    BY Zenon DEF Claim
  <2> QED
    BY <1>1, <2>1 DEF TypeOK, Places, wireVars
<1>4. Local' /\ Claimed' /\ ReadyIsQuiet'
  BY <1>1, <1>2 DEF TypeOK, Local, Claimed, ReadyIsQuiet
<1>5. Exchanging(c)'
  <2>1. sent[c] = 0 /\ answer[c] = << >> /\ length[c] \in 1 .. MaxPackets /\ pc'[c] = "claimed?"
    BY <1>1 DEF Local, TypeOK
  <2>2. Asking(c)'
    BY <1>1, <2>1, RowOfNone DEF Asking, wireVars
  <2> QED
    BY <1>1, <2>1, <2>2 DEF Exchanging
<1> QED
  BY <1>2, <1>3, <1>4, <1>5

(* A step of the caller inside that keeps it inside: what is left to show. *)
LEMMA InsideHolds ==
  ASSUME IInv, NEW c \in Inside, NEW place,
         place \in {"send", "sent?", "receive", "received?", "done?", "ready"},
         pc' = [pc EXCEPT ![c] = place],
         UNCHANGED <<ready, req, length, cancelled, issued>>,
         TypeOK', Exchanging(c)',
         \A d \in Callers \ {c} : UNCHANGED <<sent[d], answer[d]>>
  PROVE  IInv'
<1> USE DEF IInv
<1>1. c \in Callers /\ Inside = {c} /\ ~ready
  BY DEF Claimed, Inside
<1>2. Inside' = {c}
  BY <1>1 DEF Inside, TypeOK
<1>3. Local'
  <2> SUFFICES ASSUME NEW d \in Callers
               PROVE  /\ pc'[d] # "idle" => req[d] \in Requests /\ length[d] \in 1 .. MaxPackets
                      /\ pc'[d] \in {"idle", "frame", "claim"} => sent'[d] = 0 /\ answer'[d] = << >>
    BY DEF Local
  <2>1. CASE d = c
    BY <1>1, <2>1 DEF Local, TypeOK, Inside
  <2>2. CASE d # c
    BY <1>1, <2>2 DEF Local, TypeOK
  <2> QED
    BY <2>1, <2>2
<1> QED
  BY <1>1, <1>2, <1>3 DEF Claimed, ReadyIsQuiet

LEMMA MovesHolds ==
  ASSUME IInv, NEW c \in Inside, Starts(c) \/ Sent(c) \/ PacketAccepted(c) \/ Completes(c)
  PROVE  IInv'
<1> USE DEF IInv
<1>0. c \in Callers /\ Exchanging(c) /\ length[c] \in 1 .. MaxPackets
  BY DEF Inside, Local
<1> DEFINE place == pc'[c]
<1>1. /\ place \in {"send", "sent?", "receive", "received?", "done?", "ready"}
      /\ pc' = [pc EXCEPT ![c] = place]
      /\ UNCHANGED <<hostVars, issued, wireVars>>
  BY <1>0 DEF Starts, Sent, PacketAccepted, Completes, Goto, TypeOK
<1>2. TypeOK'
  <2>1. place \in Places
    BY <1>1 DEF Places
  <2>2. pc' \in [Callers -> Places]
    BY <1>0, <1>1, <2>1 DEF TypeOK
  <2> HIDE DEF place
  <2> QED
    BY <1>1, <2>2 DEF TypeOK, hostVars, wireVars
<1>3. (Asking(c)' <=> Asking(c)) /\ (Answering(c)' <=> Answering(c)) /\ (Malformed(c)' <=> Malformed(c))
  BY <1>1 DEF Asking, Answering, Arriving, Malformed, hostVars, wireVars
<1>4. Exchanging(c)'
  <2>1. CASE Starts(c)
    BY <1>0, <1>1, <1>3, <2>1 DEF Starts, Goto, Exchanging, TypeOK, hostVars
  <2>2. CASE Sent(c)
    <3>1. sent[c] < length[c] => Asking(c)
      BY <1>0, <2>2 DEF Sent, Exchanging, Answering, TypeOK
    <3> QED
      BY <1>0, <1>1, <1>3, <2>2, <3>1 DEF Sent, Goto, Exchanging, TypeOK, hostVars
  <2>3. CASE PacketAccepted(c)
    <3>1. answer[c] # << >> /\ Answering(c) /\ ~Malformed(c) /\ sent[c] = length[c]
      BY <1>0, <2>3 DEF PacketAccepted, Exchanging, Answering
    <3>2. answer[c][1].of \in Int /\ Len(answer[c]) \in Nat
      <4>1. answer[c] \in Seq(Packets \cup {BadPacket})
        BY <1>0 DEF TypeOK
      <4>2. 1 \in 1 .. Len(answer[c]) /\ Len(answer[c]) \in Nat
        BY <3>1, <4>1, EmptySeq
      <4>3. answer[c][1] \in Packets \cup {BadPacket}
        BY <4>1, <4>2, ElementOfSeq
      <4> QED
        BY <4>2, <4>3 DEF Packets, BadPacket
    <3> QED
      BY <1>0, <1>1, <1>3, <2>3, <3>1, <3>2 DEF PacketAccepted, Goto, Exchanging, TypeOK, hostVars
  <2>4. CASE Completes(c)
    BY <1>0, <1>1, <1>3, <2>4 DEF Completes, Goto, Exchanging, TypeOK, hostVars
  <2> QED
    BY <2>1, <2>2, <2>3, <2>4
<1> QED
  BY <1>0, <1>1, <1>2, <1>4, InsideHolds DEF hostVars
(* The packet about to be sent is the next of the request. *)
LEMMA NextSent ==
  ASSUME IInv, NEW c \in Inside, pc[c] = "send"
  PROVE  /\ NextPacket(c) = Packet(req[c], sent[c] + 1, length[c])
         /\ NextPacket(c) \in Packets
<1>1. /\ req[c] \in Requests /\ length[c] \in 1 .. MaxPackets
      /\ sent[c] \in 0 .. length[c] /\ sent[c] < length[c]
  BY DEF IInv, Local, Inside, Exchanging
<1>2. sent[c] + 1 \in 1 .. length[c]
  BY <1>1
<1> QED
  BY <1>1, <1>2, PacketTyped DEF NextPacket, Message, Packet

LEMMA SendHolds ==
  ASSUME IInv, NEW c \in Inside, Send(c)
  PROVE  IInv'
<1> USE DEF IInv
<1>1. /\ c \in Callers /\ Exchanging(c) /\ Asking(c) /\ length[c] \in 1 .. MaxPackets
      /\ sent[c] \in 0 .. length[c] /\ sent[c] < length[c]
      /\ toDevice \in Seq(Packets) /\ assembly \in Seq(Packets) /\ toHost = << >>
      /\ Len(assembly) \in Nat /\ Len(toDevice) \in Nat
      /\ Len(assembly) + Len(toDevice) = sent[c] /\ answer[c] = << >>
  BY LenProperties DEF Send, Inside, Exchanging, Local, TypeOK, Asking
<1>2. /\ toDevice' = Append(toDevice, Packet(req[c], Len(assembly) + Len(toDevice) + 1, length[c]))
      /\ Packet(req[c], Len(assembly) + Len(toDevice) + 1, length[c]) \in Packets
      /\ sent' = [sent EXCEPT ![c] = sent[c] + 1] /\ pc' = [pc EXCEPT ![c] = "sent?"]
      /\ UNCHANGED <<ready, req, length, answer, cancelled, issued, toHost, assembly>>
  BY <1>1, NextSent DEF Send, Goto
<1>3. /\ toDevice' \in Seq(Packets) /\ Len(toDevice') = Len(toDevice) + 1
      /\ Row(toDevice', req[c], Len(assembly), length[c])
  BY <1>1, <1>2, RowAppend DEF Asking
<1>4. Asking(c)'
  BY <1>1, <1>2, <1>3 DEF Asking, TypeOK
<1>5. Exchanging(c)'
  BY <1>1, <1>2, <1>4 DEF Exchanging, TypeOK
<1>6. TypeOK'
  BY <1>1, <1>2, <1>3 DEF TypeOK, Places
<1> QED
  BY <1>1, <1>2, <1>5, <1>6, InsideHolds DEF TypeOK

LEMMA ReceiveHolds ==
  ASSUME IInv, NEW c \in Inside, Receive(c)
  PROVE  IInv'
<1> USE DEF IInv
<1> DEFINE S == Packets \cup {BadPacket}
<1>1. /\ c \in Callers /\ Answering(c) /\ sent[c] = length[c] /\ length[c] \in 1 .. MaxPackets
      /\ req[c] \in Requests /\ answer[c] \in Seq(S) /\ toHost \in Seq(S) /\ toHost # << >>
      /\ pc[c] = "receive"
  BY DEF Receive, Inside, Exchanging, Local, TypeOK, Asking
<1>2. /\ answer' = [answer EXCEPT ![c] = Append(answer[c], Head(toHost))]
      /\ toHost' = Tail(toHost) /\ pc' = [pc EXCEPT ![c] = "received?"]
      /\ UNCHANGED <<ready, req, length, sent, cancelled, issued, toDevice, assembly>>
  BY DEF Receive, Goto
<1>3. /\ Head(toHost) \in S /\ Tail(toHost) \in Seq(S)
      /\ Append(answer[c], Head(toHost)) \in Seq(S)
      /\ Append(answer[c], Head(toHost)) # << >>
      /\ answer'[c] = Append(answer[c], Head(toHost))
  BY <1>1, <1>2, HeadTailProperties, AppendProperties DEF TypeOK
<1>4. Answering(c)'
  <2>1. CASE \E n \in 1 .. MaxPackets : Arriving(c, n)
    <3>1. PICK n \in 1 .. MaxPackets : Arriving(c, n)
      BY <2>1
    <3>2. Len(answer[c]) \in Nat /\ Len(toHost) \in Nat \ {0}
      BY <1>1, LenProperties, EmptySeq
    <3>3. /\ Head(toHost) = Packet(req[c], Len(answer[c]) + 1, n)
          /\ Len(Tail(toHost)) = Len(toHost) - 1
          /\ Row(Tail(toHost), req[c], Len(answer[c]) + 1, n)
      BY <1>1, <3>1, <3>2, RowHead DEF Arriving
    <3>4. 0 + Len(answer[c]) + 1 = Len(answer[c]) + 1
      BY <3>2
    <3>5. /\ Len(answer'[c]) = Len(answer[c]) + 1
          /\ Row(answer'[c], req[c], 0, n)
      BY <1>1, <1>3, <3>1, <3>3, <3>4, RowAppend DEF Arriving
    <3>6. Len(answer'[c]) + Len(toHost') = n
      BY <1>2, <3>1, <3>2, <3>3, <3>5 DEF Arriving
    <3>7. Row(toHost', req'[c], Len(answer'[c]), n) /\ Row(answer'[c], req'[c], 0, n)
      BY <1>2, <3>3, <3>5
    <3>8. Arriving(c, n)'
      BY <3>6, <3>7 DEF Arriving
    <3> QED
      BY <1>1, <1>2, <3>8 DEF Answering
  <2>2. CASE answer[c] = << >> /\ toHost = <<BadPacket>>
    <3>1. Append(<< >>, BadPacket) = <<BadPacket>> /\ Head(<<BadPacket>>) = BadPacket
          /\ Tail(<<BadPacket>>) = << >>
      OBVIOUS
    <3> QED
      BY <1>1, <1>2, <1>3, <2>2, <3>1 DEF Answering
  <2> QED
    BY <1>1, <2>1, <2>2 DEF Answering
<1>5. Exchanging(c)'
  BY <1>1, <1>2, <1>3, <1>4 DEF Exchanging, TypeOK
<1>6. TypeOK'
  BY <1>1, <1>2, <1>3 DEF TypeOK, Places
<1> QED
  BY <1>1, <1>2, <1>5, <1>6, InsideHolds DEF TypeOK
(* What an exchange returns: the whole answer to its request, and nothing  *)
(* is left on the wires.                                                   *)
LEMMA WholeAnswer ==
  ASSUME IInv, NEW c \in Inside, pc[c] \in {"done?", "ready"}
  PROVE  /\ answer[c] = Message(req[c], answer[c][1].of)
         /\ toDevice = << >> /\ toHost = << >> /\ assembly = << >>
<1> DEFINE S == Packets \cup {BadPacket}
<1>1. /\ req[c] \in Requests /\ answer[c] \in Seq(S) /\ toHost \in Seq(S)
      /\ answer[c] # << >> /\ Answering(c) /\ ~Malformed(c) /\ Len(answer[c]) >= answer[c][1].of
      /\ toDevice = << >> /\ assembly = << >>
  BY DEF IInv, Inside, Exchanging, Answering, Local, TypeOK
<1>2. answer[c] # <<BadPacket>>
  <2> SUFFICES ASSUME answer[c] = <<BadPacket>> PROVE FALSE
    OBVIOUS
  <2>1. Len(answer[c]) = 1 /\ answer[c][1] = BadPacket
    OBVIOUS
  <2> QED
    BY <1>1, <2>1 DEF Malformed
<1>3. PICK n \in 1 .. MaxPackets : Arriving(c, n)
  BY <1>1, <1>2 DEF Answering
<1>4. Len(answer[c]) \in Nat \ {0} /\ Len(toHost) \in Nat
  BY <1>1, EmptySeq, LenProperties
<1>5. answer[c][1] = Packet(req[c], 1, n)
  <2>1. 0 + 1 = 1 /\ 1 \in 1 .. Len(answer[c])
    BY <1>4
  <2> QED
    BY <1>3, <2>1 DEF Arriving, Row
<1>6. answer[c][1].of = n
  BY <1>5 DEF Packet
<1>7. Len(toHost) = 0 /\ Len(answer[c]) = n
  BY <1>1, <1>3, <1>4, <1>6 DEF Arriving
<1>8. toHost = << >>
  BY <1>1, <1>7, EmptySeq
<1>9. answer[c] = Message(req[c], n)
  BY <1>1, <1>3, <1>7, RowWhole DEF Arriving
<1> QED
  BY <1>1, <1>6, <1>8, <1>9

LEMMA ReturnHolds ==
  ASSUME IInv, NEW c \in Inside, Return(c)
  PROVE  IInv'
<1> USE DEF IInv
<1>1. /\ c \in Callers /\ Inside = {c}
      /\ toDevice = << >> /\ toHost = << >> /\ assembly = << >>
      /\ UNCHANGED <<issued, wireVars>>
  BY WholeAnswer DEF Claimed, Inside, Return
<1>2. Inside' = {}
  BY <1>1 DEF Return, Leave, Goto, Inside, TypeOK
<1>3. TypeOK'
  <2>1. ready' \in BOOLEAN
    BY Zenon DEF Return
  <2> QED
    BY <1>1, <2>1 DEF Return, Leave, Goto, TypeOK, Places, wireVars
<1>4. Local'
  BY <1>1 DEF Return, Leave, Goto, TypeOK, Local
<1> QED
  BY <1>1, <1>2, <1>3, <1>4 DEF Claimed, ReadyIsQuiet, wireVars

LEMMA FailureHolds ==
  ASSUME IInv, NEW c \in Inside,
         Stops(c) \/ SendFails(c) \/ ReceiveFails(c) \/ PacketRefused(c)
  PROVE  IInv'
<1>1. /\ toDevice \in Seq(Packets) /\ toHost \in Seq(Packets \cup {BadPacket})
  BY DEF IInv, TypeOK
<1>2. pc[c] = "send" => Append(toDevice, NextPacket(c)) \in Seq(Packets)
  BY <1>1, NextSent, AppendProperties
<1>3. toHost # << >> => Tail(toHost) \in Seq(Packets \cup {BadPacket})
  BY <1>1, HeadTailProperties
<1>4. /\ Throw(c) /\ assembly' = assembly /\ toDevice' \in Seq(Packets)
      /\ toHost' \in Seq(Packets \cup {BadPacket})
  BY <1>1, <1>2, <1>3 DEF Stops, SendFails, ReceiveFails, PacketRefused, wireVars
<1> QED
  BY <1>4, ThrowHolds

-----------------------------------------------------------------------------
(* The device. *)

LEMMA DeviceReceivesHolds ==
  ASSUME IInv, DeviceReceives
  PROVE  IInv'
<1> USE DEF IInv
<1>1. /\ UNCHANGED <<hostVars, pc, issued, toHost>>
      /\ toDevice # << >> /\ toDevice \in Seq(Packets) /\ assembly \in Seq(Packets)
      /\ toDevice' = Tail(toDevice) /\ assembly' = Append(assembly, Head(toDevice))
      /\ Inside' = Inside /\ ~ready
  BY DEF DeviceReceives, TypeOK, Inside, ReadyIsQuiet
<1>2. /\ toDevice' \in Seq(Packets) /\ assembly' \in Seq(Packets)
      /\ Len(toDevice') = Len(toDevice) - 1 /\ Len(assembly') = Len(assembly) + 1
      /\ Len(toDevice) \in Nat \ {0} /\ Len(assembly) \in Nat
  BY <1>1, HeadTailProperties, AppendProperties, LenProperties, EmptySeq
<1>3. ASSUME NEW c \in Inside PROVE Exchanging(c)'
  <2>1. Asking(c) /\ Exchanging(c)
    BY <1>1 DEF Exchanging, Answering, Inside, Places, TypeOK
  <2>2. /\ Head(toDevice) = Packet(req[c], Len(assembly) + 1, length[c]) /\ Head(toDevice) \in Packets
        /\ Row(Tail(toDevice), req[c], Len(assembly) + 1, length[c])
    BY <1>1, <1>2, <2>1, RowHead DEF Asking
  <2>3. Head(toDevice) = Packet(req[c], 0 + Len(assembly) + 1, length[c])
    BY <1>2, <2>2
  <2>4. Row(Append(assembly, Head(toDevice)), req[c], 0, length[c])
    BY <1>1, <2>1, <2>2, <2>3, RowAppend DEF Asking
  <2>5. Len(assembly') + Len(toDevice') = sent[c] /\ sent[c] # 0
    BY <1>2, <2>1 DEF Asking
  <2>6. Asking(c)'
    BY <1>1, <1>2, <2>1, <2>2, <2>4, <2>5 DEF Asking, hostVars
  <2> QED
    BY <1>1, <2>1, <2>5, <2>6 DEF Exchanging, Answering, Malformed, hostVars
<1>4. TypeOK'
  BY <1>1, <1>2 DEF TypeOK, hostVars
<1>5. Local' /\ Claimed' /\ ReadyIsQuiet'
  BY <1>1 DEF Local, Claimed, ReadyIsQuiet, hostVars
<1> QED
  BY <1>1, <1>3, <1>4, <1>5

LEMMA DeviceAnswersHolds ==
  ASSUME IInv, NEW n \in 1 .. MaxPackets, DeviceAnswers(n)
  PROVE  IInv'
<1> USE DEF IInv
<1> DEFINE S == Packets \cup {BadPacket}
<1>1. /\ UNCHANGED <<hostVars, pc, issued, toDevice>>
      /\ assembly # << >> /\ assembly \in Seq(Packets) /\ toHost \in Seq(S)
      /\ toDevice \in Seq(Packets)
      /\ Len(assembly) = assembly[1].of /\ assembly' = << >>
      /\ toHost' \in {toHost \o Message(assembly[1].req, n), Append(toHost, BadPacket)}
      /\ Inside' = Inside /\ ~ready
  BY DEF DeviceAnswers, Assembled, TypeOK, Inside, ReadyIsQuiet
<1>2. Len(assembly) \in Nat \ {0} /\ assembly[1] \in Packets /\ Len(toDevice) \in Nat
  BY <1>1, EmptySeq, LenProperties, ElementOfSeq
<1>3. assembly[1].req \in Requests
  BY <1>2 DEF Packets
<1>4. Message(assembly[1].req, n) \in Seq(S)
  BY <1>3, RowMessage
<1>5. toHost' \in Seq(S)
  <2>1. toHost \o Message(assembly[1].req, n) \in Seq(S)
    BY <1>1, <1>4, ConcatProperties
  <2>2. Append(toHost, BadPacket) \in Seq(S)
    BY <1>1, AppendProperties
  <2> QED
    BY <1>1, <2>1, <2>2
<1>6. ASSUME NEW c \in Inside PROVE Exchanging(c)'
  <2>1. Asking(c) /\ Exchanging(c) /\ req[c] \in Requests /\ length[c] \in 1 .. MaxPackets
        /\ sent[c] \in 0 .. length[c]
    BY <1>1 DEF Exchanging, Answering, Inside, Local, Places, TypeOK
  <2>2. assembly[1] = Packet(req[c], 1, length[c])
    <3>1. 0 + 1 = 1 /\ 1 \in 1 .. Len(assembly)
      BY <1>2
    <3> QED
      BY <2>1, <3>1 DEF Asking, Row
  <2>3. assembly[1].req = req[c] /\ assembly[1].of = length[c]
    BY <2>2 DEF Packet
  <2>4. sent[c] = length[c] /\ Len(toDevice) = 0
    BY <1>1, <1>2, <2>1, <2>3 DEF Asking
  <2>5. toDevice = << >> /\ answer[c] = << >> /\ toHost = << >>
    BY <1>1, <2>1, <2>4, EmptySeq DEF Asking
  <2>6. toHost' \in {Message(req[c], n), <<BadPacket>>}
    <3>1. << >> \o Message(req[c], n) = Message(req[c], n) /\ Append(<< >>, BadPacket) = <<BadPacket>>
      BY <2>1, RowMessage, ConcatEmptySeq
    <3> QED
      BY <1>1, <2>3, <2>5, <3>1
  <2>7. Answering(c)'
    <3>1. CASE toHost' = Message(req[c], n)
      <4>1. Len(toHost') = n /\ Row(toHost', req[c], 0, n) /\ Len(answer[c]) = 0
            /\ Row(answer[c], req[c], 0, n)
        BY <2>1, <2>5, <3>1, RowMessage, RowOfNone
      <4>2. Arriving(c, n)'
        BY <1>1, <4>1 DEF Arriving, hostVars
      <4> QED
        BY <1>1, <2>4, <2>5, <4>2 DEF Answering, hostVars
    <3>2. CASE toHost' = <<BadPacket>>
      BY <1>1, <2>4, <2>5, <3>2 DEF Answering, hostVars
    <3> QED
      BY <2>6, <3>1, <3>2
  <2>8. pc[c] \in {"sent?", "receive"}
    BY <1>2, <2>1, <2>4, <2>5 DEF Exchanging, Asking, Inside, Places, TypeOK
  <2> QED
    BY <1>1, <2>1, <2>5, <2>7, <2>8 DEF Exchanging, Malformed, hostVars
<1>7. TypeOK'
  BY <1>1, <1>5 DEF TypeOK, hostVars
<1>8. Local' /\ Claimed' /\ ReadyIsQuiet'
  BY <1>1 DEF Local, Claimed, ReadyIsQuiet, hostVars
<1> QED
  BY <1>1, <1>6, <1>7, <1>8
-----------------------------------------------------------------------------
(* The steps a caller takes only once it is inside. *)
LEMMA EntersBeforeSteps ==
  ASSUME NEW c \in Callers,
         \/ Stops(c) \/ Starts(c) \/ Send(c) \/ Sent(c) \/ SendFails(c) \/ Receive(c)
         \/ ReceiveFails(c) \/ PacketRefused(c) \/ PacketAccepted(c) \/ Completes(c) \/ Return(c)
  PROVE  c \in Inside
BY DEF Inside, Stops, Starts, Send, Sent, SendFails, Receive, ReceiveFails, PacketRefused,
       PacketAccepted, Completes, Return

LEMMA StepHolds == IInv /\ [Next]_vars => IInv'
<1> SUFFICES ASSUME IInv, [Next]_vars PROVE IInv'
  OBVIOUS
<1>1. CASE UNCHANGED vars
  BY <1>1, Inert
<1>2. ASSUME NEW c \in Callers,
             \/ \E n \in 1 .. MaxPackets : Invoke(c, n)
             \/ Cancel(c) \/ FrameRefused(c) \/ SendFails(c) \/ ReceiveFails(c) \/ Proceeds(c)
      PROVE  IInv'
  <2>1. CASE \/ \E n \in 1 .. MaxPackets : Invoke(c, n)
             \/ FrameRefused(c) \/ FrameAccepted(c) \/ ClaimRefused(c)
    BY <2>1, OutsideHolds
  <2>2. CASE Cancel(c) \/ Claim(c)
    BY <2>2, CancelHolds, ClaimHolds
  <2>3. CASE Stops(c) \/ SendFails(c) \/ ReceiveFails(c) \/ PacketRefused(c)
    BY <2>3, EntersBeforeSteps, FailureHolds
  <2>4. CASE Starts(c) \/ Sent(c) \/ PacketAccepted(c) \/ Completes(c)
    BY <2>4, EntersBeforeSteps, MovesHolds
  <2>5. CASE Send(c) \/ Receive(c) \/ Return(c)
    BY <2>5, EntersBeforeSteps, SendHolds, ReceiveHolds, ReturnHolds
  <2> QED
    BY <1>2, <2>1, <2>2, <2>3, <2>4, <2>5 DEF Proceeds
<1>3. CASE DeviceReceives \/ \E n \in 1 .. MaxPackets : DeviceAnswers(n)
  BY <1>3, DeviceReceivesHolds, DeviceAnswersHolds
<1> QED
  BY <1>1, <1>2, <1>3 DEF Next

LEMMA Invariance == Spec => []IInv
BY InitHolds, StepHolds, PTL DEF Spec

(* Every variable of the link, the channel and the device keeps its type. *)
THEOREM TrezorTypeCorrect == Spec => []TypeOK
<1>1. IInv => TypeOK
  BY DEF IInv
<1> QED
  BY <1>1, Invariance, PTL

(* A link that can be claimed has no packet of an earlier exchange on it.  *)
THEOREM TrezorQuiet == Spec => []ReadyIsQuiet
<1>1. IInv => ReadyIsQuiet
  BY DEF IInv
<1> QED
  BY <1>1, Invariance, PTL

(* The answer an exchange returns is the answer to its own request.        *)
THEOREM TrezorOwnAnswer == Spec => []OwnAnswer
<1>1. IInv => OwnAnswer
  <2> SUFFICES ASSUME IInv, NEW c \in Callers, pc[c] \in {"done?", "ready"}
               PROVE  answer[c] = Message(req[c], answer[c][1].of)
    BY DEF OwnAnswer
  <2>1. c \in Inside
    BY DEF Inside
  <2> QED
    BY <2>1, WholeAnswer
<1> QED
  BY <1>1, Invariance, PTL

-----------------------------------------------------------------------------
(* The refinement: who has the link. *)

User == IF Inside # {} THEN CHOOSE c \in Inside : TRUE
        ELSE IF ready THEN "ready" ELSE "retired"

LEMMA RefinementInit == Init => Link!Init
BY DEF Init, Inside, Link!Init

(* Entering claims the link, leaving returns it or retires it, and nothing *)
(* else changes hands.                                                     *)
LEMMA RefinementStep == IInv /\ [Next]_vars => Link!Next \/ User' = User
<1> SUFFICES ASSUME IInv, [Next]_vars PROVE Link!Next \/ User' = User
  OBVIOUS
<1>1. CASE Inside' = Inside /\ ready' = ready
  BY <1>1 DEF User
<1>2. ASSUME NEW c \in Callers, Claim(c)
      PROVE  Link!Next
  <2>1. Inside = {} /\ ready /\ pc' = [pc EXCEPT ![c] = "claimed?"]
    BY <1>2 DEF Claim, Goto, IInv, ReadyIsQuiet
  <2>2. Inside' = {c}
    BY <2>1 DEF Inside, IInv, TypeOK
  <2>3. User = "ready" /\ User' = c
    BY <2>1, <2>2 DEF User
  <2>4. Link!Claim(c)
    BY <2>3 DEF Link!Claim, User
  <2> QED
    BY <2>4 DEF Link!Next
<1>3. ASSUME NEW c \in Inside, Leave(c), ready' \in {ready, TRUE}
      PROVE  Link!Next
  <2>1. c \in Callers /\ Inside = {c} /\ ready = FALSE
    BY Zenon DEF Inside, IInv, Claimed, TypeOK
  <2>2. Inside' = {}
    BY <1>3, <2>1 DEF Inside, IInv, TypeOK, Leave, Goto
  <2>3. User = c /\ User' = IF ready' THEN "ready" ELSE "retired"
    BY <2>1, <2>2 DEF User
  <2>4. Link!Answered(c) \/ Link!Failed(c)
    BY <2>3 DEF Link!Answered, Link!Failed, User
  <2> QED
    BY <2>1, <2>4 DEF Link!Next
<1>4. CASE UNCHANGED vars
  BY <1>1, <1>4 DEF vars, Inside
<1>5. CASE DeviceReceives \/ \E n \in 1 .. MaxPackets : DeviceAnswers(n)
  BY <1>1, <1>5 DEF DeviceReceives, DeviceAnswers, hostVars, Inside
<1>6. ASSUME NEW c \in Callers,
             \/ \E n \in 1 .. MaxPackets : Invoke(c, n)
             \/ Cancel(c) \/ FrameRefused(c) \/ SendFails(c) \/ ReceiveFails(c) \/ Proceeds(c)
      PROVE  Link!Next \/ User' = User
  <2>1. CASE \/ \E n \in 1 .. MaxPackets : Invoke(c, n)
             \/ FrameRefused(c) \/ FrameAccepted(c) \/ ClaimRefused(c)
    <3>1. /\ pc[c] \in {"idle", "frame", "claim"} /\ pc'[c] \in {"idle", "frame", "claim"}
          /\ \A d \in Callers \ {c} : pc'[d] = pc[d]
          /\ ready' = ready
      BY <2>1 DEF Invoke, FrameRefused, FrameAccepted, ClaimRefused, Leave, Goto, hostVars, IInv, TypeOK
    <3> QED
      BY <1>1, <3>1 DEF Inside
  <2>2. CASE Cancel(c)
    BY <1>1, <2>2 DEF Cancel, Inside
  <2>3. CASE Claim(c)
    BY <1>2, <2>3
  <2>4. CASE Stops(c) \/ SendFails(c) \/ ReceiveFails(c) \/ PacketRefused(c) \/ Return(c)
    <3>1. Leave(c) /\ ready' \in {ready, TRUE}
      BY <2>4, Zenon DEF Stops, SendFails, ReceiveFails, PacketRefused, Return, Throw
    <3> QED
      BY <1>3, <2>4, <3>1, EntersBeforeSteps
  <2>5. CASE \/ Starts(c) \/ Sent(c) \/ PacketAccepted(c) \/ Completes(c) \/ Send(c) \/ Receive(c)
    <3>1. c \in Inside
      BY <2>5, EntersBeforeSteps
    <3>2. /\ pc'[c] \notin {"idle", "frame", "claim"} /\ ready' = ready
          /\ \A d \in Callers \ {c} : pc'[d] = pc[d]
      BY <2>5, <3>1 DEF Starts, Sent, PacketAccepted, Completes, Send, Receive, Goto, hostVars,
                        Inside, IInv, TypeOK
    <3> QED
      BY <1>1, <3>1, <3>2 DEF Inside
  <2> QED
    BY <1>6, <2>1, <2>2, <2>3, <2>4, <2>5 DEF Proceeds
<1> QED
  BY <1>4, <1>5, <1>6 DEF Next

(* The link is a RetiringLink: it has one user at a time, and after one    *)
(* failed exchange it is never claimed again.                              *)
THEOREM TrezorRetires == Spec => ImplementsRetiringLink
<1>1. IInv /\ [Next]_vars => [Link!Next]_User
  BY RefinementStep
<1> QED
  BY <1>1, RefinementInit, Invariance, PTL DEF Spec, ImplementsRetiringLink, Link!Spec, User
=============================================================================
