-------------------------- MODULE SpecterLinkProofs --------------------------
(***************************************************************************)
(* Proofs about SpecterLink for any callers, any number of exchanges and   *)
(* any length of a frame: an exchange returns the frame of its own request *)
(* however the stream cuts it, a link that can be claimed is quiet, and    *)
(* the link is a RetiringLink.                                             *)
(***************************************************************************)
EXTENDS SpecterLink, SequenceTheorems, TLAPS

USE SpecterAssumption

Stream == Bytes \cup {BadByte}

-----------------------------------------------------------------------------
(* The inductive invariant. *)

Byte(r, k) == [req |-> r, no |-> k]

(* s is the bytes m + 1, m + 2, ... of the frame for r. *)
Run(s, r, m) == \A k \in 1 .. Len(s) : s[k] = Byte(r, m + k)

(* What a caller knows before it has claimed the link. *)
Local ==
  \A c \in Callers :
    /\ pc[c] # "idle" => req[c] \in Requests
    /\ pc[c] \in {"idle", "claim"} => buffer[c] = << >> /\ chunk[c] = << >>

(* The compare-and-set lets one caller in. *)
Claimed == \A c \in Inside : ~ready /\ \A d \in Inside : d = c

Unread(c) == buffer[c] = << >> /\ chunk[c] = << >> /\ toHost = << >>

(* The request has been written and not answered. *)
Asked(c) == toDevice = <<req[c]>> /\ Unread(c)

(* What the decoder holds, the last chunk and the bytes in flight are the  *)
(* frame, in this order.                                                   *)
Arriving(c) ==
  /\ Len(buffer[c]) + Len(chunk[c]) + Len(toHost) = FrameLength
  /\ Run(buffer[c], req[c], 0)
  /\ Run(chunk[c], req[c], Len(buffer[c]))
  /\ Run(toHost, req[c], Len(buffer[c]) + Len(chunk[c]))

(* A badly framed answer never gets into the decoder. *)
Damaged(c) ==
  /\ buffer[c] = << >>
  /\ \/ chunk[c] = << >> /\ toHost = <<BadByte>>
     \/ chunk[c] = <<BadByte>> /\ toHost = << >>

Answering(c) == toDevice = << >> /\ (Arriving(c) \/ Damaged(c))

(* The exchange of the caller inside, by its place. *)
Exchanging(c) ==
  /\ pc[c] = "write" => toDevice = << >> /\ Unread(c)
  /\ pc[c] \in {"written?", "read"} => chunk[c] = << >> /\ (Asked(c) \/ Answering(c))
  /\ pc[c] \in {"read?", "push"} => chunk[c] # << >> /\ Answering(c)
  /\ pc[c] \in {"framed", "done?", "elapsed?", "ready"} =>
       toDevice = << >> /\ Arriving(c) /\ Len(buffer[c]) = FrameLength

IInv ==
  /\ TypeOK /\ Local /\ Claimed /\ ReadyIsQuiet
  /\ \A c \in Inside : Exchanging(c)

-----------------------------------------------------------------------------
(* Runs of bytes. *)

LEMMA ByteTyped ==
  ASSUME NEW r \in Requests, NEW k \in 1 .. FrameLength
  PROVE  Byte(r, k) \in Bytes /\ Byte(r, k) # BadByte
BY DEF Byte, Bytes, BadByte, Requests

LEMMA RunOfNone ==
  ASSUME NEW r, NEW m
  PROVE  Run(<< >>, r, m) /\ Len(<< >>) = 0
BY DEF Run

LEMMA RunFrame ==
  ASSUME NEW r \in Requests
  PROVE  /\ Frame(r) \in Seq(Bytes) /\ Len(Frame(r)) = FrameLength
         /\ Run(Frame(r), r, 0)
<1>1. \A k \in 1 .. FrameLength : Frame(r)[k] = Byte(r, k) /\ Byte(r, k) \in Bytes
  BY ByteTyped DEF Frame, Byte
<1>2. Frame(r) \in Seq(Bytes) /\ Len(Frame(r)) = FrameLength
  BY <1>1 DEF Frame
<1>3. \A k \in 1 .. FrameLength : 0 + k = k
  OBVIOUS
<1> QED
  BY <1>1, <1>2, <1>3 DEF Run

LEMMA RunWhole ==
  ASSUME NEW S, NEW s \in Seq(S), NEW r, Run(s, r, 0), Len(s) = FrameLength
  PROVE  s = Frame(r)
<1>1. s = [k \in 1 .. FrameLength |-> s[k]]
  BY LenProperties
<1>2. \A k \in 1 .. FrameLength : s[k] = [req |-> r, no |-> k]
  <2> TAKE k \in 1 .. FrameLength
  <2>1. 0 + k = k
    OBVIOUS
  <2> QED
    BY <2>1 DEF Run, Byte
<1> QED
  BY <1>1, <1>2 DEF Frame

(* A run cut in two: the chunk that is read and what stays in flight. *)
LEMMA RunCut ==
  ASSUME NEW S, NEW s \in Seq(S), NEW k \in 0 .. Len(s)
  PROVE  /\ SubSeq(s, 1, k) \in Seq(S) /\ Len(SubSeq(s, 1, k)) = k
         /\ SubSeq(s, k + 1, Len(s)) \in Seq(S)
         /\ Len(SubSeq(s, k + 1, Len(s))) = Len(s) - k
         /\ \A r, m \in Nat : Run(s, r, m) =>
              Run(SubSeq(s, 1, k), r, m) /\ Run(SubSeq(s, k + 1, Len(s)), r, m + k)
<1>1. Len(s) \in Nat /\ k \in Nat /\ k <= Len(s)
  BY LenProperties
<1>2. \A i \in 1 .. Len(s) : s[i] \in S
  BY ElementOfSeq
<1>3. /\ SubSeq(s, 1, k) \in Seq(S) /\ Len(SubSeq(s, 1, k)) = k
      /\ \A i \in 1 .. k : SubSeq(s, 1, k)[i] = s[i]
  <2>1. \A i \in 1 .. k : s[i] \in S
    BY <1>1, <1>2
  <2>2. /\ SubSeq(s, 1, k) \in Seq(S) /\ Len(SubSeq(s, 1, k)) = IF 1 <= k THEN k - 1 + 1 ELSE 0
        /\ \A i \in 1 .. k - 1 + 1 : SubSeq(s, 1, k)[i] = s[1 + i - 1]
    BY <1>1, <2>1, SubSeqProperties
  <2>3. \A i \in 1 .. k : i \in 1 .. k - 1 + 1 /\ 1 + i - 1 = i
    BY <1>1
  <2>4. (IF 1 <= k THEN k - 1 + 1 ELSE 0) = k
    BY <1>1
  <2> QED
    BY <2>2, <2>3, <2>4
<1>4. /\ SubSeq(s, k + 1, Len(s)) \in Seq(S)
      /\ Len(SubSeq(s, k + 1, Len(s))) = Len(s) - k
      /\ \A i \in 1 .. Len(s) - k : SubSeq(s, k + 1, Len(s))[i] = s[k + i]
  <2>1. \A i \in k + 1 .. Len(s) : s[i] \in S
    BY <1>1, <1>2
  <2>2. /\ SubSeq(s, k + 1, Len(s)) \in Seq(S)
        /\ Len(SubSeq(s, k + 1, Len(s))) =
             IF k + 1 <= Len(s) THEN Len(s) - (k + 1) + 1 ELSE 0
        /\ \A i \in 1 .. Len(s) - (k + 1) + 1 : SubSeq(s, k + 1, Len(s))[i] = s[k + 1 + i - 1]
    BY <1>1, <2>1, SubSeqProperties
  <2>3. \A i \in 1 .. Len(s) - k : i \in 1 .. Len(s) - (k + 1) + 1 /\ k + 1 + i - 1 = k + i
    BY <1>1
  <2>4. (IF k + 1 <= Len(s) THEN Len(s) - (k + 1) + 1 ELSE 0) = Len(s) - k
    BY <1>1
  <2> QED
    BY <2>2, <2>3, <2>4
<1>5. ASSUME NEW r, NEW m \in Nat, Run(s, r, m)
      PROVE  Run(SubSeq(s, 1, k), r, m) /\ Run(SubSeq(s, k + 1, Len(s)), r, m + k)
  <2>1. Run(SubSeq(s, 1, k), r, m)
    BY <1>1, <1>3, <1>5 DEF Run
  <2>2. \A i \in 1 .. Len(s) - k : k + i \in 1 .. Len(s) /\ m + (k + i) = m + k + i
    BY <1>1
  <2>3. Run(SubSeq(s, k + 1, Len(s)), r, m + k)
    BY <1>1, <1>4, <1>5, <2>2 DEF Run
  <2> QED
    BY <2>1, <2>3
<1> QED
  BY <1>3, <1>4, <1>5

(* Two runs joined: what the decoder holds and the chunk pushed into it. *)
LEMMA RunJoin ==
  ASSUME NEW S, NEW s \in Seq(S), NEW t \in Seq(S), NEW r, Run(s, r, 0), Run(t, r, Len(s))
  PROVE  s \o t \in Seq(S) /\ Len(s \o t) = Len(s) + Len(t) /\ Run(s \o t, r, 0)
<1>1. /\ s \o t \in Seq(S) /\ Len(s \o t) = Len(s) + Len(t)
      /\ Len(s) \in Nat /\ Len(t) \in Nat
      /\ \A i \in 1 .. Len(s) + Len(t) :
           (s \o t)[i] = IF i <= Len(s) THEN s[i] ELSE t[i - Len(s)]
  BY ConcatProperties, LenProperties
<1>2. \A k \in 1 .. Len(s \o t) : (s \o t)[k] = Byte(r, 0 + k)
  <2> TAKE k \in 1 .. Len(s \o t)
  <2>1. CASE k <= Len(s)
    BY <1>1, <2>1 DEF Run
  <2>2. CASE ~(k <= Len(s))
    <3>1. k - Len(s) \in 1 .. Len(t) /\ Len(s) + (k - Len(s)) = 0 + k
      BY <1>1, <2>2
    <3>2. t[k - Len(s)] = Byte(r, Len(s) + (k - Len(s)))
      BY <3>1 DEF Run
    <3> QED
      BY <1>1, <2>2, <3>1, <3>2
  <2> QED
    BY <2>1, <2>2
<1> QED
  BY <1>1, <1>2 DEF Run

-----------------------------------------------------------------------------
(* Steps that leave the wires alone, or whose caller is not inside. *)

LEMMA InitHolds == Init => IInv
<1> SUFFICES ASSUME Init PROVE IInv
  OBVIOUS
<1>1. TypeOK
  <2>1. issued \in 0 .. MaxRequests
    BY DEF Init
  <2>2. << >> \in Seq(Requests) /\ << >> \in Seq(Bytes \cup {BadByte})
    OBVIOUS
  <2>3. ready \in BOOLEAN /\ ended \in BOOLEAN
    BY Zenon DEF Init
  <2> QED
    BY <2>1, <2>2, <2>3 DEF Init, TypeOK, Places
<1>2. Inside = {}
  BY DEF Init, Inside
<1>3. Local
  BY DEF Init, Local
<1> QED
  BY <1>1, <1>2, <1>3 DEF Init, IInv, Claimed, ReadyIsQuiet

(* What the invariant of the caller inside depends on. *)
LEMMA Unmoved ==
  ASSUME NEW c, Exchanging(c),
         UNCHANGED <<toDevice, toHost, pc[c], req[c], buffer[c], chunk[c]>>
  PROVE  Exchanging(c)'
BY DEF Exchanging, Asked, Unread, Answering, Arriving, Damaged

LEMMA Inert == IInv /\ UNCHANGED vars => IInv'
<1> SUFFICES ASSUME IInv, UNCHANGED vars PROVE IInv'
  OBVIOUS
<1>1. Inside' = Inside
  BY DEF vars, Inside
<1>2. \A c \in Inside : Exchanging(c)'
  BY Unmoved DEF IInv, vars
<1>3. TypeOK' /\ Local' /\ Claimed' /\ ReadyIsQuiet'
  BY <1>1 DEF IInv, vars, TypeOK, Local, Claimed, ReadyIsQuiet
<1> QED
  BY <1>1, <1>2, <1>3 DEF IInv

(* Before the claim: the wires and whoever is inside are left alone. *)
LEMMA OutsideHolds ==
  ASSUME IInv, NEW c \in Callers, Invoke(c) \/ ClaimRefused(c)
  PROVE  IInv'
<1> USE DEF IInv
<1>1. /\ pc[c] \in {"idle", "claim"} /\ pc'[c] \in {"idle", "claim"}
      /\ \A d \in Callers \ {c} : UNCHANGED <<pc[d], req[d], buffer[d], chunk[d]>>
      /\ UNCHANGED <<ready, wireVars>>
  BY DEF Invoke, ClaimRefused, Throw, Leave, TypeOK
<1>2. Inside' = Inside /\ c \notin Inside
  BY <1>1 DEF Inside
<1>3. \A d \in Inside : Exchanging(d)'
  BY <1>1, <1>2, Unmoved DEF Inside, wireVars
<1>4. Claimed' /\ ReadyIsQuiet'
  BY <1>1, <1>2 DEF Claimed, ReadyIsQuiet, wireVars
<1>5. CASE Invoke(c)
  <2>1. issued + 1 \in Requests /\ issued' \in 0 .. MaxRequests
    BY <1>5 DEF Invoke, TypeOK, Requests
  <2>2. TypeOK'
    BY <1>5, <2>1 DEF Invoke, TypeOK, Places, wireVars
  <2>3. Local'
    BY <1>5, <2>1 DEF Invoke, TypeOK, Local
  <2> QED
    BY <1>2, <1>3, <1>4, <2>2, <2>3
<1>6. CASE ClaimRefused(c)
  <2>1. TypeOK'
    BY <1>6 DEF ClaimRefused, Throw, Leave, TypeOK, Places, wireVars
  <2>2. Local'
    BY <1>6 DEF ClaimRefused, Throw, Leave, TypeOK, Local
  <2> QED
    BY <1>2, <1>3, <1>4, <2>1, <2>2
<1> QED
  BY <1>5, <1>6

(* A Job is cancelled, a deadline passes, the device goes away. *)
LEMMA EventHolds ==
  ASSUME IInv, DeviceLeaves \/ \E c \in Callers : Cancel(c) \/ Expires(c)
  PROVE  IInv'
<1> USE DEF IInv
<1>1. UNCHANGED <<ready, pc, req, buffer, chunk, issued, toDevice, toHost>>
  BY DEF Cancel, Expires, DeviceLeaves, hostVars, wireVars
<1>2. Inside' = Inside
  BY <1>1 DEF Inside
<1>3. \A d \in Inside : Exchanging(d)'
  BY <1>1, Unmoved
<1>4. TypeOK'
  <2>1. ended' \in BOOLEAN
    BY Zenon DEF Cancel, Expires, DeviceLeaves, wireVars, TypeOK
  <2>2. cancelled' \subseteq Callers /\ expired' \subseteq Callers
    BY DEF Cancel, Expires, DeviceLeaves, hostVars, TypeOK
  <2> QED
    BY <1>1, <2>1, <2>2 DEF TypeOK
<1>5. Local' /\ Claimed' /\ ReadyIsQuiet'
  BY <1>1, <1>2 DEF Local, Claimed, ReadyIsQuiet
<1> QED
  BY <1>2, <1>3, <1>4, <1>5

(* A caller that throws leaves a retired link behind, whatever is on it. *)
LEMMA ThrowHolds ==
  ASSUME IInv, NEW c \in Inside, Throw(c),
         toDevice' \in Seq(Requests), toHost' \in Seq(Bytes \cup {BadByte}), ended' = ended
  PROVE  IInv'
<1> USE DEF IInv
<1>1. c \in Callers /\ Inside = {c} /\ ~ready /\ ready' = ready /\ issued' = issued
  BY DEF Claimed, Throw, Leave, Inside
<1>2. Inside' = {}
  BY <1>1 DEF Throw, Leave, Inside, TypeOK
<1>3. TypeOK'
  BY <1>1 DEF Throw, Leave, TypeOK, Places, Requests
<1>4. Local'
  BY <1>1 DEF Throw, Leave, TypeOK, Local
<1> QED
  BY <1>1, <1>2, <1>3, <1>4 DEF Claimed, ReadyIsQuiet

LEMMA FailureHolds ==
  ASSUME IInv, NEW c \in Inside,
         \/ WriteFails(c) \/ Stops(c) \/ ReadFails(c) \/ ReadsNothing(c) \/ PushFails(c)
         \/ TimesOut(c) \/ ElapsedTooLate(c)
  PROVE  IInv'
<1>1. /\ toDevice \in Seq(Requests) /\ toHost \in Seq(Bytes \cup {BadByte}) /\ c \in Callers
      /\ req[c] \in Requests
  BY DEF IInv, TypeOK, Local, Inside
<1>2. Append(toDevice, req[c]) \in Seq(Requests)
  BY <1>1, AppendProperties
<1>3. \A k \in 0 .. Len(toHost) :
        SubSeq(toHost, k + 1, Len(toHost)) \in Seq(Bytes \cup {BadByte})
  BY <1>1, RunCut
<1>4. /\ Throw(c) /\ ended' = ended /\ toDevice' \in Seq(Requests)
      /\ toHost' \in Seq(Bytes \cup {BadByte})
  BY <1>1, <1>2, <1>3 DEF WriteFails, Stops, ReadFails, ReadsNothing, PushFails, TimesOut,
                          ElapsedTooLate, wireVars
<1> QED
  BY <1>4, ThrowHolds

-----------------------------------------------------------------------------
(* The claim, and the steps of the caller inside. *)

LEMMA ClaimHolds ==
  ASSUME IInv, NEW c \in Callers, Claim(c)
  PROVE  IInv'
<1> USE DEF IInv
<1>1. /\ ready /\ ~ready' /\ Inside = {} /\ toDevice = << >> /\ toHost = << >>
      /\ pc[c] = "claim" /\ pc' = [pc EXCEPT ![c] = "write"]
      /\ UNCHANGED <<req, buffer, chunk, cancelled, expired, issued, wireVars>>
  BY DEF Claim, ReadyIsQuiet
<1>2. Inside' = {c}
  BY <1>1 DEF Inside, TypeOK
<1>3. TypeOK'
  <2>1. ready' \in BOOLEAN
    BY Zenon DEF Claim
  <2> QED
    BY <1>1, <2>1 DEF TypeOK, Places, wireVars
<1>4. Local' /\ Claimed' /\ ReadyIsQuiet'
  BY <1>1, <1>2 DEF TypeOK, Local, Claimed, ReadyIsQuiet
<1>5. Exchanging(c)'
  <2>1. buffer[c] = << >> /\ chunk[c] = << >> /\ pc'[c] = "write"
    BY <1>1 DEF Local, TypeOK
  <2> QED
    BY <1>1, <2>1 DEF Exchanging, Unread, wireVars
<1> QED
  BY <1>2, <1>3, <1>4, <1>5

(* A step of the caller inside that keeps it inside: what is left to show. *)
LEMMA InsideHolds ==
  ASSUME IInv, NEW c \in Inside, NEW place,
         place \in {"written?", "read", "read?", "push", "framed", "done?", "elapsed?", "ready"},
         Goto(c, place), ended' = ended,
         buffer' \in [Callers -> Seq(Bytes \cup {BadByte})],
         chunk' \in [Callers -> Seq(Bytes \cup {BadByte})],
         toDevice' \in Seq(Requests), toHost' \in Seq(Bytes \cup {BadByte}),
         Exchanging(c)',
         \A d \in Callers \ {c} : UNCHANGED <<buffer[d], chunk[d]>>
  PROVE  IInv'
<1> USE DEF IInv
<1>1. c \in Callers /\ Inside = {c} /\ ~ready
  BY DEF Claimed, Inside
<1>2. Inside' = {c}
  BY <1>1 DEF Goto, Inside, TypeOK
<1>3. TypeOK'
  BY <1>1 DEF Goto, TypeOK, Places
<1>4. Local'
  <2> SUFFICES ASSUME NEW d \in Callers
               PROVE  /\ pc'[d] # "idle" => req'[d] \in Requests
                      /\ pc'[d] \in {"idle", "claim"} => buffer'[d] = << >> /\ chunk'[d] = << >>
    BY DEF Local
  <2>1. CASE d = c
    BY <1>1, <2>1 DEF Local, Goto, TypeOK, Inside
  <2>2. CASE d # c
    BY <1>1, <2>2 DEF Local, Goto, TypeOK
  <2> QED
    BY <2>1, <2>2
<1> QED
  BY <1>1, <1>2, <1>3, <1>4 DEF Claimed, ReadyIsQuiet, Goto

LEMMA MovesHolds ==
  ASSUME IInv, NEW c \in Inside, Passes(c) \/ Framed(c) \/ ElapsedInTime(c)
  PROVE  IInv'
<1> USE DEF IInv
<1>1. c \in Callers /\ Exchanging(c)
  BY DEF Inside
<1>2. /\ UNCHANGED <<req, buffer, chunk, wireVars>>
      /\ \E place \in {"read", "push", "framed", "done?", "elapsed?", "ready"} : Goto(c, place)
  BY DEF Passes, Framed, ElapsedInTime, Goto
<1>3. /\ Asked(c)' <=> Asked(c)
      /\ Answering(c)' <=> Answering(c)
      /\ Arriving(c)' <=> Arriving(c)
  BY <1>2 DEF Asked, Unread, Answering, Arriving, Damaged, wireVars
<1>4. Exchanging(c)'
  <2>1. CASE Passes(c)
    BY <1>1, <1>2, <1>3, <2>1 DEF Passes, Goto, Exchanging, TypeOK, wireVars
  <2>2. CASE Framed(c) \/ ElapsedInTime(c)
    BY <1>1, <1>2, <1>3, <2>2 DEF Framed, ElapsedInTime, Goto, Exchanging, TypeOK, wireVars
  <2> QED
    BY <2>1, <2>2
<1> QED
  BY <1>1, <1>2, <1>4, InsideHolds DEF TypeOK, wireVars

LEMMA WriteHolds ==
  ASSUME IInv, NEW c \in Inside, Write(c)
  PROVE  IInv'
<1> USE DEF IInv
<1>1. c \in Callers /\ toDevice = << >> /\ Unread(c) /\ req[c] \in Requests
  BY DEF Write, Inside, Exchanging, Local
<1>2. /\ toDevice' = <<req[c]>> /\ Goto(c, "written?")
      /\ UNCHANGED <<req, buffer, chunk, toHost, ended>>
  BY <1>1 DEF Write, Goto
<1>3. toDevice' \in Seq(Requests)
  BY <1>1, <1>2
<1>4. Asked(c)'
  BY <1>1, <1>2 DEF Asked, Unread
<1>5. Exchanging(c)'
  BY <1>1, <1>2, <1>4 DEF Exchanging, Unread, Goto, TypeOK
<1> QED
  BY <1>1, <1>2, <1>3, <1>5, InsideHolds DEF TypeOK

LEMMA ReadHolds ==
  ASSUME IInv, NEW c \in Inside, Read(c)
  PROVE  IInv'
<1> USE DEF IInv
<1>1. PICK k \in 1 .. Len(toHost) :
        /\ chunk' = [chunk EXCEPT ![c] = SubSeq(toHost, 1, k)]
        /\ toHost' = SubSeq(toHost, k + 1, Len(toHost))
  BY DEF Read
<1>2. /\ c \in Callers /\ pc[c] = "read" /\ Goto(c, "read?")
      /\ UNCHANGED <<req, buffer, toDevice, ended>>
      /\ toHost \in Seq(Stream) /\ buffer[c] \in Seq(Stream)
      /\ chunk[c] = << >> /\ (Asked(c) \/ Answering(c))
  BY DEF Read, Goto, Inside, Exchanging, TypeOK, Stream
<1>3. Len(toHost) \in Nat /\ Len(buffer[c]) \in Nat /\ k \in Nat /\ k # 0 /\ k <= Len(toHost)
  BY <1>2, LenProperties
<1>4. /\ SubSeq(toHost, 1, k) \in Seq(Stream) /\ Len(SubSeq(toHost, 1, k)) = k
      /\ SubSeq(toHost, k + 1, Len(toHost)) \in Seq(Stream)
      /\ Len(SubSeq(toHost, k + 1, Len(toHost))) = Len(toHost) - k
      /\ \A r, m \in Nat : Run(toHost, r, m) =>
           /\ Run(SubSeq(toHost, 1, k), r, m)
           /\ Run(SubSeq(toHost, k + 1, Len(toHost)), r, m + k)
  BY <1>2, <1>3, RunCut
<1>5. /\ chunk'[c] = SubSeq(toHost, 1, k) /\ Len(chunk'[c]) = k /\ Len(toHost') = Len(toHost) - k
      /\ toHost' \in Seq(Stream) /\ chunk'[c] \in Seq(Stream)
  BY <1>1, <1>2, <1>4 DEF TypeOK
<1>6. Answering(c) /\ toHost # << >>
  <2>1. toHost # << >>
    BY <1>3, EmptySeq
  <2> QED
    BY <1>2, <2>1 DEF Asked, Unread
<1>7. Answering(c)'
  <2>1. CASE Arriving(c)
    <3>1. /\ Len(buffer[c]) + Len(toHost) = FrameLength /\ Run(buffer[c], req[c], 0)
          /\ Run(toHost, req[c], Len(buffer[c]))
      <4>1. Len(chunk[c]) = 0
        BY <1>2
      <4>2. Len(buffer[c]) + 0 = Len(buffer[c])
        BY <1>3
      <4> QED
        BY <2>1, <4>1, <4>2 DEF Arriving
    <3>2. req[c] \in Nat
      BY <1>2 DEF TypeOK, Requests
    <3>3. /\ Run(chunk'[c], req[c], Len(buffer[c]))
          /\ Run(toHost', req[c], Len(buffer[c]) + Len(chunk'[c]))
      BY <1>1, <1>3, <1>4, <1>5, <3>1, <3>2
    <3>4. Len(buffer[c]) + Len(chunk'[c]) + Len(toHost') = FrameLength
      BY <1>3, <1>5, <3>1
    <3>5. Arriving(c)'
      BY <1>2, <3>1, <3>3, <3>4 DEF Arriving
    <3> QED
      BY <1>2, <1>6, <3>5 DEF Answering
  <2>2. CASE Damaged(c)
    <3>1. toHost = <<BadByte>> /\ Len(toHost) = 1 /\ buffer[c] = << >>
      BY <1>2, <1>6, <2>2 DEF Damaged
    <3>2. k = 1
      BY <1>3, <3>1
    <3>3. chunk'[c] = <<BadByte>>
      <4>1. SubSeq(toHost, 1, 1)[1] = BadByte
        <5>1. \A i \in 1 .. 1 : toHost[i] \in Stream
          BY <1>2, <3>1, ElementOfSeq
        <5>2. \A i \in 1 .. 1 - 1 + 1 : SubSeq(toHost, 1, 1)[i] = toHost[1 + i - 1]
          BY <5>1, SubSeqProperties
        <5>3. 1 \in 1 .. 1 - 1 + 1 /\ toHost[1 + 1 - 1] = BadByte
          BY <3>1
        <5> QED
          BY <5>2, <5>3
      <4>2. /\ chunk'[c] \in Seq(Stream) /\ Len(chunk'[c]) = 1 /\ chunk'[c][1] = BadByte
        BY <1>5, <3>2, <4>1
      <4> QED
        BY <4>2
    <3>4. toHost' = << >>
      <4>1. Len(toHost') = 0
        BY <1>5, <3>1, <3>2
      <4> QED
        BY <1>5, <4>1, EmptySeq
    <3>5. Damaged(c)'
      BY <1>2, <3>1, <3>3, <3>4 DEF Damaged
    <3> QED
      BY <1>2, <1>6, <3>5 DEF Answering
  <2> QED
    BY <1>6, <2>1, <2>2 DEF Answering
<1>8. chunk'[c] # << >>
  BY <1>3, <1>5
<1>9. Exchanging(c)'
  BY <1>2, <1>7, <1>8 DEF Exchanging, Goto, TypeOK
<1>10. chunk' \in [Callers -> Seq(Stream)]
  BY <1>1, <1>4 DEF TypeOK, Stream
<1> QED
  BY <1>1, <1>2, <1>5, <1>9, <1>10, InsideHolds DEF TypeOK, Stream

(* Only a well-framed prefix goes into the decoder. *)
LEMMA PushHolds ==
  ASSUME IInv, NEW c \in Inside, Push(c)
  PROVE  IInv'
<1> USE DEF IInv
<1>1. /\ c \in Callers /\ Answering(c) /\ req[c] \in Requests
      /\ buffer[c] \in Seq(Stream) /\ chunk[c] \in Seq(Stream) /\ toHost \in Seq(Stream)
  BY DEF Push, Inside, Exchanging, Local, TypeOK, Stream
<1>2. /\ Framing(buffer[c] \o chunk[c]) /\ Len(buffer[c] \o chunk[c]) <= FrameLength
      /\ buffer' = [buffer EXCEPT ![c] = buffer[c] \o chunk[c]]
      /\ chunk' = [chunk EXCEPT ![c] = << >>]
      /\ UNCHANGED <<req, toDevice, toHost, ended>>
  BY DEF Push, Pushed, Goto, wireVars
<1>3. Arriving(c)
  <2> SUFFICES ASSUME Damaged(c) PROVE FALSE
    BY <1>1 DEF Answering
  <2>1. buffer[c] = << >> /\ chunk[c] # << >>
    BY DEF Damaged, Push, Exchanging
  <2>2. chunk[c] = <<BadByte>>
    BY <2>1 DEF Damaged
  <2>3. buffer[c] \o chunk[c] = <<BadByte>>
    BY <1>1, <2>1, <2>2, ConcatEmptySeq
  <2>4. 1 \in DOMAIN <<BadByte>> /\ <<BadByte>>[1] = BadByte
    OBVIOUS
  <2> QED
    BY <1>2, <2>3, <2>4 DEF Framing
<1>4. /\ Len(buffer[c]) \in Nat /\ Len(chunk[c]) \in Nat /\ Len(toHost) \in Nat
  BY <1>1, LenProperties
<1>5. /\ buffer'[c] \in Seq(Stream) /\ Len(buffer'[c]) = Len(buffer[c]) + Len(chunk[c])
      /\ Run(buffer'[c], req[c], 0) /\ buffer'[c] = buffer[c] \o chunk[c]
      /\ chunk'[c] = << >>
  <2>1. /\ buffer[c] \o chunk[c] \in Seq(Stream)
        /\ Len(buffer[c] \o chunk[c]) = Len(buffer[c]) + Len(chunk[c])
        /\ Run(buffer[c] \o chunk[c], req[c], 0)
    BY <1>1, <1>3, RunJoin DEF Arriving
  <2> QED
    BY <1>1, <1>2, <2>1 DEF TypeOK
<1>6. Arriving(c)'
  <2>1. Run(<< >>, req[c], Len(buffer'[c])) /\ Len(<< >>) = 0
    BY RunOfNone
  <2>2. /\ Len(buffer'[c]) + Len(<< >>) + Len(toHost) = FrameLength
        /\ Len(buffer'[c]) + Len(<< >>) = Len(buffer[c]) + Len(chunk[c])
    <3>1. Len(buffer[c]) + Len(chunk[c]) + Len(toHost) = FrameLength
      BY <1>3 DEF Arriving
    <3>2. Len(buffer'[c]) + 0 = Len(buffer[c]) + Len(chunk[c])
      BY <1>4, <1>5
    <3> QED
      BY <2>1, <3>1, <3>2
  <2>3. Run(toHost, req[c], Len(buffer[c]) + Len(chunk[c]))
    BY <1>3 DEF Arriving
  <2> QED
    BY <1>2, <1>5, <2>1, <2>2, <2>3 DEF Arriving
<1>7. toDevice = << >>
  BY <1>1 DEF Answering
<1> DEFINE place == IF Len(buffer'[c]) = FrameLength THEN "framed" ELSE "read"
<1>8. Goto(c, place)
  BY <1>5 DEF Push, Pushed
<1>9. Exchanging(c)'
  BY <1>1, <1>2, <1>5, <1>6, <1>7, <1>8 DEF Exchanging, Answering, Goto, TypeOK
<1>10. /\ buffer' \in [Callers -> Seq(Stream)] /\ chunk' \in [Callers -> Seq(Stream)]
  BY <1>1, <1>2, <1>5 DEF TypeOK, Stream
<1>11. place \in {"framed", "read"}
  OBVIOUS
<1> HIDE DEF place
<1> QED
  BY <1>1, <1>2, <1>8, <1>9, <1>10, <1>11, InsideHolds DEF TypeOK, Stream

(* What an exchange returns: the frame of its request, and nothing is left *)
(* on the wires.                                                           *)
LEMMA WholeFrame ==
  ASSUME IInv, NEW c \in Inside, pc[c] \in {"framed", "done?", "elapsed?", "ready"}
  PROVE  buffer[c] = Frame(req[c]) /\ toDevice = << >> /\ toHost = << >>
<1>1. /\ toDevice = << >> /\ Arriving(c) /\ Len(buffer[c]) = FrameLength
      /\ buffer[c] \in Seq(Stream) /\ chunk[c] \in Seq(Stream) /\ toHost \in Seq(Stream)
  BY DEF IInv, Inside, Exchanging, TypeOK, Stream
<1>2. Len(toHost) = 0
  <2>1. Len(toHost) \in Nat /\ Len(chunk[c]) \in Nat
    BY <1>1, LenProperties
  <2> QED
    BY <1>1, <2>1 DEF Arriving
<1>3. toHost = << >>
  BY <1>1, <1>2, EmptySeq
<1>4. buffer[c] = Frame(req[c])
  BY <1>1, RunWhole DEF Arriving
<1> QED
  BY <1>1, <1>3, <1>4

LEMMA ReturnHolds ==
  ASSUME IInv, NEW c \in Inside, Return(c)
  PROVE  IInv'
<1> USE DEF IInv
<1>1. c \in Callers /\ Inside = {c} /\ toDevice = << >> /\ toHost = << >>
      /\ UNCHANGED <<issued, wireVars>>
  BY WholeFrame DEF Claimed, Inside, Return, Leave
<1>2. Inside' = {}
  BY <1>1 DEF Return, Leave, Inside, TypeOK
<1>3. TypeOK'
  <2>1. ready' \in BOOLEAN
    BY Zenon DEF Return
  <2> QED
    BY <1>1, <2>1 DEF Return, Leave, TypeOK, Places, wireVars
<1>4. Local'
  BY <1>1 DEF Return, Leave, TypeOK, Local
<1> QED
  BY <1>1, <1>2, <1>3, <1>4 DEF Claimed, ReadyIsQuiet, wireVars

-----------------------------------------------------------------------------
(* The device. *)

LEMMA DeviceAnswersHolds ==
  ASSUME IInv, DeviceAnswers
  PROVE  IInv'
<1> USE DEF IInv
<1>1. /\ UNCHANGED <<hostVars, pc, ended>>
      /\ toDevice # << >> /\ toDevice \in Seq(Requests) /\ toHost \in Seq(Stream)
      /\ toDevice' = Tail(toDevice)
      /\ toHost' \in {toHost \o Frame(Head(toDevice)), Append(toHost, BadByte)}
      /\ Inside' = Inside /\ ~ready
  BY DEF DeviceAnswers, TypeOK, Inside, ReadyIsQuiet, Stream
<1>2. Head(toDevice) \in Requests /\ toDevice' \in Seq(Requests)
  BY <1>1, HeadTailProperties
<1>3. toHost' \in Seq(Stream)
  <2>1. Frame(Head(toDevice)) \in Seq(Stream)
    BY <1>2, RunFrame DEF Stream
  <2>2. toHost \o Frame(Head(toDevice)) \in Seq(Stream)
    BY <1>1, <2>1, ConcatProperties
  <2>3. Append(toHost, BadByte) \in Seq(Stream)
    BY <1>1, AppendProperties DEF Stream
  <2> QED
    BY <1>1, <2>2, <2>3
<1>4. ASSUME NEW c \in Inside PROVE Exchanging(c)'
  <2>1. /\ Exchanging(c) /\ pc[c] \in {"written?", "read"} /\ Asked(c) /\ req[c] \in Requests
    BY <1>1 DEF Exchanging, Answering, Inside, Local, Places, TypeOK
  <2>2. Head(toDevice) = req[c] /\ toDevice' = << >>
    BY <1>1, <2>1 DEF Asked
  <2>3. buffer[c] = << >> /\ chunk[c] = << >> /\ toHost = << >>
    BY <2>1 DEF Asked, Unread
  <2>4. toHost' \in {Frame(req[c]), <<BadByte>>}
    <3>1. << >> \o Frame(req[c]) = Frame(req[c]) /\ Append(<< >>, BadByte) = <<BadByte>>
      BY <2>1, RunFrame, ConcatEmptySeq
    <3> QED
      BY <1>1, <2>2, <2>3, <3>1
  <2>5. Answering(c)'
    <3>1. CASE toHost' = Frame(req[c])
      <4>1. /\ Len(toHost') = FrameLength /\ Run(toHost', req[c], 0)
            /\ Len(buffer[c]) = 0 /\ Run(buffer[c], req[c], 0)
            /\ Len(chunk[c]) = 0 /\ Run(chunk[c], req[c], 0)
        BY <2>1, <2>3, <3>1, RunFrame, RunOfNone
      <4>2. 0 + 0 + FrameLength = FrameLength /\ 0 + 0 = 0
        OBVIOUS
      <4>3. Arriving(c)'
        BY <1>1, <4>1, <4>2 DEF Arriving, hostVars
      <4> QED
        BY <2>2, <4>3 DEF Answering
    <3>2. CASE toHost' = <<BadByte>>
      BY <1>1, <2>2, <2>3, <3>2 DEF Answering, Damaged, hostVars
    <3> QED
      BY <2>4, <3>1, <3>2
  <2> QED
    BY <1>1, <2>1, <2>3, <2>5 DEF Exchanging, hostVars
<1>5. TypeOK'
  BY <1>1, <1>2, <1>3 DEF TypeOK, hostVars, Stream
<1>6. Local' /\ Claimed' /\ ReadyIsQuiet'
  BY <1>1 DEF Local, Claimed, ReadyIsQuiet, hostVars
<1> QED
  BY <1>1, <1>4, <1>5, <1>6

-----------------------------------------------------------------------------
(* The steps a caller takes only once it is inside. *)
LEMMA EntersBeforeSteps ==
  ASSUME NEW c \in Callers,
         \/ WriteFails(c) \/ ReadFails(c) \/ Write(c) \/ Stops(c) \/ Passes(c) \/ Read(c)
         \/ ReadsNothing(c) \/ Push(c) \/ PushFails(c) \/ Framed(c) \/ TimesOut(c)
         \/ ElapsedInTime(c) \/ ElapsedTooLate(c) \/ Return(c)
  PROVE  c \in Inside
BY DEF Inside, WriteFails, ReadFails, Write, Stops, Passes, Read, ReadsNothing, Push, PushFails,
       Framed, TimesOut, ElapsedInTime, ElapsedTooLate, Return

LEMMA StepHolds == IInv /\ [Next]_vars => IInv'
<1> SUFFICES ASSUME IInv, [Next]_vars PROVE IInv'
  OBVIOUS
<1>1. CASE UNCHANGED vars
  BY <1>1, Inert
<1>2. ASSUME NEW c \in Callers,
             \/ Invoke(c) \/ Cancel(c) \/ Expires(c)
             \/ WriteFails(c) \/ ReadFails(c) \/ Proceeds(c)
      PROVE  IInv'
  <2>1. CASE Invoke(c) \/ ClaimRefused(c)
    BY <2>1, OutsideHolds
  <2>2. CASE Cancel(c) \/ Expires(c)
    BY <2>2, EventHolds
  <2>3. CASE Claim(c)
    BY <2>3, ClaimHolds
  <2>4. CASE \/ WriteFails(c) \/ Stops(c) \/ ReadFails(c) \/ ReadsNothing(c) \/ PushFails(c)
             \/ TimesOut(c) \/ ElapsedTooLate(c)
    BY <2>4, EntersBeforeSteps, FailureHolds
  <2>5. CASE Passes(c) \/ Framed(c) \/ ElapsedInTime(c)
    BY <2>5, EntersBeforeSteps, MovesHolds
  <2>6. CASE Write(c) \/ Read(c)
    BY <2>6, EntersBeforeSteps, WriteHolds, ReadHolds
  <2>7. CASE Push(c) \/ Return(c)
    BY <2>7, EntersBeforeSteps, PushHolds, ReturnHolds
  <2> QED
    BY <1>2, <2>1, <2>2, <2>3, <2>4, <2>5, <2>6, <2>7 DEF Proceeds
<1>3. CASE DeviceAnswers \/ DeviceLeaves
  BY <1>3, DeviceAnswersHolds, EventHolds
<1> QED
  BY <1>1, <1>2, <1>3 DEF Next

LEMMA Invariance == Spec => []IInv
BY InitHolds, StepHolds, PTL DEF Spec

(* Every variable of the link, the stream and the device keeps its type. *)
THEOREM SpecterTypeCorrect == Spec => []TypeOK
<1>1. IInv => TypeOK
  BY DEF IInv
<1> QED
  BY <1>1, Invariance, PTL

(* A link that can be claimed has no request outstanding and no byte in    *)
(* flight: a confirmation after the deadline meets a retired link.         *)
THEOREM SpecterQuiet == Spec => []ReadyIsQuiet
<1>1. IInv => ReadyIsQuiet
  BY DEF IInv
<1> QED
  BY <1>1, Invariance, PTL

(* The frame that leaves the decoder answers this very request, however    *)
(* the stream cut it into chunks.                                          *)
THEOREM SpecterOwnAnswer == Spec => []OwnAnswer
<1>1. IInv => OwnAnswer
  <2> SUFFICES ASSUME IInv, NEW c \in Callers,
                      pc[c] \in {"framed", "done?", "elapsed?", "ready"}
               PROVE  buffer[c] = Frame(req[c])
    BY DEF OwnAnswer
  <2>1. c \in Inside
    BY DEF Inside
  <2> QED
    BY <2>1, WholeFrame
<1> QED
  BY <1>1, Invariance, PTL

-----------------------------------------------------------------------------
(* The refinement: who has the link. *)

User == IF Inside # {} THEN CHOOSE c \in Inside : TRUE
        ELSE IF ready THEN "ready" ELSE "retired"

LEMMA RefinementInit == Init => Link!Init
BY DEF Init, Inside, Link!Init

(* Entering claims the link, leaving returns it or retires it, and nothing *)
(* else changes hands.                                                     *)
LEMMA RefinementStep == IInv /\ [Next]_vars => Link!Next \/ User' = User
<1> SUFFICES ASSUME IInv, [Next]_vars PROVE Link!Next \/ User' = User
  OBVIOUS
<1>1. CASE Inside' = Inside /\ ready' = ready
  BY <1>1 DEF User
<1>2. ASSUME NEW c \in Callers, Claim(c)
      PROVE  Link!Next
  <2>1. Inside = {} /\ ready /\ pc' = [pc EXCEPT ![c] = "write"]
    BY <1>2 DEF Claim, IInv, ReadyIsQuiet
  <2>2. Inside' = {c}
    BY <2>1 DEF Inside, IInv, TypeOK
  <2>3. User = "ready" /\ User' = c
    BY <2>1, <2>2 DEF User
  <2>4. Link!Claim(c)
    BY <2>3 DEF Link!Claim, User
  <2> QED
    BY <2>4 DEF Link!Next
<1>3. ASSUME NEW c \in Inside, Leave(c), ready' \in {ready, TRUE}
      PROVE  Link!Next
  <2>1. c \in Callers /\ Inside = {c} /\ ready = FALSE
    BY Zenon DEF Inside, IInv, Claimed, TypeOK
  <2>2. Inside' = {}
    BY <1>3, <2>1 DEF Inside, IInv, TypeOK, Leave
  <2>3. User = c /\ User' = IF ready' THEN "ready" ELSE "retired"
    BY <2>1, <2>2 DEF User
  <2>4. Link!Answered(c) \/ Link!Failed(c)
    BY <2>3 DEF Link!Answered, Link!Failed, User
  <2> QED
    BY <2>1, <2>4 DEF Link!Next
<1>4. CASE UNCHANGED vars
  BY <1>1, <1>4 DEF vars, Inside
<1>5. CASE DeviceAnswers \/ DeviceLeaves
  BY <1>1, <1>5 DEF DeviceAnswers, DeviceLeaves, hostVars, Inside
<1>6. ASSUME NEW c \in Callers,
             \/ Invoke(c) \/ Cancel(c) \/ Expires(c)
             \/ WriteFails(c) \/ ReadFails(c) \/ Proceeds(c)
      PROVE  Link!Next \/ User' = User
  <2>1. CASE Invoke(c) \/ ClaimRefused(c)
    <3>1. /\ pc[c] \in {"idle", "claim"} /\ pc'[c] \in {"idle", "claim"}
          /\ \A d \in Callers \ {c} : pc'[d] = pc[d]
          /\ ready' = ready
      BY <2>1 DEF Invoke, ClaimRefused, Throw, Leave, IInv, TypeOK
    <3> QED
      BY <1>1, <3>1 DEF Inside
  <2>2. CASE Cancel(c) \/ Expires(c)
    BY <1>1, <2>2 DEF Cancel, Expires, Inside
  <2>3. CASE Claim(c)
    BY <1>2, <2>3
  <2>4. CASE \/ WriteFails(c) \/ Stops(c) \/ ReadFails(c) \/ ReadsNothing(c) \/ PushFails(c)
             \/ TimesOut(c) \/ ElapsedTooLate(c) \/ Return(c)
    <3>1. Leave(c) /\ ready' \in {ready, TRUE}
      BY <2>4, Zenon DEF WriteFails, Stops, ReadFails, ReadsNothing, PushFails, TimesOut,
                         ElapsedTooLate, Return, Throw
    <3> QED
      BY <1>3, <2>4, <3>1, EntersBeforeSteps
  <2>5. CASE \/ Write(c) \/ Passes(c) \/ Read(c) \/ Push(c) \/ Framed(c) \/ ElapsedInTime(c)
    <3>1. c \in Inside
      BY <2>5, EntersBeforeSteps
    <3>2. /\ pc'[c] \notin {"idle", "claim"} /\ ready' = ready
          /\ \A d \in Callers \ {c} : pc'[d] = pc[d]
      BY <2>5, <3>1 DEF Write, Passes, Read, Push, Framed, ElapsedInTime, Goto, Inside, IInv, TypeOK
    <3> QED
      BY <1>1, <3>1, <3>2 DEF Inside
  <2> QED
    BY <1>6, <2>1, <2>2, <2>3, <2>4, <2>5 DEF Proceeds
<1> QED
  BY <1>4, <1>5, <1>6 DEF Next

(* The link is a RetiringLink: it has one user at a time, and after one    *)
(* failed exchange it is never claimed again.                              *)
THEOREM SpecterRetires == Spec => ImplementsRetiringLink
<1>1. IInv /\ [Next]_vars => [Link!Next]_User
  BY RefinementStep
<1> QED
  BY <1>1, RefinementInit, Invariance, PTL DEF Spec, ImplementsRetiringLink, Link!Spec, User
=============================================================================
