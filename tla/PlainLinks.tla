----------------------------- MODULE PlainLinks -----------------------------
(***************************************************************************)
(* The five links that do not retire, behind the one Link interface of     *)
(* HwiSession: a session has one of them, over packets (PacketLinks) or over *)
(* Jade's byte stream (JadeLink), and the other takes no step.              *)
(***************************************************************************)
EXTENDS PacketLinks

CONSTANTS Walk(_), WellFormed(_), Messages, Alphabet, MaxBytes, MaxCalls

VARIABLES serial,  \* the session's link is a JadeSerialLink
          alien, phase, buffer, stream, unanswered, stopped, broke, called, message

Jade == INSTANCE JadeLink

(* A Jade answers with CBOR values, and no part of a value is one.         *)
ASSUME MessagesAssumption ==
  \A m \in Messages :
    /\ m \in Seq(0 .. 255) /\ m # << >>
    /\ Walk(m) = Len(m)
    /\ \A k \in 0 .. Len(m) - 1 : Walk(SubSeq(m, 1, k)) = -1

serialVars == <<alien, phase, buffer, stream, unanswered, stopped, broke, called, message>>
plainVars == <<serial, vars, serialVars>>

PlainInit ==
  /\ Init /\ Jade!JadeInit
  /\ serial \in BOOLEAN
  /\ serial \/ ~alien
  /\ serial => \A l \in Links : link = (CHOOSE x \in Links : TRUE)
  /\ serial => platform = (CHOOSE n \in PlatformMtus : TRUE)

PlainNext ==
  /\ UNCHANGED serial
  /\ \/ serial /\ Jade!JadeNext /\ UNCHANGED vars
     \/ ~serial /\ Next /\ UNCHANGED serialVars

PlainSpec == PlainInit /\ [][PlainNext]_plainVars /\ Fairness /\ Jade!JadeFairness

-----------------------------------------------------------------------------
(* An exchange of any of the links returns the answer to its own request,  *)
(* whole, under the conditions each framing is good for.                   *)
OwnAnswer == PacketAnswer /\ Jade!JadeAnswer

(* The CBOR walk agrees with the grammar on every buffer. *)
WalkAgrees == Jade!WalkAgrees

(* An exchange ends when the device answers it, and when it is cancelled. *)
ExchangeEnds == PacketEnds /\ Jade!JadeEnds
=============================================================================
