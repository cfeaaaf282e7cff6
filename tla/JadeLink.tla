------------------------------ MODULE JadeLink -------------------------------
(***************************************************************************)
(* JadeSerialLink (Links.kt): a request is written whole, and the stream is *)
(* read until one CBOR value is complete.  The stream holds bytes tagged   *)
(* with the request they answer, which the link does not see.  Stream and   *)
(* device are external: a call may throw or honour a cancellation, a read  *)
(* returns any part of what has arrived, and the device answers a request  *)
(* with one of Messages, unless it is not a Jade and sends any bytes.       *)
(* Where a value ends is said by Cbor, of which this module only knows that *)
(* it is a function of the bytes read.                                     *)
(***************************************************************************)
EXTENDS Integers, Sequences

CONSTANTS Walk(_),       \* EndOfValue from the start: a position, or below 0
          WellFormed(_), \* one whole value, by the grammar
          Messages,   \* encodings the device answers with
          Alphabet,   \* bytes another device sends
          MaxBytes,   \* bound on those bytes, counting one exchange's
          MaxCalls    \* bound on the exchanges attempted with a Jade

VARIABLES alien,      \* the device is not a Jade
          phase,      \* "idle", "read", then "whole" or "thrown"
          buffer,     \* what the exchange has read
          stream,     \* what has arrived
          unanswered, \* requests the device has yet to answer
          stopped,    \* the caller's Job is cancelled
          broke,      \* history: an exchange did not complete
          called,     \* history: exchanges attempted
          message     \* history: what the device last answered with

jadeVars == <<alien, phase, buffer, stream, unanswered, stopped, broke, called, message>>

JadeInit ==
  /\ alien \in BOOLEAN
  /\ phase = "idle" /\ buffer = << >> /\ stream = << >> /\ unanswered = << >>
  /\ stopped = FALSE /\ broke = FALSE /\ called = 0 /\ message = << >>

Bytes(tagged) == [k \in DOMAIN tagged |-> tagged[k].byte]

INCOMPLETE == -1
MALFORMED  == -2
IsComplete(buf) == Walk(buf) # INCOMPLETE

JadeLeaves == phase' = "idle" /\ buffer' = << >> /\ stopped' = FALSE

(* No exchange with another device needs a successor: the walk is over one *)
(* exchange's bytes.                                                       *)
Calls == IF alien THEN 1 ELSE MaxCalls

JadeWrites ==
  /\ phase = "idle" /\ called < Calls
  /\ called' = called + 1
  /\ unanswered' = Append(unanswered, called')
  /\ phase' = "read"
  /\ UNCHANGED <<alien, buffer, stream, stopped, broke, message>>

(* writeAll throws; the request may have gone. *)
JadeWriteFails ==
  /\ phase = "idle" /\ called < Calls
  /\ called' = called + 1
  /\ unanswered' \in {unanswered, Append(unanswered, called')}
  /\ broke' = TRUE
  /\ UNCHANGED <<alien, phase, buffer, stream, stopped, message>>

JadeStops ==
  /\ phase = "read" /\ ~stopped
  /\ stopped' = TRUE
  /\ UNCHANGED <<alien, phase, buffer, stream, unanswered, broke, called, message>>

(* A chunk of the n bytes that came first, and the walk over all read.     *)
JadeReads(n) ==
  LET read == buffer \o SubSeq(stream, 1, n) IN
  /\ phase = "read" /\ n <= Len(stream)
  /\ stream' = SubSeq(stream, n + 1, Len(stream))
  /\ buffer' = read
  /\ phase' = CASE ~IsComplete(Bytes(read)) -> "read"
                [] Walk(Bytes(read)) = MALFORMED -> "thrown"
                [] OTHER -> "whole"
  /\ broke' = (broke \/ phase' = "thrown")
  /\ UNCHANGED <<alien, unanswered, stopped, called, message>>

(* The read throws, finds the end of the stream or is too long. *)
JadeReadFails ==
  /\ phase = "read"
  /\ JadeLeaves /\ broke' = TRUE
  /\ UNCHANGED <<alien, stream, unanswered, called, message>>

JadeReturns ==
  /\ phase \in {"whole", "thrown"}
  /\ JadeLeaves
  /\ UNCHANGED <<alien, stream, unanswered, broke, called, message>>

JadeAnswers(m) ==
  /\ ~alien /\ unanswered # << >>
  /\ stream' = stream \o [k \in DOMAIN m |-> [req |-> Head(unanswered), byte |-> m[k]]]
  /\ unanswered' = Tail(unanswered)
  /\ message' = m
  /\ UNCHANGED <<alien, phase, buffer, stopped, broke, called>>

AlienSends(b) ==
  /\ alien /\ phase = "read" /\ stream = << >> /\ Len(buffer) < MaxBytes
  /\ stream' = <<[req |-> 0, byte |-> b]>>
  /\ UNCHANGED <<alien, phase, buffer, unanswered, stopped, broke, called, message>>

JadeNext ==
  \/ JadeWrites \/ JadeWriteFails \/ JadeStops \/ JadeReadFails \/ JadeReturns
  \/ \E n \in 1 .. Len(stream) : JadeReads(n)
  \/ \E m \in Messages : JadeAnswers(m)
  \/ \E b \in Alphabet : AlienSends(b)

JadeProceeds == JadeReturns \/ \E n \in 1 .. Len(stream) : JadeReads(n)

(* exchange keeps running, a Jade answers, a stopped read ends.            *)
JadeFairness ==
  /\ WF_jadeVars(JadeProceeds) /\ WF_jadeVars(\E m \in Messages : JadeAnswers(m))
  /\ WF_jadeVars(stopped /\ JadeReadFails)

-----------------------------------------------------------------------------
(* While every exchange completes, it returns the whole answer to its own  *)
(* request and nothing else, however the stream cuts it into chunks.       *)
JadeAnswer ==
  phase \in {"whole", "thrown"} /\ ~alien /\ (~broke \/ (called = 1)) =>
    /\ phase = "whole"
    /\ Bytes(buffer) = message
    /\ \A k \in DOMAIN buffer : buffer[k].req = called

(* The walk over what has been read agrees with the grammar: it ends where *)
(* the one value that starts there ends, or wants more when there is none; *)
(* and it gives up only on what nothing can complete.                      *)
WalkAgrees ==
  LET s == Bytes(buffer) IN
  /\ Walk(s) >= 0 => Walk(s) <= Len(s) /\ WellFormed(SubSeq(s, 1, Walk(s)))
  /\ Walk(s) < 0 => \A k \in 0 .. Len(s) : ~WellFormed(SubSeq(s, 1, k))
  /\ Walk(s) = MALFORMED /\ alien =>
       \A n \in 0 .. MaxBytes - Len(s) : \A t \in [1 .. n -> Alphabet] : ~WellFormed(s \o t)

JadeEnds ==
  /\ (phase # "idle" /\ ~alien) ~> (phase = "idle")
  /\ stopped ~> ~stopped
=============================================================================
