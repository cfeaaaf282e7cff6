-------------------------------- MODULE Cbor --------------------------------
(***************************************************************************)
(* What the walk of Cbor.kt returns, its steps taken to the end, beside the *)
(* grammar it has to agree with.                                           *)
(***************************************************************************)
LOCAL INSTANCE Integers
LOCAL INSTANCE Sequences
LOCAL INSTANCE CborWalk

(* Where walks over the whole buffer end. *)
RECURSIVE EndsOf(_, _)
EndsOf(buf, walks) ==
  UNION {IF w.phase = "done" THEN {w.at} ELSE EndsOf(buf, {WalkStep(buf, Len(buf), w)}) : w \in walks}

(* endOfValue(buf, 0, buf.size): the position behind the first value. *)
EndOfValue(buf) == CHOOSE end \in EndsOf(buf, {WalkStart}) : TRUE

-----------------------------------------------------------------------------
(* The grammar, read off the string: a value is a head and what the head   *)
(* announces.  Maps of indefinite length may hold an odd number of items:  *)
(* the walk does not count them, and the decoder behind it refuses them.   *)

Behind(s, n) == SubSeq(s, n + 1, Len(s))

RECURSIVE IsValue(_), AreValues(_, _), AreChunks(_, _)

IsValue(s) ==
  /\ s # << >>
  /\ LET major == Major(s[1])
         info  == Info(s[1])
     IN \/ \E width \in {0, 1, 2, 4, 8} :
             /\ IF width = 0 THEN info < 24 ELSE info \in 24 .. 27 /\ width = 2 ^ (info - 24)
             /\ Len(s) > width
             /\ LET n    == IF width = 0 THEN info ELSE HeaderValue(SubSeq(s, 2, width + 1))
                    rest == Behind(s, width + 1)
                IN CASE major \in {0, 1, 7} -> rest = << >>
                     [] major \in {2, 3}    -> Len(rest) = n
                     [] major = 4           -> n <= Len(rest) /\ AreValues(rest, n)
                     [] major = 5           -> n <= Len(rest) /\ AreValues(rest, 2 * n)
                     [] major = 6           -> IsValue(rest)
        \/ /\ info = 31 /\ major \in 2 .. 5
           /\ Len(s) > 1 /\ s[Len(s)] = BREAK
           /\ LET inner == SubSeq(s, 2, Len(s) - 1) IN
              IF major < 4 THEN AreChunks(inner, major)
              ELSE \E n \in 0 .. Len(inner) : AreValues(inner, n)

AreValues(s, n) ==
  IF n = 0 THEN s = << >>
  ELSE \E k \in 1 .. Len(s) : IsValue(SubSeq(s, 1, k)) /\ AreValues(Behind(s, k), n - 1)

AreChunks(s, major) ==
  s = << >> \/ \E k \in 1 .. Len(s) :
    /\ Major(s[1]) = major /\ Info(s[1]) # 31
    /\ IsValue(SubSeq(s, 1, k)) /\ AreChunks(Behind(s, k), major)
=============================================================================
