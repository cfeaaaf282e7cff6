------------------------------ MODULE CborWalk ------------------------------
(***************************************************************************)
(* The structural CBOR walk JadeSerialLink frames its stream with (Cbor.kt), *)
(* one call or iteration of its three mutually recursive functions at a     *)
(* time.  endOfValue reads a head; endOfItems and endOfChunks are the loops  *)
(* it returns to.  They wait on the stack `calls`, and with them the calls  *)
(* a tag makes for what it wraps.  buf is a sequence of bytes, a position   *)
(* counts the bytes in front of it as the code's index does, and `end` is  *)
(* the code's parameter: what lies behind is not there.                    *)
(***************************************************************************)
EXTENDS Integers, Sequences

INCOMPLETE == -1
MALFORMED  == -2  \* the exception malformed() throws
BREAK      == 255
MaxInt     == 2147483647

Major(b) == b \div 32
Info(b)  == b % 32

(* The bytes of a header value behind its first byte b. *)
Width(b) == CASE Info(b) = 24 -> 1 [] Info(b) = 25 -> 2 [] Info(b) = 26 -> 4
              [] Info(b) = 27 -> 8 [] OTHER -> 0

(* The byte k places before the last one. *)
Octet(s, k) == IF k < Len(s) THEN s[Len(s) - k] ELSE 0

(* A value of up to 64 bits.  The walk only compares it with the bytes left *)
(* in an array, of which there are at most MaxInt: MaxInt stands for every *)
(* larger value, those that read back negative included.                   *)
HeaderValue(s) ==
  IF Octet(s, 3) > 127 \/ \E k \in 4 .. 7 : Octet(s, k) # 0 THEN MaxInt
  ELSE Octet(s, 0) + 256 * Octet(s, 1) + 65536 * Octet(s, 2) + 16777216 * Octet(s, 3)

(* Mutant of Fits: one byte too many. *)
FitsOneMore(value, left) == value <= left + 1

(* `bounded`: a length or a count that the bytes left can hold. *)
Fits(value, left) == value <= left

(* Mutant of IsChunk: a chunk may be of indefinite length itself. *)
IsChunkOfType(b, major) == Major(b) = major

IsChunk(b, major) == Major(b) = major /\ Info(b) # 31

-----------------------------------------------------------------------------
(* Where a walk is: at the call of endOfValue, at the head of the innermost *)
(* loop, or done, with what endOfValue returns to its caller in `at`.      *)

CallValue(pos, calls) == [at |-> pos, phase |-> "value", calls |-> calls]
Resume(pos, calls)    == [at |-> pos, phase |-> "loop",  calls |-> calls]
Result(pos)           == [at |-> pos, phase |-> "done",  calls |-> << >>]

WalkStart == CallValue(0, << >>)

(* A loop over `left` values, or up to a break when left < 0; the call for *)
(* a tag returns to an endOfValue that has none left.  `owed` is            *)
(* bookkeeping the code has no use for: the bytes the calls below it will  *)
(* read at least.                                                         *)
Owed(calls) ==
  IF calls = << >> THEN 0
  ELSE LET f == calls[Len(calls)] IN f.owed + (IF f.left < 0 THEN 1 ELSE f.left)

Called(calls, major, count) ==
  Append(calls, [major |-> major, left |-> count, owed |-> Owed(calls)])

CallLoop(pos, calls, major, count) == Resume(pos, Called(calls, major, count))

(* `bounded` asks for more bytes when a length or a count does not fit. *)
Lacking == Result(INCOMPLETE)

(* A tag wraps exactly one value: endOfValue calls itself. *)
Wrapped(pos, calls) == CallValue(pos, Called(calls, 6, 0))

(* endOfValue behind its header, major by major. *)
Sized(end, pos, calls, major, value) ==
  CASE major \in {0, 1, 7} -> Resume(pos, calls)
    [] major = 6 -> Wrapped(pos, calls)
    [] major \in 2 .. 5 /\ ~Fits(value, end - pos) -> Lacking
    [] major \in {2, 3} /\ Fits(value, end - pos)  -> Resume(pos + value, calls)
    [] major \in {4, 5} /\ Fits(value, end - pos)  ->
         CallLoop(pos, calls, major, IF major = 4 THEN value ELSE 2 * value)

(* endOfValue. *)
ValueStep(buf, end, at, calls) ==
  LET b     == buf[at + 1]
      pos   == at + 1 + Width(b)
      value == IF Info(b) < 24 THEN Info(b) ELSE HeaderValue(SubSeq(buf, at + 2, pos))
  IN CASE at >= end -> Result(INCOMPLETE)
       [] at < end /\ Info(b) = 31 /\ Major(b) \in 2 .. 5 -> CallLoop(pos, calls, Major(b), -1)
       [] at < end /\ Info(b) > 27 /\ (Info(b) = 31 => Major(b) \notin 2 .. 5) -> Result(MALFORMED)
       [] at < end /\ Info(b) <= 27 /\ pos > end -> Result(INCOMPLETE)
       [] at < end /\ Info(b) <= 27 /\ pos <= end -> Sized(end, pos, calls, Major(b), value)

(* An iteration of endOfItems or endOfChunks, or the return from a tag's   *)
(* call; whoever has no caller left has walked the value.                  *)
LoopStep(buf, end, at, calls) ==
  LET b     == buf[at + 1]
      f     == calls[Len(calls)]
      below == SubSeq(calls, 1, Len(calls) - 1)
      ends  == f.left < 0 /\ b = BREAK
  IN CASE calls = << >> -> Result(at)
       [] calls # << >> /\ f.left = 0 -> Resume(at, below)
       [] calls # << >> /\ f.left # 0 /\ at >= end -> Result(INCOMPLETE)
       [] calls # << >> /\ f.left # 0 /\ at < end /\ ends -> Resume(at + 1, below)
       [] calls # << >> /\ f.left # 0 /\ at < end /\ ~ends ->
            IF f.major \in {2, 3} /\ ~IsChunk(b, f.major) THEN Result(MALFORMED)
            ELSE CallValue(at, Append(below, [f EXCEPT !.left = IF @ < 0 THEN @ ELSE @ - 1]))

WalkStep(buf, end, w) ==
  CASE w.phase = "value" -> ValueStep(buf, end, w.at, w.calls)
    [] w.phase = "loop"  -> LoopStep(buf, end, w.at, w.calls)
    [] w.phase = "done"  -> w
=============================================================================
