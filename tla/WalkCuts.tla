------------------------------ MODULE WalkCuts ------------------------------
(***************************************************************************)
(* JadeSerialLink walks everything it has read after each chunk, from the   *)
(* start (Links.kt:370-379), so a stream is walked over prefixes of it that *)
(* depend on how it was cut.  Here the walks over all its prefixes run side *)
(* by side, each with its own `end`, and are compared.                     *)
(***************************************************************************)
EXTENDS CborWalk

CONSTANTS Streams   \* what a device may send

ASSUME StreamsAssumption == Streams \subseteq Seq(0 .. 255)

VARIABLES bytes,   \* the stream
          walks,   \* for each n, the walk over its first n bytes
          steps    \* history: steps taken

walkVars == <<bytes, walks, steps>>

WalksInit ==
  /\ bytes \in Streams
  /\ walks = [n \in 0 .. Len(bytes) |-> WalkStart]
  /\ steps = 0

(* Mutant of WalksNext: the walk is told the capacity of the buffer, not   *)
(* how much of it was read.                                                *)
WalksNextCapacity ==
  /\ \E n \in DOMAIN walks : walks[n].phase # "done"
  /\ walks' = [n \in DOMAIN walks |-> WalkStep(bytes, Len(bytes), walks[n])]
  /\ steps' = steps + 1
  /\ UNCHANGED bytes

WalksNext ==
  /\ \E n \in DOMAIN walks : walks[n].phase # "done"
  /\ walks' = [n \in DOMAIN walks |-> WalkStep(bytes, n, walks[n])]
  /\ steps' = steps + 1
  /\ UNCHANGED bytes

WalksSpec == WalksInit /\ [][WalksNext]_walkVars

-----------------------------------------------------------------------------
IsDone(n)  == walks[n].phase = "done"
EndFor(n)  == walks[n].at

(* The answer does not depend on how the stream is cut.  A value that ends *)
(* at e is found by every walk that has its last byte, wants more in every *)
(* walk that has not, and malformed bytes are malformed whatever follows:  *)
(* JadeSerialLink returns with the read that brings the last byte, never    *)
(* waits for one behind it and never takes a part for the whole.           *)
CutsAgree ==
  \A n \in DOMAIN walks : IsDone(n) => \A m \in 0 .. n :
    /\ EndFor(n) >= 0 =>
         IsDone(m) /\ EndFor(m) = IF EndFor(n) <= m THEN EndFor(n) ELSE INCOMPLETE
    /\ IsDone(m) /\ EndFor(m) # INCOMPLETE => EndFor(n) = EndFor(m)

(* No walk leaves its bytes, recurses deeper than it has read, or counts   *)
(* beyond an Int, as long as the buffer is below 1 GiB: `pairs * 2` and    *)
(* `pos + length` come from 64-bit headers the device chose.               *)
WalkStaysInside ==
  \A n \in DOMAIN walks :
    /\ walks[n].at <= n
    /\ Len(walks[n].calls) <= n
    /\ 2 * n <= MaxInt => \A k \in DOMAIN walks[n].calls : walks[n].calls[k].left <= MaxInt

(* A walk ends: after three steps for a byte at most one more is left. *)
WalkIsLinear ==
  \A n \in DOMAIN walks : ~IsDone(n) => steps <= 3 * n

(* The bytes a Jade has sent bound what JadeSerialLink does with them,     *)
(* whatever lengths they announce (Links.kt:370-379): where the walk looks, *)
(* how deep it recurses, what it counts and how long it takes.             *)
WalkIsBounded == WalkStaysInside /\ WalkIsLinear
=============================================================================
