--------------------------- MODULE ExclusiveLease ---------------------------
(***************************************************************************)
(* What bhwi-ffi/src/state.rs promises of the device state that outlives a *)
(* command: "exclusivity is enforced at runtime": at any time a cell has   *)
(* at most one owner, the state is referenced only while it has one, by    *)
(* one reference at a time, and it changes hands only through a moment at  *)
(* which nobody owns it and nobody refers to it.                           *)
(***************************************************************************)
CONSTANTS Cells, Holders, None
VARIABLES owner,     \* who holds the lease of each cell, or None
          borrower   \* the live references into each cell

Init ==
  /\ owner = [c \in Cells |-> None]
  /\ borrower = [c \in Cells |-> {}]

Take(c, h) ==
  /\ owner[c] = None
  /\ owner' = [owner EXCEPT ![c] = h]
  /\ UNCHANGED borrower

(* The reference may be made by another party on behalf of the owner: the *)
(* thread inside `end` that installs the key.                             *)
Borrow(c, h) ==
  /\ owner[c] # None
  /\ borrower[c] = {}
  /\ borrower' = [borrower EXCEPT ![c] = {h}]
  /\ UNCHANGED owner

Return(c) ==
  /\ borrower' = [borrower EXCEPT ![c] = {}]
  /\ UNCHANGED owner

Give(c) ==
  /\ borrower[c] = {}
  /\ owner' = [owner EXCEPT ![c] = None]
  /\ UNCHANGED borrower

Next ==
  \E c \in Cells :
    \/ \E h \in Holders : Take(c, h) \/ Borrow(c, h)
    \/ Return(c)
    \/ Give(c)

Spec == Init /\ [][Next]_<<owner, borrower>>
=============================================================================
