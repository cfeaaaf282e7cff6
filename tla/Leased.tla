------------------------------- MODULE Leased -------------------------------
(***************************************************************************)
(* `Leased<T>` of bhwi-ffi/src/state.rs: a cell whose exclusivity is       *)
(* enforced by an atomic flag instead of the borrow checker.  It is a      *)
(* mutex that refuses instead of blocking and whose pointer may be handed  *)
(* to a holder that lives in another object.                               *)
(*                                                                         *)
(* The module gives the cell's operations to the modules that use it.      *)
(* Beside the flag it keeps, per cell, the set of `&mut T` references that *)
(* are alive: the code has no such variable, it is what `unsafe` makes the *)
(* programmer keep track of.  NoAliasing is therefore an obligation of     *)
(* the clients, not something this module enforces.                        *)
(***************************************************************************)
CONSTANTS Cells,    \* the cells: one per NoiseHandle or ColdcardEncryption
          Holders   \* whatever may own a reference into a cell
VARIABLES leased,   \* the AtomicBool of each cell
          refs      \* the live `&mut` references into each cell, by owner

LeasedTypeOK ==
  /\ leased \in [Cells -> BOOLEAN]
  /\ refs \in [Cells -> SUBSET Holders]

LeasedInit ==
  /\ leased = [c \in Cells |-> FALSE]
  /\ refs = [c \in Cells |-> {}]

(* compare_exchange(false, true): the flag is tested and set in one step. *)
Acquire(c) ==
  /\ ~leased[c]
  /\ leased' = [leased EXCEPT ![c] = TRUE]
  /\ UNCHANGED refs

(* The same call when the flag is already set: None, nothing changes. *)
Refused(c) ==
  /\ leased[c]
  /\ UNCHANGED <<leased, refs>>

(* `&mut *pointer`: a reference comes to life.  Nothing in the code checks *)
(* that it is the only one.                                                *)
Borrow(c, h) ==
  /\ refs' = [refs EXCEPT ![c] = @ \cup {h}]
  /\ UNCHANGED leased

(* The owner of the reference is dropped or its last use has passed. *)
Return(c, h) ==
  /\ refs' = [refs EXCEPT ![c] = @ \ {h}]
  /\ UNCHANGED leased

(* store(false), whoever calls it and whatever references are alive. *)
Release(c) ==
  /\ leased' = [leased EXCEPT ![c] = FALSE]
  /\ UNCHANGED refs

(* The SAFETY comment of `unsafe impl Sync for Leased`: no two references *)
(* into one cell coexist, and none outlives the lease it was made under.  *)
NoAliasing ==
  \A c \in Cells :
    /\ \A g, h \in refs[c] : g = h
    /\ refs[c] # {} => leased[c]
=============================================================================
