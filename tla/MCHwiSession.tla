---------------------------- MODULE MCHwiSession ----------------------------
(* HwiSession for TLC. *)
EXTENDS HwiSession, TLC

AllFamilies == {"bitbox", "coldcard", "pin", "owned"}
BitBoxOnly  == {"bitbox"}

Symmetry == Permutations(Tasks) \cup Permutations(Handles)
=============================================================================
