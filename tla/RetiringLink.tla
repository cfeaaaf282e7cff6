---------------------------- MODULE RetiringLink ----------------------------
(***************************************************************************)
(* What TrezorV1Link and SpecterSerialLink promise: "Any incomplete/failed *)
(* exchange retires this link" (Links.kt:28, :390).  A link is ready, in   *)
(* the hands of one caller, or retired, and retired for good.              *)
(***************************************************************************)
CONSTANTS Callers, Ready, Retired
VARIABLE link

Init == link = Ready

(* Only a link nobody uses and that never failed can be claimed. *)
Claim(c) == link = Ready /\ link' = c

(* The caller leaves with an answer, or without one. *)
Answered(c) == link = c /\ link' = Ready
Failed(c)   == link = c /\ link' = Retired

Next == \E c \in Callers : Claim(c) \/ Answered(c) \/ Failed(c)

Spec == Init /\ [][Next]_link
=============================================================================
