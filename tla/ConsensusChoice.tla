--------------------------- MODULE ConsensusChoice ---------------------------
(***************************************************************************)
(* What a consensus protocol promises: at most one value is ever chosen,   *)
(* and a choice is never revoked.                                          *)
(***************************************************************************)
CONSTANT Value
VARIABLE chosen

Init == chosen = {}
Choose == chosen = {} /\ \E v \in Value : chosen' = {v}
Spec == Init /\ [][Choose]_chosen
=============================================================================
