------------------------------ MODULE MCRewrites ------------------------------
(***************************************************************************)
(* Rewrites on three stores in two functions or outside, and on bodies of  *)
(* up to three instructions.                                               *)
(***************************************************************************)
EXTENDS Rewrites

(* The stores of the last one are few.                                     *)
MCPrograms ==
  {p \in AllPrograms :
     /\ p[3] \in [in : {"g"}, value : {"other", "table"}, address : {"computed", "e1"}]
     /\ p[1].in \in {"f", "outside"}}

MCBodies ==
  UNION {[1 .. n -> [op : {"access", "call", "other call"}, instance : {0}]] : n \in 0 .. 3}
=============================================================================
