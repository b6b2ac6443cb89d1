----------------------------- MODULE MCPassLoop -----------------------------
(***************************************************************************)
(* Three bodies; every effect of the passes on them, with a replacement    *)
(* counted when the body changes and possibly when it does not; sizes that *)
(* tell the bodies apart or do not; one analysis that tells all bodies     *)
(* apart, or sees no difference between two of them.                       *)
(***************************************************************************)
EXTENDS PassAnalyses, Sequences

MCBody == 0 .. 2

Sizes(s) == [b \in MCBody |-> s[b + 1]]

MCLibraries ==
  {l \in [size     : {Sizes(s) : s \in {<<1, 2, 3>>, <<1, 2, 2>>, <<2, 2, 2>>}},
          found    : [MCBody -> 0 .. 1],
          replaced : [MCBody -> MCBody],
          folded   : [MCBody -> MCBody]] : Honest(l)}

MCViews == {[a \in {"analysis"} |-> Sizes(s)] : s \in {<<0, 1, 2>>, <<0, 0, 1>>}}
=============================================================================
