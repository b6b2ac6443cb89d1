------------------------------ MODULE MCInliner ------------------------------
(***************************************************************************)
(* Programs of four call sites, two in Root and one in each of g and h:    *)
(* chains, diamonds, self-calls, recursion through Root, asm, pointers,    *)
(* undefined helpers and helpers InlineFunction refuses.                   *)
(***************************************************************************)
EXTENDS Inliner, SequencesExt

MCFunc == {"root", "g", "h"}
MCSite == {"r1", "r2", "g1", "h1"}
MCOwner == [s \in MCSite |-> CASE s \in {"r1", "r2"} -> "root"
                               [] s = "g1" -> "g"
                               [] s = "h1" -> "h"]
MCTargets ==
  {t \in [MCSite -> MCFunc \cup {"indirect", "asm"}] :
     /\ t["r2"] \in {"g", "asm"}
     /\ t["g1"] \in {"root", "g", "h", "indirect"}
     /\ t["h1"] \in {"g", "indirect", "asm"}}
MCPrograms ==
  [target    : MCTargets,
   ai        : {{"h"}, {"g", "h"}, MCFunc},
   defined   : {MCFunc, MCFunc \ {"g"}},
   inlinable : {MCFunc, MCFunc \ {"h"}}]
(* Without recursion a chain passes through a function once.               *)
MCPaths == BoundedSeq(MCSite, 3)
=============================================================================
