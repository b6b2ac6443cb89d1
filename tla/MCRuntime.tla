------------------------------ MODULE MCRuntime ------------------------------
(***************************************************************************)
(* The instance of Runtime that TLC checks.                                *)
(***************************************************************************)
EXTENDS Runtime, TLC

CONSTANTS f6, f7

(* 32-bit addresses become 4-bit ones, with a stack of 4 below two bytes of *)
(* data: the layout of the sample, one without data, and one whose second  *)
(* segment does not fit.                                                   *)
DataSegment(at, len) == [at |-> at, len |-> len]
Linked ==
  {[size |-> 6, segments |-> s, checked |-> TRUE] :
     s \in {<<DataSegment(4, 1), DataSegment(5, 1)>>, <<>>,
            <<DataSegment(4, 1), DataSegment(5, 2)>>}}

(* A declaration of less than a page of bytes, as the example of the       *)
(* runtime, and one of two.                                                *)
Declared == {[pages |-> 1, is64 |-> FALSE, size |-> 2],
             [pages |-> 4, is64 |-> TRUE, size |-> 1]}

(* The larger table as in the sample (an empty first entry), a smaller one *)
(* where the larger has another function, and one its segment overruns.    *)
FunctionTypes == [f \in Functions |-> IF f = f6 THEN "t0" ELSE "t2"]
LiftedModules == {[size |-> 3, at |-> 1, elements |-> <<f6, f7>>],
                  [size |-> 2, at |-> 1, elements |-> <<f7>>],
                  [size |-> 2, at |-> 1, elements |-> <<f6, Null>>]}

Alike == Permutations(Importer) \cup Permutations(Instance)
=============================================================================
