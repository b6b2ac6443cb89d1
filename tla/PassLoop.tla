------------------------------- MODULE PassLoop -------------------------------
(***************************************************************************)
(* Deobfuscator::optimizeFunctionWithCustomPipeline                        *)
(* (src/src/Deobfuscator.cpp:323-491): a pipeline that starts and ends     *)
(* with SiMBAPass (src/src/SiMBAPass.cpp) is run again and again.  Both    *)
(* SiMBA passes report through one flag of one OptimizationGuide, which    *)
(* each of them resets; the loop looks at that flag and at the number of   *)
(* instructions before and after the round.                                *)
(***************************************************************************)
EXTENDS Naturals, FiniteSets

CONSTANTS
  Body,      \* what the body of F may look like
  Libraries  \* what the passes may do to it, records of AllLibraries

(* size counts instructions; found and replaced are the result of SiMBA++  *)
(* and the body it leaves; folded is the body the LLVM passes between the  *)
(* two SiMBA passes leave.                                                 *)
AllLibraries ==
  [size     : [Body -> Nat],
   found    : [Body -> Nat],
   replaced : [Body -> Body],
   folded   : [Body -> Body]]

(* A simplifier that counts no replacement has made none.                  *)
Honest(lib) == \A b \in Body : lib.found[b] = 0 => lib.replaced[b] = b

ASSUME LibrariesAssumption ==
  /\ Libraries \subseteq AllLibraries
  /\ \A lib \in Libraries : Honest(lib)

VARIABLES
  lib,       \* the passes
  optimize,  \* OptLevel is not 0
  body,      \* the body of F
  mbaFound,  \* OG.MBAFound
  before,    \* InstCountBefore
  pc         \* the next step of a round

vars == <<lib, optimize, body, mbaFound, before, pc>>

Init ==
  /\ lib \in Libraries
  /\ optimize \in BOOLEAN
  /\ body \in Body
  /\ mbaFound = FALSE
  /\ before = 0
  /\ pc = "entry"

Count ==
  /\ before' = lib.size[body]
  /\ pc' = "early"

(* At level 0 nothing is run; otherwise the first round begins.            *)
Enter ==
  /\ pc = "entry"
  /\ IF optimize THEN Count ELSE pc' = "done" /\ UNCHANGED before
  /\ UNCHANGED <<lib, optimize, body, mbaFound>>

(* Mutant: the flag is set but never reset. *)
RunSiMBAWithoutReset(from, to) ==
  /\ pc = from
  /\ mbaFound' = (mbaFound \/ lib.found[body] > 0)
  /\ body' = lib.replaced[body]
  /\ pc' = to
  /\ UNCHANGED <<lib, optimize, before>>

(* SiMBAPass::run: reset the flag, simplify, set the flag.                 *)
RunSiMBA(from, to) ==
  /\ pc = from
  /\ mbaFound' = (lib.found[body] > 0)
  /\ body' = lib.replaced[body]
  /\ pc' = to
  /\ UNCHANGED <<lib, optimize, before>>

EarlySiMBA == RunSiMBA("early", "passes")
LateSiMBA == RunSiMBA("late", "decide")

RunPasses ==
  /\ pc = "passes"
  /\ body' = lib.folded[body]
  /\ pc' = "late"
  /\ UNCHANGED <<lib, optimize, mbaFound, before>>

(* Mutant: only the counts decide. *)
DecideByCount ==
  /\ pc = "decide"
  /\ IF lib.size[body] # before THEN Count ELSE pc' = "done" /\ UNCHANGED before
  /\ UNCHANGED <<lib, optimize, body, mbaFound>>

(* Mutant: only the flag decides. *)
DecideByFlag ==
  /\ pc = "decide"
  /\ IF mbaFound THEN Count ELSE pc' = "done" /\ UNCHANGED before
  /\ UNCHANGED <<lib, optimize, body, mbaFound>>

(* Another round when the count changed or the flag is set.                *)
Decide ==
  /\ pc = "decide"
  /\ IF lib.size[body] # before \/ mbaFound
     THEN Count
     ELSE pc' = "done" /\ UNCHANGED before
  /\ UNCHANGED <<lib, optimize, body, mbaFound>>

Next == Enter \/ EarlySiMBA \/ RunPasses \/ LateSiMBA \/ Decide

(* One thread: a step is taken while one is enabled.                       *)
Spec == Init /\ [][Next]_vars /\ WF_vars(Next)
-----------------------------------------------------------------------------
(* Types; a round starts with the count of the body it starts with, and    *)
(* outside the rounds nothing was done.                                    *)
TypeOK ==
  /\ lib \in Libraries
  /\ optimize \in BOOLEAN
  /\ body \in Body
  /\ mbaFound \in BOOLEAN
  /\ before \in Nat
  /\ pc \in {"entry", "early", "passes", "late", "decide", "done"}
  /\ pc = "early" => before = lib.size[body]
  /\ pc \in {"early", "passes", "late", "decide"} => optimize

(* What the loop is for (:475-490): it ends only with a body SiMBA finds   *)
(* nothing more in, although the early pass shares, and the late pass      *)
(* resets, the flag that tells.                                            *)
NoMBALeft == pc = "done" /\ optimize => lib.found[body] = 0

(* Every change of the body makes it smaller.                              *)
Shrinking(l) ==
  \A b \in Body :
    /\ l.replaced[b] # b => l.size[l.replaced[b]] < l.size[b]
    /\ l.folded[b] # b => l.size[l.folded[b]] < l.size[b]

(* Counting instructions is enough to notice every change of passes that   *)
(* shrink: another round would change nothing.  (For passes that rewrite   *)
(* without changing the count, it is not.)                                 *)
EndsAtFixedPoint ==
  pc = "done" /\ optimize /\ Shrinking(lib) =>
    lib.replaced[body] = body /\ lib.folded[body] = body

(* Some rank falls with every change, and a replacement is a change.       *)
Progressing(l) ==
  /\ \A b \in Body : l.found[b] > 0 => l.replaced[b] # b
  /\ \E rank \in [Body -> 1 .. Cardinality(Body)] :
       \A b \in Body : \A c \in {l.replaced[b], l.folded[b]} : c # b => rank[c] < rank[b]

(* The rounds end when the passes do not undo each other.                  *)
Terminates == Progressing(lib) ~> (pc = "done")
=============================================================================
