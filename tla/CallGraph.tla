----------------------------- MODULE CallGraph -----------------------------
(***************************************************************************)
(* The part of an LLVM module that decides what Squanchy inlines: which    *)
(* call site belongs to which function, what it calls, and which functions *)
(* carry the alwaysinline attribute.  A call site inside the function being *)
(* deobfuscated is named by its inline chain, the sequence of the original *)
(* sites it was cloned through: two CallInst of the program are the same   *)
(* instruction exactly when their chains are equal.                        *)
(***************************************************************************)
EXTENDS Naturals, Sequences, FiniteSets

CONSTANTS
  Func,   \* the functions of the module
  Site,   \* the call instructions written in their bodies
  Owner,  \* the function whose body holds a site
  Root,   \* the function handed to deobfuscateFunction
  Programs  \* the modules considered, records of AllPrograms below

ASSUME GraphAssumption ==
  /\ IsFiniteSet(Func)
  /\ Owner \in [Site -> Func]
  /\ Root \in Func
  /\ {"indirect", "asm"} \cap Func = {}

(***************************************************************************)
(* What a site calls: a function of the module, a pointer or a callee of   *)
(* another type (getCalledFunction is null), or an inline asm.  ai and     *)
(* defined are the two conditions inlineFunctions tests; inlinable are the *)
(* functions whose calls LLVM's InlineFunction accepts.                    *)
(***************************************************************************)
AllPrograms ==
  [target    : [Site -> Func \cup {"indirect", "asm"}],
   ai        : SUBSET Func,
   defined   : SUBSET Func,
   inlinable : SUBSET Func]

ASSUME ProgramsAssumption == Programs \subseteq AllPrograms

Hot(prog, s) == /\ prog.target[s] \in prog.ai
                /\ prog.target[s] \in prog.defined

Expands(prog, s) == Hot(prog, s) /\ prog.target[s] \in prog.inlinable

(* The sites that appear in Root once inlining has gone through p.         *)
IsChain(prog, p) ==
  /\ p \in Seq(Site)
  /\ Len(p) > 0
  /\ Owner[p[1]] = Root
  /\ \A i \in 1 .. Len(p) - 1 :
       Expands(prog, p[i]) /\ Owner[p[i + 1]] = prog.target[p[i]]

(* The calls in the body of g as the compiler wrote it.                    *)
Written(g) == {<<s>> : s \in {t \in Site : Owner[t] = g}}

SiteOf(p) == p[Len(p)]

Prefixed(q, p) ==
  /\ Len(q) \leq Len(p)
  /\ \A i \in 1 .. Len(q) : q[i] = p[i]

(* The helpers that Root reaches through helpers, and Root itself.         *)
Reached(prog) ==
  {g \in Func : \A S \in SUBSET Func :
     (/\ Root \in S
      /\ \A s \in Site : Owner[s] \in S /\ Hot(prog, s) => prog.target[s] \in S)
     => g \in S}

(* What Root calls when all of them have been unfolded, the asm erased:    *)
(* nothing here says in how many rounds, or along which chains.            *)
CalleesLeft(prog) ==
  {prog.target[s] : s \in {t \in Site : Owner[t] \in Reached(prog) /\ ~ Hot(prog, t)}}
    \ {"asm"}

(***************************************************************************)
(* When exhaustive inlining stops: no helper that Root reaches through     *)
(* helpers is recursive (a rank strictly decreases along calls) and        *)
(* InlineFunction accepts every one of them.                               *)
(***************************************************************************)
CanFinish(prog) ==
  \E rank \in [Func -> 0 .. Cardinality(Func)] :
    \A s \in Site :
      Owner[s] \in Reached(prog) /\ Hot(prog, s)
      => /\ Expands(prog, s)
         /\ rank[prog.target[s]] < rank[Owner[s]]
=============================================================================
