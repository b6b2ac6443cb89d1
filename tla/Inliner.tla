------------------------------- MODULE Inliner -------------------------------
(***************************************************************************)
(* Deobfuscator::inlineFunctions (src/src/Deobfuscator.cpp:878-915) and    *)
(* removeCallASMSideEffects (:753-765), which deobfuscateFunction calls    *)
(* next.  A round collects CallInst pointers in a std::set and then inlines *)
(* them in pointer order, that is, in an order the program does not choose; *)
(* the pointers are used after other calls of the same set were erased.    *)
(***************************************************************************)
EXTENDS CallGraph

CONSTANTS
  Paths,      \* the chains ResultIsUnfolded is evaluated on
  MaxDepth,   \* bounds: a new round starts only from chains no longer than
  MaxCalls    \*   MaxDepth and no more than MaxCalls calls (recursion of the
              \*   helpers makes both grow without end)

ASSUME InlinerAssumption ==
  /\ Paths \subseteq Seq(Site)
  /\ MaxDepth \in Nat /\ MaxCalls \in Nat

VARIABLES
  prog,    \* the module: never changed, except the body of Root
  calls,   \* the call instructions in Root
  work,    \* FuncToInline, without the calls already inlined
  pc       \* "scan" and "inline" are the two halves of the do-while body

vars == <<prog, calls, work, pc>>

Init ==
  /\ prog \in Programs
  /\ Root \in prog.defined
  /\ calls = Written(Root)
  /\ work = {}
  /\ pc = "scan"

(* Mutant: only calls the compiler wrote are collected. *)
HotCallsOnce == {c \in calls : Hot(prog, SiteOf(c)) /\ Len(c) = 1}

(* Mutant: a helper without a body is collected as well. *)
HotCallsDeclared == {c \in calls : prog.target[SiteOf(c)] \in prog.ai}

HotCalls == {c \in calls : Hot(prog, SiteOf(c))}

(* Mutant: the loop also ends when every call found is refused. *)
FinishWhenRefused ==
  /\ pc = "scan"
  /\ \A c \in HotCalls : ~ Expands(prog, SiteOf(c))
  /\ pc' = "strip"
  /\ UNCHANGED <<prog, calls, work>>

(* A round finds nothing: Changes stays FALSE and the loop ends.           *)
Finish ==
  /\ pc = "scan"
  /\ HotCalls = {}
  /\ pc' = "strip"
  /\ UNCHANGED <<prog, calls, work>>

(* A round collects every direct call of an always-inline definition.      *)
Collect ==
  /\ pc = "scan"
  /\ HotCalls # {}
  /\ Cardinality(calls) \leq MaxCalls
  /\ \A c \in calls : Len(c) \leq MaxDepth
  /\ work' = HotCalls
  /\ pc' = "inline"
  /\ UNCHANGED <<prog, calls>>

(* The calls InlineFunction clones: the body of the callee as it is now,   *)
(* which for a call of Root by Root is the body being rewritten.           *)
Body(g) == IF g = Root THEN calls ELSE Written(g)

Clones(c) == {c \o q : q \in Body(prog.target[SiteOf(c)])}

(* Mutant: the other calls of the same function go as well. *)
AfterInliningAll(c) ==
  {d \in calls : prog.target[SiteOf(d)] # prog.target[SiteOf(c)]} \cup Clones(c)

AfterInlining(c) == (calls \ {c}) \cup Clones(c)

(* The result of InlineFunction is ignored: a refused call stays in Root   *)
(* and leaves the set all the same.                                        *)
InlineOne(c) ==
  /\ pc = "inline"
  /\ calls' = IF Expands(prog, SiteOf(c)) THEN AfterInlining(c) ELSE calls
  /\ work' = work \ {c}
  /\ pc' = IF work' = {} THEN "scan" ELSE "inline"
  /\ UNCHANGED prog

(* Mutant: every call without a called function is erased. *)
StripUnknown ==
  /\ pc = "strip"
  /\ calls' = {c \in calls : prog.target[SiteOf(c)] \in Func}
  /\ pc' = "done"
  /\ UNCHANGED <<prog, work>>

(* removeCallASMSideEffects: erase the inline asm of the unfolded body.    *)
StripAsm ==
  /\ pc = "strip"
  /\ calls' = {c \in calls : prog.target[SiteOf(c)] # "asm"}
  /\ pc' = "done"
  /\ UNCHANGED <<prog, work>>

Next == Collect \/ (\E c \in work : InlineOne(c)) \/ Finish \/ StripAsm

(* One thread that never blocks: some step is taken while one is enabled.  *)
Fairness == WF_vars(Next)

Spec == Init /\ [][Next]_vars

FairSpec == Spec /\ Fairness
-----------------------------------------------------------------------------
(* The types of the variables; the set is empty outside the second half of *)
(* the loop body.                                                          *)
TypeOK ==
  /\ prog \in Programs
  /\ calls \subseteq Seq(Site) \ {<<>>}
  /\ work \subseteq Seq(Site) \ {<<>>}
  /\ pc \in {"scan", "inline", "strip", "done"}
  /\ pc = "inline" <=> work # {}

(* A pointer still to be inlined is a call that is still in Root and whose *)
(* callee is still to be inlined: no earlier InlineFunction of the round   *)
(* erased it (:905-908 dereferences the pointers collected at :899).       *)
WorklistLive == \A c \in work : c \in calls /\ Hot(prog, SiteOf(c))

(* Every call of Root came from the source: its chain starts at a site     *)
(* written in Root and each further link was unfolded from a helper.       *)
CallsAreChains == \A c \in calls : IsChain(prog, c)

(* Nothing got lost: every call that unfolding would produce is in Root or *)
(* still hidden behind a call that is.                                     *)
NothingLost(P) ==
  \A p \in P :
    /\ IsChain(prog, p)
    /\ ~ Expands(prog, SiteOf(p))
    /\ pc = "done" => prog.target[SiteOf(p)] # "asm"
    => \E q \in calls : Prefixed(q, p)

Contract == INSTANCE InlineContract
              WITH result <- IF pc = "done" THEN calls
                             ELSE Written(Root),
                   finished <- (pc = "done")

(* At the end the calls of Root are exactly those the reference unfolding  *)
(* leaves: no helper call survived (:901), none but helpers was unfolded,  *)
(* and no call was lost or invented by the rounds, whatever their order.   *)
(* What they call is what the driver is told: the callees of Root and of   *)
(* the helpers it reaches that are no helpers.                             *)
ResultIsUnfolded ==
  pc = "done" =>
    /\ Contract!Unfolded(prog, calls)
    /\ {prog.target[SiteOf(c)] : c \in calls} = CalleesLeft(prog)

(* The do-while ends only when it should be able to: a module with a       *)
(* recursive or a refused helper below Root never gets past :911.          *)
EndsOnlyIfItCan == pc \in {"strip", "done"} => CanFinish(prog)

(* And it does end for every module whose helpers are not recursive.       *)
Terminates == CanFinish(prog) ~> (pc = "done")

(* Root's rewriting, seen as one step, is the promised one.                *)
ImplementsContract == Contract!Spec
=============================================================================
