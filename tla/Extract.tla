------------------------------- MODULE Extract -------------------------------
(***************************************************************************)
(* LLVMExtract (src/src/LLVMExtract.cpp:105-373), step by step: seven      *)
(* lookups that each may return 1, the recursive closure with its work     *)
(* queue, the pass that deletes definitions, the block extraction, which   *)
(* may still return 1 after that deletion, and the cleanup.                *)
(***************************************************************************)
EXTENDS Extraction, Naturals

CONSTANTS Modules, Requests  \* the modules and requests considered

ASSUME ExtractAssumption ==
  /\ Modules \subseteq AllModules
  /\ Requests \subseteq AllRequests

VARIABLES
  before,  \* the module when LLVMExtract is called
  req,     \* the request: the arguments and the command line
  module,  \* the module, modified in place
  gvs,     \* GVs
  queue,   \* Workqueue: a vector without duplicates, popped from its back
  pc,      \* the next stage
  rc       \* the value returned

vars == <<before, req, module, gvs, queue, pc, rc>>

Stages == {"aliases", "raliases", "globals", "rglobals", "functions",
           "rfunctions", "blocks", "closure", "visit", "delete", "split",
           "clean", "returned"}

Init ==
  /\ before \in Modules
  /\ WellFormed(before)
  /\ req \in Requests
  /\ module = before
  /\ gvs = {}
  /\ queue = {}
  /\ pc = "aliases"
  /\ rc = 0

Return(value) == rc' = value /\ pc' = "returned"

(* A lookup stage: insert what was found, or give up on the first name or  *)
(* pattern without a value.  Nothing of the module changes.                *)
Lookup(stage, next, found, ok) ==
  /\ pc = stage
  /\ UNCHANGED <<before, req, module, queue>>
  /\ \/ ok /\ gvs' = gvs \cup found /\ pc' = next /\ UNCHANGED rc
     \/ ~ ok /\ Return(1) /\ UNCHANGED gvs

LookupNames(stage, next, wanted) ==
  Lookup(stage, next, Named(module, wanted), AllPresent(module, wanted))

(* Mutant: a pattern that matches nothing is passed over. *)
LookupLeniently(stage, next, patterns) ==
  Lookup(stage, next, Matched(module, patterns), TRUE)

LookupPatterns(stage, next, patterns) ==
  Lookup(stage, next, Matched(module, patterns), AllMatch(module, patterns))

FindAliases == LookupNames("aliases", "raliases", req.aliases)
FindAliasesByPattern == LookupPatterns("raliases", "globals", req.raliases)
FindGlobals == LookupNames("globals", "rglobals", req.globals)
FindGlobalsByPattern == LookupPatterns("rglobals", "functions", req.rglobals)
FindFunctions == LookupNames("functions", "rfunctions", req.functions)
FindFunctionsByPattern == LookupPatterns("rfunctions", "blocks", req.rfunctions)
FindBlockFunctions == LookupNames("blocks", "closure", req.blocks)

(* Mutant: only the functions named exactly are followed. *)
StartFromNames ==
  /\ pc = "closure"
  /\ IF req.recursive
     THEN queue' = req.functions /\ pc' = "visit"
     ELSE pc' = "delete" /\ UNCHANGED queue
  /\ UNCHANGED <<before, req, module, gvs, rc>>

StartClosure ==
  /\ pc = "closure"
  /\ IF req.recursive
     THEN queue' = gvs \cap Function /\ pc' = "visit"
     ELSE pc' = "delete" /\ UNCHANGED queue
  /\ UNCHANGED <<before, req, module, gvs, rc>>

(* Mutant: a callee is inserted but not queued. *)
VisitWithoutPush(f) ==
  /\ pc = "visit"
  /\ gvs' = gvs \cup Callees(module, f)
  /\ queue' = queue \ {f}
  /\ UNCHANGED <<before, req, module, pc, rc>>

(* Mutant: callees are queued whether they are new or not. *)
VisitAgain(f) ==
  /\ pc = "visit"
  /\ gvs' = gvs \cup Callees(module, f)
  /\ queue' = (queue \ {f}) \cup Callees(module, f)
  /\ UNCHANGED <<before, req, module, pc, rc>>

(* Pop a function and insert the definitions it calls that are new.        *)
Visit(f) ==
  /\ pc = "visit"
  /\ LET new == Callees(module, f) \ gvs
     IN  /\ gvs' = gvs \cup new
         /\ queue' = (queue \ {f}) \cup new
  /\ UNCHANGED <<before, req, module, pc, rc>>

EndClosure ==
  /\ pc = "visit"
  /\ queue = {}
  /\ pc' = "delete"
  /\ UNCHANGED <<before, req, module, gvs, queue, rc>>

DeleteDefinitions ==
  /\ pc = "delete"
  /\ module' = WithDefinitions(module, req, gvs)
  /\ pc' = IF req.blocks = {} THEN "clean" ELSE "split"
  /\ UNCHANGED <<before, req, gvs, queue, rc>>

(* Mutant: the blocks are split off up to one that is missing. *)
SplitBlocksFound ==
  LET found == req.blocks \cap module.blocks \cap module.defs
  IN  /\ pc = "split"
      /\ module' = WithBlocks(module, [req EXCEPT !.blocks = found])
      /\ IF found = req.blocks THEN pc' = "clean" /\ UNCHANGED rc ELSE Return(1)
      /\ UNCHANGED <<before, req, gvs, queue>>

(* A missing basic block returns 1 with the definitions already deleted.   *)
SplitBlocks ==
  /\ pc = "split"
  /\ \/ /\ BlocksFound(module, req)
        /\ module' = WithBlocks(module, req)
        /\ pc' = "clean"
        /\ UNCHANGED rc
     \/ /\ ~ BlocksFound(module, req)
        /\ Return(1)
        /\ UNCHANGED module
  /\ UNCHANGED <<before, req, gvs, queue>>

(* Mutant: the value returned says whether the module changed. *)
CleanUpAndTell ==
  /\ pc = "clean"
  /\ module' = Pruned(module)
  /\ Return(IF module' = before THEN 0 ELSE 1)
  /\ UNCHANGED <<before, req, gvs, queue>>

CleanUp ==
  /\ pc = "clean"
  /\ module' = Pruned(module)
  /\ Return(0)
  /\ UNCHANGED <<before, req, gvs, queue>>

Next ==
  \/ FindAliases \/ FindAliasesByPattern
  \/ FindGlobals \/ FindGlobalsByPattern
  \/ FindFunctions \/ FindFunctionsByPattern
  \/ FindBlockFunctions
  \/ StartClosure \/ (\E f \in queue : Visit(f)) \/ EndClosure
  \/ DeleteDefinitions \/ SplitBlocks \/ CleanUp

(* A function call on one thread: a step is taken while one is enabled.    *)
Spec == Init /\ [][Next]_vars /\ WF_vars(Next)
-----------------------------------------------------------------------------
(* Types; the queue holds functions of GVs and is empty outside the loop.  *)
TypeOK ==
  /\ before \in AllModules /\ WellFormed(before)
  /\ req \in AllRequests
  /\ module \in AllModules
  /\ gvs \subseteq before.names
  /\ queue \subseteq gvs \cap Function
  /\ queue # {} => pc = "visit"
  /\ pc \in Stages
  /\ rc \in {0, 1}

(* The stages after which the seeds are all in GVs.                        *)
Resolved == pc \in {"closure", "visit", "delete", "split", "clean"}

(* The closure loop: nothing but wanted values gets in, every seed is in,  *)
(* and a function not in the queue has its callees in.                     *)
ClosureInv ==
  /\ pc \in {"visit", "delete", "split", "clean"} =>
       /\ gvs \subseteq Wanted(before, req)
       /\ Seeds(before, req) \subseteq gvs
  /\ pc \in {"visit", "delete", "split", "clean"} /\ req.recursive =>
       \A f \in (gvs \cap Function \cap before.defs) \ queue :
         Callees(before, f) \subseteq gvs

(* A call that returns 0 leaves the module the reference defines, with the *)
(* least closed set of definitions, whatever the order of the queue; and   *)
(* it returns 0 exactly when names, patterns and blocks can be resolved.   *)
ResultIsExtracted ==
  pc = "returned" =>
    /\ rc = 0 => module = Extracted(before, req)
    /\ rc = 0 <=> /\ Resolves(before, req)
                  /\ BlocksFound(WithDefinitions(before, req, Wanted(before, req)), req)

(* A call that returns 1 has changed nothing if a name or a pattern is not *)
(* there.  If a block is not, the module is cut to the wanted definitions, *)
(* no more and no less: no block is split off and nothing is cleaned up.   *)
FailureIsClean ==
  pc = "returned" /\ rc = 1 =>
    IF Resolves(before, req)
    THEN /\ module = WithDefinitions(before, req, Wanted(before, req))
         /\ ~ BlocksFound(module, req)
    ELSE module = before

(* What is left is a module again: no definition refers to a value that    *)
(* the cleanup removed, after a success or a failure.                      *)
NothingDangles ==
  \A e \in module.calls \cup module.uses :
    e[1] \in module.defs => e[2] \in module.names

(* With -recursive and without -delete, a kept function can still make all *)
(* its direct calls: a callee that had a body has it still.                *)
RecursiveIsSelfContained ==
  pc = "returned" /\ rc = 0 /\ req.recursive /\ ~ req.delete /\ req.blocks = {} =>
    \A f \in module.defs \cap Function : Callees(before, f) \subseteq module.defs

(* The queue is worked off, mutual recursion included.                     *)
Returns == <>(pc = "returned")
=============================================================================
