----------------------------- MODULE Extraction -----------------------------
(***************************************************************************)
(* What LLVMExtract (src/src/LLVMExtract.cpp) computes on a module: which  *)
(* global values are wanted, when the request fails, and what is left of   *)
(* the module.  Extract.tla has the steps, Deobfuscator.tla the caller.    *)
(***************************************************************************)
EXTENDS FiniteSets

CONSTANTS
  Function, Variable, Alias,  \* names of the three kinds of global values
  PieceOf                     \* the name of the function that -bb makes of one

Pieces == {PieceOf[f] : f \in Function}
Value == Function \cup Variable \cup Alias \cup Pieces

ASSUME ExtractionAssumption ==
  /\ DOMAIN PieceOf = Function
  /\ Function \cap Variable = {}
  /\ Function \cap Alias = {}
  /\ Variable \cap Alias = {}
  /\ Pieces \cap (Function \cup Variable \cup Alias) = {}

(***************************************************************************)
(* names are the values of the symbol table and defs those of them with a  *)
(* body or an initializer; calls are the direct calls in bodies and uses   *)
(* the other references of a body or an initializer; blocks are the        *)
(* functions that have the basic block -bb names for them.                 *)
(***************************************************************************)
AllModules ==
  [names    : SUBSET Value,
   defs     : SUBSET Value,
   constant : SUBSET Variable,
   calls    : SUBSET (Value \X Value),
   uses     : SUBSET (Value \X Value),
   blocks   : SUBSET Function]

(* A module the IR reader or the earlier passes produce: every reference   *)
(* comes from a definition, a call from a function, and names a value; an  *)
(* alias is a definition.                                                  *)
WellFormed(m) ==
  /\ m.defs \subseteq m.names
  /\ m.names \cap Alias \subseteq m.defs
  /\ m.names \cap Pieces = {}
  /\ m.calls \cup m.uses \subseteq m.defs \X m.names
  /\ m.calls \subseteq Function \X m.names

(***************************************************************************)
(* A request: names given exactly, patterns (each the set of names it      *)
(* matches), the functions named by -bb, and the three switches.           *)
(***************************************************************************)
AllRequests ==
  [aliases    : SUBSET Alias,
   raliases   : SUBSET SUBSET Alias,
   globals    : SUBSET Variable,
   rglobals   : SUBSET SUBSET Variable,
   functions  : SUBSET Function,
   rfunctions : SUBSET SUBSET Function,
   blocks     : SUBSET Function,
   recursive  : BOOLEAN,
   delete     : BOOLEAN,
   keepConst  : BOOLEAN]

Named(m, wanted) == wanted \cap m.names
Matched(m, patterns) == (UNION patterns) \cap m.names

AllPresent(m, wanted) == wanted \subseteq m.names
AllMatch(m, patterns) == \A p \in patterns : p \cap m.names # {}

(* The request can be resolved against the symbol table.                   *)
Resolves(m, req) ==
  /\ \A wanted \in {req.aliases, req.globals, req.functions, req.blocks} :
       AllPresent(m, wanted)
  /\ \A patterns \in {req.raliases, req.rglobals, req.rfunctions} :
       AllMatch(m, patterns)

Seeds(m, req) ==
  UNION {Named(m, req.aliases), Matched(m, req.raliases),
         Named(m, req.globals), Matched(m, req.rglobals),
         Named(m, req.functions), Matched(m, req.rfunctions),
         Named(m, req.blocks)}

(* The definitions f calls directly: what -recursive follows.              *)
Callees(m, f) == {g \in Function \cap m.defs : <<f, g>> \in m.calls}

Closed(m, S) == \A f \in S : Callees(m, f) \subseteq S

(* The values the request is about: with -recursive, what belongs to every *)
(* set of functions that is closed and contains the seeds.                 *)
Wanted(m, req) ==
  LET seeds   == Seeds(m, req)
      defined == Function \cap m.defs
  IN  IF req.recursive
      THEN seeds \cup {g \in defined : \A S \in SUBSET defined :
                         seeds \cap defined \subseteq S /\ Closed(m, S) => g \in S}
      ELSE seeds

(***************************************************************************)
(* LLVM's ExtractGVPass: the values outside gvs (with -delete, inside)     *)
(* lose their definition; a constant keeps it with -keep-const-init.       *)
(***************************************************************************)
WithDefinitions(m, req, gvs) ==
  [m EXCEPT !.defs = {v \in m.defs :
     \/ IF req.delete THEN v \notin gvs ELSE v \in gvs
     \/ req.keepConst /\ v \in m.constant}]

(* LLVM's BlockExtractorPass: each named block becomes a function and the  *)
(* functions of the module become declarations.                            *)
BlocksFound(m, req) == req.blocks \subseteq m.blocks \cap m.defs

WithBlocks(m, req) ==
  LET new == {PieceOf[f] : f \in req.blocks}
      moved(edges) == {<<PieceOf[e[1]], e[2]>> : e \in
                         {d \in edges : d[1] \in req.blocks}}
  IN  [m EXCEPT !.names = @ \cup new,
                !.defs  = (@ \ Function) \cup new,
                !.calls = @ \cup moved(@),
                !.uses  = @ \cup moved(@)]

(* Mutant: only calls count as uses. *)
PrunedByCalls(m) ==
  [m EXCEPT !.names = {v \in m.names :
     \/ v \in m.defs
     \/ \E d \in m.defs : <<d, v>> \in m.calls}]

(* GlobalDCE and StripDeadPrototypes: every definition is visible by now,  *)
(* so what goes is the declarations that no definition refers to.          *)
Pruned(m) ==
  [m EXCEPT !.names = {v \in m.names :
     \/ v \in m.defs
     \/ \E d \in m.defs : <<d, v>> \in m.calls \cup m.uses}]

Extracted(m, req) ==
  LET kept == WithDefinitions(m, req, Wanted(m, req))
  IN  Pruned(IF req.blocks = {} THEN kept ELSE WithBlocks(kept, req))
=============================================================================
