---------------------------- MODULE ExtractProofs ----------------------------
(***************************************************************************)
(* Theorems about Extract for every module, every request and every order  *)
(* in which the work queue is popped.                                      *)
(***************************************************************************)
EXTENDS Extract, TLAPS

LEMMA ConstantFacts ==
  /\ Modules \subseteq AllModules
  /\ Requests \subseteq AllRequests
  /\ Function \subseteq Value /\ Variable \subseteq Value
BY ExtractAssumption DEF Value

Lookups == {"aliases", "raliases", "globals", "rglobals", "functions",
            "rfunctions", "blocks"}

(***************************************************************************)
(* What the seven lookups have inserted and tested before each stage.      *)
(***************************************************************************)
Found1 == Named(before, req.aliases)
Found2 == Found1 \cup Matched(before, req.raliases)
Found3 == Found2 \cup Named(before, req.globals)
Found4 == Found3 \cup Matched(before, req.rglobals)
Found5 == Found4 \cup Named(before, req.functions)
Found6 == Found5 \cup Matched(before, req.rfunctions)

Ok1 == AllPresent(before, req.aliases)
Ok2 == Ok1 /\ AllMatch(before, req.raliases)
Ok3 == Ok2 /\ AllPresent(before, req.globals)
Ok4 == Ok3 /\ AllMatch(before, req.rglobals)
Ok5 == Ok4 /\ AllPresent(before, req.functions)
Ok6 == Ok5 /\ AllMatch(before, req.rfunctions)

LookupInv ==
  /\ pc = "aliases"    => gvs = {}
  /\ pc = "raliases"   => gvs = Found1 /\ Ok1
  /\ pc = "globals"    => gvs = Found2 /\ Ok2
  /\ pc = "rglobals"   => gvs = Found3 /\ Ok3
  /\ pc = "functions"  => gvs = Found4 /\ Ok4
  /\ pc = "rfunctions" => gvs = Found5 /\ Ok5
  /\ pc = "blocks"     => gvs = Found6 /\ Ok6
  /\ pc = "closure"    => gvs = Seeds(before, req)
  /\ pc \in Lookups \cup {"closure", "visit", "delete"} => module = before
  /\ pc \notin Lookups \cup {"returned"} => Resolves(before, req)
  /\ pc # "returned" => rc = 0
  /\ queue # {} => pc = "visit"
  /\ queue \subseteq gvs \cap Function
  /\ pc = "visit" => req.recursive
  /\ pc \in Stages

(* Resolves and Seeds, spelled out in the order of the lookups.            *)
LEMMA SeedsInOrder ==
  /\ Seeds(before, req) = Found6 \cup Named(before, req.blocks)
  /\ Resolves(before, req) <=> Ok6 /\ AllPresent(before, req.blocks)
<1>1. Seeds(before, req) = Found6 \cup Named(before, req.blocks)
  BY DEF Seeds, Found1, Found2, Found3, Found4, Found5, Found6
<1>2. Resolves(before, req) <=> Ok6 /\ AllPresent(before, req.blocks)
  BY DEF Resolves, Ok1, Ok2, Ok3, Ok4, Ok5, Ok6
<1>3. QED
  BY <1>1, <1>2

(* The lookups insert the seeds, in order, and touch nothing else; the     *)
(* stages after them are reached only by a request that resolves.          *)
LEMMA LookupsCorrect == Spec => []LookupInv
<1>1. Init => LookupInv
  BY DEF Init, LookupInv, Lookups, Stages
<1>2. LookupInv /\ [Next]_vars => LookupInv'
  <2>1. SUFFICES ASSUME LookupInv, [Next]_vars PROVE LookupInv'
    OBVIOUS
  <2> USE DEF LookupInv, Lookups, Stages
  <2> DEFINE Same == UNCHANGED <<before, req>>
  <2>2. Same =>
          /\ UNCHANGED <<Found1, Found2, Found3, Found4, Found5, Found6>>
          /\ (Ok1' <=> Ok1) /\ (Ok2' <=> Ok2) /\ (Ok3' <=> Ok3)
          /\ (Ok4' <=> Ok4) /\ (Ok5' <=> Ok5) /\ (Ok6' <=> Ok6)
          /\ Seeds(before, req)' = Seeds(before, req)
          /\ Resolves(before, req)' <=> Resolves(before, req)
    BY DEF Found1, Found2, Found3, Found4, Found5, Found6,
           Ok1, Ok2, Ok3, Ok4, Ok5, Ok6
  <2>3. CASE FindAliases
    BY <2>1, <2>2, <2>3
    DEF FindAliases, LookupNames, Lookup, Return, Found1, Ok1
  <2>4. CASE FindAliasesByPattern
    BY <2>1, <2>2, <2>4
    DEF FindAliasesByPattern, LookupPatterns, Lookup, Return, Found2, Ok2
  <2>5. CASE FindGlobals
    BY <2>1, <2>2, <2>5
    DEF FindGlobals, LookupNames, Lookup, Return, Found3, Ok3
  <2>6. CASE FindGlobalsByPattern
    BY <2>1, <2>2, <2>6
    DEF FindGlobalsByPattern, LookupPatterns, Lookup, Return, Found4, Ok4
  <2>7. CASE FindFunctions
    BY <2>1, <2>2, <2>7
    DEF FindFunctions, LookupNames, Lookup, Return, Found5, Ok5
  <2>8. CASE FindFunctionsByPattern
    BY <2>1, <2>2, <2>8
    DEF FindFunctionsByPattern, LookupPatterns, Lookup, Return, Found6, Ok6
  <2>9. CASE FindBlockFunctions
    BY <2>1, <2>2, <2>9, SeedsInOrder
    DEF FindBlockFunctions, LookupNames, Lookup, Return
  <2>10. CASE StartClosure
    BY <2>1, <2>2, <2>10 DEF StartClosure
  <2>11. ASSUME NEW f \in queue, Visit(f) PROVE LookupInv'
    <3>1. Callees(module, f) \subseteq Function
      BY DEF Callees
    <3>2. QED
      BY <2>1, <2>2, <2>11, <3>1 DEF Visit
  <2>12. CASE EndClosure
    BY <2>1, <2>2, <2>12 DEF EndClosure
  <2>13. CASE DeleteDefinitions
    BY <2>1, <2>2, <2>13 DEF DeleteDefinitions
  <2>14. CASE SplitBlocks
    BY <2>1, <2>2, <2>14 DEF SplitBlocks, Return
  <2>15. CASE CleanUp
    BY <2>1, <2>2, <2>15 DEF CleanUp, Return
  <2>16. CASE UNCHANGED vars
    BY <2>1, <2>2, <2>16 DEF vars
  <2>17. QED
    BY <2>1, <2>3, <2>4, <2>5, <2>6, <2>7, <2>8, <2>9, <2>10, <2>11, <2>12,
       <2>13, <2>14, <2>15, <2>16 DEF Next
<1>3. QED
  BY <1>1, <1>2, PTL DEF Spec

(***************************************************************************)
(* The closure.                                                            *)
(***************************************************************************)
(* A step of the closure stays inside the wanted values: a callee of one   *)
(* belongs to every closed set that contains the seeds.                    *)
LEMMA CalleesWanted ==
  ASSUME NEW m, NEW r, r.recursive, m.defs \subseteq m.names,
         NEW f \in Function \cap Wanted(m, r), Callees(m, f) # {} => f \in m.defs
  PROVE  Callees(m, f) \subseteq Wanted(m, r)
<1> DEFINE defined == Function \cap m.defs
           Good(S) == Seeds(m, r) \cap defined \subseteq S /\ Closed(m, S)
<1>1. SUFFICES ASSUME NEW g \in Callees(m, f) PROVE g \in Wanted(m, r)
  OBVIOUS
<1>2. g \in defined /\ f \in defined
  BY <1>1 DEF Callees
<1>3. SUFFICES ASSUME NEW S \in SUBSET defined, Good(S) PROVE g \in S
  BY <1>2 DEF Wanted
<1>4. f \in S
  BY <1>2, <1>3 DEF Wanted
<1>5. QED
  BY <1>1, <1>3, <1>4 DEF Closed

(* A closed set that contains the seeds contains what is wanted.           *)
LEMMA WantedLeast ==
  ASSUME NEW m, NEW r, NEW S, Seeds(m, r) \subseteq S,
         r.recursive => \A f \in S \cap Function \cap m.defs : Callees(m, f) \subseteq S
  PROVE  Wanted(m, r) \subseteq S
<1> DEFINE defined == Function \cap m.defs
           T == S \cap defined
<1>1. CASE ~ r.recursive
  BY <1>1 DEF Wanted
<1>2. CASE r.recursive
  <2>1. T \in SUBSET defined /\ Seeds(m, r) \cap defined \subseteq T
    OBVIOUS
  <2>2. Closed(m, T)
    BY <1>2 DEF Closed, Callees
  <2>3. QED
    BY <1>2, <2>1, <2>2 DEF Wanted
<1>3. QED
  BY <1>1, <1>2

LEMMA SeedsWanted == Seeds(before, req) \subseteq Wanted(before, req)
BY DEF Wanted

(* Only definitions have callees.                                          *)
CallersDefined == /\ WellFormed(before)
                  /\ before \in AllModules
                  /\ req \in AllRequests

LEMMA InputsKept == Spec => []CallersDefined
<1>1. Init => CallersDefined
  BY ConstantFacts DEF Init, CallersDefined
<1>2. CallersDefined /\ [Next]_vars => CallersDefined'
  <2>1. [Next]_vars => UNCHANGED <<before, req>>
    BY DEF Next, vars, FindAliases, FindAliasesByPattern, FindGlobals,
           FindGlobalsByPattern, FindFunctions, FindFunctionsByPattern,
           FindBlockFunctions, LookupNames, LookupPatterns, Lookup,
           StartClosure, Visit, EndClosure, DeleteDefinitions, SplitBlocks,
           CleanUp
  <2>2. QED
    BY <2>1 DEF CallersDefined
<1>3. QED
  BY <1>1, <1>2, PTL DEF Spec

LEMMA CallersAreDefinitions ==
  ASSUME CallersDefined, NEW f, NEW g \in Callees(before, f)
  PROVE  f \in before.defs /\ g \in before.defs /\ before.defs \subseteq before.names
BY DEF CallersDefined, WellFormed, Callees

(* Whatever the order of the queue: nothing but wanted values gets into    *)
(* GVs, the seeds are in, and what has left the queue has its callees in.  *)
THEOREM ClosureCorrect == Spec => []ClosureInv
<1>1. Init => ClosureInv
  BY DEF Init, ClosureInv
<1>2. CallersDefined /\ LookupInv /\ ClosureInv /\ [Next]_vars => ClosureInv'
  <2>1. SUFFICES ASSUME CallersDefined, LookupInv, ClosureInv, [Next]_vars
                 PROVE  ClosureInv'
    OBVIOUS
  <2> USE DEF LookupInv, Lookups, Stages
  <2>2. ASSUME UNCHANGED <<before, req>>,
               pc' \notin {"visit", "delete", "split", "clean"}
        PROVE  ClosureInv'
    BY <2>2 DEF ClosureInv
  <2>3. ASSUME UNCHANGED <<before, req, gvs, queue>>,
               pc \in {"visit", "delete", "split", "clean"}
        PROVE  ClosureInv'
    BY <2>1, <2>3 DEF ClosureInv
  <2>4. CASE FindAliases
    BY <2>2, <2>4 DEF FindAliases, LookupNames, Lookup, Return
  <2>5. CASE FindAliasesByPattern
    BY <2>2, <2>5 DEF FindAliasesByPattern, LookupPatterns, Lookup, Return
  <2>6. CASE FindGlobals
    BY <2>2, <2>6 DEF FindGlobals, LookupNames, Lookup, Return
  <2>7. CASE FindGlobalsByPattern
    BY <2>2, <2>7 DEF FindGlobalsByPattern, LookupPatterns, Lookup, Return
  <2>8. CASE FindFunctions
    BY <2>2, <2>8 DEF FindFunctions, LookupNames, Lookup, Return
  <2>9. CASE FindFunctionsByPattern
    BY <2>2, <2>9 DEF FindFunctionsByPattern, LookupPatterns, Lookup, Return
  <2>10. CASE FindBlockFunctions
    BY <2>2, <2>10 DEF FindBlockFunctions, LookupNames, Lookup, Return
  <2>11. CASE StartClosure
    <3>1. gvs' = Seeds(before, req) /\ UNCHANGED <<before, req>>
      BY <2>1, <2>11 DEF StartClosure
    <3>2. req.recursive => queue' = gvs' \cap Function
      BY <2>11 DEF StartClosure
    <3>3. QED
      BY <3>1, <3>2, SeedsWanted DEF ClosureInv
  <2>12. ASSUME NEW f \in queue, Visit(f) PROVE ClosureInv'
    <3>1. /\ pc = "visit" /\ module = before
          /\ gvs' = gvs \cup Callees(before, f)
          /\ queue' = (queue \ {f}) \cup (Callees(before, f) \ gvs)
          /\ UNCHANGED <<before, req, pc>>
      BY <2>1, <2>12 DEF Visit
    <3>2. req.recursive /\ f \in gvs \cap Function
      BY <2>1, <2>12
    <3>3. gvs' \subseteq Wanted(before, req)
      <4>1. f \in Function \cap Wanted(before, req)
        BY <2>1, <3>1, <3>2 DEF ClosureInv
      <4>2. before.defs \subseteq before.names
        BY <2>1 DEF CallersDefined, WellFormed
      <4>3. Callees(before, f) # {} => f \in before.defs
        BY <2>1, CallersAreDefinitions
      <4>4. Callees(before, f) \subseteq Wanted(before, req)
        BY <3>2, <4>1, <4>2, <4>3, CalleesWanted
      <4>5. QED
        BY <2>1, <3>1, <4>4 DEF ClosureInv
    <3>4. ASSUME NEW g \in (gvs' \cap Function \cap before.defs) \ queue'
          PROVE  Callees(before, g) \subseteq gvs'
      <4>1. g = f \/ g \in (gvs \cap Function \cap before.defs) \ queue
        BY <3>1, <3>4
      <4>2. QED
        BY <2>1, <3>1, <3>2, <4>1 DEF ClosureInv
    <3>5. QED
      BY <2>1, <3>1, <3>3, <3>4 DEF ClosureInv
  <2>13. CASE EndClosure
    BY <2>3, <2>13 DEF EndClosure
  <2>14. CASE DeleteDefinitions
    BY <2>3, <2>14 DEF DeleteDefinitions
  <2>15. CASE SplitBlocks
    BY <2>3, <2>15 DEF SplitBlocks, Return
  <2>16. CASE CleanUp
    BY <2>2, <2>16 DEF CleanUp, Return
  <2>17. CASE UNCHANGED vars
    BY <2>1, <2>17 DEF ClosureInv, vars
  <2>18. QED
    BY <2>1, <2>4, <2>5, <2>6, <2>7, <2>8, <2>9, <2>10, <2>11, <2>12, <2>13,
       <2>14, <2>15, <2>16, <2>17 DEF Next
<1>3. QED
  BY <1>1, <1>2, InputsKept, LookupsCorrect, PTL DEF Spec

(***************************************************************************)
(* The result.                                                             *)
(***************************************************************************)
Cut == WithDefinitions(before, req, Wanted(before, req))

ResultInv ==
  /\ pc = "delete" => gvs = Wanted(before, req)
  /\ pc = "split" => module = Cut /\ req.blocks # {}
  /\ pc = "clean" => /\ module = IF req.blocks = {} THEN Cut ELSE WithBlocks(Cut, req)
                     /\ BlocksFound(Cut, req)
  /\ pc = "returned" /\ rc = 0 =>
       /\ module = Extracted(before, req)
       /\ Resolves(before, req)
       /\ BlocksFound(Cut, req)
  /\ pc = "returned" /\ rc # 0 =>
       \/ module = before /\ ~ Resolves(before, req)
       \/ /\ module = Cut /\ req.blocks # {}
          /\ Resolves(before, req) /\ ~ BlocksFound(Cut, req)

(* Leaving the closure, GVs is exactly what is wanted.                     *)
LEMMA ClosureExact ==
  ASSUME ClosureInv, LookupInv, NEW S,
         \/ pc = "visit" /\ queue = {} /\ S = gvs
         \/ pc = "closure" /\ ~ req.recursive /\ S = gvs
  PROVE  S = Wanted(before, req)
<1>1. CASE pc = "closure" /\ ~ req.recursive /\ S = gvs
  BY <1>1 DEF LookupInv, Wanted
<1>2. CASE pc = "visit" /\ queue = {} /\ S = gvs
  <2>1. S \subseteq Wanted(before, req) /\ Seeds(before, req) \subseteq S
    BY <1>2 DEF ClosureInv
  <2>2. \A f \in S \cap Function \cap before.defs : Callees(before, f) \subseteq S
    BY <1>2 DEF ClosureInv, LookupInv
  <2>3. Wanted(before, req) \subseteq S
    BY <2>1, <2>2, WantedLeast
  <2>4. QED
    BY <2>1, <2>3
<1>3. QED
  BY <1>1, <1>2

LEMMA ResultStep ==
  LookupInv /\ ClosureInv /\ ResultInv /\ [Next]_vars => ResultInv'
<1>1. SUFFICES ASSUME LookupInv, ClosureInv, ResultInv, [Next]_vars
               PROVE  ResultInv'
  OBVIOUS
<1> DEFINE Same == UNCHANGED <<before, req>>
<1>2. Same => /\ Cut' = Cut
              /\ Extracted(before, req)' = Extracted(before, req)
              /\ Wanted(before, req)' = Wanted(before, req)
              /\ Resolves(before, req)' <=> Resolves(before, req)
              /\ BlocksFound(Cut, req)' <=> BlocksFound(Cut, req)
              /\ WithBlocks(Cut, req)' = WithBlocks(Cut, req)
  BY DEF Cut
<1>3. ASSUME Same, UNCHANGED module, pc \in Lookups,
             \/ pc' \in Lookups \cup {"closure"}
             \/ pc' = "returned" /\ rc' # 0 /\ ~ Resolves(before, req)
      PROVE  ResultInv'
  BY <1>1, <1>2, <1>3 DEF ResultInv, LookupInv, Lookups
<1>4. CASE FindAliases
  <2>1. ~ AllPresent(module, req.aliases) => ~ Resolves(before, req)
    BY <1>1, <1>4, SeedsInOrder
    DEF FindAliases, LookupNames, Lookup, LookupInv, Lookups, Ok1, Ok2, Ok3, Ok4, Ok5, Ok6
  <2>2. QED
    BY <1>3, <1>4, <2>1 DEF FindAliases, LookupNames, Lookup, Return, Lookups
<1>5. CASE FindAliasesByPattern
  <2>1. ~ AllMatch(module, req.raliases) => ~ Resolves(before, req)
    BY <1>1, <1>5, SeedsInOrder
    DEF FindAliasesByPattern, LookupPatterns, Lookup, LookupInv, Lookups, Ok2, Ok3, Ok4, Ok5, Ok6
  <2>2. QED
    BY <1>3, <1>5, <2>1 DEF FindAliasesByPattern, LookupPatterns, Lookup, Return, Lookups
<1>6. CASE FindGlobals
  <2>1. ~ AllPresent(module, req.globals) => ~ Resolves(before, req)
    BY <1>1, <1>6, SeedsInOrder
    DEF FindGlobals, LookupNames, Lookup, LookupInv, Lookups, Ok3, Ok4, Ok5, Ok6
  <2>2. QED
    BY <1>3, <1>6, <2>1 DEF FindGlobals, LookupNames, Lookup, Return, Lookups
<1>7. CASE FindGlobalsByPattern
  <2>1. ~ AllMatch(module, req.rglobals) => ~ Resolves(before, req)
    BY <1>1, <1>7, SeedsInOrder
    DEF FindGlobalsByPattern, LookupPatterns, Lookup, LookupInv, Lookups, Ok4, Ok5, Ok6
  <2>2. QED
    BY <1>3, <1>7, <2>1 DEF FindGlobalsByPattern, LookupPatterns, Lookup, Return, Lookups
<1>8. CASE FindFunctions
  <2>1. ~ AllPresent(module, req.functions) => ~ Resolves(before, req)
    BY <1>1, <1>8, SeedsInOrder
    DEF FindFunctions, LookupNames, Lookup, LookupInv, Lookups, Ok5, Ok6
  <2>2. QED
    BY <1>3, <1>8, <2>1 DEF FindFunctions, LookupNames, Lookup, Return, Lookups
<1>9. CASE FindFunctionsByPattern
  <2>1. ~ AllMatch(module, req.rfunctions) => ~ Resolves(before, req)
    BY <1>1, <1>9, SeedsInOrder
    DEF FindFunctionsByPattern, LookupPatterns, Lookup, LookupInv, Lookups, Ok6
  <2>2. QED
    BY <1>3, <1>9, <2>1 DEF FindFunctionsByPattern, LookupPatterns, Lookup, Return, Lookups
<1>10. CASE FindBlockFunctions
  <2>1. ~ AllPresent(module, req.blocks) => ~ Resolves(before, req)
    BY <1>1, <1>10, SeedsInOrder
    DEF FindBlockFunctions, LookupNames, Lookup, LookupInv, Lookups
  <2>2. QED
    BY <1>3, <1>10, <2>1 DEF FindBlockFunctions, LookupNames, Lookup, Return, Lookups
<1>11. CASE StartClosure
  <2>1. ~ req.recursive => gvs = Wanted(before, req)
    BY <1>1, <1>11, ClosureExact DEF StartClosure
  <2>2. QED
    BY <1>2, <1>11, <2>1 DEF StartClosure, ResultInv
<1>12. ASSUME NEW f \in queue, Visit(f) PROVE ResultInv'
  BY <1>12 DEF Visit, ResultInv
<1>13. CASE EndClosure
  <2>1. gvs = Wanted(before, req)
    BY <1>1, <1>13, ClosureExact DEF EndClosure
  <2>2. QED
    BY <1>2, <1>13, <2>1 DEF EndClosure, ResultInv
<1>14. CASE DeleteDefinitions
  <2>1. module' = Cut
    BY <1>1, <1>14 DEF DeleteDefinitions, ResultInv, LookupInv, Lookups, Cut
  <2>2. req.blocks = {} => BlocksFound(Cut, req)
    BY DEF BlocksFound
  <2>3. QED
    BY <1>2, <1>14, <2>1, <2>2 DEF DeleteDefinitions, ResultInv
<1>15. CASE SplitBlocks
  <2>1. module = Cut /\ req.blocks # {} /\ Resolves(before, req)
    BY <1>1, <1>15 DEF SplitBlocks, ResultInv, LookupInv, Lookups
  <2>2. QED
    BY <1>2, <1>15, <2>1 DEF SplitBlocks, Return, ResultInv
<1>16. CASE CleanUp
  <2>1. module' = Extracted(before, req)
    BY <1>1, <1>16 DEF CleanUp, ResultInv, Extracted, Cut
  <2>2. Resolves(before, req) /\ BlocksFound(Cut, req)
    BY <1>1, <1>16 DEF CleanUp, ResultInv, LookupInv, Lookups
  <2>3. QED
    BY <1>2, <1>16, <2>1, <2>2 DEF CleanUp, Return, ResultInv
<1>17. CASE UNCHANGED vars
  BY <1>1, <1>2, <1>17 DEF vars, ResultInv
<1>18. QED
  BY <1>1, <1>4, <1>5, <1>6, <1>7, <1>8, <1>9, <1>10, <1>11, <1>12, <1>13,
     <1>14, <1>15, <1>16, <1>17 DEF Next

LEMMA ResultFacts == Spec => []ResultInv
<1>1. Init => ResultInv
  BY DEF Init, ResultInv
<1>2. QED
  BY <1>1, ResultStep, LookupsCorrect, ClosureCorrect, PTL DEF Spec

(* A call that returns 0 leaves exactly the module the reference defines,  *)
(* and it returns 0 exactly when names, patterns and blocks are there.     *)
THEOREM ExtractCorrect == Spec => []ResultIsExtracted
<1>1. ResultInv => ResultIsExtracted
  BY DEF ResultInv, ResultIsExtracted, Cut
<1>2. QED
  BY <1>1, ResultFacts, PTL

(* A call that fails has changed nothing, or has cut the module to what    *)
(* was wanted and found a block missing.                                   *)
THEOREM FailureCorrect == Spec => []FailureIsClean
<1>1. ResultInv => FailureIsClean
  BY DEF ResultInv, FailureIsClean, Cut
<1>2. QED
  BY <1>1, ResultFacts, PTL

(***************************************************************************)
(* References.                                                             *)
(***************************************************************************)
Sound(m) == \A e \in m.calls \cup m.uses : e[1] \in m.defs => e[2] \in m.names

LEMMA CutIsSound ==
  ASSUME CallersDefined
  PROVE  /\ Sound(before) /\ Sound(Cut)
         /\ Sound(WithBlocks(Cut, req))
<1>1. /\ \A e \in before.calls \cup before.uses : e[2] \in before.names
      /\ before.calls \subseteq Value \X Value /\ before.uses \subseteq Value \X Value
  BY DEF CallersDefined, WellFormed, AllModules
<1>2. /\ Cut.names = before.names
      /\ Cut.calls = before.calls /\ Cut.uses = before.uses
  BY DEF Cut, WithDefinitions, CallersDefined, AllModules
<1>3. Sound(before) /\ Sound(Cut)
  BY <1>1, <1>2 DEF Sound
<1>4. Cut \in [names : SUBSET Value, defs : SUBSET Value,
               constant : SUBSET Variable, calls : SUBSET (Value \X Value),
               uses : SUBSET (Value \X Value), blocks : SUBSET Function]
  BY DEF Cut, WithDefinitions, CallersDefined, AllModules
<1>5. ASSUME NEW e \in WithBlocks(Cut, req).calls \cup WithBlocks(Cut, req).uses
      PROVE  e[2] \in WithBlocks(Cut, req).names
  <2> DEFINE moved(edges) == {<<PieceOf[d[1]], d[2]>> : d \in
                                {x \in edges : x[1] \in req.blocks}}
  <2>1. /\ WithBlocks(Cut, req).calls = Cut.calls \cup moved(Cut.calls)
        /\ WithBlocks(Cut, req).uses = Cut.uses \cup moved(Cut.uses)
        /\ Cut.names \subseteq WithBlocks(Cut, req).names
    BY <1>4 DEF WithBlocks
  <2>2. CASE e \in Cut.calls \cup Cut.uses
    BY <1>1, <1>2, <2>1, <2>2
  <2>3. CASE e \in moved(Cut.calls) \cup moved(Cut.uses)
    <3>1. PICK d \in Cut.calls \cup Cut.uses : e = <<PieceOf[d[1]], d[2]>>
      BY <2>3
    <3>2. QED
      BY <1>1, <1>2, <2>1, <3>1
  <2>4. QED
    BY <1>5, <2>1, <2>2, <2>3
<1>6. QED
  BY <1>3, <1>5 DEF Sound

(* Cleaning up keeps what a definition refers to.                          *)
LEMMA PrunedIsSound ==
  ASSUME NEW m \in AllModules, Sound(m)
  PROVE  Sound(Pruned(m))
<1>1. /\ Pruned(m).defs = m.defs /\ Pruned(m).calls = m.calls
      /\ Pruned(m).uses = m.uses
      /\ Pruned(m).names = {v \in m.names :
           v \in m.defs \/ \E d \in m.defs : <<d, v>> \in m.calls \cup m.uses}
  BY DEF Pruned, AllModules
<1>2. ASSUME NEW e \in m.calls \cup m.uses, e[1] \in m.defs
      PROVE  e[2] \in Pruned(m).names
  <2>1. e = <<e[1], e[2]>>
    BY DEF AllModules
  <2>2. e[2] \in m.names
    BY <1>2 DEF Sound
  <2>3. QED
    BY <1>1, <1>2, <2>1, <2>2
<1>3. QED
  BY <1>1, <1>2 DEF Sound

(* The modules the passes make are modules.                                *)
LEMMA CutInAllModules ==
  ASSUME CallersDefined
  PROVE  Cut \in AllModules /\ WithBlocks(Cut, req) \in AllModules
<1> DEFINE new == {PieceOf[f] : f \in req.blocks}
           moved(edges) == {<<PieceOf[d[1]], d[2]>> : d \in
                              {x \in edges : x[1] \in req.blocks}}
<1>1. Cut \in AllModules
  BY DEF Cut, WithDefinitions, CallersDefined, AllModules
<1>2. new \subseteq Value
  BY DEF CallersDefined, AllRequests, Value, Pieces
<1>3. ASSUME NEW edges \in SUBSET (Value \X Value)
      PROVE  moved(edges) \subseteq Value \X Value
  <2>1. ASSUME NEW d \in edges, d[1] \in req.blocks
        PROVE  PieceOf[d[1]] \in Value /\ d[2] \in Value
    BY <1>2, <2>1
  <2>2. QED
    BY <2>1
<1> DEFINE names == Cut.names \cup new
           defs  == (Cut.defs \ Function) \cup new
           calls == Cut.calls \cup moved(Cut.calls)
           uses  == Cut.uses \cup moved(Cut.uses)
<1>4. WithBlocks(Cut, req) = [Cut EXCEPT !.names = names, !.defs = defs,
                                         !.calls = calls, !.uses = uses]
  BY DEF WithBlocks
<1>5. /\ moved(Cut.calls) \subseteq Value \X Value
      /\ moved(Cut.uses) \subseteq Value \X Value
  <2>1. Cut.calls \in SUBSET (Value \X Value) /\ Cut.uses \in SUBSET (Value \X Value)
    BY <1>1 DEF AllModules
  <2>2. QED
    BY <1>3, <2>1
<1>6. names \in SUBSET Value /\ defs \in SUBSET Value
  <2>1. Cut.names \in SUBSET Value /\ Cut.defs \in SUBSET Value
    BY <1>1 DEF AllModules
  <2>2. QED
    BY <1>2, <2>1
<1>7. calls \in SUBSET (Value \X Value) /\ uses \in SUBSET (Value \X Value)
  <2>1. Cut.calls \in SUBSET (Value \X Value) /\ Cut.uses \in SUBSET (Value \X Value)
    BY <1>1 DEF AllModules
  <2>2. QED
    BY <1>5, <2>1
<1> HIDE DEF names, defs, calls, uses
<1>8. [Cut EXCEPT !.names = names, !.defs = defs,
                  !.calls = calls, !.uses = uses] \in AllModules
  BY <1>1, <1>6, <1>7 DEF AllModules
<1>9. WithBlocks(Cut, req) \in AllModules
  BY <1>4, <1>8
<1>10. QED
  BY <1>1, <1>9

(* Before, during and after a call, failed or not, no definition refers to *)
(* a value that is not in the module any more.                             *)
THEOREM ReferencesResolve == Spec => []NothingDangles
<1>1. CallersDefined /\ LookupInv /\ ResultInv => NothingDangles
  <2>1. SUFFICES ASSUME CallersDefined, LookupInv, ResultInv
                 PROVE  Sound(module)
    BY DEF NothingDangles, Sound
  <2>2. Sound(Extracted(before, req))
    <3>1. Extracted(before, req) =
            Pruned(IF req.blocks = {} THEN Cut ELSE WithBlocks(Cut, req))
      BY DEF Extracted, Cut
    <3>2. QED
      BY <2>1, <3>1, CutIsSound, CutInAllModules, PrunedIsSound
  <2>3. module \in {before, Cut, WithBlocks(Cut, req), Extracted(before, req)}
    BY <2>1 DEF LookupInv, ResultInv, Lookups, Stages
  <2>4. QED
    BY <2>1, <2>2, <2>3, CutIsSound
<1>2. QED
  BY <1>1, InputsKept, LookupsCorrect, ResultFacts, PTL

(* With -recursive, what a kept function calls directly is kept with it.   *)
THEOREM SelfContained == Spec => []RecursiveIsSelfContained
<1>1. CallersDefined /\ ResultInv => RecursiveIsSelfContained
  <2>1. SUFFICES ASSUME CallersDefined, ResultInv, pc = "returned", rc = 0,
                        req.recursive, ~ req.delete, req.blocks = {},
                        NEW f \in module.defs \cap Function
                 PROVE  Callees(before, f) \subseteq module.defs
    BY DEF RecursiveIsSelfContained
  <2>2. Cut.defs =
          {v \in before.defs : \/ v \in Wanted(before, req)
                               \/ req.keepConst /\ v \in before.constant}
    BY <2>1 DEF Cut, WithDefinitions, CallersDefined, AllModules
  <2>3. module.defs = Cut.defs
    <3>1. module = Pruned(Cut)
      BY <2>1 DEF ResultInv, Extracted, Cut
    <3>2. Pruned(Cut).defs = Cut.defs
      BY <2>1, CutInAllModules DEF Pruned, AllModules
    <3>3. QED
      BY <3>1, <3>2
  <2>4. f \notin before.constant
    BY <2>1, ExtractionAssumption DEF CallersDefined, AllModules
  <2>5. f \in before.defs
    BY <2>1, <2>2, <2>3
  <2>6. f \in Function \cap Wanted(before, req)
    BY <2>1, <2>2, <2>3, <2>4
  <2>7. Callees(before, f) \subseteq Wanted(before, req)
    BY <2>1, <2>5, <2>6, CalleesWanted DEF CallersDefined, WellFormed
  <2>8. ASSUME NEW g \in Callees(before, f) PROVE g \in module.defs
    <3>1. g \in before.defs /\ g \in Wanted(before, req)
      BY <2>7, <2>8 DEF Callees
    <3>2. QED
      BY <2>2, <2>3, <3>1
  <2>9. QED
    BY <2>8
<1>2. QED
  BY <1>1, InputsKept, ResultFacts, PTL

(***************************************************************************)
(* Types.                                                                  *)
(***************************************************************************)
Contained == gvs \subseteq before.names /\ rc \in {0, 1}

(* GVs holds values of the module only, whatever was asked for.            *)
LEMMA GvsContained == Spec => []Contained
<1>1. Init => Contained
  BY DEF Init, Contained
<1>2. CallersDefined /\ LookupInv /\ Contained /\ [Next]_vars => Contained'
  <2>1. SUFFICES ASSUME CallersDefined, LookupInv, Contained, [Next]_vars
                 PROVE  Contained'
    OBVIOUS
  <2> USE DEF LookupInv, Lookups, Contained
  <2>2. ASSUME NEW stage \in Lookups, NEW next, NEW found, NEW ok,
               Lookup(stage, next, found, ok), found \subseteq module.names
        PROVE  Contained'
    BY <2>1, <2>2 DEF Lookup, Return
  <2>3. ASSUME NEW wanted PROVE Named(module, wanted) \subseteq module.names
    BY DEF Named
  <2>4. ASSUME NEW patterns PROVE Matched(module, patterns) \subseteq module.names
    BY DEF Matched
  <2>5. CASE FindAliases
    BY <2>2, <2>3, <2>5 DEF FindAliases, LookupNames
  <2>6. CASE FindAliasesByPattern
    BY <2>2, <2>4, <2>6 DEF FindAliasesByPattern, LookupPatterns
  <2>7. CASE FindGlobals
    BY <2>2, <2>3, <2>7 DEF FindGlobals, LookupNames
  <2>8. CASE FindGlobalsByPattern
    BY <2>2, <2>4, <2>8 DEF FindGlobalsByPattern, LookupPatterns
  <2>9. CASE FindFunctions
    BY <2>2, <2>3, <2>9 DEF FindFunctions, LookupNames
  <2>10. CASE FindFunctionsByPattern
    BY <2>2, <2>4, <2>10 DEF FindFunctionsByPattern, LookupPatterns
  <2>11. CASE FindBlockFunctions
    BY <2>2, <2>3, <2>11 DEF FindBlockFunctions, LookupNames
  <2>12. ASSUME NEW f \in queue, Visit(f) PROVE Contained'
    <3>1. Callees(before, f) \subseteq before.names
      BY <2>1 DEF Callees, CallersDefined, WellFormed
    <3>2. QED
      BY <2>1, <2>12, <3>1 DEF Visit
  <2>13. CASE StartClosure \/ EndClosure \/ DeleteDefinitions \/ UNCHANGED vars
    BY <2>1, <2>13 DEF StartClosure, EndClosure, DeleteDefinitions, vars
  <2>14. CASE SplitBlocks \/ CleanUp
    BY <2>1, <2>14 DEF SplitBlocks, CleanUp, Return
  <2>15. QED
    BY <2>1, <2>5, <2>6, <2>7, <2>8, <2>9, <2>10, <2>11, <2>12, <2>13, <2>14
    DEF Next
<1>3. QED
  BY <1>1, <1>2, InputsKept, LookupsCorrect, PTL DEF Spec

(* The variables of a call keep their types.                               *)
THEOREM TypeCorrect == Spec => []TypeOK
<1>1. CallersDefined /\ LookupInv /\ ResultInv /\ Contained => TypeOK
  <2>1. SUFFICES ASSUME CallersDefined, LookupInv, ResultInv, Contained
                 PROVE  module \in AllModules
    BY DEF TypeOK, CallersDefined, LookupInv, Contained
  <2>2. module \in {before, Cut, WithBlocks(Cut, req), Extracted(before, req)}
    BY <2>1 DEF LookupInv, ResultInv, Lookups, Stages
  <2>3. ASSUME NEW m \in AllModules PROVE Pruned(m) \in AllModules
    BY DEF Pruned, AllModules
  <2>4. Extracted(before, req) =
          Pruned(IF req.blocks = {} THEN Cut ELSE WithBlocks(Cut, req))
    BY DEF Extracted, Cut
  <2>5. QED
    BY <2>1, <2>2, <2>3, <2>4, CutInAllModules DEF CallersDefined
<1>2. QED
  BY <1>1, InputsKept, LookupsCorrect, ResultFacts, GvsContained, PTL
=============================================================================
