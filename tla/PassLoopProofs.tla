--------------------------- MODULE PassLoopProofs ---------------------------
(***************************************************************************)
(* Theorems about PassLoop, and PassAnalyses on top of it, for every set   *)
(* of bodies and analyses and all effects of the passes on them.           *)
(***************************************************************************)
EXTENDS PassAnalyses, TLAPS

(* What a step reads of the passes is well typed.                          *)
LEMMA LibraryFacts ==
  ASSUME NEW l \in Libraries, NEW b \in Body
  PROVE  /\ l.size[b] \in Nat /\ l.found[b] \in Nat
         /\ l.replaced[b] \in Body /\ l.folded[b] \in Body
         /\ l.found[b] = 0 => l.replaced[b] = b
BY LibrariesAssumption DEF AllLibraries, Honest

LEMMA TypeInit == Init => TypeOK
<1>1. 0 \in Nat
  OBVIOUS
<1>2. QED
  BY <1>1, Zenon DEF Init, TypeOK

LEMMA TypeStep == TypeOK /\ [Next]_vars => TypeOK'
<1>1. SUFFICES ASSUME TypeOK, [Next]_vars PROVE TypeOK'
  OBVIOUS
<1>2. /\ lib.size[body] \in Nat
      /\ lib.replaced[body] \in Body /\ lib.folded[body] \in Body
  BY <1>1, LibraryFacts DEF TypeOK
<1>3. CASE Enter
  BY <1>1, <1>2, <1>3 DEF TypeOK, Enter, Count
<1>4. CASE EarlySiMBA
  BY <1>1, <1>2, <1>4 DEF TypeOK, EarlySiMBA, RunSiMBA
<1>5. CASE RunPasses
  BY <1>1, <1>2, <1>5 DEF TypeOK, RunPasses
<1>6. CASE LateSiMBA
  BY <1>1, <1>2, <1>6 DEF TypeOK, LateSiMBA, RunSiMBA
<1>7. CASE Decide
  BY <1>1, <1>2, <1>7 DEF TypeOK, Decide, Count
<1>8. CASE UNCHANGED vars
  BY <1>1, <1>8 DEF TypeOK, vars
<1>9. QED
  BY <1>1, <1>3, <1>4, <1>5, <1>6, <1>7, <1>8 DEF Next

(* The variables keep their types, and a round starts with a fresh count.  *)
THEOREM TypeCorrect == Spec => []TypeOK
BY TypeInit, TypeStep, PTL DEF Spec

(* When the flag is down after the late pass, that pass left the body as   *)
(* it found it.                                                            *)
FlagInv ==
  /\ pc = "decide" /\ ~ mbaFound => lib.found[body] = 0
  /\ NoMBALeft

(* The loop ends only with a body in which SiMBA finds nothing more.       *)
THEOREM NothingLeft == Spec => []NoMBALeft
<1>1. Init => FlagInv
  BY DEF Init, FlagInv, NoMBALeft
<1>2. TypeOK /\ FlagInv /\ [Next]_vars => FlagInv'
  <2>1. SUFFICES ASSUME TypeOK, FlagInv, [Next]_vars PROVE FlagInv'
    OBVIOUS
  <2> USE DEF FlagInv, NoMBALeft
  <2>2. CASE Enter
    BY <2>1, <2>2 DEF Enter, Count
  <2>3. CASE EarlySiMBA
    BY <2>3 DEF EarlySiMBA, RunSiMBA
  <2>4. CASE RunPasses
    BY <2>4 DEF RunPasses
  <2>5. CASE LateSiMBA
    <3>1. lib.found[body] \in Nat /\ (lib.found[body] = 0 => lib.replaced[body] = body)
      BY <2>1, LibraryFacts DEF TypeOK
    <3>2. mbaFound' = (lib.found[body] > 0)
      BY <2>5 DEF LateSiMBA, RunSiMBA
    <3>3. ~ mbaFound' => ~ (lib.found[body] > 0)
      BY <3>2, Zenon
    <3>4. ~ mbaFound' => lib.found[body] = 0 /\ lib.replaced[body] = body
      BY <3>1, <3>3
    <3>5. body' = lib.replaced[body] /\ lib' = lib /\ pc' = "decide"
      BY <2>5 DEF LateSiMBA, RunSiMBA
    <3>6. QED
      BY <3>4, <3>5
  <2>6. CASE Decide
    BY <2>1, <2>6 DEF Decide, Count
  <2>7. CASE UNCHANGED vars
    BY <2>1, <2>7 DEF vars
  <2>8. QED
    BY <2>1, <2>2, <2>3, <2>4, <2>5, <2>6, <2>7 DEF Next
<1>3. FlagInv => NoMBALeft
  BY DEF FlagInv
<1>4. QED
  BY <1>1, <1>2, <1>3, TypeCorrect, PTL DEF Spec

(* With passes that shrink, the count never grows in a round, and while it *)
(* is the one the round started with no pass has changed anything.         *)
CountInv ==
  Shrinking(lib) =>
    /\ pc \in {"passes", "late", "decide"} => lib.size[body] \leq before
    /\ pc \in {"passes", "late", "decide"} /\ lib.size[body] = before =>
         lib.replaced[body] = body
    /\ pc \in {"late", "decide"} /\ lib.size[body] = before =>
         lib.folded[body] = body
    /\ pc = "done" /\ optimize => lib.replaced[body] = body /\ lib.folded[body] = body

(* With passes that shrink, the loop ends at a fixed point of the round.   *)
THEOREM FixedPointReached == Spec => []EndsAtFixedPoint
<1>1. Init => CountInv
  BY DEF Init, CountInv
<1>2. TypeOK /\ CountInv /\ [Next]_vars => CountInv'
  <2>1. SUFFICES ASSUME TypeOK, CountInv, [Next]_vars, Shrinking(lib) PROVE CountInv'
    <3>1. [Next]_vars => lib' = lib
      BY DEF Next, vars, Enter, EarlySiMBA, LateSiMBA, RunSiMBA, RunPasses, Decide
    <3>2. [Next]_vars => (Shrinking(lib)' <=> Shrinking(lib))
      BY <3>1 DEF Shrinking
    <3>3. QED
      BY <3>2 DEF CountInv
  <2>2. ASSUME NEW b \in Body
        PROVE  /\ lib.size[b] \in Nat
               /\ lib.replaced[b] \in Body /\ lib.folded[b] \in Body
               /\ lib.replaced[b] # b => lib.size[lib.replaced[b]] < lib.size[b]
               /\ lib.folded[b] # b => lib.size[lib.folded[b]] < lib.size[b]
    BY <2>1, <2>2, LibraryFacts DEF TypeOK, Shrinking
  <2>3. body \in Body /\ before \in Nat
    BY <2>1 DEF TypeOK
  <2>4. CASE Enter
    BY <2>1, <2>4 DEF Enter, Count, CountInv
  <2>5. CASE EarlySiMBA
    <3>1. before = lib.size[body]
      BY <2>1, <2>5 DEF EarlySiMBA, RunSiMBA, TypeOK
    <3>2. body' = lib.replaced[body] /\ UNCHANGED <<lib, before>> /\ pc' = "passes"
      BY <2>5 DEF EarlySiMBA, RunSiMBA
    <3>3. body' = body \/ lib.size[body'] < before
      BY <2>2, <2>3, <3>1, <3>2
    <3>4. lib.size[body'] \in Nat
      BY <2>2, <2>3, <3>2
    <3>5. QED
      BY <2>3, <3>1, <3>2, <3>3, <3>4 DEF CountInv
  <2>6. CASE RunPasses
    <3>1. /\ lib.size[body] \leq before
          /\ lib.size[body] = before => lib.replaced[body] = body
      BY <2>1, <2>6 DEF RunPasses, CountInv
    <3>2. body' = lib.folded[body] /\ UNCHANGED <<lib, before>> /\ pc' = "late"
      BY <2>6 DEF RunPasses
    <3>3. body' = body \/ lib.size[body'] < lib.size[body]
      BY <2>2, <2>3, <3>2
    <3>4. lib.size[body'] \in Nat /\ lib.size[body] \in Nat
      BY <2>2, <2>3, <3>2
    <3>5. QED
      BY <2>3, <3>1, <3>2, <3>3, <3>4 DEF CountInv
  <2>7. CASE LateSiMBA
    <3>1. /\ lib.size[body] \leq before
          /\ lib.size[body] = before => lib.replaced[body] = body /\ lib.folded[body] = body
      BY <2>1, <2>7 DEF LateSiMBA, RunSiMBA, CountInv
    <3>2. body' = lib.replaced[body] /\ UNCHANGED <<lib, before>> /\ pc' = "decide"
      BY <2>7 DEF LateSiMBA, RunSiMBA
    <3>3. body' = body \/ lib.size[body'] < lib.size[body]
      BY <2>2, <2>3, <3>2
    <3>4. lib.size[body'] \in Nat /\ lib.size[body] \in Nat
      BY <2>2, <2>3, <3>2
    <3>5. QED
      BY <2>3, <3>1, <3>2, <3>3, <3>4 DEF CountInv
  <2>8. CASE Decide
    BY <2>1, <2>8 DEF Decide, Count, CountInv
  <2>9. CASE UNCHANGED vars
    BY <2>1, <2>9 DEF vars, CountInv
  <2>10. QED
    BY <2>1, <2>4, <2>5, <2>6, <2>7, <2>8, <2>9 DEF Next
<1>3. CountInv => EndsAtFixedPoint
  BY DEF CountInv, EndsAtFixedPoint
<1>4. QED
  BY <1>1, <1>2, <1>3, TypeCorrect, PTL DEF Spec

(***************************************************************************)
(* The analyses kept between the passes.                                   *)
(***************************************************************************)

(* With the analyses or without, the loop takes the same steps.            *)
LEMMA CachedSteps == [CachedNext]_<<vars, analyses>> => [Next]_vars
BY DEF CachedNext, CachedEnter, CachedSiMBA, CachedPasses, CachedDecide, Next, vars, analyses

(* Until the LLVM passes of the first round are over nothing is kept, and  *)
(* what is kept by an analysis blind to replacements is never stale.       *)
StaleInv ==
  /\ CachedTypeOK
  /\ first /\ pc \in {"entry", "early", "passes"} => \A a \in Analysis : cached[a] = Nothing
  /\ \A a \in Analysis :
       cached[a] # Nothing /\ ~ SeesReplacements(a) => view[a][cached[a]] = view[a][body]

(* A pass is given a stale result only after the first round, and only of  *)
(* an analysis that sees what some replacement changes.                    *)
THEOREM StalenessKnown == CachedSpec => []StaleIsKnown
<1>1. CachedInit => TypeOK /\ StaleInv
  <2>1. SUFFICES ASSUME CachedInit PROVE TypeOK /\ StaleInv
    OBVIOUS
  <2>2. cached = [a \in Analysis |-> Nothing]
    BY <2>1 DEF CachedInit, NewManager
  <2>3. cached \in [Analysis -> Body \cup {Nothing}] /\ \A a \in Analysis : cached[a] = Nothing
    BY <2>2
  <2>4. first \in BOOLEAN
    BY <2>1, Zenon DEF CachedInit
  <2>5. TypeOK /\ view \in Views
    BY <2>1, TypeInit DEF CachedInit
  <2>6. QED
    BY <2>3, <2>4, <2>5 DEF StaleInv, CachedTypeOK
<1>2. TypeOK /\ StaleInv /\ [CachedNext]_<<vars, analyses>> => StaleInv'
  <2>1. SUFFICES ASSUME TypeOK, StaleInv, [CachedNext]_<<vars, analyses>> PROVE StaleInv'
    OBVIOUS
  <2> USE DEF StaleInv, CachedTypeOK
  <2>2. lib' = lib /\ view' = view
    BY <2>1 DEF CachedNext, CachedEnter, CachedSiMBA, CachedPasses, CachedDecide, analyses,
                vars, Enter, EarlySiMBA, LateSiMBA, RunSiMBA, RunPasses, Decide
  <2>3. ASSUME NEW a \in Analysis PROVE SeesReplacements(a)' <=> SeesReplacements(a)
    BY <2>2 DEF SeesReplacements
  <2>4. CASE CachedEnter
    BY <2>1, <2>2, <2>3, <2>4 DEF CachedEnter, Enter, Count, analyses
  <2>5. CASE CachedSiMBA
    <3>1. /\ body' = lib.replaced[body] /\ UNCHANGED <<view, cached, first>>
          /\ \/ pc = "early" /\ pc' = "passes"
             \/ pc = "late" /\ pc' = "decide"
      BY <2>5 DEF CachedSiMBA, EarlySiMBA, LateSiMBA, RunSiMBA, analyses
    <3>2. ASSUME NEW a \in Analysis, ~ SeesReplacements(a)
          PROVE  view[a][body'] = view[a][body]
      BY <2>1, <3>1, <3>2 DEF SeesReplacements, TypeOK
    <3>3. QED
      BY <2>1, <2>3, <3>1, <3>2
  <2>6. CASE CachedPasses
    <3>1. /\ pc' = "late" /\ UNCHANGED <<view, first>>
          /\ cached' \in [Analysis -> Body \cup {Nothing}]
          /\ \A a \in Analysis : cached'[a] \in Kept(body')[a]
      BY <2>6 DEF CachedPasses, RunPasses
    <3>2. ASSUME NEW a \in Analysis
          PROVE  \/ cached'[a] \in {Nothing, body'}
                 \/ cached'[a] = cached[a] /\ view[a][body'] = view[a][body]
      BY <3>1, <3>2 DEF Kept
    <3>3. QED
      BY <2>1, <2>3, <3>1, <3>2
  <2>7. CASE CachedDecide
    BY <2>1, <2>2, <2>3, <2>7 DEF CachedDecide, Decide, Count
  <2>8. CASE UNCHANGED <<vars, analyses>>
    BY <2>1, <2>3, <2>8 DEF vars, analyses
  <2>9. QED
    BY <2>1, <2>4, <2>5, <2>6, <2>7, <2>8 DEF CachedNext
<1>3. StaleInv => StaleIsKnown
  BY DEF StaleInv, StaleIsKnown, FirstRoundIsSound, StaleSeesReplacements, Stale
<1>4. QED
  BY <1>1, <1>2, <1>3, CachedSteps, TypeStep, PTL DEF CachedSpec
=============================================================================
