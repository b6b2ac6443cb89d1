---------------------------- MODULE PassAnalyses ----------------------------
(***************************************************************************)
(* The rounds of PassLoop with what the function analysis manager keeps    *)
(* between the passes (src/src/Deobfuscator.cpp:327-346, 483-490): one     *)
(* manager serves every round of a call, and SiMBAPass reports every       *)
(* analysis as preserved (src/src/SiMBAPass.cpp:58) whatever it replaced.  *)
(***************************************************************************)
EXTENDS PassLoop

CONSTANTS
  Analysis,  \* dominators, value ranges, memory dependences, ...
  Views,     \* what each of them sees of a body, members of AllViews
  Nothing    \* no result is kept

AllViews == [Analysis -> [Body -> Nat]]

ASSUME AnalysesAssumption == Views \subseteq AllViews /\ Nothing \notin Body

VARIABLES
  view,
  cached,  \* per analysis, the body its result was computed from
  first    \* no round is over

analyses == <<view, cached, first>>

(* Mutant: the manager is the one of an earlier call. *)
OldManager == [Analysis -> Body]

(* The manager is made anew by every call.                                 *)
NewManager == {[a \in Analysis |-> Nothing]}

CachedInit ==
  /\ Init
  /\ view \in Views
  /\ cached \in NewManager
  /\ first = TRUE

(* Mutant: nothing is dropped. *)
KeepEverything(new) ==
  [a \in Analysis |-> IF cached[a] = Nothing THEN {Nothing, new} ELSE {cached[a]}]

(* After the LLVM passes a result is dropped, computed from the new body,  *)
(* or kept because what it sees has not changed.                           *)
Kept(new) ==
  [a \in Analysis |->
     {Nothing, new} \cup
     (IF view[a][new] = view[a][body] THEN {cached[a]} ELSE {})]

CachedEnter == Enter /\ UNCHANGED analyses

(* PreservedAnalyses::all(): the manager keeps what it has.                *)
CachedSiMBA == (EarlySiMBA \/ LateSiMBA) /\ UNCHANGED analyses

CachedPasses ==
  /\ RunPasses
  /\ cached' \in {c \in [Analysis -> Body \cup {Nothing}] :
                    \A a \in Analysis : c[a] \in Kept(body')[a]}
  /\ UNCHANGED <<view, first>>

CachedDecide ==
  /\ Decide
  /\ first' = FALSE
  /\ UNCHANGED <<view, cached>>

CachedNext == CachedEnter \/ CachedSiMBA \/ CachedPasses \/ CachedDecide

CachedSpec ==
  CachedInit /\ [][CachedNext]_<<vars, analyses>> /\ WF_<<vars, analyses>>(CachedNext)
-----------------------------------------------------------------------------
(* Types; a call starts with nothing kept.                                 *)
CachedTypeOK ==
  /\ view \in Views
  /\ cached \in [Analysis -> Body \cup {Nothing}]
  /\ first \in BOOLEAN
  /\ pc = "entry" => \A a \in Analysis : cached[a] = Nothing

(* The analyses a pass would be given a wrong result of.                   *)
Stale == {a \in Analysis : cached[a] # Nothing /\ view[a][cached[a]] # view[a][body]}

(* The first round of a call gives no pass a result about another body:    *)
(* what the early SiMBA pass does is done before anything is kept.         *)
FirstRoundIsSound == first /\ pc = "passes" => Stale = {}

(* In the rounds after it, a stale result can only be one of an analysis   *)
(* that sees the difference some replacement of SiMBA++ makes: those that  *)
(* see the control flow alone stay right for ever.                         *)
SeesReplacements(a) == \E b \in Body : view[a][lib.replaced[b]] # view[a][b]
StaleSeesReplacements == \A a \in Stale : SeesReplacements(a)

(* What a pass may be given although SiMBA++ rewrote the function since,   *)
(* while SiMBAPass declares every analysis preserved (SiMBAPass.cpp:57).   *)
StaleIsKnown == CachedTypeOK /\ FirstRoundIsSound /\ StaleSeesReplacements
=============================================================================
