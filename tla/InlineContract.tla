--------------------------- MODULE InlineContract ---------------------------
(***************************************************************************)
(* What inlineFunctions and removeCallASMSideEffects promise together: in  *)
(* one step the calls of Root become the calls that are left when every    *)
(* always-inline definition has been unfolded, less the inline asm.  The   *)
(* order and the number of the rounds are not part of the promise.         *)
(***************************************************************************)
EXTENDS CallGraph

CONSTANT Paths  \* the chains the promise is evaluated on

VARIABLES prog, result, finished

vars == <<prog, result, finished>>

(* A call that must be there at the end: its chain was unfolded and the    *)
(* call itself is neither always-inline nor asm.                           *)
Survivor(pr, p) ==
  /\ IsChain(pr, p)
  /\ ~ Hot(pr, SiteOf(p))
  /\ pr.target[SiteOf(p)] # "asm"

Unfolded(pr, calls) ==
  /\ \A p \in calls : Survivor(pr, p)
  /\ \A p \in Paths : Survivor(pr, p) => p \in calls

Init ==
  /\ prog \in Programs
  /\ Root \in prog.defined
  /\ result = Written(Root)
  /\ finished = FALSE

Unfold ==
  /\ ~ finished
  /\ finished' = TRUE
  /\ Unfolded(prog, result')
  /\ UNCHANGED prog

Spec == Init /\ [][Unfold]_vars
=============================================================================
