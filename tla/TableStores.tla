----------------------------- MODULE TableStores -----------------------------
(***************************************************************************)
(* Deobfuscator::replaceFUNCREF_TABLE (src/src/Deobfuscator.cpp:591-629)   *)
(* on the use lists of FUNCREF_TABLE: for each requested function in turn, *)
(* the stores met among the users of the table and of the constant         *)
(* addresses in it are collected, once for every use, and then erased.     *)
(***************************************************************************)
EXTENDS TableContract, Naturals, FiniteSets

CONSTANTS
  Function,  \* the requested functions
  Outside,   \* the rest of the module
  Store,     \* store instructions
  Element,   \* constant addresses in the table (getelementptr expressions)
  Programs   \* the programs considered, records of AllPrograms

(* An operand is the table, a constant address in it, an address computed  *)
(* from the table's address that the function keeps in memory, or nothing  *)
(* of the kind.                                                            *)
Operand == {"table", "computed", "other"} \cup Element
AllPrograms ==
  [Store -> [in : Function \cup {Outside}, value : Operand, address : Operand]]

ASSUME TableStoresAssumption ==
  /\ Outside \notin Function
  /\ IsFiniteSet(Store)
  /\ Element \cap {"table", "computed", "other"} = {}
  /\ Programs \subseteq AllPrograms

VARIABLES
  prog,
  alive,     \* the stores that are in the module
  Stores,    \* how often each store is in the vector
  F,         \* the function being cleaned, or Outside
  done,      \* the functions that were
  undefined  \* a store was erased that was no longer there

vars == <<prog, alive, Stores, F, done, undefined>>

Names(operand) == operand = "table" \/ operand \in Element

Init ==
  /\ prog \in Programs
  /\ alive = Store
  /\ Stores = [s \in Store |-> 0]
  /\ F = Outside
  /\ done = {}
  /\ undefined = FALSE

(* Mutant: the stores of every function are collected. *)
UsesEverywhere(f, s) ==
  IF s \in alive
  THEN Cardinality({side \in {"value", "address"} : Names(prog[s][side])})
  ELSE 0

(* How often the walk over the users meets a store of f.                   *)
Uses(f, s) ==
  IF s \in alive /\ prog[s].in = f
  THEN Cardinality({side \in {"value", "address"} : Names(prog[s][side])})
  ELSE 0

(* Mutant: only the users of the table itself are looked at. *)
CollectDirect(f) ==
  /\ F = Outside /\ f \notin done
  /\ F' = f
  /\ Stores' = [s \in Store |->
       IF "table" \in {prog[s].value, prog[s].address} THEN Uses(f, s) ELSE 0]
  /\ UNCHANGED <<prog, alive, done, undefined>>

Collect(f) ==
  /\ F = Outside /\ f \notin done
  /\ F' = f
  /\ Stores' = [s \in Store |-> Uses(f, s)]
  /\ UNCHANGED <<prog, alive, done, undefined>>

(* Mutant: a store stays in the vector. *)
EraseAndKeep(s) ==
  /\ Stores[s] > 0
  /\ alive' = alive \ {s}
  /\ undefined' = (undefined \/ s \notin alive)
  /\ Stores' = IF s \in alive THEN Stores ELSE [Stores EXCEPT ![s] = 0]
  /\ UNCHANGED <<prog, F, done>>

(* eraseFromParent, in whatever order the use lists gave.                  *)
Erase(s) ==
  /\ Stores[s] > 0
  /\ alive' = alive \ {s}
  /\ undefined' = (undefined \/ s \notin alive)
  /\ Stores' = [Stores EXCEPT ![s] = @ - 1]
  /\ UNCHANGED <<prog, F, done>>

Return ==
  /\ F # Outside
  /\ \A s \in Store : Stores[s] = 0
  /\ done' = done \cup {F}
  /\ F' = Outside
  /\ UNCHANGED <<prog, alive, Stores, undefined>>

Next ==
  \/ \E f \in Function : Collect(f)
  \/ \E s \in Store : Erase(s)
  \/ Return

Spec == Init /\ [][Next]_vars
-----------------------------------------------------------------------------
(* Types; outside a call the vector is empty, in one it has stores of F.   *)
TypeOK ==
  /\ prog \in Programs
  /\ alive \subseteq Store
  /\ Stores \in [Store -> 0 .. 2]
  /\ F \in Function \cup {Outside}
  /\ done \subseteq Function
  /\ undefined \in BOOLEAN
  /\ \A s \in Store : Stores[s] > 0 => prog[s].in = F /\ F # Outside

(* A store is met twice only when both of its operands name the table:     *)
(* nothing else makes the erasure touch a store that is gone, however many *)
(* functions are cleaned one after the other.                              *)
BothSides(s) == Names(prog[s].value) /\ Names(prog[s].address)
ErasedOnce == undefined => \E s \in Store : BothSides(s)

(* The cleanup of some functions leaves the stores of all others, and the  *)
(* stores that do not name the table, where they are.                      *)
OthersKept ==
  \A s \in Store \ alive :
    /\ prog[s].in \in done \cup {F} /\ prog[s].in # Outside
    /\ Names(prog[s].value) \/ Names(prog[s].address)

(* The state of TableContract that a set of stores of f makes.             *)
Some(stores, f, side, operands) ==
  \E s \in stores : prog[s].in = f /\ prog[s][side] \in operands
StateOf(stores, f) ==
  IF Some(stores, f, "address", {"computed"})
  THEN IF Some(stores, f, "value", {"table"}) THEN "unfolded" ELSE "broken"
  ELSE IF Some(stores, f, "address", {"table"} \cup Element) THEN "folded" ELSE "none"

(* As the runtime stores it: the table's address goes to the data field of *)
(* a table object and nowhere else.                                        *)
Ordinary ==
  \A s \in Store : Names(prog[s].value) =>
    prog[s].value = "table" /\ prog[s].address = "other"

(* The call for f does to f's state what the contract says, in whatever    *)
(* order the stores are met, and nothing to that of other functions.       *)
ImplementsContract ==
  Ordinary =>
    \A f \in Function \ {F} :
      StateOf(alive, f) =
        IF f \in done THEN Cleaned(StateOf(Store, f)) ELSE StateOf(Store, f)
=============================================================================
