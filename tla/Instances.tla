------------------------------ MODULE Instances ------------------------------
(***************************************************************************)
(* Deobfuscator::injectInitializer and replaceInstanceRefs                 *)
(* (src/src/Deobfuscator.cpp:631-654, 696-751) on the instructions of one  *)
(* function F: which instance each instruction works on, and where in the  *)
(* entry block the instance is allocated and initialized.  F is handled    *)
(* once for each time -f names it.                                         *)
(***************************************************************************)
EXTENDS Naturals, Sequences

CONSTANTS
  Bodies,      \* what F looks like at first, members of AllBodies
  MaxHandled   \* bound: how often -f names F

(* The instance an instruction uses: 0 is the parameter of F, k the local  *)
(* variable of the k-th injection.  An access reads or writes a field; a   *)
(* call passes the instance on, to a function named w2c_squanchy_... or    *)
(* to another one (instantiate, a helper that takes &instance->memory).    *)
AllBodies == Seq([op : {"access", "call", "other call"}, instance : {0}])

(* What the module defines: the struct named after -module-name, the type  *)
(* of w2c_env or else the constant with its size, and the initializer,     *)
(* with the two parameters it is called with or others.  F takes the       *)
(* instance it works on first.                                             *)
Modules == [struct : BOOLEAN, env : BOOLEAN, envSize : BOOLEAN,
            instantiate : {"missing", "fits", "misfit"}]

InstancesAssumption ==
  /\ Bodies \subseteq AllBodies
  /\ MaxHandled \in Nat \ {0}

VARIABLES
  module, inject, refs,              \* what the program was given
  entry,                             \* F's instructions in the order of the entry block
  handled,                           \* how often F was handled
  pc, exit

vars == <<module, inject, refs, entry, handled, pc, exit>>

given == <<module, inject, refs>>

Init ==
  /\ module \in Modules
  /\ inject \in BOOLEAN /\ refs \in BOOLEAN
  /\ entry \in Bodies
  /\ handled = 0
  /\ pc = "inject"
  /\ exit = "running"

Instruction(op, k) == [op |-> op, instance |-> k]
Uses(op) == op \in {"access", "call", "other call"}

(* Every use of the parameter becomes a use of k.                          *)
Redirected(code, k) ==
  [n \in DOMAIN code |->
     IF Uses(code[n].op) /\ code[n].instance = 0
     THEN [code[n] EXCEPT !.instance = k] ELSE code[n]]

(* Mutant: the call comes before the allocas of the instance. *)
LayoutCallFirst(code, k) ==
  <<Instruction("instantiate", k),
    Instruction("env", k), Instruction("instance", k)>> \o Redirected(code, k)

(* Both allocas are put at the front, one before the other; the call goes  *)
(* before what was the first instruction.                                  *)
Layout(code, k) ==
  <<Instruction("env", k), Instruction("instance", k),
    Instruction("instantiate", k)>> \o Redirected(code, k)

(* injectInitializer: what is missing is fatal, but for the function to    *)
(* call, whose null pointer is used.  A call that does not fit stops an    *)
(* LLVM with assertions and is built by one without.                       *)
InjectInitializer ==
  /\ pc = "inject"
  /\ IF ~ inject THEN pc' = "references" /\ UNCHANGED <<entry, exit>>
     ELSE IF ~ (module.struct /\ (module.env \/ module.envSize))
     THEN pc' = "stop" /\ exit' = "fatal" /\ UNCHANGED entry
     ELSE \/ /\ module.instantiate # "fits"
             /\ pc' = "stop" /\ exit' = "crash" /\ UNCHANGED entry
          \/ /\ module.instantiate # "missing"
             /\ entry' = Layout(entry, handled + 1)
             /\ pc' = "references" /\ UNCHANGED exit
  /\ UNCHANGED <<given, handled>>

(* Mutant: the loop over the names runs once more. *)
ReplaceOnceMore ==
  /\ pc = "references"
  /\ entry' = IF refs
              THEN [n \in DOMAIN entry |->
                      IF entry[n].op = "call"
                      THEN [entry[n] EXCEPT !.instance = 0] ELSE entry[n]]
              ELSE entry
  /\ handled' = handled + 1
  /\ pc' = IF handled < MaxHandled THEN "inject" ELSE "stop"
  /\ exit' = IF handled < MaxHandled THEN "running" ELSE "success"
  /\ UNCHANGED given

(* Mutant: the arguments of all calls are replaced. *)
ReplaceAllRefs ==
  /\ pc = "references"
  /\ entry' = IF refs
              THEN [n \in DOMAIN entry |->
                      IF entry[n].op \in {"call", "other call"}
                      THEN [entry[n] EXCEPT !.instance = 0] ELSE entry[n]]
              ELSE entry
  /\ handled' = handled + 1
  /\ pc' = IF handled + 1 < MaxHandled THEN "inject" ELSE "stop"
  /\ exit' = IF handled + 1 < MaxHandled THEN "running" ELSE "success"
  /\ UNCHANGED given

(* replaceInstanceRefs: calls of functions of the module are passed the    *)
(* parameter again.                                                        *)
ReplaceInstanceRefs ==
  /\ pc = "references"
  /\ entry' = IF refs
              THEN [n \in DOMAIN entry |->
                      IF entry[n].op = "call"
                      THEN [entry[n] EXCEPT !.instance = 0] ELSE entry[n]]
              ELSE entry
  /\ handled' = handled + 1
  /\ pc' = IF handled + 1 < MaxHandled THEN "inject" ELSE "stop"
  /\ exit' = IF handled + 1 < MaxHandled THEN "running" ELSE "success"
  /\ UNCHANGED given

Next == InjectInitializer \/ ReplaceInstanceRefs

Spec == Init /\ [][Next]_vars
-----------------------------------------------------------------------------
(* Types; every injection made at most one instance for each handling.      *)
TypeOK ==
  /\ module \in Modules
  /\ inject \in BOOLEAN /\ refs \in BOOLEAN
  /\ \A n \in DOMAIN entry : entry[n].instance \in 0 .. MaxHandled
  /\ handled \in 0 .. MaxHandled
  /\ pc \in {"inject", "references", "stop"}
  /\ exit \in {"running", "fatal", "crash", "success"}
  /\ pc = "stop" <=> exit # "running"

(* Every use of a local instance, in the order of execution, comes after   *)
(* the variable was allocated and the initializer called on it, and that   *)
(* call comes after both of its arguments, however often F is handled.     *)
InitializedBeforeUse ==
  \A n \in DOMAIN entry :
    LET before == {entry[m] : m \in 1 .. n - 1}
        k == entry[n].instance
    IN  /\ Uses(entry[n].op) /\ k > 0 =>
             \E i \in before : i.op = "instantiate" /\ i.instance = k
        /\ entry[n].op = "instantiate" =>
             {Instruction("env", k), Instruction("instance", k)} \subseteq before

(* F never works on two instances of its own: what it accesses and what it *)
(* passes on is the parameter or the instance of the first injection, and  *)
(* when an option sends them apart the parameter is what is passed.        *)
OwnInstances == {entry[n].instance : n \in {m \in DOMAIN entry :
                   entry[m].op \in {"access", "other call"}}} \ {0}
OneInstance ==
  pc # "references" =>
    /\ OwnInstances \subseteq {1}
    /\ inject /\ handled > 0 =>
         \A n \in DOMAIN entry :
           /\ entry[n].op \in {"access", "other call"} => entry[n].instance = 1
           /\ entry[n].op = "call" => entry[n].instance = IF refs THEN 0 ELSE 1
=============================================================================
