---------------------------- MODULE RewritesProofs ----------------------------
(***************************************************************************)
(* Theorems about the two rewritings of a requested function, for every    *)
(* program, every body and every number of handlings.                      *)
(***************************************************************************)
EXTENDS Rewrites, FiniteSetTheorems, TLAPS

(***************************************************************************)
(* The cleanup of the table.                                               *)
(***************************************************************************)

(* The cleanup.  A store is in the vector only for the sides that name the *)
(* table, and a second time only after it was erased when both do; the     *)
(* stores of a cleaned function that name the table are gone, those of the *)
(* function being cleaned are gone or still in the vector.                 *)
NamesTable(s) == Names(prog[s].value) \/ Names(prog[s].address)

TableInv ==
  /\ TypeOK
  /\ F \notin done
  /\ \A s \in Store : Stores[s] > 0 => NamesTable(s)
  /\ \A s \in Store : Stores[s] = 2 => BothSides(s)
  /\ \A s \in Store \ alive : Stores[s] > 0 => BothSides(s)
  /\ \A s \in alive : NamesTable(s) =>
       /\ prog[s].in \notin done
       /\ prog[s].in = F /\ F # Outside => Stores[s] > 0
  /\ ErasedOnce
  /\ OthersKept

(* What a store is counted for when its function is cleaned.               *)
LEMMA UsesCounted ==
  ASSUME NEW f, NEW s
  PROVE  /\ Uses(f, s) \in 0 .. 2
         /\ Uses(f, s) > 0 <=> s \in alive /\ prog[s].in = f /\ NamesTable(s)
         /\ Uses(f, s) = 2 => BothSides(s)
<1> DEFINE Sides == {side \in {"value", "address"} : Names(prog[s][side])}
<1>1. IsFiniteSet({"value"}) /\ Cardinality({"value"}) = 1
  BY FS_Singleton
<1>2. IsFiniteSet({"value", "address"}) /\ Cardinality({"value", "address"}) = 2
  <2>1. {"value"} \cup {"address"} = {"value", "address"} /\ "address" \notin {"value"}
    OBVIOUS
  <2>2. QED
    BY <1>1, <2>1, FS_AddElement
<1>3. Sides \in SUBSET {"value", "address"}
  OBVIOUS
<1>4. /\ IsFiniteSet(Sides) /\ Cardinality(Sides) \leq 2
      /\ Cardinality(Sides) = 2 => Sides = {"value", "address"}
  BY <1>2, <1>3, FS_Subset
<1>5. Cardinality(Sides) \in Nat /\ (Cardinality(Sides) = 0 <=> Sides = {})
  BY <1>4, FS_CardinalityType, FS_EmptySet
<1>6. Names(prog[s]["value"]) = Names(prog[s].value) /\ Names(prog[s]["address"]) = Names(prog[s].address)
  OBVIOUS
<1>7. Sides # {} <=> NamesTable(s)
  BY <1>6 DEF NamesTable
<1>8. Sides = {"value", "address"} => BothSides(s)
  BY <1>6 DEF BothSides
<1>9. Uses(f, s) = IF s \in alive /\ prog[s].in = f THEN Cardinality(Sides) ELSE 0
  BY DEF Uses
<1> HIDE DEF Sides
<1>10. QED
  BY <1>4, <1>5, <1>7, <1>8, <1>9

LEMMA TableInit == Init => TableInv
<1>1. SUFFICES ASSUME Init PROVE TableInv
  OBVIOUS
<1>2. Stores \in [Store -> 0 .. 2] /\ \A s \in Store : Stores[s] = 0
  BY <1>1 DEF Init
<1>3. undefined \in BOOLEAN /\ ~ undefined
  BY <1>1, Zenon DEF Init
<1>4. prog \in Programs /\ alive = Store /\ F = Outside /\ done = {}
  BY <1>1 DEF Init
<1>5. QED
  BY <1>2, <1>3, <1>4 DEF TableInv, TypeOK, ErasedOnce, OthersKept

LEMMA TableStep == TableInv /\ [Next]_vars => TableInv'
<1>1. SUFFICES ASSUME TableInv, [Next]_vars PROVE TableInv'
  OBVIOUS
<1> USE DEF TableInv, TypeOK, ErasedOnce, OthersKept, NamesTable, BothSides
<1>2. ASSUME NEW f \in Function, Collect(f) PROVE TableInv'
  <2>1. /\ UNCHANGED <<prog, alive, done, undefined>>
        /\ F = Outside /\ f \notin done /\ F' = f
        /\ Stores' = [s \in Store |-> Uses(f, s)]
    BY <1>2 DEF Collect
  <2>2. ASSUME NEW s \in Store
        PROVE  /\ Stores'[s] \in 0 .. 2
               /\ Stores'[s] > 0 <=> s \in alive /\ prog[s].in = f /\ NamesTable(s)
               /\ Stores'[s] = 2 => BothSides(s)
    BY <2>1, UsesCounted
  <2>3. Stores' \in [Store -> 0 .. 2]
    BY <2>1, UsesCounted
  <2>4. f # Outside
    BY TableStoresAssumption
  <2>5. QED
    BY <1>1, <2>1, <2>2, <2>3, <2>4
<1>3. ASSUME NEW s \in Store, Erase(s) PROVE TableInv'
  <2>1. /\ UNCHANGED <<prog, F, done>>
        /\ Stores[s] > 0
        /\ alive' = alive \ {s}
        /\ Stores' = [Stores EXCEPT ![s] = @ - 1]
    BY <1>3 DEF Erase
  <2>2. Stores' \in [Store -> 0 .. 2]
    BY <1>1, <2>1
  <2>3. \A t \in Store : Stores'[t] = IF t = s THEN Stores[s] - 1 ELSE Stores[t]
    BY <1>1, <2>1
  <2>4. Stores[s] \in 1 .. 2
    BY <1>1, <2>1
  <2>5. undefined' \in BOOLEAN /\ (undefined' => undefined \/ s \notin alive)
    BY <1>3, <1>1 DEF Erase
  <2>6. QED
    BY <1>1, <2>1, <2>2, <2>3, <2>4, <2>5
<1>4. CASE Return
  BY <1>1, <1>4, TableStoresAssumption DEF Return
<1>5. CASE UNCHANGED vars
  BY <1>1, <1>5 DEF vars
<1>6. QED
  BY <1>1, <1>2, <1>3, <1>4, <1>5 DEF Next

(* The cleanup does to each function what the contract says.               *)
LEMMA ContractFollows == TableInv => ImplementsContract
<1>1. SUFFICES ASSUME TableInv, Ordinary, NEW f \in Function \ {F}
               PROVE  StateOf(alive, f) =
                        IF f \in done THEN Cleaned(StateOf(Store, f)) ELSE StateOf(Store, f)
  BY DEF ImplementsContract
<1>2. f # Outside /\ alive \subseteq Store /\ prog \in AllPrograms
  BY <1>1, TableStoresAssumption DEF TableInv, TypeOK
<1>3. CASE f \notin done
  <2>1. \A s \in Store : prog[s].in = f => s \in alive
    BY <1>1, <1>2, <1>3 DEF TableInv, OthersKept
  <2>2. ASSUME NEW side, NEW operands
        PROVE  Some(alive, f, side, operands) <=> Some(Store, f, side, operands)
    BY <1>2, <2>1 DEF Some
  <2>3. QED
    BY <1>3, <2>2 DEF StateOf
<1>4. CASE f \in done
  <2>1. \A s \in alive : prog[s].in = f => ~ NamesTable(s)
    BY <1>1, <1>4 DEF TableInv
  <2>2. \A s \in Store : prog[s].in = f /\ ~ NamesTable(s) => s \in alive
    BY <1>1 DEF TableInv, OthersKept, NamesTable
  <2>3. \A s \in Store : prog[s].address = "computed" => ~ NamesTable(s)
    BY <1>1, TableStoresAssumption DEF Ordinary, NamesTable, Names
  <2>4. ~ Some(alive, f, "value", {"table"})
    BY <2>1 DEF Some, NamesTable, Names
  <2>5. ~ Some(alive, f, "address", {"table"} \cup Element)
    BY <2>1 DEF Some, NamesTable, Names
  <2>6. Some(alive, f, "address", {"computed"}) <=> Some(Store, f, "address", {"computed"})
    BY <1>2, <2>2, <2>3 DEF Some
  <2>7. QED
    BY <1>4, <2>4, <2>5, <2>6 DEF StateOf, Cleaned
<1>5. QED
  BY <1>3, <1>4

(***************************************************************************)
(* The instances of a function.                                            *)
(***************************************************************************)

Ops == {"access", "call", "other call", "env", "instance", "instantiate"}
Code == [op : Ops, instance : 0 .. MaxHandled]

(* Types; a run that goes on has handlings left.                           *)
InstanceType ==
  /\ I!TypeOK
  /\ entry \in Seq(Code)
  /\ pc # "stop" => handled < MaxHandled

(* What F accesses, and what it passes to functions that are not the       *)
(* module's, is the first instance once there is one; what it passes to    *)
(* the module's functions may be a later one between the two steps.        *)
OwnUse(i) == i.op \in {"access", "other call"}

OneInv ==
  /\ ~ inject \/ (handled = 0 /\ pc # "references") =>
       \A n \in DOMAIN entry : I!Uses(entry[n].op) => entry[n].instance = 0
  /\ inject /\ (handled > 0 \/ pc = "references") =>
       \A n \in DOMAIN entry :
         /\ OwnUse(entry[n]) => entry[n].instance = 1
         /\ entry[n].op = "call" /\ ~ refs => entry[n].instance = 1
         /\ entry[n].op = "call" /\ refs /\ pc # "references" => entry[n].instance = 0

InstancesInv == InstanceType /\ I!InitializedBeforeUse /\ OneInv

(* One instruction after its uses of the parameter became uses of k.       *)
Redirect(i, k) ==
  IF I!Uses(i.op) /\ i.instance = 0 THEN [i EXCEPT !.instance = k] ELSE i

LEMMA RedirectShape ==
  ASSUME NEW i \in Code, NEW k \in 0 .. MaxHandled
  PROVE  /\ Redirect(i, k) \in Code
         /\ Redirect(i, k).op = i.op
         /\ Redirect(i, k).instance =
              IF I!Uses(i.op) /\ i.instance = 0 THEN k ELSE i.instance
         /\ ~ I!Uses(i.op) => Redirect(i, k) = i
BY DEF Redirect, Code

(* What the layout of an injection looks like.                             *)
LEMMA LayoutShape ==
  ASSUME NEW code \in Seq(Code), NEW k \in 0 .. MaxHandled
  PROVE  /\ I!Layout(code, k) \in Seq(Code)
         /\ DOMAIN I!Layout(code, k) = 1 .. Len(code) + 3
         /\ I!Layout(code, k)[1] = I!Instruction("env", k)
         /\ I!Layout(code, k)[2] = I!Instruction("instance", k)
         /\ I!Layout(code, k)[3] = I!Instruction("instantiate", k)
         /\ \A n \in 1 .. Len(code) : I!Layout(code, k)[n + 3] = Redirect(code[n], k)
<1> DEFINE tail == [n \in 1 .. Len(code) |-> Redirect(code[n], k)]
           front == <<I!Instruction("env", k), I!Instruction("instance", k),
                      I!Instruction("instantiate", k)>>
<1>1. DOMAIN code = 1 .. Len(code) /\ Len(code) \in Nat /\ \A n \in 1 .. Len(code) : code[n] \in Code
  OBVIOUS
<1>2. \A n \in 1 .. Len(code) : Redirect(code[n], k) \in Code
  BY <1>1, RedirectShape
<1>3. tail \in Seq(Code) /\ Len(tail) = Len(code)
  BY <1>1, <1>2
<1>4. \A op \in Ops : I!Instruction(op, k) \in Code
  BY DEF I!Instruction, Code
<1>5. front \in Seq(Code) /\ Len(front) = 3
  <2>1. ASSUME NEW a \in Code, NEW b \in Code, NEW c \in Code
        PROVE  <<a, b, c>> \in Seq(Code) /\ Len(<<a, b, c>>) = 3
    OBVIOUS
  <2>2. /\ I!Instruction("env", k) \in Code
        /\ I!Instruction("instance", k) \in Code
        /\ I!Instruction("instantiate", k) \in Code
    BY <1>4 DEF Ops
  <2>3. QED
    BY <2>1, <2>2
<1>6. I!Layout(code, k) = front \o tail
  BY <1>1 DEF I!Layout, I!Redirected, Redirect
<1> HIDE DEF tail
<1>7. front \o tail \in Seq(Code) /\ Len(front \o tail) = Len(code) + 3
  BY <1>3, <1>5
<1>8. \A n \in 1 .. Len(code) : (front \o tail)[n + 3] = tail[n]
  BY <1>1, <1>3, <1>5
<1>9. \A n \in 1 .. 3 : (front \o tail)[n] = front[n]
  BY <1>1, <1>3, <1>5
<1>10. QED
  BY <1>6, <1>7, <1>8, <1>9 DEF tail

(* InitializedBeforeUse, one instruction at a time.                        *)
ReadyAt(code, n) ==
  /\ I!Uses(code[n].op) /\ code[n].instance > 0 =>
       \E m \in 1 .. n - 1 :
         code[m].op = "instantiate" /\ code[m].instance = code[n].instance
  /\ code[n].op = "instantiate" =>
       \A op \in {"env", "instance"} :
         \E m \in 1 .. n - 1 : code[m] = I!Instruction(op, code[n].instance)

LEMMA ReadyForm == I!InitializedBeforeUse <=> \A n \in DOMAIN entry : ReadyAt(entry, n)
BY DEF I!InitializedBeforeUse, ReadyAt

(* After an injection every use of a local instance still comes after its  *)
(* initialization: the old ones moved together, the new ones come after    *)
(* the three instructions in front.                                        *)
LEMMA LayoutReady ==
  ASSUME NEW code \in Seq(Code), NEW k \in 1 .. MaxHandled,
         \A n \in DOMAIN code : ReadyAt(code, n),
         NEW new, new = I!Layout(code, k),
         NEW n \in DOMAIN new
  PROVE  ReadyAt(new, n)
<1>1. /\ DOMAIN new = 1 .. Len(code) + 3 /\ Len(code) \in Nat /\ k \in Nat
      /\ new[1] = I!Instruction("env", k)
      /\ new[2] = I!Instruction("instance", k)
      /\ new[3] = I!Instruction("instantiate", k)
      /\ \A q \in 1 .. Len(code) : new[q + 3] = Redirect(code[q], k)
  BY LayoutShape
<1>2. /\ new[1].op = "env" /\ new[2].op = "instance"
      /\ new[3].op = "instantiate" /\ new[3].instance = k
  BY <1>1 DEF I!Instruction
<1>3. CASE n \in 1 .. 3
  <2> n = 1 \/ n = 2 \/ n = 3
    BY <1>3
  <2>1. ~ I!Uses(new[n].op)
    <3>1. new[n].op \in {"env", "instance", "instantiate"}
      BY <1>2
    <3>2. QED
      BY <3>1 DEF I!Uses
  <2>2. new[n].op = "instantiate" => n = 3
    BY <1>2, <1>3
  <2>3. ASSUME n = 3, NEW op \in {"env", "instance"}
        PROVE  \E m \in 1 .. n - 1 : new[m] = I!Instruction(op, new[n].instance)
    <3>1. 1 \in 1 .. n - 1 /\ 2 \in 1 .. n - 1 /\ new[n].instance = k
      BY <1>2, <2>3
    <3>2. /\ new[1] = I!Instruction("env", new[n].instance)
          /\ new[2] = I!Instruction("instance", new[n].instance)
      BY <1>1, <3>1
    <3>3. CASE op = "env"
      BY <3>1, <3>2, <3>3
    <3>4. CASE op = "instance"
      BY <3>1, <3>2, <3>4
    <3>5. QED
      BY <3>3, <3>4
  <2>4. QED
    BY <2>1, <2>2, <2>3 DEF ReadyAt
<1>4. CASE n \in 4 .. Len(code) + 3
  <2>1. PICK q \in 1 .. Len(code) : n = q + 3
    <3>1. n - 3 \in 1 .. Len(code) /\ n = (n - 3) + 3
      BY <1>1, <1>4
    <3>2. QED
      BY <3>1
  <2>2. /\ code[q] \in Code /\ new[n] = Redirect(code[q], k) /\ ReadyAt(code, q)
        /\ \A m \in 1 .. q - 1 : code[m] \in Code /\ m + 3 \in 1 .. n - 1
        /\ \A m \in 1 .. q - 1 : new[m + 3] = Redirect(code[m], k)
    BY <1>1, <2>1
  <2>3. /\ new[n].op = code[q].op
        /\ new[n].instance =
             IF I!Uses(code[q].op) /\ code[q].instance = 0 THEN k ELSE code[q].instance
    BY <2>2, RedirectShape
  <2>4. \A m \in 1 .. q - 1 : ~ I!Uses(code[m].op) => new[m + 3] = code[m]
    BY <2>2, RedirectShape
  <2>5. ASSUME I!Uses(new[n].op), new[n].instance > 0
        PROVE  \E m \in 1 .. n - 1 :
                 new[m].op = "instantiate" /\ new[m].instance = new[n].instance
    <3>1. CASE code[q].instance = 0
      BY <1>1, <1>2, <1>4, <2>3, <2>5, <3>1
    <3>2. CASE code[q].instance # 0
      <4>1. PICK m \in 1 .. q - 1 :
              code[m].op = "instantiate" /\ code[m].instance = code[q].instance
        BY <2>2, <2>3, <2>5, <3>2 DEF ReadyAt
      <4>2. new[m + 3] = code[m] /\ m + 3 \in 1 .. n - 1
        BY <2>2, <2>4, <4>1 DEF I!Uses
      <4>3. QED
        BY <2>3, <3>2, <4>1, <4>2
    <3>3. QED
      BY <3>1, <3>2
  <2>6. ASSUME new[n].op = "instantiate", NEW op \in {"env", "instance"}
        PROVE  \E m \in 1 .. n - 1 : new[m] = I!Instruction(op, new[n].instance)
    <3>1. PICK m \in 1 .. q - 1 : code[m] = I!Instruction(op, code[q].instance)
      BY <2>2, <2>3, <2>6 DEF ReadyAt
    <3>2. code[m].op = op
      BY <3>1 DEF I!Instruction
    <3>3. ~ I!Uses(code[m].op)
      BY <3>2 DEF I!Uses
    <3>4. new[n].instance = code[q].instance
      BY <2>3, <2>6 DEF I!Uses
    <3>5. QED
      BY <2>2, <2>4, <3>1, <3>3, <3>4
  <2>7. QED
    BY <2>5, <2>6 DEF ReadyAt
<1>5. QED
  BY <1>1, <1>3, <1>4

(* What the second step makes of one instruction.                          *)
Restored(i) == IF i.op = "call" THEN [i EXCEPT !.instance = 0] ELSE i

LEMMA RestoredShape ==
  ASSUME NEW i \in Code, MaxHandled \in Nat
  PROVE  /\ Restored(i) \in Code
         /\ Restored(i).op = i.op
         /\ i.op # "call" => Restored(i) = i
         /\ i.op = "call" => Restored(i).instance = 0
BY DEF Restored, Code

LEMMA RestoredReady ==
  ASSUME NEW code \in Seq(Code), MaxHandled \in Nat,
         \A n \in DOMAIN code : ReadyAt(code, n),
         NEW new, new = [n \in DOMAIN code |-> Restored(code[n])]
  PROVE  new \in Seq(Code) /\ \A n \in DOMAIN new : ReadyAt(new, n)
<1>1. /\ DOMAIN code = 1 .. Len(code) /\ Len(code) \in Nat
      /\ \A n \in 1 .. Len(code) : code[n] \in Code
  OBVIOUS
<1>2. /\ DOMAIN new = 1 .. Len(code)
      /\ \A n \in 1 .. Len(code) : /\ new[n] \in Code
                                   /\ new[n].op = code[n].op
                                   /\ code[n].op # "call" => new[n] = code[n]
                                   /\ code[n].op = "call" => new[n].instance = 0
  BY <1>1, RestoredShape
<1>3. new \in Seq(Code)
  BY <1>1, <1>2
<1>4. ASSUME NEW n \in 1 .. Len(code) PROVE ReadyAt(new, n)
  <2>1. ReadyAt(code, n) /\ \A m \in 1 .. n - 1 : m \in 1 .. Len(code)
    BY <1>1
  <2>2. ASSUME I!Uses(new[n].op), new[n].instance > 0
        PROVE  \E m \in 1 .. n - 1 :
                 new[m].op = "instantiate" /\ new[m].instance = new[n].instance
    <3>1. new[n] = code[n]
      BY <1>2, <2>2
    <3>2. PICK m \in 1 .. n - 1 :
            code[m].op = "instantiate" /\ code[m].instance = code[n].instance
      BY <2>1, <2>2, <3>1 DEF ReadyAt
    <3>3. new[m] = code[m]
      BY <1>2, <2>1, <3>2
    <3>4. QED
      BY <3>1, <3>2, <3>3
  <2>3. ASSUME new[n].op = "instantiate", NEW op \in {"env", "instance"}
        PROVE  \E m \in 1 .. n - 1 : new[m] = I!Instruction(op, new[n].instance)
    <3>1. new[n] = code[n]
      BY <1>2, <2>3
    <3>2. PICK m \in 1 .. n - 1 : code[m] = I!Instruction(op, code[n].instance)
      BY <2>1, <2>3, <3>1 DEF ReadyAt
    <3>3. code[m].op # "call"
      BY <3>2 DEF I!Instruction
    <3>4. QED
      BY <1>2, <2>1, <3>1, <3>2, <3>3
  <2>4. QED
    BY <2>2, <2>3 DEF ReadyAt
<1>5. QED
  BY <1>2, <1>3, <1>4

LEMMA InstancesInit == I!Init => InstancesInv
<1>1. SUFFICES ASSUME I!Init PROVE InstancesInv
  OBVIOUS
<1>2. MaxHandled \in Nat \ {0} /\ Bodies \subseteq I!AllBodies
  BY RewritesAssumption DEF I!InstancesAssumption
<1> DEFINE FirstCode == [op : {"access", "call", "other call"}, instance : {0}]
<1>3. entry \in Seq(FirstCode)
  BY <1>1, <1>2 DEF I!Init, I!AllBodies
<1> HIDE DEF FirstCode
<1>4. \A n \in DOMAIN entry : entry[n] \in FirstCode
  BY <1>3
<1>5. \A i \in FirstCode : i \in Code /\ i.instance = 0 /\ I!Uses(i.op)
  <2>1. SUFFICES ASSUME NEW i \in FirstCode PROVE i \in Code /\ i.instance = 0 /\ I!Uses(i.op)
    OBVIOUS
  <2>2. i = [op |-> i.op, instance |-> i.instance]
    BY DEF FirstCode
  <2>3. i.op \in {"access", "call", "other call"} /\ i.instance = 0
    BY DEF FirstCode
  <2>4. i.op \in Ops
    BY <2>3 DEF Ops
  <2>5. i.instance \in 0 .. MaxHandled
    <3>1. 0 \in 0 .. MaxHandled
      BY <1>2
    <3>2. QED
      BY ONLY <2>3, <3>1
  <2>6. [op |-> i.op, instance |-> i.instance] \in Code
    BY <2>4, <2>5 DEF Code
  <2>7. QED
    BY <2>2, <2>3, <2>6 DEF I!Uses
<1>6. entry \in Seq(Code)
  BY <1>3, <1>5
<1>7. \A n \in DOMAIN entry :
        entry[n].instance = 0 /\ I!Uses(entry[n].op) /\ entry[n].op # "instantiate"
  BY <1>4, <1>5 DEF I!Uses
<1>8. InstanceType
  <2>1. module \in I!Modules /\ handled = 0 /\ pc = "inject" /\ exit = "running"
    BY <1>1 DEF I!Init
  <2>2. inject \in BOOLEAN /\ refs \in BOOLEAN
    BY <1>1 DEF I!Init
  <2>3. \A n \in DOMAIN entry : entry[n].instance \in 0 .. MaxHandled
    BY <1>2, <1>7
  <2>4. QED
    BY <1>2, <1>6, <2>1, <2>2, <2>3 DEF InstanceType, I!TypeOK
<1>9. \A n \in DOMAIN entry : ReadyAt(entry, n)
  BY <1>7 DEF ReadyAt
<1>10. OneInv
  BY <1>1, <1>7 DEF OneInv, I!Init
<1>11. QED
  BY <1>8, <1>9, <1>10, ReadyForm DEF InstancesInv

LEMMA InstancesStep == InstancesInv /\ [I!Next]_instances => InstancesInv'
<1>1. SUFFICES ASSUME InstancesInv, [I!Next]_instances PROVE InstancesInv'
  OBVIOUS
<1>2. MaxHandled \in Nat \ {0}
  BY RewritesAssumption DEF I!InstancesAssumption
<1> USE DEF InstancesInv, InstanceType, I!TypeOK
<1>3. \A n \in DOMAIN entry : ReadyAt(entry, n) /\ entry[n] \in Code
  BY <1>1, ReadyForm
<1>4. (I!InitializedBeforeUse)' <=> \A n \in DOMAIN entry' : ReadyAt(entry', n)
  BY DEF I!InitializedBeforeUse, ReadyAt
<1>5. ASSUME I!InjectInitializer PROVE InstancesInv'
  <2>1. UNCHANGED <<module, inject, refs, handled>> /\ pc = "inject"
    BY <1>5 DEF I!InjectInitializer, I!given
  <2> DEFINE Stops == entry' = entry /\ pc' = "stop" /\ exit' \in {"fatal", "crash"}
  <2>2. CASE ~ inject \/ Stops
    <3>0. entry' = entry
      BY <1>5, <2>2 DEF I!InjectInitializer
    <3>1. \/ pc' = "references" /\ ~ inject /\ exit' = exit
          \/ pc' = "stop" /\ exit' \in {"fatal", "crash"}
      BY <1>5, <2>2 DEF I!InjectInitializer
    <3>2. OneInv'
      BY <1>1, <2>1, <3>0, <3>1 DEF OneInv
    <3>3. QED
      BY <1>1, <1>3, <1>4, <2>1, <3>0, <3>1, <3>2
  <2>3. CASE inject /\ ~ Stops
    <3> DEFINE k == handled + 1
    <3>0. entry' = I!Layout(entry, k) /\ pc' = "references" /\ exit' = exit
      BY <1>5, <2>3 DEF I!InjectInitializer
    <3>1. k \in 1 .. MaxHandled /\ entry \in Seq(Code)
      BY <1>1, <1>2, <2>1
    <3>2. /\ entry' \in Seq(Code)
          /\ DOMAIN entry' = 1 .. Len(entry) + 3
          /\ Len(entry) \in Nat
          /\ entry'[1] = I!Instruction("env", k)
          /\ entry'[2] = I!Instruction("instance", k)
          /\ entry'[3] = I!Instruction("instantiate", k)
          /\ \A q \in 1 .. Len(entry) : entry'[q + 3] = Redirect(entry[q], k)
      BY <3>0, <3>1, LayoutShape
    <3>3. \A n \in DOMAIN entry' : ReadyAt(entry', n)
      BY <1>3, <3>0, <3>1, LayoutReady
    <3>4. \A n \in DOMAIN entry' : entry'[n] \in Code
      BY <3>2
    <3>5. InstanceType'
      BY <1>1, <2>1, <3>0, <3>2, <3>4 DEF Code
    <3>6. ASSUME NEW n \in DOMAIN entry', I!Uses(entry'[n].op)
          PROVE  \E q \in DOMAIN entry :
                   /\ entry'[n].op = entry[q].op
                   /\ entry'[n].instance =
                        IF entry[q].instance = 0 THEN k ELSE entry[q].instance
      <4>1. n \notin 1 .. 3
        <5>1. /\ entry'[1].op = "env" /\ entry'[2].op = "instance"
              /\ entry'[3].op = "instantiate"
          BY <3>2 DEF I!Instruction
        <5>2. n # 1 /\ n # 2 /\ n # 3
          BY <3>6, <5>1 DEF I!Uses
        <5>3. QED
          BY <5>2
      <4>2. n - 3 \in 1 .. Len(entry) /\ n = (n - 3) + 3
        BY <3>2, <4>1
      <4>3. entry'[n] = Redirect(entry[n - 3], k) /\ entry[n - 3] \in Code
        BY <1>3, <3>2, <4>2
      <4>4. /\ entry'[n].op = entry[n - 3].op
            /\ entry'[n].instance =
                 IF I!Uses(entry[n - 3].op) /\ entry[n - 3].instance = 0
                 THEN k ELSE entry[n - 3].instance
        BY <3>1, <4>3, RedirectShape
      <4>5. QED
        BY <3>1, <3>6, <4>2, <4>4
    <3>7. OneInv'
      <4>1. SUFFICES ASSUME NEW n \in DOMAIN entry'
                     PROVE  /\ OwnUse(entry'[n]) => entry'[n].instance = 1
                            /\ entry'[n].op = "call" /\ ~ refs => entry'[n].instance = 1
        BY <2>1, <2>3, <3>0 DEF OneInv, OwnUse
      <4>2. SUFFICES ASSUME I!Uses(entry'[n].op),
                            OwnUse(entry'[n]) \/ ~ refs
                     PROVE  entry'[n].instance = 1
        BY DEF OwnUse, I!Uses
      <4>3. PICK q \in DOMAIN entry :
              /\ entry'[n].op = entry[q].op
              /\ entry'[n].instance =
                   IF entry[q].instance = 0 THEN k ELSE entry[q].instance
        BY <3>6, <4>2
      <4>4. CASE handled = 0
        BY <1>1, <2>1, <4>2, <4>3, <4>4 DEF OneInv
      <4>5. CASE handled # 0
        <5>1. handled > 0
          BY <1>1, <1>2, <4>5
        <5>2. entry[q].instance = 1
          BY <1>1, <2>1, <2>3, <4>2, <4>3, <5>1 DEF OneInv, OwnUse, I!Uses
        <5>3. QED
          BY <4>3, <5>2
      <4>6. QED
        BY <4>4, <4>5
    <3>8. QED
      BY <1>4, <3>3, <3>5, <3>7
  <2>4. QED
    BY <2>2, <2>3
<1>6. ASSUME I!ReplaceInstanceRefs PROVE InstancesInv'
  <2>1. /\ UNCHANGED <<module, inject, refs>> /\ pc = "references"
        /\ handled' = handled + 1
        /\ pc' = IF handled + 1 < MaxHandled THEN "inject" ELSE "stop"
        /\ exit' = IF handled + 1 < MaxHandled THEN "running" ELSE "success"
    BY <1>6 DEF I!ReplaceInstanceRefs, I!given
  <2>2. entry' = IF refs THEN [n \in DOMAIN entry |-> Restored(entry[n])] ELSE entry
    BY <1>6 DEF I!ReplaceInstanceRefs, Restored
  <2>3. entry' \in Seq(Code) /\ \A n \in DOMAIN entry' : ReadyAt(entry', n)
    BY <1>1, <1>2, <1>3, <2>2, RestoredReady
  <2>4. \A n \in DOMAIN entry' : entry'[n] \in Code
    BY <2>3
  <2>5. handled \in Nat /\ handled + 1 \in 1 .. MaxHandled
    BY <1>1, <1>2, <2>1
  <2>6. InstanceType'
    <3>1. \A n \in DOMAIN entry' : entry'[n].instance \in 0 .. MaxHandled
      BY <2>4 DEF Code
    <3>2. QED
      BY <1>1, <1>2, <2>1, <2>3, <2>5, <3>1
  <2>7. /\ DOMAIN entry' = DOMAIN entry
        /\ \A n \in DOMAIN entry :
             /\ entry'[n].op = entry[n].op
             /\ entry'[n] = entry[n] \/ (refs /\ entry[n].op = "call" /\ entry'[n].instance = 0)
             /\ refs /\ entry[n].op = "call" => entry'[n].instance = 0
    BY <1>2, <1>3, <2>2, RestoredShape
  <2>8. OneInv'
    <3>1. CASE ~ inject
      BY <1>1, <2>1, <2>7, <3>1 DEF OneInv
    <3>2. CASE inject
      <4>1. ASSUME NEW n \in DOMAIN entry
            PROVE  /\ OwnUse(entry[n]) => entry[n].instance = 1
                   /\ entry[n].op = "call" /\ ~ refs => entry[n].instance = 1
        BY <1>1, <2>1, <3>2 DEF OneInv
      <4>2. ASSUME NEW n \in DOMAIN entry
            PROVE  /\ OwnUse(entry'[n]) => entry'[n].instance = 1
                   /\ entry'[n].op = "call" /\ ~ refs => entry'[n].instance = 1
                   /\ entry'[n].op = "call" /\ refs => entry'[n].instance = 0
        BY <2>7, <4>1 DEF OwnUse
      <4>3. inject' /\ handled' > 0 /\ pc' # "references" /\ (refs' <=> refs)
        BY <2>1, <2>5, <3>2
      <4>4. QED
        BY ONLY <2>7, <3>2, <4>2, <4>3, <2>5, <2>1 DEF OneInv
    <3>3. QED
      BY <3>1, <3>2
  <2>9. QED
    BY <1>4, <2>3, <2>6, <2>8
<1>7. CASE UNCHANGED instances
  BY <1>1, <1>3, <1>4, <1>7 DEF instances, OneInv
<1>8. QED
  BY <1>1, <1>5, <1>6, <1>7 DEF I!Next

(* The instances of F are the parameter and the one the first injection    *)
(* made, as the two steps leave them.                                      *)
LEMMA InstancesReady == InstancesInv => InstanceIsReady
<1>1. SUFFICES ASSUME InstancesInv PROVE InstanceIsReady
  OBVIOUS
<1>2. I!TypeOK /\ OneInv
  BY <1>1 DEF InstancesInv, InstanceType
<1>3. ASSUME pc # "references" PROVE I!OwnInstances \subseteq {1}
  <2>1. \A n \in DOMAIN entry : OwnUse(entry[n]) => entry[n].instance \in {0, 1}
    <3>1. CASE ~ inject \/ handled = 0
      BY <1>2, <1>3, <3>1 DEF OneInv, OwnUse, I!Uses
    <3>2. CASE inject /\ handled # 0
      <4>1. handled > 0
        BY <1>2, <3>2 DEF I!TypeOK
      <4>2. QED
        BY <1>2, <3>2, <4>1 DEF OneInv
    <3>3. QED
      BY <3>1, <3>2
  <2>2. QED
    BY <2>1 DEF I!OwnInstances, OwnUse
<1>4. I!OneInstance
  BY <1>2, <1>3 DEF I!OneInstance, OneInv, OwnUse
<1>5. QED
  BY <1>1, <1>2, <1>4 DEF InstancesInv, InstanceIsReady

(***************************************************************************)
(* Both rewritings.                                                        *)
(***************************************************************************)

(* Whichever is run, the other one's part is one of its first states.      *)
LEMMA RewritesInductive ==
  /\ RewritesInit => TableInv /\ InstancesInv
  /\ TableInv /\ InstancesInv /\ [RewritesNext]_<<vars, rewriting, instances>>
       => (TableInv /\ InstancesInv)'
<1>1. RewritesInit => TableInv /\ InstancesInv
  BY TableInit, InstancesInit DEF RewritesInit
<1>2. ASSUME TableInv, InstancesInv, [RewritesNext]_<<vars, rewriting, instances>>
      PROVE  (TableInv /\ InstancesInv)'
  <2>1. [Next]_vars /\ [I!Next]_instances
    BY <1>2 DEF RewritesNext, vars, instances
  <2>2. QED
    BY <1>2, <2>1, TableStep, InstancesStep
<1>3. QED
  BY <1>1, <1>2

(* The erasure of collected stores touches a store that is gone only if    *)
(* both its operands name the table, and never a store of a function that  *)
(* was not cleaned or one that does not name the table.                    *)
THEOREM Erasure == RewritesSpec => []ErasesItsOwn
<1>1. TableInv => ErasesItsOwn
  BY DEF TableInv, ErasesItsOwn
<1>2. QED
  BY <1>1, RewritesInductive, PTL DEF RewritesSpec

(* replaceFUNCREF_TABLE does to each function what TableContract says, in  *)
(* whatever order functions are cleaned and stores are erased.             *)
THEOREM CleanupContract == RewritesSpec => []ImplementsContract
BY ContractFollows, RewritesInductive, PTL DEF RewritesSpec

(* However often -f names F, it works on one instance, and that one is     *)
(* allocated and initialized before it is used.                            *)
THEOREM InstanceReady == RewritesSpec => []InstanceIsReady
BY InstancesReady, RewritesInductive, PTL DEF RewritesSpec
=============================================================================
