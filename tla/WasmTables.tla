----------------------------- MODULE WasmTables -----------------------------
(***************************************************************************)
(* The function tables of the wasm2c modules that run on the runtime       *)
(* (src/runtime/wasm_runtime.cpp:78-89, src/samples/obf_1/obf_w2c.c):      *)
(* every instance has a table object of its own with a size of its own,    *)
(* and the data of all of them is the one array FUNCREF_TABLE.             *)
(*                                                                         *)
(* own keeps what each table would hold if its data were its own: the      *)
(* table objects wasm-rt.h describes.                                      *)
(***************************************************************************)
EXTENDS Naturals, Sequences, FiniteSets

CONSTANTS
  Instance,    \* instances
  Functions,   \* functions of the lifted modules
  TypeOf,      \* function -> the type it is declared with
  Modules,     \* records [size, at, elements] with a segment of elements
  Capacity,    \* the entries FUNCREF_TABLE has room for
  Counts,      \* bound: the lengths of fills and copies
  Null         \* no function, no call, no module yet; a call that traps

Slot == 0 .. Capacity - 1
Types == {TypeOf[f] : f \in Functions}

(* A funcref: the function, its type and the instance it is called with.   *)
Entry == [func : Functions \cup {Null}, instance : Instance \cup {Null}]
Empty == [func |-> Null, instance |-> Null]

WasmTablesAssumption ==
  /\ DOMAIN TypeOf = Functions
  /\ Null \notin Functions /\ Null \notin Instance /\ Null \notin Modules
  /\ Null \notin Entry
  /\ Capacity \in Nat /\ Counts \subseteq Nat
  /\ \A m \in Modules :
       /\ m.size \in 0 .. Capacity /\ m.at \in Nat
       /\ m.elements \in Seq(Functions \cup {Null})

VARIABLES
  module,         \* instance -> its module, Null before it is instantiated
  FUNCREF_TABLE,  \* the data of every table
  own,            \* instance -> the table as its own data would be
  last,           \* the instance that was instantiated last
  edited,         \* a table was written by table.set, fill or copy
  called,         \* the last call [by, slot, type, ran]
  trapped

vars == <<module, FUNCREF_TABLE, own, last, edited, called, trapped>>

Live == {i \in Instance : module[i] # Null}
Size(i) == module[i].size

Init ==
  /\ module = [i \in Instance |-> Null]
  /\ FUNCREF_TABLE = [x \in Slot |-> Empty]
  /\ own = [i \in Instance |-> [x \in Slot |-> Empty]]
  /\ last = Null
  /\ edited = FALSE
  /\ called = Null
  /\ trapped = FALSE

(* Mutant: the entries of an earlier instance are kept. *)
InitializedOnce(data, m, i) ==
  [x \in Slot |->
    IF x \in m.at .. m.at + Len(m.elements) - 1 /\ data[x] = Empty
    THEN LET f == m.elements[x - m.at + 1] IN
         IF f = Null THEN Empty ELSE [func |-> f, instance |-> i]
    ELSE data[x]]

(* Mutant: an entry that is overwritten keeps its instance. *)
InitializedKeeps(data, m, i) ==
  [x \in Slot |->
    IF x \in m.at .. m.at + Len(m.elements) - 1
    THEN LET f == m.elements[x - m.at + 1] IN
         IF f = Null THEN Empty
         ELSE [func |-> f, instance |-> IF data[x] = Empty THEN i ELSE data[x].instance]
    ELSE data[x]]

(* funcref_table_init: the segment of m, with instance i in its entries.   *)
Initialized(data, m, i) ==
  [x \in Slot |->
    IF x \in m.at .. m.at + Len(m.elements) - 1
    THEN LET f == m.elements[x - m.at + 1] IN
         IF f = Null THEN Empty ELSE [func |-> f, instance |-> i]
    ELSE data[x]]

(* init_tables: allocate_funcref_table, then the segment, if it fits.      *)
InitTables(i, m) ==
  /\ ~trapped /\ module[i] = Null
  /\ module' = [module EXCEPT ![i] = m]
  /\ last' = i
  /\ called' = Null
  /\ IF m.at + Len(m.elements) > m.size
     THEN trapped' = TRUE /\ UNCHANGED <<FUNCREF_TABLE, own>>
     ELSE /\ FUNCREF_TABLE' = Initialized(FUNCREF_TABLE, m, i)
          /\ own' = [own EXCEPT ![i] = Initialized(@, m, i)]
          /\ UNCHANGED trapped
  /\ UNCHANGED edited

(* The entry a CALL_INDIRECT of the type runs, or Null where it traps.     *)
Runs(size, data, x, type) ==
  IF x < size /\ data[x].func # Null /\ TypeOf[data[x].func] = type
  THEN data[x] ELSE Null

(* Mutant: the type is not compared. *)
CallIndirectUntyped(i, x, type) ==
  /\ ~trapped /\ i \in Live
  /\ called' = [by |-> i, slot |-> x, type |-> type,
                ran |-> IF x < Size(i) /\ FUNCREF_TABLE[x].func # Null
                        THEN FUNCREF_TABLE[x] ELSE Null]
  /\ UNCHANGED <<module, FUNCREF_TABLE, own, last, edited, trapped>>

(* CALL_INDIRECT with its checks, in any order of the instances.           *)
CallIndirect(i, x, type) ==
  /\ ~trapped /\ i \in Live
  /\ called' = [by |-> i, slot |-> x, type |-> type,
                ran |-> Runs(Size(i), FUNCREF_TABLE, x, type)]
  /\ UNCHANGED <<module, FUNCREF_TABLE, own, last, edited, trapped>>

(* n entries from d on are taken from the functions shared, in the shared  *)
(* data, and private, in i's own, where the checks hold.                   *)
Write(i, d, n, checks, shared, private) ==
  /\ ~trapped /\ i \in Live
  /\ called' = Null
  /\ IF ~checks \/ d + n > Size(i)
     THEN trapped' = TRUE /\ UNCHANGED <<FUNCREF_TABLE, own, edited>>
     ELSE LET range == d .. d + n - 1
              Over(data, with) == [x \in Slot |-> IF x \in range THEN with[x] ELSE data[x]]
          IN  /\ FUNCREF_TABLE' = Over(FUNCREF_TABLE, shared)
              /\ own' = [own EXCEPT ![i] = Over(@, private)]
              /\ edited' = TRUE
              /\ UNCHANGED trapped
  /\ UNCHANGED <<module, last>>

(* table_set of what table_get gave, table_fill, and table_copy within a   *)
(* table: data moved as a block, as memmove does.                          *)
Constantly(entry) == [x \in Slot |-> entry]
Shifted(data, d, s) == [x \in Slot |-> IF x - d + s \in Slot THEN data[x - d + s] ELSE Empty]

TableSet(i, x, y) ==
  Write(i, x, 1, y < Size(i), Constantly(FUNCREF_TABLE[y]), Constantly(own[i][y]))

TableFill(i, d, n) == Write(i, d, n, TRUE, Constantly(Empty), Constantly(Empty))

(* Mutant: the destination is not checked. *)
TableCopyUnchecked(i, d, s, n) ==
  /\ ~trapped /\ i \in Live /\ d + n <= Capacity
  /\ FUNCREF_TABLE' = [x \in Slot |-> IF x \in d .. d + n - 1
                                      THEN Shifted(FUNCREF_TABLE, d, s)[x] ELSE FUNCREF_TABLE[x]]
  /\ called' = Null /\ edited' = TRUE
  /\ UNCHANGED <<module, own, last, trapped>>

TableCopy(i, d, s, n) ==
  Write(i, d, n, s + n <= Size(i), Shifted(FUNCREF_TABLE, d, s), Shifted(own[i], d, s))

Next ==
  \/ \E i \in Instance, m \in Modules : InitTables(i, m)
  \/ \E i \in Live :
       \/ \E x \in Slot, type \in Types : CallIndirect(i, x, type)
       \/ \E x, y \in Slot : TableSet(i, x, y)
       \/ \E d \in Slot, n \in Counts : TableFill(i, d, n)
       \/ \E d, s \in Slot, n \in Counts : d # s /\ TableCopy(i, d, s, n)

Spec == Init /\ [][Next]_vars
-----------------------------------------------------------------------------
TypeOK ==
  /\ module \in [Instance -> Modules \cup {Null}]
  /\ FUNCREF_TABLE \in [Slot -> Entry]
  /\ own \in [Instance -> [Slot -> Entry]]
  /\ last \in Instance \cup {Null}
  /\ edited \in BOOLEAN /\ trapped \in BOOLEAN
  /\ called = Null \/ called \in [by : Instance, slot : Slot, type : Types, ran : Entry \cup {Null}]

(* What the last call would have run if the caller's table were its own.   *)
Expected == Runs(Size(called.by), own[called.by], called.slot, called.type)

(* With one instance it does, whatever the instance does to its table.     *)
AloneIsOwn == called # Null /\ Live = {called.by} => called.ran = Expected

(* An entry of the segment of its instance's module.                       *)
Paired(entry) ==
  /\ entry.instance \in Live
  /\ \E k \in 1 .. Len(module[entry.instance].elements) :
       module[entry.instance].elements[k] = entry.func

(* Whoever wrote, filled or copied the entry, a call runs a function of    *)
(* some module with an instance of that module, never with another's.      *)
PairedAsListed == called # Null /\ called.ran # Null => Paired(called.ran)

(* The segment of the instance that was instantiated last is what its      *)
(* calls through these entries run, until a table is written.              *)
LastIsOwn ==
  called # Null /\ called.by = last /\ ~edited
  /\ called.slot \in module[last].at .. module[last].at + Len(module[last].elements) - 1
     => called.ran = Expected

(* Instances of one module run the same functions: what the shared array   *)
(* gets wrong for them is the instance, and it is the last one's.          *)
OnlyInstanceDiffers ==
  called # Null /\ ~edited /\ (\A i \in Live : module[i] = module[called.by]) =>
    IF Expected = Null THEN called.ran = Null
    ELSE called.ran = [func |-> Expected.func, instance |-> last]
=============================================================================
