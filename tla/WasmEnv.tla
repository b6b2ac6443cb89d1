------------------------------- MODULE WasmEnv -------------------------------
(***************************************************************************)
(* The environment the runtime gives to wasm2c modules                     *)
(* (src/runtime/wasm_runtime.cpp:107-231): struct w2c_env, which nothing   *)
(* initializes as a whole, and the functions by which a module imports its *)
(* memory, its table and the globals of an emscripten program, in the      *)
(* order the module happens to import them.  Several modules may be given  *)
(* one environment.  The page size and the number of bytes are scaled.     *)
(***************************************************************************)
EXTENDS Naturals, Sequences, FiniteSets

CONSTANTS
  Module,        \* the modules that import from the environment
  Declarations,  \* records [pages, is64, size], what the modules declare
  PAGE_SIZE,     \* 65536
  Value,         \* what modules store
  Segment,       \* the number of functions a module puts into the table
  MaxBlocks,     \* bound: the allocations
  Unset          \* the value of what was never written

(* What can be imported.                                                   *)
Names == {"DYNAMICTOP_PTR", "STACKTOP", "memory", "memoryBase", "table",
          "tableBase"}

WasmEnvAssumption ==
  /\ PAGE_SIZE \in Nat \ {0}
  /\ \A d \in Declarations : d.pages \in Nat \ {0} /\ d.is64 \in BOOLEAN /\ d.size \in Nat
  /\ Segment \in Nat /\ MaxBlocks \in Nat
  /\ Unset \notin Value \cup Nat \cup Module \cup Names
  /\ Unset \notin [pages : Nat, size : Nat, data : Nat, is64 : BOOLEAN]
  /\ 0 \in Value

VARIABLES
  declared,  \* the constants wasm2c generated for the modules
  env,       \* struct w2c_env
  Stack,     \* the global the imported STACKTOP points to
  blocks,    \* the memory blocks calloc gave, each a function of addresses
  got,       \* module -> what it imported, by name
  table,     \* the data of the function table: slot -> the module that filled it
  memory     \* what was stored since the last import of the memory

vars == <<declared, env, Stack, blocks, got, table, memory>>

Init ==
  /\ declared \in Declarations
  /\ env = [DYNAMICTOP_PTR |-> Unset, memory |-> Unset, memoryBase |-> Unset,
            table |-> Unset, tableBase |-> Unset, STACKTOP |-> Unset]
  /\ Stack = Unset
  /\ blocks = <<>>
  /\ got = [m \in Module |-> [n \in Names |-> Unset]]
  /\ table = [x \in 0 .. declared.size - 1 |-> Unset]
  /\ memory = <<>>

(* A module keeps what the import returned, a pointer into env or a value. *)
Import(m, name, what) ==
  /\ got[m][name] = Unset
  /\ got' = [got EXCEPT ![m][name] = what]

(* Mutant: what malloc gives. *)
Garbage(n) == [a \in 0 .. n - 1 |-> Unset]

(* Mutant: no page is allocated for a declaration of less than one. *)
PagesDown(n) == n \div PAGE_SIZE

(* w2c_env_memory: at least a page, and what the declaration gives of      *)
(* whole pages when it is taken for a number of bytes.                     *)
Pages(n) == IF n \div PAGE_SIZE = 0 THEN 1 ELSE n \div PAGE_SIZE
Zeroes(n) == [a \in 0 .. n - 1 |-> 0]

(* Mutant: DYNAMICTOP_PTR is not set. *)
ImportMemoryOnly(m) ==
  /\ Len(blocks) < MaxBlocks
  /\ Import(m, "memory", "env.memory")
  /\ LET size == Pages(declared.pages) * PAGE_SIZE IN
     /\ blocks' = Append(blocks, Zeroes(size))
     /\ memory' = [a \in 0 .. size - 1 |-> 0]
     /\ env' = [env EXCEPT !.memory = [pages |-> Pages(declared.pages), size |-> size,
                                       data |-> Len(blocks) + 1, is64 |-> TRUE]]
  /\ UNCHANGED <<declared, Stack, table>>

ImportMemory(m) ==
  /\ Len(blocks) < MaxBlocks
  /\ Import(m, "memory", "env.memory")
  /\ LET size == Pages(declared.pages) * PAGE_SIZE IN
     /\ blocks' = Append(blocks, Zeroes(size))
     /\ memory' = [a \in 0 .. size - 1 |-> 0]
     /\ env' = [env EXCEPT
          !.memory = [pages |-> Pages(declared.pages), size |-> size,
                      data |-> Len(blocks) + 1, is64 |-> TRUE],
          !.DYNAMICTOP_PTR = "DYNAMICTOP_PTR"]
  /\ UNCHANGED <<declared, Stack, table>>

(* The pointer is whatever the field holds at the time.                    *)
ImportDYNAMICTOP_PTR(m) ==
  /\ Import(m, "DYNAMICTOP_PTR",
       IF env.DYNAMICTOP_PTR = Unset THEN "anything" ELSE env.DYNAMICTOP_PTR)
  /\ UNCHANGED <<declared, env, Stack, blocks, table, memory>>

(* Every import of STACKTOP makes a new stack and points Stack to it.      *)
ImportSTACKTOP(m) ==
  /\ Import(m, "STACKTOP", "Stack")
  /\ env' = [env EXCEPT !.STACKTOP = "Stack"]
  /\ Stack' = m
  /\ UNCHANGED <<declared, blocks, table, memory>>

ImportMemoryBase(m) ==
  /\ Import(m, "memoryBase", "env.memoryBase")
  /\ env' = [env EXCEPT !.memoryBase = 0]
  /\ UNCHANGED <<declared, Stack, blocks, table, memory>>

ImportTable(m) ==
  /\ Import(m, "table", "env.table")
  /\ env' = [env EXCEPT !.table = declared.size]
  /\ UNCHANGED <<declared, Stack, blocks, table, memory>>

ImportTableBase(m) ==
  /\ Import(m, "tableBase", "env.tableBase")
  /\ env' = [env EXCEPT !.tableBase = 0]
  /\ UNCHANGED <<declared, Stack, blocks, table, memory>>

(* init_tables of a module that imports its table, at __table_base.        *)
InitTables(m) ==
  /\ got[m]["table"] # Unset /\ got[m]["tableBase"] # Unset
  /\ env.tableBase + Segment <= env.table
  /\ table' = [x \in DOMAIN table |->
       IF x \in env.tableBase .. env.tableBase + Segment - 1 THEN m ELSE table[x]]
  /\ UNCHANGED <<declared, env, Stack, blocks, got, memory>>

(* A store of a module goes through its pointer to env.memory.             *)
Store(m, a, v) ==
  /\ got[m]["memory"] # Unset /\ a < env.memory.size
  /\ blocks' = [blocks EXCEPT ![env.memory.data][a] = v]
  /\ memory' = [memory EXCEPT ![a] = v]
  /\ UNCHANGED <<declared, env, Stack, got, table>>

Next ==
  \E m \in Module :
    \/ ImportMemory(m) \/ ImportDYNAMICTOP_PTR(m)
    \/ ImportSTACKTOP(m)
    \/ ImportMemoryBase(m) \/ ImportTable(m) \/ ImportTableBase(m)
    \/ InitTables(m)
    \/ \E a \in DOMAIN memory, v \in Value : Store(m, a, v)

Spec == Init /\ [][Next]_vars
-----------------------------------------------------------------------------
Memory == [pages : Nat, size : Nat \ {0}, data : DOMAIN blocks, is64 : BOOLEAN]

TypeOK ==
  /\ declared \in Declarations
  /\ env.DYNAMICTOP_PTR \in {Unset, "DYNAMICTOP_PTR"}
  /\ env.memory = Unset \/ env.memory \in Memory
  /\ env.memoryBase \in {Unset, 0} /\ env.tableBase \in {Unset, 0}
  /\ env.table \in {Unset, declared.size}
  /\ env.STACKTOP \in {Unset, "Stack"}
  /\ Stack \in Module \cup {Unset}
  /\ got \in [Module -> [Names -> {Unset, "anything", "Stack", "env.memory", "env.memoryBase",
                                "env.table", "env.tableBase"} \cup Names]]
  /\ table \in [0 .. declared.size - 1 -> Module \cup {Unset}]

(* However the imports of the modules are ordered, all of them see one     *)
(* memory: what any of them stored since it was last imported, and zeroes. *)
(* Importing it once more drops what was stored before.                    *)
Coherent ==
  env.memory = Unset \/ (blocks[env.memory.data] = memory
                         /\ DOMAIN memory = 0 .. env.memory.size - 1)

(* A module that imports its memory before DYNAMICTOP_PTR never gets what  *)
(* happens to be in the environment; one that imports it after may.        *)
DynamicTopAfterMemory ==
  [][\A m \in Module :
       got[m]["memory"] # Unset => (got'[m]["DYNAMICTOP_PTR"] = "anything"
                                    => got[m]["DYNAMICTOP_PTR"] = "anything")]_vars
=============================================================================
