------------------------------- MODULE Runtime -------------------------------
(***************************************************************************)
(* What wasm2c modules run on: their memory and stack (WasmStack), the     *)
(* environment they import from (WasmEnv) and their function tables        *)
(* (WasmTables).  The three share no state; one of them is run, the others *)
(* stay at a first state.                                                  *)
(***************************************************************************)
EXTENDS WasmStack

CONSTANTS
  Importer, Declarations, PAGE_SIZE, Value, Segment, MaxBlocks, Unset, \* of WasmEnv
  Instance, Functions, TypeOf, Lifted, Capacity, Counts, Null          \* of WasmTables

VARIABLES
  part,                                                     \* what is run
  declared, env, Stack, blocks, got, table, stored,         \* of WasmEnv
  lifted, FUNCREF_TABLE, own, last, edited, called, trapped \* of WasmTables

environment == <<declared, env, Stack, blocks, got, table, stored>>
tables == <<lifted, FUNCREF_TABLE, own, last, edited, called, trapped>>

Env == INSTANCE WasmEnv WITH Module <- Importer, memory <- stored
Tables == INSTANCE WasmTables WITH Modules <- Lifted, module <- lifted

(* What is linked to the runtime is well formed.                           *)
ASSUME RuntimeAssumption == Env!WasmEnvAssumption /\ Tables!WasmTablesAssumption

RuntimeInit ==
  /\ part \in {"stack", "environment", "tables"}
  /\ part # "stack" => module = CHOOSE m \in Modules : TRUE
  /\ part # "environment" => declared = CHOOSE d \in Declarations : TRUE
  /\ Init /\ Env!Init /\ Tables!Init

RuntimeNext ==
  \/ part = "stack" /\ Next /\ UNCHANGED <<part, environment, tables>>
  \/ part = "environment" /\ Env!Next /\ UNCHANGED <<part, vars, tables>>
  \/ part = "tables" /\ Tables!Next /\ UNCHANGED <<part, vars, environment>>

RuntimeSpec ==
  RuntimeInit /\ [][RuntimeNext]_<<part, vars, environment, tables>>
-----------------------------------------------------------------------------
(* However the stack pointer moves, what live frames wrote and what was    *)
(* loaded is still there, and no access leaves the memory.                 *)
MemoryKept == TypeOK /\ FramesApart /\ ReadsBack /\ DataKept /\ NoWildAccess

(* The stack pointer is the caller's again after a return, and the free    *)
(* space tells an overflow.                                                *)
PointerTells == Balanced /\ FreeTells

(* All importers of a memory see one memory.                               *)
Coherent == Env!TypeOK /\ Env!Coherent

(* A module that imports its memory first never gets an unset DYNAMICTOP.  *)
DynamicTopAfterMemory == Env!DynamicTopAfterMemory

(* A call runs a function with an instance of the module it is from.       *)
PairedAsListed == Tables!TypeOK /\ Tables!PairedAsListed

(* Where the shared array is right: for the only instance, for the own     *)
(* segment of the last one, and in the functions of instances of one       *)
(* module.                                                                 *)
CallsAsOwn == Tables!AloneIsOwn /\ Tables!LastIsOwn /\ Tables!OnlyInstanceDiffers
=============================================================================
