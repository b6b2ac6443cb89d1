---------------------------- MODULE Deobfuscator ----------------------------
(***************************************************************************)
(* Deobfuscator::deobfuscate and deobfuscateFunction                       *)
(* (src/src/Deobfuscator.cpp:205-270 and 517-589) over one module that the *)
(* requested functions change one after the other.  Inlining is the single *)
(* step of InlineContract seen at the level of functions, extraction that  *)
(* of Extraction; both are shown to be what the loops compute.             *)
(***************************************************************************)
EXTENDS Extraction, TableContract, Naturals, Sequences

CONSTANTS
  Helper,       \* names setFunctionsAlwayInline lists, but for Instantiate
  Instantiate,  \* wasm2c_<module>_instantiate
  Runtime,      \* the functions wasm_runtime.bc defines, all always_inline
  DataSegments, \* the variables "data_segment_data.*" matches
  Inputs,       \* the input modules considered
  Commands      \* the command lines considered

(* The attributes clang gives to the functions it defines; how many        *)
(* parameters wasm2c gave Instantiate (one for the instance and one per    *)
(* imported module), and what the first parameter of a function is.        *)
AllInputs ==
  {in \in [module   : {m \in AllModules : WellFormed(m)},
           noinline : SUBSET Function,
           optnone  : SUBSET Function,
           local    : SUBSET Function,         \* internal linkage
           params   : Nat,
           first    : [Function -> {"pointer", "other", "none"}],
           wasmName : {"squanchy", "other"}] : \* the name wasm2c was given
     in.optnone \subseteq in.noinline /\ in.noinline \subseteq in.module.defs}

AllCommands ==
  [functions  : Seq(Function) \ {<<>>},         \* -f, one or more
   moduleName : {"squanchy", "other"},          \* -module-name
   list       : BOOLEAN,                        \* -list-functions
   extract    : BOOLEAN,                        \* -extract-function
   recursive  : BOOLEAN,                        \* -extract-recursive
   inject     : BOOLEAN,                        \* -inject-initializer
   refs       : BOOLEAN,                        \* -replace-instance-refs
   optimize   : BOOLEAN,                        \* -O is not 0
   writable   : BOOLEAN]                        \* the output can be opened

Listed == Helper \cup Runtime \cup {Instantiate}

ASSUME DeobfuscatorAssumption ==
  /\ Listed \subseteq Function
  /\ Inputs \subseteq AllInputs /\ Commands \subseteq AllCommands
  /\ DataSegments \subseteq Variable

VARIABLES
  input, cmd,   \* what the program was given
  module,       \* M: symbol table, definitions, calls and references
  attr,         \* function attributes and linkage of M
  pointer,      \* per function, the instance its own accesses go through
  passed,       \* per function, the instance it passes to w2c_ callees
  table,        \* per function, what became of its writes to FUNCREF_TABLE
  next,         \* index in FunctionNames
  pc, exit,
  output        \* the function definitions written, <<>> if nothing was

vars == <<input, cmd, module, attr, pointer, passed, table, next, pc, exit, output>>

given == <<input, cmd>>
body == <<pointer, passed, table>>

Steps == {"start", "lookup", "link", "mark", "inject", "inline", "attributes",
          "optimize", "references", "table", "extract", "module", "write", "stop"}

F == cmd.functions[next]

Init ==
  /\ input \in Inputs
  /\ cmd \in Commands
  /\ module = input.module
  /\ attr = [noinline |-> input.noinline, optnone |-> input.optnone,
             ai |-> {}, local |-> input.local]
  /\ pointer = [f \in Function |-> "argument"]
  /\ passed = [f \in Function |-> "argument"]
  /\ table = [f \in Function |-> "none"]
  /\ next = 1
  /\ pc = "start"
  /\ exit = "running"
  /\ output = <<>>

Stop(status) == exit' = status /\ pc' = "stop"
Goto(step) == pc' = step /\ UNCHANGED exit

(* -list-functions prints and is done.                                     *)
Start ==
  /\ pc = "start"
  /\ IF cmd.list THEN Stop("success") ELSE Goto("lookup")
  /\ UNCHANGED <<given, module, attr, body, next, output>>

(* Mutant: a name that is not found ends the run but writes the module. *)
LookupOrWrite ==
  /\ pc = "lookup"
  /\ next \leq Len(cmd.functions)
  /\ IF F \in module.defs
     THEN Goto("link") /\ UNCHANGED output
     ELSE Stop("failure") /\ output' = <<module.defs \cap Function>>
  /\ UNCHANGED <<given, module, attr, body, next>>

(* Mutant: a name that is not found is passed over. *)
LookupOrSkip ==
  /\ pc = "lookup"
  /\ next \leq Len(cmd.functions)
  /\ IF F \in module.defs
     THEN Goto("link") /\ UNCHANGED next
     ELSE Goto("lookup") /\ next' = next + 1
  /\ UNCHANGED <<given, module, attr, body, output>>

(* The loop over FunctionNames: an unknown name or a declaration ends the  *)
(* run with nothing written, whatever earlier names did to the module.     *)
LookupFunction ==
  /\ pc = "lookup"
  /\ next \leq Len(cmd.functions)
  /\ IF F \in module.defs THEN Goto("link") ELSE Stop("failure")
  /\ UNCHANGED <<given, module, attr, body, next, output>>

EndOfNames ==
  /\ pc = "lookup"
  /\ next > Len(cmd.functions)
  /\ Goto("extract")
  /\ UNCHANGED <<given, module, attr, body, next, output>>

(* optnone goes from F, then a fresh copy of every runtime function        *)
(* replaces the one an earlier name's linking or optimizing left.  The     *)
(* pointer F does not survive when F is itself replaced.                   *)
LinkRuntime ==
  /\ pc = "link"
  /\ module' = [module EXCEPT
                  !.names = @ \cup Runtime,
                  !.defs  = @ \cup Runtime,
                  !.calls = {e \in @ : e[1] \notin Runtime},
                  !.uses  = {e \in @ : e[1] \notin Runtime}]
  /\ attr' = [noinline |-> attr.noinline \ Runtime,
              optnone  |-> attr.optnone \ (Runtime \cup {F}),
              ai       |-> attr.ai \cup Runtime,
              local    |-> attr.local \ Runtime]
  /\ IF F \in Runtime THEN Stop("crash") ELSE Goto("mark")
  /\ UNCHANGED <<given, body, next, output>>

(* The names setFunctionsAlwayInline finds; instantiate's name is built    *)
(* from -module-name.                                                      *)
Markable ==
  (Helper \cup (IF cmd.moduleName = input.wasmName THEN {Instantiate} ELSE {}))
    \cap module.names

MarkAlwaysInline ==
  /\ pc = "mark"
  /\ attr' = [attr EXCEPT !.ai = @ \cup Markable]
  /\ Goto(IF cmd.inject THEN "inject" ELSE "inline")
  /\ UNCHANGED <<given, module, body, next, output>>

(* The struct is looked up under -module-name, the function under a name   *)
(* fixed in the source, and null is not checked.                           *)
StructFound == cmd.moduleName = input.wasmName
InitializerFound == input.wasmName = "squanchy" /\ Instantiate \in module.names

(* The call has two operands, and a pointer takes the place of the first   *)
(* parameter of F, whatever the two functions declare.  Where that does    *)
(* not fit, an LLVM with assertions stops and one without goes on.         *)
FitsInitializer(f) == input.params = 2 /\ input.first[f] = "pointer"

InjectionStops ==
  /\ \/ ~ StructFound /\ Stop("abort")
     \/ /\ StructFound \/ input.first[F] = "none"
        /\ ~ (InitializerFound /\ FitsInitializer(F))
        /\ Stop("crash")
  /\ UNCHANGED <<module, pointer, passed>>

Injectable == StructFound /\ InitializerFound /\ input.first[F] # "none"

(* Mutant: only the operands of calls are replaced. *)
InjectIntoCalls ==
  /\ pc = "inject"
  /\ \/ InjectionStops
     \/ /\ Injectable
        /\ module' = [module EXCEPT !.calls = @ \cup {<<F, Instantiate>>}]
        /\ passed' = [passed EXCEPT ![F] = "local"]
        /\ Goto("inline")
        /\ UNCHANGED pointer
  /\ UNCHANGED <<given, attr, table, next, output>>

(* injectInitializer: an instance of F's own, initialized and then used    *)
(* where F used the one it was passed.                                     *)
InjectInitializer ==
  /\ pc = "inject"
  /\ \/ InjectionStops
     \/ /\ Injectable
        /\ module' = [module EXCEPT !.calls = @ \cup {<<F, Instantiate>>}]
        /\ pointer' = [pointer EXCEPT ![F] = "local"]
        /\ passed' = [passed EXCEPT ![F] = "local"]
        /\ Goto("inline")
  /\ UNCHANGED <<given, attr, table, next, output>>

Hot == attr.ai \cap module.defs
HotCallees(f) == Callees(module, f) \cap Hot

(* The always-inline definitions that end up in f.                         *)
Below(f) ==
  {g \in Hot : \A S \in SUBSET Hot :
     HotCallees(f) \subseteq S /\ (\A s \in S : HotCallees(s) \subseteq S) => g \in S}

Endless(f) == \E g \in Below(f) : g \in Below(g)

(* inlineFunctions and removeCallASMSideEffects: InlineContract's step.    *)
(* When a helper below F is recursive there is no such step: the loop does *)
(* not end.                                                                *)
InlineFunctions ==
  /\ pc = "inline"
  /\ ~ Endless(F)
  /\ LET sources == {F} \cup Below(F)
         into(edges, targets) ==
           {<<F, h>> : h \in {e[2] : e \in {d \in edges : d[1] \in sources}} \cap targets}
     IN  /\ module' = [module EXCEPT
              !.calls = {e \in @ : e[1] # F} \cup into(@, Value \ Hot),
              !.uses  = @ \cup into(@, Value)]
         /\ table' = [table EXCEPT ![F] =
              IF Instantiate \in sources /\ @ # "broken" THEN "unfolded" ELSE @]
  /\ Goto("attributes")
  /\ UNCHANGED <<given, attr, pointer, passed, next, output>>

(* Mutant: F itself is not made noinline. *)
CancelNoInline ==
  /\ pc = "attributes"
  /\ attr' = [attr EXCEPT !.noinline = attr.noinline \ attr.ai,
                          !.ai       = attr.ai \ attr.noinline]
  /\ Goto("optimize")
  /\ UNCHANGED <<given, module, body, next, output>>

(* F becomes noinline; then noinline and alwaysinline cancel, everywhere.  *)
SetNoInline ==
  /\ pc = "attributes"
  /\ LET noinline == attr.noinline \cup {F}
     IN  attr' = [attr EXCEPT !.noinline = noinline \ attr.ai,
                              !.ai       = attr.ai \ noinline]
  /\ Goto("optimize")
  /\ UNCHANGED <<given, module, body, next, output>>

(* The function pipelines: what matters here is that they fold the table's *)
(* data pointer, so that entries are stored to FUNCREF_TABLE directly.     *)
OptimizeFunction ==
  /\ pc = "optimize"
  /\ table' = [table EXCEPT ![F] =
                 IF cmd.optimize /\ @ = "unfolded" THEN "folded" ELSE @]
  /\ Goto(IF cmd.refs THEN "references" ELSE "table")
  /\ UNCHANGED <<given, module, attr, pointer, passed, next, output>>

(* replaceInstanceRefs: the callees named w2c_squanchy_... are passed the  *)
(* first parameter of F again; without one, or with one that is no         *)
(* pointer, LLVM may stop here.                                            *)
ReplaceInstanceRefs ==
  /\ pc = "references"
  /\ \/ /\ input.first[F] # "pointer"
        /\ Stop("crash")
        /\ UNCHANGED passed
     \/ /\ passed' = [passed EXCEPT ![F] =
                        IF input.wasmName = "squanchy" THEN "argument" ELSE @]
        /\ Goto("table")
  /\ UNCHANGED <<given, module, attr, pointer, table, next, output>>

(* Mutant: the loop stays at the same name. *)
EraseAndStay ==
  /\ pc = "table"
  /\ table' = [table EXCEPT ![F] = Cleaned(@)]
  /\ Goto("lookup")
  /\ UNCHANGED <<given, module, attr, pointer, passed, next, output>>

(* replaceFUNCREF_TABLE erases the stores that name FUNCREF_TABLE: folded  *)
(* entries, or else the store of its address into the table's data field.  *)
EraseTableStores ==
  /\ pc = "table"
  /\ table' = [table EXCEPT ![F] = Cleaned(@)]
  /\ next' = next + 1
  /\ Goto("lookup")
  /\ UNCHANGED <<given, module, attr, pointer, passed, output>>

(* Mutant: extraction is always recursive. *)
RequestRecursive ==
  [aliases |-> {}, raliases |-> {}, globals |-> {},
   rglobals |-> {DataSegments}, functions |-> {cmd.functions[k] : k \in 1 .. Len(cmd.functions)},
   rfunctions |-> {}, blocks |-> {}, recursive |-> TRUE,
   delete |-> FALSE, keepConst |-> FALSE]

(* The call of LLVMExtract.  The value it returns is not looked at.        *)
Request ==
  [aliases |-> {}, raliases |-> {}, globals |-> {},
   rglobals |-> {DataSegments}, functions |-> {cmd.functions[k] : k \in 1 .. Len(cmd.functions)},
   rfunctions |-> {}, blocks |-> {}, recursive |-> cmd.recursive,
   delete |-> FALSE, keepConst |-> FALSE]

Extracts == cmd.extract /\ Resolves(module, Request)

(* Mutant: a failed extraction fails the run. *)
ExtractOrFail ==
  /\ pc = "extract"
  /\ IF Extracts
     THEN /\ module' = Extracted(module, Request)
          /\ attr' = [attr EXCEPT !.local = {}]
     ELSE UNCHANGED <<module, attr>>
  /\ IF cmd.extract /\ ~ Extracts THEN Stop("failure") ELSE Goto("module")
  /\ UNCHANGED <<given, body, next, output>>

ExtractFunctions ==
  /\ pc = "extract"
  /\ IF Extracts
     THEN /\ module' = Extracted(module, Request)
          /\ attr' = [attr EXCEPT !.local = {}]
     ELSE UNCHANGED <<module, attr>>
  /\ Goto("module")
  /\ UNCHANGED <<given, body, next, output>>

(* What the visible definitions of m reach.                                *)
Reached(m, local) ==
  LET edges == {e \in m.calls \cup m.uses : e[1] \in m.defs}
      roots == m.defs \ local
  IN  roots \cup {v \in m.names : \A S \in SUBSET (m.names \ roots) :
                    (\A e \in edges : e[1] \in roots \cup S => e[2] \in roots \cup S)
                    => v \in S}

(* The module pipeline drops the local functions nothing visible reaches.  *)
Needed == Reached(module, attr.local)

OptimizeModule ==
  /\ pc = "module"
  /\ module' = IF cmd.optimize
               THEN [module EXCEPT !.names = @ \cap Needed, !.defs = @ \cap Needed]
               ELSE module
  /\ Goto("write")
  /\ UNCHANGED <<given, attr, body, next, output>>

(* An output file that cannot be opened is reported, and that is all.      *)
WriteOutput ==
  /\ pc = "write"
  /\ output' = IF cmd.writable THEN <<module.defs \cap Function>> ELSE <<>>
  /\ Stop("success")
  /\ UNCHANGED <<given, module, attr, body, next>>

Next ==
  \/ Start \/ LookupFunction \/ EndOfNames
  \/ LinkRuntime \/ MarkAlwaysInline \/ InjectInitializer \/ InlineFunctions
  \/ SetNoInline \/ OptimizeFunction \/ ReplaceInstanceRefs \/ EraseTableStores
  \/ ExtractFunctions \/ OptimizeModule \/ WriteOutput

(* One thread: a step is taken while one is enabled.                       *)
Spec == Init /\ [][Next]_vars /\ WF_vars(Next)
-----------------------------------------------------------------------------
(* Types; a run that is not over has neither status nor output.            *)
TypeOK ==
  /\ input \in Inputs /\ cmd \in Commands
  /\ module \in AllModules /\ module.defs \subseteq module.names
  /\ attr \in [noinline : SUBSET Function, optnone : SUBSET Function,
               ai : SUBSET Function, local : SUBSET Function]
  /\ pointer \in [Function -> {"argument", "local"}]
  /\ passed \in [Function -> {"argument", "local"}]
  /\ table \in [Function -> TableState]
  /\ next \in 1 .. Len(cmd.functions) + 1
  /\ pc \in Steps
  /\ exit \in {"running", "success", "failure", "abort", "crash"}
  /\ exit = "running" <=> pc # "stop"
  /\ output # <<>> => exit = "success"

(* The names given to -f before the one being handled.                     *)
Processed == {cmd.functions[k] : k \in 1 .. next - 1}

(* ... less the one being handled a second time, if -f repeats a name.     *)
Settled == IF next \leq Len(cmd.functions) THEN Processed \ {F} ELSE Processed

(* The use the tool is made for: -f names functions of the program, and    *)
(* -module-name is the name wasm2c was given.                              *)
ProgramFunction(f) == f \notin Listed
Ordinary ==
  /\ \A k \in 1 .. Len(cmd.functions) : ProgramFunction(cmd.functions[k])
  /\ cmd.moduleName = input.wasmName

(* Something visible refers to f, not only through the runtime: the C      *)
(* compiler emits no local function without that.                          *)
Referred(f) == f \in Reached([input.module EXCEPT !.defs = @ \ Runtime], input.local)

(* A name stays deobfuscated while later names are handled, the runtime is *)
(* linked again, attributes are set and removed and the module is cut: its *)
(* definition is there, noinline and optimizable, it calls no helper that  *)
(* has a body, and it writes nothing through FUNCREF_TABLE once optimized. *)
StaysDeobfuscated ==
  Ordinary =>
    \A f \in Settled :
      /\ Referred(f) => f \in module.defs
      /\ f \in attr.noinline \ attr.optnone
      /\ Callees(module, f) \cap Listed = {}
      /\ cmd.optimize => table[f] = "none"

(* Which instance a processed function works on: its own when an           *)
(* initializer is injected, its caller's otherwise; what it passes on is   *)
(* its caller's exactly when asked by -replace-instance-refs.              *)
InstanceOfProcessed ==
  Ordinary =>
    \A f \in Settled :
      /\ pointer[f] = IF cmd.inject THEN "local" ELSE "argument"
      /\ passed[f] = IF cmd.inject /\ ~ (cmd.refs /\ input.wasmName = "squanchy")
                     THEN "local" ELSE "argument"

(* The module written by a non-recursive extraction is one LLVM's verifier *)
(* accepts, whatever the number of names: optnone comes with noinline, and *)
(* alwaysinline with neither.  (Helpers do lose this on the way; they are  *)
(* gone by then if nothing in the program takes the address of one.)       *)
HelpersOnlyCalled == \A e \in input.module.uses : e[2] \notin Listed
WrittenAttributesAgree ==
  Ordinary /\ HelpersOnlyCalled /\ output # <<>> /\ cmd.extract /\ ~ cmd.recursive
  /\ DataSegments \cap input.module.names # {} =>
    \A f \in module.names \cap Function :
      /\ f \in attr.optnone => f \in attr.noinline
      /\ f \in attr.ai => f \notin attr.noinline \cup attr.optnone

(* Exit status 0 with something written means that every name was found    *)
(* and handled and is defined in the output.                               *)
OutputHasRequested ==
  Ordinary /\ output # <<>> =>
    /\ Processed = Request.functions
    /\ \A f \in Request.functions : Referred(f) => f \in output[1]

(* What is written, if anything, is what was asked for and valid.          *)
OutputIsRight == TypeOK /\ WrittenAttributesAgree /\ OutputHasRequested

(* What the two options that rewrite instances take for granted.  (Of the  *)
(* samples, obf_1 has an initializer of three parameters: src/samples/     *)
(* obf_1/obf_w2c.h:41.)                                                    *)
TakeInstance == \A k \in 1 .. Len(cmd.functions) : input.first[cmd.functions[k]] = "pointer"

OptionsFit ==
  /\ cmd.inject => input.wasmName = "squanchy" /\ Instantiate \in input.module.names
                   /\ input.params = 2
  /\ cmd.inject \/ cmd.refs => TakeInstance

(* For the use the tool is made for, the only way to fail is a name that   *)
(* is not defined; -inject-initializer takes a module wasm2c was told to   *)
(* name squanchy whose initializer fits the call made of it, and with      *)
(* -replace-instance-refs the functions take a pointer first.              *)
FailsOnlyOnNames ==
  Ordinary /\ OptionsFit =>
    /\ exit \notin {"abort", "crash"}
    /\ exit = "failure" =>
         \E k \in 1 .. Len(cmd.functions) : cmd.functions[k] \notin input.module.defs

(* The run ends when no helper is recursive.                               *)
NoRecursiveHelper ==
  \A g \in Listed :
    ~ \E S \in SUBSET Listed : g \in S /\ \A h \in S : Callees(input.module, h) \cap S # {}

Ends == NoRecursiveHelper /\ Ordinary ~> pc = "stop"

(* What the option -extract-function, on by default, says it does          *)
(* ("extract function from the module", src/src/Deobfuscator.cpp:118):     *)
(* nothing but the requested functions is defined in the output.           *)
ExtractionHonoured ==
  output # <<>> /\ cmd.extract /\ ~ cmd.recursive => output[1] \subseteq Request.functions

(* What the option -module-name says it is for ("The module-name used in   *)
(* wasm2c", src/src/Deobfuscator.cpp:108): given the right name, the       *)
(* module's initializer is found, in a module that has one that fits.      *)
ModuleNameHonoured ==
  Ordinary /\ Instantiate \in input.module.names /\ input.params = 2 /\ TakeInstance =>
    exit \notin {"abort", "crash"}
=============================================================================
