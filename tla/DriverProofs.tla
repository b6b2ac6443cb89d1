----------------------------- MODULE DriverProofs -----------------------------
(***************************************************************************)
(* Theorems about Deobfuscator, for every module, every set of helpers and *)
(* runtime functions and every command; about its step InlineFunctions and *)
(* the loop of Inliner; and about CommandLine, of which Deobfuscator is    *)
(* the last step.                                                          *)
(***************************************************************************)
EXTENDS Deobfuscator, CommandLine, FiniteSetTheorems, TLAPS

(***************************************************************************)
(* Where the run is in the handling of a name, and before the module is    *)
(* cut down to what is wanted.                                             *)
(***************************************************************************)
InTurn == {"link", "mark", "inject", "inline", "attributes", "optimize",
           "references", "table"}
BeforeCut == {"start", "lookup", "extract"} \cup InTurn

(* The control of the run.                                                 *)
ControlInv ==
  /\ pc = "start" => next = 1
  /\ pc \in InTurn => next \leq Len(cmd.functions) /\ F \in module.defs
  /\ pc \in {"extract", "module", "write"} \/ output # <<>> => next = Len(cmd.functions) + 1
  /\ pc = "inject" => cmd.inject
  /\ pc = "references" => cmd.refs
  /\ pc # "stop" => output = <<>>
  /\ exit = "crash" => next \leq Len(cmd.functions)

(* A program function the module is sure to keep.                          *)
Held(f) == f \in Reached([module EXCEPT !.defs = @ \ Runtime], attr.local)

(* What the input has is there until the module is cut, every reference    *)
(* names a value, and what something referred to is still referred to.     *)
GraphInv ==
  /\ module.calls \subseteq Function \X Value
  /\ \A e \in module.uses : \E d \in input.module.uses : d[2] = e[2]
  /\ attr.ai \subseteq Listed
  /\ pc \in BeforeCut \/ (pc = "module" /\ attr.local # {}) =>
       /\ input.module.names \subseteq module.names
       /\ input.module.defs \subseteq module.defs
       /\ \A e \in module.calls \cup module.uses : e[2] \in module.names
       /\ Ordinary => \A k \in 1 .. Len(cmd.functions) :
            Referred(cmd.functions[k]) => Held(cmd.functions[k])

(* f calls no helper that has a body, and will not when the runtime is     *)
(* linked again.                                                           *)
Cleared(f) == \A g \in Listed : <<f, g>> \in module.calls => g \notin module.defs \cup Runtime

(* The name being handled.                                                 *)
TurnInv ==
  Ordinary =>
    /\ pc \in {"mark", "inject", "inline", "attributes"} => Runtime \subseteq attr.ai \cap module.defs
    /\ pc \in {"inject", "inline", "attributes"} => Listed \cap module.defs \subseteq attr.ai
    /\ pc \in InTurn \ {"link"} => F \notin attr.optnone
    /\ pc \in {"attributes", "optimize", "references", "table"} => Cleared(F)
    /\ pc \in {"optimize", "references", "table"} => F \in attr.noinline

(* What became of the writes to the table.                                 *)
TableInv ==
  Ordinary /\ cmd.optimize =>
    \A f \in Function :
      \/ table[f] = "none"
      \/ f = F /\ pc \in {"attributes", "optimize"} /\ table[f] = "unfolded"
      \/ f = F /\ (pc \in {"references", "table"} \/ exit = "crash") /\ table[f] = "folded"

(* The instances: of all functions without an initializer, of the name     *)
(* being handled, and of those that were.                                  *)
OwnInstance == IF cmd.inject THEN "local" ELSE "argument"
PassedOn == IF cmd.inject /\ ~ (cmd.refs /\ input.wasmName = "squanchy")
            THEN "local" ELSE "argument"

InstanceInv ==
  /\ ~ cmd.inject => \A f \in Function : pointer[f] = "argument" /\ passed[f] = "argument"
  /\ pc \in {"inline", "attributes", "optimize", "references", "table"} =>
       pointer[F] = OwnInstance
  /\ pc \in {"inline", "attributes", "optimize", "references"} => passed[F] = OwnInstance
  /\ pc = "table" => passed[F] = PassedOn

(* The attributes LLVM's verifier looks at: of the program's functions, of *)
(* the runtime once it is linked, and of helpers without a body.           *)
AttributeInv ==
  Ordinary =>
    /\ \A f \in Function \ Listed : f \in attr.optnone => f \in attr.noinline
    /\ pc \in InTurn \ {"link"} \/ next > 1 =>
         Runtime \cap (attr.noinline \cup attr.optnone) = {}
    /\ (attr.noinline \cup attr.optnone) \cap Listed \subseteq input.module.defs

(* A cut module has no helper that had a body.                             *)
CutInv ==
  /\ Ordinary /\ HelpersOnlyCalled /\ cmd.extract /\ ~ cmd.recursive
     /\ DataSegments \cap input.module.names # {}
     /\ (pc \in {"module", "write"} \/ output # <<>>) =>
       module.names \cap (Listed \ Runtime) \cap input.module.defs = {}
  /\ output # <<>> /\ Ordinary => \A f \in Settled : Referred(f) => f \in output[1]

SettledInv ==
  Ordinary =>
    \A f \in Settled :
      /\ pc \in BeforeCut \/ Referred(f) => f \in module.defs
      /\ f \in attr.noinline \ attr.optnone
      /\ Cleared(f)
      /\ pointer[f] = OwnInstance
      /\ passed[f] = PassedOn

DriverInv ==
  /\ TypeOK /\ ControlInv /\ GraphInv /\ TurnInv /\ TableInv
  /\ InstanceInv /\ AttributeInv /\ CutInv /\ SettledInv /\ FailsOnlyOnNames

(***************************************************************************)
(* The records.                                                            *)
(***************************************************************************)

LEMMA Constants ==
  /\ Helper \subseteq Function /\ Runtime \subseteq Function /\ Instantiate \in Function
  /\ Listed = Helper \cup Runtime \cup {Instantiate}
  /\ Function \subseteq Value /\ DataSegments \subseteq Value
  /\ DataSegments \subseteq Variable /\ Function \cap Variable = {}
BY DeobfuscatorAssumption, ExtractionAssumption DEF Listed, Value

(* What the program is given.                                              *)
LEMMA Given ==
  ASSUME TypeOK
  PROVE  /\ cmd.functions \in Seq(Function) /\ Len(cmd.functions) \in Nat \ {0}
         /\ \A k \in 1 .. Len(cmd.functions) : cmd.functions[k] \in Function
         /\ cmd.list \in BOOLEAN /\ cmd.extract \in BOOLEAN /\ cmd.recursive \in BOOLEAN
         /\ cmd.inject \in BOOLEAN /\ cmd.refs \in BOOLEAN /\ cmd.optimize \in BOOLEAN
         /\ cmd.writable \in BOOLEAN
         /\ input.module \in AllModules /\ WellFormed(input.module)
         /\ input.noinline \subseteq input.module.defs /\ input.optnone \subseteq input.noinline
         /\ input.noinline \subseteq Function /\ input.local \subseteq Function
BY DeobfuscatorAssumption DEF TypeOK, AllInputs, AllCommands

(* The parts of the module and of the attributes.                          *)
LEMMA Parts ==
  ASSUME TypeOK
  PROVE  /\ module.names \subseteq Value /\ module.defs \subseteq module.names
         /\ module.calls \subseteq Value \X Value /\ module.uses \subseteq Value \X Value
         /\ attr.noinline \subseteq Function /\ attr.optnone \subseteq Function
         /\ attr.ai \subseteq Function /\ attr.local \subseteq Function
BY DEF TypeOK, AllModules

(***************************************************************************)
(* What each of the larger steps does to the records.                      *)
(***************************************************************************)
Attributes == [noinline : SUBSET Function, optnone : SUBSET Function,
               ai : SUBSET Function, local : SUBSET Function]

LEMMA LinkEffect ==
  ASSUME TypeOK, LinkRuntime
  PROVE  /\ pc = "link" /\ UNCHANGED <<input, cmd, pointer, passed, table, next, output>>
         /\ module' \in AllModules /\ attr' \in Attributes
         /\ module'.names = module.names \cup Runtime
         /\ module'.defs = module.defs \cup Runtime
         /\ module'.calls = {e \in module.calls : e[1] \notin Runtime}
         /\ module'.uses = {e \in module.uses : e[1] \notin Runtime}
         /\ attr'.noinline = attr.noinline \ Runtime
         /\ attr'.optnone = attr.optnone \ (Runtime \cup {F})
         /\ attr'.ai = attr.ai \cup Runtime
         /\ attr'.local = attr.local \ Runtime
         /\ \/ F \in Runtime /\ pc' = "stop" /\ exit' = "crash"
            \/ F \notin Runtime /\ pc' = "mark" /\ exit' = exit
<1>1. /\ module.names \cup Runtime \in SUBSET Value
      /\ module.defs \cup Runtime \in SUBSET Value
      /\ {e \in module.calls : e[1] \notin Runtime} \in SUBSET (Value \X Value)
      /\ {e \in module.uses : e[1] \notin Runtime} \in SUBSET (Value \X Value)
  BY Parts, Constants
<1>2. module \in AllModules
  BY DEF TypeOK
<1>3. /\ module' \in AllModules
      /\ module'.names = module.names \cup Runtime
      /\ module'.defs = module.defs \cup Runtime
      /\ module'.calls = {e \in module.calls : e[1] \notin Runtime}
      /\ module'.uses = {e \in module.uses : e[1] \notin Runtime}
  <2>1. module' = [module EXCEPT
                     !.names = module.names \cup Runtime,
                     !.defs = module.defs \cup Runtime,
                     !.calls = {e \in module.calls : e[1] \notin Runtime},
                     !.uses = {e \in module.uses : e[1] \notin Runtime}]
    BY <1>2 DEF LinkRuntime, AllModules
  <2>2. QED
    BY <1>1, <1>2, <2>1 DEF AllModules
<1>4. /\ attr' \in Attributes
      /\ attr'.noinline = attr.noinline \ Runtime
      /\ attr'.optnone = attr.optnone \ (Runtime \cup {F})
      /\ attr'.ai = attr.ai \cup Runtime
      /\ attr'.local = attr.local \ Runtime
  BY Parts, Constants DEF LinkRuntime, Attributes
<1>5. /\ pc = "link" /\ UNCHANGED <<input, cmd, pointer, passed, table, next, output>>
      /\ \/ F \in Runtime /\ pc' = "stop" /\ exit' = "crash"
         \/ F \notin Runtime /\ pc' = "mark" /\ exit' = exit
  BY DEF LinkRuntime, Stop, Goto, given, body
<1>6. QED
  BY <1>3, <1>4, <1>5

LEMMA MarkEffect ==
  ASSUME TypeOK, MarkAlwaysInline
  PROVE  /\ pc = "mark" /\ UNCHANGED <<input, cmd, module, pointer, passed, table, next, output, exit>>
         /\ attr' \in Attributes
         /\ attr'.noinline = attr.noinline /\ attr'.optnone = attr.optnone
         /\ attr'.local = attr.local /\ attr'.ai = attr.ai \cup Markable
         /\ Markable \subseteq Listed
         /\ pc' = IF cmd.inject THEN "inject" ELSE "inline"
<1>1. attr \in Attributes
  BY DEF TypeOK, Attributes
<1>2. Markable \subseteq Function /\ Markable \subseteq Listed
  BY Constants DEF Markable
<1>3. attr' = [attr EXCEPT !.ai = @ \cup Markable]
  BY DEF MarkAlwaysInline
<1>4. /\ attr' \in Attributes
      /\ attr'.noinline = attr.noinline /\ attr'.optnone = attr.optnone
      /\ attr'.local = attr.local /\ attr'.ai = attr.ai \cup Markable
  BY <1>1, <1>2, <1>3 DEF Attributes
<1>5. QED
  BY <1>2, <1>4 DEF MarkAlwaysInline, Goto, given, body

LEMMA InjectEffect ==
  ASSUME TypeOK, ControlInv, InjectInitializer
  PROVE  /\ pc = "inject" /\ UNCHANGED <<input, cmd, attr, table, next, output>>
         /\ \/ /\ cmd.moduleName # input.wasmName /\ pc' = "stop" /\ exit' = "abort"
               /\ UNCHANGED <<module, pointer, passed>>
            \/ /\ ~ (InitializerFound /\ FitsInitializer(F))
               /\ pc' = "stop" /\ exit' = "crash"
               /\ UNCHANGED <<module, pointer, passed>>
            \/ /\ pc' = "inline" /\ exit' = exit
               /\ Instantiate \in module.names /\ F \in Function
               /\ module' \in AllModules
               /\ module'.names = module.names /\ module'.defs = module.defs
               /\ module'.calls = module.calls \cup {<<F, Instantiate>>}
               /\ module'.uses = module.uses
               /\ pointer' = [pointer EXCEPT ![F] = "local"]
               /\ passed' = [passed EXCEPT ![F] = "local"]
<1>1. pc = "inject" /\ UNCHANGED <<input, cmd, attr, table, next, output>>
  BY DEF InjectInitializer, given
<1>2. F \in Function
  BY <1>1, Given DEF TypeOK, ControlInv, InTurn, F
<1>3. CASE InjectionStops
  BY <1>1, <1>3 DEF InjectionStops, StructFound, Stop
<1>4. CASE ~ InjectionStops
  <2>0. Injectable /\ Instantiate \in module.names
    BY <1>4 DEF InjectInitializer, Injectable, InitializerFound
  <2>1. /\ module' = [module EXCEPT !.calls = @ \cup {<<F, Instantiate>>}]
        /\ pointer' = [pointer EXCEPT ![F] = "local"]
        /\ passed' = [passed EXCEPT ![F] = "local"]
        /\ pc' = "inline" /\ exit' = exit
    BY <1>4 DEF InjectInitializer, Goto
  <2>2. module \in AllModules /\ module.calls \cup {<<F, Instantiate>>} \in SUBSET (Value \X Value)
    BY <1>2, Parts, Constants DEF TypeOK
  <2>3. /\ module' \in AllModules
        /\ module'.names = module.names /\ module'.defs = module.defs
        /\ module'.calls = module.calls \cup {<<F, Instantiate>>}
        /\ module'.uses = module.uses
    BY <2>1, <2>2 DEF AllModules
  <2>4. QED
    BY <1>1, <1>2, <2>0, <2>1, <2>3
<1>5. QED
  BY <1>3, <1>4

(* The calls and references of F after inlining: those of everything that  *)
(* went into it, but for the calls of what is always inlined.              *)
Sources == {F} \cup Below(F)

LEMMA InlineEffect ==
  ASSUME TypeOK, ControlInv, InlineFunctions
  PROVE  /\ pc = "inline" /\ pc' = "attributes" /\ F \in Function
         /\ UNCHANGED <<input, cmd, attr, pointer, passed, next, output, exit>>
         /\ module' \in AllModules
         /\ module'.names = module.names /\ module'.defs = module.defs
         /\ \A e \in module'.calls :
              \/ e \in module.calls /\ e[1] # F
              \/ \E d \in module.calls :
                   d[1] \in Sources /\ d[2] \in Value \ Hot /\ e = <<F, d[2]>>
         /\ \A d \in module.calls :
              /\ d[1] # F => d \in module'.calls
              /\ d[1] \in Sources /\ d[2] \notin Hot => <<F, d[2]>> \in module'.calls
         /\ \A e \in module'.uses :
              \/ e \in module.uses
              \/ \E d \in module.uses : d[1] \in Sources /\ d[2] \in Value /\ e = <<F, d[2]>>
         /\ \A d \in module.uses :
              d \in module'.uses /\ (d[1] \in Sources => <<F, d[2]>> \in module'.uses)
         /\ table' \in [Function -> TableState]
         /\ \A f \in Function : table'[f] = table[f] \/ (f = F /\ table'[f] = "unfolded")
<1> DEFINE Into(edges, targets) ==
             {<<F, h>> : h \in {e[2] : e \in {d \in edges : d[1] \in Sources}} \cap targets}
           calls == {e \in module.calls : e[1] # F} \cup Into(module.calls, Value \ Hot)
           uses == module.uses \cup Into(module.uses, Value)
<1>1. /\ pc = "inline" /\ pc' = "attributes"
      /\ UNCHANGED <<input, cmd, attr, pointer, passed, next, output, exit>>
  BY DEF InlineFunctions, Goto, given
<1>2. F \in Function /\ F \in Value
  BY <1>1, Given, Constants DEF TypeOK, ControlInv, InTurn, F
<1>3. module \in AllModules
  BY DEF TypeOK
<1>4. calls \in SUBSET (Value \X Value) /\ uses \in SUBSET (Value \X Value)
  BY <1>2, Parts
<1>5. module' = [module EXCEPT !.calls = calls, !.uses = uses]
  BY <1>3 DEF InlineFunctions, AllModules, Sources
<1>6. /\ module' \in AllModules
      /\ module'.names = module.names /\ module'.defs = module.defs
      /\ module'.calls = calls /\ module'.uses = uses
  <2> HIDE DEF calls, uses
  <2>1. QED
    BY <1>3, <1>4, <1>5 DEF AllModules
<1>7. /\ \A e \in calls :
           \/ e \in module.calls /\ e[1] # F
           \/ \E d \in module.calls :
                d[1] \in Sources /\ d[2] \in Value \ Hot /\ e = <<F, d[2]>>
      /\ \A d \in module.calls :
           /\ d[1] # F => d \in calls
           /\ d[1] \in Sources /\ d[2] \notin Hot => <<F, d[2]>> \in calls
  BY Parts
<1>8. /\ \A e \in uses :
           \/ e \in module.uses
           \/ \E d \in module.uses : d[1] \in Sources /\ d[2] \in Value /\ e = <<F, d[2]>>
      /\ \A d \in module.uses :
           d \in uses /\ (d[1] \in Sources => <<F, d[2]>> \in uses)
  BY Parts
<1>9. /\ table' \in [Function -> TableState]
      /\ \A f \in Function : table'[f] = table[f] \/ (f = F /\ table'[f] = "unfolded")
  BY <1>2 DEF InlineFunctions, TypeOK, TableState
<1> HIDE DEF calls, uses
<1>10. QED
  BY <1>1, <1>2, <1>6, <1>7, <1>8, <1>9

LEMMA AttributesEffect ==
  ASSUME TypeOK, ControlInv, SetNoInline
  PROVE  /\ pc = "attributes" /\ pc' = "optimize" /\ F \in Function
         /\ UNCHANGED <<input, cmd, module, pointer, passed, table, next, output, exit>>
         /\ attr' \in Attributes
         /\ attr'.noinline = (attr.noinline \cup {F}) \ attr.ai
         /\ attr'.ai = attr.ai \ (attr.noinline \cup {F})
         /\ attr'.optnone = attr.optnone /\ attr'.local = attr.local
<1>1. /\ pc = "attributes" /\ pc' = "optimize"
      /\ UNCHANGED <<input, cmd, module, pointer, passed, table, next, output, exit>>
  BY DEF SetNoInline, Goto, given, body
<1>2. F \in Function
  BY <1>1, Given DEF TypeOK, ControlInv, InTurn, F
<1>3. attr \in Attributes
  BY DEF TypeOK, Attributes
<1>4. attr' = [attr EXCEPT !.noinline = (attr.noinline \cup {F}) \ attr.ai,
                           !.ai = attr.ai \ (attr.noinline \cup {F})]
  BY DEF SetNoInline
<1>5. (attr.noinline \cup {F}) \ attr.ai \in SUBSET Function
  BY <1>2, Parts
<1>6. attr.ai \ (attr.noinline \cup {F}) \in SUBSET Function
  BY Parts
<1>7. QED
  BY <1>1, <1>2, <1>3, <1>4, <1>5, <1>6 DEF Attributes

(* What the extraction asked for wants: the names given to -f, the data    *)
(* segments, and with -extract-recursive what these call.                  *)
LEMMA WantedHere ==
  /\ Request.functions = {cmd.functions[k] : k \in 1 .. Len(cmd.functions)}
  /\ (Request.functions \cup DataSegments) \cap module.names \subseteq Wanted(module, Request)
  /\ ~ cmd.recursive => Wanted(module, Request) \subseteq Request.functions \cup DataSegments
<1>1. /\ Request.functions = {cmd.functions[k] : k \in 1 .. Len(cmd.functions)}
      /\ Request.aliases = {} /\ Request.raliases = {} /\ Request.globals = {}
      /\ Request.rglobals = {DataSegments} /\ Request.rfunctions = {}
      /\ Request.blocks = {} /\ Request.recursive = cmd.recursive
  BY DEF Request
<1>2. Seeds(module, Request) = (Request.functions \cup DataSegments) \cap module.names
  BY <1>1 DEF Seeds, Named, Matched
<1>3. QED
  BY <1>1, <1>2 DEF Wanted

LEMMA ExtractEffect ==
  ASSUME TypeOK, ExtractFunctions
  PROVE  /\ pc = "extract" /\ pc' = "module"
         /\ UNCHANGED <<input, cmd, pointer, passed, table, next, output, exit>>
         /\ ~ Extracts => UNCHANGED <<module, attr>>
         /\ Extracts =>
              /\ module' \in AllModules
              /\ module'.calls = module.calls /\ module'.uses = module.uses
              /\ module'.defs = module.defs \cap Wanted(module, Request)
              /\ module'.names =
                   {v \in module.names :
                      \/ v \in module'.defs
                      \/ \E d \in module'.defs : <<d, v>> \in module.calls \cup module.uses}
              /\ attr' \in Attributes /\ attr'.local = {}
              /\ attr'.noinline = attr.noinline /\ attr'.optnone = attr.optnone
              /\ attr'.ai = attr.ai
<1>1. /\ pc = "extract" /\ pc' = "module"
      /\ UNCHANGED <<input, cmd, pointer, passed, table, next, output, exit>>
      /\ ~ Extracts => UNCHANGED <<module, attr>>
  BY DEF ExtractFunctions, Goto, given, body
<1>2. CASE Extracts
  <2> DEFINE kept == WithDefinitions(module, Request, Wanted(module, Request))
  <2>1. Request.blocks = {} /\ Request.delete = FALSE /\ Request.keepConst = FALSE
    BY DEF Request
  <2>2. module \in AllModules /\ attr \in Attributes
    BY DEF TypeOK, Attributes
  <2>3. module' = Pruned(kept) /\ attr' = [attr EXCEPT !.local = {}]
    BY <1>2, <2>1 DEF ExtractFunctions, Extracted
  <2>4. kept = [module EXCEPT !.defs = module.defs \cap Wanted(module, Request)]
    BY <2>1 DEF WithDefinitions
  <2>5. /\ kept \in AllModules /\ kept.names = module.names
        /\ kept.defs = module.defs \cap Wanted(module, Request)
        /\ kept.calls = module.calls /\ kept.uses = module.uses
    <3>1. module.defs \cap Wanted(module, Request) \in SUBSET Value
      BY Parts
    <3>2. QED
      BY <2>2, <2>4, <3>1 DEF AllModules
  <2> HIDE DEF kept
  <2>6. /\ module' \in AllModules
        /\ module'.calls = kept.calls /\ module'.uses = kept.uses
        /\ module'.defs = kept.defs
        /\ module'.names = {v \in kept.names :
              v \in kept.defs \/ \E d \in kept.defs : <<d, v>> \in kept.calls \cup kept.uses}
    BY <2>3, <2>5 DEF Pruned, AllModules
  <2>7. /\ attr' \in Attributes /\ attr'.local = {}
        /\ attr'.noinline = attr.noinline /\ attr'.optnone = attr.optnone
        /\ attr'.ai = attr.ai
    BY <2>2, <2>3 DEF Attributes
  <2>8. QED
    BY <1>1, <1>2, <2>5, <2>6, <2>7
<1>3. QED
  BY <1>1, <1>2

LEMMA ModuleEffect ==
  ASSUME TypeOK, OptimizeModule
  PROVE  /\ pc = "module" /\ pc' = "write"
         /\ UNCHANGED <<input, cmd, attr, pointer, passed, table, next, output, exit>>
         /\ module' \in AllModules /\ module'.calls = module.calls /\ module'.uses = module.uses
         /\ module'.names \subseteq module.names /\ module'.defs \subseteq module.defs
         /\ module'.defs \subseteq module'.names
         /\ module.defs \cap Needed \subseteq module'.defs
<1>1. module \in AllModules
  BY DEF TypeOK
<1>2. CASE cmd.optimize
  <2>1. module' = [module EXCEPT !.names = module.names \cap Needed,
                                 !.defs = module.defs \cap Needed]
    BY <1>2 DEF OptimizeModule
  <2>2. module.names \cap Needed \in SUBSET Value /\ module.defs \cap Needed \in SUBSET Value
    BY Parts
  <2>3. QED
    BY <1>1, <2>1, <2>2, Parts DEF OptimizeModule, Goto, given, body, AllModules
<1>3. CASE ~ cmd.optimize
  BY <1>1, <1>3, Parts DEF OptimizeModule, Goto, given, body
<1>4. QED
  BY <1>2, <1>3

(***************************************************************************)
(* Types and control.                                                      *)
(***************************************************************************)
LEMMA TypeInit == Init => TypeOK
<1>1. SUFFICES ASSUME Init PROVE TypeOK
  OBVIOUS
<1>2. input \in AllInputs /\ cmd \in AllCommands
  BY <1>1, DeobfuscatorAssumption DEF Init
<1>3. module \in AllModules /\ module.defs \subseteq module.names
  BY <1>1, <1>2 DEF Init, AllInputs, WellFormed
<1>4. attr \in [noinline : SUBSET Function, optnone : SUBSET Function,
                ai : SUBSET Function, local : SUBSET Function]
  BY <1>1, <1>2 DEF Init, AllInputs
<1>5. /\ pointer \in [Function -> {"argument", "local"}]
      /\ passed \in [Function -> {"argument", "local"}]
      /\ table \in [Function -> TableState]
  BY <1>1 DEF Init, TableState
<1>6. next \in 1 .. Len(cmd.functions) + 1
  <2>1. next = 1 /\ cmd.functions \in Seq(Function)
    BY <1>1, <1>2 DEF Init, AllCommands
  <2>2. QED
    BY <2>1
<1>7. QED
  BY <1>1, <1>3, <1>4, <1>5, <1>6 DEF Init, TypeOK, Steps

LEMMA TypeStep == TypeOK /\ ControlInv /\ [Next]_vars => TypeOK'
<1>1. SUFFICES ASSUME TypeOK, ControlInv, [Next]_vars PROVE TypeOK'
  OBVIOUS
<1> USE DEF TypeOK, Steps
<1> DEFINE Rest == /\ cmd' = cmd /\ input' = input /\ module' = module /\ attr' = attr
                   /\ UNCHANGED <<pointer, passed>>
<1>2. CASE Start \/ LookupFunction \/ EndOfNames
  BY <1>1, <1>2 DEF Start, LookupFunction, EndOfNames, Stop, Goto, given, body
<1>3. CASE LinkRuntime
  BY <1>1, <1>3, LinkEffect DEF Attributes
<1>4. CASE MarkAlwaysInline
  BY <1>1, <1>4, MarkEffect DEF Attributes
<1>5. CASE InjectInitializer
  BY <1>1, <1>5, InjectEffect
<1>6. CASE InlineFunctions
  BY <1>1, <1>6, InlineEffect
<1>7. CASE SetNoInline
  BY <1>1, <1>7, AttributesEffect DEF Attributes
<1>8. CASE OptimizeFunction
  BY <1>1, <1>8 DEF OptimizeFunction, Goto, given, TableState
<1>9. CASE ReplaceInstanceRefs
  BY <1>1, <1>9 DEF ReplaceInstanceRefs, Stop, Goto, given
<1>10. CASE EraseTableStores
  <2>1. next \leq Len(cmd.functions) /\ Len(cmd.functions) \in Nat
    BY <1>1, <1>10, Given DEF EraseTableStores, ControlInv, InTurn
  <2>2. \A s \in TableState : Cleaned(s) \in TableState
    BY DEF Cleaned, TableState
  <2>3. table' \in [Function -> TableState]
    BY <1>1, <1>10, <2>2 DEF EraseTableStores
  <2>4. QED
    BY <1>1, <1>10, <2>1, <2>3 DEF EraseTableStores, Goto, given
<1>11. CASE ExtractFunctions
  <2>1. CASE Extracts
    BY <1>1, <1>11, <2>1, ExtractEffect DEF Attributes
  <2>2. CASE ~ Extracts
    BY <1>1, <1>11, <2>2, ExtractEffect
  <2>3. QED
    BY <2>1, <2>2
<1>12. CASE OptimizeModule
  BY <1>1, <1>12, ModuleEffect
<1>13. CASE WriteOutput
  BY <1>1, <1>13 DEF WriteOutput, Stop, given, body
<1>14. CASE UNCHANGED vars
  BY <1>1, <1>14 DEF vars
<1>15. QED
  BY <1>1, <1>2, <1>3, <1>4, <1>5, <1>6, <1>7, <1>8, <1>9, <1>10, <1>11, <1>12, <1>13,
     <1>14 DEF Next

LEMMA ControlStep == TypeOK /\ ControlInv /\ [Next]_vars => ControlInv'
<1>1. SUFFICES ASSUME TypeOK, ControlInv, [Next]_vars PROVE ControlInv'
  OBVIOUS
<1> USE DEF ControlInv, InTurn, F
<1>2. next \in 1 .. Len(cmd.functions) + 1 /\ Len(cmd.functions) \in Nat
  BY <1>1, Given DEF TypeOK
<1>3. CASE Start \/ LookupFunction \/ EndOfNames
  BY <1>1, <1>2, <1>3 DEF Start, LookupFunction, EndOfNames, Stop, Goto, given, body
<1>4. CASE LinkRuntime
  BY <1>1, <1>4, LinkEffect
<1>5. CASE MarkAlwaysInline
  BY <1>1, <1>5, MarkEffect
<1>6. CASE InjectInitializer
  BY <1>1, <1>6, InjectEffect
<1>7. CASE InlineFunctions
  BY <1>1, <1>7, InlineEffect
<1>8. CASE SetNoInline
  BY <1>1, <1>8, AttributesEffect
<1>9. CASE OptimizeFunction
  BY <1>1, <1>9 DEF OptimizeFunction, Goto, given
<1>10. CASE ReplaceInstanceRefs
  <2>1. /\ pc = "references" /\ cmd' = cmd /\ module' = module /\ next' = next /\ output' = output
        /\ (pc' = "table" /\ exit' = exit) \/ (pc' = "stop" /\ exit' = "crash")
    BY <1>10 DEF ReplaceInstanceRefs, Stop, Goto, given
  <2>2. /\ next \leq Len(cmd.functions) /\ F \in module.defs /\ F' = F
        /\ output = <<>> /\ exit # "crash"
    BY <1>1, <2>1 DEF TypeOK
  <2>3. /\ next' \leq Len(cmd'.functions) /\ F' \in module'.defs /\ output' = <<>>
        /\ pc' \in {"table", "stop"}
    BY <2>1, <2>2
  <2> HIDE DEF F
  <2>4. QED
    BY <2>3
<1>11. CASE EraseTableStores
  <2>1. exit' # "crash"
    BY <1>1, <1>11 DEF EraseTableStores, Goto, TypeOK
  <2>2. QED
    BY <1>1, <1>2, <1>11, <2>1 DEF EraseTableStores, Goto, given
<1>12. CASE ExtractFunctions
  <2>1. exit' # "crash"
    BY <1>1, <1>12, ExtractEffect DEF TypeOK
  <2>2. QED
    BY <1>1, <1>12, <2>1, ExtractEffect
<1>13. CASE OptimizeModule
  BY <1>1, <1>13, ModuleEffect
<1>14. CASE WriteOutput
  BY <1>1, <1>14 DEF WriteOutput, Stop, given, body
<1>15. CASE UNCHANGED vars
  BY <1>1, <1>15 DEF vars
<1>16. QED
  BY <1>1, <1>3, <1>4, <1>5, <1>6, <1>7, <1>8, <1>9, <1>10, <1>11, <1>12, <1>13, <1>14,
     <1>15 DEF Next

(***************************************************************************)
(* What something visible refers to.                                       *)
(***************************************************************************)

(* What is reached from the visible definitions, as a closed set.          *)
Closing(m, local, T) ==
  /\ m.defs \ local \subseteq T
  /\ \A e \in m.calls \cup m.uses : e[1] \in m.defs /\ e[1] \in T => e[2] \in T

LEMMA ReachedForm ==
  ASSUME NEW m, NEW local, m.defs \subseteq m.names, NEW f
  PROVE  f \in Reached(m, local) <=>
           f \in m.names /\ \A T \in SUBSET m.names : Closing(m, local, T) => f \in T
<1> DEFINE edges == {e \in m.calls \cup m.uses : e[1] \in m.defs}
           roots == m.defs \ local
           EndsIn(S) == \A e \in edges : e[1] \in roots \cup S => e[2] \in roots \cup S
<1>1. Reached(m, local) =
        roots \cup {v \in m.names : \A S \in SUBSET (m.names \ roots) : EndsIn(S) => v \in S}
  BY DEF Reached
<1>2. ASSUME f \in Reached(m, local), NEW T \in SUBSET m.names, Closing(m, local, T)
      PROVE  f \in T
  <2>1. roots \subseteq T
    BY <1>2 DEF Closing
  <2>2. roots \cup (T \ roots) = T /\ T \ roots \in SUBSET (m.names \ roots)
    BY <2>1
  <2>3. EndsIn(T \ roots)
    BY <1>2, <2>2 DEF Closing
  <2>4. QED
    BY <1>1, <1>2, <2>1, <2>2, <2>3
<1>3. ASSUME f \in m.names, \A T \in SUBSET m.names : Closing(m, local, T) => f \in T,
             f \notin roots, NEW S \in SUBSET (m.names \ roots), EndsIn(S)
      PROVE  f \in S
  <2>1. roots \cup S \in SUBSET m.names
    OBVIOUS
  <2>2. Closing(m, local, roots \cup S)
    BY <1>3 DEF Closing
  <2>3. QED
    BY <1>3, <2>1, <2>2
<1> HIDE DEF Ends
<1>4. f \in Reached(m, local) => f \in m.names
  BY <1>1
<1>5. QED
  BY <1>1, <1>2, <1>3, <1>4

(* f is held when every set of names that has the visible definitions of   *)
(* the program and what its members refer to has f.                        *)
Around(m, local, T) ==
  /\ (m.defs \ Runtime) \ local \subseteq T
  /\ \A e \in m.calls \cup m.uses :
       e[1] \in m.defs \ Runtime /\ e[1] \in T => e[2] \in T

LEMMA HeldForm ==
  ASSUME NEW m \in AllModules, m.defs \subseteq m.names, NEW local, NEW f
  PROVE  f \in Reached([m EXCEPT !.defs = @ \ Runtime], local) <=>
           f \in m.names /\ \A T \in SUBSET m.names : Around(m, local, T) => f \in T
<1> DEFINE program == [m EXCEPT !.defs = @ \ Runtime]
<1>1. /\ program.names = m.names /\ program.defs = m.defs \ Runtime
      /\ program.calls = m.calls /\ program.uses = m.uses
  BY DEF AllModules
<1> HIDE DEF program
<1>2. \A T : Closing(program, local, T) <=> Around(m, local, T)
  BY <1>1 DEF Closing, Around
<1>3. program.defs \subseteq program.names
  BY <1>1
<1>4. f \in Reached(program, local) <=>
        f \in m.names /\ \A T \in SUBSET m.names : Around(m, local, T) => f \in T
  BY <1>1, <1>2, <1>3, ReachedForm
<1>5. QED
  BY <1>4 DEF program

LEMMA HeldNow ==
  ASSUME TypeOK, NEW f
  PROVE  Held(f) <=>
           /\ f \in module.names
           /\ \A T \in SUBSET module.names : Around(module, attr.local, T) => f \in T
BY HeldForm DEF TypeOK, Held

LEMMA HeldThen ==
  ASSUME TypeOK', NEW f
  PROVE  Held(f)' <=>
           /\ f \in module'.names
           /\ \A T \in SUBSET module'.names : Around(module', attr'.local, T) => f \in T
<1>1. module' \in AllModules /\ module'.defs \subseteq module'.names
  BY DEF TypeOK
<1>2. QED
  BY <1>1, HeldForm DEF Held

(* What is held is needed.                                                 *)
LEMMA HeldNeeded ==
  ASSUME TypeOK, NEW f, Held(f)
  PROVE  f \in Needed
<1>1. f \in module.names /\ \A T \in SUBSET module.names : Around(module, attr.local, T) => f \in T
  BY HeldNow
<1>2. \A T : Closing(module, attr.local, T) => Around(module, attr.local, T)
  BY DEF Closing, Around
<1>3. f \in Reached(module, attr.local)
  BY <1>1, <1>2, Parts, ReachedForm
<1>4. QED
  BY <1>3 DEF Needed

(* What goes into F is what F calls and is always inlined, and so on.      *)
LEMMA BelowClosed ==
  ASSUME TypeOK, NEW f
  PROVE  /\ Below(f) \subseteq Hot
         /\ HotCallees(f) \subseteq Below(f)
         /\ \A h \in Below(f) : HotCallees(h) \subseteq Below(f)
<1>1. Below(f) \subseteq Hot /\ HotCallees(f) \subseteq Hot
  BY DEF Below, HotCallees
<1>2. HotCallees(f) \subseteq Below(f)
  BY <1>1 DEF Below
<1>3. ASSUME NEW h \in Below(f), NEW g \in HotCallees(h),
             NEW S \in SUBSET Hot, HotCallees(f) \subseteq S,
             \A s \in S : HotCallees(s) \subseteq S
      PROVE  g \in S
  BY <1>3 DEF Below
<1>4. \A h \in Below(f) : HotCallees(h) \subseteq Hot
  BY DEF HotCallees
<1>5. \A h \in Below(f) : HotCallees(h) \subseteq Below(f)
  BY <1>3, <1>4 DEF Below
<1>6. QED
  BY <1>1, <1>2, <1>5

(* Inlining keeps what is held, if it is not inlined itself: a set around  *)
(* the program after it, with what went into F when it has F, is around    *)
(* the program before it.                                                  *)
LEMMA InlineHolds ==
  ASSUME TypeOK, TypeOK', ControlInv, InlineFunctions, F \notin Runtime,
         NEW f, f \notin Hot, Held(f)
  PROVE  Held(f)'
<1>1. /\ F' = F /\ module'.names = module.names /\ module'.defs = module.defs
      /\ attr' = attr /\ F \in module.defs \ Runtime
  BY InlineEffect DEF ControlInv, InTurn, F
<1>2. ASSUME NEW T \in SUBSET module.names, Around(module', attr'.local, T)
      PROVE  f \in T
  <2> DEFINE U == T \cup (IF F \in T THEN Below(F) ELSE {})
  <2>1. U \in SUBSET module.names
    BY BelowClosed, Parts DEF Hot
  <2>2. ASSUME NEW e \in module.calls \cup module.uses,
               e[1] \in module.defs \ Runtime, e[1] \in U
        PROVE  e[2] \in U
    <3>0. e = <<e[1], e[2]>> /\ e[1] \in Value /\ e[2] \in Value
      BY Parts
    <3>1. \A d \in module'.calls \cup module'.uses :
            d[1] \in module.defs \ Runtime /\ d[1] \in T => d[2] \in T
      BY <1>1, <1>2 DEF Around
    <3>2. CASE e[1] \notin Sources
      <4>1. e[1] # F /\ e[1] \in T
        BY <2>2, <3>2 DEF Sources
      <4>2. e \in module'.calls \cup module'.uses
        BY <4>1, InlineEffect
      <4>3. QED
        BY <2>2, <3>1, <4>1, <4>2
    <3>3. CASE e[1] \in Sources /\ e[1] \in T /\ F \notin T
      <4>1. e[1] # F
        BY <3>3
      <4>2. e \in module'.calls \cup module'.uses
        BY <4>1, InlineEffect
      <4>3. QED
        BY <2>2, <3>1, <3>3, <4>2
    <3>4. CASE e[1] \in Sources /\ F \in T
      <4>1. CASE e \in module.calls /\ e[2] \in Hot
        <5>1. e[2] \in Function /\ e[2] \in module.defs
          BY <4>1, Parts DEF Hot
        <5>2. e[2] \in HotCallees(e[1])
          BY <3>0, <4>1, <5>1 DEF HotCallees, Callees
        <5>3. e[2] \in Below(F)
          BY <3>4, <5>2, BelowClosed DEF Sources
        <5>4. QED
          BY <3>4, <5>3
      <4>2. CASE e \in module.uses \/ e[2] \notin Hot
        <5>1. <<F, e[2]>> \in module'.calls \cup module'.uses
          BY <2>2, <3>4, <4>2, InlineEffect
        <5>2. <<F, e[2]>>[1] = F /\ <<F, e[2]>>[2] = e[2]
          OBVIOUS
        <5>3. e[2] \in T
          BY <1>1, <3>1, <3>4, <5>1, <5>2
        <5>4. QED
          BY <5>3
      <4>3. QED
        BY <2>2, <4>1, <4>2
    <3>5. QED
      BY <2>2, <3>2, <3>3, <3>4
  <2>3. Around(module, attr.local, U)
    <3>1. (module.defs \ Runtime) \ attr.local \subseteq T
      BY <1>1, <1>2 DEF Around
    <3>2. QED
      BY <2>2, <3>1 DEF Around
  <2>4. f \in U
    BY <2>1, <2>3, HeldNow
  <2>5. f \notin Below(F)
    BY BelowClosed
  <2>6. QED
    BY <2>4, <2>5
<1>3. f \in module.names
  BY HeldNow
<1>4. QED
  BY <1>1, <1>2, <1>3, HeldThen

(***************************************************************************)
(* The conjuncts of the invariant, step by step.                           *)
(***************************************************************************)

(* The program never changes what it was given.                            *)
LEMMA GivenKept ==
  ASSUME TypeOK, ControlInv, [Next]_vars
  PROVE  input' = input /\ cmd' = cmd
<1>1. CASE LinkRuntime \/ MarkAlwaysInline
  BY <1>1, LinkEffect, MarkEffect
<1>2. CASE InjectInitializer \/ InlineFunctions \/ SetNoInline
  BY <1>2, InjectEffect, InlineEffect, AttributesEffect
<1>3. CASE ExtractFunctions \/ OptimizeModule
  BY <1>3, ExtractEffect, ModuleEffect
<1>4. CASE \/ Start \/ LookupFunction \/ EndOfNames \/ OptimizeFunction
           \/ ReplaceInstanceRefs \/ EraseTableStores \/ WriteOutput \/ UNCHANGED vars
  BY <1>4 DEF Start, LookupFunction, EndOfNames, OptimizeFunction, ReplaceInstanceRefs,
              EraseTableStores, WriteOutput, given, vars
<1>5. QED
  BY <1>1, <1>2, <1>3, <1>4 DEF Next

LEMMA OrdinaryKept ==
  ASSUME input' = input, cmd' = cmd
  PROVE  /\ Ordinary' <=> Ordinary
         /\ \A f : Referred(f)' <=> Referred(f)
         /\ HelpersOnlyCalled' <=> HelpersOnlyCalled
         /\ OwnInstance' = OwnInstance /\ PassedOn' = PassedOn
BY DEF Ordinary, Referred, HelpersOnlyCalled, OwnInstance, PassedOn

(* The steps that leave the module and the attributes alone.               *)
Elsewhere == \/ Start \/ LookupFunction \/ EndOfNames \/ OptimizeFunction
             \/ ReplaceInstanceRefs \/ EraseTableStores \/ WriteOutput \/ UNCHANGED vars

LEMMA ElsewhereEffect ==
  ASSUME Elsewhere
  PROVE  /\ module' = module /\ attr' = attr
         /\ pc = "stop" => pc' = "stop"
         /\ pc' = "module" => pc = "module"
         /\ pc' \in BeforeCut => pc \in BeforeCut
BY DEF Elsewhere, Start, LookupFunction, EndOfNames, OptimizeFunction, ReplaceInstanceRefs,
       EraseTableStores, WriteOutput, Stop, Goto, body, vars, BeforeCut, InTurn

(* Ordinary use names no helper and nothing of the runtime.                *)
LEMMA OrdinaryNames ==
  ASSUME TypeOK, Ordinary, NEW k \in 1 .. Len(cmd.functions)
  PROVE  cmd.functions[k] \in Function \ Listed
BY Given DEF Ordinary, ProgramFunction

LEMMA GraphStep == TypeOK /\ TypeOK' /\ ControlInv /\ GraphInv /\ [Next]_vars => GraphInv'
<1>1. SUFFICES ASSUME TypeOK, TypeOK', ControlInv, GraphInv, [Next]_vars PROVE GraphInv'
  OBVIOUS
<1>2. /\ input' = input /\ cmd' = cmd /\ (Ordinary' <=> Ordinary)
      /\ \A f : Referred(f)' <=> Referred(f)
  BY <1>1, GivenKept, OrdinaryKept
<1> USE DEF GraphInv
<1>3. CASE Elsewhere
  <2>1. \A f : Held(f)' <=> Held(f)
    BY <1>3, ElsewhereEffect DEF Held
  <2>2. QED
    BY <1>1, <1>2, <1>3, <2>1, ElsewhereEffect
<1>4. CASE LinkRuntime
  <2>1. /\ module'.names = module.names \cup Runtime
        /\ module'.defs = module.defs \cup Runtime
        /\ module'.calls = {e \in module.calls : e[1] \notin Runtime}
        /\ module'.uses = {e \in module.uses : e[1] \notin Runtime}
        /\ attr'.ai = attr.ai \cup Runtime /\ attr'.local = attr.local \ Runtime
        /\ pc = "link" /\ pc' \in {"stop", "mark"}
    BY <1>1, <1>4, LinkEffect
  <2>2. \A e \in module.calls \cup module.uses : e[2] \in module.names
    BY <1>1, <2>1 DEF BeforeCut, InTurn
  <2>3. ASSUME NEW f, Held(f) PROVE Held(f)'
    <3>1. f \in module.names
          /\ \A T \in SUBSET module.names : Around(module, attr.local, T) => f \in T
      BY <1>1, <2>3, HeldNow
    <3>2. ASSUME NEW T \in SUBSET module'.names, Around(module', attr'.local, T)
          PROVE  f \in T
      <4>1. (module'.defs \ Runtime) \ attr'.local = (module.defs \ Runtime) \ attr.local
        BY <2>1
      <4>2. Around(module, attr.local, T \cap module.names)
        BY <1>1, <2>1, <2>2, <3>2, <4>1, Parts DEF Around
      <4>3. QED
        BY <3>1, <4>2
    <3>3. QED
      BY <1>1, <2>1, <3>1, <3>2, HeldThen
  <2>4. QED
    BY <1>1, <1>2, <2>1, <2>3, Constants DEF BeforeCut, InTurn
<1>5. CASE MarkAlwaysInline
  <2>1. /\ module' = module /\ attr'.local = attr.local /\ pc = "mark"
        /\ attr'.ai \subseteq attr.ai \cup Listed
    BY <1>1, <1>5, MarkEffect
  <2>2. \A f : Held(f)' <=> Held(f)
    BY <2>1 DEF Held
  <2>3. QED
    BY <1>1, <1>2, <2>1, <2>2 DEF BeforeCut, InTurn
<1>6. CASE InjectInitializer
  <2>1. CASE pc' = "stop"
    BY <1>1, <1>2, <1>6, <2>1, InjectEffect DEF BeforeCut, InTurn
  <2>2. CASE pc' # "stop"
    <3>1. /\ module'.names = module.names /\ module'.defs = module.defs
          /\ module'.calls = module.calls \cup {<<F, Instantiate>>}
          /\ module'.uses = module.uses
          /\ Instantiate \in module.names /\ F \in Function
          /\ attr' = attr /\ pc = "inject"
      BY <1>1, <1>6, <2>2, InjectEffect
    <3>2. ASSUME NEW f, Held(f) PROVE Held(f)'
      <4>1. \A T : Around(module', attr'.local, T) => Around(module, attr.local, T)
        BY <3>1 DEF Around
      <4>2. QED
        BY <1>1, <3>1, <3>2, <4>1, HeldNow, HeldThen
    <3>3. \A e \in module'.calls : e \in Function \X Value /\ (e \in module.calls \/ e[2] \in module.names)
      BY <1>1, <3>1, Constants
    <3>4. QED
      BY <1>1, <1>2, <3>1, <3>2, <3>3 DEF BeforeCut, InTurn
  <2>3. QED
    BY <2>1, <2>2
<1>7. CASE InlineFunctions
  <2>1. /\ module'.names = module.names /\ module'.defs = module.defs /\ attr' = attr
        /\ pc = "inline" /\ F \in Function /\ next' = next
    BY <1>1, <1>7, InlineEffect
  <2>2. /\ module'.calls \subseteq Function \X Value
        /\ \A e \in module'.calls : \E d \in module.calls : d[2] = e[2]
    BY <1>1, <1>7, <2>1, InlineEffect
  <2>3. \A e \in module'.uses : \E d \in module.uses : d[2] = e[2]
    BY <1>1, <1>7, <2>1, InlineEffect
  <2>4. ASSUME Ordinary, NEW k \in 1 .. Len(cmd.functions), Held(cmd.functions[k])
        PROVE  Held(cmd.functions[k])'
    <3>1. /\ cmd.functions[k] \notin Listed /\ F \notin Listed
          /\ Runtime \subseteq Listed /\ Hot \subseteq Listed
      BY <1>1, <2>1, <2>4, OrdinaryNames, Constants DEF ControlInv, InTurn, TypeOK, F, Hot
    <3>2. cmd.functions[k] \notin Hot /\ F \notin Runtime
      BY <3>1
    <3>3. ASSUME NEW f, f = cmd.functions[k] PROVE Held(f)'
      BY <1>1, <1>7, <2>4, <3>2, <3>3, InlineHolds
    <3>4. QED
      BY <1>2, <3>3 DEF Held
  <2>5. QED
    BY <1>1, <1>2, <2>1, <2>2, <2>3, <2>4 DEF BeforeCut, InTurn
<1>8. CASE SetNoInline
  <2>1. /\ module' = module /\ attr'.local = attr.local /\ pc = "attributes"
        /\ attr'.ai \subseteq attr.ai
    BY <1>1, <1>8, AttributesEffect
  <2>2. \A f : Held(f)' <=> Held(f)
    BY <2>1 DEF Held
  <2>3. QED
    BY <1>1, <1>2, <2>1, <2>2 DEF BeforeCut, InTurn
<1>9. CASE ExtractFunctions
  <2>1. CASE Extracts
    BY <1>1, <1>2, <1>9, <2>1, ExtractEffect DEF BeforeCut, InTurn
  <2>2. CASE ~ Extracts
    <3>1. module' = module /\ attr' = attr /\ pc = "extract"
      BY <1>1, <1>9, <2>2, ExtractEffect
    <3>2. \A f : Held(f)' <=> Held(f)
      BY <3>1 DEF Held
    <3>3. QED
      BY <1>1, <1>2, <3>1, <3>2 DEF BeforeCut, InTurn
  <2>3. QED
    BY <2>1, <2>2
<1>10. CASE OptimizeModule
  BY <1>1, <1>2, <1>10, ModuleEffect DEF BeforeCut, InTurn
<1>11. QED
  BY <1>1, <1>3, <1>4, <1>5, <1>6, <1>7, <1>8, <1>9, <1>10 DEF Next, Elsewhere

LEMMA TurnStep == TypeOK /\ ControlInv /\ GraphInv /\ TurnInv /\ [Next]_vars => TurnInv'
<1>1. SUFFICES ASSUME TypeOK, ControlInv, GraphInv, TurnInv, [Next]_vars, Ordinary
               PROVE  TurnInv'
  BY GivenKept, OrdinaryKept DEF TurnInv
<1>2. input' = input /\ cmd' = cmd
  BY <1>1, GivenKept
<1>3. pc \in InTurn => F \in Function \ Listed
  BY <1>1, OrdinaryNames DEF ControlInv, TypeOK, F
<1> USE DEF TurnInv, InTurn
<1>4. CASE Start \/ LookupFunction \/ EndOfNames \/ EraseTableStores \/ WriteOutput
  BY <1>4 DEF Start, LookupFunction, EndOfNames, EraseTableStores, WriteOutput, Stop, Goto
<1>5. CASE OptimizeFunction \/ ReplaceInstanceRefs \/ UNCHANGED vars
  <2>1. UNCHANGED <<module, attr, next>>
    BY <1>5 DEF OptimizeFunction, ReplaceInstanceRefs, vars
  <2>2. F' = F /\ (Cleared(F)' <=> Cleared(F))
    BY <1>2, <2>1 DEF F, Cleared
  <2>3. \/ pc = "optimize" /\ pc' \in {"references", "table"}
        \/ pc = "references" /\ pc' \in {"table", "stop"}
        \/ pc' = pc
    BY <1>5 DEF OptimizeFunction, ReplaceInstanceRefs, Stop, Goto, vars
  <2>4. QED
    BY <1>1, <2>1, <2>2, <2>3
<1>6. CASE LinkRuntime
  <2>1. F' = F
    BY <1>1, <1>2, <1>6, LinkEffect DEF F
  <2>2. QED
    BY <1>1, <1>6, <2>1, LinkEffect
<1>7. CASE MarkAlwaysInline
  <2>1. F' = F /\ module' = module /\ attr'.optnone = attr.optnone
        /\ attr'.ai = attr.ai \cup Markable /\ pc = "mark" /\ pc' \in {"inject", "inline"}
    BY <1>1, <1>2, <1>7, MarkEffect DEF F
  <2>2. Listed \cap module.names \subseteq Markable \cup Runtime
    BY <1>1, Constants DEF Markable, Ordinary
  <2>3. Listed \cap module.defs \subseteq attr'.ai
    BY <1>1, <2>1, <2>2, Parts
  <2>4. QED
    BY <1>1, <2>1, <2>3
<1>8. CASE InjectInitializer
  <2>1. F' = F /\ attr' = attr /\ pc = "inject" /\ pc' \in {"stop", "inline"}
        /\ (pc' = "inline" => module'.defs = module.defs)
    BY <1>1, <1>2, <1>8, InjectEffect DEF F
  <2>2. QED
    BY <1>1, <2>1
<1>9. CASE InlineFunctions
  <2>1. F' = F /\ attr' = attr /\ module'.defs = module.defs
        /\ pc = "inline" /\ pc' = "attributes"
    BY <1>1, <1>2, <1>9, InlineEffect DEF F
  <2>2. ASSUME NEW g \in Listed, <<F, g>> \in module'.calls
        PROVE  g \notin module.defs \cup Runtime
    <3>1. g \notin Hot
      BY <1>1, <1>9, <2>2, InlineEffect
    <3>2. QED
      BY <1>1, <2>1, <3>1 DEF Hot
  <2>3. Cleared(F)'
    BY <2>1, <2>2 DEF Cleared
  <2>4. QED
    BY <1>1, <2>1, <2>3
<1>10. CASE SetNoInline
  <2>1. F' = F /\ module' = module /\ pc = "attributes" /\ pc' = "optimize"
        /\ attr'.noinline = (attr.noinline \cup {F}) \ attr.ai
        /\ attr'.optnone = attr.optnone
    BY <1>1, <1>2, <1>10, AttributesEffect DEF F
  <2>2. F \notin attr.ai
    BY <1>1, <1>3, <2>1 DEF GraphInv
  <2>3. Cleared(F)' <=> Cleared(F)
    BY <2>1 DEF Cleared
  <2>4. QED
    BY <1>1, <2>1, <2>2, <2>3
<1>11. CASE ExtractFunctions \/ OptimizeModule
  <2>1. pc' \in {"module", "write"}
    BY <1>1, <1>11, ExtractEffect, ModuleEffect
  <2>2. QED
    BY <2>1
<1>12. QED
  BY <1>1, <1>4, <1>5, <1>6, <1>7, <1>8, <1>9, <1>10, <1>11 DEF Next

LEMMA TableStep == TypeOK /\ ControlInv /\ TableInv /\ [Next]_vars => TableInv'
<1>1. SUFFICES ASSUME TypeOK, ControlInv, TableInv, [Next]_vars, Ordinary, cmd.optimize
               PROVE  TableInv'
  BY GivenKept, OrdinaryKept DEF TableInv
<1>2. input' = input /\ cmd' = cmd
  BY <1>1, GivenKept
<1>3. pc \in InTurn => F \in Function
  BY <1>1, Given DEF ControlInv, TypeOK, F
<1>4. table \in [Function -> TableState] /\ (pc # "stop" => exit # "crash")
  BY <1>1 DEF TypeOK
<1> USE DEF TableInv, InTurn
<1>5. CASE \/ LinkRuntime \/ MarkAlwaysInline \/ InjectInitializer
           \/ ExtractFunctions \/ OptimizeModule
  <2>1. /\ pc \in {"link", "mark", "inject", "extract", "module"}
        /\ table' = table /\ next' = next /\ F' = F
    BY <1>1, <1>2, <1>5, LinkEffect, MarkEffect, InjectEffect, ExtractEffect, ModuleEffect DEF F
  <2>2. \A f \in Function : table[f] = "none"
    BY <1>1, <1>4, <2>1
  <2>3. QED
    BY <2>1, <2>2
<1>6. CASE Start \/ LookupFunction \/ EndOfNames \/ WriteOutput \/ UNCHANGED vars
  <2>1. table' = table /\ next' = next /\ F' = F
    BY <1>2, <1>6 DEF Start, LookupFunction, EndOfNames, WriteOutput, body, vars, F
  <2>2. (pc' = pc /\ exit' = exit) \/ pc \in {"start", "lookup", "write"}
    BY <1>6 DEF Start, LookupFunction, EndOfNames, WriteOutput, vars
  <2>3. QED
    BY <1>1, <1>4, <2>1, <2>2
<1>7. CASE InlineFunctions
  <2>1. F' = F /\ pc = "inline" /\ pc' = "attributes"
        /\ \A f \in Function : table'[f] = table[f] \/ (f = F /\ table'[f] = "unfolded")
    BY <1>1, <1>2, <1>7, InlineEffect DEF F
  <2>2. \A f \in Function : table[f] = "none"
    BY <1>1, <1>4, <2>1
  <2>3. QED
    BY <2>1, <2>2
<1>8. CASE SetNoInline
  <2>1. F' = F /\ pc = "attributes" /\ pc' = "optimize" /\ table' = table
    BY <1>1, <1>2, <1>8, AttributesEffect DEF F
  <2>2. QED
    BY <1>1, <1>4, <2>1
<1>9. CASE OptimizeFunction
  <2>1. F' = F /\ pc = "optimize" /\ pc' \in {"references", "table"}
    BY <1>2, <1>9 DEF OptimizeFunction, Goto, F
  <2>2. table' = [table EXCEPT ![F] = IF table[F] = "unfolded" THEN "folded" ELSE table[F]]
    BY <1>1, <1>9 DEF OptimizeFunction
  <2>3. \A f \in Function : table[f] = "none" \/ (f = F /\ table[f] = "unfolded")
    BY <1>1, <1>4, <2>1
  <2>4. \A f \in Function : table'[f] = "none" \/ (f = F /\ table'[f] = "folded")
    BY <1>3, <1>4, <2>1, <2>2, <2>3
  <2>5. QED
    BY <2>1, <2>4
<1>10. CASE ReplaceInstanceRefs
  <2>1. /\ F' = F /\ pc = "references" /\ table' = table
        /\ pc' = "table" \/ (pc' = "stop" /\ exit' = "crash")
    BY <1>2, <1>10 DEF ReplaceInstanceRefs, Stop, Goto, F
  <2>2. QED
    BY <1>1, <1>4, <2>1
<1>11. CASE EraseTableStores
  <2>1. pc = "table" /\ pc' = "lookup" /\ table' = [table EXCEPT ![F] = Cleaned(table[F])]
    BY <1>11 DEF EraseTableStores, Goto
  <2>2. table[F] \in {"none", "folded"} => Cleaned(table[F]) = "none"
    BY DEF Cleaned
  <2>3. QED
    BY <1>1, <1>3, <1>4, <2>1, <2>2
<1>12. QED
  BY <1>1, <1>5, <1>6, <1>7, <1>8, <1>9, <1>10, <1>11 DEF Next

LEMMA InstanceStep == TypeOK /\ ControlInv /\ InstanceInv /\ [Next]_vars => InstanceInv'
<1>1. SUFFICES ASSUME TypeOK, ControlInv, InstanceInv, [Next]_vars PROVE InstanceInv'
  OBVIOUS
<1>2. input' = input /\ cmd' = cmd /\ OwnInstance' = OwnInstance /\ PassedOn' = PassedOn
  BY <1>1, GivenKept, OrdinaryKept
<1>3. pc \in InTurn => F \in Function
  BY <1>1, Given DEF ControlInv, TypeOK, F
<1>4. /\ pointer \in [Function -> {"argument", "local"}]
      /\ passed \in [Function -> {"argument", "local"}]
  BY <1>1 DEF TypeOK
<1> USE DEF InstanceInv, InTurn
<1>5. CASE Start \/ LookupFunction \/ EndOfNames \/ EraseTableStores \/ WriteOutput
  <2>1. pointer' = pointer /\ passed' = passed
    BY <1>5 DEF Start, LookupFunction, EndOfNames, EraseTableStores, WriteOutput, body
  <2>2. pc' \in {"lookup", "link", "extract", "stop"}
    BY <1>5 DEF Start, LookupFunction, EndOfNames, EraseTableStores, WriteOutput, Stop, Goto
  <2>3. QED
    BY <1>1, <1>2, <2>1, <2>2
<1>6. CASE LinkRuntime \/ ExtractFunctions \/ OptimizeModule
  <2>1. pointer' = pointer /\ passed' = passed /\ pc' \in {"mark", "stop", "module", "write"}
    BY <1>1, <1>6, LinkEffect, ExtractEffect, ModuleEffect
  <2>2. QED
    BY <1>1, <1>2, <2>1
<1>7. CASE MarkAlwaysInline
  <2>1. /\ pointer' = pointer /\ passed' = passed /\ F' = F /\ pc = "mark"
        /\ pc' = IF cmd.inject THEN "inject" ELSE "inline"
    BY <1>1, <1>2, <1>7, MarkEffect DEF F
  <2>2. QED
    BY <1>1, <1>2, <1>3, <2>1 DEF OwnInstance
<1>8. CASE InjectInitializer
  <2>1. pc = "inject" /\ cmd.inject /\ F' = F /\ F \in Function
    BY <1>1, <1>2, <1>3, <1>8, InjectEffect DEF F, ControlInv
  <2>2. \/ pc' = "stop" /\ UNCHANGED <<pointer, passed>>
        \/ /\ pc' = "inline"
           /\ pointer' = [pointer EXCEPT ![F] = "local"]
           /\ passed' = [passed EXCEPT ![F] = "local"]
    BY <1>1, <1>8, InjectEffect
  <2>3. QED
    BY <1>1, <1>2, <1>4, <2>1, <2>2 DEF OwnInstance
<1>9. CASE InlineFunctions \/ SetNoInline
  <2>1. /\ pointer' = pointer /\ passed' = passed /\ F' = F
        /\ pc \in {"inline", "attributes"} /\ pc' \in {"attributes", "optimize"}
    BY <1>1, <1>2, <1>9, InlineEffect, AttributesEffect DEF F
  <2>2. QED
    BY <1>1, <1>2, <2>1
<1>10. CASE OptimizeFunction
  <2>1. /\ pointer' = pointer /\ passed' = passed /\ F' = F /\ pc = "optimize"
        /\ pc' = IF cmd.refs THEN "references" ELSE "table"
    BY <1>2, <1>10 DEF OptimizeFunction, Goto, F
  <2>2. QED
    BY <1>1, <1>2, <2>1 DEF OwnInstance, PassedOn
<1>11. CASE ReplaceInstanceRefs /\ pc' = "stop"
  <2>1. pointer' = pointer /\ passed' = passed
    BY <1>11 DEF ReplaceInstanceRefs, Goto
  <2>2. QED
    BY <1>1, <1>2, <1>11, <2>1
<1>12. CASE ReplaceInstanceRefs /\ pc' # "stop"
  <2>1. /\ pointer' = pointer /\ F' = F /\ pc = "references" /\ pc' = "table" /\ cmd.refs
        /\ passed' = [passed EXCEPT ![F] =
                        IF input.wasmName = "squanchy" THEN "argument" ELSE passed[F]]
    BY <1>1, <1>2, <1>12 DEF ReplaceInstanceRefs, Stop, Goto, F, ControlInv
  <2>2. passed'[F] = PassedOn
    BY <1>1, <1>3, <1>4, <2>1 DEF OwnInstance, PassedOn
  <2>3. QED
    BY <1>1, <1>2, <1>3, <1>4, <2>1, <2>2
<1>13. CASE UNCHANGED vars
  BY <1>1, <1>2, <1>13 DEF vars, F
<1>14. QED
  BY <1>1, <1>5, <1>6, <1>7, <1>8, <1>9, <1>10, <1>11, <1>12, <1>13 DEF Next

LEMMA AttributeStep ==
  TypeOK /\ ControlInv /\ GraphInv /\ AttributeInv /\ [Next]_vars => AttributeInv'
<1>1. SUFFICES ASSUME TypeOK, ControlInv, GraphInv, AttributeInv, [Next]_vars, Ordinary
               PROVE  AttributeInv'
  BY GivenKept, OrdinaryKept DEF AttributeInv
<1>2. input' = input /\ cmd' = cmd
  BY <1>1, GivenKept
<1>3. pc \in InTurn => F \in Function \ Listed
  BY <1>1, OrdinaryNames DEF ControlInv, TypeOK, F
<1>4. next \in Nat \ {0}
  BY <1>1 DEF TypeOK
<1> USE DEF AttributeInv, InTurn
<1>5. CASE Elsewhere
  <2>1. attr' = attr
    BY <1>5, ElsewhereEffect
  <2>2. CASE EraseTableStores
    BY <1>1, <1>2, <1>4, <2>1, <2>2 DEF EraseTableStores, Goto
  <2>3. CASE ~ EraseTableStores
    <3>1. next' = next
      BY <1>5, <2>3 DEF Elsewhere, Start, LookupFunction, EndOfNames, OptimizeFunction,
                        ReplaceInstanceRefs, WriteOutput, vars
    <3>2. pc' \in InTurn \ {"link"} => pc \in InTurn \ {"link"}
      BY <1>5, <2>3 DEF Elsewhere, Start, LookupFunction, EndOfNames, OptimizeFunction,
                        ReplaceInstanceRefs, WriteOutput, vars, Stop, Goto
    <3>3. QED
      BY <1>1, <1>2, <2>1, <3>1, <3>2
  <2>4. QED
    BY <2>2, <2>3
<1>6. CASE LinkRuntime
  <2>1. /\ attr'.noinline = attr.noinline \ Runtime
        /\ attr'.optnone = attr.optnone \ (Runtime \cup {F}) /\ pc = "link" /\ next' = next
    BY <1>1, <1>6, LinkEffect
  <2>2. Runtime \subseteq Listed
    BY Constants
  <2>3. QED
    BY <1>1, <1>2, <2>1, <2>2
<1>7. CASE MarkAlwaysInline \/ InjectInitializer \/ InlineFunctions
  <2>1. /\ attr'.noinline = attr.noinline /\ attr'.optnone = attr.optnone
        /\ pc \in InTurn \ {"link"} /\ next' = next
    BY <1>1, <1>7, MarkEffect, InjectEffect, InlineEffect
  <2>2. QED
    BY <1>1, <1>2, <2>1
<1>8. CASE SetNoInline
  <2>1. /\ attr'.noinline = (attr.noinline \cup {F}) \ attr.ai
        /\ attr'.optnone = attr.optnone /\ pc = "attributes" /\ next' = next
    BY <1>1, <1>8, AttributesEffect
  <2>2. attr.ai \subseteq Listed /\ Runtime \subseteq Listed
    BY <1>1, Constants DEF GraphInv
  <2>3. QED
    BY <1>1, <1>2, <1>3, <2>1, <2>2
<1>9. CASE ExtractFunctions \/ OptimizeModule
  <2>1. /\ attr'.noinline = attr.noinline /\ attr'.optnone = attr.optnone
        /\ pc' \in {"module", "write"} /\ next' = next
    BY <1>1, <1>9, ExtractEffect, ModuleEffect
  <2>2. QED
    BY <1>1, <1>2, <2>1
<1>10. QED
  BY <1>1, <1>5, <1>6, <1>7, <1>8, <1>9 DEF Next, Elsewhere

(* When all names are handled they are all settled.                        *)
LEMMA AllSettled ==
  ASSUME TypeOK, next = Len(cmd.functions) + 1
  PROVE  Settled = {cmd.functions[k] : k \in 1 .. Len(cmd.functions)}
<1>1. Len(cmd.functions) \in Nat /\ next - 1 = Len(cmd.functions) /\ ~ next \leq Len(cmd.functions)
  BY Given
<1>2. QED
  BY <1>1 DEF Settled, Processed

LEMMA SettledStep ==
  /\ TypeOK /\ ControlInv /\ GraphInv /\ TurnInv /\ InstanceInv /\ SettledInv /\ [Next]_vars
  => SettledInv'
<1>1. SUFFICES ASSUME TypeOK, ControlInv, GraphInv, TurnInv, InstanceInv, SettledInv,
                      [Next]_vars, Ordinary
               PROVE  SettledInv'
  BY GivenKept, OrdinaryKept DEF SettledInv
<1>2. /\ input' = input /\ cmd' = cmd /\ OwnInstance' = OwnInstance /\ PassedOn' = PassedOn
      /\ \A f : Referred(f)' <=> Referred(f)
  BY <1>1, GivenKept, OrdinaryKept
<1>3. next \in 1 .. Len(cmd.functions) + 1 /\ Len(cmd.functions) \in Nat
  BY <1>1, Given DEF TypeOK
<1>4. \A f \in Settled : f \in Function \ Listed
  <2>1. \A f \in Settled : \E k \in 1 .. Len(cmd.functions) : f = cmd.functions[k]
    BY <1>3 DEF Settled, Processed
  <2>2. QED
    BY <1>1, <2>1, OrdinaryNames
<1>5. next' = next => Settled' = Settled /\ F' = F
  BY <1>2 DEF Settled, Processed, F
<1>6. pc \in InTurn => F \notin Settled /\ F \in Function
  <2>1. SUFFICES ASSUME pc \in InTurn PROVE F \notin Settled /\ F \in Function
    OBVIOUS
  <2>2. next \leq Len(cmd.functions)
    BY <1>1, <2>1 DEF ControlInv
  <2>3. QED
    BY <1>1, <1>3, <2>2, Given DEF Settled, F
<1> USE DEF SettledInv
<1>7. CASE EraseTableStores
  <2>1. /\ module' = module /\ attr' = attr /\ pointer' = pointer /\ passed' = passed
        /\ next' = next + 1 /\ pc = "table" /\ pc \in BeforeCut
    BY <1>7 DEF EraseTableStores, BeforeCut, InTurn
  <2>2. next \leq Len(cmd.functions) /\ F \in module.defs
    BY <1>1, <2>1 DEF ControlInv, InTurn
  <2>3. \A f \in Settled' : f \in Settled \/ f = F
    BY <1>2, <1>3, <2>1, <2>2 DEF Settled, Processed, F
  <2>4. /\ F \in attr.noinline \ attr.optnone /\ Cleared(F)
        /\ pointer[F] = OwnInstance /\ passed[F] = PassedOn
    BY <1>1, <2>1 DEF TurnInv, InstanceInv, InTurn
  <2>5. \A f : Cleared(f)' <=> Cleared(f)
    BY <2>1 DEF Cleared
  <2>6. QED
    BY <1>1, <1>2, <2>1, <2>2, <2>3, <2>4, <2>5
<1>8. CASE \/ Start \/ LookupFunction \/ EndOfNames \/ OptimizeFunction
           \/ WriteOutput \/ UNCHANGED vars
  <2>1. /\ module' = module /\ attr' = attr /\ pointer' = pointer /\ passed' = passed
        /\ next' = next
    BY <1>8 DEF Start, LookupFunction, EndOfNames, OptimizeFunction, WriteOutput, body, vars
  <2>0. pc' \in BeforeCut => pc \in BeforeCut
    BY <1>8, ElsewhereEffect DEF Elsewhere
  <2>2. \A f : Cleared(f)' <=> Cleared(f)
    BY <2>1 DEF Cleared
  <2>3. QED
    BY <1>1, <1>2, <1>5, <2>0, <2>1, <2>2
<1>9. CASE ReplaceInstanceRefs
  <2>1. /\ module' = module /\ attr' = attr /\ pointer' = pointer /\ next' = next
        /\ pc = "references" /\ pc \in BeforeCut
        /\ \/ passed' = passed
           \/ passed' = [passed EXCEPT ![F] =
                           IF input.wasmName = "squanchy" THEN "argument" ELSE passed[F]]
    BY <1>9 DEF ReplaceInstanceRefs, BeforeCut, InTurn
  <2>2. \A f \in Settled : passed'[f] = passed[f]
    BY <1>1, <1>4, <1>6, <2>1 DEF InTurn, TypeOK
  <2>3. \A f : Cleared(f)' <=> Cleared(f)
    BY <2>1 DEF Cleared
  <2>4. QED
    BY <1>1, <1>2, <1>5, <2>1, <2>2, <2>3
<1>10. CASE LinkRuntime
  <2>1. /\ module'.defs = module.defs \cup Runtime
        /\ module'.calls \subseteq module.calls
        /\ attr'.noinline = attr.noinline \ Runtime
        /\ attr'.optnone = attr.optnone \ (Runtime \cup {F})
        /\ pointer' = pointer /\ passed' = passed /\ next' = next /\ pc \in BeforeCut
    BY <1>1, <1>10, LinkEffect DEF BeforeCut, InTurn
  <2>2. \A f : Cleared(f) => Cleared(f)'
    BY <2>1 DEF Cleared
  <2>3. Runtime \subseteq Listed
    BY Constants
  <2>4. QED
    BY <1>1, <1>2, <1>4, <1>5, <2>1, <2>2, <2>3
<1>11. CASE MarkAlwaysInline \/ SetNoInline
  <2>1. /\ module' = module /\ attr'.optnone = attr.optnone
        /\ attr.noinline \ attr.ai \subseteq attr'.noinline
        /\ pointer' = pointer /\ passed' = passed /\ next' = next /\ pc \in BeforeCut
    BY <1>1, <1>11, MarkEffect, AttributesEffect DEF BeforeCut, InTurn
  <2>2. \A f : Cleared(f)' <=> Cleared(f)
    BY <2>1 DEF Cleared
  <2>3. attr.ai \subseteq Listed
    BY <1>1 DEF GraphInv
  <2>4. QED
    BY <1>1, <1>2, <1>4, <1>5, <2>1, <2>2, <2>3
<1>12. CASE InjectInitializer
  <2>1. /\ pc = "inject" /\ pc \in BeforeCut /\ attr' = attr /\ next' = next
        /\ \/ UNCHANGED <<module, pointer, passed>>
           \/ /\ module'.defs = module.defs
              /\ module'.calls = module.calls \cup {<<F, Instantiate>>}
              /\ pointer' = [pointer EXCEPT ![F] = "local"]
              /\ passed' = [passed EXCEPT ![F] = "local"]
    BY <1>1, <1>12, InjectEffect DEF BeforeCut, InTurn
  <2>2. F \notin Settled
    BY <1>6, <2>1 DEF InTurn
  <2>3. CASE UNCHANGED <<module, pointer, passed>>
    BY <1>1, <1>2, <1>5, <2>1, <2>3 DEF Cleared
  <2>4. CASE /\ module'.defs = module.defs
             /\ module'.calls = module.calls \cup {<<F, Instantiate>>}
             /\ pointer' = [pointer EXCEPT ![F] = "local"]
             /\ passed' = [passed EXCEPT ![F] = "local"]
    <3>1. ASSUME NEW f \in Settled PROVE Cleared(f)'
      <4>1. f # F /\ Cleared(f)
        BY <1>1, <2>2, <3>1
      <4>2. \A g : <<f, g>> \in module'.calls => <<f, g>> \in module.calls
        BY <2>4, <4>1
      <4>3. QED
        BY <2>4, <4>1, <4>2 DEF Cleared
    <3>2. \A f \in Settled : pointer'[f] = pointer[f] /\ passed'[f] = passed[f]
      BY <1>1, <1>4, <2>2, <2>4 DEF TypeOK
    <3>3. QED
      BY <1>1, <1>2, <1>5, <2>1, <2>4, <3>1, <3>2
  <2>5. QED
    BY <2>1, <2>3, <2>4
<1>13. CASE InlineFunctions
  <2>1. /\ pc = "inline" /\ pc \in BeforeCut /\ attr' = attr /\ next' = next /\ pointer' = pointer
        /\ passed' = passed /\ module'.defs = module.defs
        /\ \A e \in module'.calls : (e \in module.calls /\ e[1] # F) \/ e[1] = F
    BY <1>1, <1>13, InlineEffect DEF BeforeCut, InTurn
  <2>2. ASSUME NEW f \in Settled PROVE Cleared(f)'
    <3>1. f # F /\ Cleared(f)
      BY <1>1, <1>6, <2>1, <2>2 DEF InTurn
    <3>2. ASSUME NEW g, <<f, g>> \in module'.calls PROVE <<f, g>> \in module.calls
      BY <2>1, <3>1, <3>2
    <3>3. QED
      BY <2>1, <3>1, <3>2 DEF Cleared
  <2>3. QED
    BY <1>1, <1>2, <1>5, <2>1, <2>2
<1>14. CASE ExtractFunctions
  <2>1. CASE ~ Extracts
    BY <1>1, <1>2, <1>5, <1>14, <2>1, ExtractEffect DEF Cleared, BeforeCut, InTurn
  <2>2. CASE Extracts
    <3>1. /\ pc = "extract" /\ pc \in BeforeCut /\ attr'.noinline = attr.noinline /\ attr'.optnone = attr.optnone
          /\ next' = next /\ pointer' = pointer /\ passed' = passed
          /\ module'.calls = module.calls
          /\ module'.defs = module.defs \cap Wanted(module, Request)
      BY <1>1, <1>14, <2>2, ExtractEffect DEF BeforeCut
    <3>2. \A f : Cleared(f) => Cleared(f)'
      BY <3>1 DEF Cleared
    <3>3. Settled \subseteq Request.functions
      BY <1>1, <3>1, AllSettled, WantedHere DEF ControlInv
    <3>4. module.defs \subseteq module.names
      BY <1>1, Parts
    <3>5. \A f \in Settled : f \in module.defs => f \in module'.defs
      BY <3>1, <3>3, <3>4, WantedHere
    <3>6. QED
      BY <1>1, <1>2, <1>5, <3>1, <3>2, <3>5
  <2>3. QED
    BY <2>1, <2>2
<1>15. CASE OptimizeModule
  <2>1. /\ pc = "module" /\ pc' \notin BeforeCut /\ attr' = attr /\ next' = next /\ pointer' = pointer
        /\ passed' = passed /\ module'.calls = module.calls
        /\ module'.defs \subseteq module.defs
        /\ module.defs \cap Needed \subseteq module'.defs
    BY <1>1, <1>15, ModuleEffect DEF BeforeCut, InTurn
  <2>2. \A f : Cleared(f) => Cleared(f)'
    BY <2>1 DEF Cleared
  <2>3. ASSUME NEW f \in Settled, Referred(f) PROVE f \in Needed
    <3>1. CASE attr.local = {}
      <4>1. f \in module.defs \ attr.local
        BY <1>1, <2>3, <3>1
      <4>2. QED
        BY <4>1 DEF Needed, Reached
    <3>2. CASE attr.local # {}
      <4>1. PICK k \in 1 .. Len(cmd.functions) : f = cmd.functions[k]
        BY <1>3 DEF Settled, Processed
      <4>2. Held(f)
        BY <1>1, <2>1, <2>3, <3>2, <4>1 DEF GraphInv
      <4>3. QED
        BY <1>1, <4>2, HeldNeeded
    <3>3. QED
      BY <3>1, <3>2
  <2>4. QED
    BY <1>1, <1>2, <1>5, <2>1, <2>2, <2>3
<1>16. QED
  BY <1>1, <1>7, <1>8, <1>9, <1>10, <1>11, <1>12, <1>13, <1>14, <1>15 DEF Next

(* While names are handled every settled name is one of the symbol table.  *)
LEMMA SettledNamed ==
  ASSUME TypeOK, SettledInv, Ordinary, pc \in BeforeCut
  PROVE  Settled \subseteq module.names
BY Parts DEF SettledInv

LEMMA CutStep ==
  /\ TypeOK /\ ControlInv /\ GraphInv /\ SettledInv /\ CutInv /\ [Next]_vars
  => CutInv'
<1>1. SUFFICES ASSUME TypeOK, ControlInv, GraphInv, SettledInv, CutInv, [Next]_vars, Ordinary
               PROVE  CutInv'
  BY GivenKept, OrdinaryKept DEF CutInv
<1>2. /\ input' = input /\ cmd' = cmd
      /\ \A f : Referred(f)' <=> Referred(f)
      /\ HelpersOnlyCalled' <=> HelpersOnlyCalled
  BY <1>1, GivenKept, OrdinaryKept
<1> DEFINE Hypothesis ==
             /\ HelpersOnlyCalled /\ cmd.extract /\ ~ cmd.recursive
             /\ DataSegments \cap input.module.names # {}
           Gone(m) == m.names \cap (Listed \ Runtime) \cap input.module.defs = {}
<1>3. SUFFICES
        /\ (pc' \in {"module", "write"} \/ output' # <<>>) /\ Hypothesis => Gone(module')
        /\ output' # <<>> => \A f \in Settled' : Referred(f) => f \in output'[1]
  BY <1>2 DEF CutInv
<1> USE DEF CutInv
<1>4. CASE WriteOutput
  <2>1. /\ pc = "write" /\ module' = module /\ next' = next
        /\ output' \in {<<module.defs \cap Function>>, <<>>}
    BY <1>4 DEF WriteOutput
  <2>2. Settled' = Settled
    BY <1>2, <2>1 DEF Settled, Processed, F
  <2>3. \A f \in Settled : f \in Function
    <3>1. next = Len(cmd.functions) + 1
      BY <1>1, <2>1 DEF ControlInv
    <3>2. QED
      BY <1>1, <3>1, AllSettled, Given
  <2>4. \A f \in Settled : Referred(f) => f \in module.defs
    BY <1>1 DEF SettledInv
  <2>5. QED
    BY <1>1, <2>1, <2>2, <2>3, <2>4
<1>5. CASE ExtractFunctions
  <2>1. pc = "extract" /\ next = Len(cmd.functions) + 1 /\ output' = <<>>
    BY <1>1, <1>5, ExtractEffect DEF ControlInv
  <2>2. Settled = Request.functions /\ Request.functions \subseteq module.names
    BY <1>1, <2>1, AllSettled, WantedHere, SettledNamed DEF BeforeCut
  <2>3. /\ input.module.names \subseteq module.names
        /\ input.module.defs \subseteq module.defs
    BY <1>1, <2>1 DEF GraphInv, BeforeCut
  <2>4. ASSUME Hypothesis PROVE Gone(module')
    <3>1. Extracts
      <4>1. /\ Request.aliases = {} /\ Request.raliases = {} /\ Request.globals = {}
            /\ Request.rglobals = {DataSegments} /\ Request.rfunctions = {}
            /\ Request.blocks = {}
        BY DEF Request
      <4>2. DataSegments \cap module.names # {}
        BY <2>3, <2>4
      <4>3. QED
        BY <2>2, <2>4, <4>1, <4>2 DEF Extracts, Resolves, AllPresent, AllMatch
    <3>2. /\ module'.defs = module.defs \cap Wanted(module, Request)
          /\ module'.names =
               {v \in module.names :
                  \/ v \in module'.defs
                  \/ \E d \in module'.defs : <<d, v>> \in module.calls \cup module.uses}
      BY <1>1, <1>5, <3>1, ExtractEffect
    <3>3. module'.defs \subseteq Request.functions \cup DataSegments
      BY <2>4, <3>2, WantedHere
    <3>4. ASSUME NEW g \in Listed \ Runtime, g \in input.module.defs, g \in module'.names
          PROVE  FALSE
      <4>1. g \in module.defs /\ g \in Function
        BY <2>3, <3>4, Constants
      <4>2. \A k \in 1 .. Len(cmd.functions) : cmd.functions[k] \notin Listed
        BY <1>1, OrdinaryNames
      <4>3. g \notin Request.functions
        BY <3>4, <4>2, WantedHere
      <4>4. g \notin DataSegments
        BY <4>1, Constants
      <4>5. PICK d \in module'.defs : <<d, g>> \in module.calls \cup module.uses
        BY <3>2, <3>3, <3>4, <4>3, <4>4
      <4>6. CASE <<d, g>> \in module.calls
        <5>1. d \in Function
          BY <1>1, <4>6 DEF GraphInv
        <5>2. d \in Settled
          BY <2>2, <3>3, <5>1, Constants
        <5>3. Cleared(d)
          BY <1>1, <5>2 DEF SettledInv
        <5>4. QED
          BY <3>4, <4>1, <4>6, <5>3 DEF Cleared
      <4>7. CASE <<d, g>> \in module.uses
        <5>1. \E e \in input.module.uses : e[2] = <<d, g>>[2]
          BY <1>1, <4>7 DEF GraphInv
        <5>2. \E e \in input.module.uses : e[2] = g
          BY <5>1
        <5>3. QED
          BY <2>4, <3>4, <5>2 DEF HelpersOnlyCalled
      <4>8. QED
        BY <4>5, <4>6, <4>7
    <3>5. QED
      BY <3>4
  <2>5. QED
    BY <2>1, <2>4
<1>6. CASE OptimizeModule
  BY <1>1, <1>6, ModuleEffect DEF ControlInv
<1>7. CASE UNCHANGED vars
  <2>1. Settled' = Settled
    BY <1>7 DEF vars, Settled, Processed, F
  <2>2. QED
    BY <1>1, <1>7, <2>1 DEF vars
<1>8. CASE \/ LinkRuntime \/ MarkAlwaysInline \/ InjectInitializer \/ InlineFunctions
           \/ SetNoInline
  <2>1. pc' \notin {"module", "write"} /\ output' = output /\ pc # "stop"
    BY <1>1, <1>8, LinkEffect, MarkEffect, InjectEffect, InlineEffect, AttributesEffect
  <2>2. QED
    BY <1>1, <2>1 DEF ControlInv
<1>9. CASE \/ Start \/ LookupFunction \/ EndOfNames \/ OptimizeFunction
           \/ ReplaceInstanceRefs \/ EraseTableStores
  <2>1. pc' \notin {"module", "write"} /\ output' = output /\ pc # "stop"
    BY <1>9 DEF Start, LookupFunction, EndOfNames, OptimizeFunction, ReplaceInstanceRefs,
                EraseTableStores, Stop, Goto
  <2>2. QED
    BY <1>1, <2>1 DEF ControlInv
<1>10. QED
  BY <1>1, <1>4, <1>5, <1>6, <1>7, <1>8, <1>9 DEF Next

LEMMA FailsStep ==
  TypeOK /\ ControlInv /\ GraphInv /\ FailsOnlyOnNames /\ [Next]_vars => FailsOnlyOnNames'
<1>1. SUFFICES ASSUME TypeOK, ControlInv, GraphInv, FailsOnlyOnNames, [Next]_vars, Ordinary,
                      OptionsFit
               PROVE  /\ exit' \notin {"abort", "crash"}
                      /\ exit' = "failure" =>
                           \E k \in 1 .. Len(cmd.functions) :
                             cmd.functions[k] \notin input.module.defs
  BY GivenKept, OrdinaryKept DEF FailsOnlyOnNames, OptionsFit, TakeInstance
<1>2. CASE exit' = exit
  BY <1>1, <1>2 DEF FailsOnlyOnNames
<1>3. CASE LookupFunction
  <2>1. CASE F \in module.defs
    BY <1>2, <1>3, <2>1 DEF LookupFunction, Goto
  <2>2. CASE F \notin module.defs
    <3>1. exit' = "failure" /\ pc = "lookup" /\ next \leq Len(cmd.functions)
      BY <1>3, <2>2 DEF LookupFunction, Stop
    <3>2. F \notin input.module.defs
      BY <1>1, <2>2, <3>1 DEF GraphInv, BeforeCut
    <3>3. next \in 1 .. Len(cmd.functions)
      BY <1>1, <3>1, Given DEF TypeOK
    <3>4. QED
      BY <3>1, <3>2, <3>3 DEF F
  <2>3. QED
    BY <2>1, <2>2
<1>4. CASE LinkRuntime
  <2>1. F \notin Runtime
    <3>1. pc = "link"
      BY <1>1, <1>4, LinkEffect
    <3>2. next \in 1 .. Len(cmd.functions)
      BY <1>1, <3>1, Given DEF TypeOK, ControlInv, InTurn
    <3>3. QED
      BY <1>1, <3>2, OrdinaryNames, Constants DEF F
  <2>2. QED
    BY <1>1, <1>2, <1>4, <2>1, LinkEffect
<1>5. CASE InjectInitializer
  <2>1. cmd.moduleName = input.wasmName /\ pc = "inject"
    BY <1>1, <1>5, InjectEffect DEF Ordinary
  <2>2. InitializerFound
    BY <1>1, <2>1 DEF GraphInv, BeforeCut, InTurn, ControlInv, OptionsFit, InitializerFound
  <2>3. FitsInitializer(F)
    <3>1. next \in 1 .. Len(cmd.functions)
      BY <1>1, <2>1, Given DEF TypeOK, ControlInv, InTurn
    <3>2. QED
      BY <1>1, <2>1, <3>1 DEF ControlInv, OptionsFit, TakeInstance, FitsInitializer, F
  <2>4. QED
    BY <1>1, <1>2, <1>5, <2>1, <2>2, <2>3, InjectEffect
<1>6. CASE Start \/ WriteOutput
  BY <1>2, <1>6 DEF Start, WriteOutput, Stop, Goto
<1>7. CASE MarkAlwaysInline \/ InlineFunctions \/ SetNoInline \/ ExtractFunctions \/ OptimizeModule
  BY <1>1, <1>2, <1>7, MarkEffect, InlineEffect, AttributesEffect, ExtractEffect, ModuleEffect
<1>10. CASE ReplaceInstanceRefs
  <2>1. pc = "references" /\ cmd.refs
    BY <1>1, <1>10 DEF ReplaceInstanceRefs, ControlInv
  <2>2. next \in 1 .. Len(cmd.functions)
    BY <1>1, <2>1, Given DEF TypeOK, ControlInv, InTurn
  <2>3. input.first[F] = "pointer"
    BY <1>1, <2>1, <2>2 DEF OptionsFit, TakeInstance, F
  <2>4. QED
    BY <1>2, <1>10, <2>3 DEF ReplaceInstanceRefs, Goto
<1>8. CASE EndOfNames \/ OptimizeFunction \/ EraseTableStores \/ UNCHANGED vars
  BY <1>2, <1>8 DEF EndOfNames, OptimizeFunction, EraseTableStores, Goto, vars
<1>9. QED
  BY <1>1, <1>3, <1>4, <1>5, <1>6, <1>7, <1>8, <1>10 DEF Next

(***************************************************************************)
(* The invariant.                                                          *)
(***************************************************************************)
LEMMA DriverInit == Init => DriverInv
<1>1. SUFFICES ASSUME Init PROVE DriverInv
  OBVIOUS
<1>2. TypeOK /\ next = 1 /\ pc = "start" /\ exit = "running" /\ output = <<>>
  BY <1>1, TypeInit DEF Init
<1>3. /\ module = input.module
      /\ attr.noinline = input.noinline /\ attr.optnone = input.optnone
      /\ attr.ai = {} /\ attr.local = input.local
  BY <1>1 DEF Init
<1>4. /\ WellFormed(input.module) /\ input.noinline \subseteq input.module.defs
      /\ input.optnone \subseteq input.noinline
  BY <1>2, Given
<1>5. Settled = {}
  BY <1>2 DEF Settled, Processed
<1>6. ControlInv
  BY <1>2 DEF ControlInv, InTurn
<1>7. GraphInv
  <2>1. \A f : Held(f) <=> Referred(f)
    BY <1>3 DEF Held, Referred
  <2>2. \A e \in module.calls \cup module.uses : e[2] \in module.names
    BY <1>3, <1>4 DEF WellFormed
  <2>3. module.calls \subseteq Function \X Value
    BY <1>2, <1>3, <1>4, Parts DEF WellFormed
  <2>4. QED
    BY <1>3, <2>1, <2>2, <2>3 DEF GraphInv
<1>8. TurnInv /\ TableInv /\ InstanceInv
  BY <1>1, <1>2 DEF TurnInv, TableInv, InstanceInv, InTurn, Init
<1>9. AttributeInv
  BY <1>2, <1>3, <1>4 DEF AttributeInv, InTurn
<1>10. CutInv /\ SettledInv /\ FailsOnlyOnNames
  BY <1>2, <1>5 DEF CutInv, SettledInv, FailsOnlyOnNames
<1>11. QED
  BY <1>2, <1>6, <1>7, <1>8, <1>9, <1>10 DEF DriverInv

LEMMA DriverStep == DriverInv /\ [Next]_vars => DriverInv'
BY TypeStep, ControlStep, GraphStep, TurnStep, TableStep, InstanceStep, AttributeStep,
   CutStep, SettledStep, FailsStep DEF DriverInv

(* Every state the program can be in has the invariant.                    *)
THEOREM DriverInvariant == Spec => []DriverInv
BY DriverInit, DriverStep, PTL DEF Spec

(* A name that was handled stays as it was left, whatever is done for the  *)
(* names after it and to the module.                                       *)
THEOREM Deobfuscated == Spec => []StaysDeobfuscated
<1>1. DriverInv => StaysDeobfuscated
  <2>1. SUFFICES ASSUME DriverInv, Ordinary, NEW f \in Settled
                 PROVE  /\ Referred(f) => f \in module.defs
                        /\ f \in attr.noinline \ attr.optnone
                        /\ Callees(module, f) \cap Listed = {}
                        /\ cmd.optimize => table[f] = "none"
    BY DEF StaysDeobfuscated
  <2>2. TypeOK /\ ControlInv /\ TableInv /\ SettledInv
    BY <2>1 DEF DriverInv
  <2>3. Callees(module, f) \cap Listed = {}
    BY <2>1, <2>2 DEF SettledInv, Cleared, Callees
  <2>4. f \in Function /\ (pc \in InTurn \/ exit = "crash" => f # F)
    <3>1. next \in Nat /\ \A k \in 1 .. next - 1 : k \in 1 .. Len(cmd.functions)
      BY <2>2, Given DEF TypeOK
    <3>2. \A k \in 1 .. Len(cmd.functions) : cmd.functions[k] \in Function
      BY <2>2, Given
    <3>3. QED
      BY <2>1, <2>2, <3>1, <3>2 DEF ControlInv, Settled, Processed
  <2>5. cmd.optimize => table[f] = "none"
    BY <2>1, <2>2, <2>4 DEF TableInv, InTurn
  <2>6. QED
    BY <2>1, <2>2, <2>3, <2>5 DEF SettledInv
<1>2. QED
  BY <1>1, DriverInvariant, PTL

(* Which instance a processed function accesses and which it passes on.    *)
THEOREM ProcessedInstance == Spec => []InstanceOfProcessed
<1>1. DriverInv => InstanceOfProcessed
  BY DEF DriverInv, SettledInv, InstanceOfProcessed, OwnInstance, PassedOn
<1>2. QED
  BY <1>1, DriverInvariant, PTL

(* What is written has all that was asked for, with attributes that agree. *)
THEOREM RightOutput == Spec => []OutputIsRight
<1>1. SUFFICES ASSUME DriverInv PROVE OutputIsRight
  BY DriverInvariant, PTL
<1>2. TypeOK /\ ControlInv /\ GraphInv /\ AttributeInv /\ CutInv
  BY <1>1 DEF DriverInv
<1>3. WrittenAttributesAgree
  <2>1. SUFFICES ASSUME Ordinary, HelpersOnlyCalled, output # <<>>, cmd.extract,
                        ~ cmd.recursive, DataSegments \cap input.module.names # {},
                        NEW f \in module.names \cap Function
                 PROVE  /\ f \in attr.optnone => f \in attr.noinline
                        /\ f \in attr.ai => f \notin attr.noinline \cup attr.optnone
    BY DEF WrittenAttributesAgree
  <2>2. CASE f \notin Listed
    BY <1>2, <2>1, <2>2 DEF AttributeInv, GraphInv
  <2>3. CASE f \in Runtime
    <3>1. next > 1
      BY <1>2, <2>1, Given DEF ControlInv
    <3>2. QED
      BY <1>2, <2>1, <2>3, <3>1 DEF AttributeInv
  <2>4. CASE f \in Listed \ Runtime
    <3>1. f \notin input.module.defs
      BY <1>2, <2>1, <2>4 DEF CutInv
    <3>2. QED
      BY <1>2, <2>1, <2>4, <3>1 DEF AttributeInv
  <2>5. QED
    BY <2>2, <2>3, <2>4
<1>4. OutputHasRequested
  <2>1. SUFFICES ASSUME Ordinary, output # <<>>
                 PROVE  /\ Processed = Request.functions
                        /\ \A f \in Request.functions : Referred(f) => f \in output[1]
    BY DEF OutputHasRequested
  <2>2. next = Len(cmd.functions) + 1 /\ Len(cmd.functions) \in Nat
    BY <1>2, <2>1, Given DEF ControlInv
  <2>3. Settled = Request.functions /\ Processed = Settled
    BY <1>2, <2>2, AllSettled, WantedHere DEF Settled
  <2>4. QED
    BY <1>2, <2>1, <2>3 DEF CutInv
<1>5. QED
  BY <1>2, <1>3, <1>4 DEF OutputIsRight

(* Only a name without a definition makes the intended use fail.           *)
THEOREM FailsOnNames == Spec => []FailsOnlyOnNames
<1>1. DriverInv => FailsOnlyOnNames
  BY DEF DriverInv
<1>2. QED
  BY <1>1, DriverInvariant, PTL
(***************************************************************************)
(* The driver's step InlineFunctions and the loop of Inliner.  The driver  *)
(* knows which functions call which, the loop the call instructions.  The  *)
(* graph of the inliner, with the function being handled as its root:      *)
(***************************************************************************)
Graph(Site, Owner) == INSTANCE CallGraph WITH Func <- Value, Root <- F, Programs <- {}

(* The call instructions S, the functions they are in and what they call   *)
(* are those of the module, several for one pair of functions or one.      *)
Pictures(S, owner, prog) ==
  /\ owner \in [S -> Value]
  /\ prog.target \in [S -> Value \cup {"indirect", "asm"}]
  /\ module.calls = {<<owner[s], prog.target[s]>> : s \in {t \in S : prog.target[t] \in Value}}
  /\ prog.ai = attr.ai /\ prog.defined = module.defs

NoFunction == {"indirect", "asm"} \cap Value = {}

LEMMA PicturedEdges ==
  ASSUME TypeOK, NoFunction, NEW S, NEW owner, NEW prog, Pictures(S, owner, prog)
  PROVE  /\ \A s \in S : /\ Graph(S, owner)!Hot(prog, s) <=> prog.target[s] \in Hot
                         /\ prog.target[s] \in Value =>
                              /\ <<owner[s], prog.target[s]>> \in module.calls
                              /\ Graph(S, owner)!Hot(prog, s) =>
                                   prog.target[s] \in HotCallees(owner[s])
         /\ \A f \in Value : \A g \in Value : <<f, g>> \in module.calls =>
              \E s \in S : owner[s] = f /\ prog.target[s] = g
         /\ \A f : \A g \in HotCallees(f) :
              \E s \in S : owner[s] = f /\ prog.target[s] = g /\ Graph(S, owner)!Hot(prog, s)
         /\ Hot \subseteq Value
<1>1. Hot \subseteq Function /\ Function \subseteq Value
  BY Parts, Constants DEF Hot
<1>2. ASSUME NEW s \in S
      PROVE  Graph(S, owner)!Hot(prog, s) <=> prog.target[s] \in Hot
  BY DEF Graph!Hot, Pictures, Hot
<1>3. ASSUME NEW s \in S, prog.target[s] \in Value
      PROVE  <<owner[s], prog.target[s]>> \in module.calls
  BY <1>3 DEF Pictures
<1>4. ASSUME NEW s \in S, Graph(S, owner)!Hot(prog, s)
      PROVE  prog.target[s] \in HotCallees(owner[s])
  <2>1. prog.target[s] \in Hot
    BY <1>2, <1>4
  <2>2. <<owner[s], prog.target[s]>> \in module.calls
    BY <1>1, <1>3, <2>1
  <2>3. QED
    BY <1>1, <2>1, <2>2 DEF HotCallees, Callees, Hot
<1>5. ASSUME NEW f, NEW g, <<f, g>> \in module.calls
      PROVE  \E s \in S : owner[s] = f /\ prog.target[s] = g
  BY <1>5 DEF Pictures
<1>6. ASSUME NEW f, NEW g \in HotCallees(f)
      PROVE  \E s \in S : owner[s] = f /\ prog.target[s] = g /\ Graph(S, owner)!Hot(prog, s)
  <2>1. <<f, g>> \in module.calls /\ g \in Hot
    BY <1>6 DEF HotCallees, Callees
  <2>2. QED
    BY <1>2, <1>5, <2>1
<1>7. QED
  BY <1>1, <1>2, <1>3, <1>4, <1>5, <1>6

(* What the loop reaches is what the driver inlines, and F.                *)
LEMMA SourcesReached ==
  ASSUME TypeOK, NoFunction, F \in Value, NEW S, NEW owner, NEW prog, Pictures(S, owner, prog)
  PROVE  Graph(S, owner)!Reached(prog) = Sources
<1> DEFINE KeptBy(T) ==
             /\ F \in T
             /\ \A s \in S : owner[s] \in T /\ Graph(S, owner)!Hot(prog, s) => prog.target[s] \in T
<1>1. Graph(S, owner)!Reached(prog) = {g \in Value : \A T \in SUBSET Value : KeptBy(T) => g \in T}
  BY DEF Graph!Reached
<1>2. Below(F) \subseteq Hot /\ Hot \subseteq Value
  BY BelowClosed, PicturedEdges
<1>3. ASSUME NEW g \in Graph(S, owner)!Reached(prog)
      PROVE  g \in Sources
  <2>1. Sources \in SUBSET Value
    BY <1>2 DEF Sources
  <2>2. KeptBy(Sources)
    <3>1. ASSUME NEW s \in S, owner[s] \in Sources, Graph(S, owner)!Hot(prog, s)
          PROVE  prog.target[s] \in Sources
      <4>1. prog.target[s] \in HotCallees(owner[s])
        <5>1. prog.target[s] \in Value
          BY <1>2, <3>1, PicturedEdges
        <5>2. QED
          BY <3>1, <5>1, PicturedEdges
      <4>2. QED
        BY <3>1, <4>1, BelowClosed DEF Sources
    <3>2. QED
      BY <3>1 DEF Sources
  <2>3. QED
    BY <1>1, <2>1, <2>2
<1>4. ASSUME NEW g \in Sources
      PROVE  g \in Graph(S, owner)!Reached(prog)
  <2>1. g \in Value
    BY <1>2 DEF Sources
  <2>2. ASSUME NEW T \in SUBSET Value, KeptBy(T)
        PROVE  g \in T
    <3> DEFINE U == T \cap Hot
    <3>1. ASSUME NEW f \in T PROVE HotCallees(f) \subseteq U
      <4>1. ASSUME NEW h \in HotCallees(f) PROVE h \in U
        <5>1. PICK s \in S : owner[s] = f /\ prog.target[s] = h /\ Graph(S, owner)!Hot(prog, s)
          BY <4>1, PicturedEdges
        <5>2. h \in Hot
          BY <4>1 DEF HotCallees
        <5>3. QED
          BY <2>2, <3>1, <5>1, <5>2
      <4>2. QED
        BY <4>1
    <3>2. U \in SUBSET Hot /\ HotCallees(F) \subseteq U /\ \A f \in U : HotCallees(f) \subseteq U
      BY <2>2, <3>1
    <3> HIDE DEF U
    <3>3. Below(F) \subseteq U
      BY <3>2 DEF Below
    <3>4. QED
      BY <2>2, <3>3 DEF Sources, U
  <2>3. QED
    BY <1>1, <2>1, <2>2
<1>5. QED
  BY <1>3, <1>4

(* What the functions of the module call after the step: of F what the     *)
(* call instructions left by the loop call, of any other what it did.      *)
LEMMA InlinedCalls ==
  ASSUME TypeOK, ControlInv, NoFunction, NEW S, NEW owner, NEW prog,
         Pictures(S, owner, prog), InlineFunctions
  PROVE  /\ {e[2] : e \in {d \in module'.calls : d[1] = F}}
              = Graph(S, owner)!CalleesLeft(prog) \ {"indirect"}
         /\ {d \in module'.calls : d[1] # F} = {d \in module.calls : d[1] # F}
<1>1. F \in Value /\ Sources \subseteq Value /\ Hot \subseteq Value
  BY InlineEffect, Constants, BelowClosed, PicturedEdges DEF Sources
<1>2. /\ \A e \in module'.calls :
           \/ e \in module.calls /\ e[1] # F
           \/ \E d \in module.calls :
                d[1] \in Sources /\ d[2] \in Value \ Hot /\ e = <<F, d[2]>>
      /\ \A d \in module.calls :
           /\ d[1] # F => d \in module'.calls
           /\ d[1] \in Sources /\ d[2] \notin Hot => <<F, d[2]>> \in module'.calls
  BY InlineEffect
<1>3. Graph(S, owner)!CalleesLeft(prog)
        = {prog.target[s] : s \in {t \in S : owner[t] \in Sources /\ prog.target[t] \notin Hot}}
            \ {"asm"}
  <2>1. \A t \in S :
          /\ owner[t] \in Graph(S, owner)!Reached(prog) <=> owner[t] \in Sources
          /\ Graph(S, owner)!Hot(prog, t) <=> prog.target[t] \in Hot
    BY <1>1, SourcesReached, PicturedEdges
  <2>2. {t \in S : owner[t] \in Graph(S, owner)!Reached(prog) /\ ~ Graph(S, owner)!Hot(prog, t)}
          = {t \in S : owner[t] \in Sources /\ prog.target[t] \notin Hot}
    BY <2>1
  <2>3. QED
    BY <2>2 DEF Graph!CalleesLeft
<1>4. ASSUME NEW e \in module'.calls, e[1] = F
      PROVE  e[2] \in Graph(S, owner)!CalleesLeft(prog) \ {"indirect"}
  <2>1. PICK d \in module.calls : d[1] \in Sources /\ d[2] \in Value \ Hot /\ e = <<F, d[2]>>
    BY <1>2, <1>4
  <2>2. d = <<d[1], d[2]>>
    BY Parts
  <2>3. PICK s \in S : owner[s] = d[1] /\ prog.target[s] = d[2]
    BY <1>1, <2>1, <2>2, PicturedEdges
  <2>4. d[2] # "asm" /\ d[2] # "indirect"
    BY <2>1 DEF NoFunction
  <2>5. QED
    BY <1>3, <2>1, <2>3, <2>4
<1>5. ASSUME NEW h \in Graph(S, owner)!CalleesLeft(prog) \ {"indirect"}
      PROVE  \E e \in module'.calls : e[1] = F /\ e[2] = h
  <2>1. PICK s \in S : owner[s] \in Sources /\ prog.target[s] \notin Hot /\ prog.target[s] = h
    BY <1>3, <1>5
  <2>2. h \in Value
    <3>1. h \in Value \cup {"indirect", "asm"}
      BY <2>1 DEF Pictures
    <3>2. h # "asm" /\ h # "indirect"
      BY <1>3, <1>5
    <3>3. QED
      BY <3>1, <3>2
  <2>3. <<owner[s], h>> \in module.calls
    BY <2>1, <2>2, PicturedEdges
  <2>4. <<F, h>> \in module'.calls
    BY <1>2, <2>1, <2>3
  <2>5. QED
    BY <2>4
<1>6. {e[2] : e \in {d \in module'.calls : d[1] = F}}
        = Graph(S, owner)!CalleesLeft(prog) \ {"indirect"}
  BY <1>4, <1>5
<1>7. {d \in module'.calls : d[1] # F} = {d \in module.calls : d[1] # F}
  <2>1. ASSUME NEW e \in module'.calls, e[1] # F PROVE e \in module.calls
    <3>1. e \in module.calls \/ \E h : e = <<F, h>>
      BY <1>2
    <3>2. \A h : e # <<F, h>>
      BY <2>1
    <3>3. QED
      BY <3>1, <3>2
  <2>2. \A d \in module.calls : d[1] # F => d \in module'.calls
    BY <1>2
  <2>3. QED
    BY <2>1, <2>2
<1>8. QED
  BY <1>6, <1>7

(* The driver's step is the loop's, seen from the functions: whatever the  *)
(* call instructions of the module are, the functions F calls afterwards   *)
(* are those ResultIsUnfolded of Inliner says the loop leaves in it.       *)
THEOREM InlinesAsLoop ==
  ASSUME NoFunction, NEW S, NEW owner, NEW prog
  PROVE  Spec => [][Pictures(S, owner, prog) /\ InlineFunctions =>
                      {e[2] : e \in {d \in module'.calls : d[1] = F}}
                        = Graph(S, owner)!CalleesLeft(prog) \ {"indirect"}]_vars
<1>1. DriverInv /\ [Next]_vars =>
        [Pictures(S, owner, prog) /\ InlineFunctions =>
           {e[2] : e \in {d \in module'.calls : d[1] = F}}
             = Graph(S, owner)!CalleesLeft(prog) \ {"indirect"}]_vars
  BY InlinedCalls DEF DriverInv
<1>2. QED
  BY <1>1, DriverInvariant, PTL DEF Spec

(* A rank along the calls: how many helpers go into a function.            *)
LEMMA BelowSmaller ==
  ASSUME TypeOK, NEW f, NEW g \in HotCallees(f)
  PROVE  g \in Below(f) /\ Below(g) \subseteq Below(f)
<1>1. g \in Below(f)
  BY BelowClosed
<1>2. HotCallees(g) \subseteq Below(f) /\ \A h \in Below(f) : HotCallees(h) \subseteq Below(f)
  BY <1>1, BelowClosed
<1>3. Below(f) \in SUBSET Hot
  BY BelowClosed
<1>4. QED
  BY <1>1, <1>2, <1>3 DEF Below

LEMMA EndlessIsUnfinished ==
  ASSUME TypeOK, ControlInv, pc = "inline", NoFunction, IsFiniteSet(Value),
         NEW S, NEW owner, NEW prog, Pictures(S, owner, prog), Hot \subseteq prog.inlinable
  PROVE  Endless(F) <=> ~ Graph(S, owner)!CanFinish(prog)
<1>1. F \in Value
  BY Given, Constants DEF TypeOK, ControlInv, InTurn, F
<1>2. /\ Graph(S, owner)!Reached(prog) = Sources /\ Sources \subseteq Value
      /\ Hot \subseteq Value /\ Below(F) \subseteq Hot
  BY <1>1, SourcesReached, PicturedEdges, BelowClosed DEF Sources
<1>3. Graph(S, owner)!CanFinish(prog) <=>
        \E rank \in [Value -> 0 .. Cardinality(Value)] :
          \A s \in S : owner[s] \in Sources /\ Graph(S, owner)!Hot(prog, s) =>
            /\ Graph(S, owner)!Expands(prog, s)
            /\ rank[prog.target[s]] < rank[owner[s]]
  <2>1. Graph(S, owner)!Cardinality(Value) = Cardinality(Value)
    BY DEF Graph!Cardinality, Cardinality
  <2>2. QED
    BY <1>2, <2>1 DEF Graph!CanFinish
<1>4. ASSUME NEW s \in S, Graph(S, owner)!Hot(prog, s)
      PROVE  Graph(S, owner)!Expands(prog, s) /\ prog.target[s] \in HotCallees(owner[s])
  BY <1>2, <1>4, PicturedEdges DEF Graph!Expands
<1>5. ASSUME NEW rank \in [Value -> 0 .. Cardinality(Value)],
             \A s \in S : owner[s] \in Sources /\ Graph(S, owner)!Hot(prog, s) =>
               rank[prog.target[s]] < rank[owner[s]],
             NEW g \in Below(F), g \in Below(g)
      PROVE  FALSE
  <2> DEFINE T == {h \in Below(F) : rank[h] < rank[g]}
  <2>1. \A h \in Value : rank[h] \in Int
    BY <1>5
  <2>2. ASSUME NEW f \in Below(F), rank[f] \leq rank[g]
        PROVE  HotCallees(f) \subseteq T
    <3>1. ASSUME NEW h \in HotCallees(f) PROVE h \in T
      <4>1. PICK s \in S : owner[s] = f /\ prog.target[s] = h /\ Graph(S, owner)!Hot(prog, s)
        BY <3>1, PicturedEdges
      <4>2. rank[h] < rank[f]
        BY <1>5, <2>2, <4>1 DEF Sources
      <4>3. h \in Below(F)
        BY <2>2, <3>1, BelowClosed
      <4>4. rank[h] \in Int /\ rank[f] \in Int /\ rank[g] \in Int
        BY <1>2, <2>1, <2>2, <1>5, <4>3
      <4>5. QED
        BY <2>2, <4>2, <4>3, <4>4
    <3>2. QED
      BY <3>1
  <2>3. rank[g] \in Int
    BY <1>2, <1>5, <2>1
  <2>4. HotCallees(g) \subseteq T
    BY <1>5, <2>2, <2>3
  <2>5. \A f \in T : HotCallees(f) \subseteq T
    <3>1. \A f \in T : f \in Below(F) /\ rank[f] \in Int /\ rank[f] < rank[g]
      BY <1>2, <2>1
    <3>2. QED
      BY <2>2, <2>3, <3>1
  <2>6. T \in SUBSET Hot
    BY <1>2
  <2> HIDE DEF T
  <2>7. g \in T
    BY <1>5, <2>4, <2>5, <2>6 DEF Below
  <2>8. QED
    BY <2>3, <2>7 DEF T
<1>6. ASSUME ~ Endless(F)
      PROVE  \E rank \in [Value -> 0 .. Cardinality(Value)] :
               \A s \in S : owner[s] \in Sources /\ Graph(S, owner)!Hot(prog, s) =>
                 rank[prog.target[s]] < rank[owner[s]]
  <2> DEFINE rank == [f \in Value |-> Cardinality(Below(f))]
  <2>1. ASSUME NEW f
        PROVE  /\ IsFiniteSet(Below(f)) /\ Cardinality(Below(f)) \in Nat
               /\ Cardinality(Below(f)) \leq Cardinality(Value)
    <3>1. Below(f) \in SUBSET Value
      BY <1>2, BelowClosed
    <3>2. QED
      BY <3>1, FS_Subset, FS_CardinalityType
  <2>2. rank \in [Value -> 0 .. Cardinality(Value)]
    <3>1. Cardinality(Value) \in Nat
      BY FS_CardinalityType
    <3>2. ASSUME NEW f \in Value PROVE Cardinality(Below(f)) \in 0 .. Cardinality(Value)
      BY <2>1, <3>1
    <3>3. QED
      BY <3>2
  <2>3. ASSUME NEW s \in S, owner[s] \in Sources, Graph(S, owner)!Hot(prog, s)
        PROVE  rank[prog.target[s]] < rank[owner[s]]
    <3> DEFINE f == owner[s]
               g == prog.target[s]
    <3>1. g \in HotCallees(f)
      BY <1>4, <2>3
    <3>2. g \in Below(f) /\ Below(g) \subseteq Below(f)
      BY <3>1, BelowSmaller
    <3>3. g \in Below(F)
      BY <2>3, <3>1, BelowClosed DEF Sources
    <3>4. g \notin Below(g)
      BY <1>6, <3>3 DEF Endless
    <3>5. Below(g) # Below(f)
      BY <3>2, <3>4
    <3>6. Cardinality(Below(g)) < Cardinality(Below(f))
      <4>1. /\ Cardinality(Below(g)) \leq Cardinality(Below(f))
            /\ Cardinality(Below(g)) # Cardinality(Below(f))
        BY <2>1, <3>2, <3>5, FS_Subset
      <4>2. QED
        BY <2>1, <4>1
    <3>7. f \in Value /\ g \in Value
      BY <1>2, <2>3, <3>3
    <3>8. QED
      BY <3>6, <3>7
  <2> HIDE DEF rank
  <2>4. QED
    BY <2>2, <2>3
<1>7. QED
  BY <1>3, <1>4, <1>5, <1>6 DEF Endless

(* The driver gets no further exactly where the loop of Inliner has no     *)
(* end: EndsOnlyIfItCan says that it has none without CanFinish, and       *)
(* Terminates that it has one with it.                                     *)
THEOREM StopsAsLoop ==
  ASSUME NoFunction, IsFiniteSet(Value), NEW S, NEW owner, NEW prog
  PROVE  Spec => [](pc = "inline" /\ Pictures(S, owner, prog) /\ Hot \subseteq prog.inlinable =>
                      (Endless(F) <=> ~ Graph(S, owner)!CanFinish(prog)))
<1>1. DriverInv => (pc = "inline" /\ Pictures(S, owner, prog) /\ Hot \subseteq prog.inlinable =>
                      (Endless(F) <=> ~ Graph(S, owner)!CanFinish(prog)))
  BY EndlessIsUnfinished DEF DriverInv
<1>2. QED
  BY <1>1, DriverInvariant, PTL

-----------------------------------------------------------------------------
(***************************************************************************)
(* The program around the driver: main and its options, of which the       *)
(* driver is the last step.  The theorems hold for all thresholds, values  *)
(* and command lines of any length up to MaxArgs.                          *)
(***************************************************************************)
(* Until the options are parsed, -override is not set: what is parsed is   *)
(* what the user wrote.                                                    *)
ArgvInv ==
  /\ argv \in UNION {[1 .. n -> Argument] : n \in 0 .. MaxArgs}
  /\ step \in {"copy", "override", "parse"} => Override = FALSE
  /\ step \notin {"copy"} => newArgv = argv

LEMMA ArgvInvariant == MainSpec => []ArgvInv
<1>1. MainInit => ArgvInv
  BY DEF MainInit, ArgvInv
<1>2. ArgvInv /\ [MainNext]_mainVars => ArgvInv'
  <2>1. SUFFICES ASSUME ArgvInv, [MainNext]_mainVars PROVE ArgvInv'
    OBVIOUS
  <2> USE DEF ArgvInv, fromUser
  <2>2. CASE CopyArguments
    BY <2>1, <2>2 DEF CopyArguments, Proceed
  <2>3. CASE OverrideThresholds
    BY <2>1, <2>3 DEF OverrideThresholds, Proceed
  <2>4. CASE ParseOptions
    <3>1. step = "parse" /\ argv' = argv /\ newArgv' = newArgv
          /\ step' \in {"construct", "done"}
      BY <2>4, Zenon DEF ParseOptions, Proceed, Exit
    <3>2. QED
      BY <2>1, <3>1
  <2>5. CASE Construct
    BY <2>1, <2>5 DEF Construct, Proceed, Exit
  <2>6. CASE Deobfuscate
    BY <2>1, <2>6 DEF Deobfuscate, Exit
  <2>7. CASE UNCHANGED mainVars
    BY <2>1, <2>7 DEF mainVars
  <2>8. QED
    BY <2>1, <2>2, <2>3, <2>4, <2>5, <2>6, <2>7 DEF MainNext
<1>3. QED
  BY <1>1, <1>2, PTL DEF MainSpec

(* The variables keep their types, the exit status is set exactly at the   *)
(* end, and the driver runs with an input and a runtime only.              *)
THEOREM MainTypes == MainSpec => []MainTypeOK
<1> DEFINE Inv == MainTypeOK /\ (step = "deobfuscate" => files.input /\ files.runtime = "ok")
<1>1. MainInit => Inv
  <2>1. SUFFICES ASSUME MainInit PROVE Inv
    OBVIOUS
  <2>2. PICK n \in 0 .. MaxArgs : argv \in [1 .. n -> Argument]
    BY <2>1 DEF MainInit
  <2>3. n \in Nat
    BY <2>2, CommandLineAssumption
  <2>4. argv \in Seq(Argument)
    BY <2>2, <2>3
  <2>5. newArgv \in Seq(Argument \cup [option : Threshold, value : {Raised}])
    BY <2>1 DEF MainInit
  <2>6. llvm \in [Threshold -> Setting \cup {Raised, Default}]
    BY <2>1 DEF MainInit
  <2>7. files \in Files /\ step = "copy" /\ status = "running" /\ Override = FALSE /\ PrintFunctions = FALSE
    BY <2>1 DEF MainInit
  <2>8. QED
    BY <2>4, <2>5, <2>6, <2>7 DEF MainTypeOK
<1>2. ArgvInv /\ Inv /\ [MainNext]_mainVars => Inv'
  <2>1. SUFFICES ASSUME ArgvInv, Inv, [MainNext]_mainVars PROVE Inv'
    OBVIOUS
  <2>2. CASE CopyArguments
    <3>1. newArgv' \in Seq(Argument \cup [option : Threshold, value : {Raised}])
      BY <2>1, <2>2 DEF CopyArguments, MainTypeOK
    <3>2. QED
      BY <2>1, <2>2, <3>1 DEF CopyArguments, Proceed, fromUser, MainTypeOK
  <2>3. CASE OverrideThresholds
    BY <2>1, <2>3 DEF OverrideThresholds, Proceed, fromUser, MainTypeOK, ArgvInv
  <2>4. CASE ParseOptions
    <3>1. CASE Accepted(newArgv)
      <4>1. newArgv = argv /\ argv \in Seq(Argument)
        BY <2>1, <2>4 DEF ParseOptions, ArgvInv, MainTypeOK
      <4>2. llvm' = [o \in Threshold |->
               IF Occurrences(argv, o) = 1
               THEN argv[CHOOSE j \in DOMAIN argv : argv[j].option = o].value
               ELSE Default]
        BY <2>4, <3>1, <4>1, Zenon DEF ParseOptions
      <4>3. ASSUME NEW o \in Threshold PROVE llvm'[o] \in Setting \cup {Raised, Default}
        <5>1. CASE Occurrences(argv, o) = 1
          <6> DEFINE j == CHOOSE j \in DOMAIN argv : argv[j].option = o
          <6>1. \E k \in DOMAIN argv : argv[k].option = o
            <7>1. {k \in DOMAIN argv : argv[k].option = o} # {}
              BY <5>1, FS_EmptySet DEF Occurrences
            <7>2. QED
              BY <7>1
          <6>2. j \in DOMAIN argv /\ argv[j].option = o
            BY <6>1
          <6>3. argv[j] \in Argument
            BY <4>1, <6>2
          <6>4. o \notin {"input", "f", "override", "list-functions"}
            BY <4>3, CommandLineAssumption
          <6>5. argv[j].value \in Setting
            BY <6>2, <6>3, <6>4 DEF Argument
          <6>6. QED
            BY <4>2, <5>1, <6>5
        <5>2. QED
          BY <4>2, <5>1
      <4>4. llvm' \in [Threshold -> Setting \cup {Raised, Default}]
        BY <4>2, <4>3
      <4>5. /\ Override' \in BOOLEAN /\ PrintFunctions' \in BOOLEAN
            /\ step' = "construct" /\ UNCHANGED <<argv, files, newArgv, status>>
        BY <2>4, <3>1, Zenon DEF ParseOptions, Proceed, fromUser
      <4>6. QED
        BY <2>1, <2>4, <4>4, <4>5 DEF MainTypeOK, ParseOptions
    <3>2. CASE ~ Accepted(newArgv)
      BY <2>1, <2>4, <3>2 DEF ParseOptions, Exit, fromUser, MainTypeOK
    <3>3. QED
      BY <3>1, <3>2
  <2>5. CASE Construct
    BY <2>1, <2>5 DEF Construct, Proceed, Exit, fromUser, MainTypeOK
  <2>6. CASE Deobfuscate
    BY <2>1, <2>6 DEF Deobfuscate, Exit, fromUser, MainTypeOK
  <2>7. CASE UNCHANGED mainVars
    BY <2>1, <2>7 DEF mainVars, MainTypeOK
  <2>8. QED
    BY <2>1, <2>2, <2>3, <2>4, <2>5, <2>6, <2>7 DEF MainNext
<1>3. QED
  BY <1>1, <1>2, ArgvInvariant, PTL DEF MainSpec

(* An error about the arguments is about those the user wrote.             *)
THEOREM UsageErrors == MainSpec => []UsageErrorIsUsers
<1>1. MainInit => UsageErrorIsUsers
  BY DEF MainInit, UsageErrorIsUsers
<1>2. ArgvInv /\ UsageErrorIsUsers /\ [MainNext]_mainVars => UsageErrorIsUsers'
  <2>1. SUFFICES ASSUME ArgvInv, UsageErrorIsUsers, [MainNext]_mainVars, status' = "usage"
                 PROVE  ~ Accepted(argv)'
    BY DEF UsageErrorIsUsers
  <2>2. argv' = argv
    BY <2>1 DEF MainNext, mainVars, fromUser, CopyArguments, OverrideThresholds, ParseOptions,
                Construct, Deobfuscate
  <2>3. ~ Accepted(argv)
    <3>1. CASE status = "usage"
      BY <2>1, <3>1 DEF UsageErrorIsUsers
    <3>2. CASE status # "usage"
      <4>1. ParseOptions
        BY <2>1, <3>2 DEF MainNext, mainVars, CopyArguments, OverrideThresholds, Construct,
                          Deobfuscate, Proceed, Exit
      <4>2. step = "parse" /\ ~ Accepted(newArgv)
        BY <2>1, <3>2, <4>1, Zenon DEF ParseOptions, Proceed, Exit
      <4>3. QED
        BY <2>1, <4>2 DEF ArgvInv
    <3>3. QED
      BY <3>1, <3>2
  <2>4. QED
    BY <2>2, <2>3 DEF Accepted, Occurrences
<1>3. QED
  BY <1>1, <1>2, ArgvInvariant, PTL DEF MainSpec

(* An option that is given and may be given once is given exactly once.    *)
LEMMA GivenOnce ==
  ASSUME NEW n \in Nat, NEW args \in [1 .. n -> Argument], Accepted(args),
         NEW k \in DOMAIN args, args[k].option \in Threshold
  PROVE  /\ Occurrences(args, args[k].option) = 1
         /\ \A j \in DOMAIN args : args[j].option = args[k].option => j = k
<1> DEFINE S == {j \in DOMAIN args : args[j].option = args[k].option}
<1>1. IsFiniteSet(1 .. n) /\ DOMAIN args = 1 .. n
  BY FS_Interval
<1>2. IsFiniteSet(S) /\ k \in S
  BY <1>1, FS_Subset
<1>3. Cardinality(S) \leq 1 /\ Cardinality(S) \in Nat
  BY <1>2, FS_CardinalityType DEF Accepted, Occurrences
<1>4. Cardinality(S) # 0
  BY <1>2, FS_EmptySet
<1>5. Cardinality(S) = 1
  BY <1>3, <1>4
<1>6. \E j : S = {j}
  BY <1>2, <1>5, FS_Singleton
<1>7. QED
  BY <1>2, <1>5, <1>6 DEF Occurrences

(* A threshold the user gives is the one the passes run with.              *)
THEOREM ThresholdsKept == MainSpec => []UserThresholdsKept
<1> DEFINE Kept ==
      step \in {"construct", "deobfuscate"} =>
        \A k \in DOMAIN argv :
          argv[k].option \in Threshold => llvm[argv[k].option] = argv[k].value
<1>1. MainInit => Kept
  BY DEF MainInit
<1>2. ArgvInv /\ Kept /\ [MainNext]_mainVars => Kept'
  <2>1. SUFFICES ASSUME ArgvInv, Kept, [MainNext]_mainVars PROVE Kept'
    OBVIOUS
  <2>2. CASE CopyArguments
    BY <2>2 DEF CopyArguments, Proceed
  <2>3. CASE OverrideThresholds
    BY <2>3 DEF OverrideThresholds, Proceed
  <2>4. CASE ParseOptions
    <3>1. CASE Accepted(newArgv)
      <4>1. newArgv = argv /\ argv' = argv
        BY <2>1, <2>4 DEF ParseOptions, ArgvInv, fromUser
      <4>2. llvm' = [o \in Threshold |->
               IF Occurrences(argv, o) = 1
               THEN argv[CHOOSE j \in DOMAIN argv : argv[j].option = o].value
               ELSE Default]
        BY <2>4, <3>1, <4>1, Zenon DEF ParseOptions
      <4>3. SUFFICES ASSUME NEW k \in DOMAIN argv, argv[k].option \in Threshold
                     PROVE  llvm'[argv[k].option] = argv[k].value
        BY <4>1
      <4>4. PICK n \in 0 .. MaxArgs : argv \in [1 .. n -> Argument]
        BY <2>1 DEF ArgvInv
      <4>5. n \in Nat
        BY <4>4, CommandLineAssumption
      <4>6. /\ Occurrences(argv, argv[k].option) = 1
            /\ \A j \in DOMAIN argv : argv[j].option = argv[k].option => j = k
        BY <3>1, <4>1, <4>3, <4>4, <4>5, GivenOnce
      <4>7. (CHOOSE j \in DOMAIN argv : argv[j].option = argv[k].option) = k
        BY <4>3, <4>6
      <4>8. QED
        BY <4>2, <4>3, <4>6, <4>7
    <3>2. CASE ~ Accepted(newArgv)
      BY <2>4, <3>2 DEF ParseOptions, Exit
    <3>3. QED
      BY <3>1, <3>2
  <2>5. CASE Construct
    BY <2>1, <2>5 DEF Construct, Proceed, Exit, fromUser
  <2>6. CASE Deobfuscate
    BY <2>6 DEF Deobfuscate, Exit
  <2>7. CASE UNCHANGED mainVars
    BY <2>1, <2>7 DEF mainVars
  <2>8. QED
    BY <2>1, <2>2, <2>3, <2>4, <2>5, <2>6, <2>7 DEF MainNext
<1>3. Kept => UserThresholdsKept
  BY DEF UserThresholdsKept
<1>4. QED
  BY <1>1, <1>2, <1>3, ArgvInvariant, PTL DEF MainSpec
=============================================================================
