----------------------------- MODULE CommandLine -----------------------------
(***************************************************************************)
(* main and ParseLLVMOptions (src/src/Squanchy.cpp:26-92) with the         *)
(* constructor of Deobfuscator (src/src/Deobfuscator.cpp:140-171): from    *)
(* the arguments to the exit status.  The driver is one step here; what it *)
(* does is the subject of module Deobfuscator.                             *)
(* Names that both modules need begin with Main here: their theorems are   *)
(* in one module.                                                          *)
(***************************************************************************)
EXTENDS Naturals, Sequences, FiniteSets

CONSTANTS
  Threshold,  \* the options of LLVM that -override is about
  Setting,    \* values a user gives to them
  Raised,     \* the values ParseLLVMOptions gives to them
  Default,    \* their values when nobody gives one
  MaxArgs     \* bound: the longest command line considered

Argument == [option : {"input", "f", "override", "list-functions"}]
            \cup [option : Threshold, value : Setting]

(* What main adds to the arguments: one per option, in some order.         *)
Thresholds == CHOOSE s \in [1 .. Cardinality(Threshold) ->
                              [option : Threshold, value : {Raised}]] :
                {s[k].option : k \in DOMAIN s} = Threshold

Files == [input   : BOOLEAN,                      \* the input can be parsed
          runtime : {"no path", "broken", "ok"}]  \* -runtime-path

ASSUME CommandLineAssumption ==
  /\ IsFiniteSet(Threshold)
  /\ Threshold \cap {"input", "f", "override", "list-functions"} = {}
  /\ Default \notin Setting \cup {Raised}
  /\ MaxArgs \in Nat

VARIABLES
  argv, files,  \* what the program was given
  newArgv,
  Override,     \* the option of that name: its value until parsing is its default
  PrintFunctions,
  llvm,         \* the values of the options of LLVM
  step, status

mainVars == <<argv, files, newArgv, Override, PrintFunctions, llvm, step, status>>

fromUser == <<argv, files>>

MainInit ==
  /\ argv \in UNION {[1 .. n -> Argument] : n \in 0 .. MaxArgs}
  /\ files \in Files
  /\ newArgv = <<>>
  /\ Override = FALSE /\ PrintFunctions = FALSE
  /\ llvm = [o \in Threshold |-> Default]
  /\ step = "copy"
  /\ status = "running"

Proceed(to) == step' = to /\ UNCHANGED status
Exit(code) == status' = code /\ step' = "done"

(* Mutant: the last argument is not copied. *)
CopyAllButLast ==
  /\ step = "copy"
  /\ newArgv' = IF argv = <<>> THEN <<>> ELSE SubSeq(argv, 1, Len(argv) - 1)
  /\ Proceed("override")
  /\ UNCHANGED <<fromUser, Override, PrintFunctions, llvm>>

CopyArguments ==
  /\ step = "copy"
  /\ newArgv' = argv
  /\ Proceed("override")
  /\ UNCHANGED <<fromUser, Override, PrintFunctions, llvm>>

(* Mutant: the arguments are searched for -override. *)
OverrideAsGiven ==
  /\ step = "override"
  /\ newArgv' = IF \E k \in DOMAIN argv : argv[k].option = "override"
                THEN newArgv \o Thresholds ELSE newArgv
  /\ Proceed("parse")
  /\ UNCHANGED <<fromUser, Override, PrintFunctions, llvm>>

(* if (Override): the thresholds are added when the option is set.         *)
OverrideThresholds ==
  /\ step = "override"
  /\ newArgv' = IF Override THEN newArgv \o Thresholds ELSE newArgv
  /\ Proceed("parse")
  /\ UNCHANGED <<fromUser, Override, PrintFunctions, llvm>>

(* llvm::cl: a required positional argument, a list with at least one      *)
(* element, and options that may be given once.                                 *)
Occurrences(args, o) == Cardinality({k \in DOMAIN args : args[k].option = o})
Accepted(args) ==
  /\ Occurrences(args, "input") = 1
  /\ Occurrences(args, "f") > 0
  /\ \A o \in Threshold \cup {"override", "list-functions"} : Occurrences(args, o) \leq 1

ParseOptions ==
  /\ step = "parse"
  /\ IF Accepted(newArgv)
     THEN /\ Override' = (Occurrences(newArgv, "override") = 1)
          /\ PrintFunctions' = (Occurrences(newArgv, "list-functions") = 1)
          /\ llvm' = [o \in Threshold |->
               IF Occurrences(newArgv, o) = 1
               THEN newArgv[CHOOSE k \in DOMAIN newArgv : newArgv[k].option = o].value
               ELSE Default]
          /\ Proceed("construct")
     ELSE Exit("usage") /\ UNCHANGED <<Override, PrintFunctions, llvm>>
  /\ UNCHANGED <<fromUser, newArgv>>

(* The constructor: each failure is fatal and ends the program.            *)
Construct ==
  /\ step = "construct"
  /\ IF files.input /\ files.runtime = "ok" THEN Proceed("deobfuscate") ELSE Exit("fatal")
  /\ UNCHANGED <<fromUser, newArgv, Override, PrintFunctions, llvm>>

(* deobfuscate() returns whether it succeeded; listing always does.        *)
Deobfuscate ==
  /\ step = "deobfuscate"
  /\ \E result \in BOOLEAN :
       /\ PrintFunctions => result
       /\ Exit(IF result THEN "success" ELSE "failure")
  /\ UNCHANGED <<fromUser, newArgv, Override, PrintFunctions, llvm>>

MainNext ==
  \/ CopyArguments \/ OverrideThresholds \/ ParseOptions \/ Construct \/ Deobfuscate

MainSpec == MainInit /\ [][MainNext]_mainVars
-----------------------------------------------------------------------------
(* Types; the driver runs with an input and a runtime only.                *)
MainTypeOK ==
  /\ argv \in Seq(Argument) /\ files \in Files
  /\ newArgv \in Seq(Argument \cup [option : Threshold, value : {Raised}])
  /\ Override \in BOOLEAN /\ PrintFunctions \in BOOLEAN
  /\ llvm \in [Threshold -> Setting \cup {Raised, Default}]
  /\ step \in {"copy", "override", "parse", "construct", "deobfuscate", "done"}
  /\ status \in {"running", "usage", "fatal", "failure", "success"}
  /\ status = "running" <=> step # "done"
  /\ status \in {"success", "failure"} => files.input /\ files.runtime = "ok"

(* An error about the arguments is about those the user wrote: adding      *)
(* thresholds never makes a command line that gives one itself fail.       *)
UsageErrorIsUsers == status = "usage" => ~ Accepted(argv)

(* A threshold the user gives is the one the passes run with.              *)
UserThresholdsKept ==
  step = "deobfuscate" =>
    \A k \in DOMAIN argv :
      argv[k].option \in Threshold => llvm[argv[k].option] = argv[k].value

(* What the option says it is for ("Override LLVM thresholds",             *)
(* src/src/Squanchy.cpp:23; "At least those 4 options are needed to let    *)
(* large code fold and create valid results", :36): with -override no      *)
(* threshold has its default when the driver runs.                         *)
OverrideHonoured ==
  step = "deobfuscate" /\ Override => \A o \in Threshold : llvm[o] # Default
=============================================================================
