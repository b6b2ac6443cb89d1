# Squanchy in TLA+

Squanchy takes the LLVM IR of C code that wasm2c generated from an obfuscated
wasm module, links a small wasm runtime into it, and for every function named
with `-f` injects the module's initializer, inlines all helpers, folds the
result with LLVM's pipelines and SiMBA++, cleans up, and finally extracts the
functions and writes the module. These modules specify the parts of that
program which are its own logic - the command line, the driver, the exhaustive
inliner, the rewriting of the initializer and of the table's stores, the loop
that repeats the optimization pipeline, and the extractor -, the runtime it
links, and the program of the repository it is tried on: the sample module with
its obfuscated function and the C library wasm2c lifted along with it. LLVM's
passes appear only by the effects Squanchy relies on.

Paths below are relative to the repository (`src/src/...` is the directory
with the C++ code); "D" is `src/src/Deobfuscator.cpp`, "X" is
`src/src/LLVMExtract.cpp`, "R" is `src/runtime/wasm_runtime.cpp` and "O" is
`src/samples/obf_1/obf_w2c.c`.

## 1. Inventory

Squanchy is one process with one thread. Nothing runs concurrently and nothing
persists between runs; what is hard here is *long sequences of mutations of one
shared module*: pointers and attributes that one stage leaves for a later one,
loops whose end depends on the input, stages that are run once per requested
name on a module the earlier names have changed, and errors that one layer
returns and another ignores.

| Component | State | Operations | Interacts with | Hard behaviour | What makes it correct | Modelled in |
|---|---|---|---|---|---|---|
| command line, `main` (Squanchy.cpp, D:80-132, ctor D:140-171) | options, input and runtime module | parse options, `-override`, build `Deobfuscator`, exit status | constructs and runs the driver | options read before they are parsed (Squanchy.cpp:35) | a status other than 0 whenever what was asked was not done; what the user gave is what is used | CommandLine, Deobfuscator, DriverProofs |
| driver (D:205-270, 517-589) | M, the index in FunctionNames | `deobfuscate`, `deobfuscateFunction` | calls every other component in a fixed order | per-name repetition on a changed module; a return value ignored (D:248) | what was done to one name survives the rest of the run | Deobfuscator, DriverProofs |
| attributes (D:524, 536, 557-566, 788-876) | noinline, optnone, alwaysinline of every function | mark, cancel, unset | decides what the inliner inlines | cancelling is global, marking is repeated per name | processed functions stay noinline and optimizable | Deobfuscator, DriverProofs |
| exhaustive inliner (D:878-915, 753-765) | the calls of F, the set of collected pointers | scan, inline, repeat; erase asm | driver, `llvm::InlineFunction` | pointers used after other calls were erased; order by address; termination | exactly the calls of the full unfolding are left; ends iff it can | CallGraph, InlineContract, Inliner, InlinerProofs |
| initializer, instance references (D:696-751, 631-654) | the instance F works on and the one it passes on | inject, replace | driver | names looked up in two ways; null not checked; instructions put in front of each other, again for a name given twice | F and its callees agree on the instance, and it is initialized before it is used | Instances, Rewrites, RewritesProofs, Deobfuscator |
| FUNCREF_TABLE cleanup (D:591-629) | stores that use the table | collect, erase | runtime's table, pipelines | order with respect to folding; a store collected twice | no write through the table is left in F, nothing else is erased | TableContract, TableStores, Rewrites, RewritesProofs, Deobfuscator |
| extractor (X:105-373) | GVs, work queue, module | seven lookups, closure, delete, split blocks, clean up | driver | early returns, work list on cyclic graphs, deletion under remaining references | least closed set; nothing dangles; failure changes nothing | Extraction, Extract, ExtractProofs |
| function pipelines, SiMBA pass (D:273-491, SiMBAPass.cpp) | instruction count, OptimizationGuide, analyses | run, run again | driver | do-again loop, shared flag, analyses declared preserved | ends; a change is noticed; analyses are fresh | PassLoop, PassLoopProofs, PassAnalyses |
| wasm runtime (src/runtime) | memory, tables, env instance, stack pointer | allocate, import, indirect call, table operations, checked access | linked into M, inlined | page arithmetic, one table for all, repeated allocation, order of imports, addresses that wrap | instances see what was put into their memory and their tables; an access stays inside or traps | WasmEnv, WasmTables, WasmStack, Runtime, RuntimeProofs (partly) |
| the sample's memory and string functions (O:9460-10190) | the areas, two addresses | memcpy, memset, memchr, strnlen | called by the library, inlined by Squanchy | word tricks, overlapping stores, wrapped ends, an import commented out | exactly the area asked for | Memcpy, Memset, Memchr, Library, LibraryProofs |
| the sample's printf (O:9130-9300, 10250-14900) | stream, buffer, argument list, counters | printf, fwrite, fflush | main, env imports commented out | two runs over one format, positional arguments, counts at their limit, an error in the middle | what is written is what is counted | Printf, Library, LibraryProofs, Numerals, WideChar, LongDouble, Stdio |
| the sample's obfuscated function (O:1606-9126, execute.c) | locals | calc_0, calc, main_0 | what Squanchy is to recover | mixed boolean-arithmetic over 32 bits, a signed remainder | equal to the function before | Calc, CalcProofs |
| output (D:680-694) | the file | write | driver | file cannot be opened, status is 0 | output only from complete runs | Deobfuscator, DriverProofs |

Not modelled and why: `replaceCallocs` (its one call is commented out),
`removeAlwayInlineAttribute` and the string overload of
`removeCallASMSideEffects` (never called), `-keep-wasm-runtime` (never read),
`isWasm2CFunction` (always returns true, so its early return cannot happen),
printing and instruction counts on stdout, LLVM itself, SiMBA++. Of the runtime:
the functions that free (empty), STACK_MAX (a constant), what `wasm-rt.h`
declares and the runtime does not define (externref tables, growth, exceptions,
signal handlers), and the exact kinds of traps. Of the sample: `fmt_fp` (its
loops over digits of base 10^9 need numbers far beyond a small instance; Printf
takes the length it returns), `frexp`, `strerror` and its table, `strlen`, the
`dynCall` and `setjmp`-like exports, the numeric macros of wasm2c's header. The other samples are
drivers of binaries.

`PROJECT.json` lists the hazards line by line with the properties about each.

## 2. Modules and how they correspond to the code

    CallGraph      program graphs: owners, targets, attributes, inline chains
      InlineContract   the promise: all helpers unfolded, in one step
      Inliner          the rounds of inlineFunctions, then the asm erasure
        MCInliner          instance for TLC
        InlinerProofs      theorems
    Extraction     what LLVMExtract computes, as operators on modules
      Extract          LLVMExtract, statement by statement
        MCExtract          instance for TLC
        ExtractProofs      theorems
      Deobfuscator     deobfuscate and deobfuscateFunction
        MCDeobfuscator     instance for TLC
        DriverProofs       theorems, also about CommandLine and about
                           Deobfuscator as a view of Inliner
    TableContract  the promise: what the cleanup does to one function
      TableStores      replaceFUNCREF_TABLE on use lists
      Deobfuscator     uses the promise as one step
    Instances      injectInitializer, replaceInstanceRefs
      Rewrites         TableStores and Instances, one of them at a time
        MCRewrites         instance for TLC
        RewritesProofs     theorems
    CommandLine    main, ParseLLVMOptions, the constructor
        MCCommandLine      instance for TLC
        DriverProofs       theorems: the driver is main's last step
    PassLoop       optimizeFunctionWithCustomPipeline and SiMBAPass::run
      PassAnalyses     the same with the analysis manager
        MCPassLoop         instance for TLC
        PassLoopProofs     theorems about both

    WasmEnv        the imports of wasm_runtime.cpp
    WasmTables     FUNCREF_TABLE under several instances
    WasmStack      the linear memory, its checks and the stack
      Runtime          the three, one of them at a time
        MCRuntime          instance for TLC
        RuntimeProofs      theorems

    Printf         vfprintf and printf_core (MCPrintf)
    Stdio          the standard output under printf
    Numerals       fmt_x, fmt_o, fmt_u, getint
    WideChar       wctomb
    Memcpy, Memset the functions of these names
    Memchr         memchr, strnlen
    LongDouble     __trunctfdf2
      Library          the seven from Stdio on, one of them at a time
        LibraryProofs      theorems about it and about Printf
    Calc           calc_0 of the sample, and the test of it
        CalcProofs         theorems
      MCSample       instance for TLC of Library and Calc

Rewrites, Runtime, Library and MCSample each put components together that share
no state: an initial state chooses one, which takes all the steps while the
others stay as they are. Their properties name the parts of a component they
are made of, as tabled below. Rewrites, Runtime and Library leave every constant
open, so that the theorems can speak of the same properties the runs check.

The code works on single bits in three places, and TLC's bitwise operators cannot
be reasoned about by the provers. They are modelled by what is used of them. Of the exclusive
or of memchr it only matters when it is zero, which its assumption says. Where
LongDouble joins words by an or, no bit is set in both, so it is a sum, or one is a single
bit (`HasBit`, `With`, `Flipped`). The `And` of Calc is a constant table of which the
assumption says how it is computed bit by bit,
`And[x][y] = 2 * And[x \div 2][y \div 2] + (x % 2) * (y % 2)`; or, xor and not are
derived from it. The instance gives both tables by the operators of Bitwise, and TLC
evaluates the assumptions on them.

The two detailed modules and the driver compose through their summaries. The
driver takes the inliner as one step - `InlineFunctions`, a function-level view
of `InlineContract` - and the extractor as the operator `Extracted`. That the
loops really compute these summaries is what `ImplementsContract` and
`ResultIsExtracted` say, model-checked and proved; `ImplementsContract` of Rewrites
says it of the cleanup of the table.

The driver knows which functions call which, the inliner the call instructions, so
the step of the driver and the contract of the inliner are about different graphs.
`InlinesAsLoop` and `StopsAsLoop` of DriverProofs are the link: whatever the call
instructions behind the module of the driver are (`Pictures`: several per pair of
functions, or one, with indirect calls and asm), the functions called from F after
the driver's step are those the inliner's result calls, and the driver gets no further
exactly where the inliner's loop has no end. The second needs that
`llvm::InlineFunction` accepts the helpers, which the driver's model takes for
granted and Inliner does not.

### Inliner

A call instruction inside the function being rewritten is named by its *inline
chain*: the sequence of source call sites it was cloned through. Two `CallInst`
pointers of the program are equal exactly when their chains are. `prog` is what
`inlineFunctions` reads of the module: the target of every site (a function,
`"indirect"` when `getCalledFunction()` is null, or `"asm"`), the functions
with alwaysinline (`ai`), those with a body (`defined`), and those whose calls
`llvm::InlineFunction` accepts (`inlinable`).

| Variable / action | Code |
|---|---|
| `calls` | the call instructions of F |
| `work` | `FuncToInline` minus what the for loop has handled |
| `Collect`, `Finish` | the scan D:884-904 and the test D:911-914 |
| `InlineOne(c)` | one iteration of D:906-909; any order, as the set is ordered by address; the result is ignored, so a refused call simply leaves the set |
| `StripAsm` | `removeCallASMSideEffects`, D:753-765 |

`AfterInlining` replaces a call by clones of the callee's calls. A call of F by
itself clones F's *current* body (`Body`).

### Extract

`Extraction` represents a module by its symbol table (`names`), the names with
a body or initializer (`defs`), constants, direct calls, other references, and
the functions that have the basic block asked for. A request is the arguments
of `LLVMExtract` plus the options X:45-102 it reads; a regular expression is
the set of names it matches. `Extract` runs the stages in the order of the
code, each with its early `return 1`: `FindAliases` ... `FindBlockFunctions`
(X:107-233), `StartClosure`, `Visit`, `EndClosure` (X:238-264; the vector is a
set popped in any order, which includes popping from the back),
`DeleteDefinitions` (X:281-304), `SplitBlocks` (X:306-346), `CleanUp`
(X:348-373). `materialize` is left out: a module read by `parseIRFile` is
complete. An invalid regular expression is only reported by the code, and then
matches nothing; in the model it is the empty pattern.

### CommandLine

An argument is an option of LLVM's with a value, or one of the program's own
(`-f`, the input, `-override`, `-list-functions`). `CopyArguments`,
`OverrideThresholds` and `ParseOptions` are the three parts of
`ParseLLVMOptions`: Override is read when it still has its default. `Construct`
has the fatal errors of the constructor, `Deobfuscate` the two ways the driver
can end. The parser of LLVM is external: required, repeatable and
at-most-once options. `-list-functions` returns before the names are looked at,
but `-f` is `cl::OneOrMore`, so without one the parser already ends the program.

### Instances

The entry block of F is a sequence of instructions, each with the instance it
uses: 0 is F's parameter and k the variable of the k-th injection.
`InjectInitializer` is D:696-751: both allocas at the front, the call before
what was the first instruction, every use of the parameter redirected.
`ReplaceInstanceRefs` is D:631-654, the argument of calls of functions
of the module. The driver calls the two for every name, so a name given again
finds its own earlier instructions.

### TableStores

A program is three stores, each with two operands: the table, an address in it,
an address computed from a copy of its address, or another value. `Collect` is the walk over
the users of the table and of constant expressions (D:598-621), `Stores` the
vector as a count per store, `Erase` the loop at D:624-627. `ImplementsContract`
relates it to `Cleaned` of TableContract, by which `EraseTableStores` of
Deobfuscator is defined.

### PassLoop

The pipeline's effect on a function is data: `lib` gives, for every possible
body, its instruction count, the number of replacements SiMBA++ reports, the
body it leaves, and the body the LLVM passes between the two SiMBA passes leave.
TLC goes through all of them on three bodies, the theorems hold for any.

| Variable / action | Code |
|---|---|
| `mbaFound` | `OG.MBAFound`, one flag for both SiMBA passes |
| `before` | `InstCountBefore` |
| `Enter` | the return at level 0 (D:325), first count |
| `EarlySiMBA`, `LateSiMBA` | `SiMBAPass::run` (SiMBAPass.cpp:26-58): reset the flag, simplify, set the flag |
| `RunPasses` | the passes added at D:351-468 |
| `Decide` | D:483-490: another round if the count changed or the flag is set |

`HasOptimized` and `SimbaCallCounter` are never read and are left out. The driver
makes two such calls per function, each with its own flag and managers; only
the body of F passes from one to the other. The model assumes (`Honest`) that a
simplifier that reports no replacement has made none; the code relies on the
same.

PassAnalyses runs the same rounds with a cache: `cached[a]` is the body the
result of analysis a was computed from. `CachedSiMBA` keeps everything, as
`PreservedAnalyses::all()` says; `CachedPasses` drops, recomputes or keeps what
LLVM's own passes may. What an analysis sees of a body is data (`Views`): two
bodies it cannot tell apart have the same result.

### WasmEnv, WasmTables, WasmStack

WasmEnv has one action per import of R:122-233, done by several modules in any
order and repeated; `got` is what the generated init functions keep in the
instance. Memory blocks are never freed, so a pointer a module kept stays good:
what goes wrong is which block it is. WasmTables has `InitTables` (R:80-96 and
the segment), `CallIndirect` (O:84-110), `TableSet`, `TableFill`, `TableCopy`;
`own` is a history variable, the table as it would be if its data were its own.
WasmStack has addresses modulo W, `RANGE_CHECK` in wider numbers, the
prologues and epilogues of lifted functions, `_emscripten_stack_alloc`,
`_restore`, `_get_free` and `emscripten_stack_init` (O:15290-15400), and the
data segments that `LOAD_DATA` copies.

### The sample

Calc has one definition per local variable the obfuscated branches assign
(`l1781` is `var_l1781`), with the constants folded that wasm2c spills into
locals; constants are cut to W bits, which is sound because every operation but the
remainder gives its low bits from the low bits of its arguments. Its rules
(`Product`, `OrBySum`, ...) are the identities the obfuscator used, recognized in
the code. `Enter` is the signed remainder and the choice of the branch.

Printf has one action per part of a directive, in the order of `printf_core`,
in either of the two passes (`fp` null or not); formats are sequences of items
instead of characters, and the stream is a count of what it took and whether it
fails. Positional arguments, `nl_type` and `nl_arg`, stay as they are in the
code, so a gap or an argument used before it was fetched is a state. Stdio is what is under it: the buffer
pointers, F_ERR, and `__stdio_write` with fd_write commented out. There a text is a
sequence of pieces, one of which the formatter may refuse: `Reject` in the pass without the stream,
`Refused` in the other, with the pieces in front of it given to `fwritex` already. Numerals,
WideChar, LongDouble, Memcpy, Memset and Memchr each follow the loops of the
lifted function; the constants that give the sizes (words, blocks, fraction
bits) are CONSTANTS, so that TLC goes through every input.

### Deobfuscator

One action per stage, in the order of the code; `next` is the index in
`FunctionNames`.

| Variable | Code |
|---|---|
| `module` | M: names, definitions, calls, references |
| `attr` | noinline, optnone, alwaysinline (`ai`), internal linkage (`local`) per function |
| `pointer`, `passed` | per requested function: the instance its own accesses use, and the one it passes to `w2c_squanchy_...` callees |
| `table` | per requested function: `none`, `unfolded` (stores go through the table's data pointer), `folded` (stores name FUNCREF_TABLE), `broken` (the store of the table's address was erased, the entries were not) |
| `exit`, `output` | exit status and the function definitions written |

| Action | Code |
|---|---|
| `Start`, `LookupFunction`, `EndOfNames` | `-list-functions`, the loop over names with its two early returns (D:205-243) |
| `LinkRuntime` | optnone removed from F, then the runtime linked with OverrideFromSrc (D:527-537) |
| `MarkAlwaysInline` | `setFunctionsAlwayInline` |
| `InjectInitializer` | D:696-751: fatal error without the struct; crash on a null function and on a function without parameters (D:700); crash, or an injection all the same, where the initializer has other than two parameters or F's first is no pointer |
| `InlineFunctions` | D:551-555; not enabled when a helper below F is recursive: the loop does not end |
| `SetNoInline` | D:557-566, for all functions of M |
| `OptimizeFunction` | D:568-571, only its effect on table stores |
| `ReplaceInstanceRefs`, `EraseTableStores` | D:577-586; the first one looks at the first parameter of F as well |
| `ExtractFunctions` | D:246-250, the result ignored |
| `OptimizeModule`, `WriteOutput` | D:252-270 |

`crash` stands for undefined behaviour that in practice is a null or dangling
pointer, or the failed assertion of an LLVM built with them. The call of the
initializer has two operands and F's first parameter gives way to a pointer, whatever
the two functions declare (D:700, D:745-750); where that does not fit, the outcome
depends on how LLVM was built, so `FitsInitializer` leaves both open. `MarkAlwaysInline` also sets alwaysinline on call instructions; nothing
in Squanchy reads that attribute, so it is left out.

## 3. Runs

| Run | Module, cfg | What it asks | Result |
|---|---|---|---|
| inliner | MCInliner, MCInliner.cfg | `WorklistLive`: no collected pointer dangles; `ResultIsUnfolded`: the calls left are those of the reference unfolding; `EndsOnlyIfItCan`: a module with a recursive or refused helper never gets past the loop; `ImplementsContract`; `Terminates`: without such helpers the loop ends | holds, 6 192 states |
| extract | MCExtract, MCExtract.cfg | `ClosureInv`, `ResultIsExtracted`, `FailureIsClean`, `NothingDangles`, `RecursiveIsSelfContained`, `Returns` | holds, 180 572 states |
| driver | MCDeobfuscator, MCDeobfuscator.cfg | `StaysDeobfuscated`, `InstanceOfProcessed`, `OutputIsRight` (types, `WrittenAttributesAgree`, `OutputHasRequested`), `FailsOnlyOnNames`, `Ends` | holds, 216 876 states |
| pass_loop | MCPassLoop, MCPassLoop.cfg | `NoMBALeft`: the loop ends only where SiMBA finds nothing more; `EndsAtFixedPoint`: if passes shrink what they change, another round would change nothing; `Terminates`: if passes do not undo each other, the rounds end; `StaleIsKnown` (`FirstRoundIsSound`, `StaleSeesReplacements`): cached analyses are stale in later rounds only, and only those that see SiMBA's replacements | holds, 385 802 states |
| command_line | MCCommandLine, MCCommandLine.cfg | `UsageErrorIsUsers`: the thresholds the program adds make no command line fail; `UserThresholdsKept` | holds, 39 030 states |
| rewrites | MCRewrites, MCRewrites.cfg | TableStores: `ErasesItsOwn` (`ErasedOnce`: a store is erased twice only if both its operands name the table; `OthersKept`), `ImplementsContract`; Instances: `InstanceIsReady` (`InitializedBeforeUse`, `OneInstance`) | holds, 231 600 states |
| runtime | MCRuntime, MCRuntime.cfg | WasmStack: `MemoryKept` (`FramesApart`, `ReadsBack`, `DataKept`, `NoWildAccess`), `PointerTells` (`Balanced`, `FreeTells`); WasmEnv: `Coherent`: all importers see one memory, `DynamicTopAfterMemory`; WasmTables: `PairedAsListed`: whichever instances wrote the one table and in whatever order, its entries pair the function and the instance that one of them was given together; `CallsAsOwn` (`AloneIsOwn`, `LastIsOwn`, `OnlyInstanceDiffers`) | holds, 939 397 states |
| printf | MCPrintf, MCPrintf.cfg | `CountsRight` (`WrittenIsCounted`, `ResultIsWritten`, `FirstPassIsSilent`), `ArgumentsRight` (`TakenInOrder`, `FetchedBeforeUse`), `Ends` | holds, 462 983 states |
| sample | MCSample, MCSample.cfg | `ExactlyTheArea` (Memcpy: `OnlyFrontCopied`, `CopiedAtEnd`, `WordsAligned`; Memset: `OnlyTheArea`, `AllOfTheArea`, `Aligned`; Memchr: `ReadsInside`, `Found`, `LengthBounded`), `Converted` (Numerals: `Printed`, `ReadAgain`; WideChar: `DecodedAgain`, `RefusedOnlyIfNone`; LongDouble: `Nearest`, `Specials`), `OutputHeld` (Stdio: `AcceptedIsHeld`, `FailedLeavesPart`, `NoLineWaits`), `ErrorStays`, `BitTricksRight` (Calc: types and `Deobfuscated`, the four branches are the four formulas), `AllReturn` | holds, 196 317 states |
| extraction_honoured | MCDeobfuscator, MCExtractionHonoured.cfg | the output holds only what was to be extracted | violated (finding 1) |
| module_name | MCDeobfuscator, MCModuleName.cfg | with the right `-module-name` the initializer is found | violated (2) |
| override | MCCommandLine, MCOverride.cfg | with -override no threshold has its default | violated (3) |

The types of the command line, the inliner, the extractor and the pass loop are proved
and not run; elsewhere they are the first part of a property of the run, and proved
with it.

Deadlock checking is off in all of them because a call of a function, and a run
of the program, end; the environment and the tables end at their bounds.

**Bounds.** MCInliner: four call sites, two in Root and one in each of two
helpers, over 1 440 programs; that is the smallest graph with two calls of one
helper, a chain of two helpers, a diamond, self-recursion, mutual recursion,
recursion through Root, asm, pointers, an undefined helper and a refused one.
`MaxDepth` and `MaxCalls` stop a new round once chains are longer than 3 or the
body has more than 3 calls; only recursive programs get there (a non-recursive
chain has at most 3 sites, and at most two calls are hot at a time), which
`Terminates` confirms: a bounded-out program that `CanFinish` would violate
`Terminates`. MCExtract: three functions, one possibly a declaration, five call
graphs (self-loop, mutual recursion, cycle of three, chains), a variable that
refers to a function, a data segment that may be missing, an alias; requests
mix names, patterns (one match, several, none), blocks and the three switches.
MCDeobfuscator: two program functions, one helper (possibly recursive), the
instantiate function and one runtime function, a module named `squanchy` or
not, compiled with and without -O0, and `-f` lists of one or two names:
repeated, in both orders, with a declaration, a helper, a runtime function; and modules
whose initializer has one or three parameters, or in which one of the two functions takes
no pointer first, or nothing. Two
names are enough for everything one name can do to another, as handling a third
starts from the same kind of module. `-extract-recursive` without extraction,
and `-replace-instance-refs` without injection on two names, change nothing the
model sees and are left out. MCPassLoop: three bodies are enough for passes that
undo each other directly or in a cycle of three, for a round that changes the
body and keeps the count, and for an early replacement the later passes hide.

The runs of the rest are built the same way: bounds are cut down together so that
every input of the small size is gone through and every border of the real code
is one of the small instance.

- MCCommandLine: four arguments, two thresholds; that is two more than a
  command line needs, so an option can be missing or given twice.
- MCRewrites: three stores in two functions and outside of them, with every
  pair of operands for two of them; bodies of up to three uses, and three
  injections. MCPassLoop: one analysis, which tells all bodies apart or does not see
  the difference between two of them.
- MCRuntime: two importers, pages of two bytes, two declarations (of less and of
  more than a page), two allocations; two instances of two among three
  modules, of which two can meet in the one array without a trap, and an array of three entries; 16 addresses, stack base 4, frames of two sizes, accesses
  of two bytes and three calls deep: two frames already go through 0. Importers
  and instances are symmetric; no liveness is checked there. `MaxStack` keeps the live frames below
  the whole address space less the data; the real code would need 4 GiB of frames.
- MCPrintf: every directive of one conversion with flags, width and precision,
  every prefix with every conversion, and formats of two or three items with
  positions, gaps, `%n` and failures; the largest int is 12, so widths and texts
  reach it, a width or a precision may be too large for getint, and the values have the least int, whose negation as a width wraps. A wide conversion with the zero flag, which C leaves undefined, is
  padded by the code on neither side although it is counted; `Regular` excepts it.
- MCSample: a stream buffer of four characters; pieces that fit, fill it, are too long,
  hold a line, or are refused by a conversion with pieces in front of and behind them. Numerals over a word of 64 values, every number of a double word.
  Wide characters at most three away from every border. Long doubles of
  2x7 bits to doubles of 7, every one of them. memcpy with blocks of eight bytes, the
  import from 24 on and addresses modulo 256, with every alignment of both areas, every
  length to 27 and the destination below and above the source. memset with every
  alignment modulo eight and every length to 135, over the four turns of the long
  loop. memchr with bytes of four values, so that a word has eight bits, in memories of
  one value but for two bytes. calc_0 with words of 8 bits and every argument, the
  constants of 32 bits cut to the word; that the 32 bits of the code show nothing else
  is the theorem `CalcRight`.

**Fairness.** One thread that never blocks: weak fairness of the next step,
nothing more, which says only that the process goes on executing. It is used by the
loops of the inliner and the pipeline, by `Returns` of the extractor, by `Ends` of
driver and printf, and by `AllReturn`, which is about the functions of the sample
that loop (the others end by their shape). In particular no fairness is assumed of
an individual call or queue element.

**Assumed use.** The driver's properties are stated under `Ordinary`: `-f` names
functions of the program and `-module-name` is the name wasm2c was given. The
commands of the instance also contain other uses (a helper or a runtime
function given to `-f`, a wrong name): they are explored, and there the
properties promise nothing.

These properties are weaker than one might first write; TLC or a proof that failed
shows why.

- `WrittenAttributesAgree` speaks of the module *written* by a plain extraction of
  helpers that are only called: while the run goes on, a helper of an -O0 module
  does lose noinline while it keeps optnone, a combination LLVM's verifier
  rejects, and with a recursive or switched-off extraction, or when a table of
  the program holds its address, such a helper may reach the output.
- `StaysDeobfuscated` and `OutputHasRequested` promise the definition of a name
  that something visible refers to (`Referred`): the clean-up after linking removes
  a local function nothing refers to. `StaysDeobfuscated` speaks of table writes
  only when optimization is on: at `-O 0` `replaceFUNCREF_TABLE` erases the store
  of the table's address and keeps the stores through it.
- `FailureIsClean` says for `-bb` what a failure leaves, as it cannot say "nothing
  changed": when a block is missing, the definitions that are not wanted have been
  deleted already (X:321-327), and the caller goes on with that module.
- `FailsOnlyOnNames` needs `OptionsFit` as well: a module wasm2c was told to name squanchy,
  an initializer with the two parameters the call gives it, and functions that take the
  instance first. The sample of the repository does not meet it: its initializer has three
  (src/samples/obf_1/obf_w2c.h:41-42), so with `-inject-initializer` the run may end in
  a crash, and the property promises nothing.
- `FailedLeavesPart` cannot say that a printf that fails leaves nothing in the buffer: a
  wide character that cannot be converted makes it return -1 with the pieces in front
  of it buffered (O:11648-11653, O:10522-10535), where the next call writes them. What it
  says is that what such a call leaves tells why it failed: an emptied buffer and the error
  flag, or exactly the pieces in front of the directive that was refused.
- `FramesApart` and `FreeTells` need `MaxStack`, and room for one alignment above
  it: an allocation of almost 4 GiB comes round to the pointer itself.
- `ArgumentsRight` is about formats C defines: with positions only, or without. The
  position 0 (`%*0$`), which the code accepts and never fetches, is no `Count`.

## 4. Findings

1. `extraction_honoured`: `deobfuscate` ignores the value `LLVMExtract`
   returns. A wasm module without data segments makes it return 1 at X:174-177
   before it changed anything, and the whole module is written with status 0.
2. `module_name`: `injectInitializer` looks the struct up under `-module-name`
   and the function under the fixed name `wasm2c_squanchy_instantiate`
   (D:741-747) and calls a null function for every other module. The run asks it of modules
   whose initializer and functions fit the call, so that nothing else is to blame.
3. `override`: `-override` is tested before the options are parsed
   (Squanchy.cpp:35) and never has an effect.

The models have the following as the code has it. No run asks about them, because
each is a constant of one line and not a sequence of steps:

- the initializer is called with two arguments (D:745) whatever wasm2c declared; the
  sample's has three parameters (src/samples/obf_1/obf_w2c.h:41-42). An LLVM with assertions
  stops there, one without writes a call that its verifier rejects;
- the precision of `%p` is raised to eight digits by an unsigned comparison
  (O:11360-11367), so that no precision, which is -1, stays none: the sample prints a
  pointer without leading zeros, and one with a precision too large is an error;
- the declared pages, 4096 in the runtime's own example (R:117), are divided by the
  page size in bytes (R:185) and become one;
- the memory is allocated as a 64-bit one (R:198) against the module's `is64` (R:119);
- the imported table base is 0 (R:229), that of the constants and of the runtime's
  own example 1 (R:112, R:26);
- all tables share one array (R:87), where wasm-rt.h:515 gives each its own;
- the header relies on guard pages by default (wasm-rt.h:142), the allocation has
  none (R:51);
- memcpy of 512 bytes or more does nothing in the sample: its import is
  commented out (O:9947); so is fd_write, whose first argument is then
  taken for its error (O:9212);
- calc_0 takes the signed remainder of n - 1 (O:2109), the function it is compared
  with the unsigned one of n (src/samples/obf_1/execute.c:8); main_0 compares calc with f5 (O:9121),
  which is iprintf in this module.

The last two are about the sample as it is in the repository, whose imports were
removed by hand so that it can be optimized alone.

## 5. Proofs

TLAPS checks the following for every value of the constants: every call graph
and set of programs, every module and request, every format and layout, whatever
the bounds of the runs. The assumptions are those the modules name; they say what
the code or the linker guarantees (a call refers to a name of the module, a segment
lies above the stack, 0 is among the values) and TLC evaluates each of them on its
instance.

**InlinerProofs** (assumptions: `GraphAssumption`, `ProgramsAssumption`,
`InlinerAssumption`; the set of functions is finite).

- `TypeCorrect`: `Spec => []TypeOK`.
- `PointersLive`: `Spec => []WorklistLive`. Inductive with the types, because
  the calls an inlining adds are strictly longer chains than the one it
  removes, so it removes no other element of the set.
- `NothingInvented`: `Spec => []CallsAreChains`; a clone of a chain by a call
  whose callee owns the next site is a chain again.
- `NothingIsLost`: every chain of the source that ends in a call that is not
  expanded is in Root, or has a prefix in Root. This is the strengthening that
  makes the result inductive: `ResultIsUnfolded` speaks of the last state only.
- `ChainsCorrect`: at the end the calls are those `InlineContract` asks for, from the two
  above and the exit condition (no hot call is left when the loop ends).
- `ResultCorrect`: `Spec => []ResultIsUnfolded`, which says the same of functions
  instead of chains: what the calls left lead to is what the driver takes from here.
- `InlinerImplementsContract`: `Spec => ImplementsContract`, the refinement.
  All steps but `StripAsm` stutter.
- `LoopEndsOnlyIfItCan`: `Spec => []EndsOnlyIfItCan`. `LengthInv`: while there are
  rounds, all chains longer than some number have a prefix in Root; past the test
  no chain is longer than it. Then no function is below itself
  (`NotBelowItself`: the longest chain that enters it would go on), and
  the number of functions below (`Below`) is the rank that `CanFinish` asks for.

**ExtractProofs** (assumptions: `ExtractionAssumption`, `ExtractAssumption`).

- `LookupInv` records what GVs holds and what has been tested before each of
  the seven lookups; `Contained` that GVs holds names of the module.
- `ClosureCorrect`: `Spec => []ClosureInv`, in every order of the queue. From
  it `ClosureExact`: on leaving the loop GVs equals `Wanted`, the least closed
  set (`CalleesWanted` for one inclusion, `WantedLeast` for the other).
- `ResultInv`, an invariant that follows the module from stage to stage, gives
  `ExtractCorrect` (`ResultIsExtracted`), `FailureCorrect` (`FailureIsClean`),
  `ReferencesResolve` (`NothingDangles`) and `SelfContained`
  (`RecursiveIsSelfContained`).
- `TypeCorrect`: `Spec => []TypeOK`.

**DriverProofs** (assumptions: `DeobfuscatorAssumption` and those of Extraction): for
every module, every set of helpers and runtime functions, every list of names.

- `DriverInvariant`: `Spec => []DriverInv`. What is done to one name is not
  inductive by itself: that it is not undone by the next needs what the whole
  module looks like in between. `ControlInv` says where the run is; `GraphInv` that
  the module only grows until it is cut, with no reference to a name that is gone,
  and that what something visible refers to stays referred to (a lemma about the
  least closed set that inlining leaves); `TurnInv` what each stage has left for
  the next in the handling of one name; `TableInv` and `InstanceInv` where table
  writes and instances can be while a name is being handled; `AttributeInv` the
  attributes of what is not requested; `CutInv` what a cut module cannot hold
  any more; `SettledInv` what is true of the names handled: among others that a call
  they keep leads to no helper that has a body *or gets one when the runtime is
  linked again*, which `StaysDeobfuscated` does not say and the second
  `LinkRuntime` needs.
- From it: `Deobfuscated` (`StaysDeobfuscated`), `ProcessedInstance`
  (`InstanceOfProcessed`), `RightOutput` (`OutputIsRight`, types included) and
  `FailsOnNames` (`FailsOnlyOnNames`).
- The step `InlineFunctions` and the loop of Inliner, for any call instructions behind
  the module (`Pictures`): `InlinesAsLoop`, from `SourcesReached` (the chains that
  can be expanded from F enter exactly the helpers the driver finds below it) and
  `InlinedCalls` (the functions called are those of `ResultIsUnfolded`);
  `StopsAsLoop`, from `EndlessIsUnfinished`: where no helper is below itself, the
  number of helpers below one is the rank that `CanFinish` asks for, and a rank
  leaves no helper below itself.

**RewritesProofs** (assumptions: `TableStoresAssumption`, `RewritesAssumption`).

- `Erasure`: `RewritesSpec => []ErasesItsOwn`, from `TableInv`: the vector has only
  stores that name the table, twice only those that name it on both sides, and
  a cleaned function has none of them left outside of the vector.
- `CleanupContract`: `RewritesSpec => []ImplementsContract`, that what is left after
  the cleanup is `Cleaned` of TableContract, the step of the driver.
- `InstanceReady`: `RewritesSpec => []InstanceIsReady`. `InitializedBeforeUse` is
  inductive with the types; `OneInv` says which instance each kind of instruction
  uses between the two steps as well, where those of a name given twice differ.

**PassLoopProofs** (assumptions: `LibrariesAssumption`, `AnalysesAssumption`).

- `TypeCorrect`: `Spec => []TypeOK`.
- `NothingLeft`: `Spec => []NoMBALeft`, from `FlagInv`: when the flag is down
  after the late pass, that pass found nothing in the body it left.
- `FixedPointReached`: `Spec => []EndsAtFixedPoint`, from `CountInv`: with
  passes that shrink, the count is at most the one the round started with, and
  as long as it is the same no pass of the round has changed anything.
- `StalenessKnown`: `CachedSpec => []StaleIsKnown`, from `StaleInv`: nothing is
  cached before the first pipeline of the manager, and what is cached of an analysis
  that no replacement disturbs fits the body there is.

**DriverProofs**, of main (assumption: `CommandLineAssumption`): for command lines of any
length and any finite set of thresholds.

- `MainTypes`: `MainSpec => []MainTypeOK`; an option that occurs once has a value of
  its kind, because the thresholds' names are not those of the other options.
- `UsageErrors`: `MainSpec => []UsageErrorIsUsers`, from `ArgvInvariant`: the list
  that is parsed is the one given, alone or with thresholds behind it.
- `ThresholdsKept`: `MainSpec => []UserThresholdsKept`, from `GivenOnce`: on an
  accepted list an option of LLVM occurs once, so its value is the user's.

**RuntimeProofs** (assumptions: `WasmStackAssumption`, `RuntimeAssumption`): for any
size of the address space, alignment, layout and number of importers and instances.

- `StackInvariant`: `RuntimeSpec => []StackInv`. `FramesApart` is not inductive with
  addresses that wrap; `FramesInv` counts how far below the base an address is
  instead (`Depth`): each frame is deeper than its caller's by its size at least, and
  never deeper than `MaxStack`. Two frames, and a frame and the data, are then
  apart because their depths are. With it `MemoryIsKept` (`MemoryKept`) and
  `PointerIsRight` (`PointerTells`).
- `MemoryCoherent` (`Coherent`) and `DynamicTopSet` (`DynamicTopAfterMemory`, an action
  property), from `EnvInv`: an importer that has a memory finds it set in the
  environment.
- `CallsPaired` (`PairedAsListed`) and `CallsRight` (`CallsAsOwn`), from `TablesInv`: an entry
  is one of a segment, with the instance it was copied for (`PairedIn`), what the last call ran is what the table held for it (`CalledInv`), the table of a
  single instance is its own (`AloneInv`), and without a write a table's content
  is a function of who came last (`UneditedInv`).

**LibraryProofs**, of Printf (assumption: `PrintfAssumption`): for every format, every
value of its arguments, every largest int and every number of positions.

- `CountedIsWritten`: `Spec => []CountsRight`, from `PrintfInvariant`. `CountInv` is the
  relation kept by every action of the second pass: what is written is what has been
  counted, and what is pending. `FlagInv` is why the padding adds up (`PadsFill`):
  with the flag for the left side the one for zeros is gone.
- `OwnArguments`: `Spec => []ArgumentsRight`. `SequenceInv`, without positions: what
  was taken is what the items before this one ask for, and what this one has asked
  for so far. `PositionInv`, with positions only: the first pass has found the types
  of what it has passed, then fetches exactly these, from the first on.
- Both use sums and sequences that are recursive functions. Their equations come from
  `Recursion`, which is proved by taking the least number where a function built step
  by step would fail: the natural numbers are well founded on a set, so that
  no operator is a parameter.

**LibraryProofs**, of Library (assumption: `LibraryAssumption`, what the seven modules
assume of their constants): for every call, every size of a memory, a block, a
byte, a word and a buffer, every division of a number into exponent and fraction.
`LibraryInvariant` is the invariant of the function that is run.

- `AreaIsWritten`: `LibrarySpec => []ExactlyTheArea`. `CpyInv` says at each label of
  memcpy that what is copied next fits; the comparison in front of the block loop
  (`BlocksFit`) is why the subtraction that wraps cannot let a block through. `SetInv`
  says which bytes memset has stored (`Covered`) when a path leaves: both ends, then
  as many words from both ends as the overlap needs, then everything up to the
  loop. `StoredBytes`: each byte of the multiplied word is the byte asked for, in a
  base of any size. `ChrInv`: memchr has passed over no byte it seeks, and has
  something left wherever it goes on looking. A whole word is passed over only if its
  trick finds no zero in it; `ZeroIsSeen`: a word with a byte that is zero is never
  missed, whether or not a borrow comes to the lowest of them from the byte below.
- `NumbersAreConverted`: `LibrarySpec => []Converted`. `NumInv`: the digits written so
  far take what is left to the number (`Continues`), across the change from a double
  word to a word; read again, the digits still to come take what was read to it,
  unless it was too large, which stays so. `WideInv` keeps the equations of each
  length; `SequenceOfTwo` and `SequenceOfFour` put the groups of six bits together.
  `LongInv`: the double that __trunctfdf2 returns is the nearest there is, the even one of
  two. No double lies between two multiples of the spacing next to each other
  (`BetweenDoubles`), and rounding what is kept by what is lost chooses between them
  (`NearestMultiple`), also when it carries into the exponent. For results below the
  normal ones the significand is shifted by both words first (`Shifted`), and what falls
  out is kept in one bit, by which the comparison with a half comes out the same
  (`Sticky`).
- `OutputIsHeld`: `LibrarySpec => []OutputHeld`, and `FailedStaysFailed`: `LibrarySpec =>
  ErrorStays`. `StdInv`: unless the stream failed, the buffer ends with the pieces
  printed so far (`Joined`), behind what it held before; a refusal leaves it so.

**CalcProofs** (assumption: `CalcAssumption`): for every argument and words of 3 to 32
bits.

- `CalcRight`: `Spec => []BitTricksRight`: each of the four obfuscated branches computes its
  formula, and the signed remainder chooses the one the property names
  (`BranchOfRemainder`).
- An obfuscated expression mixes two algebras, and the proof goes back and forth
  between them. In the one a word is the set of its bits: `BitsOfAnd` follows the recursion
  of the assumption, words with the same bits are equal (`SameBits`). In the other it is a
  number modulo `WordMod`: `SumWord` and `ProductSum` let a remainder be taken once, at
  the end. The bridge is `DisjointSum`: the sum of two words with no bit in common
  has the bits of both, whence `AsNumbers`: a is (a & b) plus (a & ~b), a | b is b
  plus (a & ~b), and so on for the others.
- The obfuscator's rules are lemmas stated once (`NotRules`, `OrRules`, `BitRules`,
  `ProductRules`), whose operators are those of Calc. Its constants come in pairs,
  of which one is the inverse of the other or they differ in few bits (`Opposites`,
  `Xors`); these facts are about the 32 bits of the constants (`BitsOfConstant`) and hold for their
  low bits, whatever W.
- `FirstBranch`, `SecondBranch`, `ThirdBranch` and `LastBranch` then go through the local
  variables in the order of the code and give each the simple expression it is.

Only model-checked: the liveness properties (`Terminates` of both loops, `Returns`, both
`Ends`, `AllReturn`), with the fairness they need. Every invariant and every action
property of the passing runs is stated by a theorem.

Each checked property has at least one mutant, an operator placed before the
definition it alters (its comment starts with "Mutant:"), that breaks it; a
property of several parts has one for most of them.

## 6. Plan

What is left: the loops of `fmt_fp`, whose digits of base 10^9 could become a base of
two as the bytes of memchr did; a run of the driver over the detailed inliner, which
would show on an instance what `InlinesAsLoop` and `StopsAsLoop` say of all; and
the ends of the loops, which need a prover for liveness.
