------------------------------ MODULE WasmStack ------------------------------
(***************************************************************************)
(* The linear memory and the stack of a wasm2c module as the sample module *)
(* src/samples/obf_1/obf_w2c.c has them: instantiation with its data       *)
(* segments, the checked loads and stores, and a stack pointer that calls  *)
(* and _emscripten_stack_alloc move in 32-bit arithmetic and nothing       *)
(* checks.  Addresses are scaled: W is 2^32.                               *)
(*                                                                         *)
(* The memory holds for each address who wrote it last: nobody (0), the    *)
(* frame of a call (its depth) or a data segment.                          *)
(***************************************************************************)
EXTENDS Integers, Sequences, FiniteSets

CONSTANTS
  W,           \* the addresses of 32 bits are 0 .. W - 1
  Align,       \* the alignment _emscripten_stack_alloc gives (16)
  StackBase,   \* the first stack pointer, w2c_g0 (65536)
  Modules,     \* linked modules as built, records [size, segments, checked]
  FrameSizes,  \* what the prologues of functions take
  AllocSizes,  \* what callers ask of _emscripten_stack_alloc
  Widths,      \* of loads and stores
  MaxDepth,    \* WASM_RT_MAX_CALL_STACK_DEPTH
  MaxStack     \* bound: the live frames together

AllSegments == Seq([at : Nat, len : Nat])

(* A module has memory, the linker puts the data above the stack, and the  *)
(* live frames stay below 4 GiB less what is above the stack.              *)
ASSUME WasmStackAssumption ==
  /\ W \in Nat /\ Align \in Nat \ {0} /\ StackBase \in 0 .. W - 1
  /\ FrameSizes \subseteq Nat /\ AllocSizes \subseteq Nat
  /\ Widths \subseteq Nat \ {0}
  /\ MaxDepth \in Nat /\ MaxStack \in Nat /\ MaxStack + Align <= W
  /\ \A m \in Modules :
       /\ m.size \in (StackBase .. W) \ {0}
       /\ m.segments \in AllSegments
       /\ m.checked \in BOOLEAN  \* WASM_RT_MEMCHECK_BOUNDS_CHECK
       /\ \A i \in 1 .. Len(m.segments) : m.segments[i].at >= StackBase
       /\ MaxStack <= W - m.size + StackBase

VARIABLES
  module,   \* the module that is run
  memory,   \* address -> who wrote it last
  loaded,   \* the data segments that are in the memory
  g0,       \* the stack pointer
  g2, g3,   \* the end and the base of the stack
  frames,   \* the live frames, records [base, size, alloc, saved, written]
  status    \* "new", "running", "trapped" or "wild"

vars == <<module, memory, loaded, g0, g2, g3, frames, status>>

Data == MaxDepth + 1
Address == 0 .. W - 1

(* Mutant: the difference is taken in more than 32 bits. *)
SubWide(a, b) == a - b

(* u32 arithmetic, and the masking of the low bits.                        *)
Sub(a, b) == IF b <= a THEN a - b ELSE a - b + W
Add(a, b) == IF a + b < W THEN a + b ELSE a + b - W
AlignDown(a) == a - (a % Align)

(* How far an address is below the base of the stack, going through 0.     *)
Depth(a) == Sub(StackBase, a)

Init ==
  /\ module \in Modules
  /\ memory = <<>> /\ loaded = 0
  /\ g0 = 0 /\ g2 = 0 /\ g3 = 0
  /\ frames = <<>>
  /\ status = "new"

(* Mutant: the sum is taken in 32 bits. *)
InRangeWrapped(at, len) == Add(at, len) <= module.size

(* RANGE_CHECK: the sum is taken in 64 bits.                               *)
InRange(at, len) == at + len <= module.size

(* An access of the host's memory that passed the check.                   *)
Inside(at, len) == at + len <= module.size

(* init_globals and the allocation of init_memories.                       *)
Instantiate ==
  /\ status = "new" /\ loaded = 0 /\ memory = <<>>
  /\ g0' = StackBase /\ g2' = 0 /\ g3' = 0
  /\ memory' = [a \in 0 .. module.size - 1 |-> 0]
  /\ status' = IF module.segments = <<>> THEN "running" ELSE "new"
  /\ UNCHANGED <<module, loaded, frames>>

(* LOAD_DATA: one segment after the other; a trap leaves the earlier ones. *)
LoadData ==
  /\ status = "new" /\ memory # <<>>
  /\ LET s == module.segments[loaded + 1] IN
     IF ~InRange(s.at, s.len)
     THEN /\ status' = "trapped"
          /\ UNCHANGED <<memory, loaded>>
     ELSE /\ memory' = [a \in DOMAIN memory |->
                          IF a \in s.at .. s.at + s.len - 1 THEN Data ELSE memory[a]]
          /\ loaded' = loaded + 1
          /\ status' = IF ~Inside(s.at, s.len) THEN "wild"
                       ELSE IF loaded' = Len(module.segments) THEN "running"
                       ELSE "new"
  /\ UNCHANGED <<module, g0, g2, g3, frames>>

(* Mutant: the end of the stack is left unaligned. *)
StackInitUnaligned ==
  /\ status = "running"
  /\ g3' = StackBase /\ g2' = Align - 1
  /\ UNCHANGED <<module, memory, loaded, g0, frames, status>>

(* emscripten_stack_init, by __wasm_call_ctors or by itself.               *)
StackInit ==
  /\ status = "running"
  /\ g3' = StackBase /\ g2' = AlignDown(Align - 1)
  /\ UNCHANGED <<module, memory, loaded, g0, frames, status>>

(* A new frame of n bytes from base on; the second conjunct is the bound:  *)
(* what the live frames take, and what they take with their alignment.     *)
Push(base, n, alloc) ==
  /\ status = "running" /\ Len(frames) < MaxDepth
  /\ Depth(g0) + n <= MaxStack /\ Depth(base) <= MaxStack
  /\ g0' = base
  /\ frames' = Append(frames, [base |-> base, size |-> n, alloc |-> alloc,
                               saved |-> g0, written |-> {}])
  /\ UNCHANGED <<module, memory, loaded, g2, g3, status>>

(* The prologue of a function that keeps locals in memory.                 *)
Call(n) == Push(Sub(g0, n), n, FALSE)

(* Mutant: the mask rounds up. *)
StackAllocUp(n) ==
  Push(Sub(g0, AlignDown(n)), n, TRUE)

(* _emscripten_stack_alloc.                                                *)
StackAlloc(n) == Push(AlignDown(Sub(g0, n)), n, TRUE)

(* FUNC_PROLOGUE where the depth is counted.                               *)
Exhausted ==
  /\ status = "running" /\ Len(frames) = MaxDepth
  /\ status' = "trapped"
  /\ UNCHANGED <<module, memory, loaded, g0, g2, g3, frames>>

Pop(pointer) ==
  /\ status = "running" /\ frames # <<>>
  /\ g0' = pointer
  /\ frames' = SubSeq(frames, 1, Len(frames) - 1)
  /\ UNCHANGED <<module, memory, loaded, g2, g3, status>>

(* Mutant: the epilogue of a function that allocated forgets its own frame. *)
RestoreBase == Pop(frames[Len(frames)].base)

(* An epilogue adds to its base what the prologue took ...                 *)
Return ==
  /\ frames # <<>>
  /\ LET top == frames[Len(frames)] IN ~top.alloc /\ Pop(Add(top.base, top.size))

(* ... and _emscripten_stack_restore brings back a pointer.                *)
Restore == Pop(frames[Len(frames)].saved)

(* MEMCHECK: where the build relies on guard pages it checks nothing, and  *)
(* wasm_rt_allocate_memory puts no guard pages around what calloc gives.   *)
Passes(at, len) == module.checked => InRange(at, len)

Access(at, len, done) ==
  /\ status = "running"
  /\ IF ~Passes(at, len)
     THEN status' = "trapped" /\ UNCHANGED <<memory, frames>>
     ELSE IF ~Inside(at, len)
     THEN status' = "wild" /\ UNCHANGED <<memory, frames>>
     ELSE status' = status /\ done
  /\ UNCHANGED <<module, loaded, g0, g2, g3>>

(* A load from an address of 32 bits and a constant offset, added in 64.   *)
Load(a, offset, len) == Access(a + offset, len, UNCHANGED <<memory, frames>>)

Touch(at, i, o, len) ==
  Access(at, len,
    /\ memory' = [a \in DOMAIN memory |-> IF a \in at .. at + len - 1 THEN i ELSE memory[a]]
    /\ frames' = [frames EXCEPT ![i].written = @ \cup (o .. o + len - 1)])

(* A store into a live frame: of a local by its constant offset, or through *)
(* an address that was computed in 32 bits.                                 *)
StoreLocal(i, o, len) == Touch(frames[i].base + o, i, o, len)
StoreThrough(i, o, len) == Touch(Add(frames[i].base, o), i, o, len)

Next ==
  \/ Instantiate
  \/ LoadData
  \/ StackInit
  \/ \E n \in FrameSizes : Call(n)
  \/ \E n \in AllocSizes : StackAlloc(n)
  \/ Exhausted
  \/ Return
  \/ Restore
  \/ \E a, offset \in Address, len \in Widths : Load(a, offset, len)
  \/ \E i \in 1 .. Len(frames), len \in Widths :
       \E o \in 0 .. frames[i].size - len :
         StoreLocal(i, o, len) \/ StoreThrough(i, o, len)

Spec == Init /\ [][Next]_vars
-----------------------------------------------------------------------------
Frame == [base : Address, size : Nat, alloc : BOOLEAN, saved : Address,
          written : SUBSET Nat]

TypeOK ==
  /\ module \in Modules
  /\ memory = <<>> \/ memory \in [0 .. module.size - 1 -> 0 .. Data]
  /\ loaded \in 0 .. Len(module.segments)
  /\ g0 \in Address /\ g2 \in Address /\ g3 \in Address
  /\ frames \in Seq(Frame)
  /\ status \in {"new", "running", "trapped", "wild"}

(* The addresses of a frame, which may go through 0.                       *)
Extent(f) == {Add(f.base, o) : o \in 0 .. f.size - 1}

(* However the stack pointer was moved and however often it went through   *)
(* 0, no two live frames have an address in common.                        *)
FramesApart ==
  \A i, j \in DOMAIN frames : i # j => Extent(frames[i]) \cap Extent(frames[j]) = {}

(* What a frame wrote and was not overwritten by itself is still there: no *)
(* call, return or trap between the write and now took the place.          *)
ReadsBack ==
  \A i \in DOMAIN frames : \A o \in frames[i].written :
    LET a == Add(frames[i].base, o) IN a \in DOMAIN memory /\ memory[a] = i

(* A stack that overflows does not reach the data segments: its stores     *)
(* trap, and what was loaded stays.                                        *)
DataKept ==
  \A n \in 1 .. loaded :
    \A a \in module.segments[n].at .. module.segments[n].at + module.segments[n].len - 1 :
      memory[a] = Data

(* No load, store or segment goes beyond the memory that was allocated.    *)
NoWildAccess == module.checked => status # "wild"

(* emscripten_stack_get_free gives more than the whole stack exactly when  *)
(* the stack has overflowed: the only sign of it before an access.         *)
FreeTells ==
  g3 # 0 => (Sub(g0, g2) > Sub(g3, g2) <=> Depth(g0) > StackBase)

(* Epilogues and _emscripten_stack_restore agree on the pointer the caller *)
(* had, whatever was allocated in between.                                 *)
Caller(i) == IF i = 1 THEN StackBase ELSE frames[i - 1].base
Balanced ==
  /\ \A i \in DOMAIN frames :
       /\ frames[i].saved = Caller(i)
       /\ ~frames[i].alloc => Add(frames[i].base, frames[i].size) = Caller(i)
  /\ memory # <<>> => g0 = Caller(Len(frames) + 1)
=============================================================================
