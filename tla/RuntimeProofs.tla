---------------------------- MODULE RuntimeProofs ----------------------------
(***************************************************************************)
(* Proofs about Runtime: of its stack, its environment and its tables.     *)
(***************************************************************************)
EXTENDS Runtime, TLAPS

(* Each of the three runs as its own specification says.                   *)
LEMMA PartsRun == RuntimeSpec => Spec /\ Env!Spec /\ Tables!Spec
<1>1. RuntimeInit => Init /\ Env!Init /\ Tables!Init  BY DEF RuntimeInit
<1>2. [RuntimeNext]_<<part, vars, environment, tables>> => [Next]_vars
  BY DEF RuntimeNext, vars
<1>3. [RuntimeNext]_<<part, vars, environment, tables>> => [Env!Next]_(Env!vars)
  BY DEF RuntimeNext, environment, Env!vars
<1>4. [RuntimeNext]_<<part, vars, environment, tables>> => [Tables!Next]_(Tables!vars)
  BY DEF RuntimeNext, tables, Tables!vars
<1> QED  BY <1>1, <1>2, <1>3, <1>4, PTL DEF RuntimeSpec, Spec, Env!Spec, Tables!Spec
-----------------------------------------------------------------------------
(* Subtraction in 32 bits stays in 32 bits, an addition takes it back, and *)
(* as long as it does not go through the base it counts how deep it is.    *)
LEMMA SubFacts ==
  ASSUME NEW a \in Address, NEW n \in Nat, n < W
  PROVE  /\ Sub(a, n) \in Address
         /\ Add(Sub(a, n), n) = a
         /\ Depth(a) + n < W => Depth(Sub(a, n)) = Depth(a) + n
<1>1. a \in Nat /\ a < W /\ W \in Nat /\ StackBase \in Nat /\ StackBase < W
  BY WasmStackAssumption DEF Address
<1>2. CASE n <= a  BY <1>1, <1>2 DEF Address, Sub, Add, Depth
<1>3. CASE n > a  BY <1>1, <1>3 DEF Address, Sub, Add, Depth
<1> QED  BY <1>1, <1>2, <1>3

(* Masking goes down by less than the alignment.                           *)
LEMMA AlignFacts ==
  ASSUME NEW a \in Nat
  PROVE  AlignDown(a) \in 0 .. a /\ a - AlignDown(a) < Align
<1>1. Align \in Nat /\ Align > 0  BY WasmStackAssumption
<1>2. a % Align \in 0 .. Align - 1  BY <1>1
<1>3. a % Align <= a  BY <1>1
<1> QED  BY <1>1, <1>2, <1>3 DEF AlignDown

(* What is below the alignment is masked to nothing.                       *)
LEMMA AlignSmall == AlignDown(Align - 1) = 0
<1>1. Align \in Nat /\ Align > 0  BY WasmStackAssumption
<1>2. (Align - 1) % Align = Align - 1  BY <1>1
<1> QED  BY <1>1, <1>2 DEF AlignDown

(* An address that is masked gets deeper by less than the alignment.       *)
LEMMA AlignDepth ==
  ASSUME NEW a \in Address, Depth(a) + Align <= W
  PROVE  /\ AlignDown(a) \in Address
         /\ Depth(a) <= Depth(AlignDown(a)) /\ Depth(AlignDown(a)) < Depth(a) + Align
<1>1. a \in Nat /\ a < W  BY WasmStackAssumption DEF Address
<1>2. AlignDown(a) \in 0 .. a /\ a - AlignDown(a) < Align  BY <1>1, AlignFacts
<1> DEFINE b == AlignDown(a)
<1> HIDE DEF b
<1>3. b \in 0 .. a /\ a - b < Align  BY <1>2 DEF b
<1>4. b \in Address /\ Depth(a) <= Depth(b) /\ Depth(b) < Depth(a) + Align
  BY <1>1, <1>3, WasmStackAssumption DEF Address, Depth, Sub
<1> QED  BY <1>4 DEF b

(* The address of a byte of a frame is as much less deep as it is above    *)
(* the frame's base.                                                       *)
LEMMA OffsetDepth ==
  ASSUME NEW base \in Address, NEW o \in Nat, o < Depth(base)
  PROVE  /\ Add(base, o) \in Address
         /\ Depth(Add(base, o)) = Depth(base) - o
BY WasmStackAssumption DEF Address, Add, Sub, Depth

(* Addresses as deep as each other are the same.                           *)
LEMMA DepthTells ==
  ASSUME NEW a \in Address, NEW b \in Address, Depth(a) = Depth(b)
  PROVE  a = b
BY WasmStackAssumption DEF Address, Sub, Depth

(* A depth is a number of 32 bits, and that of the base is zero.           *)
LEMMA DepthType ==
  /\ \A a \in Address : Depth(a) \in Nat /\ Depth(a) < W
  /\ StackBase \in Address /\ Depth(StackBase) = 0
BY WasmStackAssumption DEF Address, Sub, Depth

(* What is above the base in the memory is deeper than any frame gets.     *)
LEMMA DataDepth ==
  ASSUME NEW m \in Modules, NEW a \in Nat, a >= StackBase, a < m.size
  PROVE  a \in Address /\ (Depth(a) = 0 \/ Depth(a) > MaxStack)
<1>1. m.size \in Nat /\ m.size <= W /\ MaxStack <= W - m.size + StackBase
  BY WasmStackAssumption
<1> QED  BY <1>1, WasmStackAssumption DEF Address, Sub, Depth
-----------------------------------------------------------------------------
(* Before the memory is there nothing happened, what is not instantiated   *)
(* has no frames and segments left to load, those that are loaded fit, and *)
(* the stack's bounds are those of the linker.                             *)
PhaseInv ==
  /\ memory = <<>> => status = "new" /\ loaded = 0
  /\ status = "new" =>
       frames = <<>> /\ (memory # <<>> => loaded < Len(module.segments))
  /\ \A n \in 1 .. loaded : InRange(module.segments[n].at, module.segments[n].len)
  /\ g2 = 0 /\ g3 \in {0, StackBase}

(* Every frame is as much deeper than its caller's as its size, the bound  *)
(* is not passed, and the frames get deeper one after the other.           *)
FrameInv(i) ==
  /\ Depth(frames[i].saved) + frames[i].size <= Depth(frames[i].base)
  /\ Depth(frames[i].base) <= MaxStack
  /\ frames[i].written \subseteq 0 .. frames[i].size - 1
  /\ Depth(frames[i].base) <= Depth(g0)
  /\ \A j \in DOMAIN frames : i < j => Depth(frames[i].base) <= Depth(frames[j].saved)

FramesInv == Len(frames) <= MaxDepth /\ \A i \in DOMAIN frames : FrameInv(i)

StackInv ==
  /\ TypeOK /\ PhaseInv /\ FramesInv /\ Balanced
  /\ ReadsBack /\ DataKept /\ NoWildAccess

(* The elements of a sequence.                                             *)
LEMMA Elements ==
  ASSUME NEW S, NEW s \in Seq(S)
  PROVE  /\ Len(s) \in Nat /\ DOMAIN s = 1 .. Len(s)
         /\ \A i \in DOMAIN s : s[i] \in S
OBVIOUS

(* A sequence is empty when it has no elements.                            *)
LEMMA EmptySequence ==
  ASSUME NEW S, NEW s \in Seq(S)
  PROVE  s = <<>> <=> Len(s) = 0
OBVIOUS

(* The bytes of a segment that fits are in the memory, above the base.     *)
LEMMA SegmentInside ==
  ASSUME NEW at \in Nat, NEW len \in Nat, NEW size \in Nat, NEW base \in Nat,
         at >= base, at + len <= size, NEW a \in at .. at + len - 1
  PROVE  a \in Nat /\ a >= base /\ a < size
OBVIOUS

(* A state that has the types has frames of these types.                   *)
LEMMA FrameTypes ==
  ASSUME TypeOK
  PROVE  /\ Len(frames) \in Nat /\ DOMAIN frames = 1 .. Len(frames)
         /\ \A i \in DOMAIN frames :
              /\ frames[i] \in Frame
              /\ frames[i].base \in Address /\ frames[i].saved \in Address
              /\ frames[i].size \in Nat /\ frames[i].alloc \in BOOLEAN
              /\ frames[i].written \subseteq Nat
<1>1. frames \in Seq(Frame)  BY DEF TypeOK
<1>2. Len(frames) \in Nat /\ DOMAIN frames = 1 .. Len(frames)
      /\ \A i \in DOMAIN frames : frames[i] \in Frame
  BY <1>1, Elements
<1> QED  BY <1>2 DEF Frame

(* A module has memory, of a size and with segments of these types.        *)
LEMMA ModuleTypes ==
  ASSUME NEW m \in Modules
  PROVE  /\ m.size \in Nat \ {0} /\ m.size <= W /\ m.checked \in BOOLEAN
         /\ m.segments \in AllSegments
         /\ Len(m.segments) \in Nat /\ DOMAIN m.segments = 1 .. Len(m.segments)
         /\ m.segments = <<>> <=> Len(m.segments) = 0
         /\ \A n \in 1 .. Len(m.segments) :
              /\ m.segments[n].at \in Nat /\ m.segments[n].len \in Nat
              /\ m.segments[n].at >= StackBase
<1>1. m.segments \in Seq([at : Nat, len : Nat])
  BY WasmStackAssumption DEF AllSegments
<1>2. m.size \in Nat \ {0} /\ m.size <= W /\ m.checked \in BOOLEAN
  BY WasmStackAssumption
<1>3. Len(m.segments) \in Nat /\ DOMAIN m.segments = 1 .. Len(m.segments)
      /\ \A n \in DOMAIN m.segments : m.segments[n] \in [at : Nat, len : Nat]
  BY <1>1, Elements
<1>4. \A n \in 1 .. Len(m.segments) : m.segments[n].at >= StackBase
  BY WasmStackAssumption
<1>5. \A n \in 1 .. Len(m.segments) :
        m.segments[n].at \in Nat /\ m.segments[n].len \in Nat
  BY <1>3
<1>6. m.segments = <<>> <=> Len(m.segments) = 0  BY <1>1, EmptySequence
<1>7. m.segments \in AllSegments  BY <1>1 DEF AllSegments
<1> QED  BY <1>2, <1>3, <1>4, <1>5, <1>6, <1>7

(* A byte of a segment that fits is in the memory, above the base.         *)
LEMMA LoadedInside ==
  ASSUME module \in Modules,
         NEW n \in 1 .. Len(module.segments),
         InRange(module.segments[n].at, module.segments[n].len),
         NEW a \in module.segments[n].at
                     .. module.segments[n].at + module.segments[n].len - 1
  PROVE  a \in Nat /\ a >= StackBase /\ a < module.size
<1> DEFINE at == module.segments[n].at
           len == module.segments[n].len
           size == module.size
<1>1. at \in Nat /\ len \in Nat /\ at >= StackBase /\ size \in Nat
  BY ModuleTypes
<1>2. StackBase \in Nat  BY WasmStackAssumption
<1>3. at + len <= size  BY DEF InRange
<1>4. a \in at .. at + len - 1  OBVIOUS
<1> HIDE DEF at, len, size
<1>5. a \in Nat /\ a >= StackBase /\ a < size
  BY <1>1, <1>2, <1>3, <1>4, SegmentInside
<1> QED  BY <1>5 DEF size

(* The first state.                                                        *)
LEMMA StackStarts == Init => StackInv
<1> SUFFICES ASSUME Init PROVE StackInv  OBVIOUS
<1>1. module \in Modules /\ memory = <<>> /\ loaded = 0 /\ g0 = 0 /\ g2 = 0
      /\ g3 = 0 /\ frames = <<>> /\ status = "new"
  BY DEF Init
<1>2. Len(module.segments) \in Nat  BY <1>1, ModuleTypes
<1>3. 0 \in Address  BY WasmStackAssumption DEF Address
<1>4. TypeOK  BY <1>1, <1>2, <1>3 DEF TypeOK
<1>5. PhaseInv  BY <1>1 DEF PhaseInv, InRange
<1>6. DOMAIN frames = {} /\ Len(frames) = 0  BY <1>1
<1>7. FramesInv  BY <1>6, WasmStackAssumption DEF FramesInv
<1>8. Balanced /\ ReadsBack /\ DataKept /\ NoWildAccess
  BY <1>1, <1>6 DEF Balanced, ReadsBack, DataKept, NoWildAccess
<1> QED  BY <1>4, <1>5, <1>7, <1>8 DEF StackInv

(* The memory is allocated once, with nothing in it and an empty stack.    *)
LEMMA InstantiateKeeps ==
  ASSUME StackInv, Instantiate
  PROVE  StackInv'
<1>1. /\ module' = module /\ loaded' = loaded /\ frames' = frames /\ loaded = 0
      /\ g0' = StackBase /\ g2' = 0 /\ g3' = 0 /\ status = "new" /\ memory = <<>>
      /\ memory' = [a \in 0 .. module.size - 1 |-> 0]
      /\ status' = IF module.segments = <<>> THEN "running" ELSE "new"
  BY DEF Instantiate
<1>2. frames = <<>> /\ DOMAIN frames = {} /\ Len(frames) = 0
  BY <1>1 DEF StackInv, PhaseInv
<1>3. module \in Modules  BY DEF StackInv, TypeOK
<1>4. StackBase \in Address /\ 0 \in Address  BY WasmStackAssumption DEF Address
<1>5. memory' \in [0 .. module.size - 1 -> 0 .. Data]
  BY <1>1, WasmStackAssumption DEF Data
<1>6. memory' # <<>>
  <2>1. 0 \in DOMAIN memory'  BY <1>1, <1>3, ModuleTypes
  <2> QED  BY <2>1
<1>7. TypeOK'  BY <1>1, <1>2, <1>3, <1>4, <1>5 DEF TypeOK, StackInv
<1>8. PhaseInv'  BY <1>1, <1>2, <1>3, <1>6, ModuleTypes DEF PhaseInv, InRange
<1>9. FramesInv'  BY <1>1, <1>2, WasmStackAssumption DEF FramesInv
<1>10. Balanced' /\ ReadsBack' /\ DataKept' /\ NoWildAccess'
  BY <1>1, <1>2 DEF Balanced, Caller, ReadsBack, DataKept, NoWildAccess
<1> QED  BY <1>7, <1>8, <1>9, <1>10 DEF StackInv

(* A segment that fits is loaded over what is there.                       *)
LEMMA LoadDataKeeps ==
  ASSUME StackInv, LoadData
  PROVE  StackInv'
<1> DEFINE s == module.segments[loaded + 1]
<1>1. /\ module' = module /\ g0' = g0 /\ g2' = g2 /\ g3' = g3 /\ frames' = frames
      /\ status = "new" /\ memory # <<>>
  BY DEF LoadData
<1>2. /\ module \in Modules /\ memory \in [0 .. module.size - 1 -> 0 .. Data]
      /\ frames = <<>> /\ DOMAIN frames = {} /\ Len(frames) = 0
      /\ loaded \in Nat /\ loaded < Len(module.segments)
  BY <1>1, ModuleTypes DEF StackInv, TypeOK, PhaseInv
<1>3. s.at \in Nat /\ s.len \in Nat /\ loaded + 1 \in 1 .. Len(module.segments)
  BY <1>2, ModuleTypes
<1>4. CASE ~InRange(s.at, s.len)
  <2>1. status' = "trapped" /\ memory' = memory /\ loaded' = loaded
    BY <1>4 DEF LoadData
  <2> QED
    BY <1>1, <1>2, <2>1 DEF StackInv, TypeOK, PhaseInv, InRange, FramesInv, FrameInv, Balanced,
      Caller, ReadsBack, DataKept, NoWildAccess
<1>5. CASE InRange(s.at, s.len)
  <2>1. /\ memory' = [a \in DOMAIN memory |->
                       IF a \in s.at .. s.at + s.len - 1 THEN Data ELSE memory[a]]
        /\ loaded' = loaded + 1
        /\ status' = IF loaded' = Len(module.segments) THEN "running" ELSE "new"
    BY <1>5 DEF LoadData, InRange, Inside
  <2>2. Data \in 0 .. Data  BY WasmStackAssumption DEF Data
  <2>3. memory' \in [0 .. module.size - 1 -> 0 .. Data]  BY <1>2, <2>1, <2>2
  <2>4. memory' # <<>>
    <3>1. 0 \in DOMAIN memory'  BY <1>2, <2>3, ModuleTypes
    <3> QED  BY <3>1
  <2>5. TypeOK'  BY <1>1, <1>2, <1>3, <2>1, <2>3 DEF StackInv, TypeOK
  <2>6. PhaseInv'
    <3>1. \A n \in 1 .. loaded' :
            InRange(module.segments[n].at, module.segments[n].len)
      <4>1. \A n \in 1 .. loaded' : n = loaded + 1 \/ n \in 1 .. loaded  BY <1>2, <2>1
      <4> QED  BY <1>5, <4>1 DEF StackInv, PhaseInv
    <3> QED  BY <1>1, <1>2, <1>3, <2>1, <2>4, <3>1 DEF StackInv, PhaseInv, InRange
  <2>7. FramesInv' /\ Balanced' /\ ReadsBack'
    BY <1>1, <1>2, <2>1 DEF StackInv, FramesInv, Balanced, Caller, ReadsBack
  <2>8. DataKept'
    <3> SUFFICES ASSUME NEW n \in 1 .. loaded + 1,
                        NEW a \in module.segments[n].at
                                    .. module.segments[n].at + module.segments[n].len - 1
                 PROVE  memory'[a] = Data
      BY <1>1, <2>1 DEF DataKept
    <3>1. n \in 1 .. Len(module.segments)  BY <1>2
    <3>2. module.segments[n].at \in Nat /\ module.segments[n].len \in Nat
      BY <1>2, <3>1, ModuleTypes
    <3>3. InRange(module.segments[n].at, module.segments[n].len)
      <4>1. n = loaded + 1 \/ n \in 1 .. loaded  BY <1>2
      <4> QED  BY <1>5, <4>1 DEF StackInv, PhaseInv
    <3>4. a \in Nat /\ a < module.size  BY <1>2, <3>1, <3>3, LoadedInside
    <3>5. a \in DOMAIN memory
      <4>1. DOMAIN memory = 0 .. module.size - 1 /\ module.size \in Nat
        BY <1>2, ModuleTypes
      <4> QED  BY <3>4, <4>1
    <3>6. CASE n = loaded + 1  BY <2>1, <3>5, <3>6
    <3>7. CASE n # loaded + 1
      <4>1. n \in 1 .. loaded  BY <1>2, <3>7
      <4>2. memory[a] = Data  BY <4>1 DEF StackInv, DataKept
      <4> QED  BY <2>1, <3>5, <4>2
    <3> QED  BY <3>6, <3>7
  <2>9. NoWildAccess'  BY <2>1 DEF NoWildAccess
  <2> QED  BY <2>5, <2>6, <2>7, <2>8, <2>9 DEF StackInv
<1> QED  BY <1>4, <1>5

(* A frame of n bytes that ends at the stack pointer is put on the others. *)
LEMMA PushKeeps ==
  ASSUME StackInv,
         NEW base \in Address, NEW n \in Nat, NEW alloc \in BOOLEAN,
         Depth(g0) + n <= Depth(base),
         ~alloc => Add(base, n) = g0,
         Push(base, n, alloc)
  PROVE  StackInv'
<1> DEFINE new == [base |-> base, size |-> n, alloc |-> alloc, saved |-> g0, written |-> {}]
<1>0. PICK N \in Nat : N = Len(frames)  BY FrameTypes DEF StackInv
<1>1. /\ module' = module /\ memory' = memory /\ loaded' = loaded
      /\ g2' = g2 /\ g3' = g3 /\ status' = status /\ status = "running"
      /\ g0' = base /\ N < MaxDepth
      /\ Depth(base) <= MaxStack
      /\ frames' = Append(frames, new)
  BY <1>0 DEF Push
<1>2. TypeOK  BY DEF StackInv
<1>3. g0 \in Address /\ Depth(g0) \in Nat /\ Depth(base) \in Nat
  BY <1>2, DepthType, WasmStackAssumption DEF TypeOK
<1>4. new \in Frame  BY <1>3 DEF Frame
<1>5. /\ frames' \in Seq(Frame) /\ Len(frames') = N + 1 /\ N \in Nat
      /\ DOMAIN frames' = 1 .. N + 1 /\ DOMAIN frames = 1 .. N
      /\ \A i \in 1 .. N : frames'[i] = frames[i]
      /\ frames'[N + 1] = new
  <2> HIDE DEF new
  <2> QED  BY <1>0, <1>1, <1>2, <1>4, FrameTypes DEF TypeOK
<1>6. TypeOK'  BY <1>1, <1>2, <1>5 DEF TypeOK
<1>7. memory # <<>>  BY <1>1 DEF StackInv, PhaseInv
<1>8. PhaseInv'  BY <1>1 DEF StackInv, PhaseInv, InRange
<1>9. \A i \in 1 .. N + 1 : Caller(i)' = Caller(i)
  <2> SUFFICES ASSUME NEW i \in 1 .. N + 1 PROVE Caller(i)' = Caller(i)  OBVIOUS
  <2>1. CASE i = 1  BY <2>1 DEF Caller
  <2>2. CASE i # 1  BY <1>5, <2>2 DEF Caller
  <2> QED  BY <2>1, <2>2
<1>10. g0 = Caller(N + 1)  BY <1>0, <1>7 DEF StackInv, Balanced
<1>11. \A i \in 1 .. N : frames[i].saved = Caller(i)
                         /\ (~frames[i].alloc => Add(frames[i].base, frames[i].size) = Caller(i))
  BY <1>5 DEF StackInv, Balanced
<1>12. Balanced'
  <2>1. \A i \in 1 .. N + 1 :
          /\ frames'[i].saved = Caller(i)
          /\ ~frames'[i].alloc => Add(frames'[i].base, frames'[i].size) = Caller(i)
    <3> TAKE i \in 1 .. N + 1
    <3>1. CASE i = N + 1  BY <1>5, <1>10, <3>1
    <3>2. CASE i # N + 1  BY <1>5, <1>11, <3>2
    <3> QED  BY <3>1, <3>2
  <2>2. g0' = Caller(N + 2)'  BY <1>1, <1>5 DEF Caller
  <2> QED  BY <1>5, <1>9, <2>1, <2>2 DEF Balanced
<1>13. \A i \in 1 .. N : FrameInv(i)  BY <1>5 DEF StackInv, FramesInv
<1>14. FramesInv'
  <2>1. N + 1 <= MaxDepth  BY <1>1, <1>5, WasmStackAssumption
  <2>2. FrameInv(N + 1)'
    <3>1. \A j \in 1 .. N + 1 : ~(N + 1 < j)  BY <1>5
    <3>2. Depth(g0) + n <= Depth(base) /\ Depth(base) <= MaxStack /\ Depth(base) <= Depth(g0)'
      BY <1>1, <1>3 DEF Depth, Sub
    <3> QED  BY <1>5, <3>1, <3>2 DEF FrameInv, Depth, Sub
  <2>3. ASSUME NEW i \in 1 .. N PROVE FrameInv(i)'
    <3>1. /\ Depth(frames[i].saved) + frames[i].size <= Depth(frames[i].base)
          /\ Depth(frames[i].base) <= MaxStack
          /\ frames[i].written \subseteq 0 .. frames[i].size - 1
          /\ Depth(frames[i].base) <= Depth(g0)
          /\ \A j \in 1 .. N : i < j => Depth(frames[i].base) <= Depth(frames[j].saved)
      BY <1>5, <1>13 DEF FrameInv
    <3>2. frames[i].base \in Address  BY <1>2, <1>5, FrameTypes
    <3>3. Depth(frames[i].base) \in Nat  BY <3>2, DepthType, WasmStackAssumption
    <3>4. Depth(frames[i].base) <= Depth(base)  BY <1>3, <3>1, <3>3
    <3>5. \A j \in 1 .. N + 1 : i < j => Depth(frames[i].base) <= Depth(frames'[j].saved)
      <4> TAKE j \in 1 .. N + 1
      <4>1. CASE j = N + 1  BY <1>5, <3>1, <4>1
      <4>2. CASE j # N + 1  BY <1>5, <3>1, <4>2
      <4> QED  BY <4>1, <4>2
    <3> QED  BY <1>1, <1>5, <3>1, <3>4, <3>5 DEF FrameInv, Depth, Sub
  <2> QED  BY <1>5, <2>1, <2>2, <2>3 DEF FramesInv
<1>15. ReadsBack'
  <2>1. \A i \in 1 .. N + 1 : \A o \in frames'[i].written :
          LET a == Add(frames'[i].base, o) IN a \in DOMAIN memory /\ memory[a] = i
    <3> TAKE i \in 1 .. N + 1
    <3>1. CASE i = N + 1  BY <1>5, <3>1
    <3>2. CASE i # N + 1  BY <1>5, <3>2 DEF StackInv, ReadsBack
    <3> QED  BY <3>1, <3>2
  <2> QED  BY <1>1, <1>5, <2>1 DEF ReadsBack, Add
<1>16. DataKept' /\ NoWildAccess'  BY <1>1 DEF StackInv, DataKept, NoWildAccess
<1> QED  BY <1>6, <1>8, <1>12, <1>14, <1>15, <1>16 DEF StackInv

(* The last frame is taken off and the pointer is its caller's.            *)
LEMMA PopKeeps ==
  ASSUME StackInv, frames # <<>>, Pop(frames[Len(frames)].saved)
  PROVE  StackInv'
<1>0. PICK N \in Nat : N = Len(frames)  BY FrameTypes DEF StackInv
<1>1. /\ module' = module /\ memory' = memory /\ loaded' = loaded
      /\ g2' = g2 /\ g3' = g3 /\ status' = status /\ status = "running"
      /\ g0' = frames[N].saved
      /\ frames' = SubSeq(frames, 1, N - 1)
  BY <1>0 DEF Pop
<1>2. TypeOK  BY DEF StackInv
<1>3. N \in Nat /\ N # 0 /\ DOMAIN frames = 1 .. N /\ N \in 1 .. N
  BY <1>0, <1>2, FrameTypes DEF TypeOK
<1>4. /\ frames' \in Seq(Frame) /\ Len(frames') = N - 1
      /\ DOMAIN frames' = 1 .. N - 1
      /\ \A i \in 1 .. N - 1 : frames'[i] = frames[i] /\ i \in 1 .. N
  BY <1>0, <1>1, <1>2, <1>3, FrameTypes DEF TypeOK
<1>5. frames[N].saved \in Address  BY <1>2, <1>3, FrameTypes
<1>6. TypeOK'  BY <1>1, <1>2, <1>4, <1>5 DEF TypeOK
<1>7. PhaseInv'  BY <1>1 DEF StackInv, PhaseInv, InRange
<1>8. \A i \in 1 .. N : frames[i].saved = Caller(i)
                        /\ (~frames[i].alloc => Add(frames[i].base, frames[i].size) = Caller(i))
  BY <1>3 DEF StackInv, Balanced
<1>9. \A i \in 1 .. N : Caller(i)' = Caller(i)  BY <1>3, <1>4 DEF Caller
<1>10. Balanced'
  <2>1. g0' = Caller(N)'  BY <1>1, <1>3, <1>8, <1>9
  <2>2. \A i \in 1 .. N - 1 :
          /\ frames'[i].saved = Caller(i)'
          /\ ~frames'[i].alloc => Add(frames'[i].base, frames'[i].size) = Caller(i)'
    BY <1>4, <1>8, <1>9
  <2> QED  BY <1>3, <1>4, <2>1, <2>2 DEF Balanced, Add
<1>11. \A i \in 1 .. N : FrameInv(i)  BY <1>3 DEF StackInv, FramesInv
<1>12. FramesInv'
  <2>1. N - 1 <= MaxDepth  BY <1>0, <1>3, WasmStackAssumption DEF StackInv, FramesInv
  <2>2. ASSUME NEW i \in 1 .. N - 1 PROVE FrameInv(i)'
    <3>1. Depth(frames[i].base) <= Depth(frames[N].saved)
      BY <1>3, <1>4, <1>11 DEF FrameInv
    <3>2. i \in 1 .. N /\ FrameInv(i)  BY <1>4, <1>11
    <3> QED  BY <1>1, <1>3, <1>4, <3>1, <3>2 DEF FrameInv, Depth, Sub
  <2> QED  BY <1>4, <2>1, <2>2 DEF FramesInv
<1>13. ReadsBack'  BY <1>1, <1>3, <1>4 DEF StackInv, ReadsBack, Add
<1>14. DataKept' /\ NoWildAccess'  BY <1>1 DEF StackInv, DataKept, NoWildAccess
<1> QED  BY <1>6, <1>7, <1>10, <1>12, <1>13, <1>14 DEF StackInv

(* A step that only stops the run, or sets the bounds of the stack.        *)
LEMMA StopKeeps ==
  ASSUME StackInv, status = "running",
         status' \in {"running", "trapped", "wild"}, module.checked => status' # "wild",
         \/ g2' = g2 /\ g3' = g3
         \/ g2' = 0 /\ g3' = StackBase,
         UNCHANGED <<module, memory, loaded, g0, frames>>
  PROVE  StackInv'
<1>1. StackBase \in Address /\ 0 \in Address  BY WasmStackAssumption DEF Address
<1>2. g2' \in Address /\ g3' \in Address  BY <1>1 DEF StackInv, TypeOK
<1>3. TypeOK'  BY <1>2 DEF StackInv, TypeOK
<1>4. PhaseInv'  BY DEF StackInv, PhaseInv, InRange
<1>5. FramesInv'  BY DEF StackInv, FramesInv, FrameInv, Depth, Sub
<1>6. Balanced' /\ ReadsBack' /\ DataKept' /\ NoWildAccess'
  BY DEF StackInv, Balanced, Caller, ReadsBack, DataKept, NoWildAccess
<1> QED  BY <1>3, <1>4, <1>5, <1>6 DEF StackInv

(* The bytes of a frame are deeper than its caller's and not deeper than   *)
(* its base.                                                               *)
LEMMA ExtentDepth ==
  ASSUME StackInv, NEW i \in DOMAIN frames, NEW q \in Nat, q < frames[i].size
  PROVE  /\ Add(frames[i].base, q) \in Address
         /\ Depth(Add(frames[i].base, q)) \in Nat
         /\ Depth(frames[i].saved) \in Nat /\ Depth(frames[i].base) \in Nat
         /\ Depth(frames[i].saved) < Depth(Add(frames[i].base, q))
         /\ Depth(Add(frames[i].base, q)) <= Depth(frames[i].base)
         /\ Depth(frames[i].base) <= MaxStack
<1> DEFINE f == frames[i]
<1>1. f.base \in Address /\ f.saved \in Address /\ f.size \in Nat
  BY FrameTypes DEF StackInv
<1>2. Depth(f.saved) + f.size <= Depth(f.base) /\ Depth(f.base) <= MaxStack
  BY DEF StackInv, FramesInv, FrameInv
<1>3. Depth(f.base) \in Nat /\ Depth(f.saved) \in Nat  BY <1>1, DepthType
<1>4. q < Depth(f.base)  BY <1>1, <1>2, <1>3
<1>5. Add(f.base, q) \in Address /\ Depth(Add(f.base, q)) = Depth(f.base) - q
  BY <1>1, <1>4, OffsetDepth
<1> QED  BY <1>1, <1>2, <1>3, <1>4, <1>5

(* The bytes of two frames are at different addresses.                     *)
LEMMA BytesApart ==
  ASSUME StackInv, NEW i \in DOMAIN frames, NEW j \in DOMAIN frames, i # j,
         NEW p \in Nat, NEW q \in Nat, p < frames[i].size, q < frames[j].size
  PROVE  Add(frames[i].base, p) # Add(frames[j].base, q)
<1>1. DOMAIN frames = 1 .. Len(frames) /\ Len(frames) \in Nat
  BY FrameTypes DEF StackInv
<1>2. CASE i < j
  <2>1. Depth(frames[i].base) <= Depth(frames[j].saved)
    BY <1>2 DEF StackInv, FramesInv, FrameInv
  <2> QED  BY <2>1, ExtentDepth
<1>3. CASE j < i
  <2>1. Depth(frames[j].base) <= Depth(frames[i].saved)
    BY <1>3 DEF StackInv, FramesInv, FrameInv
  <2> QED  BY <2>1, ExtentDepth
<1> QED  BY <1>1, <1>2, <1>3

(* A store into a frame changes bytes of this frame only.                  *)
LEMMA TouchKeeps ==
  ASSUME StackInv,
         NEW i \in DOMAIN frames, NEW o \in Nat, NEW len \in Nat, NEW at \in Nat,
         o + len <= frames[i].size,
         \A k \in Nat : k < len /\ at + k < module.size => Add(frames[i].base, o + k) = at + k,
         Touch(at, i, o, len)
  PROVE  StackInv'
<1> DEFINE size == module.size
           range == at .. at + len - 1
<1>1. TypeOK /\ status = "running"  BY DEF StackInv, Touch, Access
<1>2. module \in Modules /\ size \in Nat /\ size <= W  BY <1>1, ModuleTypes DEF TypeOK
<1>3. UNCHANGED <<module, loaded, g0, g2, g3>>  BY DEF Touch, Access
<1>4. CASE ~Passes(at, len)
  <2>1. status' = "trapped" /\ UNCHANGED <<memory, frames>>
    BY <1>4 DEF Touch, Access
  <2> QED  BY <1>1, <1>3, <2>1, StopKeeps
<1>5. CASE Passes(at, len) /\ ~Inside(at, len)
  <2>1. status' = "wild" /\ UNCHANGED <<memory, frames>>
    BY <1>5 DEF Touch, Access
  <2>2. ~module.checked  BY <1>5 DEF Passes, Inside, InRange
  <2> QED  BY <1>1, <1>3, <2>1, <2>2, StopKeeps
<1>6. CASE Passes(at, len) /\ Inside(at, len)
  <2>1. /\ memory' = [a \in DOMAIN memory |-> IF a \in range THEN i ELSE memory[a]]
        /\ frames' = [frames EXCEPT ![i].written = @ \cup (o .. o + len - 1)]
        /\ status' = status
    BY <1>6 DEF Touch, Access
  <2>2. at + len <= size  BY <1>6 DEF Inside
  <2>3. \A k \in Nat : k < len => Add(frames[i].base, o + k) = at + k
    BY <1>2, <2>2
  <2>4. /\ memory \in [0 .. size - 1 -> 0 .. Data]
        /\ DOMAIN memory = 0 .. size - 1
    BY <1>1 DEF StackInv, TypeOK, PhaseInv
  <2>5. /\ Len(frames) \in Nat /\ DOMAIN frames = 1 .. Len(frames)
        /\ \A j \in DOMAIN frames :
             /\ frames[j] \in Frame
             /\ frames[j].base \in Address /\ frames[j].saved \in Address
             /\ frames[j].size \in Nat /\ frames[j].written \subseteq Nat
    BY <1>1, FrameTypes
  <2>6. i \in 0 .. Data
    BY <2>5, WasmStackAssumption DEF StackInv, FramesInv, Data
  <2>7. memory' \in [0 .. size - 1 -> 0 .. Data]  BY <2>1, <2>4, <2>6
  <2>8. /\ DOMAIN frames' = DOMAIN frames
        /\ \A j \in DOMAIN frames :
             /\ frames'[j].base = frames[j].base /\ frames'[j].size = frames[j].size
             /\ frames'[j].saved = frames[j].saved /\ frames'[j].alloc = frames[j].alloc
             /\ j # i => frames'[j] = frames[j]
        /\ frames'[i].written = frames[i].written \cup (o .. o + len - 1)
    BY <2>1, <2>5 DEF Frame
  <2>9. o .. o + len - 1 \subseteq Nat /\ o .. o + len - 1 \subseteq 0 .. frames[i].size - 1
    BY <2>5
  <2>10. frames' \in Seq(Frame) /\ Len(frames') = Len(frames)
    <3>1. [frames[i] EXCEPT !.written = @ \cup (o .. o + len - 1)] \in Frame
      BY <2>5, <2>9 DEF Frame
    <3> DEFINE g == [frames[i] EXCEPT !.written = @ \cup (o .. o + len - 1)]
    <3>2. frames' = [frames EXCEPT ![i] = g]  BY <2>1
    <3>3. frames \in Seq(Frame)  BY <1>1 DEF TypeOK
    <3> HIDE DEF g
    <3>4. g \in Frame  BY <3>1 DEF g
    <3> QED  BY <2>5, <3>2, <3>3, <3>4
  <2>11. TypeOK'  BY <1>1, <1>3, <2>1, <2>7, <2>10 DEF TypeOK
  <2>12. memory' # <<>>
    <3>1. size # 0  BY <1>2, ModuleTypes
    <3>2. 0 \in DOMAIN memory'  BY <1>2, <2>7, <3>1
    <3> QED  BY <3>2
  <2>13. PhaseInv'
    BY <1>1, <1>3, <2>1, <2>12 DEF StackInv, PhaseInv, InRange
  <2>14. \A j \in 1 .. Len(frames) + 1 : Caller(j)' = Caller(j)
    <3> TAKE j \in 1 .. Len(frames) + 1
    <3>1. j # 1 => j - 1 \in DOMAIN frames  BY <2>5
    <3> QED  BY <2>8, <3>1 DEF Caller
  <2>15. Balanced'
    BY <1>3, <2>5, <2>8, <2>10, <2>14, <2>12, <1>1 DEF StackInv, Balanced, PhaseInv, Add
  <2>16. \A j \in DOMAIN frames : frames'[j].written \subseteq 0 .. frames[j].size - 1
    BY <2>8, <2>9 DEF StackInv, FramesInv, FrameInv
  <2>17. FramesInv'
    BY <1>3, <2>8, <2>10, <2>16 DEF StackInv, FramesInv, FrameInv, Depth, Sub
  <2>18. ASSUME NEW a \in range
         PROVE  /\ a \in DOMAIN memory
                /\ \E q \in Nat : q < frames[i].size /\ a = Add(frames[i].base, q)
    <3>1. a - at \in Nat /\ a - at < len /\ at + (a - at) = a  OBVIOUS
    <3>2. Add(frames[i].base, o + (a - at)) = a  BY <2>3, <3>1
    <3>3. o + (a - at) \in Nat /\ o + (a - at) < frames[i].size  BY <2>5, <3>1
    <3> QED  BY <1>2, <2>2, <2>4, <3>2, <3>3
  <2>19. ReadsBack'
    <3> SUFFICES ASSUME NEW j \in DOMAIN frames, NEW p \in frames'[j].written
                 PROVE  /\ Add(frames[j].base, p) \in DOMAIN memory
                        /\ memory'[Add(frames[j].base, p)] = j
      BY <2>1, <2>8 DEF ReadsBack, Add
    <3> DEFINE a == Add(frames[j].base, p)
    <3> HIDE DEF a
    <3>1. p \in Nat /\ p < frames[j].size  BY <2>5, <2>16
    <3>2. CASE j = i /\ p \in o .. o + len - 1
      <4>1. p - o \in Nat /\ p - o < len /\ o + (p - o) = p  BY <3>2
      <4>2. a = at + (p - o)  BY <2>3, <3>2, <4>1 DEF a
      <4>3. a \in range  BY <4>1, <4>2
      <4> QED  BY <2>1, <2>18, <3>2, <4>3 DEF a
    <3>3. CASE p \in frames[j].written
      <4>1. a \in DOMAIN memory /\ memory[a] = j
        BY <3>3 DEF StackInv, ReadsBack, a
      <4>2. CASE a \in range
        <5>1. PICK q \in Nat : q < frames[i].size /\ a = Add(frames[i].base, q)
          BY <2>18, <4>2
        <5>2. i = j  BY <3>1, <5>1, BytesApart DEF a
        <5> QED  BY <2>1, <4>1, <4>2, <5>2 DEF a
      <4>3. CASE a \notin range  BY <2>1, <4>1, <4>3 DEF a
      <4> QED  BY <4>2, <4>3
    <3> QED  BY <2>8, <3>2, <3>3
  <2>20. DataKept'
    <3> SUFFICES ASSUME NEW n \in 1 .. loaded,
                        NEW a \in module.segments[n].at
                                    .. module.segments[n].at + module.segments[n].len - 1
                 PROVE  memory'[a] = Data
      BY <1>3 DEF DataKept
    <3>1. memory[a] = Data  BY DEF StackInv, DataKept
    <3>2. n \in 1 .. Len(module.segments)  BY <1>1, <1>2, ModuleTypes DEF TypeOK
    <3>3. InRange(module.segments[n].at, module.segments[n].len)
      BY DEF StackInv, PhaseInv
    <3>4. module \in Modules /\ module.size = size  BY <1>2
    <3>6. a \in Nat /\ a >= StackBase /\ a < size  BY <3>2, <3>3, <3>4, LoadedInside
    <3>7. a \in DOMAIN memory  BY <1>2, <2>4, <3>6
    <3>8. a \notin range
      <4> SUFFICES ASSUME a \in range PROVE FALSE  OBVIOUS
      <4>1. PICK q \in Nat : q < frames[i].size /\ a = Add(frames[i].base, q)  BY <2>18
      <4>2. Depth(a) \in Nat /\ Depth(a) > 0 /\ Depth(a) <= MaxStack
        BY <4>1, ExtentDepth, WasmStackAssumption
      <4>3. Depth(a) = 0 \/ Depth(a) > MaxStack  BY <1>2, <3>6, DataDepth
      <4> QED  BY <4>2, <4>3, WasmStackAssumption
    <3> QED  BY <2>1, <3>1, <3>7, <3>8
  <2>21. NoWildAccess'  BY <1>1, <2>1 DEF NoWildAccess
  <2> QED  BY <2>11, <2>13, <2>15, <2>17, <2>19, <2>20, <2>21 DEF StackInv
<1> QED  BY <1>4, <1>5, <1>6

(* A sum in 32 bits went through 0 or not.                                 *)
LEMMA AddCases ==
  ASSUME NEW a \in Nat, NEW b \in Nat
  PROVE  /\ Add(a, b) \in Nat
         /\ Add(a, b) = a + b \/ (a + b >= W /\ Add(a, b) = a + b - W)
BY WasmStackAssumption DEF Add

(* The stack is kept by every step.                                        *)
LEMMA StackSteps ==
  ASSUME StackInv, [Next]_vars
  PROVE  StackInv'
<1>1. TypeOK /\ g0 \in Address /\ Depth(g0) \in Nat
  BY DepthType DEF StackInv, TypeOK
<1>2. W \in Nat /\ StackBase \in Nat /\ MaxStack \in Nat /\ Align \in Nat /\ Align > 0
      /\ MaxStack + Align <= W
  BY WasmStackAssumption
<1>3. CASE Instantiate  BY <1>3, InstantiateKeeps
<1>4. CASE LoadData  BY <1>4, LoadDataKeeps
<1>5. CASE StackInit
  <2>1. g3' = StackBase /\ g2' = 0 /\ status' = status /\ status = "running"
        /\ UNCHANGED <<module, memory, loaded, g0, frames>>
    BY <1>5, AlignSmall DEF StackInit
  <2> QED  BY <2>1, StopKeeps
<1>6. ASSUME NEW n \in FrameSizes, Call(n) PROVE StackInv'
  <2>1. n \in Nat /\ Depth(g0) + n <= MaxStack /\ Push(Sub(g0, n), n, FALSE)
    BY <1>6, WasmStackAssumption DEF Call, Push
  <2>2. n < W /\ Depth(g0) + n < W  BY <1>1, <1>2, <2>1
  <2>3. Sub(g0, n) \in Address /\ Depth(Sub(g0, n)) = Depth(g0) + n
        /\ Add(Sub(g0, n), n) = g0
    BY <1>1, <2>1, <2>2, SubFacts
  <2>4. Depth(g0) + n <= Depth(Sub(g0, n))  BY <1>1, <2>1, <2>3
  <2> QED  BY <2>1, <2>3, <2>4, PushKeeps
<1>7. ASSUME NEW n \in AllocSizes, StackAlloc(n) PROVE StackInv'
  <2> DEFINE a == Sub(g0, n)
  <2>1. n \in Nat /\ Depth(g0) + n <= MaxStack /\ Push(AlignDown(a), n, TRUE)
    BY <1>7, WasmStackAssumption DEF StackAlloc, Push
  <2>2. n < W /\ Depth(g0) + n < W  BY <1>1, <1>2, <2>1
  <2>3. a \in Address /\ Depth(a) = Depth(g0) + n
    BY <1>1, <2>1, <2>2, SubFacts
  <2>4. Depth(a) + Align <= W  BY <1>1, <1>2, <2>1, <2>3
  <2>5. AlignDown(a) \in Address /\ Depth(a) <= Depth(AlignDown(a))
    BY <2>3, <2>4, AlignDepth
  <2>6. Depth(g0) + n <= Depth(AlignDown(a))  BY <2>3, <2>5
  <2> QED  BY <2>1, <2>5, <2>6, PushKeeps
<1>8. CASE Exhausted
  <2>1. status' = "trapped" /\ status = "running"
        /\ UNCHANGED <<module, memory, loaded, g0, g2, g3, frames>>
    BY <1>8 DEF Exhausted
  <2> QED  BY <2>1, StopKeeps
<1>9. CASE Return
  <2> DEFINE top == frames[Len(frames)]
  <2>1. frames # <<>> /\ ~top.alloc /\ Pop(Add(top.base, top.size))
    BY <1>9 DEF Return
  <2>2. Len(frames) \in DOMAIN frames  BY <1>1, <2>1, FrameTypes DEF TypeOK
  <2>3. Add(top.base, top.size) = top.saved
    BY <2>1, <2>2 DEF StackInv, Balanced
  <2> QED  BY <2>1, <2>3, PopKeeps
<1>10. CASE Restore
  <2>1. frames # <<>>  BY <1>10 DEF Restore, Pop
  <2> QED  BY <1>10, <2>1, PopKeeps DEF Restore
<1>11. ASSUME NEW a \in Address, NEW offset \in Address, NEW len \in Widths,
              Load(a, offset, len)
       PROVE  StackInv'
  <2>1. /\ status = "running" /\ status' \in {"running", "trapped", "wild"}
        /\ module.checked => status' # "wild"
        /\ UNCHANGED <<module, memory, loaded, g0, g2, g3, frames>>
    BY <1>11 DEF Load, Access, Passes, InRange, Inside
  <2> QED  BY <2>1, StopKeeps
<1>12. ASSUME NEW i \in 1 .. Len(frames), NEW len \in Widths,
              NEW o \in 0 .. frames[i].size - len,
              StoreLocal(i, o, len) \/ StoreThrough(i, o, len)
       PROVE  StackInv'
  <2> DEFINE base == frames[i].base
  <2>1. i \in DOMAIN frames /\ base \in Address /\ frames[i].size \in Nat
    BY <1>1, FrameTypes
  <2>2. len \in Nat /\ o \in Nat /\ o + len <= frames[i].size
    BY <2>1, WasmStackAssumption
  <2>3. module.size \in Nat /\ module.size <= W  BY <1>1, ModuleTypes DEF TypeOK
  <2>4. base \in Nat /\ base < W  BY <1>2, <2>1 DEF Address
  <2>5. CASE StoreLocal(i, o, len)
    <3>1. \A k \in Nat : k < len /\ base + o + k < module.size => Add(base, o + k) = base + o + k
      BY <1>2, <2>2, <2>3, <2>4 DEF Add
    <3>2. base + o \in Nat /\ Touch(base + o, i, o, len)
      BY <2>2, <2>4, <2>5 DEF StoreLocal
    <3> QED  BY <2>1, <2>2, <3>1, <3>2, TouchKeeps
  <2>6. CASE StoreThrough(i, o, len)
    <3> DEFINE at == Add(base, o)
    <3>1. at \in Nat /\ (at = base + o \/ (base + o >= W /\ at = base + o - W))
      BY <2>2, <2>4, AddCases
    <3>2. \A k \in Nat : k < len /\ at + k < module.size => Add(base, o + k) = at + k
      <4> TAKE k \in Nat
      <4> HAVE k < len /\ at + k < module.size
      <4>1. CASE at = base + o  BY <1>2, <2>2, <2>3, <2>4, <4>1 DEF Add
      <4>2. CASE base + o >= W /\ at = base + o - W
        BY <1>2, <2>2, <2>3, <2>4, <4>2 DEF Add
      <4> QED  BY <3>1, <4>1, <4>2
    <3>3. Touch(at, i, o, len)  BY <2>6 DEF StoreThrough
    <3> HIDE DEF at
    <3> QED  BY <2>1, <2>2, <3>1, <3>2, <3>3, TouchKeeps
  <2> QED  BY <1>12, <2>5, <2>6
<1>13. CASE UNCHANGED vars
  BY <1>13 DEF vars, StackInv, TypeOK, PhaseInv, InRange, FramesInv, FrameInv, Depth, Sub,
    Balanced, Caller, Add, ReadsBack, DataKept, NoWildAccess
<1> QED
  BY <1>3, <1>4, <1>5, <1>6, <1>7, <1>8, <1>9, <1>10, <1>11, <1>12, <1>13 DEF Next

(* The stack's invariant, for modules of any layout, frames of any sizes   *)
(* and any alignment.                                                      *)
THEOREM StackInvariant == RuntimeSpec => []StackInv
<1>1. Spec => []StackInv  BY StackStarts, StackSteps, PTL DEF Spec
<1> QED  BY <1>1, PartsRun, PTL

(* However the stack pointer moves, no two live frames share an address,   *)
(* what live frames wrote and what was loaded is still there, and no       *)
(* access of a module that checks leaves the memory.                       *)
THEOREM MemoryIsKept == RuntimeSpec => []MemoryKept
<1>1. StackInv => FramesApart
  <2> SUFFICES ASSUME StackInv, NEW i \in DOMAIN frames, NEW j \in DOMAIN frames, i # j
               PROVE  Extent(frames[i]) \cap Extent(frames[j]) = {}
    BY DEF FramesApart
  <2>1. frames[i].size \in Nat /\ frames[j].size \in Nat
    BY FrameTypes DEF StackInv
  <2> QED  BY <2>1, BytesApart DEF Extent
<1>2. StackInv => MemoryKept  BY <1>1 DEF StackInv, MemoryKept
<1> QED  BY <1>2, StackInvariant, PTL

(* An epilogue and _emscripten_stack_restore give the caller its stack     *)
(* pointer back, and the free space is more than the whole exactly where   *)
(* the stack has overflowed.                                               *)
THEOREM PointerIsRight == RuntimeSpec => []PointerTells
<1>1. StackInv => FreeTells
  <2> SUFFICES ASSUME StackInv, g3 # 0
               PROVE  Sub(g0, g2) > Sub(g3, g2) <=> Depth(g0) > StackBase
    BY DEF FreeTells
  <2>1. g2 = 0 /\ g3 = StackBase /\ g0 \in Address
    BY DEF StackInv, PhaseInv, TypeOK
  <2> QED  BY <2>1, WasmStackAssumption DEF Sub, Depth, Address
<1>2. StackInv => PointerTells  BY <1>1 DEF StackInv, PointerTells
<1> QED  BY <1>2, StackInvariant, PTL
-----------------------------------------------------------------------------
(* A module that imported its memory finds the memory and DYNAMICTOP_PTR   *)
(* set; blocks hold values only, and no field is added to the environment. *)
Blocks == UNION {[0 .. n - 1 -> Value] : n \in Nat}

ImportedInv ==
  \A m \in Importer :
    got[m]["memory"] # Unset => env.memory # Unset /\ env.DYNAMICTOP_PTR # Unset

EnvInv ==
  /\ Env!TypeOK /\ Env!Coherent /\ ImportedInv
  /\ blocks \in Seq(Blocks) /\ DOMAIN env = Env!Names

(* What an import returns.                                                 *)
Imported == {"anything", "Stack", "env.memory", "env.memoryBase", "env.table",
             "env.tableBase"} \cup Env!Names

(* What the assumption says of what is not set.                            *)
LEMMA UnsetIsNothing ==
  /\ 0 \in Value /\ Unset \notin Nat /\ Unset \notin Importer
  /\ Unset # "DYNAMICTOP_PTR"
  /\ Unset \notin [pages : Nat, size : Nat, data : Nat, is64 : BOOLEAN]
BY RuntimeAssumption DEF Env!WasmEnvAssumption, Env!Names

(* A module gets at least a page, however little it declares.              *)
LEMMA SomePages ==
  ASSUME NEW d \in Declarations
  PROVE  /\ Env!Pages(d.pages) \in Nat
         /\ Env!Pages(d.pages) * PAGE_SIZE \in Nat \ {0}
<1>1. PAGE_SIZE \in Nat /\ PAGE_SIZE > 0 /\ d.pages \in Nat
  BY RuntimeAssumption DEF Env!WasmEnvAssumption
<1>2. d.pages \div PAGE_SIZE \in Nat  BY <1>1
<1>3. Env!Pages(d.pages) \in Nat /\ Env!Pages(d.pages) > 0  BY <1>2 DEF Env!Pages
<1> DEFINE p == Env!Pages(d.pages)
<1> HIDE DEF p
<1>4. p \in Nat /\ p > 0  BY <1>3 DEF p
<1>5. p * PAGE_SIZE \in Nat /\ p * PAGE_SIZE > 0  BY <1>1, <1>4
<1> QED  BY <1>3, <1>5 DEF p

(* The first state of the environment.                                     *)
LEMMA EnvStarts == Env!Init => EnvInv
<1> SUFFICES ASSUME Env!Init PROVE EnvInv  OBVIOUS
<1>1. Env!TypeOK  BY DEF Env!Init, Env!TypeOK, Env!Names
<1>2. Env!Coherent  BY DEF Env!Init, Env!Coherent
<1>3. ImportedInv  BY DEF Env!Init, ImportedInv, Env!Names
<1>4. blocks \in Seq(Blocks)  BY DEF Env!Init
<1>5. DOMAIN env = Env!Names  BY DEF Env!Init, Env!Names
<1> QED  BY <1>1, <1>2, <1>3, <1>4, <1>5 DEF EnvInv

(* An import is noted where nothing was; nothing else of got changes.      *)
LEMMA ImportEffect ==
  ASSUME NEW m \in Importer, NEW name \in Env!Names, NEW what,
         got \in [Importer -> [Env!Names -> {Unset} \cup Imported]],
         what \in Imported,
         Env!Import(m, name, what)
  PROVE  /\ got[m][name] = Unset
         /\ got' \in [Importer -> [Env!Names -> {Unset} \cup Imported]]
         /\ \A k \in Importer, x \in Env!Names :
              got'[k][x] = IF k = m /\ x = name THEN what ELSE got[k][x]
BY DEF Env!Import, Imported

(* An import of anything but the memory changes one field of the           *)
(* environment at most, and not the memory's.                              *)
LEMMA OtherImportKeeps ==
  ASSUME EnvInv, NEW m \in Importer,
         \/ Env!ImportDYNAMICTOP_PTR(m) \/ Env!ImportSTACKTOP(m) \/ Env!ImportMemoryBase(m)
         \/ Env!ImportTable(m) \/ Env!ImportTableBase(m)
  PROVE  EnvInv'
<1>1. Env!TypeOK /\ DOMAIN env = Env!Names /\ ImportedInv  BY DEF EnvInv
<1>2. PICK name \in Env!Names, what \in Imported :
        Env!Import(m, name, what) /\ name # "memory"
  <2>1. CASE Env!ImportDYNAMICTOP_PTR(m)
    <3>1. Env!Import(m, "DYNAMICTOP_PTR",
            IF env.DYNAMICTOP_PTR = Unset THEN "anything" ELSE env.DYNAMICTOP_PTR)
      BY <2>1 DEF Env!ImportDYNAMICTOP_PTR
    <3> QED  BY <1>1, <3>1 DEF Env!TypeOK, Env!Names, Imported
  <2>2. CASE Env!ImportSTACKTOP(m)  BY <2>2 DEF Env!ImportSTACKTOP, Env!Names, Imported
  <2>3. CASE Env!ImportMemoryBase(m)  BY <2>3 DEF Env!ImportMemoryBase, Env!Names, Imported
  <2>4. CASE Env!ImportTable(m)  BY <2>4 DEF Env!ImportTable, Env!Names, Imported
  <2>5. CASE Env!ImportTableBase(m)  BY <2>5 DEF Env!ImportTableBase, Env!Names, Imported
  <2> QED  BY <2>1, <2>2, <2>3, <2>4, <2>5
<1>3. /\ got' \in [Importer -> [Env!Names -> {Unset} \cup Imported]]
      /\ \A k \in Importer, x \in Env!Names :
           got'[k][x] = IF k = m /\ x = name THEN what ELSE got[k][x]
  BY <1>1, <1>2, ImportEffect DEF Env!TypeOK, Imported
<1>4. UNCHANGED <<declared, blocks, table, stored>>
  BY DEF Env!ImportDYNAMICTOP_PTR, Env!ImportSTACKTOP, Env!ImportMemoryBase,
    Env!ImportTable, Env!ImportTableBase
<1>5. /\ DOMAIN env' = Env!Names
      /\ env'.memory = env.memory /\ env'.DYNAMICTOP_PTR = env.DYNAMICTOP_PTR
      /\ env'.memoryBase \in {env.memoryBase, 0} /\ env'.tableBase \in {env.tableBase, 0}
      /\ env'.table \in {env.table, declared.size} /\ env'.STACKTOP \in {env.STACKTOP, "Stack"}
      /\ Stack' \in {Stack, m}
  BY <1>1 DEF Env!ImportDYNAMICTOP_PTR, Env!ImportSTACKTOP, Env!ImportMemoryBase,
    Env!ImportTable, Env!ImportTableBase, Env!Names
<1>6. Env!TypeOK'
  BY <1>1, <1>3, <1>4, <1>5 DEF Env!TypeOK, Env!Memory, Imported
<1>7. Env!Coherent'  BY <1>4, <1>5 DEF EnvInv, Env!Coherent
<1>8. ImportedInv'
  <2>1. "memory" \in Env!Names  BY DEF Env!Names
  <2> QED  BY <1>1, <1>2, <1>3, <1>5, <2>1 DEF ImportedInv
<1> QED  BY <1>4, <1>5, <1>6, <1>7, <1>8 DEF EnvInv

(* An import of the memory makes a new block, of zeroes, that all see.     *)
LEMMA ImportMemoryKeeps ==
  ASSUME EnvInv, NEW m \in Importer, Env!ImportMemory(m)
  PROVE  EnvInv'
<1> DEFINE pages == Env!Pages(declared.pages)
           size == pages * PAGE_SIZE
           block == [a \in 0 .. size - 1 |-> 0]
           new == [pages |-> pages, size |-> size, data |-> Len(blocks) + 1, is64 |-> TRUE]
<1>1. Env!TypeOK /\ DOMAIN env = Env!Names /\ ImportedInv /\ blocks \in Seq(Blocks)
  BY DEF EnvInv
<1>2. /\ Env!Import(m, "memory", "env.memory")
      /\ blocks' = Append(blocks, block) /\ stored' = block
      /\ env' = [env EXCEPT !.memory = new, !.DYNAMICTOP_PTR = "DYNAMICTOP_PTR"]
      /\ UNCHANGED <<declared, Stack, table>>
  BY DEF Env!ImportMemory, Env!Zeroes
<1>3. pages \in Nat /\ size \in Nat \ {0}
  BY <1>1, SomePages DEF Env!TypeOK
<1>4. block \in Blocks
  <2>1. block \in [0 .. size - 1 -> Value]  BY UnsetIsNothing
  <2> HIDE DEF block, size
  <2> QED  BY <1>3, <2>1 DEF Blocks
<1>5. /\ blocks' \in Seq(Blocks) /\ Len(blocks) + 1 \in DOMAIN blocks'
      /\ blocks'[Len(blocks) + 1] = block
  <2> HIDE DEF block
  <2> QED  BY <1>1, <1>2, <1>4
<1>6. /\ got' \in [Importer -> [Env!Names -> {Unset} \cup Imported]]
  <2>1. "memory" \in Env!Names  BY DEF Env!Names
  <2> QED  BY <1>1, <1>2, <2>1, ImportEffect DEF Env!TypeOK, Imported
<1>7. /\ DOMAIN env' = Env!Names
      /\ env'.memory = new /\ env'.DYNAMICTOP_PTR = "DYNAMICTOP_PTR"
      /\ env'.memoryBase = env.memoryBase /\ env'.tableBase = env.tableBase
      /\ env'.table = env.table /\ env'.STACKTOP = env.STACKTOP
  <2> HIDE DEF new
  <2> QED  BY <1>1, <1>2 DEF Env!Names
<1>8. new \in Env!Memory'
  <2> HIDE DEF pages, size
  <2> QED  BY <1>3, <1>5 DEF Env!Memory
<1>9. Env!TypeOK'
  <2> HIDE DEF new
  <2> QED  BY <1>1, <1>2, <1>6, <1>7, <1>8 DEF Env!TypeOK, Imported
<1>10. Env!Coherent'
  <2>1. new.data = Len(blocks) + 1 /\ new.size = size  OBVIOUS
  <2>2. DOMAIN block = 0 .. size - 1  OBVIOUS
  <2> HIDE DEF new, block, size
  <2> QED  BY <1>2, <1>5, <1>7, <2>1, <2>2 DEF Env!Coherent
<1>11. ImportedInv'
  <2>1. Len(blocks) + 1 \in Nat  BY <1>1
  <2>2. new \in [pages : Nat, size : Nat, data : Nat, is64 : BOOLEAN]
    <3> HIDE DEF pages, size
    <3> QED  BY <1>3, <2>1
  <2> HIDE DEF new
  <2> QED  BY <1>7, <2>2, UnsetIsNothing DEF ImportedInv
<1> QED  BY <1>5, <1>7, <1>9, <1>10, <1>11 DEF EnvInv

(* A store goes to the one memory.                                         *)
LEMMA StoreKeeps ==
  ASSUME EnvInv, NEW m \in Importer, NEW a \in DOMAIN stored, NEW v \in Value,
         Env!Store(m, a, v)
  PROVE  EnvInv'
<1> DEFINE d == env.memory.data
<1>1. Env!TypeOK /\ DOMAIN env = Env!Names /\ ImportedInv /\ blocks \in Seq(Blocks)
  BY DEF EnvInv
<1>2. /\ got[m]["memory"] # Unset
      /\ blocks' = [blocks EXCEPT ![d][a] = v] /\ stored' = [stored EXCEPT ![a] = v]
      /\ UNCHANGED <<declared, env, Stack, got, table>>
  BY DEF Env!Store
<1>3. env.memory # Unset  BY <1>1, <1>2 DEF ImportedInv
<1>4. env.memory \in Env!Memory  BY <1>1, <1>3 DEF Env!TypeOK
<1>5. d \in DOMAIN blocks  BY <1>4 DEF Env!Memory
<1>6. blocks[d] = stored /\ DOMAIN stored = 0 .. env.memory.size - 1
  BY <1>3 DEF EnvInv, Env!Coherent
<1> DEFINE new == [stored EXCEPT ![a] = v]
<1>7. blocks' = [blocks EXCEPT ![d] = new]  BY <1>2, <1>6
<1>8. new \in Blocks
  <2>1. stored \in Blocks  BY <1>1, <1>5, <1>6, Elements
  <2>2. PICK n \in Nat : stored \in [0 .. n - 1 -> Value]  BY <2>1 DEF Blocks
  <2>3. new \in [0 .. n - 1 -> Value]  BY <2>2
  <2> QED  BY <2>3 DEF Blocks
<1>9. DOMAIN new = DOMAIN stored  OBVIOUS
<1> HIDE DEF new
<1>10. /\ blocks' \in Seq(Blocks) /\ DOMAIN blocks' = DOMAIN blocks /\ blocks'[d] = new
  BY <1>1, <1>5, <1>7, <1>8
<1>11. Env!TypeOK'  BY <1>1, <1>2, <1>10 DEF Env!TypeOK, Env!Memory
<1>12. Env!Coherent'
  BY <1>2, <1>6, <1>9, <1>10 DEF Env!Coherent, new
<1>13. ImportedInv'  BY <1>1, <1>2 DEF ImportedInv
<1> QED  BY <1>1, <1>2, <1>10, <1>11, <1>12, <1>13 DEF EnvInv

(* The environment's invariant is kept by every step.                      *)
LEMMA EnvSteps ==
  ASSUME EnvInv, [Env!Next]_(Env!vars)
  PROVE  EnvInv'
<1>1. ASSUME NEW m \in Importer, Env!InitTables(m) PROVE EnvInv'
  <2>1. UNCHANGED <<declared, env, Stack, blocks, got, stored>>
        /\ table' = [x \in DOMAIN table |->
             IF x \in env.tableBase .. env.tableBase + Segment - 1 THEN m ELSE table[x]]
    BY <1>1 DEF Env!InitTables
  <2>2. table' \in [0 .. declared.size - 1 -> Importer \cup {Unset}]
    BY <2>1 DEF EnvInv, Env!TypeOK
  <2> QED
    BY <2>1, <2>2 DEF EnvInv, Env!TypeOK, Env!Memory, Env!Coherent, ImportedInv
<1>2. CASE UNCHANGED Env!vars
  BY <1>2 DEF Env!vars, EnvInv, Env!TypeOK, Env!Memory, Env!Coherent, ImportedInv
<1> QED
  BY <1>1, <1>2, OtherImportKeeps, ImportMemoryKeeps, StoreKeeps DEF Env!Next

(* The environment's invariant, for any modules, declarations and pages.   *)
THEOREM EnvInvariant == RuntimeSpec => []EnvInv
<1>1. Env!Spec => []EnvInv  BY EnvStarts, EnvSteps, PTL DEF Env!Spec
<1> QED  BY <1>1, PartsRun, PTL

(* However the imports of any number of modules are ordered, all of them   *)
(* see one memory.                                                         *)
THEOREM MemoryCoherent == RuntimeSpec => []Coherent
<1>1. EnvInv => Coherent  BY DEF EnvInv, Coherent
<1> QED  BY <1>1, EnvInvariant, PTL

(* A module that imported its memory does not get an unset DYNAMICTOP_PTR  *)
(* later.                                                                  *)
THEOREM DynamicTopSet == RuntimeSpec => DynamicTopAfterMemory
<1>1. EnvInv /\ [Env!Next]_(Env!vars)
        => [\A m \in Importer :
             got[m]["memory"] # Unset => (got'[m]["DYNAMICTOP_PTR"] = "anything"
                                          => got[m]["DYNAMICTOP_PTR"] = "anything")]_(Env!vars)
  <2> SUFFICES ASSUME EnvInv, Env!Next, NEW m \in Importer, got[m]["memory"] # Unset,
                      got'[m]["DYNAMICTOP_PTR"] = "anything",
                      got[m]["DYNAMICTOP_PTR"] # "anything"
               PROVE  FALSE
    OBVIOUS
  <2>1. env.DYNAMICTOP_PTR = "DYNAMICTOP_PTR"
    BY DEF EnvInv, ImportedInv, Env!TypeOK
  <2>2. /\ got \in [Importer -> [Env!Names -> {Unset} \cup Imported]]
        /\ "DYNAMICTOP_PTR" \in Env!Names
    BY DEF EnvInv, Env!TypeOK, Env!Names, Imported
  <2>3. ASSUME NEW k \in Importer, NEW name \in Env!Names, NEW what,
               Env!Import(k, name, what), what # "anything"
        PROVE  FALSE
    BY <2>2, <2>3 DEF Env!Import
  <2>4. ASSUME got' = got PROVE FALSE  BY <2>4
  <2>5. PICK k \in Importer :
          \/ Env!ImportMemory(k) \/ Env!ImportDYNAMICTOP_PTR(k) \/ Env!ImportSTACKTOP(k)
          \/ Env!ImportMemoryBase(k) \/ Env!ImportTable(k) \/ Env!ImportTableBase(k)
          \/ Env!InitTables(k)
          \/ \E a \in DOMAIN stored, v \in Value : Env!Store(k, a, v)
    BY DEF Env!Next
  <2>6. CASE Env!ImportMemory(k)  BY <2>3, <2>6 DEF Env!ImportMemory, Env!Names
  <2>7. CASE Env!ImportDYNAMICTOP_PTR(k)
    <3>1. Env!Import(k, "DYNAMICTOP_PTR", "DYNAMICTOP_PTR")
      BY <2>1, <2>7, UnsetIsNothing DEF Env!ImportDYNAMICTOP_PTR
    <3> QED  BY <2>2, <2>3, <3>1
  <2>8. CASE Env!ImportSTACKTOP(k)  BY <2>3, <2>8 DEF Env!ImportSTACKTOP, Env!Names
  <2>9. CASE Env!ImportMemoryBase(k)  BY <2>3, <2>9 DEF Env!ImportMemoryBase, Env!Names
  <2>10. CASE Env!ImportTable(k)  BY <2>3, <2>10 DEF Env!ImportTable, Env!Names
  <2>11. CASE Env!ImportTableBase(k)  BY <2>3, <2>11 DEF Env!ImportTableBase, Env!Names
  <2>12. CASE Env!InitTables(k)  BY <2>4, <2>12 DEF Env!InitTables
  <2>13. CASE \E a \in DOMAIN stored, v \in Value : Env!Store(k, a, v)
    BY <2>4, <2>13 DEF Env!Store
  <2> QED  BY <2>5, <2>6, <2>7, <2>8, <2>9, <2>10, <2>11, <2>12, <2>13
<1>2. Env!Spec => []EnvInv  BY EnvStarts, EnvSteps, PTL DEF Env!Spec
<1> QED
  BY <1>1, <1>2, PartsRun, PTL DEF DynamicTopAfterMemory, Env!DynamicTopAfterMemory, Env!Spec
-----------------------------------------------------------------------------
(* The table with nothing in it.                                           *)
EmptyTable == [x \in Tables!Slot |-> Tables!Empty]

(* What the last call ran is what the table held for the caller: the table *)
(* was not written since.                                                  *)
CalledInv ==
  called # Null =>
    /\ ~trapped /\ called.by \in Tables!Live
    /\ called.ran = Tables!Runs(Tables!Size(called.by), FUNCREF_TABLE, called.slot, called.type)

(* One instance at most: the shared array is its own table.                *)
AloneInv == \A i \in Instance : Tables!Live \subseteq {i} => own[i] = FUNCREF_TABLE

(* Where no table was written: every instance's own table is its segment,  *)
(* the segment of the last one is in the shared array, and where all are   *)
(* of one module nothing else is.                                          *)
UneditedInv ==
  ~edited /\ ~trapped =>
    /\ \A i \in Tables!Live : own[i] = Tables!Initialized(EmptyTable, lifted[i], i)
    /\ last \in Tables!Live =>
         /\ \E data \in [Tables!Slot -> Tables!Entry] :
              FUNCREF_TABLE = Tables!Initialized(data, lifted[last], last)
         /\ (\A i \in Tables!Live : lifted[i] = lifted[last]) =>
              FUNCREF_TABLE = Tables!Initialized(EmptyTable, lifted[last], last)

(* Every function in the table comes with an instance whose module's       *)
(* segment has it.                                                         *)
PairedIn(data) == \A x \in Tables!Slot : data[x].func # Null => Tables!Paired(data[x])

TablesInv ==
  /\ Tables!TypeOK /\ CalledInv /\ AloneInv /\ UneditedInv /\ PairedIn(FUNCREF_TABLE)
  /\ Tables!Live = {} => FUNCREF_TABLE = EmptyTable
  /\ Tables!Live # {} => last \in Tables!Live
  /\ \A i \in Instance \ Tables!Live : own[i] = EmptyTable

(* What the assumption says of the tables.                                 *)
LEMMA TablesGiven ==
  /\ Null \notin Functions /\ Null \notin Instance /\ Null \notin Lifted
  /\ Null \notin Tables!Entry /\ Capacity \in Nat /\ Counts \subseteq Nat
  /\ \A m \in Lifted :
       /\ m.size \in Nat /\ m.at \in Nat
       /\ Len(m.elements) \in Nat
       /\ \A i \in 1 .. Len(m.elements) : m.elements[i] \in Functions \cup {Null}
<1>1. /\ Null \notin Functions /\ Null \notin Instance /\ Null \notin Lifted
      /\ Null \notin Tables!Entry /\ Capacity \in Nat /\ Counts \subseteq Nat
      /\ \A m \in Lifted : m.size \in 0 .. Capacity /\ m.at \in Nat
                           /\ m.elements \in Seq(Functions \cup {Null})
  BY RuntimeAssumption DEF Tables!WasmTablesAssumption
<1> QED  BY <1>1

(* A table with a segment put into it.                                     *)
LEMMA InitializedType ==
  ASSUME NEW data \in [Tables!Slot -> Tables!Entry], NEW m \in Lifted, NEW i \in Instance
  PROVE  Tables!Initialized(data, m, i) \in [Tables!Slot -> Tables!Entry]
<1>1. \A x \in Tables!Slot : x \in Nat
  BY TablesGiven DEF Tables!Slot
<1>2. ASSUME NEW x \in Tables!Slot
      PROVE  Tables!Initialized(data, m, i)[x] \in Tables!Entry
  <2>1. CASE x \in m.at .. m.at + Len(m.elements) - 1
    <3> DEFINE f == m.elements[x - m.at + 1]
    <3>1. f \in Functions \cup {Null}  BY <1>1, <2>1, TablesGiven
    <3>2. Tables!Empty \in Tables!Entry  BY DEF Tables!Empty, Tables!Entry
    <3> HIDE DEF f
    <3>3. f # Null => [func |-> f, instance |-> i] \in Tables!Entry
      BY <3>1 DEF Tables!Entry
    <3> QED  BY <2>1, <3>2, <3>3 DEF Tables!Initialized, f
  <2>2. CASE x \notin m.at .. m.at + Len(m.elements) - 1
    BY <2>2 DEF Tables!Initialized
  <2> QED  BY <2>1, <2>2
<1>3. /\ DOMAIN Tables!Initialized(data, m, i) = Tables!Slot
      /\ Tables!Initialized(data, m, i)
           = [x \in Tables!Slot |-> Tables!Initialized(data, m, i)[x]]
  BY DEF Tables!Initialized
<1> QED  BY <1>2, <1>3

LEMMA EmptyTableType == EmptyTable \in [Tables!Slot -> Tables!Entry]
BY DEF EmptyTable, Tables!Empty, Tables!Entry

(* A segment put over itself leaves the later one.                         *)
LEMMA InitializedTwice ==
  ASSUME NEW data \in [Tables!Slot -> Tables!Entry], NEW m, NEW i, NEW j
  PROVE  Tables!Initialized(Tables!Initialized(data, m, i), m, j)
           = Tables!Initialized(data, m, j)
BY DEF Tables!Initialized

(* The first state of the tables.                                          *)
LEMMA TablesStart == Tables!Init => TablesInv
<1> SUFFICES ASSUME Tables!Init PROVE TablesInv  OBVIOUS
<1>1. /\ lifted = [i \in Instance |-> Null] /\ FUNCREF_TABLE = EmptyTable
      /\ own = [i \in Instance |-> EmptyTable] /\ last = Null /\ edited = FALSE
      /\ called = Null /\ trapped = FALSE
  BY DEF Tables!Init, EmptyTable
<1>2. Tables!Live = {}  BY <1>1 DEF Tables!Live
<1>3. Tables!TypeOK  BY <1>1, EmptyTableType DEF Tables!TypeOK
<1>4. PairedIn(FUNCREF_TABLE)  BY <1>1 DEF PairedIn, EmptyTable, Tables!Empty
<1> QED  BY <1>1, <1>2, <1>3, <1>4 DEF TablesInv, CalledInv, AloneInv, UneditedInv

(* An instance gets its table: it is live and the last, and its segment is *)
(* put into the shared array, or it traps.                                 *)
LEMMA InitTablesKeeps ==
  ASSUME TablesInv, NEW i \in Instance, NEW m \in Lifted, Tables!InitTables(i, m)
  PROVE  TablesInv'
<1>1. /\ ~trapped /\ lifted[i] = Null
      /\ lifted' = [lifted EXCEPT ![i] = m] /\ last' = i /\ called' = Null
      /\ edited' = edited
  BY DEF Tables!InitTables
<1>2. /\ Tables!TypeOK
      /\ lifted \in [Instance -> Lifted \cup {Null}]
      /\ FUNCREF_TABLE \in [Tables!Slot -> Tables!Entry]
      /\ own \in [Instance -> [Tables!Slot -> Tables!Entry]]
  BY DEF TablesInv, Tables!TypeOK
<1>3. Tables!Live' = Tables!Live \cup {i} /\ i \notin Tables!Live
  BY <1>1, <1>2, TablesGiven DEF Tables!Live
<1>4. own[i] = EmptyTable  BY <1>3 DEF TablesInv
<1>5. lifted'[i] = m /\ \A j \in Instance : j # i => lifted'[j] = lifted[j]
  BY <1>1, <1>2
<1>6. lifted' \in [Instance -> Lifted \cup {Null}]  BY <1>1, <1>2
<1>7. CalledInv'  BY <1>1 DEF CalledInv
<1>10. \A e \in Tables!Entry : Tables!Paired(e) => Tables!Paired(e)'
  BY <1>3, <1>5 DEF Tables!Paired, Tables!Live
<1>8. CASE m.at + Len(m.elements) > m.size
  <2>1. trapped' = TRUE /\ UNCHANGED <<FUNCREF_TABLE, own>>
    BY <1>8 DEF Tables!InitTables
  <2>2. Tables!TypeOK'  BY <1>1, <1>2, <1>6, <2>1 DEF Tables!TypeOK
  <2>3. AloneInv'  BY <1>3, <2>1 DEF TablesInv, AloneInv
  <2>4. PairedIn(FUNCREF_TABLE)'  BY <1>2, <1>10, <2>1 DEF TablesInv, PairedIn
  <2> QED
    BY <1>1, <1>3, <1>7, <2>1, <2>2, <2>3, <2>4 DEF TablesInv, UneditedInv
<1>9. CASE ~(m.at + Len(m.elements) > m.size)
  <2>1. /\ FUNCREF_TABLE' = Tables!Initialized(FUNCREF_TABLE, m, i)
        /\ own' = [own EXCEPT ![i] = Tables!Initialized(EmptyTable, m, i)]
        /\ trapped' = trapped
    BY <1>4, <1>9 DEF Tables!InitTables
  <2>2. Tables!TypeOK'
    <3>1. FUNCREF_TABLE' \in [Tables!Slot -> Tables!Entry]
      BY <1>2, <2>1, InitializedType
    <3>2. own' \in [Instance -> [Tables!Slot -> Tables!Entry]]
      BY <1>2, <2>1, InitializedType, EmptyTableType
    <3> QED  BY <1>1, <1>2, <1>6, <2>1, <3>1, <3>2 DEF Tables!TypeOK
  <2>3. \A j \in Instance : own'[j] = IF j = i THEN Tables!Initialized(EmptyTable, m, i)
                                      ELSE own[j]
    BY <1>2, <2>1
  <2>4. AloneInv'
    <3> SUFFICES ASSUME NEW j \in Instance, Tables!Live' \subseteq {j}
                 PROVE  own'[j] = FUNCREF_TABLE'
      BY DEF AloneInv
    <3>1. j = i /\ Tables!Live = {}  BY <1>3
    <3>2. FUNCREF_TABLE = EmptyTable  BY <3>1 DEF TablesInv
    <3> QED  BY <2>1, <2>3, <3>1, <3>2
  <2>5. UneditedInv'
    <3> SUFFICES ASSUME ~edited
                 PROVE  /\ \A j \in Tables!Live' :
                             own'[j] = Tables!Initialized(EmptyTable, lifted'[j], j)
                        /\ \E data \in [Tables!Slot -> Tables!Entry] :
                             FUNCREF_TABLE' = Tables!Initialized(data, lifted'[i], i)
                        /\ (\A j \in Tables!Live' : lifted'[j] = lifted'[i]) =>
                             FUNCREF_TABLE' = Tables!Initialized(EmptyTable, lifted'[i], i)
      BY <1>1, <2>1 DEF UneditedInv, Tables!Initialized
    <3>1. \A j \in Tables!Live : /\ j \in Instance /\ j # i
                                 /\ own[j] = Tables!Initialized(EmptyTable, lifted[j], j)
      BY <1>1, <1>3 DEF TablesInv, UneditedInv, Tables!Live
    <3>2. \A j \in Tables!Live' : own'[j] = Tables!Initialized(EmptyTable, lifted'[j], j)
      BY <1>3, <1>5, <2>3, <3>1
    <3>3. ASSUME \A j \in Tables!Live' : lifted'[j] = m
          PROVE  FUNCREF_TABLE' = Tables!Initialized(EmptyTable, m, i)
      <4>1. CASE Tables!Live = {}
        BY <2>1, <4>1 DEF TablesInv
      <4>2. CASE Tables!Live # {}
        <5>1. last \in Tables!Live  BY <4>2 DEF TablesInv
        <5>2. \A j \in Tables!Live : lifted[j] = m  BY <1>3, <1>5, <3>1, <3>3
        <5>3. FUNCREF_TABLE = Tables!Initialized(EmptyTable, m, last)
          BY <1>1, <5>1, <5>2 DEF TablesInv, UneditedInv
        <5> QED  BY <2>1, <5>3, InitializedTwice, EmptyTableType
      <4> QED  BY <4>1, <4>2
    <3> QED  BY <1>2, <1>5, <2>1, <3>2, <3>3
  <2>6. PairedIn(FUNCREF_TABLE)'
    <3> SUFFICES ASSUME NEW x \in Tables!Slot, FUNCREF_TABLE'[x].func # Null
                 PROVE  Tables!Paired(FUNCREF_TABLE[x])'
      BY DEF PairedIn, Tables!Paired
    <3>1. CASE x \in m.at .. m.at + Len(m.elements) - 1
      <4> DEFINE k == x - m.at + 1
      <4>1. x \in Nat  BY TablesGiven DEF Tables!Slot
      <4>2. k \in 1 .. Len(m.elements)  BY <3>1, <4>1, TablesGiven
      <4> HIDE DEF k
      <4>3. FUNCREF_TABLE'[x] = IF m.elements[k] = Null THEN Tables!Empty
                                ELSE [func |-> m.elements[k], instance |-> i]
        BY <2>1, <3>1 DEF Tables!Initialized, k
      <4>4. /\ FUNCREF_TABLE'[x].instance = i
            /\ FUNCREF_TABLE'[x].func = m.elements[k]
        BY <4>3 DEF Tables!Empty
      <4> QED  BY <1>3, <1>5, <4>2, <4>4 DEF Tables!Paired
    <3>2. CASE x \notin m.at .. m.at + Len(m.elements) - 1
      <4>1. FUNCREF_TABLE'[x] = FUNCREF_TABLE[x]
        BY <2>1, <3>2 DEF Tables!Initialized
      <4> QED  BY <1>3, <1>5, <4>1 DEF TablesInv, PairedIn, Tables!Paired, Tables!Live
    <3> QED  BY <3>1, <3>2
  <2> QED  BY <1>1, <1>3, <1>7, <2>2, <2>3, <2>4, <2>5, <2>6 DEF TablesInv
<1> QED  BY <1>8, <1>9

(* A call writes no table.                                                 *)
LEMMA CallIndirectKeeps ==
  ASSUME TablesInv, NEW i \in Tables!Live, NEW x \in Tables!Slot, NEW type \in Tables!Types,
         Tables!CallIndirect(i, x, type)
  PROVE  TablesInv'
<1> DEFINE ran == Tables!Runs(Tables!Size(i), FUNCREF_TABLE, x, type)
<1>1. /\ ~trapped
      /\ called' = [by |-> i, slot |-> x, type |-> type, ran |-> ran]
      /\ UNCHANGED <<lifted, FUNCREF_TABLE, own, last, edited, trapped>>
  BY DEF Tables!CallIndirect
<1>2. Tables!TypeOK /\ Tables!Live' = Tables!Live /\ i \in Instance
  BY <1>1 DEF TablesInv, Tables!Live
<1>3. ran \in Tables!Entry \cup {Null}
  BY <1>2 DEF Tables!Runs, Tables!TypeOK
<1>4. Tables!TypeOK'
  <2> HIDE DEF ran
  <2> QED  BY <1>1, <1>2, <1>3 DEF Tables!TypeOK
<1>5. CalledInv'
  BY <1>1, <1>2 DEF CalledInv, Tables!Runs, Tables!Size
<1>6. AloneInv' /\ UneditedInv'
  BY <1>1, <1>2 DEF TablesInv, AloneInv, UneditedInv, Tables!Initialized
<1>7. PairedIn(FUNCREF_TABLE)'
  BY <1>1, <1>2 DEF TablesInv, PairedIn, Tables!Paired
<1> QED  BY <1>1, <1>2, <1>4, <1>5, <1>6, <1>7 DEF TablesInv

(* A write changes the array and the instance's own table in the same way  *)
(* where they held the same.                                               *)
LEMMA WriteKeeps ==
  ASSUME TablesInv, NEW i \in Tables!Live, NEW d, NEW n, NEW checks,
         NEW shared \in [Tables!Slot -> Tables!Entry],
         NEW private \in [Tables!Slot -> Tables!Entry],
         own[i] = FUNCREF_TABLE => private = shared, PairedIn(shared),
         Tables!Write(i, d, n, checks, shared, private)
  PROVE  TablesInv'
<1>1. /\ ~trapped /\ called' = Null /\ UNCHANGED <<lifted, last>>
  BY DEF Tables!Write
<1>2. /\ Tables!TypeOK /\ Tables!Live' = Tables!Live /\ i \in Instance
      /\ FUNCREF_TABLE \in [Tables!Slot -> Tables!Entry]
      /\ own \in [Instance -> [Tables!Slot -> Tables!Entry]]
  BY <1>1 DEF TablesInv, Tables!Live, Tables!TypeOK
<1>3. CalledInv'  BY <1>1 DEF CalledInv
<1>6. \A e : Tables!Paired(e)' <=> Tables!Paired(e)
  BY <1>1, <1>2 DEF Tables!Paired
<1>4. CASE ~checks \/ d + n > Tables!Size(i)
  <2>1. trapped' = TRUE /\ UNCHANGED <<FUNCREF_TABLE, own, edited>>
    BY <1>4 DEF Tables!Write
  <2>2. Tables!TypeOK'  BY <1>1, <1>2, <2>1 DEF Tables!TypeOK
  <2>3. PairedIn(FUNCREF_TABLE)'  BY <1>6, <2>1 DEF TablesInv, PairedIn
  <2> QED
    BY <1>1, <1>2, <1>3, <2>1, <2>2, <2>3 DEF TablesInv, AloneInv, UneditedInv
<1>5. CASE ~(~checks \/ d + n > Tables!Size(i))
  <2> DEFINE Over(data, with) ==
        [x \in Tables!Slot |-> IF x \in d .. d + n - 1 THEN with[x] ELSE data[x]]
  <2>1. /\ FUNCREF_TABLE' = Over(FUNCREF_TABLE, shared)
        /\ own' = [own EXCEPT ![i] = Over(own[i], private)]
        /\ edited' = TRUE /\ trapped' = trapped
    BY <1>5 DEF Tables!Write
  <2>2. FUNCREF_TABLE' \in [Tables!Slot -> Tables!Entry]
    BY <1>2, <2>1
  <2>3. Over(own[i], private) \in [Tables!Slot -> Tables!Entry]
    BY <1>2
  <2>4. own' \in [Instance -> [Tables!Slot -> Tables!Entry]]
    BY <1>2, <2>1, <2>3
  <2>5. Tables!TypeOK'  BY <1>1, <1>2, <2>1, <2>2, <2>4 DEF Tables!TypeOK
  <2>6. AloneInv'
    <3> SUFFICES ASSUME NEW j \in Instance, Tables!Live' \subseteq {j}
                 PROVE  own'[j] = FUNCREF_TABLE'
      BY DEF AloneInv
    <3>1. j = i /\ own[i] = FUNCREF_TABLE  BY <1>2 DEF TablesInv, AloneInv
    <3> QED  BY <1>2, <2>1, <3>1
  <2>7. \A j \in Instance \ Tables!Live : own'[j] = own[j]  BY <1>2, <2>1
  <2>8. PairedIn(FUNCREF_TABLE)'  BY <1>6, <2>1 DEF TablesInv, PairedIn
  <2> QED
    BY <1>1, <1>2, <1>3, <2>1, <2>5, <2>6, <2>7, <2>8 DEF TablesInv, UneditedInv
<1> QED  BY <1>4, <1>5

(* What is written by a fill, and moved by a copy, are entries.            *)
LEMMA WrittenTypes ==
  /\ \A e \in Tables!Entry : Tables!Constantly(e) \in [Tables!Slot -> Tables!Entry]
  /\ \A data \in [Tables!Slot -> Tables!Entry] : \A d, s \in Tables!Slot :
       Tables!Shifted(data, d, s) \in [Tables!Slot -> Tables!Entry]
  /\ Tables!Empty \in Tables!Entry
<1>1. Tables!Empty \in Tables!Entry  BY DEF Tables!Empty, Tables!Entry
<1> QED  BY <1>1 DEF Tables!Constantly, Tables!Shifted

(* The tables' invariant is kept by every step.                            *)
LEMMA TablesSteps ==
  ASSUME TablesInv, [Tables!Next]_(Tables!vars)
  PROVE  TablesInv'
<1>1. /\ FUNCREF_TABLE \in [Tables!Slot -> Tables!Entry]
      /\ own \in [Instance -> [Tables!Slot -> Tables!Entry]]
      /\ Tables!Live \subseteq Instance
  BY DEF TablesInv, Tables!TypeOK, Tables!Live
<1>7. PairedIn(FUNCREF_TABLE)  BY DEF TablesInv
<1>2. ASSUME NEW i \in Tables!Live, NEW x \in Tables!Slot, NEW y \in Tables!Slot,
             Tables!TableSet(i, x, y)
      PROVE  TablesInv'
  <2>1. FUNCREF_TABLE[y] \in Tables!Entry /\ own[i][y] \in Tables!Entry  BY <1>1
  <2>2. own[i] = FUNCREF_TABLE =>
          Tables!Constantly(own[i][y]) = Tables!Constantly(FUNCREF_TABLE[y])
    OBVIOUS
  <2>3. PairedIn(Tables!Constantly(FUNCREF_TABLE[y]))
    BY <1>7 DEF PairedIn, Tables!Constantly
  <2> QED  BY <1>2, <2>1, <2>2, <2>3, WrittenTypes, WriteKeeps DEF Tables!TableSet
<1>3. ASSUME NEW i \in Tables!Live, NEW d \in Tables!Slot, NEW n \in Counts,
             Tables!TableFill(i, d, n)
      PROVE  TablesInv'
  <2>1. PairedIn(Tables!Constantly(Tables!Empty))
    BY DEF PairedIn, Tables!Constantly, Tables!Empty
  <2> QED  BY <1>3, <2>1, WrittenTypes, WriteKeeps DEF Tables!TableFill
<1>4. ASSUME NEW i \in Tables!Live, NEW d \in Tables!Slot, NEW s \in Tables!Slot,
             NEW n \in Counts, Tables!TableCopy(i, d, s, n)
      PROVE  TablesInv'
  <2>1. /\ Tables!Shifted(FUNCREF_TABLE, d, s) \in [Tables!Slot -> Tables!Entry]
        /\ Tables!Shifted(own[i], d, s) \in [Tables!Slot -> Tables!Entry]
    BY <1>1, WrittenTypes
  <2>2. own[i] = FUNCREF_TABLE =>
          Tables!Shifted(own[i], d, s) = Tables!Shifted(FUNCREF_TABLE, d, s)
    OBVIOUS
  <2>3. PairedIn(Tables!Shifted(FUNCREF_TABLE, d, s))
    BY <1>7 DEF PairedIn, Tables!Shifted, Tables!Empty
  <2> QED  BY <1>4, <2>1, <2>2, <2>3, WriteKeeps DEF Tables!TableCopy
<1>5. CASE UNCHANGED Tables!vars
  BY <1>5 DEF Tables!vars, TablesInv, Tables!TypeOK, CalledInv, AloneInv, UneditedInv,
    Tables!Live, Tables!Size, Tables!Runs, Tables!Initialized, PairedIn, Tables!Paired
<1> QED
  BY <1>2, <1>3, <1>4, <1>5, InitTablesKeeps, CallIndirectKeeps DEF Tables!Next

(* The tables' invariant, for any modules, segments and instances.         *)
THEOREM TablesInvariant == RuntimeSpec => []TablesInv
<1>1. Tables!Spec => []TablesInv  BY TablesStart, TablesSteps, PTL DEF Tables!Spec
<1> QED  BY <1>1, PartsRun, PTL

(* Whatever instances do to the array they share, a call runs a function   *)
(* with an instance of the module it is from.                              *)
THEOREM CallsPaired == RuntimeSpec => []PairedAsListed
<1>1. TablesInv => Tables!PairedAsListed
  <2> SUFFICES ASSUME TablesInv, called # Null, called.ran # Null
               PROVE  Tables!Paired(called.ran)
    BY DEF Tables!PairedAsListed
  <2>1. called.slot \in Tables!Slot /\ FUNCREF_TABLE[called.slot].func # Null
        /\ called.ran = FUNCREF_TABLE[called.slot]
    BY DEF TablesInv, CalledInv, Tables!TypeOK, Tables!Runs
  <2> QED  BY <2>1 DEF TablesInv, PairedIn
<1>2. TablesInv => PairedAsListed  BY <1>1 DEF TablesInv, PairedAsListed
<1> QED  BY <1>2, TablesInvariant, PTL

(* Where the shared array is as good as a table of one's own.              *)
THEOREM CallsRight == RuntimeSpec => []CallsAsOwn
<1>1. TablesInv => CallsAsOwn
  <2> SUFFICES ASSUME TablesInv, called # Null PROVE CallsAsOwn
    BY DEF CallsAsOwn, Tables!AloneIsOwn, Tables!LastIsOwn, Tables!OnlyInstanceDiffers
  <2> DEFINE i == called.by
             x == called.slot
             m == lifted[i]
             segment == m.at .. m.at + Len(m.elements) - 1
  <2>1. /\ ~trapped /\ i \in Tables!Live
        /\ called.ran = Tables!Runs(Tables!Size(i), FUNCREF_TABLE, x, called.type)
    BY DEF TablesInv, CalledInv
  <2>2. /\ x \in Tables!Slot /\ i \in Instance /\ m \in Lifted /\ last \in Tables!Live
        /\ last \in Instance
    BY <2>1 DEF TablesInv, Tables!TypeOK, Tables!Live
  <2>3. Tables!Expected = Tables!Runs(Tables!Size(i), own[i], x, called.type)
    BY DEF Tables!Expected
  <2>4. Tables!AloneIsOwn
    <3> SUFFICES ASSUME Tables!Live = {i} PROVE called.ran = Tables!Expected
      BY DEF Tables!AloneIsOwn
    <3>1. own[i] = FUNCREF_TABLE  BY <2>2 DEF TablesInv, AloneInv
    <3> QED  BY <2>1, <2>3, <3>1
  <2>5. Tables!LastIsOwn
    <3> SUFFICES ASSUME i = last, ~edited, x \in segment PROVE called.ran = Tables!Expected
      BY DEF Tables!LastIsOwn
    <3>1. PICK data \in [Tables!Slot -> Tables!Entry] :
            FUNCREF_TABLE = Tables!Initialized(data, m, i)
      BY <2>1, <2>2 DEF TablesInv, UneditedInv
    <3>2. own[i] = Tables!Initialized(EmptyTable, m, i)
      BY <2>1 DEF TablesInv, UneditedInv
    <3>3. FUNCREF_TABLE[x] = own[i][x]
      BY <2>2, <3>1, <3>2 DEF Tables!Initialized
    <3> QED  BY <2>1, <2>3, <3>3 DEF Tables!Runs
  <2>6. Tables!OnlyInstanceDiffers
    <3> SUFFICES ASSUME ~edited, \A j \in Tables!Live : lifted[j] = m
                 PROVE  IF Tables!Expected = Null THEN called.ran = Null
                        ELSE called.ran = [func |-> Tables!Expected.func, instance |-> last]
      BY DEF Tables!OnlyInstanceDiffers
    <3>1. lifted[last] = m /\ \A j \in Tables!Live : lifted[j] = lifted[last]  BY <2>2
    <3>2. FUNCREF_TABLE = Tables!Initialized(EmptyTable, m, last)
      BY <2>1, <2>2, <3>1 DEF TablesInv, UneditedInv
    <3>3. own[i] = Tables!Initialized(EmptyTable, m, i)
      BY <2>1 DEF TablesInv, UneditedInv
    <3>4. own[i][x] \in Tables!Entry /\ own[i][x] # Null
      BY <2>2, TablesGiven DEF TablesInv, Tables!TypeOK
    <3>5. CASE x \in segment /\ m.elements[x - m.at + 1] # Null
      <4> DEFINE f == m.elements[x - m.at + 1]
      <4>1. own[i][x] = [func |-> f, instance |-> i]
        BY <2>2, <3>3, <3>5 DEF Tables!Initialized
      <4>2. FUNCREF_TABLE[x] = [func |-> f, instance |-> last]
        BY <2>2, <3>2, <3>5 DEF Tables!Initialized
      <4> HIDE DEF f
      <4> QED  BY <2>1, <2>3, <3>4, <4>1, <4>2 DEF Tables!Runs
    <3>6. CASE ~(x \in segment /\ m.elements[x - m.at + 1] # Null)
      <4>1. own[i][x] = Tables!Empty /\ FUNCREF_TABLE[x] = Tables!Empty
        BY <2>2, <3>2, <3>3, <3>6 DEF Tables!Initialized, EmptyTable
      <4> QED  BY <2>1, <2>3, <4>1 DEF Tables!Runs, Tables!Empty
    <3> QED  BY <3>5, <3>6
  <2> QED  BY <2>4, <2>5, <2>6 DEF CallsAsOwn
<1> QED  BY <1>1, TablesInvariant, PTL
=============================================================================
