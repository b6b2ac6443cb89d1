---------------------------- MODULE InlinerProofs ----------------------------
(***************************************************************************)
(* Theorems about Inliner for every call graph, every set of always-inline *)
(* functions, and every order of inlining.                                 *)
(***************************************************************************)
EXTENDS Inliner, FiniteSetTheorems, WellFoundedInduction, TLAPS

(* Facts about the constants, in the form the provers use them.            *)
LEMMA ConstantFacts ==
  /\ Owner \in [Site -> Func] /\ Root \in Func
  /\ Programs \subseteq AllPrograms /\ Paths \subseteq Seq(Site)
BY GraphAssumption, ProgramsAssumption, InlinerAssumption

(* Appending a chain below the call it was cloned from.                    *)
LEMMA ConcatFacts ==
  ASSUME NEW c \in Seq(Site), NEW q \in Seq(Site), Len(c) > 0, Len(q) > 0
  PROVE  /\ c \o q \in Seq(Site)
         /\ Len(c \o q) = Len(c) + Len(q)
         /\ \A i \in 1 .. Len(c) : (c \o q)[i] = c[i]
         /\ \A i \in 1 .. Len(q) : (c \o q)[Len(c) + i] = q[i]
         /\ SiteOf(c \o q) = SiteOf(q)
BY DEF SiteOf

(* A call as the compiler wrote it is a chain of one site.                 *)
LEMMA WrittenFacts ==
  ASSUME NEW g, NEW q \in Written(g)
  PROVE  /\ q \in Seq(Site) \ {<<>>}
         /\ Len(q) = 1
         /\ Owner[q[1]] = g
<1>1. PICK s \in Site : q = <<s>> /\ Owner[s] = g
  BY DEF Written
<1>2. QED
  BY <1>1

(***************************************************************************)
(* Types.                                                                  *)
(***************************************************************************)
LEMMA ClonesType ==
  ASSUME TypeOK, NEW c \in work
  PROVE  Clones(c) \subseteq Seq(Site) \ {<<>>}
<1>1. SUFFICES ASSUME NEW g, NEW q \in Body(g)
               PROVE  c \o q \in Seq(Site) \ {<<>>}
  BY DEF Clones
<1>2. q \in Seq(Site) \ {<<>>}
  BY WrittenFacts DEF Body, TypeOK
<1>3. c \in Seq(Site) \ {<<>>}
  BY DEF TypeOK
<1>4. QED
  BY <1>2, <1>3

(* The variables keep their types, and the set of calls to inline is empty *)
(* outside the second half of the loop.                                    *)
THEOREM TypeCorrect == Spec => []TypeOK
<1>1. Init => TypeOK
  BY ConstantFacts, WrittenFacts DEF Init, TypeOK
<1>2. TypeOK /\ [Next]_vars => TypeOK'
  <2>1. SUFFICES ASSUME TypeOK, [Next]_vars PROVE TypeOK'
    OBVIOUS
  <2>2. CASE Collect
    BY <2>1, <2>2 DEF Collect, HotCalls, TypeOK
  <2>3. ASSUME NEW c \in work, InlineOne(c) PROVE TypeOK'
    <3>1. calls' \subseteq Seq(Site) \ {<<>>}
      BY <2>1, <2>3, ClonesType DEF InlineOne, AfterInlining, TypeOK
    <3>2. QED
      BY <2>1, <2>3, <3>1 DEF InlineOne, TypeOK
  <2>4. CASE Finish
    BY <2>1, <2>4 DEF Finish, TypeOK
  <2>5. CASE StripAsm
    BY <2>1, <2>5 DEF StripAsm, TypeOK
  <2>6. CASE UNCHANGED vars
    BY <2>1, <2>6 DEF vars, TypeOK
  <2>7. QED
    BY <2>1, <2>2, <2>3, <2>4, <2>5, <2>6 DEF Next
<1>3. QED
  BY <1>1, <1>2, PTL DEF Spec

(***************************************************************************)
(* The pointers collected in a round stay valid while the round uses them. *)
(***************************************************************************)
(* No pointer of FuncToInline dangles or names a call that is no longer to *)
(* be inlined, whatever the pointer order is.                              *)
THEOREM PointersLive == Spec => []WorklistLive
<1>1. Init => WorklistLive
  BY DEF Init, WorklistLive
<1>2. TypeOK /\ WorklistLive /\ [Next]_vars => WorklistLive'
  <2>1. SUFFICES ASSUME TypeOK, WorklistLive, [Next]_vars PROVE WorklistLive'
    OBVIOUS
  <2>2. CASE Collect
    BY <2>2 DEF Collect, HotCalls, WorklistLive
  <2>3. ASSUME NEW c \in work, InlineOne(c) PROVE WorklistLive'
    BY <2>1, <2>3 DEF InlineOne, AfterInlining, WorklistLive
  <2>4. CASE Finish
    BY <2>1, <2>4 DEF Finish, WorklistLive
  <2>5. CASE StripAsm
    BY <2>1, <2>5 DEF StripAsm, TypeOK, WorklistLive
  <2>6. CASE UNCHANGED vars
    BY <2>1, <2>6 DEF vars, WorklistLive
  <2>7. QED
    BY <2>1, <2>2, <2>3, <2>4, <2>5, <2>6 DEF Next
<1>3. QED
  BY <1>1, <1>2, TypeCorrect, PTL DEF Spec

(***************************************************************************)
(* Nothing is invented.                                                    *)
(***************************************************************************)
(* Calls from the body of g on, each in the body the one before expands to. *)
Path(g, p) ==
  /\ p \in Seq(Site)
  /\ Len(p) > 0
  /\ Owner[p[1]] = g
  /\ \A i \in 1 .. Len(p) - 1 :
       Expands(prog, p[i]) /\ Owner[p[i + 1]] = prog.target[p[i]]

LEMMA ChainIsPath == \A p : IsChain(prog, p) <=> Path(Root, p)
BY DEF IsChain, Path

LEMMA SingleIsPath ==
  ASSUME NEW s \in Site
  PROVE  Path(Owner[s], <<s>>) /\ SiteOf(<<s>>) = s /\ Len(<<s>>) = 1
<1> DEFINE p == <<s>>
<1>1. p \in Seq(Site) /\ Len(p) = 1 /\ p[1] = s  OBVIOUS
<1> HIDE DEF p
<1>2. Path(Owner[s], p) /\ SiteOf(p) = s  BY <1>1 DEF Path, SiteOf
<1>3. QED  BY <1>1, <1>2 DEF p

(* A path from the callee's body, hung below a call that expands to it.    *)
LEMMA PathExtends ==
  ASSUME NEW g, NEW c, NEW q, Path(g, c), Expands(prog, SiteOf(c)),
         Path(prog.target[SiteOf(c)], q)
  PROVE  /\ Path(g, c \o q)
         /\ Len(c \o q) = Len(c) + Len(q)
         /\ SiteOf(c \o q) = SiteOf(q)
<1> DEFINE r == c \o q
<1>1. /\ c \in Seq(Site) /\ Len(c) > 0 /\ Len(c) \in Nat
      /\ q \in Seq(Site) /\ Len(q) > 0 /\ Len(q) \in Nat
  BY DEF Path
<1>2. /\ r \in Seq(Site)
      /\ Len(r) = Len(c) + Len(q)
      /\ \A i \in 1 .. Len(c) : r[i] = c[i]
      /\ \A i \in 1 .. Len(q) : r[Len(c) + i] = q[i]
      /\ SiteOf(r) = SiteOf(q)
  BY <1>1, ConcatFacts
<1>3. Len(r) > 0 /\ Owner[r[1]] = g
  BY <1>1, <1>2 DEF Path
<1> HIDE DEF r
<1>4. ASSUME NEW i \in 1 .. Len(r) - 1
      PROVE  Expands(prog, r[i]) /\ Owner[r[i + 1]] = prog.target[r[i]]
  <2>1. CASE i < Len(c)
    <3>1. r[i] = c[i] /\ r[i + 1] = c[i + 1] /\ i \in 1 .. Len(c) - 1
      BY <1>1, <1>2, <2>1
    <3>2. QED
      BY <3>1 DEF Path
  <2>2. CASE i = Len(c)
    <3>1. r[i] = SiteOf(c)
      BY <1>1, <1>2, <2>2 DEF SiteOf
    <3>2. r[i + 1] = q[1]
      BY <1>1, <1>2, <2>2
    <3>3. QED
      BY <3>1, <3>2 DEF Path
  <2>3. CASE i > Len(c)
    <3> DEFINE j == i - Len(c)
    <3>1. j \in 1 .. Len(q) - 1 /\ i = Len(c) + j
      BY <1>1, <1>2, <2>3
    <3>2. r[i] = q[j] /\ r[i + 1] = q[j + 1]
      <4>1. j \in 1 .. Len(q) /\ j + 1 \in 1 .. Len(q) /\ i + 1 = Len(c) + (j + 1)
        BY <1>1, <3>1
      <4> HIDE DEF j
      <4>2. QED
        BY <1>2, <3>1, <4>1
    <3>3. QED
      BY <3>1, <3>2 DEF Path
  <2>4. QED
    BY <1>1, <1>2, <2>1, <2>2, <2>3
<1>5. QED
  BY <1>2, <1>3, <1>4 DEF Path, r

(* Every call of Root is a chain of the source, after any number of rounds. *)
THEOREM NothingInvented == Spec => []CallsAreChains
<1>1. Init => CallsAreChains
  <2>1. SUFFICES ASSUME NEW q \in Written(Root) PROVE IsChain(prog, q)
    BY DEF Init, CallsAreChains
  <2>2. QED
    BY WrittenFacts DEF IsChain
<1>2. WorklistLive /\ CallsAreChains /\ [Next]_vars => CallsAreChains'
  <2>1. SUFFICES ASSUME WorklistLive, CallsAreChains, [Next]_vars
                 PROVE  CallsAreChains'
    OBVIOUS
  <2>2. CASE Collect
    BY <2>1, <2>2 DEF Collect, CallsAreChains
  <2>3. ASSUME NEW c \in work, InlineOne(c) PROVE CallsAreChains'
    <3>1. CASE ~ Expands(prog, SiteOf(c))
      BY <2>1, <2>3, <3>1 DEF InlineOne, CallsAreChains
    <3>2. CASE Expands(prog, SiteOf(c))
      <4>1. SUFFICES ASSUME NEW q \in Body(prog.target[SiteOf(c)])
                     PROVE  IsChain(prog, c \o q)
        BY <2>1, <2>3, <3>2
        DEF InlineOne, AfterInlining, Clones, CallsAreChains
      <4>2. Path(Root, c)
        BY <2>1, ChainIsPath DEF WorklistLive, CallsAreChains
      <4>3. Path(prog.target[SiteOf(c)], q)
        <5>1. CASE prog.target[SiteOf(c)] = Root
          BY <2>1, <5>1, ChainIsPath DEF Body, CallsAreChains
        <5>2. CASE prog.target[SiteOf(c)] # Root
          BY <5>2, WrittenFacts DEF Body, Path
        <5>3. QED
          BY <5>1, <5>2
      <4>4. QED
        BY <3>2, <4>2, <4>3, PathExtends, ChainIsPath
    <3>3. QED
      BY <3>1, <3>2
  <2>4. CASE Finish
    BY <2>1, <2>4 DEF Finish, CallsAreChains
  <2>5. CASE StripAsm
    BY <2>1, <2>5 DEF StripAsm, CallsAreChains
  <2>6. CASE UNCHANGED vars
    BY <2>1, <2>6 DEF vars, CallsAreChains
  <2>7. QED
    BY <2>1, <2>2, <2>3, <2>4, <2>5, <2>6 DEF Next
<1>3. QED
  BY <1>1, <1>2, PointersLive, PTL DEF Spec

(***************************************************************************)
(* Nothing is lost.                                                        *)
(***************************************************************************)
AllCovered == NothingLost(Seq(Site))

(* What follows the unfolded call c in a longer chain p.                   *)
LEMMA ChainTail ==
  ASSUME TypeOK, NEW c, NEW p, IsChain(prog, p),
         c \in Seq(Site), Len(c) > 0, Len(c) < Len(p), Prefixed(c, p)
  PROVE  /\ Expands(prog, SiteOf(c))
         /\ Owner[p[Len(c) + 1]] = prog.target[SiteOf(c)]
         /\ prog.target[SiteOf(c)] # "asm"
<1>1. Len(c) \in 1 .. Len(p) - 1 /\ p[Len(c)] = SiteOf(c)
  BY DEF IsChain, Prefixed, SiteOf
<1>2. Expands(prog, SiteOf(c)) /\ Owner[p[Len(c) + 1]] = prog.target[SiteOf(c)]
  BY <1>1 DEF IsChain
<1>3. prog.target[SiteOf(c)] \in Func
  BY <1>2, ConstantFacts DEF Expands, Hot, TypeOK, AllPrograms
<1>4. QED
  BY <1>2, <1>3, GraphAssumption

(* The tail of a chain, cut after a call of Root, is a chain of Root.      *)
LEMMA TailIsChain ==
  ASSUME NEW n \in Nat, NEW p, IsChain(prog, p), n < Len(p),
         Owner[p[n + 1]] = Root
  PROVE  \E r \in Seq(Site) :
           /\ Len(r) = Len(p) - n
           /\ \A i \in 1 .. Len(r) : r[i] = p[n + i]
           /\ IsChain(prog, r)
           /\ SiteOf(r) = SiteOf(p)
<1> DEFINE m == Len(p) - n
           r == [i \in 1 .. m |-> p[n + i]]
<1>1. p \in Seq(Site) /\ Len(p) \in Nat /\ m \in Nat /\ m > 0
  BY DEF IsChain
<1>2. r \in Seq(Site) /\ Len(r) = m /\ \A i \in 1 .. m : r[i] = p[n + i]
  <2>1. \A i \in 1 .. m : p[n + i] \in Site
    BY <1>1
  <2>2. QED
    BY <1>1, <2>1
<1> HIDE DEF r
<1>3. Owner[r[1]] = Root
  BY <1>1, <1>2
<1>4. ASSUME NEW i \in 1 .. Len(r) - 1
      PROVE  Expands(prog, r[i]) /\ Owner[r[i + 1]] = prog.target[r[i]]
  <2>1. /\ n + i \in 1 .. Len(p) - 1
        /\ r[i] = p[n + i]
        /\ r[i + 1] = p[(n + i) + 1]
    <3>1. /\ i \in 1 .. m /\ i + 1 \in 1 .. m
          /\ n + i \in 1 .. Len(p) - 1 /\ n + (i + 1) = (n + i) + 1
      BY <1>1, <1>2
    <3>2. r[i] = p[n + i] /\ r[i + 1] = p[n + (i + 1)]
      BY <1>2, <3>1
    <3>3. QED
      BY <3>1, <3>2
  <2>2. QED
    BY <2>1 DEF IsChain
<1>5. r[Len(r)] = p[Len(p)]
  BY <1>1, <1>2
<1>6. QED
  BY <1>1, <1>2, <1>3, <1>4, <1>5 DEF IsChain, SiteOf

(* The next sites of a chain below a call of Root that is above it.        *)
LEMMA ChainBelow ==
  ASSUME TypeOK, NEW c \in Seq(Site), Len(c) > 0,
         NEW p \in Seq(Site), IsChain(prog, p), Len(c) < Len(p), Prefixed(c, p),
         NEW q \in Seq(Site), Len(q) > 0, Len(q) \leq Len(p) - Len(c),
         \A i \in 1 .. Len(q) : q[i] = p[Len(c) + i]
  PROVE  Prefixed(c \o q, p)
<1> DEFINE r == c \o q
<1>1. /\ Len(r) = Len(c) + Len(q)
      /\ \A i \in 1 .. Len(c) : r[i] = c[i]
      /\ \A i \in 1 .. Len(q) : r[Len(c) + i] = q[i]
      /\ Len(c) \in Nat /\ Len(q) \in Nat /\ Len(p) \in Nat
  BY ConcatFacts
<1> HIDE DEF r
<1>2. ASSUME NEW i \in 1 .. Len(r) PROVE r[i] = p[i]
  <2>1. CASE i \leq Len(c)
    BY <1>1, <2>1 DEF Prefixed
  <2>2. CASE i > Len(c)
    <3>1. i - Len(c) \in 1 .. Len(q) /\ i = Len(c) + (i - Len(c))
      BY <1>1, <1>2, <2>2
    <3>2. QED
      BY <1>1, <3>1
  <2>3. QED
    BY <1>1, <2>1, <2>2
<1>3. QED
  BY <1>1, <1>2 DEF Prefixed, r

(* Inlining c leaves a call of Root above every chain that went through c. *)
LEMMA CoveredAfterInlining ==
  ASSUME TypeOK, AllCovered, NEW c \in calls, Expands(prog, SiteOf(c)),
         pc # "done",
         NEW p \in Seq(Site), IsChain(prog, p), ~ Expands(prog, SiteOf(p)),
         Prefixed(c, p)
  PROVE  \E q \in Clones(c) : Prefixed(q, p)
<1> DEFINE g == prog.target[SiteOf(c)]
<1>1. c \in Seq(Site) /\ Len(c) \in Nat /\ Len(c) > 0
  BY DEF TypeOK
<1>2. Len(p) \in Nat /\ Len(c) < Len(p)
  <2>1. Len(c) # Len(p)
    BY DEF Prefixed, SiteOf, IsChain
  <2>2. QED
    BY <1>1, <2>1 DEF Prefixed
<1>3. Owner[p[Len(c) + 1]] = g
  BY <1>1, <1>2, ChainTail
<1>4. ASSUME NEW q \in Seq(Site), Len(q) > 0, Len(q) \leq Len(p) - Len(c),
             \A i \in 1 .. Len(q) : q[i] = p[Len(c) + i]
      PROVE  Prefixed(c \o q, p)
  BY <1>1, <1>2, <1>4, ChainBelow
<1>5. CASE g = Root
  <2>1. PICK r \in Seq(Site) :
          /\ Len(r) = Len(p) - Len(c)
          /\ \A i \in 1 .. Len(r) : r[i] = p[Len(c) + i]
          /\ IsChain(prog, r)
          /\ SiteOf(r) = SiteOf(p)
    BY <1>1, <1>2, <1>3, <1>5, TailIsChain
  <2>2. PICK q \in calls : Prefixed(q, r)
    BY <2>1 DEF AllCovered, NothingLost
  <2>3. q \in Seq(Site) /\ Len(q) > 0
    BY DEF TypeOK
  <2>4. Prefixed(c \o q, p)
    <3>1. Len(q) \in Nat /\ Len(q) \leq Len(r) /\ \A i \in 1 .. Len(q) : q[i] = r[i]
      BY <2>2, <2>3 DEF Prefixed
    <3>2. Len(q) \leq Len(p) - Len(c) /\ \A i \in 1 .. Len(q) : q[i] = p[Len(c) + i]
      BY <2>1, <3>1
    <3>3. QED
      BY <1>4, <2>3, <3>2
  <2>5. QED
    BY <1>5, <2>2, <2>4 DEF Clones, Body
<1>6. CASE g # Root
  <2> DEFINE s == p[Len(c) + 1]
             q == <<s>>
  <2>1. s \in Site
    BY <1>1, <1>2
  <2>2. q \in Seq(Site) /\ Len(q) = 1 /\ q[1] = p[Len(c) + 1]
    BY <2>1
  <2>3. q \in Body(g)
    BY <1>3, <1>6, <2>1 DEF Body, Written
  <2> HIDE DEF q, s
  <2>4. Prefixed(c \o q, p)
    <3>1. Len(q) > 0 /\ Len(q) \leq Len(p) - Len(c)
      BY <1>1, <1>2, <2>2
    <3>2. \A i \in 1 .. Len(q) : q[i] = p[Len(c) + i]
      BY <2>2
    <3>3. QED
      BY <1>4, <2>2, <3>1, <3>2
  <2>5. QED
    BY <2>3, <2>4 DEF Clones
<1>7. QED
  BY <1>5, <1>6

(* At first Root has the call every chain starts with.                     *)
LEMMA ChainStarts ==
  ASSUME Init, NEW p \in Seq(Site), IsChain(prog, p)
  PROVE  \E q \in calls : Prefixed(q, p)
<1> DEFINE q == <<p[1]>>
<1>1. Len(p) \in Nat /\ Len(p) > 0 /\ p[1] \in Site /\ Owner[p[1]] = Root
  BY DEF IsChain
<1>2. q \in Written(Root) /\ Len(q) = 1 /\ q[1] = p[1]
  BY <1>1 DEF Written
<1> HIDE DEF q
<1>3. Prefixed(q, p)
  BY <1>1, <1>2 DEF Prefixed
<1>4. QED
  BY <1>2, <1>3 DEF Init

LEMMA CoveredInitially == Init => AllCovered
BY ChainStarts DEF AllCovered, NothingLost

LEMMA CoveredStep ==
  TypeOK /\ WorklistLive /\ AllCovered /\ [Next]_vars => AllCovered'
<1>1. SUFFICES ASSUME TypeOK, WorklistLive, AllCovered, [Next]_vars
               PROVE  AllCovered'
  OBVIOUS
<1>2. CASE Collect
  BY <1>1, <1>2 DEF Collect, AllCovered, NothingLost
<1>3. ASSUME NEW c \in work, InlineOne(c) PROVE AllCovered'
  <2>1. prog' = prog /\ pc # "done" /\ c \in calls
    BY <1>1, <1>3 DEF InlineOne, WorklistLive
  <2>2. CASE ~ Expands(prog, SiteOf(c))
    BY <1>1, <1>3, <2>1, <2>2 DEF InlineOne, AllCovered, NothingLost
  <2>3. CASE Expands(prog, SiteOf(c))
    <3>1. SUFFICES ASSUME NEW p \in Seq(Site), IsChain(prog, p),
                          ~ Expands(prog, SiteOf(p))
                   PROVE  \E q \in AfterInlining(c) : Prefixed(q, p)
      BY <1>3, <2>1, <2>3 DEF InlineOne, AllCovered, NothingLost
    <3>2. PICK q \in calls : Prefixed(q, p)
      BY <1>1, <2>1, <3>1 DEF AllCovered, NothingLost
    <3>3. CASE q = c
      BY <1>1, <2>1, <2>3, <3>1, <3>2, <3>3, CoveredAfterInlining
      DEF AfterInlining
    <3>4. CASE q # c
      BY <3>2, <3>4 DEF AfterInlining
    <3>5. QED
      BY <3>3, <3>4
  <2>4. QED
    BY <2>2, <2>3
<1>4. CASE Finish
  BY <1>1, <1>4 DEF Finish, AllCovered, NothingLost
<1>5. CASE StripAsm
  <2>1. SUFFICES ASSUME NEW p \in Seq(Site), IsChain(prog, p),
                        ~ Expands(prog, SiteOf(p)),
                        prog.target[SiteOf(p)] # "asm"
                 PROVE  \E q \in calls' : Prefixed(q, p)
    BY <1>5 DEF StripAsm, AllCovered, NothingLost
  <2>2. PICK q \in calls : Prefixed(q, p)
    BY <1>1, <1>5, <2>1 DEF StripAsm, AllCovered, NothingLost
  <2>3. q \in Seq(Site) /\ Len(q) \in Nat /\ Len(q) > 0 /\ Len(p) \in Nat
    BY <1>1, <2>1 DEF TypeOK
  <2>4. prog.target[SiteOf(q)] # "asm"
    <3>1. CASE Len(q) < Len(p)
      BY <1>1, <2>1, <2>2, <2>3, <3>1, ChainTail
    <3>2. CASE Len(q) = Len(p)
      BY <2>1, <2>2, <2>3, <3>2 DEF Prefixed, SiteOf
    <3>3. QED
      BY <2>2, <2>3, <3>1, <3>2 DEF Prefixed
  <2>5. QED
    BY <1>5, <2>2, <2>4 DEF StripAsm
<1>6. CASE UNCHANGED vars
  BY <1>1, <1>6 DEF vars, AllCovered, NothingLost
<1>7. QED
  BY <1>1, <1>2, <1>3, <1>4, <1>5, <1>6 DEF Next

(* Every call the reference unfolding leaves is in Root or still below a   *)
(* call of Root, in whatever order the rounds inline.                      *)
THEOREM NothingIsLost == Spec => []AllCovered
BY CoveredInitially, CoveredStep, TypeCorrect, PointersLive, PTL DEF Spec

(***************************************************************************)
(* The exit of the loop, and the contract.                                 *)
(***************************************************************************)
ExitInv ==
  /\ pc \in {"strip", "done"} => \A c \in calls : ~ Hot(prog, SiteOf(c))
  /\ pc = "done" => \A c \in calls : prog.target[SiteOf(c)] # "asm"

LEMMA ExitFacts == Spec => []ExitInv
<1>1. Init => ExitInv
  BY DEF Init, ExitInv
<1>2. ExitInv /\ [Next]_vars => ExitInv'
  <2>1. SUFFICES ASSUME ExitInv, [Next]_vars PROVE ExitInv'
    OBVIOUS
  <2>2. CASE Collect
    BY <2>2 DEF Collect, ExitInv
  <2>3. ASSUME NEW c \in work, InlineOne(c) PROVE ExitInv'
    BY <2>3 DEF InlineOne, ExitInv
  <2>4. CASE Finish
    BY <2>4 DEF Finish, HotCalls, ExitInv
  <2>5. CASE StripAsm
    BY <2>1, <2>5 DEF StripAsm, ExitInv
  <2>6. CASE UNCHANGED vars
    BY <2>1, <2>6 DEF vars, ExitInv
  <2>7. QED
    BY <2>1, <2>2, <2>3, <2>4, <2>5, <2>6 DEF Next
<1>3. QED
  BY <1>1, <1>2, PTL DEF Spec

(* The contract reads call graphs as the detailed module does.             *)
LEMMA SameGraph ==
  /\ Contract!Written(Root) = Written(Root)
  /\ \A pr, p : Contract!Survivor(pr, p) <=>
       /\ IsChain(pr, p)
       /\ ~ Hot(pr, SiteOf(p))
       /\ pr.target[SiteOf(p)] # "asm"
<1>1. Contract!Written(Root) = Written(Root)
  BY DEF Written, Contract!Written
<1>2. ASSUME NEW pr, NEW p
      PROVE  /\ Contract!IsChain(pr, p) <=> IsChain(pr, p)
             /\ Contract!SiteOf(p) = SiteOf(p)
             /\ Contract!Hot(pr, SiteOf(p)) <=> Hot(pr, SiteOf(p))
  BY DEF IsChain, Expands, Hot, SiteOf, Contract!IsChain, Contract!Expands,
         Contract!Hot, Contract!SiteOf
<1>3. QED
  BY <1>1, <1>2 DEF Contract!Survivor

(* A chain that ends in a call which is neither a helper's nor asm is left. *)
LEMMA SurvivorsLeft ==
  ASSUME TypeOK, AllCovered, ExitInv, pc = "done", NEW p \in Seq(Site),
         IsChain(prog, p), ~ Hot(prog, SiteOf(p)), prog.target[SiteOf(p)] # "asm"
  PROVE  p \in calls
<1>1. ~ Expands(prog, SiteOf(p))
  BY DEF Expands
<1>2. PICK q \in calls : Prefixed(q, p)
  BY <1>1 DEF AllCovered, NothingLost
<1>3. q \in Seq(Site) /\ Len(q) \in Nat /\ Len(q) > 0 /\ Len(p) \in Nat
  BY DEF TypeOK
<1>4. ~ (Len(q) < Len(p))
  BY <1>2, <1>3, ChainTail DEF ExitInv, Expands
<1>5. Len(q) = Len(p) /\ \A i \in 1 .. Len(q) : q[i] = p[i]
  BY <1>2, <1>3, <1>4 DEF Prefixed
<1>6. q = p
  BY <1>3, <1>5
<1>7. QED
  BY <1>6

LEMMA UnfoldedAtEnd ==
  TypeOK /\ CallsAreChains /\ AllCovered /\ ExitInv /\ pc = "done" =>
    Contract!Unfolded(prog, calls)
<1>1. SUFFICES ASSUME TypeOK, CallsAreChains, AllCovered, ExitInv, pc = "done"
               PROVE  Contract!Unfolded(prog, calls)
  OBVIOUS
<1>2. \A p \in calls : Contract!Survivor(prog, p)
  BY <1>1, SameGraph DEF CallsAreChains, ExitInv
<1>3. ASSUME NEW p \in Paths, Contract!Survivor(prog, p)
      PROVE  p \in calls
  BY <1>1, <1>3, ConstantFacts, SameGraph, SurvivorsLeft
<1>4. QED
  BY <1>2, <1>3 DEF Contract!Unfolded

(* The chains that are left at the end are those the contract asks for.    *)
THEOREM ChainsCorrect == Spec => [](pc = "done" => Contract!Unfolded(prog, calls))
BY TypeCorrect, NothingInvented, NothingIsLost, ExitFacts, UnfoldedAtEnd, PTL

(* The rounds and the erasure of asm, seen as one step, are the contract's. *)
THEOREM InlinerImplementsContract == Spec => ImplementsContract
<1>1. Init => Contract!Init
  BY SameGraph DEF Init, Contract!Init
<1>2. (pc = "done" => Contract!Unfolded(prog, calls))' /\ [Next]_vars => [Contract!Unfold]_(Contract!vars)
  <2>1. SUFFICES ASSUME (pc = "done" => Contract!Unfolded(prog, calls))', [Next]_vars
                 PROVE  [Contract!Unfold]_(Contract!vars)
    OBVIOUS
  <2>2. CASE Collect
    BY <2>2 DEF Collect, Contract!vars
  <2>3. ASSUME NEW c \in work, InlineOne(c)
        PROVE  [Contract!Unfold]_(Contract!vars)
    BY <2>3 DEF InlineOne, Contract!vars
  <2>4. CASE Finish
    BY <2>4 DEF Finish, Contract!vars
  <2>5. CASE StripAsm
    BY <2>1, <2>5 DEF StripAsm, Contract!Unfold
  <2>6. CASE UNCHANGED vars
    BY <2>6 DEF vars, Contract!vars
  <2>7. QED
    BY <2>1, <2>2, <2>3, <2>4, <2>5, <2>6 DEF Next
<1>3. QED
  BY <1>1, <1>2, ChainsCorrect, PTL DEF Spec, ImplementsContract, Contract!Spec
(***************************************************************************)
(* The loop ends only if it can.                                           *)
(***************************************************************************)
(* The least of some numbers.                                              *)
LEMMA NatMin ==
  ASSUME NEW T, T \subseteq Nat, T # {}
  PROVE  \E n \in T : \A m \in T : n \leq m
<1> DEFINE R == OpToRel(<, Nat)
<1>1. R = {p \in Nat \X Nat : p[1] < p[2]}
  BY DEF OpToRel
<1>2. IsWellFoundedOn(R, Nat)
  BY NatLessThanWellFounded
<1> HIDE DEF R
<1>3. PICK n \in T : \A m \in T : ~ (<<m, n>> \in R)
  BY <1>2, WFMin
<1>4. ASSUME NEW m \in T, m < n PROVE FALSE
  <2> DEFINE p == <<m, n>>
  <2>1. p \in Nat \X Nat /\ p[1] = m /\ p[2] = n
    OBVIOUS
  <2> HIDE DEF p
  <2>2. p \in R
    BY <1>1, <1>4, <2>1
  <2>3. p \notin R
    BY <1>3 DEF p
  <2>4. QED
    BY <2>2, <2>3
<1>5. ASSUME NEW m \in T PROVE n \leq m
  <2>1. m \in Nat /\ n \in Nat
    OBVIOUS
  <2>2. QED
    BY <1>4, <2>1
<1>6. QED
  BY <1>5

(* While there are rounds, a chain that is long enough goes through a call *)
(* of Root; after them there are no longer chains than some length, and    *)
(* all that would have to be inlined can be.                               *)
LongCovered(n) ==
  \A p \in Seq(Site) :
    IsChain(prog, p) /\ Len(p) > n => \E q \in calls : Prefixed(q, p)

LengthBounded(n) == \A p \in Seq(Site) : IsChain(prog, p) => Len(p) \leq n

HotExpands == \A p \in Seq(Site) : IsChain(prog, p) /\ Hot(prog, SiteOf(p)) => Expands(prog, SiteOf(p))

LengthInv ==
  /\ pc \in {"scan", "inline"} => \E n \in Nat : LongCovered(n)
  /\ pc \in {"strip", "done"} => HotExpands /\ \E n \in Nat : LengthBounded(n)

LEMMA LengthStarts == Init => LengthInv
<1>1. Init => LongCovered(0)
  BY ChainStarts DEF LongCovered
<1>2. QED
  BY <1>1 DEF Init, LengthInv

(* A long chain that went through the call that is inlined goes through    *)
(* one of the clones, of which those of Root's own body reach as far again. *)
LEMMA LongAfterInlining ==
  ASSUME TypeOK, NEW c \in calls, Expands(prog, SiteOf(c)),
         NEW n \in Nat, LongCovered(n),
         NEW p \in Seq(Site), IsChain(prog, p), Len(p) > n + Len(c), Prefixed(c, p)
  PROVE  \E q \in Clones(c) : Prefixed(q, p)
<1> DEFINE g == prog.target[SiteOf(c)]
<1>1. /\ c \in Seq(Site) /\ Len(c) \in Nat /\ Len(c) > 0
      /\ Len(p) \in Nat /\ Len(c) < Len(p)
  BY DEF TypeOK
<1>2. Owner[p[Len(c) + 1]] = g
  BY <1>1, ChainTail
<1>3. CASE g = Root
  <2>1. PICK r \in Seq(Site) :
          /\ Len(r) = Len(p) - Len(c)
          /\ \A i \in 1 .. Len(r) : r[i] = p[Len(c) + i]
          /\ IsChain(prog, r)
    BY <1>1, <1>2, <1>3, TailIsChain
  <2>2. Len(r) > n
    BY <1>1, <2>1
  <2>3. PICK q \in calls : Prefixed(q, r)
    BY <2>1, <2>2 DEF LongCovered
  <2>4. q \in Seq(Site) /\ Len(q) > 0 /\ Len(q) \in Nat
    BY DEF TypeOK
  <2>5. Len(q) \leq Len(p) - Len(c) /\ \A i \in 1 .. Len(q) : q[i] = p[Len(c) + i]
    BY <1>1, <2>1, <2>3, <2>4 DEF Prefixed
  <2>6. QED
    BY <1>1, <1>3, <2>3, <2>4, <2>5, ChainBelow DEF Clones, Body
<1>4. CASE g # Root
  <2> DEFINE s == p[Len(c) + 1]
             q == <<s>>
  <2>1. s \in Site
    BY <1>1
  <2>2. q \in Seq(Site) /\ Len(q) = 1 /\ q[1] = p[Len(c) + 1]
    BY <2>1
  <2>3. q \in Body(g)
    BY <1>2, <1>4, <2>1 DEF Body, Written
  <2> HIDE DEF q, s
  <2>4. Len(q) > 0 /\ Len(q) \leq Len(p) - Len(c) /\ \A i \in 1 .. Len(q) : q[i] = p[Len(c) + i]
    BY <1>1, <2>2
  <2>5. QED
    BY <1>1, <2>2, <2>3, <2>4, ChainBelow DEF Clones
<1>5. QED
  BY <1>3, <1>4

(* Without a call to inline, a chain ends in a call of Root or is above    *)
(* none, and that is only true of short ones.                              *)
LEMMA LoopLeft ==
  ASSUME TypeOK, AllCovered, pc # "done", HotCalls = {}, NEW n \in Nat, LongCovered(n)
  PROVE  HotExpands /\ LengthBounded(n + 1)
<1>1. \A c \in calls : ~ Hot(prog, SiteOf(c)) /\ c \in Seq(Site) /\ Len(c) > 0 /\ Len(c) \in Nat
  BY DEF HotCalls, TypeOK
<1>2. ASSUME NEW p \in Seq(Site), IsChain(prog, p), NEW q \in calls, Prefixed(q, p)
      PROVE  q = p /\ ~ Hot(prog, SiteOf(p))
  <2>1. Len(p) \in Nat /\ Len(q) \leq Len(p) /\ \A i \in 1 .. Len(q) : q[i] = p[i]
    BY <1>2 DEF Prefixed
  <2>2. ~ (Len(q) < Len(p))
    BY <1>1, <1>2, ChainTail DEF Expands
  <2>3. q \in Seq(Site) /\ Len(q) = Len(p)
    BY <1>1, <2>1, <2>2
  <2>4. q = p
    BY <2>1, <2>3
  <2>5. QED
    BY <1>1, <2>4
<1>3. HotExpands
  <2>1. SUFFICES ASSUME NEW p \in Seq(Site), IsChain(prog, p), Hot(prog, SiteOf(p)),
                        ~ Expands(prog, SiteOf(p))
                 PROVE  FALSE
    BY DEF HotExpands
  <2>2. PICK q \in calls : Prefixed(q, p)
    BY <2>1 DEF AllCovered, NothingLost
  <2>3. QED
    BY <1>2, <2>1, <2>2
<1>4. ASSUME NEW p \in Seq(Site), IsChain(prog, p), ~ (Len(p) \leq n + 1)
      PROVE  FALSE
  <2> DEFINE m == Len(p) - 1
             f == [i \in 1 .. m |-> p[i]]
  <2>1. Len(p) \in Nat /\ m \in Nat /\ m > n /\ m > 0 /\ m < Len(p)
    BY <1>4
  <2>2. f \in Seq(Site) /\ Len(f) = m /\ \A i \in 1 .. m : f[i] = p[i]
    <3>1. \A i \in 1 .. m : p[i] \in Site
      BY <2>1
    <3>2. QED
      BY <2>1, <3>1
  <2> HIDE DEF f
  <2>3. IsChain(prog, f)
    <3>1. Owner[f[1]] = Root
      BY <1>4, <2>1, <2>2 DEF IsChain
    <3>2. ASSUME NEW i \in 1 .. m - 1
          PROVE  Expands(prog, f[i]) /\ Owner[f[i + 1]] = prog.target[f[i]]
      <4>1. i \in 1 .. m /\ i + 1 \in 1 .. m /\ i \in 1 .. Len(p) - 1
        BY <2>1
      <4>2. f[i] = p[i] /\ f[i + 1] = p[i + 1]
        BY <2>2, <4>1
      <4>3. QED
        BY <1>4, <4>1, <4>2 DEF IsChain
    <3>3. QED
      BY <2>1, <2>2, <3>1, <3>2 DEF IsChain
  <2>4. PICK q \in calls : Prefixed(q, f)
    BY <2>1, <2>2, <2>3 DEF LongCovered
  <2>5. ~ Hot(prog, SiteOf(f))
    BY <1>2, <2>2, <2>3, <2>4
  <2>6. m \in 1 .. Len(p) - 1 /\ SiteOf(f) = p[m]
    BY <2>1, <2>2 DEF SiteOf
  <2>7. Expands(prog, p[m])
    BY <1>4, <2>6 DEF IsChain
  <2>8. QED
    BY <2>5, <2>6, <2>7 DEF Expands
<1>5. QED
  BY <1>3, <1>4 DEF LengthBounded

LEMMA LengthStep ==
  TypeOK /\ WorklistLive /\ AllCovered /\ LengthInv /\ [Next]_vars => LengthInv'
<1>1. SUFFICES ASSUME TypeOK, WorklistLive, AllCovered, LengthInv, [Next]_vars
               PROVE  LengthInv'
  OBVIOUS
<1>2. CASE Collect
  BY <1>1, <1>2 DEF Collect, LengthInv, LongCovered
<1>3. ASSUME NEW c \in work, InlineOne(c) PROVE LengthInv'
  <2>1. /\ prog' = prog /\ pc = "inline" /\ pc' \in {"scan", "inline"} /\ c \in calls
        /\ calls' = IF Expands(prog, SiteOf(c)) THEN AfterInlining(c) ELSE calls
    BY <1>1, <1>3 DEF InlineOne, WorklistLive
  <2>2. PICK n \in Nat : LongCovered(n)
    BY <1>1, <2>1 DEF LengthInv
  <2>3. CASE ~ Expands(prog, SiteOf(c))
    BY <2>1, <2>2, <2>3 DEF LengthInv, LongCovered
  <2>4. CASE Expands(prog, SiteOf(c))
    <3>1. Len(c) \in Nat /\ n + Len(c) \in Nat
      BY <1>1, <2>1 DEF TypeOK
    <3>2. ASSUME NEW p \in Seq(Site), IsChain(prog, p), Len(p) > n + Len(c)
          PROVE  \E q \in AfterInlining(c) : Prefixed(q, p)
      <4>1. Len(p) > n
        BY <3>1, <3>2
      <4>2. PICK q \in calls : Prefixed(q, p)
        BY <2>2, <3>2, <4>1 DEF LongCovered
      <4>3. CASE q = c
        BY <1>1, <2>1, <2>2, <2>4, <3>2, <4>2, <4>3, LongAfterInlining
        DEF AfterInlining
      <4>4. CASE q # c
        BY <4>2, <4>4 DEF AfterInlining
      <4>5. QED
        BY <4>3, <4>4
    <3>3. LongCovered(n + Len(c))'
      BY <2>1, <2>4, <3>2 DEF LongCovered
    <3>4. QED
      BY <2>1, <3>1, <3>3 DEF LengthInv
  <2>5. QED
    BY <2>3, <2>4
<1>4. CASE Finish
  <2>1. prog' = prog /\ pc = "scan" /\ pc' = "strip" /\ HotCalls = {}
    BY <1>4 DEF Finish
  <2>2. PICK n \in Nat : LongCovered(n)
    BY <1>1, <2>1 DEF LengthInv
  <2>3. HotExpands /\ LengthBounded(n + 1) /\ n + 1 \in Nat
    BY <1>1, <2>1, <2>2, LoopLeft
  <2>4. HotExpands' /\ LengthBounded(n + 1)'
    BY <2>1, <2>3 DEF HotExpands, LengthBounded
  <2>5. QED
    BY <2>1, <2>3, <2>4 DEF LengthInv
<1>5. CASE StripAsm
  BY <1>1, <1>5 DEF StripAsm, LengthInv, HotExpands, LengthBounded
<1>6. CASE UNCHANGED vars
  BY <1>1, <1>6 DEF vars, LengthInv, LongCovered, HotExpands, LengthBounded
<1>7. QED
  BY <1>1, <1>2, <1>3, <1>4, <1>5, <1>6 DEF Next

(* What can be reached from Root is reached along chains.                  *)
Entered ==
  {g \in Func : g = Root \/ \E c \in Seq(Site) :
     IsChain(prog, c) /\ Expands(prog, SiteOf(c)) /\ g = prog.target[SiteOf(c)]}

LEMMA EnteredSite ==
  ASSUME NEW s \in Site, Owner[s] \in Entered
  PROVE  \E p \in Seq(Site) : IsChain(prog, p) /\ SiteOf(p) = s
<1>1. CASE Owner[s] = Root
  <2> DEFINE q == <<s>>
  <2>1. q \in Seq(Site)
    OBVIOUS
  <2>2. Path(Owner[s], q) /\ SiteOf(q) = s
    BY SingleIsPath
  <2> HIDE DEF q
  <2>3. QED
    BY <1>1, <2>1, <2>2, ChainIsPath
<1>2. CASE Owner[s] # Root
  <2>1. PICK c \in Seq(Site) :
          Path(Root, c) /\ Expands(prog, SiteOf(c)) /\ Owner[s] = prog.target[SiteOf(c)]
    BY <1>2, ChainIsPath DEF Entered
  <2>2. Path(prog.target[SiteOf(c)], <<s>>) /\ SiteOf(<<s>>) = s
    BY <2>1, SingleIsPath
  <2> DEFINE p == c \o <<s>>
  <2>3. Path(Root, p) /\ SiteOf(p) = s
    BY <2>1, <2>2, PathExtends
  <2>4. p \in Seq(Site)
    BY <2>3 DEF Path
  <2>5. QED
    BY <2>3, <2>4, ChainIsPath
<1>3. QED
  BY <1>1, <1>2

LEMMA ReachedIsEntered ==
  ASSUME TypeOK, HotExpands
  PROVE  Reached(prog) \subseteq Entered
<1>1. Root \in Entered
  BY ConstantFacts DEF Entered
<1>2. ASSUME NEW s \in Site, Owner[s] \in Entered, Hot(prog, s)
      PROVE  prog.target[s] \in Entered
  <2>1. PICK p \in Seq(Site) : IsChain(prog, p) /\ SiteOf(p) = s
    BY <1>2, EnteredSite
  <2>2. Expands(prog, SiteOf(p))
    BY <1>2, <2>1 DEF HotExpands
  <2>3. prog.target[s] \in Func
    BY <1>2, ConstantFacts DEF Hot, TypeOK, AllPrograms
  <2>4. QED
    BY <2>1, <2>2, <2>3 DEF Entered
<1>3. Entered \in SUBSET Func
  BY DEF Entered
<1>4. QED
  BY <1>1, <1>2, <1>3 DEF Reached

(* The functions below g: its rank is how many they are.                   *)
Below(g) ==
  {h \in Func : \E p \in Seq(Site) :
     Path(g, p) /\ Expands(prog, SiteOf(p)) /\ h = prog.target[SiteOf(p)]}

(* Where chains are bounded, no function is below itself: the longest      *)
(* chain that enters it would go on.                                       *)
LEMMA NotBelowItself ==
  ASSUME NEW n \in Nat, LengthBounded(n), NEW c \in Seq(Site), IsChain(prog, c),
         Expands(prog, SiteOf(c))
  PROVE  prog.target[SiteOf(c)] \notin Below(prog.target[SiteOf(c)])
<1> DEFINE g == prog.target[SiteOf(c)]
<1>1. SUFFICES ASSUME g \in Below(g) PROVE FALSE
  OBVIOUS
<1>2. PICK w \in Seq(Site) :
        Path(g, w) /\ Expands(prog, SiteOf(w)) /\ g = prog.target[SiteOf(w)]
  BY <1>1 DEF Below
<1> DEFINE Enters(d) == IsChain(prog, d) /\ Expands(prog, SiteOf(d)) /\ prog.target[SiteOf(d)] = g
           Left == {k \in Nat : \E d \in Seq(Site) : Enters(d) /\ k = n - Len(d)}
<1>3. ASSUME NEW d \in Seq(Site), Enters(d)
      PROVE  n - Len(d) \in Left
  <2>1. Len(d) \in Nat /\ Len(d) \leq n
    BY <1>3 DEF LengthBounded
  <2>2. QED
    BY <1>3, <2>1
<1>4. Left \subseteq Nat /\ Left # {}
  <2>1. n - Len(c) \in Left
    BY <1>3
  <2>2. QED
    BY <2>1
<1>5. PICK k \in Left : \A m \in Left : k \leq m
  <2> HIDE DEF Left
  <2>1. QED
    BY <1>4, NatMin
<1>6. PICK d \in Seq(Site) : Enters(d) /\ k = n - Len(d)
  BY <1>5
<1>7. /\ Path(Root, d \o w) /\ Len(d \o w) = Len(d) + Len(w) /\ SiteOf(d \o w) = SiteOf(w)
  BY <1>2, <1>6, ChainIsPath, PathExtends
<1>8. d \o w \in Seq(Site) /\ Enters(d \o w)
  BY <1>2, <1>7, ChainIsPath DEF Path
<1>9. Len(d) \in Nat /\ Len(w) \in Nat /\ Len(w) > 0
  BY <1>2 DEF Path
<1>10. k \leq n - (Len(d) + Len(w))
  <2>1. n - Len(d \o w) \in Left
    BY <1>3, <1>8
  <2> HIDE DEF Left
  <2>2. QED
    BY <1>5, <1>7, <2>1
<1>11. QED
  BY <1>6, <1>9, <1>10

LEMMA RankDecreases ==
  ASSUME TypeOK, HotExpands, NEW n \in Nat, LengthBounded(n)
  PROVE  CanFinish(prog)
<1> DEFINE rank == [g \in Func |-> Cardinality(Below(g))]
<1>1. ASSUME NEW g \in Func
      PROVE  /\ IsFiniteSet(Below(g)) /\ Cardinality(Below(g)) \in Nat
             /\ Cardinality(Below(g)) \leq Cardinality(Func)
  <2>1. Below(g) \in SUBSET Func
    BY DEF Below
  <2>2. QED
    BY <2>1, GraphAssumption, FS_Subset, FS_CardinalityType
<1>2. rank \in [Func -> 0 .. Cardinality(Func)]
  <2>1. Cardinality(Func) \in Nat
    BY GraphAssumption, FS_CardinalityType
  <2>2. ASSUME NEW g \in Func PROVE Cardinality(Below(g)) \in 0 .. Cardinality(Func)
    BY <1>1, <2>1
  <2>3. QED
    BY <2>2
<1>3. ASSUME NEW s \in Site, Owner[s] \in Reached(prog), Hot(prog, s)
      PROVE  Expands(prog, s) /\ rank[prog.target[s]] < rank[Owner[s]]
  <2> DEFINE g == Owner[s]
             h == prog.target[s]
  <2>1. PICK c \in Seq(Site) : IsChain(prog, c) /\ SiteOf(c) = s
    BY <1>3, ReachedIsEntered, EnteredSite
  <2>2. Expands(prog, s)
    BY <1>3, <2>1 DEF HotExpands
  <2>3. g \in Func /\ h \in Func
    BY <1>3, ConstantFacts DEF Hot, TypeOK, AllPrograms
  <2>4. h \notin Below(h)
    BY <2>1, <2>2, NotBelowItself
  <2>5. h \in Below(g)
    <3>1. Path(g, <<s>>) /\ SiteOf(<<s>>) = s /\ <<s>> \in Seq(Site)
      BY SingleIsPath
    <3>2. QED
      BY <2>2, <2>3, <3>1 DEF Below
  <2>6. ASSUME NEW f \in Below(h) PROVE f \in Below(g)
    <3>1. PICK w \in Seq(Site) :
            Path(h, w) /\ Expands(prog, SiteOf(w)) /\ f = prog.target[SiteOf(w)]
      BY <2>6 DEF Below
    <3>2. Path(g, <<s>>) /\ SiteOf(<<s>>) = s
      BY SingleIsPath
    <3> DEFINE v == <<s>> \o w
    <3>3. Path(g, v) /\ SiteOf(v) = SiteOf(w)
      BY <2>2, <3>1, <3>2, PathExtends
    <3>4. v \in Seq(Site) /\ f \in Func
      BY <2>6, <3>3 DEF Path, Below
    <3> HIDE DEF v
    <3>5. QED
      BY <3>1, <3>3, <3>4 DEF Below
  <2>7. Below(h) \in SUBSET Below(g) /\ Below(h) # Below(g)
    BY <2>4, <2>5, <2>6
  <2>8. Cardinality(Below(h)) < Cardinality(Below(g))
    <3>1. /\ Cardinality(Below(h)) \leq Cardinality(Below(g))
          /\ Cardinality(Below(h)) # Cardinality(Below(g))
      BY <1>1, <2>3, <2>7, FS_Subset
    <3>2. QED
      BY <1>1, <2>3, <3>1
  <2>9. QED
    BY <2>2, <2>3, <2>8
<1> HIDE DEF rank
<1>4. QED
  BY <1>2, <1>3 DEF CanFinish

(* Every site on a chain belongs to a function that is reached.            *)
LEMMA ChainIsReached ==
  ASSUME TypeOK, NEW p \in Seq(Site), IsChain(prog, p)
  PROVE  Owner[SiteOf(p)] \in Reached(prog)
<1> DEFINE Closed(S) ==
             /\ Root \in S
             /\ \A s \in Site : Owner[s] \in S /\ Hot(prog, s) => prog.target[s] \in S
<1>1. SUFFICES ASSUME NEW S \in SUBSET Func, Closed(S), Owner[SiteOf(p)] \notin S
               PROVE  FALSE
  <2>1. SiteOf(p) \in Site
    BY DEF IsChain, SiteOf
  <2>2. Owner[SiteOf(p)] \in Func
    BY <2>1, ConstantFacts
  <2>3. QED
    BY <2>2 DEF Reached
<1> DEFINE Outside == {i \in 1 .. Len(p) : Owner[p[i]] \notin S}
<1>2. Len(p) \in Nat /\ Len(p) > 0 /\ Len(p) \in Outside
  BY <1>1 DEF IsChain, SiteOf
<1>3. PICK n \in Outside : \A m \in Outside : n \leq m
  <2>1. Outside \subseteq Nat /\ Outside # {}
    BY <1>2
  <2> HIDE DEF Outside
  <2>2. QED
    BY <2>1, NatMin
<1>4. n \in 1 .. Len(p) /\ Owner[p[n]] \notin S
  BY <1>3
<1>5. n # 1
  BY <1>1, <1>4 DEF IsChain
<1>6. n - 1 \in 1 .. Len(p) - 1 /\ (n - 1) + 1 = n /\ n - 1 \in 1 .. Len(p) /\ ~ (n \leq n - 1)
  BY <1>2, <1>4, <1>5
<1>7. Owner[p[n - 1]] \in S
  BY <1>3, <1>6
<1>8. Expands(prog, p[n - 1]) /\ Owner[p[n]] = prog.target[p[n - 1]]
  BY <1>6 DEF IsChain
<1>9. p[n - 1] \in Site
  BY <1>6 DEF IsChain
<1>10. prog.target[p[n - 1]] \in S
  BY <1>1, <1>7, <1>8, <1>9 DEF Expands
<1>11. QED
  BY <1>4, <1>8, <1>10

(* The functions Root calls at the end, whatever the chains.               *)
LEMMA CalleesAtEnd ==
  ASSUME TypeOK, CallsAreChains, AllCovered, ExitInv, HotExpands, pc = "done"
  PROVE  {prog.target[SiteOf(c)] : c \in calls} = CalleesLeft(prog)
<1>1. ASSUME NEW c \in calls
      PROVE  prog.target[SiteOf(c)] \in CalleesLeft(prog)
  <2>1. c \in Seq(Site) /\ IsChain(prog, c)
    BY DEF CallsAreChains, TypeOK
  <2>2. SiteOf(c) \in Site
    BY <2>1 DEF IsChain, SiteOf
  <2>3. ~ Hot(prog, SiteOf(c)) /\ prog.target[SiteOf(c)] # "asm"
    BY DEF ExitInv
  <2>4. QED
    BY <2>1, <2>2, <2>3, ChainIsReached DEF CalleesLeft
<1>2. ASSUME NEW s \in Site, Owner[s] \in Reached(prog), ~ Hot(prog, s), prog.target[s] # "asm"
      PROVE  \E c \in calls : prog.target[s] = prog.target[SiteOf(c)]
  <2>1. PICK p \in Seq(Site) : IsChain(prog, p) /\ SiteOf(p) = s
    BY <1>2, ReachedIsEntered, EnteredSite
  <2>2. p \in calls
    BY <1>2, <2>1, SurvivorsLeft
  <2>3. QED
    BY <2>1, <2>2
<1>3. QED
  BY <1>1, <1>2 DEF CalleesLeft

LEMMA LengthFacts == Spec => []LengthInv
BY LengthStarts, LengthStep, TypeCorrect, PointersLive, NothingIsLost, PTL DEF Spec

(* When the rewriting is over, the calls of Root are exactly the reference *)
(* unfolding's: every call of an always-inline definition was inlined, and *)
(* no other call was lost, duplicated or invented.  What they call is what *)
(* Root and the helpers it reaches call, less the helpers.                 *)
THEOREM ResultCorrect == Spec => []ResultIsUnfolded
<1>1. TypeOK /\ CallsAreChains /\ AllCovered /\ ExitInv /\ LengthInv => ResultIsUnfolded
  BY UnfoldedAtEnd, CalleesAtEnd DEF LengthInv, ResultIsUnfolded
<1>2. QED
  BY <1>1, TypeCorrect, NothingInvented, NothingIsLost, ExitFacts, LengthFacts, PTL

(* The do-while gets past its test only for a module whose helpers below   *)
(* Root are not recursive and are all accepted by InlineFunction: with one *)
(* that is, some chain always leads to a call that is found again.         *)
THEOREM LoopEndsOnlyIfItCan == Spec => []EndsOnlyIfItCan
<1>1. TypeOK /\ LengthInv => EndsOnlyIfItCan
  BY RankDecreases DEF LengthInv, EndsOnlyIfItCan
<1>2. QED
  BY <1>1, LengthFacts, TypeCorrect, PTL
=============================================================================
