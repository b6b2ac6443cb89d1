------------------------------- MODULE MCSample -------------------------------
(***************************************************************************)
(* The instance of Library that TLC checks, with the obfuscated function   *)
(* of the sample module, which has variables of its own.                   *)
(***************************************************************************)
EXTENDS Library, Calc

(* memcpy with every alignment, at the bottom of the memory, where the     *)
(* guards against wrapping matter, and above the source.                   *)
TheAreas ==
  {[dst |-> to, src |-> from, n |-> len] : to \in 0 .. 5, from \in 36 .. 39, len \in 0 .. 27} \cup
  {[dst |-> to, src |-> from, n |-> len] : to \in 32 .. 35, from \in 0 .. 3, len \in 0 .. 27}

(* Up to three turns of the loop of memset, with bytes of two bits.        *)
TheSetCalls == {[p |-> p, v |-> v, n |-> len] : p \in 8 .. 15, v \in {2, 7}, len \in 0 .. 135}

(* Characters around every border.                                         *)
TheCharacters ==
  {w \in {b + k : b \in {0, 128, 2048, 55296, 56320, 57088, 57216, 57344, 65536, 1048576,
                         1114112, 2097152, 2147483600}, k \in -3 .. 3} : w >= 0}

(* Texts that fit a buffer of four characters, that do not, lines, and     *)
(* directives that are refused before and behind other pieces.             *)
Cs(len) == [k \in 1 .. len |-> "c"]
Refusal == <<"no">>
TheTexts ==
  {<<Cs(1)>>, <<Cs(2), Cs(1)>>, <<Cs(5), Cs(1)>>, <<Cs(4)>>,
   <<Cs(1), <<"c", "nl", "c">>, Cs(2)>>, <<Cs(1), <<"nl">>>>,
   <<Cs(2), Refusal>>, <<Refusal, Cs(1)>>, <<Cs(1), Cs(1), Refusal, Cs(1)>>,
   <<Cs(1), <<"nl">>, Refusal>>}

(* A memory that holds one value but for two bytes.                        *)
TheMemories ==
  {[a \in 4 .. 15 |-> IF a = j THEN x ELSE IF a = k THEN y ELSE z] :
     j \in {5, 8, 9}, k \in {10, 11, 13}, x, y \in {0, 2, 3}, z \in {1, 3}}
TheChrCalls == {[p |-> p, k |-> k, n |-> len] : p \in 4 .. 7, k \in {0, 2}, len \in 0 .. 9}
TheXor == [x \in 0 .. Byte - 1 |-> [y \in 0 .. Byte - 1 |-> x ^^ y]]

B == INSTANCE Bitwise
TheAnd == [x \in Word |-> [y \in Word |-> B!&(x, y)]]

SampleInit ==
  /\ function \in Functions \cup {"calc"}
  /\ LibraryInit
  /\ function = "calc" \/ n = 0
  /\ Init

all == <<function, slots, vars>>

SampleNext ==
  \/ LibraryNext /\ UNCHANGED vars
  \/ function = "calc" /\ Next /\ UNCHANGED <<function, slots>>

Looping == LoopNext /\ UNCHANGED vars

SampleSpec == SampleInit /\ [][SampleNext]_all /\ WF_all(Looping)
-----------------------------------------------------------------------------
(* Every call of a function with a loop returns.                           *)
AllReturn ==
  []<>(function \in {"memcpy", "memset", "memchr", "fmt_u", "printf"} =>
         place \in {"done", "printed", "read", "idle"})
=============================================================================
