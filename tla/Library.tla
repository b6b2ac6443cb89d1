------------------------------- MODULE Library -------------------------------
(***************************************************************************)
(* The C library lifted with the sample module                             *)
(* (src/samples/obf_1/obf_w2c.c): memcpy, memset, memchr, the conversions   *)
(* of printf and its stream.  They share no state: one of them is run.     *)
(* The functions take turns at the slots; a slot a function has no use for *)
(* stays as it is.                                                         *)
(***************************************************************************)
EXTENDS Integers, Sequences

CONSTANTS
  Unused,                                     \* a slot without a value
  Modulus, Block, Import, Areas, AreaBytes,   \* of Memcpy
  Byte, SetCalls, SetBytes,                   \* of Memset
  ChrXor, ChrCalls, Memories,                 \* of Memchr, and Byte
  Half,                                       \* of Numerals
  Characters,                                 \* of WideChar
  LongWord, HighFrac, SrcExp, DstExp, DstFrac,   \* of LongDouble
  Size, Fd, Texts                             \* of Stdio

VARIABLES
  function,                         \* the one that is run
  params, place, answer,            \* its call, where it is, what it returns
  l1, l2, l3, l4, l5, l6, l7, l8    \* its local variables and those of the module

slots == <<params, place, answer, l1, l2, l3, l4, l5, l6, l7, l8>>

Cpy == INSTANCE Memcpy
  WITH Bytes <- AreaBytes, c <- params, pc <- place, d <- l1, s <- l2, mem <- l3

Set == INSTANCE Memset
  WITH Untouched <- Unused, Bytes <- SetBytes, Calls <- SetCalls,
       call <- params, pc <- place, start <- l1, left <- l2, mem <- l3, aligned <- l4

Chr == INSTANCE Memchr
  WITH Xor <- ChrXor, Calls <- ChrCalls,
       call <- params, pc <- place, p <- l1, n <- l2, mem <- l3, read <- l4,
       result <- answer

Num == INSTANCE Numerals
  WITH kind <- params, pc <- place, value <- l1, rest <- l2, text <- l3, number <- answer

Wide == INSTANCE WideChar
  WITH wc <- params, pc <- place, buffer <- l1, utf8 <- l2, bytes <- l3, errno <- l4,
       result <- answer

Long == INSTANCE LongDouble
  WITH W <- LongWord, sign <- params, exp <- l1, frac <- l2, pc <- place, result <- answer

Std == INSTANCE Stdio
  WITH Calls <- Texts,
       err <- l1, errno <- l2, wbase <- l3, wpos <- l4, wend <- l5, held <- l6,
       olderr <- l7, next <- l8, call <- params, pc <- place, result <- answer

(* What the functions are called with.                                     *)
ASSUME LibraryAssumption ==
  /\ Cpy!MemcpyAssumption /\ Set!MemsetAssumption /\ Chr!MemchrAssumption
  /\ Num!NumeralsAssumption /\ Wide!WideCharAssumption /\ Long!LongDoubleAssumption
  /\ Std!StdioAssumption

Functions == {"memcpy", "memset", "memchr", "fmt_u", "wctomb", "trunctfdf2", "printf"}

LibraryInit ==
  \/ /\ function = "memcpy" /\ Cpy!Init
     /\ answer = Unused /\ l4 = Unused
     /\ l5 = Unused /\ l6 = Unused /\ l7 = Unused /\ l8 = Unused
  \/ /\ function = "memset" /\ Set!Init
     /\ answer = Unused
     /\ l5 = Unused /\ l6 = Unused /\ l7 = Unused /\ l8 = Unused
  \/ /\ function = "memchr" /\ Chr!Init
     /\ l5 = Unused /\ l6 = Unused /\ l7 = Unused /\ l8 = Unused
  \/ /\ function = "fmt_u" /\ Num!Init
     /\ l4 = Unused
     /\ l5 = Unused /\ l6 = Unused /\ l7 = Unused /\ l8 = Unused
  \/ /\ function = "wctomb" /\ Wide!Init
     /\ l5 = Unused /\ l6 = Unused /\ l7 = Unused /\ l8 = Unused
  \/ /\ function = "trunctfdf2" /\ Long!Init
     /\ l3 = Unused /\ l4 = Unused
     /\ l5 = Unused /\ l6 = Unused /\ l7 = Unused /\ l8 = Unused
  \/ /\ function = "printf" /\ Std!Init
  \/ /\ function \notin Functions   \* one that is not specified here
     /\ params = Unused /\ place = Unused /\ answer = Unused
     /\ l1 = Unused /\ l2 = Unused /\ l3 = Unused /\ l4 = Unused
     /\ l5 = Unused /\ l6 = Unused /\ l7 = Unused /\ l8 = Unused

(* The functions with loops.                                               *)
LoopNext ==
  /\ UNCHANGED function
  /\ \/ function = "memcpy" /\ Cpy!Next /\ UNCHANGED <<answer, l4, l5, l6, l7, l8>>
     \/ function = "memset" /\ Set!Next /\ UNCHANGED <<answer, l5, l6, l7, l8>>
     \/ function = "memchr" /\ Chr!Next /\ UNCHANGED <<l5, l6, l7, l8>>
     \/ function = "fmt_u" /\ Num!Next /\ UNCHANGED <<l4, l5, l6, l7, l8>>
     \/ function = "printf" /\ Std!Next

LibraryNext ==
  \/ LoopNext
  \/ function = "wctomb" /\ Wide!Next /\ UNCHANGED <<function, l5, l6, l7, l8>>
  \/ function = "trunctfdf2" /\ Long!Next /\ UNCHANGED <<function, l3, l4, l5, l6, l7, l8>>

LibrarySpec == LibraryInit /\ [][LibraryNext]_<<function, slots>>
-----------------------------------------------------------------------------
(* memcpy and memset write their area, at the end all of it and at no time *)
(* anything else, with words at multiples of their size; memchr reads      *)
(* nothing but its area and finds the first of what it looks for there.    *)
ExactlyTheArea ==
  /\ function = "memcpy" =>
       Cpy!TypeOK /\ Cpy!OnlyFrontCopied /\ Cpy!CopiedAtEnd /\ Cpy!WordsAligned
  /\ function = "memset" =>
       Set!TypeOK /\ Set!OnlyTheArea /\ Set!AllOfTheArea /\ Set!Aligned
  /\ function = "memchr" =>
       Chr!TypeOK /\ Chr!ReadsInside /\ Chr!Found /\ Chr!LengthBounded

(* A number is printed with its digits and read again, a decoder gets a    *)
(* wide character back, and a long double becomes the nearest double.      *)
Converted ==
  /\ function = "fmt_u" => Num!TypeOK /\ Num!Printed /\ Num!ReadAgain
  /\ function = "wctomb" => Wide!TypeOK /\ Wide!DecodedAgain /\ Wide!RefusedOnlyIfNone
  /\ function = "trunctfdf2" => Long!TypeOK /\ Long!Nearest /\ Long!Specials

(* printf's result tells what the buffer holds: all of the text, or, after *)
(* a failure, nothing or what is in front of the directive that was        *)
(* refused; and no line waits.                                             *)
OutputHeld ==
  function = "printf" =>
    Std!TypeOK /\ Std!AcceptedIsHeld /\ Std!FailedLeavesPart /\ Std!NoLineWaits

(* A stream that has failed does not recover.                              *)
ErrorStays == Std!ErrorStays
=============================================================================
