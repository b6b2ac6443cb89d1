-------------------------------- MODULE Stdio --------------------------------
(***************************************************************************)
(* The standard output of the sample module (src/samples/obf_1/obf_w2c.c): *)
(* printf (f5, f32, f23) writes the pieces of a text with fwritex (f22)    *)
(* into a line buffer, which __stdio_write (f6) empties; fflush.  There is *)
(* one stream, and one thread uses it: its locks (f10 to f15) do nothing.  *)
(* A character is "nl" or "c"; "no" stands for a directive or a wide       *)
(* character that the formatter (f24) refuses.  0 is the null pointer.     *)
(***************************************************************************)
EXTENDS Integers, Sequences, SequencesExt

CONSTANTS
  Size,     \* of the buffer (1024)
  Fd,       \* the descriptor in the data of the module (1)
  Calls     \* what printf is called with: texts as sequences of pieces

StdioAssumption ==
  /\ Size \in Nat \ {0} /\ Fd \in Nat
  /\ Fd # 0   \* f36 takes the descriptor for an error, 0 for none
  /\ Calls \subseteq Seq(Seq({"c", "nl", "no"}))

Buf == 1

(* EILSEQ, EINVAL and EOVERFLOW: why a text is refused.                     *)
Errnos == {25, 28, 61}

VARIABLES
  err,                \* F_ERR
  errno,
  wbase, wpos, wend,
  held,               \* the characters from wbase to wpos
  pc,
  call, next,         \* the text being printed and its next piece
  olderr,             \* F_ERR as it was before the call
  result

buffer == <<wbase, wpos, wend, held>>
stream == <<err, errno, buffer>>
vars == <<stream, pc, call, next, olderr, result>>

Init ==
  /\ err = FALSE /\ errno = 0
  /\ wbase = 0 /\ wpos = 0 /\ wend = 0 /\ held = <<>>
  /\ pc = "idle" /\ call = <<>> /\ next = 1 /\ olderr = FALSE
  /\ result = 0

Pointers(base, pos, end) == wbase' = base /\ wpos' = pos /\ wend' = end

(* __towrite: the whole buffer is free.                                     *)
Towrite == Pointers(Buf, Buf, Buf + Size) /\ held' = <<>>

(* __stdio_write: the call of fd_write is commented out, so the descriptor  *)
(* is what is taken for its error.  The buffer is dropped.                  *)
Write ==
  /\ errno' = Fd /\ err' = TRUE
  /\ Pointers(0, 0, 0) /\ held' = <<>>

(* printf: the error flag is cleared for the call, and the buffer is set up *)
(* if it is not.                                                            *)
Begin(text) ==
  /\ pc = "idle"
  /\ pc' = "printing" /\ call' = text /\ next' = 1
  /\ olderr' = err /\ err' = FALSE
  /\ IF wend = 0 THEN Towrite ELSE UNCHANGED buffer
  /\ UNCHANGED <<errno, result>>

(* printf: what the first pass refuses, without the stream, is not printed  *)
(* at all.  A refusal behind the first argument is left to the second pass. *)
Reject(text) ==
  /\ pc = "idle"
  /\ \E k \in DOMAIN text : Contains(text[k], "no")
  /\ call' = text /\ next' = 1 /\ result' = -1
  /\ errno' \in Errnos
  /\ UNCHANGED <<err, buffer, pc, olderr>>

Fits(piece, room) == Len(piece) <= room

HasLine(piece) == Contains(piece, "nl")

(* fwritex: the buffer is set up if it is not; a piece too long for it is   *)
(* written together with what it holds, and so is one with a line; any      *)
(* other is copied.                                                         *)
Fwritex(piece) ==
  LET fresh == wend = 0
      pos == IF fresh THEN Buf ELSE wpos
      end == IF fresh THEN Buf + Size ELSE wend
  IN  IF ~Fits(piece, end - pos) \/ HasLine(piece) THEN Write
      ELSE /\ held' = held \o piece
           /\ Pointers(Buf, pos + Len(piece), end)
           /\ UNCHANGED <<err, errno>>

(* The formatter gives up at the next piece.                                *)
Refused == next <= Len(call) /\ Contains(call[next], "no")

(* out: nothing is written to a stream that has failed.                     *)
Piece ==
  /\ pc = "printing" /\ next <= Len(call) /\ ~Refused
  /\ IF err THEN UNCHANGED stream ELSE Fwritex(call[next])
  /\ next' = next + 1
  /\ UNCHANGED <<pc, call, olderr, result>>

(* Why the formatter gave up; it has a look at the error flag first, at    *)
(* directives.                                                              *)
Reason ==
  IF Refused THEN errno' \in Errnos \cup (IF err THEN {errno} ELSE {}) ELSE UNCHANGED errno

(* Mutant: the error flag is the one of this call. *)
FinishOwn ==
  /\ pc = "printing" /\ (Refused \/ next > Len(call))
  /\ pc' = "idle"
  /\ result' = IF err \/ Refused THEN -1 ELSE Len(FlattenSeq(call))
  /\ Reason
  /\ UNCHANGED <<err, buffer, call, next, olderr>>

(* Mutant: the result is what was counted. *)
FinishCounted ==
  /\ pc = "printing" /\ (Refused \/ next > Len(call))
  /\ pc' = "idle"
  /\ result' = Len(FlattenSeq(call))
  /\ err' = (err \/ olderr)
  /\ Reason
  /\ UNCHANGED <<buffer, call, next, olderr>>

(* Mutant: the buffer is emptied after a refusal as after a failed write. *)
FinishEmpty ==
  /\ pc = "printing" /\ (Refused \/ next > Len(call))
  /\ pc' = "idle"
  /\ result' = IF err \/ Refused THEN -1 ELSE Len(FlattenSeq(call))
  /\ err' = (err \/ olderr)
  /\ Reason
  /\ IF Refused THEN Pointers(0, 0, 0) /\ held' = <<>> ELSE UNCHANGED buffer
  /\ UNCHANGED <<call, next, olderr>>

(* The end of printf, by a refusal or by the end of the text: the result    *)
(* is -1 in either case when the stream failed, and the error flag is set   *)
(* if it was before.  The buffer is left as it is.                          *)
Finish ==
  /\ pc = "printing" /\ (Refused \/ next > Len(call))
  /\ pc' = "idle"
  /\ result' = IF err \/ Refused THEN -1 ELSE Len(FlattenSeq(call))
  /\ err' = (err \/ olderr)
  /\ Reason
  /\ UNCHANGED <<buffer, call, next, olderr>>

(* fflush, of the stream or of all of them: what the buffer holds is        *)
(* written, and the buffer is no longer set up.                             *)
Fflush ==
  /\ pc = "idle"
  /\ call' = <<>> /\ next' = 1
  /\ IF wpos # wbase THEN Write /\ result' = -1
     ELSE /\ Pointers(0, 0, 0) /\ held' = <<>> /\ result' = 0
          /\ UNCHANGED <<err, errno>>
  /\ UNCHANGED <<pc, olderr>>

Next == (\E text \in Calls : Begin(text) \/ Reject(text)) \/ Piece \/ Finish \/ Fflush

Spec == Init /\ [][Next]_vars
-----------------------------------------------------------------------------
TypeOK ==
  /\ err \in BOOLEAN /\ errno \in {0, Fd} \cup Errnos
  /\ pc \in {"idle", "printing"} /\ next \in 1 .. Len(call) + 1
  /\ \/ wbase = 0 /\ wpos = 0 /\ wend = 0
     \/ wbase = Buf /\ wend = Buf + Size /\ wpos \in wbase .. wend
  /\ Len(held) = wpos - wbase
  /\ pc = "idle" => result \in -1 .. Len(FlattenSeq(call))

(* A call of printf that succeeds left its text in the buffer, behind what  *)
(* the calls before it left there, and the stream did not fail.             *)
AcceptedIsHeld ==
  pc = "idle" /\ call # <<>> /\ result >= 0 => IsSuffix(FlattenSeq(call), held)

(* What a call that fails leaves behind says why it failed: nothing at all, *)
(* in a stream with its error flag set, or, where a directive was refused,  *)
(* exactly the pieces in front of it, behind what the calls before left.    *)
Handed == FlattenSeq(SubSeq(call, 1, next - 1))
FailedLeavesPart ==
  pc = "idle" /\ result = -1 =>
    \/ err /\ held = <<>> /\ wend = 0
    \/ IsSuffix(Handed, held)

(* No line waits in the buffer.                                             *)
NoLineWaits == ~Contains(held, "nl")

(* The error of a stream stays: no later call of printf or fflush takes it  *)
(* away.                                                                    *)
ErrorStays == [][pc' = "idle" /\ (IF pc = "idle" THEN err ELSE olderr) => err']_vars
=============================================================================
