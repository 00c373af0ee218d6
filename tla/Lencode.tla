------------------------------ MODULE Lencode ------------------------------
(***************************************************************************)
(* The framing of internal/lencode/lencode.go: a message is written as the *)
(* separator, its length in one byte, and its bytes.  A byte is a number,  *)
(* a stream of bytes a sequence.  Encoder and Decoder are records of what  *)
(* theirs hold; each call is an operator that returns the next one.  The   *)
(* writer is a bytes.Buffer and never fails.                               *)
(***************************************************************************)
EXTENDS Integers, Sequences

CONSTANTS
  Separator,  \* SeparatorOpt: tpm.go's "TPM"
  MaxLen      \* the greatest length one byte tells, 0xff

ASSUME LencodeAssumption ==
  /\ MaxLen \in Nat
  /\ Separator \in Seq(0 .. MaxLen)

Bytes == Seq(0 .. MaxLen)

PrefixLen == Len(Separator) + 1

\* What follows the first n bytes of s.
Drop(s, n) == SubSeq(s, n + 1, Len(s))

-----------------------------------------------------------------------------
(* The encoder: what it has written, and whether it has failed.            *)

NewEncoder == [out |-> <<>>, failed |-> FALSE]

Frame(msg) == Separator \o <<Len(msg)>> \o msg

\* A message that is too long fails this call and all that follow.
Encode(e, msg) ==
  IF e.failed THEN e
  ELSE IF Len(msg) > MaxLen THEN [e EXCEPT !.failed = TRUE]
  ELSE [e EXCEPT !.out = @ \o Frame(msg)]

-----------------------------------------------------------------------------
(* The decoder: what it has not read, its error, the length of the message *)
(* whose prefix it has read, or -1, and the message it returned last.      *)

NewDecoder(s) == [rest |-> s, err |-> "none", pendingLen |-> -1, msg |-> <<>>]

\* io.ReadFull takes what there is; EOF means that there was nothing.
ReadPrefix(d) ==
  IF d.err # "none" \/ d.pendingLen # -1 THEN d
  ELSE IF d.rest = <<>> THEN [d EXCEPT !.err = "EOF"]
  ELSE IF Len(d.rest) < PrefixLen
    THEN [d EXCEPT !.err = "UnexpectedEOF", !.rest = <<>>]
  ELSE IF SubSeq(d.rest, 1, Len(Separator)) # Separator
    THEN [d EXCEPT !.err = "SeparatorMismatch", !.rest = Drop(@, PrefixLen)]
  ELSE [d EXCEPT !.pendingLen = d.rest[PrefixLen], !.rest = Drop(@, PrefixLen)]

\* The length of the next message.  Asking for it reads the prefix: the
\* decoder is ReadPrefix(d) from then on.
NextLen(d) == LET p == ReadPrefix(d) IN IF p.err # "none" THEN 0 ELSE p.pendingLen

\* DecodeInto a slice of length len and capacity cap.  The test refuses a
\* slice that is longer than the message.  A shorter one is read up to the
\* message's length if its capacity allows that, and panics if not.
DecodeInto(d, len, cap) ==
  LET p == ReadPrefix(d)
  IN IF p.err # "none" THEN p
     ELSE IF p.pendingLen < len THEN [p EXCEPT !.err = "BufferTooSmall"]
     ELSE IF cap < p.pendingLen THEN [p EXCEPT !.err = "panic"]
     ELSE IF Len(p.rest) < p.pendingLen
       THEN [p EXCEPT !.err = "UnexpectedEOF", !.rest = <<>>]
     ELSE [p EXCEPT !.msg = SubSeq(p.rest, 1, p.pendingLen), !.pendingLen = -1,
                    !.rest = Drop(@, p.pendingLen)]

\* Decode makes the slice as long as the message.
Decode(d) ==
  LET p == ReadPrefix(d)
  IN IF p.err # "none" THEN p ELSE DecodeInto(p, p.pendingLen, p.pendingLen)

=====
