----------------------------- MODULE PipeQueue -----------------------------
(***************************************************************************)
(* What a pipe promises (spec 4.4): a bounded FIFO of bytes with           *)
(* non-blocking, partial transfers.  A write appends as many of the given  *)
(* bytes as fit and returns how many; a read removes and returns as many   *)
(* of the oldest bytes as are asked for and available.  Neither blocks.    *)
(***************************************************************************)
EXTENDS Integers, Sequences, SequencesExt

CONSTANTS
  Capacity,   \* bytes the pipe holds
  Bytes,      \* the values a byte may take
  MaxChars    \* the largest nchars a caller passes

VARIABLES
  q,          \* the bytes written and not yet read, oldest first
  ret,        \* the count the last operation returned
  out         \* the bytes the last read handed to its caller

qvars == <<q, ret, out>>

Least(a, b) == IF a < b THEN a ELSE b

QInit ==
  /\ q = <<>>
  /\ ret = 0
  /\ out = <<>>

\* write(pipe, in): as many bytes as fit, in order, and their count
QWrite(in) ==
  LET k == Least(Len(in), Capacity - Len(q))
  IN  /\ q' = q \o SubSeq(in, 1, k)
      /\ ret' = k
      /\ UNCHANGED out

\* read(pipe, n): the oldest min(n, available) bytes, and their count
QRead(n) ==
  LET k == Least(n, Len(q))
  IN  /\ out' = SubSeq(q, 1, k)
      /\ q' = SubSeq(q, k + 1, Len(q))
      /\ ret' = k

QNext ==
  \/ \E in \in BoundedSeq(Bytes, MaxChars) : QWrite(in)
  \/ \E n \in 0..MaxChars : QRead(n)

QSpec == QInit /\ [][QNext]_qvars

=============================================================================
