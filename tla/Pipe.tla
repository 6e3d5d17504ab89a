-------------------------------- MODULE Pipe --------------------------------
(***************************************************************************)
(* One pipe_t of src/kernel/pipe.c: a ring buffer of PIPE_SIZE bytes with  *)
(* reader and writer indices and a full flag, and the two transfer loops   *)
(* pipe_read and pipe_write.  A caller runs one whole loop per step, as    *)
(* do_read and do_write run inside a trap handler.                         *)
(*                                                                         *)
(* Both loops start from "int i;", never initialised.  The value the build *)
(* leaves there is a choice from CounterInit; 0 is what spec 9 intends.    *)
(* The bytes of a caller's buffer outside what it passed, and the unread   *)
(* contents of a fresh pipe_t, are the model value Junk.                   *)
(***************************************************************************)
EXTENDS Integers, Sequences, SequencesExt

CONSTANTS
  PIPE_SIZE,     \* 0x1000 in pipe.h
  Bytes,         \* byte values a caller writes
  MaxChars,      \* the largest nchars passed to a transfer
  CounterInit,   \* what the uninitialised loop counter i may hold
  Junk           \* a byte nobody wrote

ASSUME PIPE_SIZE \in Nat \ {0} /\ Junk \notin Bytes /\ CounterInit \subseteq Int

VARIABLES
  buffer,        \* pipe->buffer
  reader,        \* pipe->reader
  writer,        \* pipe->writer
  full,          \* pipe->full
  ret,           \* the count the last transfer returned
  out            \* out[0..ret-1] after the last pipe_read

pvars == <<buffer, reader, writer, full, ret, out>>

Idx == 0..PIPE_SIZE-1

\* pipe_reset (the pid fields are written but never read, so left out)
PipeInit ==
  /\ buffer = [j \in Idx |-> Junk]
  /\ reader = 0
  /\ writer = 0
  /\ full = FALSE
  /\ ret = 0
  /\ out = <<>>

\* can_read, for a reader index and full flag inside the read loop
can_read(rd, fl) == fl \/ writer # rd

\* in[i]: a byte outside the passed buffer is whatever memory holds there
InAt(in, i) == IF i \in 0..Len(in)-1 THEN in[i+1] ELSE Junk

\* Bug variant: the write loop never sets full, so it laps the reader
RECURSIVE WriteLoop_NoFull(_, _)
WriteLoop_NoFull(st, in) ==
  IF st.i < Len(in) /\ ~st.full
  THEN WriteLoop_NoFull([st EXCEPT !.buffer[st.writer] = InAt(in, st.i),
                                   !.i = @ + 1,
                                   !.writer = (@ + 1) % PIPE_SIZE], in)
  ELSE st

\* Bug variant: the writer index is advanced without the modulo
RECURSIVE WriteLoop_NoWrap(_, _)
WriteLoop_NoWrap(st, in) ==
  IF st.i < Len(in) /\ ~st.full
  THEN WriteLoop_NoWrap([st EXCEPT !.buffer[st.writer % PIPE_SIZE] = InAt(in, st.i),
                                   !.i = @ + 1,
                                   !.writer = @ + 1,
                                   !.full = (st.writer + 1 = reader)], in)
  ELSE st

\* The body of pipe_write: while (i < nchars && !pipe->full) { ... }
RECURSIVE WriteLoop(_, _)
WriteLoop(st, in) ==
  IF st.i < Len(in) /\ ~st.full
  THEN LET w == (st.writer + 1) % PIPE_SIZE
       IN  WriteLoop([st EXCEPT !.buffer[st.writer] = InAt(in, st.i),
                                !.i = @ + 1,
                                !.writer = w,
                                !.full = (w = reader)], in)
  ELSE st

\* Bug variant: the read loop leaves full set, so a full pipe reads forever
RECURSIVE ReadLoop_KeepFull(_, _)
ReadLoop_KeepFull(st, n) ==
  IF st.i < n /\ can_read(st.reader, st.full)
  THEN ReadLoop_KeepFull([st EXCEPT !.taken = Append(@, buffer[st.reader]),
                                    !.i = @ + 1,
                                    !.reader = (@ + 1) % PIPE_SIZE], n)
  ELSE st

\* The body of pipe_read: while (i < nchars && can_read(pipe)) { ... }.
\* taken lists the bytes copied, which land at out[i0], out[i0+1], ...
RECURSIVE ReadLoop(_, _)
ReadLoop(st, n) ==
  IF st.i < n /\ can_read(st.reader, st.full)
  THEN ReadLoop([st EXCEPT !.taken = Append(@, buffer[st.reader]),
                           !.i = @ + 1,
                           !.reader = (@ + 1) % PIPE_SIZE,
                           !.full = FALSE], n)
  ELSE st

\* pipe_write(pipe, in, nchars) with nchars = Len(in)
PipeWrite(in, i0) ==
  LET st == WriteLoop([buffer |-> buffer, writer |-> writer,
                       full |-> full, i |-> i0], in)
  IN  /\ buffer' = st.buffer
      /\ writer' = st.writer
      /\ full' = st.full
      /\ ret' = st.i
      /\ UNCHANGED <<reader, out>>

\* pipe_read(pipe, out, nchars): the caller then sees out[0..i-1], where a
\* slot below i0 was never written by the loop
PipeRead(n, i0) ==
  LET st == ReadLoop([reader |-> reader, full |-> full, i |-> i0,
                      taken |-> <<>>], n)
  IN  /\ reader' = st.reader
      /\ full' = st.full
      /\ ret' = st.i
      /\ out' = [j \in 1..st.i |-> IF j - 1 >= i0 THEN st.taken[j - i0]
                                                ELSE Junk]
      /\ UNCHANGED <<buffer, writer>>

PipeNext ==
  \E i0 \in CounterInit :
    \/ \E in \in BoundedSeq(Bytes, MaxChars) : PipeWrite(in, i0)
    \/ \E n \in 0..MaxChars : PipeRead(n, i0)

PipeSpec == PipeInit /\ [][PipeNext]_pvars

-----------------------------------------------------------------------------
PipeTypeOK ==
  /\ buffer \in [Idx -> Bytes \cup {Junk}]
  /\ reader \in Idx
  /\ writer \in Idx
  /\ full \in BOOLEAN
  /\ ret \in Int
  /\ out \in Seq(Bytes \cup {Junk})

\* The bytes held, oldest first: reader..writer-1 circularly, all of them
\* when full
Held == IF full THEN PIPE_SIZE ELSE (writer - reader) % PIPE_SIZE

Contents == [k \in 1..Held |-> buffer[(reader + k - 1) % PIPE_SIZE]]

Queue == INSTANCE PipeQueue WITH Capacity <- PIPE_SIZE, q <- Contents

\* pipe_read and pipe_write together implement the bounded FIFO of spec
\* 4.4: every write stores and counts exactly the bytes that fit, every read
\* returns the oldest bytes in order and their count, and a full ring is
\* told apart from an empty one only by the full flag.
ImplementsPipeQueue == Queue!QSpec

=============================================================================
