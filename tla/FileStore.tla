----------------------------- MODULE FileStore -----------------------------
(***************************************************************************)
(* What the file calls of the kernel promise a user program (spec 3 and    *)
(* the comments of fs2_read and fs2_write): a file is a sequence of bytes  *)
(* named by a path; an open descriptor has a cursor; write puts its bytes  *)
(* at the cursor and the file ends after them ("Always updates EOF"), read *)
(* returns the bytes from the cursor up to the end of the file, and both   *)
(* advance the cursor by the count they return.  A write may store fewer  *)
(* bytes than asked, when the disk or the inode is full, and then returns *)
(* how many it stored, or 0 with the file unchanged.                       *)
(***************************************************************************)
EXTENDS Integers, Sequences

CONSTANTS FDS, FilePaths, Bytes, MaxWrite, Closed, NoFile

VARIABLES
  files,  \* files[p]: the bytes of the file at path p, or NoFile
  cur,    \* cur[f]: the path and cursor of descriptor f, or Closed
  last    \* the last read or write: its descriptor, result and bytes

svars == <<files, cur, last>>

\* The byte strings a write may be given
Inputs == UNION {[1..n -> Bytes] : n \in 0..MaxWrite}

None == [op |-> "none", fd |-> Closed, n |-> 0, data |-> <<>>]

SInit ==
  /\ files = [p \in FilePaths |-> NoFile]
  /\ cur = [f \in FDS |-> Closed]
  /\ last = None

\* open with the create flag: an absent file is created empty; the open may
\* also fail and leave everything as it was, which is a stuttering step
SOpen(f, p) ==
  /\ cur[f] = Closed
  /\ cur' = [cur EXCEPT ![f] = [path |-> p, cursor |-> 0]]
  /\ UNCHANGED last
  /\ files' = [files EXCEPT ![p] = IF @ = NoFile THEN <<>> ELSE @]

\* MKFILE at a path with no file
SMake(p) ==
  /\ UNCHANGED <<cur, last>>
  /\ files[p] = NoFile
  /\ files' = [files EXCEPT ![p] = <<>>]

SRemove(p) ==
  /\ UNCHANGED <<cur, last>>
  /\ files[p] # NoFile
  /\ files' = [files EXCEPT ![p] = NoFile]

SClose(f) ==
  /\ cur[f] # Closed
  /\ cur' = [cur EXCEPT ![f] = Closed]
  /\ UNCHANGED <<last, files>>

Result(f, op, n, data) == last' = [op |-> op, fd |-> f, n |-> n, data |-> data]

\* A write returns -1 when the path names no file, and otherwise the count
\* n of bytes it stored at the cursor, the file ending after them; with
\* n = 0 the file is either cut at the cursor or left as it was.
SWrite(f, data) ==
  LET p == cur[f].path
      c == cur[f].cursor
  IN  /\ cur[f] # Closed
      /\ \E n \in -1..Len(data) :
           /\ Result(f, "write", n, data)
           /\ IF files[p] = NoFile
              THEN n = -1 /\ UNCHANGED <<files, cur>>
              ELSE /\ n >= 0
                   /\ c <= Len(files[p])
                   /\ \/ /\ files' = [files EXCEPT ![p] =
                                         SubSeq(@, 1, c) \o SubSeq(data, 1, n)]
                         /\ cur' = [cur EXCEPT ![f].cursor = c + n]
                      \/ n = 0 /\ UNCHANGED <<files, cur>>

\* A read returns -1 when the path names no file, and otherwise the bytes
\* from the cursor up to k of them or the end of the file
SRead(f, k) ==
  LET p == cur[f].path
      c == cur[f].cursor
      n == IF Len(files[p]) - c < k THEN Len(files[p]) - c ELSE k
  IN  /\ cur[f] # Closed
      /\ last'.op = "read"
      /\ IF files[p] = NoFile THEN Result(f, "read", -1, <<>>) /\ UNCHANGED <<files, cur>>
         ELSE IF n <= 0
         THEN Result(f, "read", 0, <<>>) /\ UNCHANGED <<files, cur>>
         ELSE /\ Result(f, "read", n, SubSeq(files[p], c + 1, c + n))
              /\ cur' = [cur EXCEPT ![f].cursor = c + n]
              /\ UNCHANGED files

SNext ==
  \/ \E p \in FilePaths : SMake(p) \/ SRemove(p)
  \/ \E f \in FDS :
       \/ SClose(f)
       \/ \E p \in FilePaths : SOpen(f, p)
       \/ \E data \in Inputs : SWrite(f, data)
       \/ \E k \in 1..MaxWrite : SRead(f, k)

SSpec == SInit /\ [][SNext]_svars
=============================================================================
