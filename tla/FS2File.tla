------------------------------ MODULE FS2File ------------------------------
(***************************************************************************)
(* File contents on the CWFS2 volume: fs2_read, fs2_write and              *)
(* fs2_grow_file of src/kernel/fs2.c, reached through the FT_FILE branches *)
(* of do_open, do_read, do_write and do_close in src/kernel/hilevel.c,     *)
(* composed with the namespace of FS2 (MKFILE, MKDIR, RM).  A descriptor   *)
(* keeps the path it was opened with and a cursor, and every read or write *)
(* looks the path up again.                                                *)
(*                                                                         *)
(* A block has ENTRIES cells, which directory code reads as entries and    *)
(* file code as bytes: FS2_BLOCK_SZ is modelled as ENTRIES.  File blocks   *)
(* are loaded and saved through the one general purpose cache xc, which    *)
(* fs2_unlink shares; its dry loads change the address and keep the data.  *)
(***************************************************************************)
EXTENDS FS2

CONSTANTS
  DEF_FREG_LEN,  \* hblock.default_freg_len (1 in init_fs)
  Bytes,         \* the byte values user programs write
  FDS,           \* openft entries of type FT_FILE, opened FM_RW
  FilePaths,     \* the paths passed to open
  MaxWrite,      \* the largest nchars of a read or write
  Closed

VARIABLES
  fde,  \* fde[f]: the path and cursor of openft entry f, or Closed
  io    \* the last read or write: descriptor, result, and bytes written or read

vars == <<next_inode, next_block, inode, dblk, result, req, xc, fde, io>>

BLOCK_SZ == ENTRIES

\* Bug variant: the "if (nbytes % FS2_BLOCK_SZ) ++sz" rounding is dropped
CeilDiv_Floor(n) == n \div BLOCK_SZ

\* uint8_t sz = n / FS2_BLOCK_SZ; if (n % FS2_BLOCK_SZ) ++sz;
CeilDiv(n) == n \div BLOCK_SZ + (IF n % BLOCK_SZ # 0 THEN 1 ELSE 0)

VolX == [inode |-> inode, dblk |-> dblk, next_block |-> next_block, xc |-> xc]

SetVolX(v) == SetVol(v) /\ xc' = v.xc

\* Bug variant: the dry flag read the wrong way round
fs2_load_gp_c_DryInverted(v, b, dry) ==
  IF b = v.xc.addr THEN v
  ELSE [v EXCEPT !.xc = [addr |-> b, data |-> IF dry THEN v.dblk[b] ELSE @.data]]

\* fs2_load_gp_c: a different block is read into the xcache, or on a dry
\* load only its address is taken
fs2_load_gp_c(v, b, dry) ==
  IF b = v.xc.addr THEN v
  ELSE [v EXCEPT !.xc = [addr |-> b, data |-> IF dry THEN @.data ELSE v.dblk[b]]]

\* fs2_save_gp_c
fs2_save_gp_c(v) == [v EXCEPT !.dblk[v.xc.addr] = v.xc.data]

\* memcpy(&xcache.bytes[off], src, n)
CopyIn(v, off, src, n) ==
  [v EXCEPT !.xc.data = [s \in Slot |-> IF off <= s /\ s < off + n
                                        THEN src[s - off + 1] ELSE @[s]]]

\* memcpy(out, &xcache.bytes[off], n)
Take(v, off, n) == [j \in 1..n |-> v.xc.data[off + j - 1]]

\* fs2_grow_file: a new region of rsz blocks in the first empty reg_start,
\* or blk 0 on FS2_FILE_FULL or FS2_DISK_FULL
fs2_grow_file(v, x, rsz) ==
  LET empty == {i \in RegIdx : v.inode[x].reg[i].start = 0}
      i     == IF empty = {} THEN NREG ELSE Min(empty)
      b0    == NewRegion(v, rsz)
  IN  IF i = NREG \/ b0 = 0 THEN [blk |-> 0, v |-> v]
      ELSE [blk |-> b0,
            v   |-> [v EXCEPT !.inode[x].reg[i] = [start |-> b0, len |-> rsz],
                              !.next_block = @ + rsz]]

\* finish_write: eof is set to the end of the write and the iblock saved
finish_write(v, x, cursor, wcount) ==
  [n |-> wcount, v |-> [v EXCEPT !.inode[x].eof = cursor + wcount]]

Found1(v, b) == [blk |-> b, v |-> v]

\* fs2_write step 2: full blocks, each dry-loaded and overwritten
RECURSIVE WriteFull(_, _, _, _, _)
WriteFull(v, x, in, wcount, bi) ==
  IF Len(in) - wcount < BLOCK_SZ
  THEN [done |-> FALSE, v |-> v, w |-> wcount, bi |-> bi]
  ELSE LET b  == find_blk(v.inode[x].reg, bi + 1)
           g  == IF b = 0 THEN fs2_grow_file(v, x, CeilDiv(Len(in) - wcount))
                 ELSE Found1(v, b)
           v1 == fs2_save_gp_c(CopyIn(fs2_load_gp_c(g.v, g.blk, TRUE), 0,
                   SubSeq(in, wcount + 1, wcount + BLOCK_SZ), BLOCK_SZ))
       IN  IF g.blk = 0 THEN [done |-> TRUE, v |-> g.v, w |-> wcount, bi |-> bi]
           ELSE WriteFull(v1, x, in, wcount + BLOCK_SZ, bi + 1)

\* fs2_write(vol, path, in, nbytes, cursor) once the path has resolved to
\* file inode x: the first, partial, block is read, patched and saved; the
\* full blocks follow; the last partial block is dry-loaded and filled from
\* "in", as the code does, and not from "in + wcount".  A missing block is
\* grown: by the bytes still to write, or by default_freg_len for the last.
fs2_write(v, x, in, cursor) ==
  LET nbytes == Len(in)
      write1 == Min({nbytes, BLOCK_SZ - (cursor % BLOCK_SZ)})
      bi     == cursor \div BLOCK_SZ
      b      == find_blk(v.inode[x].reg, bi)
      g      == IF b = 0 THEN fs2_grow_file(v, x, CeilDiv(nbytes)) ELSE Found1(v, b)
      v1     == fs2_save_gp_c(CopyIn(fs2_load_gp_c(g.v, g.blk, FALSE),
                                     cursor % BLOCK_SZ, in, write1))
      s2     == WriteFull(v1, x, in, write1, bi)
      b3     == find_blk(s2.v.inode[x].reg, s2.bi + 1)
      g3     == IF b3 = 0 THEN fs2_grow_file(s2.v, x, DEF_FREG_LEN) ELSE Found1(s2.v, b3)
      v3     == fs2_save_gp_c(CopyIn(fs2_load_gp_c(g3.v, g3.blk, TRUE), 0,
                                     in, nbytes - s2.w))
  IN  IF g.blk = 0 THEN [n |-> 0, v |-> g.v]
      ELSE IF s2.done \/ s2.w = nbytes THEN finish_write(s2.v, x, cursor, s2.w)
      ELSE IF g3.blk = 0 THEN finish_write(g3.v, x, cursor, s2.w)
      ELSE finish_write(v3, x, cursor, nbytes)

\* fs2_read step 2: full blocks while at least a block remains
RECURSIVE ReadFull(_, _, _, _, _, _)
ReadFull(v, x, rbytes, rcount, bi, out) ==
  IF rbytes - rcount < BLOCK_SZ
  THEN [done |-> FALSE, v |-> v, r |-> rcount, bi |-> bi, out |-> out]
  ELSE LET b  == find_blk(v.inode[x].reg, bi + 1)
           v1 == fs2_load_gp_c(v, b, FALSE)
       IN  IF b = 0 THEN [done |-> TRUE, v |-> v, r |-> rcount, bi |-> bi, out |-> out]
           ELSE ReadFull(v1, x, rbytes, rcount + BLOCK_SZ, bi + 1,
                         out \o Take(v1, 0, BLOCK_SZ))

\* fs2_read(vol, path, out, nbytes, cursor) once the path has resolved to
\* file inode x.  The block of the last partial read is not checked: a 0
\* from find_blk loads block 0.
fs2_read(v, x, nbytes, cursor) ==
  LET maxbytes == v.inode[x].eof - cursor
      bi     == cursor \div BLOCK_SZ
      b      == find_blk(v.inode[x].reg, bi)
      rbytes == Min({nbytes, maxbytes})
      read1  == Min({rbytes, BLOCK_SZ - (cursor % BLOCK_SZ)})
      v1     == fs2_load_gp_c(v, b, FALSE)
      s2     == ReadFull(v1, x, rbytes, read1, bi, Take(v1, cursor % BLOCK_SZ, read1))
      v3     == fs2_load_gp_c(s2.v, find_blk(s2.v.inode[x].reg, s2.bi + 1), FALSE)
  IN  IF maxbytes <= 0 \/ b = 0 THEN [n |-> 0, out |-> <<>>, v |-> v]
      ELSE IF s2.done \/ s2.r = rbytes THEN [n |-> s2.r, out |-> s2.out, v |-> s2.v]
      ELSE [n |-> rbytes, out |-> s2.out \o Take(v3, 0, rbytes - s2.r), v |-> v3]
-----------------------------------------------------------------------------
(* The FT_FILE branches of the file traps *)

\* The inode a path names, if it is a file (fs2_isftype)
FileAt(p) ==
  LET r == fs2_find_file(p)
  IN  IF r.err = "SUCCESS" THEN IF inode[r.ino].ftype = FILE THEN r.ino ELSE Junk
      ELSE Junk

Opened(f, p) == fde' = [fde EXCEPT ![f] = [path |-> p, cursor |-> 0]]

\* do_open(path, flags) with the create flag and FM_RW: a file that is
\* there is opened at cursor 0, otherwise fs2_create makes it first; the
\* open fails when that create does
Open(f, p) ==
  /\ fde[f] = Closed
  /\ IF FileAt(p) # Junk
     THEN Opened(f, p) /\ UNCHANGED <<next_inode, next_block, inode, dblk, result, req, xc, io>>
     ELSE /\ Create(FILE, p)
          /\ IF result' THEN Opened(f, p) ELSE UNCHANGED fde
          /\ UNCHANGED io

\* do_close of the last reference to an FT_FILE entry frees it
Close(f) ==
  /\ fde[f] # Closed
  /\ fde' = [fde EXCEPT ![f] = Closed]
  /\ UNCHANGED <<next_inode, next_block, inode, dblk, result, req, xc, io>>

Missing(f, op, data) ==
  /\ io' = [op |-> op, fd |-> f, n |-> -1, data |-> data]
  /\ UNCHANGED <<next_inode, next_block, inode, dblk, result, req, xc, fde>>

\* do_write: fs2_write at the entry's cursor, which advances by the count
\* returned when it is not negative
Write(f, in) ==
  LET x == FileAt(fde[f].path)
      w == fs2_write(VolX, x, in, fde[f].cursor)
  IN  /\ fde[f] # Closed
      /\ IF x = Junk THEN Missing(f, "write", in)
         ELSE /\ SetVolX(w.v)
              /\ fde' = [fde EXCEPT ![f].cursor = @ + w.n]
              /\ io' = [op |-> "write", fd |-> f, n |-> w.n, data |-> in]
              /\ UNCHANGED <<next_inode, result, req>>

\* do_read: fs2_read at the entry's cursor, which advances by the count
Read(f, k) ==
  LET x  == FileAt(fde[f].path)
      rd == fs2_read(VolX, x, k, fde[f].cursor)
  IN  /\ fde[f] # Closed
      /\ IF x = Junk THEN Missing(f, "read", <<>>)
         ELSE /\ xc' = rd.v.xc
              /\ fde' = [fde EXCEPT ![f].cursor = @ + rd.n]
              /\ io' = [op |-> "read", fd |-> f, n |-> rd.n, data |-> rd.out]
              /\ UNCHANGED <<next_inode, next_block, inode, dblk, result, req>>

\* Writes of one to MaxWrite bytes
Inputs == UNION {[1..n -> Bytes] : n \in 1..MaxWrite}

FileInit ==
  /\ FsInit
  /\ fde = [f \in FDS |-> Closed]
  /\ io = [op |-> "none", fd |-> Closed, n |-> 0, data |-> <<>>]

FileNext ==
  \/ FsNext /\ UNCHANGED <<fde, io>>
  \/ \E f \in FDS :
       \/ \E p \in FilePaths : Open(f, p)
       \/ Close(f)
       \/ \E in \in Inputs : Write(f, in)
       \/ \E k \in 1..MaxWrite : Read(f, k)

FileSpec == FileInit /\ [][FileNext]_vars
-----------------------------------------------------------------------------
Cell == EntryVal \cup Bytes

FileTypeOK ==
  /\ next_inode \in 1..MaxInodes
  /\ next_block \in 1..NBLOCKS
  /\ inode \in [Ino -> [ftype : {DIR, FILE}, eof : 0..NBLOCKS * BLOCK_SZ,
                        iparent : Ino,
                        reg : [RegIdx -> [start : Blk, len : 0..NBLOCKS]]]]
  /\ dblk \in [Blk -> [Slot -> Cell]]
  /\ xc \in [addr : Blk, data : [Slot -> Cell]]
  /\ fde \in [FDS -> [path : FilePaths, cursor : 0..NBLOCKS * BLOCK_SZ] \cup {Closed}]
  /\ io \in [op : {"none", "read", "write"}, fd : FDS \cup {Closed},
             n : -1..MaxWrite, data : Seq(Cell)]
  /\ Len(io.data) <= MaxWrite

LiveFiles == {x \in Linked : inode[x].ftype = FILE}

\* Every byte below a linked file's eof lies in a block of its regions:
\* fs2_write grows the file before it writes a block it lacks, and
\* finish_write sets eof to the bytes actually written, whether the write
\* stops at a full disk, a full inode, or completes; a descriptor's cursor
\* never passes the end its file had.
EofCovered == \A x \in LiveFiles : inode[x].eof <= Capacity(x)

\* A read returns only bytes some write stored: never a block the file did
\* not write (block 0, a directory's entries, a block never written), nor
\* bytes past eof left in the xcache by a dry load of fs2_write.
ReadsWrittenBytes ==
  io.op = "read" => \A j \in 1..Len(io.data) : io.data[j] \in Bytes

\* The bytes of file inode x as the volume holds them
Content(x) ==
  [i \in 1..inode[x].eof |->
     dblk[find_blk(inode[x].reg, (i - 1) \div BLOCK_SZ)][(i - 1) % BLOCK_SZ]]

Store == INSTANCE FileStore
           WITH files <- [p \in FilePaths |->
                            IF FileAt(p) = Junk THEN Junk ELSE Content(FileAt(p))],
                cur <- fde, last <- io, NoFile <- Junk

\* fs2_write and fs2_read, through do_write and do_read, implement the byte
\* store of FileStore: what a read returns is what the writes before it
\* put at those positions.
ImplementsFileStore == Store!SSpec
=============================================================================
