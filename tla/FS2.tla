-------------------------------- MODULE FS2 --------------------------------
(***************************************************************************)
(* The namespace of the CWFS2 volume in src/kernel/fs2.c: inodes, the      *)
(* directory entries held in each directory's regions of dblocks, path     *)
(* resolution, and the two operations that change the tree, fs2_create    *)
(* (the MKFILE and MKDIR traps, and open with the create flag) and fs2_rm  *)
(* (the RM trap).  One step is one whole call, as it runs inside a trap.   *)
(*                                                                         *)
(* The state is the volume as the kernel sees it.  With fewer than 32      *)
(* inodes every inode lives in iblock 0, which stays in the iblock cache   *)
(* after format, and every dblock the code changes it saves before it      *)
(* loads another; so, with disk reads and writes succeeding, the caches    *)
(* always agree with the disk and one copy of each block is enough.        *)
(* Names are sequences of characters; a path is the sequence of its        *)
(* components, a trailing "/" being a last, empty, component.  Blocks a    *)
(* directory never wrote, the header block and the inode blocks read as    *)
(* directory entries hold the model value Junk.                            *)
(***************************************************************************)
EXTENDS Integers, Sequences, SequencesExt, FiniteSets

CONSTANTS
  NBLOCKS,       \* blocks of the volume (100 in init_fs)
  DEF_IREG_LEN,  \* blocks of an iregion (4 in init_fs)
  DEF_DREG_LEN,  \* blocks of a dregion (2 in init_fs)
  ENTRIES,       \* directory entries per dblock (128)
  UNLINK_MOD,    \* the modulus fs2_unlink indexes a dblock with (32)
  NREG,          \* regions per inode (23)
  MaxInodes,     \* inodes the model lets exist (a bound, below 32)
  CreatePaths,   \* the paths passed to MKFILE and MKDIR
  RmPaths,       \* the paths passed to RM
  Junk

ASSUME MaxInodes <= 32 /\ NBLOCKS >= 1 + DEF_IREG_LEN + DEF_DREG_LEN

VARIABLES
  next_inode,    \* hblock.next_inode
  next_block,    \* hblock.next_block
  inode,         \* the inodes of iblock 0
  dblk,          \* dblk[b][s]: entry s of block b read as a dblock
  result,        \* what the last call returned
  req,           \* the last call and its arguments
  xc             \* the general purpose cache: xcaddr and xcache

fsvars == <<next_inode, next_block, inode, dblk, result, req, xc>>

DIR == "DIR"
FILE == "FILE"
Dot == <<".">>
DotDot == <<".", ".">>
Ino == 0..MaxInodes-1
Blk == 0..NBLOCKS-1
Slot == 0..ENTRIES-1
RegIdx == 0..NREG-1

Entry(x, nm) == [ino |-> x, name |-> nm]
NoInode == [ftype |-> DIR, eof |-> 0, iparent |-> 0,
            reg |-> [i \in RegIdx |-> [start |-> 0, len |-> 0]]]
Found(x, p) == [err |-> "SUCCESS", ino |-> x, parent |-> p]
Err(e) == [err |-> e, ino |-> Junk, parent |-> Junk]

-----------------------------------------------------------------------------
(* Block lookup *)

\* find_blk: the block holding logical block bi of a region table, or 0
RECURSIVE FindBlkFrom(_, _, _, _)
FindBlkFrom(reg, bi, i, n) ==
  IF i < NREG /\ reg[i].start # 0
  THEN IF bi < n + reg[i].len THEN reg[i].start + bi - n
       ELSE FindBlkFrom(reg, bi, i + 1, n + reg[i].len)
  ELSE 0

find_blk(reg, bi) == FindBlkFrom(reg, bi, 0, 0)

\* The walk of fs2_unlink and fs2_ls, "i += ((j = (j+1) % reg_len[i]) == 0)":
\* it steps through the regions by their lengths and never tests reg_start
RECURSIVE WalkBlkFrom(_, _, _)
WalkBlkFrom(reg, bi, i) ==
  IF bi < reg[i].len THEN reg[i].start + bi
  ELSE WalkBlkFrom(reg, bi - reg[i].len, i + 1)

EntryAt(d, k) == dblk[find_blk(inode[d].reg, k \div ENTRIES)][k % ENTRIES]

Capacity(d) ==
  LET live == {i \in RegIdx : \A h \in 0..i : inode[d].reg[h].start # 0}
  IN  ENTRIES * MapThenSumSet(LAMBDA i : inode[d].reg[i].len, live)

(* Path resolution *)

\* strncmp(entry->name, comp, strlen(comp)) == 0: comp is a prefix of the name
Matches(e, comp) == e # Junk /\ IsPrefix(comp, e.name)

\* fs2_find_in_dir_r.  The loop loads a dblock at each multiple of ENTRIES,
\* then advances (i, j) and gives up with FS2_NO_FILE if that position lies
\* past the allocated regions: so the scan stops at the start of the last
\* block of the last region.  The first match before that stop wins.
FindInDir(d, comp) ==
  LET ks    == 0..inode[d].eof-1
      hits  == {k \in ks : Matches(EntryAt(d, k), comp)}
      stops == {k \in ks : k % ENTRIES = 0
                           /\ find_blk(inode[d].reg, k \div ENTRIES + 1) = 0}
  IN  IF inode[d].ftype # DIR THEN Err("BAD_FTYPE")
      ELSE IF hits # {} /\ (stops = {} \/ Min(hits) < Min(stops))
           THEN Found(EntryAt(d, Min(hits)).ino, d)
           ELSE Err("NO_FILE")

\* The loop of fs2_find_file, one component at a time
RECURSIVE Walk(_, _)
Walk(parent, comps) ==
  LET c == FindInDir(parent, Head(comps))
  IN  IF c.err # "SUCCESS" THEN c
      ELSE IF Len(comps) = 1 THEN Found(c.ino, parent)
      ELSE Walk(c.ino, Tail(comps))

fs2_find_file(path) == IF path = <<>> THEN Found(0, Junk) ELSE Walk(0, path)

-----------------------------------------------------------------------------
(* The volume as one record, so that a call's steps compose in order *)

Vol == [inode |-> inode, dblk |-> dblk, next_block |-> next_block]

\* Bug variant: the test for a full disk is dropped
NewRegion_NoCheck(v, rsz) == v.next_block

\* fs2_find_free_region: the loop over free regions does nothing, so this
\* is a bump allocator; 0 means FS2_DISK_FULL
NewRegion(v, rsz) ==
  IF v.next_block + rsz > NBLOCKS THEN 0 ELSE v.next_block

\* fs2_init_inode, then "inode->iparent = parent": reg_start is zeroed and
\* reg_len left as it was; a directory gets a dregion, or the call fails
InitInode(v, x, ft, p) ==
  LET rst == IF ft = DIR THEN NewRegion(v, DEF_DREG_LEN) ELSE 0
      clr == [i \in RegIdx |-> [v.inode[x].reg[i] EXCEPT !.start = 0]]
      reg == IF ft = DIR /\ rst # 0
             THEN [clr EXCEPT ![0] = [start |-> rst, len |-> DEF_DREG_LEN]]
             ELSE clr
  IN  [v EXCEPT !.inode[x] = [ftype |-> ft, eof |-> 0, iparent |-> p,
                              reg |-> reg],
                !.next_block = IF rst # 0 THEN @ + DEF_DREG_LEN ELSE @]

InitInodeFailed(v, x, ft) == ft = DIR /\ NewRegion(v, DEF_DREG_LEN) = 0

\* Bug variant: the entry is written one slot past the one eof counts
PutEntry_OffByOne(v, d, b, s, e) ==
  [v EXCEPT !.dblk[b][(s + 1) % ENTRIES] = e, !.inode[d].eof = @ + 1]

\* Writes entry e at slot s of block b and counts it in directory d
PutEntry(v, d, b, s, e) ==
  [v EXCEPT !.dblk[b][s] = e, !.inode[d].eof = @ + 1]

\* fs2_add_dir_entry, with n and i taken as 0 (the code leaves both
\* uninitialised).  The entry goes into the first region with room; past
\* the last region a new dregion is allocated.  On FS2_FILE_FULL or
\* FS2_DISK_FULL the volume is left as it was.
RECURSIVE AddLoop(_, _, _, _, _, _)
AddLoop(v, nm, d, x, n, i) ==
  LET in == v.inode[d]
  IN  IF i < NREG /\ in.reg[i].start # 0
      THEN IF in.eof < (n + in.reg[i].len) * ENTRIES
           THEN PutEntry(v, d, in.reg[i].start + in.eof \div ENTRIES - n,
                         in.eof % ENTRIES, Entry(x, nm))
           ELSE AddLoop(v, nm, d, x, n + in.reg[i].len, i + 1)
      ELSE IF i = NREG \/ NewRegion(v, DEF_DREG_LEN) = 0 THEN v
      ELSE LET a == v.next_block
               w == [v EXCEPT !.inode[d].reg[i] = [start |-> a,
                                                   len |-> DEF_DREG_LEN],
                              !.next_block = @ + DEF_DREG_LEN]
           IN  PutEntry(w, d, a, 0, Entry(x, nm))

fs2_add_dir_entry(v, nm, d, x) == AddLoop(v, nm, d, x, 0, 0)

\* Bug variant: ".." is written with the new inode's own index
fs2_create_file_DotDotSelf(v, nm, p, ft) ==
  LET x  == next_inode
      v1 == InitInode(v, x, ft, p)
      b  == v1.inode[x].reg[0].start
      v2 == IF ft = DIR
            THEN [v1 EXCEPT !.dblk[b][0] = Entry(x, Dot),
                            !.dblk[b][1] = Entry(x, DotDot),
                            !.inode[x].eof = 2]
            ELSE v1
  IN  fs2_add_dir_entry(v2, nm, p, x)

\* fs2_create_file, from the point the new inode has been initialised: a
\* directory gets its "." and ".." entries, then the parent gets a link.
\* Whatever fs2_add_dir_entry reports, the following fs2_save_iblock_c
\* overwrites the outcome with FS2_SUCCESS and next_inode is incremented.
fs2_create_file(v, nm, p, ft) ==
  LET x  == next_inode
      v1 == InitInode(v, x, ft, p)
      b  == v1.inode[x].reg[0].start
      v2 == IF ft = DIR
            THEN [v1 EXCEPT !.dblk[b][0] = Entry(x, Dot),
                            !.dblk[b][1] = Entry(p, DotDot),
                            !.inode[x].eof = 2]
            ELSE v1
  IN  fs2_add_dir_entry(v2, nm, p, x)

SetVol(v) ==
  /\ inode' = v.inode
  /\ dblk' = v.dblk
  /\ next_block' = v.next_block

\* The parent path of fs2_create: after the trailing '/' of the parent are
\* overwritten, "if (split == path) p = 0" also takes a parent whose whole
\* path is one character for the root
ParentIsRoot(front) == front = <<>> \/ (Len(front) = 1 /\ Len(front[1]) = 1)

Fail(op, ft, path) ==
  /\ result' = FALSE
  /\ req' = [op |-> op, ftype |-> ft, path |-> path]
  /\ UNCHANGED <<next_inode, next_block, inode, dblk, xc>>

\* fs2_create(vol, ftype, path)
Create(ft, path) ==
  LET r  == fs2_find_file(path)
      pr == IF ParentIsRoot(Front(path)) THEN Found(0, Junk)
            ELSE fs2_find_file(Front(path))
  IN  \/ r.err # "NO_FILE" /\ Fail("create", ft, path)
      \/ r.err = "NO_FILE" /\ Last(path) = <<>> /\ Fail("create", ft, path)
      \/ /\ r.err = "NO_FILE" /\ Last(path) # <<>>
         /\ pr.err # "SUCCESS"
         /\ Fail("create", ft, path)
      \/ /\ r.err = "NO_FILE" /\ Last(path) # <<>>
         /\ pr.err = "SUCCESS"
         /\ next_inode < MaxInodes
         /\ \/ /\ InitInodeFailed(Vol, next_inode, ft)
               /\ inode' = InitInode(Vol, next_inode, ft, pr.ino).inode
               /\ result' = FALSE
               /\ UNCHANGED <<next_inode, next_block, dblk, xc>>
            \/ /\ ~InitInodeFailed(Vol, next_inode, ft)
               /\ SetVol(fs2_create_file(Vol, Last(path), pr.ino, ft))
               /\ next_inode' = next_inode + 1
               /\ result' = TRUE
         /\ req' = [op |-> "create", ftype |-> ft, path |-> path]
         /\ UNCHANGED xc

\* The inode_index of an entry; a block that never held a directory reads as
\* entries whose index is no inode the volume has created
EntryIno(e) == IF e = Junk THEN Junk ELSE e.ino

\* Bug variant: the hole is filled with the last entry but eof is kept
Unlink_KeepEof(v, xc0, p, x) ==
  LET in   == v.inode[p]
      WBlk(k) == WalkBlkFrom(in.reg, k \div ENTRIES, 0)
      ks   == {k \in 0..in.eof-1 : EntryIno(v.dblk[WBlk(k)][k % UNLINK_MOD]) = x}
      k    == Min(ks)
      last == in.eof - 1
  IN  IF ks = {} THEN [ok |-> FALSE, v |-> v, xc |-> xc0]
      ELSE [ok |-> TRUE, xc |-> xc0,
            v  |-> [v EXCEPT !.dblk[WBlk(k)][k % ENTRIES] =
                                v.dblk[WBlk(k)][last % ENTRIES]]]

\* fs2_unlink(vol, pinode, x) applied to volume v with cache xc0.  Each
\* logical block is loaded at its first entry, walking the regions by their
\* lengths; entry k is compared at slot k % 32 of the loaded block.  The
\* found entry's slot k % 128 is overwritten with the last entry, read from
\* the same dcache or, in another block, through the xcache, which is only
\* reloaded when its address differs.
Unlink(v, xc0, p, x) ==
  LET in   == v.inode[p]
      WBlk(k) == WalkBlkFrom(in.reg, k \div ENTRIES, 0)
      ks   == {k \in 0..in.eof-1 : EntryIno(v.dblk[WBlk(k)][k % UNLINK_MOD]) = x}
      k    == Min(ks)
      last == in.eof - 1
      la   == find_blk(in.reg, last \div ENTRIES)
      far  == k \div ENTRIES # last \div ENTRIES
      xd   == IF la = xc0.addr THEN xc0.data ELSE v.dblk[la]
      le   == IF far THEN xd[last % ENTRIES] ELSE v.dblk[WBlk(k)][last % ENTRIES]
  IN  IF ks = {} THEN [ok |-> FALSE, v |-> v, xc |-> xc0]
      ELSE [ok |-> TRUE,
            v  |-> [v EXCEPT !.dblk[WBlk(k)][k % ENTRIES] =
                                IF k # last THEN le ELSE @,
                             !.inode[p].eof = @ - 1],
            xc |-> IF k # last /\ far THEN [addr |-> la, data |-> xd] ELSE xc0]

\* fs2_rm(vol, path).  A directory holding more than "." and ".." is
\* refused.  If the inode is not the last one created, its reg_start are
\* zeroed in the cached iblock before the parent is unlinked, and stay
\* zeroed whether or not the unlink succeeds.
Rm(path) ==
  LET r    == fs2_find_file(path)
      ind  == r.ino
      move == ind < next_inode - 1
      v1   == IF move
              THEN [Vol EXCEPT !.inode[ind].reg =
                                 [i \in RegIdx |-> [@[i] EXCEPT !.start = 0]]]
              ELSE Vol
      u    == Unlink(v1, xc, r.parent, ind)
  IN  /\ req' = [op |-> "rm", ftype |-> Junk, path |-> path]
      /\ IF \/ r.err # "SUCCESS"
            \/ ind = 0
            \/ inode[ind].ftype = DIR /\ inode[ind].eof > 2
         THEN /\ result' = FALSE
              /\ UNCHANGED <<next_inode, next_block, inode, dblk, xc>>
         ELSE /\ SetVol(u.v)
              /\ xc' = u.xc
              /\ result' = u.ok
              /\ UNCHANGED next_inode

-----------------------------------------------------------------------------
(* The volume init_fs formats, fs2_format_volume(&vol, 100, .., 4, 1, 2),  *)
(* on a blank disk.  vol is a zeroed global and the failed load leaves     *)
(* icindex 0, so fs2_get_iblock_c takes iblock 0 as cached and no iregion  *)
(* is ever allocated: the root's dregion is the first free block.          *)

FsInit ==
  LET rb == 1
  IN  /\ next_inode = 1
      /\ next_block = 1 + DEF_DREG_LEN
      /\ inode = [x \in Ino |-> IF x = 0
                   THEN [ftype |-> DIR, eof |-> 2, iparent |-> 0,
                         reg |-> [i \in RegIdx |->
                                   IF i = 0 THEN [start |-> rb, len |-> DEF_DREG_LEN]
                                   ELSE [start |-> 0, len |-> 0]]]
                   ELSE NoInode]
      /\ dblk = [b \in Blk |-> [s \in Slot |->
                   IF b = rb /\ s = 0 THEN Entry(0, Dot)
                   ELSE IF b = rb /\ s = 1 THEN Entry(0, DotDot)
                   ELSE Junk]]
      /\ result = TRUE
      /\ req = [op |-> "format", ftype |-> DIR, path |-> <<>>]
      /\ xc = [addr |-> 0, data |-> [s \in Slot |-> Junk]]

FsNext ==
  \/ \E path \in CreatePaths : Create(FILE, path) \/ Create(DIR, path)
  \/ \E path \in RmPaths : Rm(path)

FsSpec == FsInit /\ [][FsNext]_fsvars

-----------------------------------------------------------------------------
Paths == CreatePaths \cup RmPaths
Names == {Last(pa) : pa \in Paths} \cup {Dot, DotDot}
EntryVal == [ino : Ino, name : Names] \cup {Junk}
RegVal == [start : Blk, len : 0..DEF_DREG_LEN]

FsTypeOK ==
  /\ next_inode \in 1..MaxInodes
  /\ next_block \in 1..NBLOCKS
  /\ inode \in [Ino -> [ftype : {DIR, FILE}, eof : 0..NREG * DEF_DREG_LEN * ENTRIES,
                        iparent : Ino, reg : [RegIdx -> RegVal]]]
  /\ dblk \in [Blk -> [Slot -> EntryVal]]
  /\ result \in BOOLEAN
  /\ xc \in [addr : Blk, data : [Slot -> EntryVal]]

IsDotName(e) == e # Junk /\ e.name \in {Dot, DotDot}

\* The non-dot entries of directory d, by index
Links(d) == {k \in 0..inode[d].eof-1 : ~IsDotName(EntryAt(d, k))}

Children(d) == {EntryIno(EntryAt(d, k)) : k \in Links(d)} \ {Junk}

\* The inodes reachable from the root through non-dot entries
RECURSIVE ReachFrom(_)
ReachFrom(S) ==
  LET T == S \cup UNION {Children(d) : d \in {x \in S : inode[x].ftype = DIR}}
  IN  IF T = S THEN S ELSE ReachFrom(T)

Linked == ReachFrom({0})

LiveDirs == {d \in Linked : inode[d].ftype = DIR}

\* The non-dot slots, over all linked directories, that name inode x
LinksTo(x) == UNION {{<<d, k>> : k \in {k \in Links(d) : EntryIno(EntryAt(d, k)) = x}}
                       : d \in LiveDirs}

\* Every directory's entries 0..eof-1 lie in its allocated regions, were
\* written by fs2_create_file or fs2_add_dir_entry, and name created inodes:
\* fs2_add_dir_entry counts an entry only once it is saved, and fs2_unlink
\* moves the last entry into the hole before it shrinks eof.
DirEntriesValid ==
  \A d \in LiveDirs :
    /\ inode[d].eof <= Capacity(d)
    /\ \A k \in 0..inode[d].eof-1 :
         EntryAt(d, k) # Junk /\ EntryAt(d, k).ino < next_inode

\* No inode is linked from two directory slots: fs2_create_file links a new
\* inode once, and fs2_unlink replaces the removed entry by the last one and
\* drops the last slot, even when the last entry is read through the xcache.
LinkedOnce == \A x \in 1..next_inode-1 : Cardinality(LinksTo(x)) <= 1

\* Each linked directory d other than the root starts with "." naming d and
\* ".." naming its iparent, and is linked from that parent: fs2_create_file
\* writes both entries and iparent from the same parent index it links the
\* new inode under, and fs2_rm only unlinks an empty directory.
DirLinksIntact ==
  \A d \in LiveDirs \ {0} :
    /\ inode[d].eof >= 2
    /\ EntryAt(d, 0) = Entry(d, Dot)
    /\ EntryAt(d, 1) = Entry(inode[d].iparent, DotDot)
    /\ d \in Children(inode[d].iparent)

\* A name resolves in the root only to an entry carrying exactly that name:
\* fs2_find_in_dir_r compares with strncmp(entry, comp, strlen(comp)), so it
\* is about whether a shorter name can stand for a longer one.
ResolvesExactly ==
  \A pa \in {pa \in Paths : Len(pa) = 1} :
    LET r == FindInDir(0, pa[1])
    IN  r.err = "SUCCESS" =>
          \E k \in 0..inode[0].eof-1 : EntryAt(0, k) = Entry(r.ino, pa[1])

\* fs2_create returns true only when the inode it made can be found at the
\* path it was given (its header: "Returns true ... if it was successfully
\* created"); this is about the parent it picks and the link it adds.
CreateReportsTruth ==
  [][req'.op = "create" /\ result' = TRUE =>
       (fs2_find_file(req.path)).err' = "SUCCESS"
       /\ (fs2_find_file(req.path)).ino' = next_inode]_fsvars

\* An fs2_rm that returns false leaves the namespace as it was: it is about
\* the inode regions fs2_rm clears before fs2_unlink has found the link.
RmFailureHarmless ==
  [][req'.op = "rm" /\ result' = FALSE => UNCHANGED <<inode, dblk>>]_fsvars

\* A create that returns true has linked the new inode into a directory:
\* fs2_create_file goes on to fs2_save_iblock_c and next_inode++ after
\* fs2_add_dir_entry, so this is about an outcome of FS2_FILE_FULL or
\* FS2_DISK_FULL from it reaching the caller.
CreateLinksNewInode ==
  [][req'.op = "create" /\ result' = TRUE =>
       \E x \in {next_inode} : (Cardinality(LinksTo(x)))' = 1]_fsvars

=============================================================================
