--------------------------------- MODULE Fs ---------------------------------
(***************************************************************************)
(* The ext4 root: kernel/fs.cpp, and the descriptors of files of           *)
(* kernel/vfs.cpp (fd_open, fd_read, fd_write, lseek, fd_close).           *)
(*                                                                         *)
(* There is no journal: a call is a sequence of writes to the disk, each   *)
(* of one block, and stops after any of them when a write fails or the     *)
(* power goes.  An operator below takes a call as far as it has come       *)
(* (the disk it sees, and the disks it has left behind so far) and returns *)
(* it one step later; Do() then lets it stop wherever it may.              *)
(*                                                                         *)
(* One block of the bitmaps, one group.  An entry of a directory takes one *)
(* unit of its block, whatever its name; "." and ".." are the first two.   *)
(* Only inodes this code makes are modelled: up to kExtents extents inside *)
(* the inode, no tree of extents and no indirect blocks.                   *)
(* Link counts, i_blocks and times are not kept.                           *)
(***************************************************************************)
EXTENDS Integers, FiniteSets, FiniteSetsExt, Sequences, SequencesExt

CONSTANTS
  kBlocks,   \* g_blocks; block 0 stands for all that is in front of the data
  kInodes,   \* g_ipg
  kExtents,  \* extents that fit into an inode (4 in the code)
  kBytes,    \* g_bs, bytes of a block
  kZero,     \* zeros write_at() has to fill a gap with (512 in the code)
  kSlots,    \* units of a directory block
  kMaxFd,    \* descriptors
  Tops,      \* bound: names in the root
  Homes,     \* bound: those of Tops a path goes on below
  Subs,      \* bound: names there
  Val,       \* what a byte may hold; 0 is never written by a process
  MaxSize,   \* bound: size of a file
  Lens,      \* bound: bytes of one write or read
  MaxStops   \* bound: calls that stop half way

ASSUME FsAssumption ==
  /\ kBlocks \in Nat /\ kBlocks > 1 /\ kInodes \in Nat \ {0} /\ kExtents \in Nat \ {0}
  /\ kBytes \in Nat \ {0} /\ kZero \in Nat /\ kSlots \in Nat /\ kSlots >= 2
  /\ kMaxFd \in Nat /\ 0 \in Val
  /\ MaxSize \in Nat /\ Lens \subseteq Nat \ {0} /\ MaxStops \in Nat

\* A path is a name in the root and perhaps one below it; "." and ".." are no names.
ASSUME NamesAssumption ==
  /\ Homes \subseteq Tops
  /\ "." \notin Tops \cup Subs /\ ".." \notin Tops \cup Subs

Blocks == 0 .. kBlocks - 1
Inodes == 1 .. kInodes
kRootIno == 1
Fds == 1 .. kMaxFd
Names == Tops \cup Subs
Paths == {<<a>> : a \in Tops} \cup {<<a, b>> : a \in Homes, b \in Subs}

VARIABLES
  disk,    \* bitmaps, inodes, blocks and the counts of free ones
  g_hint,  \* where alloc_blocks() starts to look
  fd,      \* open descriptors
  stops,   \* how many calls have stopped half way, at most MaxStops
  tree     \* auxiliary: what lookup_abs() and read() show of the disk

vars == <<disk, g_hint, fd, stops, tree>>

-----------------------------------------------------------------------------
(* What is on the disk                                                     *)

NoInode == [kind |-> "none", size |-> 0, ext |-> <<>>]
Extent(l, n, p) == [l |-> l, n |-> n, p |-> p]
Entry(name, ino, len) == [name |-> name, ino |-> ino, len |-> len]
DataBlock(s) == [use |-> "data", data |-> s, ents |-> <<>>]
DirBlock(s) == [use |-> "dir", data |-> <<>>, ents |-> s]

\* A new directory's block: itself, its parent, and the rest of the block.
DotDot(self, parent) ==
  DirBlock(<<Entry(".", self, 1), Entry("..", parent, kSlots - 1)>>)

CeilDiv(a, b) == (a + b - 1) \div b

\* map_lblock(): the block an extent puts there, 0 if none does.
map_lblock(inode, l) ==
  LET hit == {i \in DOMAIN inode.ext : l >= inode.ext[i].l /\ l < inode.ext[i].l + inode.ext[i].n}
  IN IF hit = {} THEN 0 ELSE inode.ext[Min(hit)].p + l - inode.ext[Min(hit)].l

NumBlocks(inode) == CeilDiv(inode.size, kBytes)

\* list_dir(): the entries of a directory, block after block.
EntriesAt(d, i, l) == d.blk[map_lblock(d.ino[i], l)].ents
list_dir(d, i) ==
  IF d.ino[i].kind # "dir" THEN {}
  ELSE {e \in UNION {Range(EntriesAt(d, i, l)) : l \in 0 .. NumBlocks(d.ino[i]) - 1} : e.ino # 0}

\* lookup_abs(): the inode at the end of a path, 0 if there is none.
Child(d, i, name) ==
  LET hit == {e \in list_dir(d, i) : e.name = name}
  IN IF i = 0 \/ hit = {} THEN 0 ELSE (CHOOSE e \in hit : TRUE).ino
lookup_abs(d, path) ==
  LET at[n \in 0 .. Len(path)] == IF n = 0 THEN kRootIno ELSE Child(d, at[n - 1], path[n])
  IN at[Len(path)]

\* The bytes of a file, as read() returns them.
Contents(d, i) ==
  [k \in 1 .. d.ino[i].size |->
     d.blk[map_lblock(d.ino[i], (k - 1) \div kBytes)].data[((k - 1) % kBytes) + 1]]

TreeOf(d) ==
  LET at == [p \in Paths |-> lookup_abs(d, p)]
  IN [p \in {q \in Paths : at[q] # 0} |->
       IF d.ino[at[p]].kind = "dir" THEN [kind |-> "dir", data |-> <<>>]
       ELSE [kind |-> "file", data |-> Contents(d, at[p])]]

-----------------------------------------------------------------------------
(* A call on its way: the disk and hint it sees, the ones after each of    *)
(* its writes, whether it is still going, and what the last step returned. *)

Begin == [d |-> disk, hint |-> g_hint, log |-> <<>>, ok |-> TRUE, got |-> 0]

Put(c, d) == IF c.ok THEN [c EXCEPT !.d = d, !.log = Append(@, [d |-> d, hint |-> c.hint])]
             ELSE c
Need(c, cond) == [c EXCEPT !.ok = @ /\ cond]

\* Writes one after the other: After(k) is the disk when k of n are done.
PutAll(c, n, After(_)) ==
  IF c.ok /\ n > 0
  THEN [c EXCEPT !.d = After(n), !.log = @ \o [k \in 1 .. n |-> [d |-> After(k), hint |-> c.hint]]]
  ELSE c

\* Where the scan from the hint on, once round, finds n free blocks in a row.
\* Block 0 is in use, so no run goes round the end.
Fits(used, n, h) ==
  {s \in 0 .. kBlocks - n : (s .. s + n - 1) \cap used = {} /\ (s >= h \/ s + n <= h)}

NextHint(s, n) == (s + n) % kBlocks

alloc_blocks(c, n) ==
  LET fits == Fits(c.d.bbm, n, c.hint)
      s == CHOOSE a \in fits : \A b \in fits : (a - c.hint) % kBlocks <= (b - c.hint) % kBlocks
  IN IF ~c.ok \/ fits = {} THEN Need(c, FALSE)
     ELSE [Put([c EXCEPT !.hint = NextHint(s, n)], [c.d EXCEPT !.bbm = @ \cup (s .. s + n - 1)])
             EXCEPT !.got = s]

alloc_inode(c) ==
  LET free == Inodes \ c.d.ibm
  IN IF ~c.ok \/ free = {} THEN Need(c, FALSE)
     ELSE [Put(c, [c.d EXCEPT !.ibm = @ \cup {Min(free)}]) EXCEPT !.got = Min(free)]

store_inode(c, i, inode) == Put(c, [c.d EXCEPT !.ino[i] = inode])
write_block(c, b, block) == Put(c, [c.d EXCEPT !.blk[b] = block])
BlocksIn(ext) == UNION {e.p .. e.p + e.n - 1 : e \in Range(ext)}
Blank == DataBlock([k \in 1 .. kBytes |-> 0])

\* One extent after the other.  What a free block holds is not followed: a file's
\* bytes are all written before its size says that they are there.
free_blocks(c, ext) ==
  PutAll(c, Len(ext), LAMBDA k :
    LET gone == BlocksIn(SubSeq(ext, 1, k))
    IN [c.d EXCEPT !.bbm = @ \ gone, !.blk = [b \in Blocks |-> IF b \in gone THEN Blank ELSE @[b]]])

\* The counts of free blocks and inodes.  The superblock repeats them for statfs(): its
\* write, behind the descriptor's, is not a step of its own.  The count of directories
\* is left out, and so is the refusal when it would go below zero: it goes up with every
\* mkdir() and down with every directory that rm() removes, and is off like the others
\* after a call that stopped.
commit_counts(c, blocks, inodes) ==
  LET fb == c.d.fb - blocks
      fi == c.d.fi - inodes
  IN IF blocks = 0 /\ inodes = 0 THEN c
     ELSE Put(Need(c, fb >= 0 /\ fi >= 0), [c.d EXCEPT !.fb = fb, !.fi = fi])

\* Room behind the last entry of a block; the hole a removed entry left between
\* two others is not looked for.
Slack(ents) == Last(ents).len > 1
AddTo(ents, name, i) ==
  Append(Front(ents) \o <<[Last(ents) EXCEPT !.len = 1]>>, Entry(name, i, Last(ents).len - 1))

\* Mutant: the directory has the block before the block has the entry.
GrowDirLinkFirst(c, dir, name, i) ==
  LET a == alloc_blocks(c, 1)
      inode == c.d.ino[dir]
      f == store_inode(Need(a, Len(inode.ext) < kExtents), dir,
                       [inode EXCEPT !.size = @ + kBytes,
                                     !.ext = Append(@, Extent(NumBlocks(inode), 1, a.got))])
  IN write_block(f, a.got, DirBlock(<<Entry(name, i, kSlots)>>))

\* A new block for a directory: emptied, filled, and only then part of it.  It is
\* not counted, and lost if the inode has no extent left for it.
GrowDir(c, dir, name, i) ==
  LET a == alloc_blocks(c, 1)
      e == write_block(a, a.got, DirBlock(<<Entry("", 0, kSlots)>>))
      inode == c.d.ino[dir]
      f == write_block(Need(e, Len(inode.ext) < kExtents), a.got,
                       DirBlock(<<Entry(name, i, kSlots)>>))
  IN store_inode(f, dir, [inode EXCEPT !.size = @ + kBytes,
                                       !.ext = Append(@, Extent(NumBlocks(inode), 1, a.got))])

dir_add_entry(c, dir, name, i) ==
  LET inode == c.d.ino[dir]
      roomy == {l \in 0 .. NumBlocks(inode) - 1 : Slack(EntriesAt(c.d, dir, l))}
      b == map_lblock(inode, Min(roomy))
  IN IF ~c.ok \/ inode.kind # "dir" THEN Need(c, FALSE)
     ELSE IF roomy # {} THEN write_block(c, b, DirBlock(AddTo(c.d.blk[b].ents, name, i)))
     ELSE GrowDir(c, dir, name, i)

-----------------------------------------------------------------------------
(* The calls                                                               *)

NewFile == [kind |-> "file", size |-> 0, ext |-> <<>>]

\* Mutant: an extent is counted for one block.
FreedExtents(inode) == Len(inode.ext)

\* The blocks that become free with an inode.
Freed(inode) == Cardinality({x \in (DOMAIN inode.ext) \X Blocks : x[2] < inode.ext[x[1]].n})

\* Mutant: the old blocks are free before the inode lets go of them.
TruncateFreesFirst(path) ==
  LET i == lookup_abs(disk, path)
      old == disk.ino[i]
      f == free_blocks(Begin, old.ext)
  IN commit_counts(store_inode(f, i, NewFile), 0 - Freed(old), 0)

\* write_file() of nothing to a file that is there, which is how O_TRUNC gets rid
\* of its bytes: the empty inode first, then the old blocks.
Truncated(path) ==
  LET i == lookup_abs(disk, path)
      old == disk.ino[i]
      s == store_inode(Need(Begin, old.kind = "file"), i, NewFile)
      f == free_blocks(s, old.ext)
  IN commit_counts(f, 0 - Freed(old), 0)

\* write_file() of a new name: an inode, then the entry.  Whether the parent is a
\* directory is only asked when the inode is already taken.
Created(path) ==
  LET parent == lookup_abs(disk, Front(path))
      a == alloc_inode(Need(Begin, parent # 0))
      s == store_inode(a, a.got, NewFile)
  IN commit_counts(dir_add_entry(s, parent, Last(path), a.got), 0, 1)

mkdir(path) ==
  LET parent == lookup_abs(disk, Front(path))
      i == alloc_inode(Need(Begin, /\ parent # 0 /\ disk.ino[parent].kind = "dir"
                                   /\ lookup_abs(disk, path) = 0))
      b == alloc_blocks(i, 1)
      s == store_inode(b, i.got, [kind |-> "dir", size |-> kBytes, ext |-> <<Extent(0, 1, b.got)>>])
      w == write_block(s, b.got, DotDot(i.got, parent))
  IN commit_counts(dir_add_entry(w, parent, Last(path), i.got), 1, 1)

\* The entry in front of a removed one takes its room.
Unlinked(ents, k) ==
  RemoveAt([ents EXCEPT ![k - 1].len = @ + ents[k].len], k)

\* Mutant: one child is not enough to keep a directory.
IsEmptyOrNearly(i) == Cardinality(list_dir(disk, i)) <= 3

\* A file, or a directory with nothing but "." and "..".
IsEmpty(i) == Cardinality(list_dir(disk, i)) <= 2

\* rm(): the entry first, then blocks, inode bitmap and inode.
rm(path) ==
  LET parent == lookup_abs(disk, Front(path))
      i == lookup_abs(disk, path)
      old == disk.ino[i]
      l == CHOOSE n \in 0 .. NumBlocks(disk.ino[parent]) - 1 :
             \E e \in Range(EntriesAt(disk, parent, n)) : e.ino = i
      ents == EntriesAt(disk, parent, l)
      k == CHOOSE n \in DOMAIN ents : ents[n].ino = i
      u == write_block(Begin, map_lblock(disk.ino[parent], l), DirBlock(Unlinked(ents, k)))
      f == free_blocks(u, old.ext)
      b == Put(f, [f.d EXCEPT !.ibm = @ \ {i}])
      z == store_inode(b, i, NoInode)
  IN IF parent = 0 \/ i = 0 \/ ~IsEmpty(i) THEN Need(Begin, FALSE)
     ELSE commit_counts(z, 0 - Freed(old), 0 - 1)

\* An entry that is the first of its block has none in front: rm() doubles its own
\* length instead, and the block is no longer a list of entries.  Left out here.
FirstOfBlock(path) ==
  LET parent == lookup_abs(disk, Front(path))
      i == lookup_abs(disk, path)
  IN i # 0 /\ \E l \in 0 .. NumBlocks(disk.ino[parent]) - 1 :
                EntriesAt(disk, parent, l)[1].ino = i

-----------------------------------------------------------------------------
(* write_at()                                                              *)

\* One block with the part of s that falls into it; s starts at byte off.
Patched(block, l, off, s) ==
  DataBlock([k \in 1 .. kBytes |->
    LET at == l * kBytes + k - 1
    IN IF at >= off /\ at < off + Len(s) THEN s[at - off + 1]
       ELSE IF block.use = "data" THEN block.data[k] ELSE 0])

PatchBlocks(c, inode, from, to, off, s) ==
  LET Blk(k) == [b \in Blocks |->
                   LET ls == {l \in from .. from + k - 1 : map_lblock(inode, l) = b}
                   IN IF ls = {} THEN c.d.blk[b] ELSE Patched(c.d.blk[b], Min(ls), off, s)]
  IN PutAll(c, to - from + 1, LAMBDA k : [c.d EXCEPT !.blk = Blk(k)])

\* A write that starts inside the file or at its end: the blocks it has, then as
\* many new ones as are still needed, in one run; the inode last.
WriteInside(c, i, off, s) ==
  LET inode == c.d.ino[i]
      first == off \div kBytes
      last == (off + Len(s) - 1) \div kBytes
      held == NumBlocks(inode) - 1
      new == held + 1
      p == PatchBlocks(c, inode, first, IF last < held THEN last ELSE held, off, s)
      a == alloc_blocks(Need(p, Len(inode.ext) < kExtents), last - new + 1)
      grown == [inode EXCEPT !.ext = Append(@, Extent(new, last - new + 1, a.got))]
      w == PatchBlocks(a, grown, new, last, off, s)
      Sized(n) == [n EXCEPT !.size = IF off + Len(s) > @ THEN off + Len(s) ELSE @]
  IN IF ~c.ok \/ inode.kind # "file" THEN Need(c, FALSE)
     ELSE IF last <= held THEN store_inode(p, i, Sized(inode))
     ELSE IF ~a.ok THEN a
     ELSE commit_counts(store_inode(w, i, Sized(grown)), last - new + 1, 0)

\* A gap is filled block by block: ChunkStart is where the chunk that ends in front
\* of byte `at' begins.  Of a chunk longer than the zeros at hand the rest is
\* whatever lies behind them (g).
ChunkStart(size, at) ==
  LET block == at - 1 - ((at - 1) % kBytes) IN IF block < size THEN size ELSE block
Filler(n, g) == [k \in 1 .. n |-> IF k <= kZero THEN 0 ELSE g]

\* filled[at] is the call when there is no gap left in front of byte `at'.
write_at(i, off, s, g) ==
  LET size == disk.ino[i].size
      filled[at \in 0 .. off] ==
        IF at <= size THEN Need(Begin, disk.ino[i].kind = "file")
        ELSE LET from == ChunkStart(size, at)
             IN WriteInside(filled[from], i, from, Filler(at - from, g))
  IN WriteInside(filled[off], i, off, s)

-----------------------------------------------------------------------------
(* Calls that stop                                                         *)

Closed == [ino |-> 0, pos |-> 0, append |-> FALSE]
AllClosed == [f \in Fds |-> Closed]

\* The call runs to its end, and F is what the descriptors are then.
Finish(c, F) ==
  /\ disk' = c.d /\ g_hint' = c.hint /\ fd' = F /\ UNCHANGED stops
  /\ tree' = IF c.log = <<>> THEN tree ELSE TreeOf(c.d)

\* A write fails, and the call returns an error with what it has done so far.
Broken(c) ==
  \E k \in 1 .. Len(c.log) - 1 :
    /\ disk' = c.log[k].d /\ g_hint' = c.log[k].hint /\ UNCHANGED fd
    /\ stops < MaxStops /\ stops' = stops + 1
    /\ tree' = TreeOf(c.log[k].d)

\* The power goes, and the disk is mounted again.  mount() finds on the disk what is
\* in memory otherwise; its tests of the superblock are left out.
Crash(c) ==
  \E k \in 1 .. Len(c.log) - 1 :
    /\ disk' = c.log[k].d /\ g_hint' = 0 /\ fd' = AllClosed
    /\ stops < MaxStops /\ stops' = stops + 1
    /\ tree' = TreeOf(c.log[k].d)

Do(c, F) == \E r \in {c} : Finish(r, F) \/ Broken(r) \/ Crash(r)

-----------------------------------------------------------------------------
(* System calls                                                            *)

FreeFds == {f \in Fds : fd[f].ino = 0}
NewFd(d, i, append) ==
  IF FreeFds = {} THEN fd
  ELSE [fd EXCEPT ![Min(FreeFds)] = [ino |-> i, append |-> append,
                                     pos |-> IF append THEN d.ino[i].size ELSE 0]]

\* fd_open(): O_CREAT makes what is not there, O_TRUNC empties a file that is,
\* and only then is a descriptor looked for.  flags: "r" none, "w" O_CREAT and
\* O_TRUNC, "a" O_CREAT and O_APPEND.
fd_open(path, flags) ==
  LET i == lookup_abs(disk, path)
      c == IF i = 0 THEN Created(path)
           ELSE IF flags = "w" /\ disk.ino[i].kind = "file" THEN Truncated(path) ELSE Begin
  IN /\ i # 0 \/ flags # "r"
     /\ Do(c, IF c.ok THEN NewFd(c.d, lookup_abs(c.d, path), flags = "a") ELSE fd)

Mkdir(path) == Do(mkdir(path), fd)

\* A write that fails half way through rm() is left out for a file somebody has
\* open: its blocks may be free and its descriptor would still write to them.
Rm(path) ==
  /\ ~FirstOfBlock(path)
  /\ \E c \in {rm(path)} :
       \/ Finish(c, fd)
       \/ Crash(c)
       \/ (\A f \in Fds : fd[f].ino # lookup_abs(disk, path)) /\ Broken(c)

fd_close(f) ==
  /\ fd[f].ino # 0
  /\ fd' = [fd EXCEPT ![f] = Closed]
  /\ UNCHANGED <<disk, g_hint, stops, tree>>

Seek(f, pos) ==
  /\ fd[f].ino # 0
  /\ pos \in 0 .. MaxSize
  /\ fd' = [fd EXCEPT ![f].pos = pos]
  /\ UNCHANGED <<disk, g_hint, stops, tree>>

\* lseek() may go anywhere: it asks nothing of the file, and for SEEK_END goes by
\* a size the descriptor remembers.  Two places are enough, in the file and behind it.
lseek(f) == \E pos \in {0, MaxSize - 1} : Seek(f, pos)

fd_read(f, len) ==
  LET inode == disk.ino[fd[f].ino]
      left == inode.size - fd[f].pos
  IN /\ fd[f].ino # 0 /\ inode.kind = "file" /\ left > 0
     /\ Seek(f, fd[f].pos + IF len < left THEN len ELSE left)

\* fd_write() and ext_write(): at the end for O_APPEND.  The position moves
\* on when all of it was written.
fd_write(f, len, v, g) ==
  LET e == fd[f]
      at == IF e.append THEN disk.ino[e.ino].size ELSE e.pos
      c == write_at(e.ino, at, [k \in 1 .. len |-> v], g)
      moved == [e EXCEPT !.pos = at]
  IN /\ e.ino # 0 /\ at + len <= MaxSize
     /\ Do(c, [fd EXCEPT ![f] = IF c.ok THEN [moved EXCEPT !.pos = at + len]
                                ELSE moved])

Init ==
  /\ disk = [bbm |-> {0, 1}, ibm |-> {kRootIno},
             ino |-> [i \in Inodes |-> IF i = kRootIno
                        THEN [kind |-> "dir", size |-> kBytes, ext |-> <<Extent(0, 1, 1)>>]
                        ELSE NoInode],
             blk |-> [b \in Blocks |-> IF b = 1 THEN DotDot(kRootIno, kRootIno)
                                       ELSE Blank],
             fb |-> kBlocks - 2, fi |-> kInodes - 1]
  /\ g_hint = 0
  /\ fd = AllClosed
  /\ stops = 0
  /\ tree = <<>>

Next ==
  \/ \E path \in Paths : Mkdir(path) \/ Rm(path)
  \/ \E path \in Paths, flags \in {"r", "w", "a"} : fd_open(path, flags)
  \/ \E f \in Fds : fd_close(f) \/ lseek(f) \/ \E len \in Lens : fd_read(f, len)
  \/ \E f \in Fds, len \in Lens, v \in Val \ {0}, g \in Val \ {0} : fd_write(f, len, v, g)

Spec == Init /\ [][Next]_vars

-----------------------------------------------------------------------------
(* Properties                                                              *)

\* Types.  The hint alloc_blocks() starts from is a block, also after the scan went
\* round.
TypeOK ==
  /\ disk.bbm \subseteq Blocks /\ disk.ibm \subseteq Inodes
  /\ disk.fb \in Nat /\ disk.fi \in Nat
  /\ g_hint \in Blocks /\ stops \in 0 .. MaxStops
  /\ \A i \in Inodes : disk.ino[i].kind \in {"none", "file", "dir"} /\ Len(disk.ino[i].ext) <= kExtents
  /\ \A f \in Fds : fd[f].ino \in 0 .. kInodes /\ fd[f].pos \in Nat

\* The room the entries of a block take.
Room(ents) ==
  LET upto[n \in 0 .. Len(ents)] == IF n = 0 THEN 0 ELSE upto[n - 1] + ents[n].len
  IN upto[Len(ents)]

\* What the root leads to.
Reach == {kRootIno} \cup ({lookup_abs(disk, p) : p \in Paths} \ {0})

\* Wherever a call stopped, all is in its range: every name leads to an inode that is there and marked
\* used, everything it maps is marked used, and no block is mapped twice (rm,
\* write_file and write_at free last and allocate first).
Consistent ==
  /\ TypeOK
  /\ \A i \in Reach : /\ i \in disk.ibm /\ disk.ino[i].kind # "none"
                      /\ BlocksIn(disk.ino[i].ext) \subseteq disk.bbm \ {0}
                      /\ Cardinality(BlocksIn(disk.ino[i].ext)) = Freed(disk.ino[i])
  /\ \A i, j \in Reach : i # j => BlocksIn(disk.ino[i].ext) \cap BlocksIn(disk.ino[j].ext) = {}

\* A directory's blocks are lists of entries that fill the block, one name once,
\* whatever was written through descriptors of inodes that became directories
\* later, and ".." is where it was found.  (Not after an rm() of the first entry of a
\* block, which Rm leaves out: see FirstOfBlock.)
DirsWhole ==
  \A i \in Reach : disk.ino[i].kind = "dir" =>
    /\ \A l \in 0 .. NumBlocks(disk.ino[i]) - 1 :
         /\ disk.blk[map_lblock(disk.ino[i], l)].use = "dir"
         /\ Room(EntriesAt(disk, i, l)) = kSlots
    /\ \A e1, e2 \in list_dir(disk, i) : e1.name = e2.name => e1 = e2
    /\ \A e \in list_dir(disk, i) :
         e.name \in Names /\ disk.ino[e.ino].kind = "dir" => Child(disk, e.ino, "..") = i

\* As long as no call stopped half way, the counts are never below what is really
\* free, so commit_counts() does not refuse a call that has done its work.
NeverRefused ==
  stops = 0 => /\ disk.fb >= kBlocks - Cardinality(disk.bbm)
               /\ disk.fi >= kInodes - Cardinality(disk.ibm)

T == INSTANCE Tree

\* What lookup and read() show is a tree in which every call happens at once or
\* not at all, but for the bytes of a write, also when it stops half way.
IsTree == T!Spec
=============================================================================
