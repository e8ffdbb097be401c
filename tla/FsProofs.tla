------------------------------ MODULE FsProofs ------------------------------
(***************************************************************************)
(* Theorems about Fs, for a volume of any size, any number of descriptors, *)
(* any set of names and any number of calls that stop half way.            *)
(***************************************************************************)
EXTENDS Fs, FiniteSetTheorems, SequenceTheorems, WellFoundedInduction, TLAPS

-----------------------------------------------------------------------------
(* The inductive invariant                                                 *)

Extents == {e \in [l : Nat, n : 1 .. kBlocks, p : Blocks] : e.p + e.n <= kBlocks}
ExtLists == {s \in Seq(Extents) : Len(s) <= kExtents}
InodeRecs == [kind : {"none", "file", "dir"}, size : Nat, ext : ExtLists]
Labels == Names \cup {".", "..", ""}
Entries == [name : Labels, ino : 0 .. kInodes, len : Nat]
DataBlocks == [use : {"data"}, data : [1 .. kBytes -> Val], ents : {<<>>}]
DirBlocks == [use : {"dir"}, data : {<<>>}, ents : Seq(Entries)]
Disks == [bbm : SUBSET Blocks, ibm : SUBSET Inodes, ino : [Inodes -> InodeRecs],
          blk : [Blocks -> DataBlocks \cup DirBlocks], fb : Nat, fi : Nat]

\* The blocks of an inode, and the places of the entries of a directory: a block
\* and an index.
Run(e) == e.p .. e.p + e.n - 1
Own(d, i) == BlocksIn(d.ino[i].ext)
IsDir(d, i) == d.ino[i].kind = "dir"
Spots(d, i) ==
  {q \in Own(d, i) \X (Nat \ {0}) : IsDir(d, i) /\ q[2] \in DOMAIN d.blk[q[1]].ents}
Ent(d, q) == d.blk[q[1]].ents[q[2]]
Named(d, i) == {q \in Spots(d, i) : Ent(d, q).name \in Names}

\* What the root leads to, by entries: two steps are as far as a path goes.
Kids(d, i) == {Ent(d, q).ino : q \in Named(d, i)}
Near(d) == {kRootIno} \cup Kids(d, kRootIno)
Linked(d) == Near(d) \cup UNION {Kids(d, i) : i \in Kids(d, kRootIno)}

\* A directory is one block after the other, none of them empty.
Shape(d, i) ==
  IsDir(d, i) =>
    /\ NumBlocks(d.ino[i]) = Len(d.ino[i].ext)
    /\ \A k \in DOMAIN d.ino[i].ext : d.ino[i].ext[k].l = k - 1 /\ d.ino[i].ext[k].n = 1
    /\ \A b \in Own(d, i) : /\ d.blk[b].use = "dir" /\ d.blk[b].ents # <<>>
                            /\ Room(d.blk[b].ents) = kSlots
    /\ \A q, r \in Spots(d, i) : Ent(d, q).name = Ent(d, r).name => q = r

\* The entries that are no names lead to the directory and to the one above it.
Up(d, i, up) ==
  IsDir(d, i) =>
    /\ \E q \in Spots(d, i) : Ent(d, q).name = ".."
    /\ \A q \in Spots(d, i) \ Named(d, i) :
         \/ Ent(d, q).name = "." /\ Ent(d, q).ino = i
         \/ Ent(d, q).name = ".." /\ Ent(d, q).ino = up

\* Names make a tree.
Rooted(d) ==
  /\ \A i \in Linked(d) : i \in d.ibm /\ d.ino[i].kind # "none" /\ Shape(d, i)
  /\ \A i \in Near(d) : kRootIno \notin Kids(d, i)
  /\ \A i, j \in Near(d) : \A q \in Named(d, i), r \in Named(d, j) :
       Ent(d, q).ino = Ent(d, r).ino => i = j /\ q = r
  /\ \A i \in Kids(d, kRootIno) : \A j \in Kids(d, i) : Named(d, j) = {}
  /\ IsDir(d, kRootIno) /\ Up(d, kRootIno, kRootIno)
  /\ \A i \in Near(d) : \A j \in Kids(d, i) : Up(d, j, i)

\* No block belongs to two of the inodes of S, or twice to one, or is free.
Sound(d, i) ==
  /\ Own(d, i) \subseteq d.bbm \ {0}
  /\ \A j, k \in DOMAIN d.ino[i].ext :
       j # k => Run(d.ino[i].ext[j]) \cap Run(d.ino[i].ext[k]) = {}
Spread(d, S) ==
  /\ \A i \in S : Sound(d, i)
  /\ \A i, j \in S : i # j => Own(d, i) \cap Own(d, j) = {}

\* F: the inodes that are open.
Good(d, F) ==
  /\ d \in Disks /\ 0 \in d.bbm
  /\ Rooted(d)
  /\ Spread(d, Linked(d) \cup F)

\* The counts are x and y above what is free, or more.
Enough(d, x, y) ==
  /\ d.fb + Cardinality(d.bbm) >= kBlocks + x
  /\ d.fi + Cardinality(d.ibm) >= kInodes + y

Opened == {fd[f].ino : f \in Fds} \ {0}
FdRecs == [ino : 0 .. kInodes, pos : Nat, append : BOOLEAN]
FsInv ==
  /\ Good(disk, Opened)
  /\ g_hint \in Blocks /\ stops \in 0 .. MaxStops /\ fd \in [Fds -> FdRecs]
  /\ stops = 0 => Enough(disk, 0, 0)

-----------------------------------------------------------------------------
(* Numbers and sequences                                                   *)

LEMMA FnSeq ==
  ASSUME NEW S, NEW m \in Nat, NEW f \in [1 .. m -> S]
  PROVE  f \in Seq(S) /\ Len(f) = m /\ DOMAIN f = 1 .. m
<1>1. f \in Seq(S)
  BY SeqDef
<1>2. Len(f) \in Nat /\ DOMAIN f = 1 .. Len(f)
  BY <1>1, LenProperties
<1>3. 1 .. Len(f) = 1 .. m
  BY <1>2
<1> QED
  BY <1>1, <1>2, <1>3

\* The least of some natural numbers is one of them.
LEMMA MinIn ==
  ASSUME NEW S, S \subseteq Nat, S # {}
  PROVE  Min(S) \in S /\ \A y \in S : Min(S) <= y
<1>1. IsWellFoundedOn(OpToRel(<, Nat), Nat)
  BY NatLessThanWellFounded
<1>2. PICK m \in S : \A y \in S : ~(<<y, m>> \in OpToRel(<, Nat))
  BY <1>1, WFMin
<1>3. \A y \in S : m <= y
  <2> SUFFICES ASSUME NEW y \in S, ~(m <= y) PROVE FALSE
    OBVIOUS
  <2>1. <<y, m>> \in OpToRel(<, Nat)
    BY DEF OpToRel
  <2> QED
    BY <1>2, <2>1
<1> QED
  BY <1>3 DEF Min

LEMMA ModIn ==
  ASSUME NEW a \in Nat, NEW b \in Nat, b > 0
  PROVE  a % b \in 0 .. b - 1 /\ a % b <= a
  OBVIOUS

LEMMA DivNat ==
  ASSUME NEW a \in Nat, NEW b \in Nat, b > 0
  PROVE  a \div b \in Nat
  OBVIOUS

\* One block more.
LEMMA DivPlus ==
  ASSUME NEW a \in Nat, NEW b \in Nat, b > 0
  PROVE  (a + b) \div b = (a \div b) + 1
  OBVIOUS

LEMMA CeilFacts ==
  /\ \A a \in Nat : CeilDiv(a, kBytes) \in Nat
  /\ \A a \in Nat : CeilDiv(a + kBytes, kBytes) = CeilDiv(a, kBytes) + 1
  /\ CeilDiv(0, kBytes) = 0
  /\ CeilDiv(kBytes, kBytes) = 1
<1>1. kBytes \in Nat /\ kBytes > 0
  BY FsAssumption
<1>2. ASSUME NEW a \in Nat
      PROVE  CeilDiv(a, kBytes) \in Nat /\ CeilDiv(a + kBytes, kBytes) = CeilDiv(a, kBytes) + 1
  <2>1. a + kBytes - 1 \in Nat /\ a + kBytes + kBytes - 1 = (a + kBytes - 1) + kBytes
    BY <1>1
  <2>2. (a + kBytes - 1) \div kBytes \in Nat
    BY <1>1, <2>1, DivNat
  <2>3. ((a + kBytes - 1) + kBytes) \div kBytes = ((a + kBytes - 1) \div kBytes) + 1
    BY <1>1, <2>1, DivPlus
  <2> QED
    BY <2>1, <2>2, <2>3 DEF CeilDiv
<1>3. CeilDiv(0, kBytes) = 0
  <2>1. (kBytes - 1) \div kBytes = 0
    BY <1>1
  <2>2. 0 + kBytes - 1 = kBytes - 1
    BY <1>1
  <2> QED BY <2>1, <2>2 DEF CeilDiv
<1>4. 0 + kBytes = kBytes
  BY <1>1
<1>5. CeilDiv(0 + kBytes, kBytes) = CeilDiv(0, kBytes) + 1
  BY <1>2
<1> QED
  BY <1>2, <1>3, <1>4, <1>5

-----------------------------------------------------------------------------
(* A call on its way keeps the invariant                                   *)

Logged == [d : Disks, hint : Blocks]
Calls == [d : Disks, hint : Blocks, log : Seq(Logged), ok : BOOLEAN, got : Nat]
Fine(c, F) ==
  /\ c \in Calls /\ Good(c.d, F)
  /\ \A k \in DOMAIN c.log : Good(c.log[k].d, F)

\* One more write leaves one more disk behind.
LEMMA PutFine ==
  ASSUME NEW F, NEW c, Fine(c, F), NEW d, c.ok => Good(d, F)
  PROVE  /\ Fine(Put(c, d), F)
         /\ Put(c, d).ok = c.ok /\ Put(c, d).got = c.got /\ Put(c, d).hint = c.hint
         /\ Put(c, d).d = IF c.ok THEN d ELSE c.d
<1> DEFINE e == [d |-> d, hint |-> c.hint]
           r == Put(c, d)
<1>1. c \in Calls /\ c.log \in Seq(Logged) /\ Good(c.d, F) /\ \A k \in DOMAIN c.log : Good(c.log[k].d, F)
  BY DEF Fine, Calls
<1>2. CASE ~c.ok
  BY <1>2, Zenon DEF Put
<1>3. CASE c.ok
  <2>1. r = [c EXCEPT !.d = d, !.log = Append(c.log, e)]
    BY <1>3, Zenon DEF Put
  <2>2. d \in Disks /\ e \in Logged
    BY <1>1, <1>3 DEF Good, Logged, Calls
  <2> DEFINE s == Append(c.log, e)
  <2>3. s \in Seq(Logged) /\ DOMAIN s = 1 .. Len(c.log) + 1
    BY <1>1, <2>2
  <2>4. \A k \in DOMAIN s : Good(s[k].d, F)
    <3> SUFFICES ASSUME NEW k \in DOMAIN s PROVE Good(s[k].d, F)
      OBVIOUS
    <3>1. CASE k \in DOMAIN c.log
      <4>1. s[k] = c.log[k]
        BY <1>1, <2>2, <3>1
      <4> QED BY <1>1, <3>1, <4>1, Zenon
    <3>2. CASE k \notin DOMAIN c.log
      <4>1. s[k] = e /\ e.d = d
        BY <1>1, <2>2, <2>3, <3>2
      <4> QED BY <1>3, <4>1, Zenon
    <3> QED BY <3>1, <3>2
  <2>5. r \in Calls /\ r.d = d /\ r.log = s /\ r.ok = c.ok /\ r.got = c.got /\ r.hint = c.hint
    BY <1>1, <2>1, <2>2, <2>3 DEF Calls
  <2> QED
    BY <1>3, <2>4, <2>5, Zenon DEF Fine
<1> QED
  BY <1>2, <1>3

LEMMA NeedFine ==
  ASSUME NEW F, NEW c, Fine(c, F), NEW x \in BOOLEAN
  PROVE  /\ Fine(Need(c, x), F)
         /\ Need(c, x).ok = (c.ok /\ x)
         /\ Need(c, x).d = c.d /\ Need(c, x).got = c.got /\ Need(c, x).hint = c.hint
         /\ Need(c, x).log = c.log
<1>1. /\ Need(c, x) \in Calls /\ Need(c, x).ok = (c.ok /\ x)
      /\ Need(c, x).d = c.d /\ Need(c, x).got = c.got /\ Need(c, x).hint = c.hint
      /\ Need(c, x).log = c.log
  BY DEF Fine, Calls, Need
<1> QED
  BY <1>1, Zenon DEF Fine

\* Several writes in a row: A[k] is the disk after k of them.
Wrote(c, r, A, n, F) ==
  /\ n \in Nat /\ n > 0 /\ \A k \in 1 .. n : Good(A[k], F)
  /\ r = [c EXCEPT !.d = A[n], !.log = @ \o [k \in 1 .. n |-> [d |-> A[k], hint |-> c.hint]]]

LEMMA LogFine ==
  ASSUME NEW F, NEW c, Fine(c, F), NEW n, NEW A, NEW r, Wrote(c, r, A, n, F)
  PROVE  Fine(r, F) /\ r.ok = c.ok /\ r.got = c.got /\ r.hint = c.hint /\ r.d = A[n]
<1> DEFINE t == [k \in 1 .. n |-> [d |-> A[k], hint |-> c.hint]]
           s == c.log \o t
<1>1. c \in Calls /\ c.log \in Seq(Logged) /\ Good(c.d, F) /\ \A k \in DOMAIN c.log : Good(c.log[k].d, F)
  BY DEF Fine, Calls
<1> n \in Nat /\ n > 0
  BY DEF Wrote
<1>2. \A k \in 1 .. n : A[k] \in Disks /\ Good(A[k], F)
  BY DEF Good, Wrote
<1>3. t \in Seq(Logged) /\ Len(t) = n
  <2>1. \A k \in 1 .. n : t[k] \in Logged
    BY <1>1, <1>2 DEF Logged, Calls
  <2>2. t \in [1 .. n -> Logged]
    BY <2>1
  <2> QED BY <2>2, FnSeq
<1>4. s \in Seq(Logged) /\ DOMAIN s = 1 .. Len(c.log) + n /\ Len(c.log) \in Nat
  BY <1>1, <1>3
<1>5. \A k \in DOMAIN s : Good(s[k].d, F)
  <2> SUFFICES ASSUME NEW k \in DOMAIN s PROVE Good(s[k].d, F)
    OBVIOUS
  <2>1. CASE k \in DOMAIN c.log
    <3>1. s[k] = c.log[k]
      BY <1>1, <1>3, <2>1
    <3> QED BY <1>1, <2>1, <3>1, Zenon
  <2>2. CASE k \notin DOMAIN c.log
    <3>1. k - Len(c.log) \in 1 .. n /\ s[k] = t[k - Len(c.log)]
      BY <1>1, <1>3, <1>4, <2>2
    <3>2. s[k].d = A[k - Len(c.log)]
      BY <3>1
    <3> QED BY <1>2, <3>1, <3>2, Zenon
  <2> QED BY <2>1, <2>2
<1>6. r = [c EXCEPT !.d = A[n], !.log = s]
  BY Zenon DEF Wrote
<1> HIDE DEF s, t
<1>7. A[n] \in Disks
  BY <1>2
<1>8. r \in Calls /\ r.d = A[n] /\ r.log = s /\ r.ok = c.ok /\ r.got = c.got /\ r.hint = c.hint
  BY <1>1, <1>4, <1>6, <1>7 DEF Calls
<1>9. Good(A[n], F)
  BY <1>2
<1> QED
  BY <1>5, <1>8, <1>9, Zenon DEF Fine

-----------------------------------------------------------------------------
(* Blocks, entries and paths                                               *)

LEMMA Sizes ==
  /\ kBlocks \in Nat /\ kBlocks > 1 /\ kInodes \in Nat /\ kInodes > 0
  /\ kExtents \in Nat /\ kExtents > 0 /\ kBytes \in Nat /\ kBytes > 0
  /\ kSlots \in Nat /\ kSlots >= 2 /\ kMaxFd \in Nat /\ MaxSize \in Nat /\ MaxStops \in Nat
  /\ kRootIno \in Inodes
  BY FsAssumption DEF kRootIno, Inodes

LEMMA InBlocksIn ==
  ASSUME NEW s, NEW b
  PROVE  b \in BlocksIn(s) <=> \E k \in DOMAIN s : b \in Run(s[k])
  BY DEF BlocksIn, Run, Range

LEMMA DiskTypes ==
  ASSUME NEW d \in Disks
  PROVE  /\ d.bbm \in SUBSET Blocks /\ d.ibm \in SUBSET Inodes
         /\ d.ino \in [Inodes -> InodeRecs] /\ d.blk \in [Blocks -> DataBlocks \cup DirBlocks]
         /\ d.fb \in Nat /\ d.fi \in Nat
  BY DEF Disks

LEMMA ExtTypes ==
  ASSUME NEW d \in Disks, NEW i \in Inodes
  PROVE  /\ d.ino[i] \in InodeRecs
         /\ d.ino[i].kind \in {"none", "file", "dir"} /\ d.ino[i].size \in Nat
         /\ d.ino[i].ext \in ExtLists /\ d.ino[i].ext \in Seq(Extents)
         /\ Len(d.ino[i].ext) \in Nat /\ Len(d.ino[i].ext) <= kExtents
         /\ DOMAIN d.ino[i].ext = 1 .. Len(d.ino[i].ext)
         /\ \A k \in DOMAIN d.ino[i].ext : d.ino[i].ext[k] \in Extents
<1>1. d.ino[i] \in InodeRecs
  BY DiskTypes
<1>2. d.ino[i].kind \in {"none", "file", "dir"} /\ d.ino[i].size \in Nat /\ d.ino[i].ext \in ExtLists
  BY <1>1 DEF InodeRecs
<1>3. d.ino[i].ext \in Seq(Extents) /\ Len(d.ino[i].ext) <= kExtents
  BY <1>2 DEF ExtLists
<1>4. Len(d.ino[i].ext) \in Nat /\ DOMAIN d.ino[i].ext = 1 .. Len(d.ino[i].ext)
      /\ \A k \in DOMAIN d.ino[i].ext : d.ino[i].ext[k] \in Extents
  BY <1>3
<1> QED
  BY <1>1, <1>2, <1>3, <1>4

LEMMA RunInBlocks ==
  ASSUME NEW e \in Extents
  PROVE  Run(e) \subseteq Blocks /\ e.l \in Nat /\ e.n \in 1 .. kBlocks /\ e.p \in Blocks
         /\ e.p + e.n <= kBlocks
  BY Sizes DEF Extents, Run, Blocks

LEMMA ListInBlocks ==
  ASSUME NEW s \in ExtLists
  PROVE  BlocksIn(s) \subseteq Blocks
<1> SUFFICES ASSUME NEW b \in BlocksIn(s) PROVE b \in Blocks
  OBVIOUS
<1>1. PICK k \in DOMAIN s : b \in Run(s[k])
  BY InBlocksIn
<1>2. s \in Seq(Extents)
  BY DEF ExtLists
<1>3. s[k] \in Extents
  BY <1>2
<1> QED
  BY <1>1, <1>3, RunInBlocks

LEMMA OwnInBlocks ==
  ASSUME NEW d \in Disks, NEW i \in Inodes
  PROVE  Own(d, i) \subseteq Blocks
  BY ExtTypes, ListInBlocks DEF Own

LEMMA EntTypes ==
  ASSUME NEW d \in Disks, NEW i \in Inodes, NEW q \in Spots(d, i)
  PROVE  /\ q[1] \in Own(d, i) /\ q[1] \in Blocks /\ q[2] \in Nat \ {0}
         /\ q = <<q[1], q[2]>> /\ IsDir(d, i)
         /\ q[2] \in DOMAIN d.blk[q[1]].ents
         /\ d.blk[q[1]].ents \in Seq(Entries)
         /\ Ent(d, q) \in Entries
         /\ Ent(d, q).name \in Labels
         /\ Ent(d, q).ino \in 0 .. kInodes /\ Ent(d, q).len \in Nat
<1>1. q[1] \in Own(d, i) /\ q[2] \in Nat \ {0} /\ q[2] \in DOMAIN d.blk[q[1]].ents /\ IsDir(d, i)
      /\ q = <<q[1], q[2]>>
  BY DEF Spots
<1>2. q[1] \in Blocks
  BY <1>1, OwnInBlocks
<1>3. d.blk[q[1]] \in DataBlocks \cup DirBlocks
  BY <1>2, DiskTypes
<1>4. d.blk[q[1]].ents \in Seq(Entries)
  <2>1. <<>> \in Seq(Entries)
    OBVIOUS
  <2> QED BY <1>3, <2>1 DEF DataBlocks, DirBlocks
<1>5. Ent(d, q) \in Entries
  BY <1>1, <1>4 DEF Ent
<1> QED
  BY <1>1, <1>2, <1>4, <1>5 DEF Entries

LEMMA SpotIs ==
  ASSUME NEW d, NEW i, IsDir(d, i), NEW b \in Own(d, i), NEW k \in Nat \ {0},
         k \in DOMAIN d.blk[b].ents
  PROVE  <<b, k>> \in Spots(d, i) /\ Ent(d, <<b, k>>) = d.blk[b].ents[k]
  BY DEF Spots, Ent

\* map_lblock() finds a block of the inode, or none.
LEMMA MapOwn ==
  ASSUME NEW inode, inode.ext \in Seq(Extents), NEW l \in Int
  PROVE  map_lblock(inode, l) = 0 \/ map_lblock(inode, l) \in BlocksIn(inode.ext)
<1> DEFINE s == inode.ext
           hit == {k \in DOMAIN s : l >= s[k].l /\ l < s[k].l + s[k].n}
           m == Min(hit)
<1>1. CASE hit = {}
  BY <1>1 DEF map_lblock
<1>2. CASE hit # {}
  <2>1. hit \subseteq Nat
    OBVIOUS
  <2>2. m \in hit
    BY <1>2, <2>1, MinIn
  <2>3. map_lblock(inode, l) = s[m].p + l - s[m].l
    BY <1>2 DEF map_lblock
  <2> HIDE DEF m
  <2>4. s[m] \in Extents /\ m \in DOMAIN s /\ l >= s[m].l /\ l < s[m].l + s[m].n
    BY <2>2
  <2>5. s[m].p + l - s[m].l \in Run(s[m])
    <3>1. s[m].p \in Nat /\ s[m].l \in Nat /\ s[m].n \in Nat
      BY <2>4, RunInBlocks, Sizes DEF Blocks
    <3>2. \A p, a, n \in Nat : l >= a /\ l < a + n => p + l - a \in p .. p + n - 1
      OBVIOUS
    <3> QED BY <2>4, <3>1, <3>2 DEF Run
  <2> QED
    BY <2>3, <2>4, <2>5, InBlocksIn
<1> QED
  BY <1>1, <1>2

\* In a directory, every block has its own extent.
LEMMA MapDir ==
  ASSUME NEW d \in Disks, NEW i \in Inodes, IsDir(d, i), Shape(d, i)
  PROVE  /\ \A l \in 0 .. NumBlocks(d.ino[i]) - 1 :
              /\ l + 1 \in DOMAIN d.ino[i].ext
              /\ map_lblock(d.ino[i], l) = d.ino[i].ext[l + 1].p
              /\ map_lblock(d.ino[i], l) \in Own(d, i)
         /\ \A b \in Own(d, i) : \E l \in 0 .. NumBlocks(d.ino[i]) - 1 : map_lblock(d.ino[i], l) = b
<1> DEFINE s == d.ino[i].ext
           n == NumBlocks(d.ino[i])
<1>1. s \in Seq(Extents) /\ Len(s) \in Nat /\ DOMAIN s = 1 .. Len(s) /\ n = Len(s)
  BY ExtTypes DEF Shape
<1>2. \A k \in DOMAIN s : s[k].l = k - 1 /\ s[k].n = 1 /\ s[k].p \in Blocks
  BY <1>1, RunInBlocks DEF Shape
<1>3. ASSUME NEW l \in 0 .. n - 1
      PROVE  l + 1 \in DOMAIN s /\ map_lblock(d.ino[i], l) = s[l + 1].p /\ s[l + 1].p \in Own(d, i)
  <2> DEFINE hit == {k \in DOMAIN s : l >= s[k].l /\ l < s[k].l + s[k].n}
             m == Min(hit)
  <2>1. l + 1 \in DOMAIN s
    BY <1>1
  <2>2. hit = {l + 1}
    <3>1. \A k \in DOMAIN s : (l >= s[k].l /\ l < s[k].l + s[k].n) <=> k = l + 1
      <4> SUFFICES ASSUME NEW k \in DOMAIN s
                   PROVE  (l >= s[k].l /\ l < s[k].l + s[k].n) <=> k = l + 1
        OBVIOUS
      <4>1. s[k].l = k - 1 /\ s[k].n = 1 /\ k \in Nat
        BY <1>1, <1>2
      <4> QED BY <4>1
    <3> QED BY <2>1, <3>1
  <2>3. m = l + 1
    <3>1. m \in {l + 1}
      <4>1. {l + 1} \subseteq Nat
        BY <2>1, <1>1
      <4> QED BY <2>2, <4>1, MinIn
    <3> QED BY <3>1
  <2>4. map_lblock(d.ino[i], l) = s[m].p + l - s[m].l
    BY <2>2 DEF map_lblock
  <2>5. s[l + 1].p + l - s[l + 1].l = s[l + 1].p
    BY <1>2, <2>1, Sizes DEF Blocks
  <2>6. s[l + 1].p \in Run(s[l + 1])
    BY <1>2, <2>1, Sizes DEF Run, Blocks
  <2>7. s[l + 1].p \in Own(d, i)
    BY <2>1, <2>6, InBlocksIn DEF Own
  <2> QED
    BY <2>1, <2>3, <2>4, <2>5, <2>7
<1>4. ASSUME NEW b \in Own(d, i)
      PROVE  \E l \in 0 .. n - 1 : map_lblock(d.ino[i], l) = b
  <2>1. PICK k \in DOMAIN s : b \in Run(s[k])
    BY InBlocksIn DEF Own
  <2>2. b = s[k].p
    BY <1>2, <2>1, Sizes DEF Run, Blocks
  <2>3. k - 1 \in 0 .. n - 1 /\ (k - 1) + 1 = k
    BY <1>1
  <2>4. map_lblock(d.ino[i], k - 1) = s[k].p
    BY <1>3, <2>3
  <2> QED
    BY <2>2, <2>3, <2>4
<1> QED
  BY <1>3, <1>4

\* list_dir() shows the entries of the directory.
LEMMA ListDir ==
  ASSUME NEW d \in Disks, NEW i \in Inodes, Shape(d, i)
  PROVE  \A e : e \in list_dir(d, i) <=> e.ino # 0 /\ \E q \in Spots(d, i) : e = Ent(d, q)
<1>1. CASE ~IsDir(d, i)
  BY <1>1 DEF IsDir, list_dir, Spots
<1>2. CASE IsDir(d, i)
  <2> DEFINE L == 0 .. NumBlocks(d.ino[i]) - 1
  <2>1. \A e : e \in list_dir(d, i) <=> e.ino # 0 /\ \E l \in L : e \in Range(EntriesAt(d, i, l))
    BY <1>2 DEF IsDir, list_dir
  <2>2. ASSUME NEW l \in L, NEW e \in Range(EntriesAt(d, i, l))
        PROVE  \E q \in Spots(d, i) : e = Ent(d, q)
    <3> DEFINE b == map_lblock(d.ino[i], l)
    <3>1. b \in Own(d, i) /\ b \in Blocks
      BY <1>2, MapDir, OwnInBlocks
    <3>2. PICK k \in DOMAIN d.blk[b].ents : e = d.blk[b].ents[k]
      BY DEF EntriesAt, Range
    <3>3. k \in Nat \ {0}
      <4>1. d.blk[b] \in DataBlocks \cup DirBlocks
        BY <3>1, DiskTypes
      <4>2. d.blk[b].ents \in Seq(Entries)
        BY <4>1, EmptySeq DEF DataBlocks, DirBlocks
      <4> QED BY <4>2
    <3>4. <<b, k>> \in Spots(d, i) /\ Ent(d, <<b, k>>) = e
      BY <1>2, <3>1, <3>2, <3>3, SpotIs
    <3> QED
      BY <3>4
  <2>3. ASSUME NEW q \in Spots(d, i)
        PROVE  \E l \in L : Ent(d, q) \in Range(EntriesAt(d, i, l))
    <3>1. PICK l \in L : map_lblock(d.ino[i], l) = q[1]
      BY <1>2, EntTypes, MapDir
    <3>2. q[2] \in DOMAIN d.blk[q[1]].ents
      BY EntTypes
    <3> QED
      BY <3>1, <3>2 DEF EntriesAt, Range, Ent
  <2> QED
    BY <2>1, <2>2, <2>3
<1> QED
  BY <1>1, <1>2

\* A step down a path goes where an entry of that name says.
LEMMA ChildIs ==
  ASSUME NEW d \in Disks, NEW i \in Inodes, Shape(d, i), NEW name
  PROVE  /\ \A q \in Spots(d, i) :
              Ent(d, q).name = name /\ Ent(d, q).ino # 0 => Child(d, i, name) = Ent(d, q).ino
         /\ Child(d, i, name) # 0 =>
              \E q \in Spots(d, i) : Ent(d, q).name = name /\ Ent(d, q).ino = Child(d, i, name)
<1> DEFINE hit == {e \in list_dir(d, i) : e.name = name}
<1>1. i # 0
  BY DEF Inodes
<1>2. ASSUME hit # {}
      PROVE  \E q \in Spots(d, i) : /\ Ent(d, q).name = name /\ Ent(d, q).ino = Child(d, i, name)
                                    /\ Ent(d, q).ino # 0
  <2>1. Child(d, i, name) = (CHOOSE e \in hit : TRUE).ino
    BY <1>1, <1>2 DEF Child
  <2> DEFINE e == CHOOSE x \in hit : TRUE
  <2>2. e \in hit
    BY <1>2
  <2>3. e \in list_dir(d, i) /\ e.name = name
    BY <2>2
  <2>4. e.ino # 0 /\ \E q \in Spots(d, i) : e = Ent(d, q)
    BY <2>3, ListDir
  <2> QED
    BY <2>1, <2>3, <2>4
<1>3. ASSUME NEW q \in Spots(d, i), Ent(d, q).name = name, Ent(d, q).ino # 0
      PROVE  Child(d, i, name) = Ent(d, q).ino
  <2>1. Ent(d, q) \in hit
    BY <1>3, ListDir
  <2>2. PICK r \in Spots(d, i) : Ent(d, r).name = name /\ Ent(d, r).ino = Child(d, i, name)
    BY <1>2, <2>1
  <2>3. IsDir(d, i)
    BY EntTypes
  <2>4. r = q
    BY <1>3, <2>2, <2>3 DEF Shape
  <2> QED
    BY <2>2, <2>4
<1>4. ASSUME Child(d, i, name) # 0
      PROVE  hit # {}
  BY <1>4 DEF Child
<1> QED
  BY <1>2, <1>3, <1>4

\* lookup_abs() goes down from the root, a name at a time.
LEMMA LookupDown ==
  ASSUME NEW d, NEW p, NEW g,
         g = [n \in 0 .. Len(p) |-> IF n = 0 THEN kRootIno ELSE Child(d, g[n - 1], p[n])]
  PROVE  \E h : /\ h = [n \in 0 .. Len(p) |-> IF n = 0 THEN kRootIno ELSE Child(d, h[n - 1], p[n])]
                /\ lookup_abs(d, p) = h[Len(p)]
<1> DEFINE h == CHOOSE f : f = [n \in 0 .. Len(p) |-> IF n = 0 THEN kRootIno ELSE Child(d, f[n - 1], p[n])]
<1>1. h = [n \in 0 .. Len(p) |-> IF n = 0 THEN kRootIno ELSE Child(d, h[n - 1], p[n])]
  BY Zenon
<1>2. lookup_abs(d, p) = h[Len(p)]
  BY Zenon DEF lookup_abs
<1> QED
  BY <1>1, <1>2, Zenon

LEMMA LookupRoot ==
  ASSUME NEW d
  PROVE  lookup_abs(d, <<>>) = kRootIno
<1> DEFINE p == <<>>
           g == [n \in 0 .. 0 |-> kRootIno]
<1>1. Len(p) = 0
  OBVIOUS
<1>2. g = [n \in 0 .. Len(p) |-> IF n = 0 THEN kRootIno ELSE Child(d, g[n - 1], p[n])]
  BY <1>1
<1> HIDE DEF g, p
<1>3. PICK h : /\ h = [n \in 0 .. Len(p) |-> IF n = 0 THEN kRootIno ELSE Child(d, h[n - 1], p[n])]
               /\ lookup_abs(d, p) = h[Len(p)]
  BY <1>2, LookupDown, Zenon
<1>4. h[0] = kRootIno
  BY <1>1, <1>3
<1> QED
  BY <1>1, <1>3, <1>4 DEF p

LEMMA LookupTop ==
  ASSUME NEW d, NEW a
  PROVE  lookup_abs(d, <<a>>) = Child(d, kRootIno, a)
<1> DEFINE p == <<a>>
           g == [n \in 0 .. 1 |-> IF n = 0 THEN kRootIno ELSE Child(d, kRootIno, a)]
<1>1. Len(p) = 1 /\ p[1] = a
  OBVIOUS
<1>2. g[0] = kRootIno
  OBVIOUS
<1>3. g = [n \in 0 .. Len(p) |-> IF n = 0 THEN kRootIno ELSE Child(d, g[n - 1], p[n])]
  <2>1. ASSUME NEW n \in 0 .. 1
        PROVE  g[n] = IF n = 0 THEN kRootIno ELSE Child(d, g[n - 1], p[n])
    BY <1>1, <1>2
  <2> QED BY <1>1, <2>1
<1> HIDE DEF g, p
<1>4. PICK h : /\ h = [n \in 0 .. Len(p) |-> IF n = 0 THEN kRootIno ELSE Child(d, h[n - 1], p[n])]
               /\ lookup_abs(d, p) = h[Len(p)]
  BY <1>3, LookupDown, Zenon
<1>5. h[0] = kRootIno
  BY <1>1, <1>4
<1>6. h[1] = Child(d, h[0], p[1])
  BY <1>1, <1>4
<1> QED
  BY <1>1, <1>4, <1>5, <1>6 DEF p

LEMMA LookupSub ==
  ASSUME NEW d, NEW a, NEW b
  PROVE  lookup_abs(d, <<a, b>>) = Child(d, Child(d, kRootIno, a), b)
<1> DEFINE p == <<a, b>>
           one == Child(d, kRootIno, a)
           two == Child(d, one, b)
           g == [n \in 0 .. 2 |-> IF n = 0 THEN kRootIno ELSE IF n = 1 THEN one ELSE two]
<1>1. Len(p) = 2 /\ p[1] = a /\ p[2] = b
  OBVIOUS
<1>2. g[0] = kRootIno /\ g[1] = one
  OBVIOUS
<1>3. g = [n \in 0 .. Len(p) |-> IF n = 0 THEN kRootIno ELSE Child(d, g[n - 1], p[n])]
  <2>1. ASSUME NEW n \in 0 .. 2
        PROVE  g[n] = IF n = 0 THEN kRootIno ELSE Child(d, g[n - 1], p[n])
    <3>1. n = 0 \/ n = 1 \/ n = 2
      OBVIOUS
    <3> QED BY <1>1, <1>2, <3>1
  <2> QED BY <1>1, <2>1
<1> HIDE DEF g, p
<1>4. PICK h : /\ h = [n \in 0 .. Len(p) |-> IF n = 0 THEN kRootIno ELSE Child(d, h[n - 1], p[n])]
               /\ lookup_abs(d, p) = h[Len(p)]
  BY <1>3, LookupDown, Zenon
<1>5. h[0] = kRootIno
  BY <1>1, <1>4
<1>6. h[1] = Child(d, h[0], p[1])
  BY <1>1, <1>4
<1>7. h[2] = Child(d, h[1], p[2])
  BY <1>1, <1>4
<1> QED
  BY <1>1, <1>4, <1>5, <1>6, <1>7 DEF p

LEMMA PathEnds ==
  /\ \A a : Front(<<a>>) = <<>> /\ Last(<<a>>) = a
  /\ \A a, b : Front(<<a, b>>) = <<a>> /\ Last(<<a, b>>) = b
<1>1. ASSUME NEW a PROVE Front(<<a>>) = <<>> /\ Last(<<a>>) = a
  BY DEF Front, Last
<1>2. ASSUME NEW a, NEW b PROVE Front(<<a, b>>) = <<a>> /\ Last(<<a, b>>) = b
  <2> DEFINE p == <<a, b>>
  <2>1. p \in Seq({a, b}) /\ Len(p) = 2 /\ p[1] = a /\ p[2] = b
    OBVIOUS
  <2>2. Last(p) = b
    BY <2>1 DEF Last
  <2>3. Front(p) = SubSeq(p, 1, 1)
    BY <2>1 DEF Front
  <2>4. /\ SubSeq(p, 1, 1) \in Seq({a, b}) /\ Len(SubSeq(p, 1, 1)) = 1
        /\ SubSeq(p, 1, 1)[1] = a
    BY <2>1
  <2>5. SubSeq(p, 1, 1) = <<a>>
    <3> DEFINE t == SubSeq(p, 1, 1)
               u == <<a>>
    <3>1. u \in Seq({a, b}) /\ Len(u) = 1 /\ u[1] = a
      OBVIOUS
    <3> HIDE DEF t, u, p
    <3>2. t \in Seq({a, b}) /\ Len(t) = 1 /\ t[1] = a
      BY <2>4 DEF t
    <3>3. \A k \in 1 .. Len(t) : t[k] = u[k]
      BY <3>1, <3>2
    <3>4. t = u
      BY <3>1, <3>2, <3>3, SeqEqual
    <3> QED BY <3>4 DEF t, u
  <2> QED
    BY <2>2, <2>3, <2>5
<1> QED
  BY <1>1, <1>2

LEMMA LinkedFacts ==
  ASSUME NEW d \in Disks, Rooted(d)
  PROVE  /\ kRootIno \in Near(d) /\ Near(d) \subseteq Linked(d) /\ Linked(d) \subseteq d.ibm
         /\ Linked(d) \subseteq Inodes /\ 0 \notin Linked(d)
         /\ \A i \in Near(d) : Kids(d, i) \subseteq Linked(d)
         /\ \A i \in Linked(d) : Shape(d, i) /\ d.ino[i].kind # "none"
<1>1. d.ibm \subseteq Inodes /\ 0 \notin Inodes
  BY DiskTypes DEF Inodes
<1>2. /\ kRootIno \in Near(d) /\ Near(d) \subseteq Linked(d)
      /\ \A i \in Near(d) : Kids(d, i) \subseteq Linked(d)
  BY DEF Near, Linked
<1>3. \A i \in Linked(d) : i \in d.ibm /\ d.ino[i].kind # "none" /\ Shape(d, i)
  BY DEF Rooted
<1> QED
  BY <1>1, <1>2, <1>3

LEMMA NamedIs ==
  ASSUME NEW d, NEW i, NEW q
  PROVE  q \in Named(d, i) <=> q \in Spots(d, i) /\ Ent(d, q).name \in Names
  BY DEF Named

LEMMA KidsIs ==
  ASSUME NEW d, NEW i, NEW j
  PROVE  j \in Kids(d, i) <=> \E q \in Named(d, i) : j = Ent(d, q).ino
  BY DEF Kids

\* One step from a directory near the root.
LEMMA ChildNear ==
  ASSUME NEW d \in Disks, Rooted(d), NEW i \in Near(d), NEW name \in Names
  PROVE  /\ Child(d, i, name) # 0 =>
              /\ Child(d, i, name) \in Kids(d, i)
              /\ \E q \in Named(d, i) : Ent(d, q).name = name /\ Ent(d, q).ino = Child(d, i, name)
         /\ \A q \in Named(d, i) : Ent(d, q).name = name => Child(d, i, name) = Ent(d, q).ino
<1>1. i \in Inodes /\ Shape(d, i) /\ Kids(d, i) \subseteq Linked(d) /\ 0 \notin Linked(d)
  BY LinkedFacts
<1>2. ASSUME Child(d, i, name) # 0
      PROVE  /\ Child(d, i, name) \in Kids(d, i)
             /\ \E q \in Named(d, i) : Ent(d, q).name = name /\ Ent(d, q).ino = Child(d, i, name)
  <2>1. PICK q \in Spots(d, i) : Ent(d, q).name = name /\ Ent(d, q).ino = Child(d, i, name)
    BY <1>1, <1>2, ChildIs
  <2>2. q \in Named(d, i)
    BY <2>1, NamedIs
  <2> QED
    BY <2>1, <2>2, KidsIs
<1>3. ASSUME NEW q \in Named(d, i), Ent(d, q).name = name
      PROVE  Child(d, i, name) = Ent(d, q).ino
  <2>1. q \in Spots(d, i) /\ Ent(d, q).ino # 0
    BY <1>1, NamedIs, KidsIs
  <2> QED
    BY <1>1, <1>3, <2>1, ChildIs
<1> QED
  BY <1>2, <1>3

LEMMA PathIs ==
  ASSUME NEW path \in Paths
  PROVE  /\ \/ \E a \in Tops : path = <<a>>
            \/ \E a \in Homes, b \in Subs : path = <<a, b>>
         /\ Last(path) \in Names
<1>1. \/ \E a \in Tops : path = <<a>>
      \/ \E a \in Homes, b \in Subs : path = <<a, b>>
  BY DEF Paths
<1>2. ASSUME NEW a \in Tops, path = <<a>> PROVE Last(path) \in Names
  <2>1. Last(<<a>>) = a
    BY PathEnds
  <2> QED BY <1>2, <2>1 DEF Names
<1>3. ASSUME NEW a \in Homes, NEW b \in Subs, path = <<a, b>> PROVE Last(path) \in Names
  <2>1. Last(<<a, b>>) = b
    BY PathEnds
  <2> QED BY <1>3, <2>1 DEF Names
<1> QED
  BY <1>1, <1>2, <1>3

\* The last step of a path is a step from its parent.
LEMMA LookupLast ==
  ASSUME NEW d, NEW path \in Paths
  PROVE  lookup_abs(d, path) = Child(d, lookup_abs(d, Front(path)), Last(path))
<1>1. ASSUME NEW a \in Tops, path = <<a>>
      PROVE  lookup_abs(d, path) = Child(d, lookup_abs(d, Front(path)), Last(path))
  <2>1. Front(path) = <<>> /\ Last(path) = a
    BY <1>1, PathEnds
  <2>2. lookup_abs(d, path) = Child(d, kRootIno, a)
    BY <1>1, LookupTop
  <2>3. lookup_abs(d, Front(path)) = kRootIno
    BY <2>1, LookupRoot
  <2> QED BY <2>1, <2>2, <2>3
<1>2. ASSUME NEW a \in Homes, NEW b \in Subs, path = <<a, b>>
      PROVE  lookup_abs(d, path) = Child(d, lookup_abs(d, Front(path)), Last(path))
  <2>1. Front(path) = <<a>> /\ Last(path) = b
    BY <1>2, PathEnds
  <2>2. lookup_abs(d, path) = Child(d, Child(d, kRootIno, a), b)
    BY <1>2, LookupSub
  <2>3. lookup_abs(d, Front(path)) = Child(d, kRootIno, a)
    BY <2>1, LookupTop
  <2> QED BY <2>1, <2>2, <2>3
<1> QED
  BY <1>1, <1>2, PathIs

LEMMA ParentNear ==
  ASSUME NEW d \in Disks, Rooted(d), NEW path \in Paths
  PROVE  lookup_abs(d, Front(path)) = 0 \/ lookup_abs(d, Front(path)) \in Near(d)
<1>1. ASSUME NEW a \in Tops, path = <<a>>
      PROVE  lookup_abs(d, Front(path)) \in Near(d)
  <2>1. lookup_abs(d, Front(path)) = kRootIno
    BY <1>1, PathEnds, LookupRoot
  <2> QED BY <2>1, LinkedFacts
<1>2. ASSUME NEW a \in Homes, NEW b \in Subs, path = <<a, b>>
      PROVE  lookup_abs(d, Front(path)) = 0 \/ lookup_abs(d, Front(path)) \in Near(d)
  <2>1. lookup_abs(d, Front(path)) = Child(d, kRootIno, a)
    BY <1>2, PathEnds, LookupTop
  <2>2. a \in Names /\ kRootIno \in Near(d)
    BY NamesAssumption, LinkedFacts DEF Names
  <2>3. Child(d, kRootIno, a) # 0 => Child(d, kRootIno, a) \in Kids(d, kRootIno)
    BY <2>2, ChildNear
  <2> QED BY <2>1, <2>3 DEF Near
<1> QED
  BY <1>1, <1>2, PathIs

LEMMA LookupIn ==
  ASSUME NEW d \in Disks, Rooted(d), NEW path \in Paths,
         NEW up, up = lookup_abs(d, Front(path)), NEW i, i = lookup_abs(d, path)
  PROVE  /\ up = 0 => i = 0
         /\ up # 0 => up \in Near(d)
         /\ i # 0 => /\ up \in Near(d) /\ i \in Linked(d)
                     /\ \E q \in Named(d, up) : Ent(d, q).name = Last(path) /\ Ent(d, q).ino = i
         /\ up # 0 => \A q \in Named(d, up) : Ent(d, q).name = Last(path) => i = Ent(d, q).ino
<1>1. Last(path) \in Names /\ i = Child(d, up, Last(path)) /\ (up # 0 => up \in Near(d))
  BY PathIs, LookupLast, ParentNear
<1>2. up = 0 => i = 0
  BY <1>1 DEF Child
<1>3. ASSUME up # 0
      PROVE /\ i # 0 => /\ i \in Kids(d, up)
                        /\ \E q \in Named(d, up) : Ent(d, q).name = Last(path) /\ Ent(d, q).ino = i
            /\ \A q \in Named(d, up) : Ent(d, q).name = Last(path) => i = Ent(d, q).ino
  BY <1>1, <1>3, ChildNear
<1>4. up # 0 => Kids(d, up) \subseteq Linked(d)
  BY <1>1, LinkedFacts
<1> QED
  BY <1>1, <1>2, <1>3, <1>4

-----------------------------------------------------------------------------
(* A step that adds no entry                                               *)

\* Every entry of d2 was there before, and only names are gone.
Embeds(d, d2, i) ==
  \E o \in [Spots(d2, i) -> Spots(d, i)] :
    /\ \A q \in Spots(d2, i) : /\ Ent(d2, q).name = Ent(d, o[q]).name
                               /\ Ent(d2, q).ino = Ent(d, o[q]).ino
    /\ \A q, r \in Spots(d2, i) : o[q] = o[r] => q = r
    /\ \A q \in Spots(d, i) \ Named(d, i) : \E r \in Spots(d2, i) : o[r] = q

LEMMA EmbedsNamed ==
  ASSUME NEW d, NEW d2, NEW i, Embeds(d, d2, i)
  PROVE  Kids(d2, i) \subseteq Kids(d, i) /\ (Named(d, i) = {} => Named(d2, i) = {})
<1>1. PICK o \in [Spots(d2, i) -> Spots(d, i)] :
        \A q \in Spots(d2, i) : /\ Ent(d2, q).name = Ent(d, o[q]).name
                                /\ Ent(d2, q).ino = Ent(d, o[q]).ino
  BY DEF Embeds
<1>2. \A q \in Named(d2, i) : o[q] \in Named(d, i) /\ Ent(d2, q).ino = Ent(d, o[q]).ino
  BY <1>1, NamedIs
<1> QED
  BY <1>2, KidsIs

LEMMA EmbedsUp ==
  ASSUME NEW d, NEW d2, NEW i, NEW up, Embeds(d, d2, i), Up(d, i, up), IsDir(d2, i) => IsDir(d, i)
  PROVE  Up(d2, i, up)
<1> SUFFICES ASSUME IsDir(d2, i) PROVE Up(d2, i, up)
  BY DEF Up
<1>1. PICK o \in [Spots(d2, i) -> Spots(d, i)] :
        /\ \A q \in Spots(d2, i) : /\ Ent(d2, q).name = Ent(d, o[q]).name
                                   /\ Ent(d2, q).ino = Ent(d, o[q]).ino
        /\ \A q \in Spots(d, i) \ Named(d, i) : \E r \in Spots(d2, i) : o[r] = q
  BY DEF Embeds
<1>2. /\ \E q \in Spots(d, i) : Ent(d, q).name = ".."
      /\ \A q \in Spots(d, i) \ Named(d, i) :
           \/ Ent(d, q).name = "." /\ Ent(d, q).ino = i
           \/ Ent(d, q).name = ".." /\ Ent(d, q).ino = up
  BY DEF Up
<1>3. \E q \in Spots(d2, i) : Ent(d2, q).name = ".."
  <2>1. PICK q \in Spots(d, i) : Ent(d, q).name = ".."
    BY <1>2
  <2>2. q \notin Named(d, i)
    BY <2>1, NamedIs, NamesAssumption DEF Names
  <2>3. PICK r \in Spots(d2, i) : o[r] = q
    BY <1>1, <2>2
  <2> QED BY <1>1, <2>1, <2>3
<1>4. ASSUME NEW q \in Spots(d2, i) \ Named(d2, i)
      PROVE  \/ Ent(d2, q).name = "." /\ Ent(d2, q).ino = i
             \/ Ent(d2, q).name = ".." /\ Ent(d2, q).ino = up
  <2>1. o[q] \in Spots(d, i) \ Named(d, i)
    BY <1>1, NamedIs
  <2> QED BY <1>1, <1>2, <2>1
<1> QED
  BY <1>3, <1>4 DEF Up

LEMMA LinkedStep ==
  ASSUME NEW d, NEW d2, \A i \in Linked(d) : Embeds(d, d2, i)
  PROVE  Near(d2) \subseteq Near(d) /\ Linked(d2) \subseteq Linked(d)
         /\ \A i \in Linked(d) : Kids(d2, i) \subseteq Kids(d, i)
<1>1. \A i \in Linked(d) : Kids(d2, i) \subseteq Kids(d, i)
  BY EmbedsNamed
<1>2. kRootIno \in Linked(d) /\ Kids(d, kRootIno) \subseteq Linked(d)
  BY DEF Linked, Near
<1>3. Kids(d2, kRootIno) \subseteq Kids(d, kRootIno)
  BY <1>1, <1>2
<1>4. \A i \in Kids(d2, kRootIno) : Kids(d2, i) \subseteq Kids(d, i)
  BY <1>1, <1>2, <1>3
<1> QED
  BY <1>1, <1>3, <1>4 DEF Near, Linked

LEMMA RootedStep ==
  ASSUME NEW d \in Disks, NEW d2 \in Disks, Rooted(d),
         \A i \in Linked(d) : Embeds(d, d2, i) /\ Shape(d2, i) /\ d2.ino[i].kind = d.ino[i].kind,
         Linked(d2) \subseteq d2.ibm
  PROVE  Rooted(d2) /\ Linked(d2) \subseteq Linked(d) /\ Near(d2) \subseteq Near(d)
<1>1. /\ Near(d2) \subseteq Near(d) /\ Linked(d2) \subseteq Linked(d)
      /\ \A i \in Linked(d) : Kids(d2, i) \subseteq Kids(d, i)
  BY LinkedStep
<1>2. /\ Near(d) \subseteq Linked(d) /\ kRootIno \in Near(d) /\ Kids(d, kRootIno) \subseteq Near(d)
      /\ \A i \in Near(d) : Kids(d, i) \subseteq Linked(d)
  BY DEF Near, Linked
<1>3. \A i \in Linked(d2) : i \in d2.ibm /\ d2.ino[i].kind # "none" /\ Shape(d2, i)
  BY <1>1 DEF Rooted
<1>4. \A i \in Near(d2) : kRootIno \notin Kids(d2, i)
  BY <1>1, <1>2 DEF Rooted
<1>5. ASSUME NEW i \in Near(d2), NEW j \in Near(d2), NEW q \in Named(d2, i), NEW r \in Named(d2, j),
             Ent(d2, q).ino = Ent(d2, r).ino
      PROVE  i = j /\ q = r
  <2>1. i \in Near(d) /\ j \in Near(d) /\ i \in Linked(d) /\ j \in Linked(d)
    BY <1>1, <1>2
  <2>2. PICK o \in [Spots(d2, i) -> Spots(d, i)] :
          /\ \A x \in Spots(d2, i) : /\ Ent(d2, x).name = Ent(d, o[x]).name
                                     /\ Ent(d2, x).ino = Ent(d, o[x]).ino
          /\ \A x, y \in Spots(d2, i) : o[x] = o[y] => x = y
    BY <2>1 DEF Embeds
  <2>3. PICK u \in [Spots(d2, j) -> Spots(d, j)] :
          /\ \A x \in Spots(d2, j) : /\ Ent(d2, x).name = Ent(d, u[x]).name
                                     /\ Ent(d2, x).ino = Ent(d, u[x]).ino
    BY <2>1 DEF Embeds
  <2>4. q \in Spots(d2, i) /\ r \in Spots(d2, j) /\ Ent(d2, q).name \in Names /\ Ent(d2, r).name \in Names
    BY NamedIs
  <2>5. o[q] \in Named(d, i) /\ u[r] \in Named(d, j) /\ Ent(d, o[q]).ino = Ent(d, u[r]).ino
    BY <1>5, <2>2, <2>3, <2>4, NamedIs
  <2>6. i = j
    BY <2>1, <2>5 DEF Rooted
  <2>7. o[r] \in Named(d, i) /\ Ent(d, o[q]).ino = Ent(d, o[r]).ino /\ r \in Spots(d2, i)
    BY <1>5, <2>2, <2>4, <2>6, NamedIs
  <2>8. o[q] = o[r]
    BY <2>1, <2>5, <2>7 DEF Rooted
  <2> QED
    BY <2>2, <2>4, <2>6, <2>7, <2>8
<1>6. \A i \in Kids(d2, kRootIno) : \A j \in Kids(d2, i) : Named(d2, j) = {}
  <2> SUFFICES ASSUME NEW i \in Kids(d2, kRootIno), NEW j \in Kids(d2, i) PROVE Named(d2, j) = {}
    OBVIOUS
  <2>1. i \in Kids(d, kRootIno) /\ i \in Near(d)
    BY <1>1, <1>2
  <2>2. j \in Kids(d, i) /\ j \in Linked(d)
    BY <1>1, <1>2, <2>1
  <2>3. Named(d, j) = {}
    BY <2>1, <2>2 DEF Rooted
  <2> QED BY <2>2, <2>3, EmbedsNamed
<1>7. IsDir(d2, kRootIno) /\ Up(d2, kRootIno, kRootIno)
  <2>1. IsDir(d, kRootIno) /\ Up(d, kRootIno, kRootIno) /\ kRootIno \in Linked(d)
    BY <1>2 DEF Rooted
  <2> QED BY <2>1, EmbedsUp DEF IsDir
<1>8. ASSUME NEW i \in Near(d2), NEW j \in Kids(d2, i)
      PROVE  Up(d2, j, i)
  <2>1. i \in Near(d) /\ j \in Kids(d, i) /\ j \in Linked(d)
    BY <1>1, <1>2
  <2>2. Up(d, j, i)
    BY <2>1 DEF Rooted
  <2> QED BY <2>1, <2>2, EmbedsUp DEF IsDir
<1> QED
  BY <1>1, <1>3, <1>4, <1>5, <1>6, <1>7, <1>8 DEF Rooted

\* What a directory looks like depends on its inode and its blocks.
LEMMA SameDir ==
  ASSUME NEW d, NEW d2, NEW i, d2.ino[i].kind = d.ino[i].kind,
         IsDir(d, i) => d2.ino[i] = d.ino[i] /\ \A b \in Own(d, i) : d2.blk[b] = d.blk[b]
  PROVE  /\ Spots(d2, i) = Spots(d, i) /\ \A q \in Spots(d, i) : Ent(d2, q) = Ent(d, q)
         /\ Named(d2, i) = Named(d, i) /\ Kids(d2, i) = Kids(d, i)
         /\ Embeds(d, d2, i) /\ (Shape(d, i) => Shape(d2, i))
<1>1. CASE ~IsDir(d, i)
  <2>1. ~IsDir(d2, i)
    BY <1>1 DEF IsDir
  <2>2. Spots(d, i) = {} /\ Spots(d2, i) = {}
    BY <1>1, <2>1 DEF Spots
  <2>3. Named(d, i) = {} /\ Named(d2, i) = {}
    BY <2>2 DEF Named
  <2>4. Kids(d, i) = {} /\ Kids(d2, i) = {}
    BY <2>3 DEF Kids
  <2>5. Embeds(d, d2, i)
    <3>1. [q \in Spots(d2, i) |-> q] \in [Spots(d2, i) -> Spots(d, i)]
      BY <2>2
    <3> QED BY <2>2, <3>1 DEF Embeds
  <2> QED
    BY <2>1, <2>2, <2>3, <2>4, <2>5 DEF Shape
<1>2. CASE IsDir(d, i)
  <2>1. IsDir(d2, i) /\ d2.ino[i] = d.ino[i] /\ \A b \in Own(d, i) : d2.blk[b] = d.blk[b]
    BY <1>2 DEF IsDir
  <2>2. Own(d2, i) = Own(d, i)
    BY <2>1 DEF Own
  <2>3. Spots(d2, i) = Spots(d, i)
    BY <1>2, <2>1, <2>2 DEF Spots
  <2>4. \A q \in Spots(d, i) : q[1] \in Own(d, i)
    BY DEF Spots
  <2>5. \A q \in Spots(d, i) : Ent(d2, q) = Ent(d, q)
    BY <2>1, <2>4 DEF Ent
  <2>6. Named(d2, i) = Named(d, i)
    BY <2>3, <2>5 DEF Named
  <2>7. Kids(d2, i) = Kids(d, i)
    <3>1. \A q \in Named(d, i) : Ent(d2, q) = Ent(d, q)
      BY <2>5, NamedIs
    <3> QED BY <2>6, <3>1 DEF Kids
  <2>8. Embeds(d, d2, i)
    <3> DEFINE o == [q \in Spots(d2, i) |-> q]
    <3>1. o \in [Spots(d2, i) -> Spots(d, i)] /\ \A q \in Spots(d2, i) : o[q] = q
      BY <2>3
    <3> HIDE DEF o
    <3> QED BY <2>3, <2>5, <3>1 DEF Embeds
  <2>9. ASSUME Shape(d, i) PROVE Shape(d2, i)
    <3>1. /\ NumBlocks(d.ino[i]) = Len(d.ino[i].ext)
          /\ \A k \in DOMAIN d.ino[i].ext : d.ino[i].ext[k].l = k - 1 /\ d.ino[i].ext[k].n = 1
          /\ \A b \in Own(d, i) : /\ d.blk[b].use = "dir" /\ d.blk[b].ents # <<>>
                                  /\ Room(d.blk[b].ents) = kSlots
          /\ \A q, r \in Spots(d, i) : Ent(d, q).name = Ent(d, r).name => q = r
      BY <1>2, <2>9 DEF Shape
    <3>2. \A q, r \in Spots(d2, i) : Ent(d2, q).name = Ent(d2, r).name => q = r
      BY <2>3, <2>5, <3>1
    <3>3. \A b \in Own(d2, i) : /\ d2.blk[b].use = "dir" /\ d2.blk[b].ents # <<>>
                                /\ Room(d2.blk[b].ents) = kSlots
      BY <2>1, <2>2, <3>1
    <3> QED BY <2>1, <3>1, <3>2, <3>3, Zenon DEF Shape
  <2> QED
    BY <2>3, <2>5, <2>6, <2>7, <2>8, <2>9
<1> QED
  BY <1>1, <1>2

Kept(d, d2) ==
  \A i \in Linked(d) :
    /\ d2.ino[i].kind = d.ino[i].kind
    /\ IsDir(d, i) => d2.ino[i] = d.ino[i] /\ \A b \in Own(d, i) : d2.blk[b] = d.blk[b]

LEMMA RootedKept ==
  ASSUME NEW d \in Disks, NEW d2 \in Disks, Rooted(d), Kept(d, d2), Linked(d) \subseteq d2.ibm
  PROVE  /\ Rooted(d2) /\ Linked(d2) = Linked(d) /\ Near(d2) = Near(d)
         /\ \A i \in Linked(d) : /\ Spots(d2, i) = Spots(d, i) /\ Named(d2, i) = Named(d, i)
                                 /\ Kids(d2, i) = Kids(d, i)
                                 /\ \A q \in Spots(d, i) : Ent(d2, q) = Ent(d, q)
<1>1. \A i \in Linked(d) : /\ Spots(d2, i) = Spots(d, i) /\ Named(d2, i) = Named(d, i)
                           /\ Kids(d2, i) = Kids(d, i) /\ Embeds(d, d2, i)
                           /\ (Shape(d, i) => Shape(d2, i))
                           /\ \A q \in Spots(d, i) : Ent(d2, q) = Ent(d, q)
  BY SameDir DEF Kept
<1>2. Near(d2) = Near(d) /\ Linked(d2) = Linked(d)
  <2>1. kRootIno \in Linked(d) /\ Kids(d, kRootIno) \subseteq Linked(d)
    BY DEF Linked, Near
  <2>2. Kids(d2, kRootIno) = Kids(d, kRootIno) /\ \A i \in Kids(d, kRootIno) : Kids(d2, i) = Kids(d, i)
    BY <1>1, <2>1
  <2> QED BY <2>2 DEF Near, Linked
<1>3. \A i \in Linked(d) : Embeds(d, d2, i) /\ Shape(d2, i) /\ d2.ino[i].kind = d.ino[i].kind
  BY <1>1, LinkedFacts DEF Kept
<1>4. Rooted(d2)
  BY <1>2, <1>3, RootedStep
<1> QED
  BY <1>1, <1>2, <1>4

-----------------------------------------------------------------------------
(* Whose block it is                                                       *)

\* Of the inodes of S2 only x has other blocks than before.
Moves(d, d2, S, S2, x) ==
  /\ S2 \subseteq S \cup {x}
  /\ \A i \in S2 \ {x} : d2.ino[i].ext = d.ino[i].ext /\ Own(d, i) \subseteq d2.bbm
  /\ x \in S2 => Sound(d2, x) /\ \A i \in S2 \ {x} : Own(d2, x) \cap Own(d, i) = {}

LEMMA SpreadStep ==
  ASSUME NEW d, NEW d2, NEW S, NEW S2, NEW x, Spread(d, S), Moves(d, d2, S, S2, x)
  PROVE  Spread(d2, S2)
<1> USE DEF Moves
<1>1. \A i \in S2 \ {x} : i \in S /\ Own(d2, i) = Own(d, i)
  BY DEF Own
<1>2. ASSUME NEW i \in S2 PROVE Sound(d2, i)
  <2>1. CASE i = x
    BY <2>1
  <2>2. CASE i # x
    <3>1. Sound(d, i) /\ d2.ino[i].ext = d.ino[i].ext /\ Own(d2, i) = Own(d, i) /\ Own(d, i) \subseteq d2.bbm
      BY <1>1, <2>2 DEF Spread
    <3> QED BY <3>1 DEF Sound
  <2> QED BY <2>1, <2>2
<1>3. ASSUME NEW i \in S2, NEW j \in S2, i # j PROVE Own(d2, i) \cap Own(d2, j) = {}
  <2>1. CASE i = x
    BY <1>1, <1>3, <2>1
  <2>2. CASE j = x
    BY <1>1, <1>3, <2>2
  <2>3. CASE i # x /\ j # x
    BY <1>1, <1>3, <2>3 DEF Spread
  <2> QED BY <2>1, <2>2, <2>3
<1> QED
  BY <1>2, <1>3 DEF Spread

\* The same inodes and blocks that are not in anybody's way.
LEMMA GoodKept ==
  ASSUME NEW F, NEW d, Good(d, F), NEW d2 \in Disks, 0 \in d2.bbm, Kept(d, d2),
         Linked(d) \subseteq d2.ibm, Spread(d2, Linked(d) \cup F)
  PROVE  Good(d2, F) /\ Linked(d2) = Linked(d)
<1>1. d \in Disks /\ Rooted(d)
  BY DEF Good
<1>2. Rooted(d2) /\ Linked(d2) = Linked(d)
  BY <1>1, RootedKept
<1> QED
  BY <1>2 DEF Good

LEMMA GoodFewer ==
  ASSUME NEW F, NEW G, NEW d, Good(d, F), G \subseteq F \cup Linked(d)
  PROVE  Good(d, G)
<1>1. Linked(d) \cup G \subseteq Linked(d) \cup F
  OBVIOUS
<1> QED
  BY <1>1 DEF Good, Spread

\* Blocks become used.
LEMMA MarkBlocks ==
  ASSUME NEW F, NEW d, Good(d, F), NEW R, R \subseteq Blocks,
         NEW d2, d2 = [d EXCEPT !.bbm = @ \cup R]
  PROVE  Good(d2, F) /\ Linked(d2) = Linked(d)
         /\ d2.bbm = d.bbm \cup R /\ d2.ibm = d.ibm /\ d2.ino = d.ino /\ d2.blk = d.blk
         /\ d2.fb = d.fb /\ d2.fi = d.fi
<1>1. d \in Disks /\ Rooted(d) /\ 0 \in d.bbm /\ Spread(d, Linked(d) \cup F)
  BY DEF Good
<1>2. d2 \in Disks /\ d2.bbm = d.bbm \cup R /\ d2.ibm = d.ibm /\ d2.ino = d.ino /\ d2.blk = d.blk
      /\ d2.fb = d.fb /\ d2.fi = d.fi
  BY <1>1 DEF Disks
<1>3. Kept(d, d2)
  BY <1>2 DEF Kept
<1>4. Spread(d2, Linked(d) \cup F)
  <2>1. \A i \in Linked(d) \cup F : Own(d2, i) = Own(d, i)
    BY <1>2 DEF Own
  <2> QED BY <1>1, <1>2, <2>1 DEF Spread, Sound
<1>5. Linked(d) \subseteq d2.ibm
  BY <1>1, <1>2, LinkedFacts
<1> QED
  BY <1>1, <1>2, <1>3, <1>4, <1>5, GoodKept

\* Inodes become used, or an inode nothing leads to becomes free.
LEMMA MarkInodes ==
  ASSUME NEW F, NEW d, Good(d, F), NEW I \in SUBSET Inodes, Linked(d) \subseteq I,
         NEW d2, d2 = [d EXCEPT !.ibm = I]
  PROVE  Good(d2, F) /\ Linked(d2) = Linked(d)
         /\ d2.bbm = d.bbm /\ d2.ibm = I /\ d2.ino = d.ino /\ d2.blk = d.blk
         /\ d2.fb = d.fb /\ d2.fi = d.fi
<1>1. d \in Disks /\ Rooted(d) /\ 0 \in d.bbm /\ Spread(d, Linked(d) \cup F)
  BY DEF Good
<1>2. d2 \in Disks /\ d2.bbm = d.bbm /\ d2.ibm = I /\ d2.ino = d.ino /\ d2.blk = d.blk
      /\ d2.fb = d.fb /\ d2.fi = d.fi
  BY <1>1 DEF Disks
<1>3. Kept(d, d2)
  BY <1>2 DEF Kept
<1>4. Spread(d2, Linked(d) \cup F)
  <2>1. \A i \in Linked(d) \cup F : Own(d2, i) = Own(d, i)
    BY <1>2 DEF Own
  <2> QED BY <1>1, <1>2, <2>1 DEF Spread, Sound
<1> QED
  BY <1>1, <1>2, <1>3, <1>4, GoodKept

LEMMA SetCounts ==
  ASSUME NEW F, NEW d, Good(d, F), NEW d2 \in Disks,
         d2.bbm = d.bbm, d2.ibm = d.ibm, d2.ino = d.ino, d2.blk = d.blk
  PROVE  Good(d2, F) /\ Linked(d2) = Linked(d)
<1>1. d \in Disks /\ Rooted(d) /\ 0 \in d.bbm /\ Spread(d, Linked(d) \cup F)
  BY DEF Good
<1>3. Kept(d, d2)
  BY DEF Kept
<1>4. Spread(d2, Linked(d) \cup F)
  <2>1. \A i \in Linked(d) \cup F : Own(d2, i) = Own(d, i)
    BY DEF Own
  <2> QED BY <1>1, <2>1 DEF Spread, Sound
<1>5. Linked(d) \subseteq d2.ibm
  BY <1>1, LinkedFacts
<1> QED
  BY <1>1, <1>3, <1>4, <1>5, GoodKept

\* Blocks that no directory in the tree has are written to.
LEMMA WriteBlocks ==
  ASSUME NEW F, NEW d, Good(d, F), NEW B \in [Blocks -> DataBlocks \cup DirBlocks],
         \A i \in Linked(d) : IsDir(d, i) => \A b \in Own(d, i) : B[b] = d.blk[b],
         NEW d2, d2 = [d EXCEPT !.blk = B]
  PROVE  Good(d2, F) /\ Linked(d2) = Linked(d)
         /\ d2.bbm = d.bbm /\ d2.ibm = d.ibm /\ d2.ino = d.ino /\ d2.blk = B
         /\ d2.fb = d.fb /\ d2.fi = d.fi
<1>1. d \in Disks /\ Rooted(d) /\ 0 \in d.bbm /\ Spread(d, Linked(d) \cup F)
  BY DEF Good
<1>2. d2 \in Disks /\ d2.bbm = d.bbm /\ d2.ibm = d.ibm /\ d2.ino = d.ino /\ d2.blk = B
      /\ d2.fb = d.fb /\ d2.fi = d.fi
  BY <1>1 DEF Disks
<1>3. Kept(d, d2)
  BY <1>2 DEF Kept
<1>4. Spread(d2, Linked(d) \cup F)
  <2>1. \A i \in Linked(d) \cup F : Own(d2, i) = Own(d, i)
    BY <1>2 DEF Own
  <2> QED BY <1>1, <1>2, <2>1 DEF Spread, Sound
<1>5. Linked(d) \subseteq d2.ibm
  BY <1>1, <1>2, LinkedFacts
<1> QED
  BY <1>1, <1>2, <1>3, <1>4, <1>5, GoodKept

\* Blocks of nobody in the tree become free, and what they hold is lost.
Clear(d, S, R) == \A i \in S : Own(d, i) \cap R = {}
\* Nobody in the tree has one of these blocks, nobody has one of them open.
Unheld(d, F, R) == 0 \notin R /\ Clear(d, Linked(d) \cup F, R)
Drops(d, d2, R) ==
  d2 = [d EXCEPT !.bbm = @ \ R, !.blk = [b \in Blocks |-> IF b \in R THEN Blank ELSE @[b]]]

LEMMA DropBlocks ==
  ASSUME NEW F, NEW d, Good(d, F), NEW R, Unheld(d, F, R), NEW d2, Drops(d, d2, R)
  PROVE  Good(d2, F) /\ Linked(d2) = Linked(d)
         /\ d2.bbm = d.bbm \ R /\ d2.ibm = d.ibm /\ d2.ino = d.ino
         /\ d2.fb = d.fb /\ d2.fi = d.fi
<1> DEFINE B == [b \in Blocks |-> IF b \in R THEN Blank ELSE d.blk[b]]
<1> 0 \notin R /\ Clear(d, Linked(d) \cup F, R)
  BY DEF Unheld
<1>1. d \in Disks /\ Rooted(d) /\ 0 \in d.bbm /\ Spread(d, Linked(d) \cup F)
  BY DEF Good
<1>2. Blank \in DataBlocks
  BY FsAssumption DEF Blank, DataBlock, DataBlocks
<1>3. B \in [Blocks -> DataBlocks \cup DirBlocks]
  BY <1>1, <1>2, DiskTypes
<1>4. \A b \in Blocks \ R : B[b] = d.blk[b]
  OBVIOUS
<1>5. d2 = [d EXCEPT !.bbm = d.bbm \ R, !.blk = B]
  BY Zenon DEF Drops
<1> HIDE DEF B
<1>6. d2 \in Disks /\ d2.bbm = d.bbm \ R /\ d2.ibm = d.ibm /\ d2.ino = d.ino /\ d2.blk = B
      /\ d2.fb = d.fb /\ d2.fi = d.fi
  BY <1>1, <1>3, <1>5 DEF Disks
<1>7. \A i \in Linked(d) : Own(d, i) \subseteq Blocks
  BY <1>1, LinkedFacts, OwnInBlocks
<1>8. Kept(d, d2)
  BY <1>4, <1>6, <1>7 DEF Kept, Clear
<1>9. Spread(d2, Linked(d) \cup F)
  <2>1. \A i \in Linked(d) \cup F : Own(d2, i) = Own(d, i)
    BY <1>6 DEF Own
  <2> QED BY <1>1, <1>6, <2>1 DEF Spread, Sound, Clear
<1>10. Linked(d) \subseteq d2.ibm /\ 0 \in d2.bbm
  BY <1>1, <1>6, LinkedFacts
<1> QED
  BY <1>6, <1>8, <1>9, <1>10, GoodKept

Disjoint(s) == \A j, k \in DOMAIN s : j # k => Run(s[j]) \cap Run(s[k]) = {}

Stores(d, d2, i, inode) == d2 = [d EXCEPT !.ino[i] = inode]

\* An inode may be stored that is not in the tree, or is a file there and stays one.
Storable(d, F, i, inode) ==
  /\ i \in Inodes /\ inode \in InodeRecs
  /\ i \in Linked(d) => d.ino[i].kind = "file" /\ inode.kind = "file"
  /\ i \in Linked(d) \cup F =>
       /\ BlocksIn(inode.ext) \subseteq d.bbm \ {0} /\ Disjoint(inode.ext)
       /\ \A j \in (Linked(d) \cup F) \ {i} : BlocksIn(inode.ext) \cap Own(d, j) = {}

LEMMA StoreInode ==
  ASSUME NEW F, NEW d, Good(d, F), NEW i, NEW inode, Storable(d, F, i, inode),
         NEW d2, Stores(d, d2, i, inode)
  PROVE  Good(d2, F) /\ Linked(d2) = Linked(d) /\ Kept(d, d2)
         /\ d2.bbm = d.bbm /\ d2.ibm = d.ibm /\ d2.blk = d.blk
         /\ d2.ino[i] = inode /\ (\A j \in Inodes \ {i} : d2.ino[j] = d.ino[j])
         /\ d2.fb = d.fb /\ d2.fi = d.fi
<1> /\ i \in Inodes /\ inode \in InodeRecs
    /\ i \in Linked(d) => d.ino[i].kind = "file" /\ inode.kind = "file"
    /\ i \in Linked(d) \cup F =>
         /\ BlocksIn(inode.ext) \subseteq d.bbm \ {0} /\ Disjoint(inode.ext)
         /\ \A j \in (Linked(d) \cup F) \ {i} : BlocksIn(inode.ext) \cap Own(d, j) = {}
  BY DEF Storable
<1>1. d \in Disks /\ Rooted(d) /\ 0 \in d.bbm /\ Spread(d, Linked(d) \cup F)
  BY DEF Good
<1> DEFINE N == [d.ino EXCEPT ![i] = inode]
<1>2. N \in [Inodes -> InodeRecs] /\ N[i] = inode /\ \A j : j # i => N[j] = d.ino[j]
  <2>1. d.ino \in [Inodes -> InodeRecs]
    BY <1>1, DiskTypes
  <2>2. N \in [Inodes -> InodeRecs] /\ N[i] = inode
    BY <2>1
  <2>3. ASSUME NEW j, j # i PROVE N[j] = d.ino[j]
    BY <2>1, <2>3
  <2> QED BY <2>2, <2>3
<1>3. d2 = [d EXCEPT !.ino = N]
  BY DEF Stores
<1> HIDE DEF N
<1>4. d2 \in Disks /\ d2.bbm = d.bbm /\ d2.ibm = d.ibm /\ d2.ino = N /\ d2.blk = d.blk
      /\ d2.fb = d.fb /\ d2.fi = d.fi
  BY <1>1, <1>2, <1>3 DEF Disks
<1>5. Kept(d, d2)
  <2> SUFFICES ASSUME NEW j \in Linked(d)
               PROVE  /\ d2.ino[j].kind = d.ino[j].kind
                      /\ IsDir(d, j) => d2.ino[j] = d.ino[j] /\ \A b \in Own(d, j) : d2.blk[b] = d.blk[b]
    BY DEF Kept
  <2>1. CASE j = i
    BY <1>2, <1>4, <2>1 DEF IsDir
  <2>2. CASE j # i
    BY <1>2, <1>4, <2>2
  <2> QED BY <2>1, <2>2
<1>6. Spread(d2, Linked(d) \cup F)
  <2> DEFINE S == Linked(d) \cup F
  <2>1. \A j \in S \ {i} : d2.ino[j].ext = d.ino[j].ext /\ Own(d, j) \subseteq d2.bbm
    BY <1>1, <1>2, <1>4 DEF Spread, Sound
  <2>2. Own(d2, i) = BlocksIn(inode.ext)
    BY <1>2, <1>4 DEF Own
  <2>3. i \in S => Sound(d2, i)
    BY <1>2, <1>4, <2>2 DEF Sound, Disjoint
  <2>4. S \subseteq S \cup {i} /\ Spread(d, S)
    BY <1>1
  <2>5. i \in S => Sound(d2, i) /\ \A j \in S \ {i} : Own(d2, i) \cap Own(d, j) = {}
    BY <2>2, <2>3
  <2>6. Moves(d, d2, S, S, i)
    BY <2>1, <2>4, <2>5, Zenon DEF Moves
  <2> HIDE DEF S
  <2>7. Spread(d2, S)
    BY <2>4, <2>6, SpreadStep
  <2> QED BY <2>7 DEF S
<1>7. Linked(d) \subseteq d2.ibm /\ 0 \in d2.bbm
  BY <1>1, <1>4, LinkedFacts
<1>8. Good(d2, F) /\ Linked(d2) = Linked(d)
  BY <1>4, <1>5, <1>6, <1>7, GoodKept
<1> QED
  BY <1>2, <1>4, <1>5, <1>8

-----------------------------------------------------------------------------
(* Allocating, freeing and counting                                        *)

LEMMA BitmapsFinite ==
  ASSUME NEW d \in Disks
  PROVE  /\ IsFiniteSet(d.bbm) /\ Cardinality(d.bbm) \in Nat
         /\ IsFiniteSet(d.ibm) /\ Cardinality(d.ibm) \in Nat
<1>1. IsFiniteSet(Blocks) /\ IsFiniteSet(Inodes)
  BY Sizes, FS_Interval DEF Blocks, Inodes
<1>2. IsFiniteSet(d.bbm) /\ IsFiniteSet(d.ibm)
  BY <1>1, DiskTypes, FS_Subset
<1> QED
  BY <1>2, FS_CardinalityType

LEMMA ModInt ==
  ASSUME NEW a \in Int, NEW b \in Nat, b > 0
  PROVE  a % b \in 0 .. b - 1
  OBVIOUS

\* The first fit from the hint on is a fit.
LEMMA FitChosen ==
  ASSUME NEW fits, fits \subseteq Int, fits # {}, NEW h \in Int
  PROVE  (CHOOSE a \in fits : \A b \in fits : (a - h) % kBlocks <= (b - h) % kBlocks) \in fits
<1> DEFINE M == {(a - h) % kBlocks : a \in fits}
<1>1. \A a \in fits : (a - h) % kBlocks \in Nat
  <2> SUFFICES ASSUME NEW a \in fits PROVE (a - h) % kBlocks \in Nat
    OBVIOUS
  <2>1. a - h \in Int /\ kBlocks \in Nat /\ kBlocks > 0
    BY Sizes
  <2>2. (a - h) % kBlocks \in 0 .. kBlocks - 1
    BY <2>1, ModInt
  <2> QED BY <2>1, <2>2
<1>2. M \subseteq Nat /\ M # {}
  BY <1>1
<1>3. Min(M) \in M /\ \A y \in M : Min(M) <= y
  BY <1>2, MinIn
<1>4. PICK a \in fits : Min(M) = (a - h) % kBlocks
  BY <1>3
<1>5. \A b \in fits : (a - h) % kBlocks <= (b - h) % kBlocks
  BY <1>3, <1>4
<1> QED
  BY <1>5

LEMMA GotFine ==
  ASSUME NEW F, NEW c, Fine(c, F), NEW x \in Nat, NEW r, r = [c EXCEPT !.got = x]
  PROVE  Fine(r, F) /\ r.ok = c.ok /\ r.got = x /\ r.d = c.d /\ r.hint = c.hint /\ r.log = c.log
<1>1. r \in Calls /\ r.ok = c.ok /\ r.got = x /\ r.d = c.d /\ r.hint = c.hint /\ r.log = c.log
  BY DEF Fine, Calls
<1> QED
  BY <1>1, Zenon DEF Fine

LEMMA HintFine ==
  ASSUME NEW F, NEW c, Fine(c, F), NEW x \in Blocks, NEW r, r = [c EXCEPT !.hint = x]
  PROVE  Fine(r, F) /\ r.ok = c.ok /\ r.got = c.got /\ r.d = c.d /\ r.hint = x /\ r.log = c.log
<1>1. r \in Calls /\ r.ok = c.ok /\ r.got = c.got /\ r.d = c.d /\ r.hint = x /\ r.log = c.log
  BY DEF Fine, Calls
<1> QED
  BY <1>1, Zenon DEF Fine

LEMMA FineTypes ==
  ASSUME NEW F, NEW c, Fine(c, F)
  PROVE  /\ c.d \in Disks /\ Good(c.d, F) /\ c.hint \in Blocks /\ c.ok \in BOOLEAN /\ c.got \in Nat
         /\ c.log \in Seq(Logged) /\ Rooted(c.d) /\ Linked(c.d) \subseteq c.d.ibm /\ 0 \in c.d.bbm
         /\ Linked(c.d) \subseteq Inodes /\ Spread(c.d, Linked(c.d) \cup F)
<1>1. /\ c.d \in Disks /\ Good(c.d, F) /\ c.hint \in Blocks /\ c.ok \in BOOLEAN /\ c.got \in Nat
      /\ c.log \in Seq(Logged)
  BY DEF Fine, Calls
<1>2. Rooted(c.d) /\ 0 \in c.d.bbm /\ Spread(c.d, Linked(c.d) \cup F)
  BY <1>1 DEF Good
<1> QED
  BY <1>1, <1>2, LinkedFacts

\* alloc_blocks() returns a run of blocks that were free, or changes nothing.
LEMMA AllocBlocks ==
  ASSUME NEW F, NEW c, Fine(c, F), NEW n \in Nat, n > 0, NEW r, r = alloc_blocks(c, n)
  PROVE  /\ Fine(r, F)
         /\ ~r.ok => r.d = c.d
         /\ r.ok => /\ c.ok /\ r.got \in Nat /\ r.got > 0 /\ r.got + n <= kBlocks
                    /\ (r.got .. r.got + n - 1) \cap c.d.bbm = {}
                    /\ r.d = [c.d EXCEPT !.bbm = @ \cup (r.got .. r.got + n - 1)]
<1> DEFINE fits == Fits(c.d.bbm, n, c.hint)
           s == CHOOSE a \in fits : \A b \in fits : (a - c.hint) % kBlocks <= (b - c.hint) % kBlocks
           e == [c.d EXCEPT !.bbm = @ \cup (s .. s + n - 1)]
           c1 == [c EXCEPT !.hint = NextHint(s, n)]
           c2 == Put(c1, e)
<1>1. c.hint \in Blocks /\ c.d \in Disks /\ Good(c.d, F) /\ 0 \in c.d.bbm /\ c.ok \in BOOLEAN
  BY FineTypes
<1>2. CASE ~c.ok \/ fits = {}
  <2>1. r = Need(c, FALSE)
    BY <1>2 DEF alloc_blocks
  <2>2. Fine(r, F) /\ r.ok = (c.ok /\ FALSE) /\ r.d = c.d
    BY <2>1, NeedFine
  <2> QED BY <2>2
<1>3. CASE c.ok /\ fits # {}
  <2>1. r = [c2 EXCEPT !.got = s]
    BY <1>3 DEF alloc_blocks
  <2>2. fits \subseteq Int /\ c.hint \in Int
    BY <1>1, Sizes DEF Fits, Blocks
  <2>3. s \in fits
    BY <1>3, <2>2, FitChosen
  <2> HIDE DEF s
  <2>4. s \in Nat /\ s + n <= kBlocks /\ (s .. s + n - 1) \cap c.d.bbm = {}
    BY <2>3, Sizes DEF Fits
  <2>5. s > 0
    BY <1>1, <2>4
  <2>6. NextHint(s, n) \in Blocks
    <3>1. s + n \in Nat /\ kBlocks \in Nat /\ kBlocks > 0
      BY <2>4, Sizes
    <3>2. (s + n) % kBlocks \in 0 .. kBlocks - 1
      BY <3>1, ModIn
    <3> QED BY <3>2 DEF NextHint, Blocks
  <2>7. s .. s + n - 1 \subseteq Blocks
    BY <2>4, Sizes DEF Blocks
  <2>8. Good(e, F)
    BY <1>1, <2>7, MarkBlocks
  <2> HIDE DEF e
  <2>9. Fine(c1, F) /\ c1.ok = c.ok
    BY <2>6, HintFine
  <2> HIDE DEF c1
  <2>10. Fine(c2, F) /\ c2.ok = c1.ok /\ c2.d = IF c1.ok THEN e ELSE c1.d
    BY <2>8, <2>9, PutFine
  <2> HIDE DEF c2
  <2>11. Fine(r, F) /\ r.ok = c2.ok /\ r.got = s /\ r.d = c2.d
    BY <2>1, <2>4, <2>10, GotFine
  <2>12. r.d = e
    BY <1>3, <2>9, <2>10, <2>11
  <2>13. r.d = [c.d EXCEPT !.bbm = @ \cup (r.got .. r.got + n - 1)]
    BY <2>11, <2>12, Zenon DEF e
  <2>14. r.ok
    BY <1>3, <2>9, <2>10, <2>11
  <2> QED
    BY <1>3, <2>4, <2>5, <2>11, <2>13, <2>14
<1> QED
  BY <1>1, <1>2, <1>3

LEMMA AllocInode ==
  ASSUME NEW F, NEW c, Fine(c, F), NEW r, r = alloc_inode(c)
  PROVE  /\ Fine(r, F)
         /\ ~r.ok => r.d = c.d
         /\ r.ok => /\ c.ok /\ r.got \in Inodes /\ r.got \notin c.d.ibm
                    /\ r.d = [c.d EXCEPT !.ibm = @ \cup {r.got}]
<1> DEFINE free == Inodes \ c.d.ibm
           i == Min(free)
           e == [c.d EXCEPT !.ibm = @ \cup {i}]
           c2 == Put(c, e)
<1>1. c.d \in Disks /\ Good(c.d, F) /\ c.ok \in BOOLEAN /\ Linked(c.d) \subseteq c.d.ibm
  BY FineTypes
<1>2. CASE ~c.ok \/ free = {}
  <2>1. r = Need(c, FALSE)
    BY <1>2 DEF alloc_inode
  <2>2. Fine(r, F) /\ r.ok = (c.ok /\ FALSE) /\ r.d = c.d
    BY <2>1, NeedFine
  <2> QED BY <2>2
<1>3. CASE c.ok /\ free # {}
  <2>1. r = [c2 EXCEPT !.got = i]
    BY <1>3 DEF alloc_inode
  <2>2. free \subseteq Nat
    BY DEF Inodes
  <2>3. i \in free
    BY <1>3, <2>2, MinIn
  <2> HIDE DEF i
  <2>4. i \in Inodes /\ i \notin c.d.ibm /\ i \in Nat
    BY <2>2, <2>3
  <2>5. Good(e, F)
    <3> DEFINE I == c.d.ibm \cup {i}
    <3>1. I \in SUBSET Inodes /\ Linked(c.d) \subseteq I
      BY <1>1, <2>4, DiskTypes
    <3>2. e = [c.d EXCEPT !.ibm = I]
      OBVIOUS
    <3> HIDE DEF I, e
    <3> QED BY <1>1, <3>1, <3>2, MarkInodes
  <2> HIDE DEF e
  <2>6. Fine(c2, F) /\ c2.ok = c.ok /\ c2.d = IF c.ok THEN e ELSE c.d
    BY <2>5, PutFine
  <2> HIDE DEF c2
  <2>7. Fine(r, F) /\ r.ok = c2.ok /\ r.got = i /\ r.d = c2.d
    BY <2>1, <2>4, <2>6, GotFine
  <2>8. r.d = e
    BY <1>3, <2>6, <2>7
  <2> QED
    BY <1>3, <2>4, <2>6, <2>7, <2>8 DEF e
<1> QED
  BY <1>1, <1>2, <1>3

\* The counts are changed, and nothing else is.
LEMMA CommitCounts ==
  ASSUME NEW F, NEW c, Fine(c, F), NEW x \in Int, NEW y \in Int, NEW r, r = commit_counts(c, x, y)
  PROVE  /\ Fine(r, F) /\ (r.ok => c.ok)
         /\ Linked(r.d) = Linked(c.d) /\ r.d.ino = c.d.ino /\ r.d.blk = c.d.blk
         /\ r.d.bbm = c.d.bbm /\ r.d.ibm = c.d.ibm
         /\ \/ r.d.fb = c.d.fb /\ r.d.fi = c.d.fi
            \/ c.ok /\ r.ok /\ r.d.fb = c.d.fb - x /\ r.d.fi = c.d.fi - y
         /\ c.ok /\ c.d.fb - x >= 0 /\ c.d.fi - y >= 0 =>
              r.ok /\ r.d.fb = c.d.fb - x /\ r.d.fi = c.d.fi - y
<1> DEFINE fb == c.d.fb - x
           fi == c.d.fi - y
           e == [c.d EXCEPT !.fb = fb, !.fi = fi]
           c1 == Need(c, fb >= 0 /\ fi >= 0)
<1>1. c.d \in Disks /\ Good(c.d, F) /\ c.ok \in BOOLEAN
  BY FineTypes
<1>2. c.d.fb \in Nat /\ c.d.fi \in Nat
  BY <1>1, DiskTypes
<1>3. CASE x = 0 /\ y = 0
  BY <1>2, <1>3 DEF commit_counts
<1>4. CASE ~(x = 0 /\ y = 0)
  <2>1. r = Put(c1, e)
    BY <1>4 DEF commit_counts
  <2>2. fb \in Int /\ fi \in Int
    BY <1>2
  <2>3. /\ Fine(c1, F) /\ c1.ok = (c.ok /\ fb >= 0 /\ fi >= 0) /\ c1.d = c.d
    BY NeedFine, <2>2
  <2> HIDE DEF c1, fb, fi
  <2>4. ASSUME c1.ok PROVE Good(e, F) /\ Linked(e) = Linked(c.d) /\ e.ino = c.d.ino /\ e.blk = c.d.blk
                           /\ e.bbm = c.d.bbm /\ e.ibm = c.d.ibm /\ e.fb = fb /\ e.fi = fi
    <3>1. fb >= 0 /\ fi >= 0
      BY <2>3, <2>4, Zenon
    <3>2. fb \in Nat /\ fi \in Nat
      BY <2>2, <3>1
    <3>3. e \in Disks /\ e.bbm = c.d.bbm /\ e.ibm = c.d.ibm /\ e.ino = c.d.ino /\ e.blk = c.d.blk
          /\ e.fb = fb /\ e.fi = fi
      BY <1>1, <3>2 DEF Disks
    <3> HIDE DEF e
    <3> QED BY <1>1, <3>3, SetCounts
  <2> HIDE DEF e
  <2>5. Fine(r, F) /\ r.ok = c1.ok /\ r.d = IF c1.ok THEN e ELSE c1.d
    BY <2>1, <2>3, <2>4, PutFine
  <2>6. CASE c1.ok
    BY <2>3, <2>4, <2>5, <2>6 DEF fb, fi
  <2>7. CASE ~c1.ok
    BY <2>3, <2>5, <2>7 DEF fb, fi
  <2> QED BY <2>6, <2>7
<1> QED
  BY <1>3, <1>4

\* What commit_counts() is told is no less than what becomes free, and is exactly
\* that when no block is listed twice.
LEMMA FreedCounts ==
  ASSUME NEW inode \in InodeRecs
  PROVE  /\ Freed(inode) \in Nat /\ IsFiniteSet(BlocksIn(inode.ext))
         /\ Cardinality(BlocksIn(inode.ext)) \in Nat
         /\ Cardinality(BlocksIn(inode.ext)) <= Freed(inode)
         /\ Disjoint(inode.ext) => Cardinality(BlocksIn(inode.ext)) = Freed(inode)
<1> DEFINE s == inode.ext
           X == {x \in (DOMAIN s) \X Blocks : x[2] < s[x[1]].n}
           Bs == BlocksIn(s)
           f == [x \in X |-> s[x[1]].p + x[2]]
<1>1. s \in Seq(Extents) /\ Len(s) \in Nat /\ DOMAIN s = 1 .. Len(s)
  BY DEF InodeRecs, ExtLists
<1>2. \A k \in DOMAIN s : /\ s[k].n \in 1 .. kBlocks /\ s[k].p \in Nat /\ s[k].p + s[k].n <= kBlocks
  BY <1>1, RunInBlocks DEF Blocks
<1>3. IsFiniteSet(X)
  <2>1. IsFiniteSet(DOMAIN s) /\ IsFiniteSet(Blocks)
    BY <1>1, Sizes, FS_Interval DEF Blocks
  <2>2. IsFiniteSet((DOMAIN s) \X Blocks)
    BY <2>1, FS_Product
  <2> QED BY <2>2, FS_Subset
<1>4. \A x \in X : x[1] \in DOMAIN s /\ x[2] \in Nat /\ x[2] < s[x[1]].n /\ x = <<x[1], x[2]>>
  BY Sizes DEF Blocks
<1>5. \A x \in X : f[x] = s[x[1]].p + x[2] /\ f[x] \in Run(s[x[1]])
  BY <1>2, <1>4, Sizes DEF Run
<1>6. f \in [X -> Bs]
  BY <1>4, <1>5, InBlocksIn
<1>7. \A t \in Bs : \E x \in X : f[x] = t
  <2> SUFFICES ASSUME NEW t \in Bs PROVE \E x \in X : f[x] = t
    OBVIOUS
  <2>1. PICK k \in DOMAIN s : t \in Run(s[k])
    BY InBlocksIn
  <2>2. t - s[k].p \in Blocks /\ t - s[k].p < s[k].n /\ s[k].p + (t - s[k].p) = t
    BY <1>2, <2>1, Sizes DEF Run, Blocks
  <2>3. <<k, t - s[k].p>> \in X
    BY <2>2
  <2> QED BY <2>2, <2>3
<1>8. f \in Surjection(X, Bs)
  BY <1>6, <1>7 DEF Surjection
<1>9. Freed(inode) = Cardinality(X)
  BY DEF Freed
<1>10. Cardinality(X) \in Nat
  BY <1>3, FS_CardinalityType
<1>11. ASSUME Disjoint(s) PROVE f \in Injection(X, Bs)
  <2>1. ASSUME NEW x \in X, NEW y \in X, f[x] = f[y] PROVE x = y
    <3>1. x[1] = y[1]
      BY <1>4, <1>5, <1>11, <2>1 DEF Disjoint
    <3>2. x[2] = y[2]
      BY <1>2, <1>4, <1>5, <2>1, <3>1, SMTT(30)
    <3> QED BY <1>4, <3>1, <3>2
  <2> QED BY <1>6, <2>1 DEF Injection, IsInjective
<1> HIDE DEF X, Bs, f
<1>12. /\ IsFiniteSet(Bs) /\ Cardinality(Bs) <= Cardinality(X)
       /\ Cardinality(Bs) = Cardinality(X) <=> f \in Injection(X, Bs)
  BY <1>3, <1>8, FS_Surjection
<1>13. Cardinality(Bs) \in Nat
  BY <1>12, FS_CardinalityType
<1> QED
  BY <1>9, <1>10, <1>11, <1>12, <1>13 DEF Bs

LEMMA PartOfList ==
  ASSUME NEW s \in ExtLists, NEW k \in 0 .. Len(s)
  PROVE  /\ BlocksIn(SubSeq(s, 1, k)) \subseteq BlocksIn(s)
         /\ k = Len(s) => BlocksIn(SubSeq(s, 1, k)) = BlocksIn(s)
<1>1. s \in Seq(Extents) /\ Len(s) \in Nat /\ DOMAIN s = 1 .. Len(s)
  BY DEF ExtLists
<1> DEFINE t == SubSeq(s, 1, k)
<1>2. DOMAIN t = 1 .. k /\ \A j \in 1 .. k : t[j] = s[j]
  BY <1>1
<1> HIDE DEF t
<1>3. BlocksIn(t) \subseteq BlocksIn(s)
  <2> SUFFICES ASSUME NEW b \in BlocksIn(t) PROVE b \in BlocksIn(s)
    OBVIOUS
  <2>1. PICK j \in DOMAIN t : b \in Run(t[j])
    BY InBlocksIn
  <2>2. j \in DOMAIN s /\ t[j] = s[j]
    BY <1>1, <1>2
  <2> QED BY <2>1, <2>2, InBlocksIn
<1>4. ASSUME k = Len(s), NEW b \in BlocksIn(s) PROVE b \in BlocksIn(t)
  <2>1. PICK j \in DOMAIN s : b \in Run(s[j])
    BY InBlocksIn
  <2>2. j \in DOMAIN t /\ t[j] = s[j]
    BY <1>1, <1>2, <1>4
  <2> QED BY <2>1, <2>2, InBlocksIn
<1> QED
  BY <1>3, <1>4 DEF t

\* free_blocks(), an extent after the other.
LEMMA FreeBlocks ==
  ASSUME NEW F, NEW c, Fine(c, F), NEW s \in ExtLists,
         c.ok => Unheld(c.d, F, BlocksIn(s)),
         NEW r, r = free_blocks(c, s)
  PROVE  /\ Fine(r, F) /\ r.ok = c.ok /\ Linked(r.d) = Linked(c.d)
         /\ r.d.ino = c.d.ino /\ r.d.ibm = c.d.ibm /\ r.d.fb = c.d.fb /\ r.d.fi = c.d.fi
         /\ r.d.bbm = IF c.ok THEN c.d.bbm \ BlocksIn(s) ELSE c.d.bbm
<1> DEFINE n == Len(s)
           G(k) == BlocksIn(SubSeq(s, 1, k))
           A == [k \in 1 .. n |->
                   [c.d EXCEPT !.bbm = @ \ G(k),
                               !.blk = [b \in Blocks |-> IF b \in G(k) THEN Blank ELSE @[b]]]]
<1>1. c.d \in Disks /\ Good(c.d, F) /\ c.ok \in BOOLEAN
  BY FineTypes
<1>2. s \in Seq(Extents) /\ n \in Nat
  BY DEF ExtLists
<1>3. CASE ~(c.ok /\ n > 0)
  <2>1. r = c
    BY <1>3 DEF free_blocks, PutAll
  <2>2. n = 0 => BlocksIn(s) = {}
    BY <1>2 DEF BlocksIn, Range
  <2>3. c.ok => c.d.bbm = c.d.bbm \ BlocksIn(s)
    BY <1>2, <1>3, <2>2
  <2> QED BY <2>1, <2>3
<1>4. CASE c.ok /\ n > 0
  <2>1. r = [c EXCEPT !.d = A[n], !.log = @ \o [k \in 1 .. n |-> [d |-> A[k], hint |-> c.hint]]]
    <3>1. n \in 1 .. n
      BY <1>2, <1>4
    <3>2. r = [c EXCEPT !.d = [c.d EXCEPT !.bbm = @ \ G(n),
                                          !.blk = [b \in Blocks |-> IF b \in G(n) THEN Blank ELSE @[b]]],
                        !.log = @ \o [k \in 1 .. n |->
                          [d |-> [c.d EXCEPT !.bbm = @ \ G(k),
                                             !.blk = [b \in Blocks |-> IF b \in G(k) THEN Blank ELSE @[b]]],
                           hint |-> c.hint]]]
      BY <1>4, Zenon DEF free_blocks, PutAll
    <3> QED BY <3>1, <3>2, Zenon
  <2>2. ASSUME NEW k \in 1 .. n
        PROVE  /\ Good(A[k], F) /\ Linked(A[k]) = Linked(c.d) /\ A[k].bbm = c.d.bbm \ G(k)
               /\ A[k].ino = c.d.ino /\ A[k].ibm = c.d.ibm /\ A[k].fb = c.d.fb /\ A[k].fi = c.d.fi
    <3>1. G(k) \subseteq BlocksIn(s)
      <4>1. k \in 0 .. Len(s)
        BY <1>2
      <4> QED BY <4>1, PartOfList
    <3> DEFINE R == G(k)
               e == A[k]
    <3>2. Unheld(c.d, F, BlocksIn(s))
      BY <1>4
    <3>3. Drops(c.d, e, R)
      BY Zenon DEF Drops
    <3>4. Unheld(c.d, F, R)
      BY <3>1, <3>2 DEF Unheld, Clear
    <3> HIDE DEF R, e, A, G
    <3>5. Good(e, F) /\ Linked(e) = Linked(c.d) /\ e.bbm = c.d.bbm \ R /\ e.ibm = c.d.ibm
          /\ e.ino = c.d.ino /\ e.fb = c.d.fb /\ e.fi = c.d.fi
      BY <1>1, <3>3, <3>4, DropBlocks
    <3> QED BY <3>5 DEF R, e
  <2>3. G(n) = BlocksIn(s)
    BY <1>2, PartOfList
  <2>4. n \in 1 .. n
    BY <1>2, <1>4
  <2>5. Fine(r, F) /\ r.ok = c.ok /\ r.d = A[n]
    <3>1. \A k \in 1 .. n : Good(A[k], F)
      BY <2>2
    <3>2. Wrote(c, r, A, n, F)
      BY <1>2, <1>4, <2>1, <3>1, Zenon DEF Wrote
    <3> HIDE DEF A, n
    <3> QED BY <3>2, LogFine
  <2> HIDE DEF A, G, n
  <2> QED
    BY <1>4, <2>2, <2>3, <2>4, <2>5
<1> QED
  BY <1>1, <1>3, <1>4

-----------------------------------------------------------------------------
(* The room of a list of entries                                           *)

\* Sums of the lengths of the first entries, one after the other.
Sums(s, g) ==
  /\ g \in [0 .. Len(s) -> Nat] /\ g[0] = 0
  /\ \A n \in 1 .. Len(s) : g[n] = g[n - 1] + s[n].len

LEMMA LeastNat ==
  ASSUME NEW S, S \subseteq Nat, S # {}, 0 \notin S
  PROVE  \E m \in S : m > 0 /\ m - 1 \in Nat /\ m - 1 \notin S
<1>1. PICK m \in S : \A y \in S : m <= y
  BY MinIn
<1>2. m \in Nat /\ m # 0
  BY <1>1
<1>3. m > 0 /\ m - 1 \in Nat /\ ~(m <= m - 1)
  BY <1>2
<1> QED
  BY <1>1, <1>3

LEMMA EntLens ==
  ASSUME NEW s \in Seq(Entries)
  PROVE  /\ Len(s) \in Nat /\ DOMAIN s = 1 .. Len(s)
         /\ \A n \in 1 .. Len(s) : s[n] \in Entries /\ s[n].len \in Nat
<1>1. Len(s) \in Nat /\ DOMAIN s = 1 .. Len(s) /\ \A n \in 1 .. Len(s) : s[n] \in Entries
  OBVIOUS
<1> QED
  BY <1>1 DEF Entries

LEMMA EntryIs ==
  ASSUME NEW name \in Labels, NEW i \in 0 .. kInodes, NEW l \in Nat,
         NEW e, e = Entry(name, i, l)
  PROVE  e \in Entries /\ e.name = name /\ e.ino = i /\ e.len = l
  BY DEF Entry, Entries

LEMMA EntryLen ==
  ASSUME NEW e \in Entries, NEW l \in Nat, NEW f, f = [e EXCEPT !.len = l]
  PROVE  f \in Entries /\ f.name = e.name /\ f.ino = e.ino /\ f.len = l
  BY DEF Entries

LEMMA SumsExist ==
  ASSUME NEW s \in Seq(Entries)
  PROVE  \E g : Sums(s, g)
<1> DEFINE P(m) == \E g \in [0 .. m -> Nat] : g[0] = 0 /\ \A n \in 1 .. m : g[n] = g[n - 1] + s[n].len
           S == {m \in 0 .. Len(s) : ~P(m)}
<1>1. Len(s) \in Nat /\ \A n \in 1 .. Len(s) : s[n].len \in Nat
  BY EntLens
<1>2. P(0)
  <2> DEFINE g == [n \in 0 .. 0 |-> 0]
  <2>1. g \in [0 .. 0 -> Nat] /\ g[0] = 0 /\ \A n \in 1 .. 0 : g[n] = g[n - 1] + s[n].len
    OBVIOUS
  <2> QED BY <2>1
<1>3. ASSUME NEW m \in S, m > 0, m - 1 \in Nat, m - 1 \notin S PROVE FALSE
  <2>1. m \in 1 .. Len(s) /\ m - 1 \in 0 .. Len(s) /\ m \in Nat
    BY <1>1, <1>3
  <2>2. P(m - 1)
    BY <1>3, <2>1
  <2>3. PICK g \in [0 .. m - 1 -> Nat] : g[0] = 0 /\ \A n \in 1 .. m - 1 : g[n] = g[n - 1] + s[n].len
    BY <2>2
  <2> DEFINE h == [n \in 0 .. m |-> IF n = m THEN g[m - 1] + s[m].len ELSE g[n]]
  <2>4. h \in [0 .. m -> Nat]
    BY <1>1, <2>1, <2>3
  <2>5. h[0] = 0
    BY <2>1, <2>3
  <2>6. \A n \in 1 .. m : h[n] = h[n - 1] + s[n].len
    BY <2>1, <2>3
  <2>7. P(m)
    BY <2>4, <2>5, <2>6
  <2> QED BY <2>7
<1>4. S = {}
  <2>1. S \subseteq Nat /\ 0 \notin S
    BY <1>2
  <2> HIDE DEF S, P
  <2> QED BY <1>3, <2>1, LeastNat
<1>5. P(Len(s))
  BY <1>1, <1>4
<1> QED
  BY <1>5 DEF Sums

LEMMA SumsUnique ==
  ASSUME NEW s \in Seq(Entries), NEW g, Sums(s, g), NEW h,
         h = [n \in 0 .. Len(s) |-> IF n = 0 THEN 0 ELSE h[n - 1] + s[n].len]
  PROVE  h[Len(s)] = g[Len(s)]
<1> DEFINE S == {m \in 0 .. Len(s) : h[m] # g[m]}
<1>1. Len(s) \in Nat
  BY EntLens
<1>2. \A n \in 0 .. Len(s) : h[n] = IF n = 0 THEN 0 ELSE h[n - 1] + s[n].len
  OBVIOUS
<1>3. h[0] = 0
  BY <1>1, <1>2
<1>4. \A n \in 1 .. Len(s) : h[n] = h[n - 1] + s[n].len
  BY <1>1, <1>2
<1>5. g[0] = 0 /\ \A n \in 1 .. Len(s) : g[n] = g[n - 1] + s[n].len
  BY DEF Sums
<1>6. ASSUME NEW m \in S, m > 0, m - 1 \in Nat, m - 1 \notin S PROVE FALSE
  BY <1>1, <1>4, <1>5, <1>6
<1>7. S = {}
  <2>1. S \subseteq Nat /\ 0 \notin S
    BY <1>3, <1>5
  <2> HIDE DEF S
  <2> QED BY <1>6, <2>1, LeastNat
<1> QED
  BY <1>1, <1>7

LEMMA RoomIs ==
  ASSUME NEW s \in Seq(Entries), NEW g, Sums(s, g)
  PROVE  Room(s) = g[Len(s)]
<1> DEFINE h == CHOOSE f : f = [n \in 0 .. Len(s) |-> IF n = 0 THEN 0 ELSE f[n - 1] + s[n].len]
<1>1. Len(s) \in Nat /\ g[0] = 0 /\ g \in [0 .. Len(s) -> Nat]
      /\ \A n \in 1 .. Len(s) : g[n] = g[n - 1] + s[n].len
  BY EntLens DEF Sums
<1>2. g = [n \in 0 .. Len(s) |-> IF n = 0 THEN 0 ELSE g[n - 1] + s[n].len]
  BY <1>1
<1>3. h = [n \in 0 .. Len(s) |-> IF n = 0 THEN 0 ELSE h[n - 1] + s[n].len]
  BY <1>2, Zenon
<1>4. Room(s) = h[Len(s)]
  BY Zenon DEF Room
<1> HIDE DEF h
<1> QED
  BY <1>3, <1>4, SumsUnique, Zenon

LEMMA RoomOne ==
  ASSUME NEW e \in Entries
  PROVE  Room(<<e>>) = e.len
<1> DEFINE s == <<e>>
           g == [n \in 0 .. 1 |-> IF n = 0 THEN 0 ELSE e.len]
<1>1. s \in Seq(Entries) /\ Len(s) = 1 /\ s[1] = e /\ e.len \in Nat
  <2>1. e.len \in Nat
    BY DEF Entries
  <2> QED BY <2>1
<1>2. g \in [0 .. 1 -> Nat] /\ g[0] = 0 /\ g[1] = e.len /\ \A n \in 1 .. 1 : g[n] = g[n - 1] + s[n].len
  BY <1>1
<1> HIDE DEF s, g
<1>3. Sums(s, g)
  BY <1>1, <1>2 DEF Sums
<1> QED
  BY <1>1, <1>2, <1>3, RoomIs DEF s

LEMMA RoomTwo ==
  ASSUME NEW e \in Entries, NEW f \in Entries
  PROVE  Room(<<e, f>>) = e.len + f.len
<1> DEFINE s == <<e, f>>
           g == [n \in 0 .. 2 |-> IF n = 0 THEN 0 ELSE IF n = 1 THEN e.len ELSE e.len + f.len]
<1>1. s \in Seq(Entries) /\ Len(s) = 2 /\ s[1] = e /\ s[2] = f /\ e.len \in Nat /\ f.len \in Nat
  <2>1. e.len \in Nat /\ f.len \in Nat
    BY DEF Entries
  <2> QED BY <2>1
<1>2. g \in [0 .. 2 -> Nat] /\ g[0] = 0 /\ g[1] = e.len /\ g[2] = e.len + f.len
  BY <1>1
<1>3. \A n \in 1 .. 2 : g[n] = g[n - 1] + s[n].len
  <2>1. 1 .. 2 = {1, 2}
    OBVIOUS
  <2>2. g[1] = g[1 - 1] + s[1].len /\ g[2] = g[2 - 1] + s[2].len
    BY <1>1, <1>2
  <2> HIDE DEF s, g
  <2> QED BY <2>1, <2>2
<1> HIDE DEF s, g
<1>4. Sums(s, g)
  BY <1>1, <1>2, <1>3 DEF Sums
<1> QED
  BY <1>1, <1>2, <1>4, RoomIs DEF s

\* What dir_add_entry() makes of a block with room behind its last entry.
LEMMA AddToIs ==
  ASSUME NEW s \in Seq(Entries), s # <<>>, Slack(s), NEW name \in Names, NEW i \in Inodes,
         NEW t, t = AddTo(s, name, i)
  PROVE  /\ t \in Seq(Entries) /\ Len(t) = Len(s) + 1 /\ Room(t) = Room(s) /\ t # <<>>
         /\ \A k \in 1 .. Len(s) : t[k].name = s[k].name /\ t[k].ino = s[k].ino
         /\ t[Len(s) + 1].name = name /\ t[Len(s) + 1].ino = i
<1> DEFINE n == Len(s)
           e == [s[n] EXCEPT !.len = 1]
           f == Entry(name, i, s[n].len - 1)
           v == SubSeq(s, 1, n - 1) \o <<e>>
<1>1. n \in Nat /\ n > 0 /\ DOMAIN s = 1 .. n /\ \A k \in 1 .. n : s[k] \in Entries /\ s[k].len \in Nat
  BY EntLens
<1>2. Last(s) = s[n] /\ s[n].len > 1
  BY DEF Slack, Last
<1>3. e \in Entries /\ e.name = s[n].name /\ e.ino = s[n].ino /\ e.len = 1
  BY <1>1, EntryLen
<1>4. f \in Entries /\ f.name = name /\ f.ino = i /\ f.len = s[n].len - 1
  <2> HIDE DEF n
  <2>1. s[n].len - 1 \in Nat /\ i \in 0 .. kInodes
    BY <1>1, <1>2, Sizes DEF Inodes
  <2>2. name \in Labels
    BY Zenon DEF Labels
  <2> QED BY <2>1, <2>2, EntryIs
<1>5. t = Append(v, f)
  BY <1>2 DEF AddTo, Front
<1> HIDE DEF e, f, n
<1>6. v \in Seq(Entries) /\ Len(v) = n /\ v[n] = e /\ \A k \in 1 .. n - 1 : v[k] = s[k]
  BY <1>1, <1>3 DEF n
<1> HIDE DEF v
<1>7. /\ t \in Seq(Entries) /\ Len(t) = n + 1 /\ t[n + 1] = f /\ t[n] = e
      /\ \A k \in 1 .. n - 1 : t[k] = s[k]
  <2>1. t \in Seq(Entries) /\ Len(t) = n + 1 /\ t[n + 1] = f /\ \A k \in 1 .. n : t[k] = v[k]
    BY <1>4, <1>5, <1>6
  <2> QED BY <1>1, <1>6, <2>1
<1>8. PICK g : Sums(s, g)
  BY SumsExist
<1>9. g \in [0 .. n -> Nat] /\ g[0] = 0 /\ \A k \in 1 .. n : g[k] = g[k - 1] + s[k].len
  BY <1>8 DEF Sums, n
<1> DEFINE h == [k \in 0 .. n + 1 |-> IF k < n THEN g[k] ELSE IF k = n THEN g[n - 1] + 1 ELSE g[n]]
<1>10. h \in [0 .. n + 1 -> Nat] /\ h[0] = 0 /\ h[n + 1] = g[n]
  BY <1>1, <1>9
<1>11. \A k \in 1 .. n + 1 : h[k] = h[k - 1] + t[k].len
  <2>0. \A k \in 0 .. n + 1 : h[k] = IF k < n THEN g[k] ELSE IF k = n THEN g[n - 1] + 1 ELSE g[n]
    OBVIOUS
  <2> HIDE DEF h
  <2> SUFFICES ASSUME NEW k \in 1 .. n + 1 PROVE h[k] = h[k - 1] + t[k].len
    OBVIOUS
  <2>1. CASE k < n
    BY <1>1, <1>7, <1>9, <2>1, <2>0
  <2>2. CASE k = n
    BY <1>1, <1>3, <1>7, <1>9, <2>2, <2>0
  <2>3. CASE k = n + 1
    <3>1. h[k] = g[n] /\ h[k - 1] = g[n - 1] + 1 /\ t[k].len = s[n].len - 1
      BY <1>1, <1>4, <1>7, <2>3, <2>0
    <3>2. g[n] = g[n - 1] + s[n].len /\ g[n - 1] \in Nat /\ s[n].len \in Nat
      BY <1>1, <1>9
    <3>3. g[n] = (g[n - 1] + 1) + (s[n].len - 1)
      BY <3>2, SMTT(30)
    <3> QED BY <3>1, <3>3, Zenon
  <2> QED BY <1>1, <2>1, <2>2, <2>3
<1> HIDE DEF h
<1>12. Sums(t, h)
  BY <1>7, <1>10, <1>11 DEF Sums
<1>13. Room(t) = Room(s)
  BY <1>7, <1>8, <1>10, <1>12, RoomIs DEF n
<1>14. \A k \in 1 .. n : t[k].name = s[k].name /\ t[k].ino = s[k].ino
  BY <1>1, <1>3, <1>7
<1>15. t # <<>>
  BY <1>1, <1>7
<1> QED
  BY <1>4, <1>7, <1>13, <1>14, <1>15 DEF n

\* What rm() makes of a block: the entry in front takes the room of the one that goes.
LEMMA UnlinkedIs ==
  ASSUME NEW s \in Seq(Entries), NEW k \in 2 .. Len(s), NEW t, t = Unlinked(s, k)
  PROVE  /\ t \in Seq(Entries) /\ Len(t) = Len(s) - 1 /\ Room(t) = Room(s) /\ t # <<>>
         /\ \A j \in 1 .. Len(s) - 1 :
              LET o == IF j < k THEN j ELSE j + 1
              IN t[j].name = s[o].name /\ t[j].ino = s[o].ino
<1> DEFINE n == Len(s)
           e == [s[k - 1] EXCEPT !.len = @ + s[k].len]
           v == [s EXCEPT ![k - 1].len = @ + s[k].len]
<1>1. n \in Nat /\ n > 1 /\ DOMAIN s = 1 .. n /\ \A j \in 1 .. n : s[j] \in Entries /\ s[j].len \in Nat
  BY EntLens
<1>2. e \in Entries /\ e.name = s[k - 1].name /\ e.ino = s[k - 1].ino /\ e.len = s[k - 1].len + s[k].len
  <2>1. s[k - 1] \in Entries /\ s[k - 1].len + s[k].len \in Nat
    BY <1>1
  <2>2. e = [s[k - 1] EXCEPT !.len = s[k - 1].len + s[k].len]
    OBVIOUS
  <2> HIDE DEF e
  <2> QED BY <2>1, <2>2, EntryLen
<1>3. v = [s EXCEPT ![k - 1] = e]
  OBVIOUS
<1> HIDE DEF e, v
<1>4. v \in Seq(Entries) /\ Len(v) = n /\ v[k - 1] = e /\ \A j \in (1 .. n) \ {k - 1} : v[j] = s[j]
  <2>1. k - 1 \in 1 .. n
    BY <1>1
  <2>2. v \in [1 .. n -> Entries] /\ v[k - 1] = e /\ \A j \in (1 .. n) \ {k - 1} : v[j] = s[j]
    BY <1>1, <1>2, <1>3, <2>1
  <2> HIDE DEF n
  <2> QED BY <1>1, <2>2, FnSeq
<1>20. k \in 2 .. n
  OBVIOUS
<1>5. t = SubSeq(v, 1, k - 1) \o SubSeq(v, k + 1, n)
  BY <1>4 DEF Unlinked, RemoveAt, v
<1> HIDE DEF n
<1>6. t \in Seq(Entries) /\ Len(t) = n - 1 /\ \A j \in 1 .. n - 1 : t[j] = v[IF j < k THEN j ELSE j + 1]
  <2> DEFINE x == SubSeq(v, 1, k - 1)
             y == SubSeq(v, k + 1, n)
  <2>1. x \in Seq(Entries) /\ Len(x) = k - 1 /\ \A j \in 1 .. k - 1 : x[j] = v[j]
    BY <1>1, <1>4, <1>20
  <2>2. y \in Seq(Entries) /\ Len(y) = n - k /\ \A j \in 1 .. n - k : y[j] = v[j + k]
    BY <1>1, <1>4, <1>20
  <2>3. t = x \o y
    BY <1>5
  <2> HIDE DEF x, y
  <2>4. t \in Seq(Entries) /\ Len(t) = n - 1
    <3>1. (k - 1) + (n - k) = n - 1
      BY <1>1, <1>20
    <3>2. t \in Seq(Entries) /\ Len(t) = Len(x) + Len(y)
      <4>1. x \in Seq(Entries) /\ y \in Seq(Entries)
        BY <2>1, <2>2
      <4>2. x \o y \in Seq(Entries) /\ Len(x \o y) = Len(x) + Len(y)
        BY <4>1, ConcatProperties
      <4> QED BY <2>3, <4>2, Zenon
    <3> QED BY <2>1, <2>2, <3>1, <3>2
  <2>5. ASSUME NEW j \in 1 .. n - 1 PROVE t[j] = v[IF j < k THEN j ELSE j + 1]
    <3>1. CASE j < k
      BY <1>1, <1>20, <2>1, <2>2, <2>3, <3>1
    <3>2. CASE j >= k
      <4>1. t[j] = y[j - (k - 1)] /\ j - (k - 1) \in 1 .. n - k
        BY <1>1, <1>20, <2>1, <2>2, <2>3, <3>2
      <4>2. (j - (k - 1)) + k = j + 1
        BY <1>1, <1>20
      <4> QED BY <1>20, <2>2, <3>2, <4>1, <4>2
    <3> QED BY <1>1, <1>20, <3>1, <3>2
  <2> QED BY <2>4, <2>5
<1>7. \A j \in 1 .. n - 1 : t[j] = IF j = k - 1 THEN e ELSE IF j < k THEN s[j] ELSE s[j + 1]
  BY <1>1, <1>20, <1>4, <1>6
<1>8. PICK g : Sums(s, g)
  BY SumsExist
<1>9. g \in [0 .. n -> Nat] /\ g[0] = 0 /\ \A j \in 1 .. n : g[j] = g[j - 1] + s[j].len
  BY <1>8 DEF Sums, n
<1> DEFINE h == [j \in 0 .. n - 1 |-> IF j < k - 1 THEN g[j] ELSE g[j + 1]]
<1>10. h \in [0 .. n - 1 -> Nat] /\ h[0] = 0 /\ h[n - 1] = g[n]
  BY <1>1, <1>20, <1>9, SMTT(30)
<1>11. \A j \in 1 .. n - 1 : h[j] = h[j - 1] + t[j].len
  <2>0. \A j \in 0 .. n - 1 : h[j] = IF j < k - 1 THEN g[j] ELSE g[j + 1]
    OBVIOUS
  <2> HIDE DEF h
  <2> SUFFICES ASSUME NEW j \in 1 .. n - 1 PROVE h[j] = h[j - 1] + t[j].len
    OBVIOUS
  <2>1. CASE j < k - 1
    <3>1. h[j] = g[j] /\ h[j - 1] = g[j - 1] /\ t[j] = s[j] /\ j \in 1 .. n
      BY <1>1, <1>20, <1>7, <2>0, <2>1
    <3> QED BY <1>9, <3>1
  <2>2. CASE j = k - 1
    <3>1. h[j] = g[k] /\ h[j - 1] = g[k - 2] /\ t[j].len = s[k - 1].len + s[k].len
      <4>1. j - 1 = k - 2 /\ j + 1 = k /\ j \in 0 .. n - 1 /\ j - 1 \in 0 .. n - 1 /\ j - 1 < k - 1
        BY <1>1, <1>20, <2>2
      <4>2. ~(j < k - 1)
        BY <1>20, <2>2
      <4> QED BY <1>2, <1>7, <2>0, <2>2, <4>1, <4>2
    <3>2. g[k] = g[k - 1] + s[k].len /\ g[k - 1] = g[k - 2] + s[k - 1].len
      <4>1. k \in 1 .. n /\ k - 1 \in 1 .. n /\ (k - 1) - 1 = k - 2
        BY <1>1, <1>20
      <4>2. g[k - 1] = g[(k - 1) - 1] + s[k - 1].len
        BY <1>9, <4>1
      <4> QED BY <1>9, <4>1, <4>2
    <3>3. g[k - 2] \in Nat /\ s[k].len \in Nat /\ s[k - 1].len \in Nat
      <4>1. k - 2 \in 0 .. n
        BY <1>1, <1>20
      <4>2. g[k - 2] \in Nat
        BY <1>9, <4>1
      <4> QED BY <1>1, <1>20, <4>2
    <3> QED BY <3>1, <3>2, <3>3
  <2>3. CASE j >= k
    <3>1. h[j] = g[j + 1] /\ h[j - 1] = g[j] /\ t[j] = s[j + 1] /\ j + 1 \in 1 .. n /\ (j + 1) - 1 = j
      BY <1>1, <1>20, <1>7, <2>0, <2>3
    <3>2. g[j + 1] = g[(j + 1) - 1] + s[j + 1].len
      BY <1>9, <3>1
    <3> QED BY <3>1, <3>2
  <2> QED BY <1>20, <1>1, <2>1, <2>2, <2>3
<1> HIDE DEF h
<1>12. Sums(t, h)
  BY <1>1, <1>6, <1>10, <1>11 DEF Sums
<1>13. Room(t) = Room(s)
  BY <1>6, <1>8, <1>10, <1>12, RoomIs DEF n
<1>14. \A j \in 1 .. n - 1 :
         LET o == IF j < k THEN j ELSE j + 1
         IN t[j].name = s[o].name /\ t[j].ino = s[o].ino
  BY <1>1, <1>20, <1>2, <1>7
<1>15. t # <<>>
  BY <1>1, <1>6
<1> QED
  BY <1>6, <1>13, <1>14, <1>15 DEF n

-----------------------------------------------------------------------------
(* A new entry                                                             *)

\* d2 is d with one entry more, at z in directory up, that leads to inode x, which
\* nothing led to before.
Adds(d, d2, up, z, name, x) ==
  /\ up \in Near(d) /\ name \in Names /\ x \in Inodes /\ x \notin Linked(d)
  /\ \A j \in Linked(d) \ {up} :
       /\ d2.ino[j].kind = d.ino[j].kind
       /\ IsDir(d, j) => d2.ino[j] = d.ino[j] /\ \A b \in Own(d, j) : d2.blk[b] = d.blk[b]
  /\ IsDir(d, up) /\ IsDir(d2, up) /\ Shape(d2, up)
  /\ z \notin Spots(d, up) /\ Spots(d2, up) = Spots(d, up) \cup {z}
  /\ \A q \in Spots(d, up) : Ent(d2, q).name = Ent(d, q).name /\ Ent(d2, q).ino = Ent(d, q).ino
  /\ Ent(d2, z).name = name /\ Ent(d2, z).ino = x
  /\ d2.ino[x].kind # "none" /\ Shape(d2, x) /\ Named(d2, x) = {} /\ Up(d2, x, up)
  /\ Linked(d) \cup {x} \subseteq d2.ibm

\* The directories below those below the root hold no names.
LEMMA DepthTwo ==
  ASSUME NEW d \in Disks, Rooted(d), NEW i \in Kids(d, kRootIno), NEW j \in Kids(d, i)
  PROVE  j \notin Near(d) /\ i \in Near(d) /\ i # kRootIno
<1>1. i \in Near(d) /\ kRootIno \in Near(d)
  BY DEF Near
<1>2. kRootIno \notin Kids(d, i) /\ kRootIno \notin Kids(d, kRootIno)
  BY <1>1 DEF Rooted
<1>3. ASSUME j \in Kids(d, kRootIno) PROVE FALSE
  <2>1. PICK q \in Named(d, i) : j = Ent(d, q).ino
    BY KidsIs
  <2>2. PICK r \in Named(d, kRootIno) : j = Ent(d, r).ino
    BY <1>3, KidsIs
  <2>3. i = kRootIno
    BY <1>1, <2>1, <2>2 DEF Rooted
  <2> QED BY <1>2, <2>3
<1> QED
  BY <1>1, <1>2, <1>3 DEF Near

\* The entries of a disk to which one was added.
LEMMA AddedNamed ==
  ASSUME NEW d \in Disks, NEW d2 \in Disks, Rooted(d), NEW up, NEW z, NEW name, NEW x,
         Adds(d, d2, up, z, name, x)
  PROVE  /\ \A j \in Linked(d) : /\ d2.ino[j].kind = d.ino[j].kind /\ Shape(d2, j)
                                 /\ Named(d2, j) = Named(d, j) \cup (IF j = up THEN {z} ELSE {})
                                 /\ Kids(d2, j) = Kids(d, j) \cup (IF j = up THEN {x} ELSE {})
                                 /\ Spots(d, j) \subseteq Spots(d2, j)
                                 /\ Spots(d2, j) \ Named(d2, j) = Spots(d, j) \ Named(d, j)
                                 /\ \A q \in Spots(d, j) : /\ Ent(d2, q).name = Ent(d, q).name
                                                           /\ Ent(d2, q).ino = Ent(d, q).ino
         /\ Kids(d2, x) = {}
<1>1. ASSUME NEW j \in Linked(d), j # up
      PROVE  /\ d2.ino[j].kind = d.ino[j].kind /\ Shape(d2, j)
             /\ Named(d2, j) = Named(d, j) /\ Kids(d2, j) = Kids(d, j)
             /\ Spots(d, j) = Spots(d2, j)
             /\ \A q \in Spots(d, j) : Ent(d2, q) = Ent(d, q)
  <2>1. /\ d2.ino[j].kind = d.ino[j].kind
        /\ IsDir(d, j) => d2.ino[j] = d.ino[j] /\ \A b \in Own(d, j) : d2.blk[b] = d.blk[b]
    BY <1>1 DEF Adds
  <2>2. Shape(d, j)
    BY LinkedFacts
  <2> QED BY <2>1, <2>2, SameDir
<1>2. /\ d2.ino[up].kind = d.ino[up].kind /\ Shape(d2, up)
      /\ Named(d2, up) = Named(d, up) \cup {z} /\ Kids(d2, up) = Kids(d, up) \cup {x}
      /\ Spots(d, up) \subseteq Spots(d2, up)
      /\ Spots(d2, up) \ Named(d2, up) = Spots(d, up) \ Named(d, up)
      /\ \A q \in Spots(d, up) : /\ Ent(d2, q).name = Ent(d, q).name
                                 /\ Ent(d2, q).ino = Ent(d, q).ino
  <2>1. /\ z \notin Spots(d, up) /\ Spots(d2, up) = Spots(d, up) \cup {z}
        /\ \A q \in Spots(d, up) : Ent(d2, q).name = Ent(d, q).name /\ Ent(d2, q).ino = Ent(d, q).ino
        /\ Ent(d2, z).name \in Names /\ Ent(d2, z).ino = x /\ Shape(d2, up)
    BY DEF Adds
  <2>2. Named(d2, up) = Named(d, up) \cup {z} /\ z \notin Named(d, up)
    BY <2>1, NamedIs
  <2>3. \A q \in Named(d, up) : Ent(d2, q).ino = Ent(d, q).ino
    BY <2>1, NamedIs
  <2>4. Kids(d2, up) = Kids(d, up) \cup {x}
    BY <2>1, <2>2, <2>3, KidsIs
  <2>5. d2.ino[up].kind = d.ino[up].kind
    BY DEF Adds, IsDir
  <2>6. Spots(d2, up) \ Named(d2, up) = Spots(d, up) \ Named(d, up)
    BY <2>1, <2>2
  <2> QED BY <2>1, <2>2, <2>4, <2>5, <2>6
<1>3. Kids(d2, x) = {}
  BY KidsIs DEF Adds
<1> QED
  BY <1>1, <1>2, <1>3

LEMMA AddedLinked ==
  ASSUME NEW d \in Disks, NEW d2 \in Disks, Rooted(d), NEW up, NEW z, NEW name, NEW x,
         Adds(d, d2, up, z, name, x)
  PROVE  /\ Linked(d2) = Linked(d) \cup {x} /\ Near(d) \subseteq Near(d2)
         /\ Near(d2) \subseteq Near(d) \cup {x}
         /\ \A i \in Near(d2) : \A q \in Named(d2, i) :
              \/ i \in Near(d) /\ q \in Named(d, i) /\ Ent(d2, q).ino = Ent(d, q).ino
              \/ i = up /\ q = z /\ Ent(d2, q).ino = x
         /\ \A i \in Near(d2) : \A j \in Kids(d2, i) :
              \/ i \in Near(d) /\ j \in Kids(d, i) /\ j \in Linked(d)
              \/ i = up /\ j = x
<1>1. up \in Near(d) /\ x \notin Linked(d) /\ Ent(d2, z).ino = x /\ Named(d2, x) = {}
  BY DEF Adds
<1>2. /\ Near(d) \subseteq Linked(d) /\ kRootIno \in Near(d) /\ Kids(d, kRootIno) \subseteq Near(d)
      /\ \A i \in Near(d) : Kids(d, i) \subseteq Linked(d)
  BY DEF Near, Linked
<1>3. \A j \in Linked(d) : Kids(d2, j) = Kids(d, j) \cup (IF j = up THEN {x} ELSE {})
  BY AddedNamed
<1>4. Kids(d2, x) = {}
  BY AddedNamed
<1>5. kRootIno \notin Kids(d, kRootIno)
  BY <1>2 DEF Rooted
<1>6. Linked(d2) = Linked(d) \cup {x} /\ Near(d) \subseteq Near(d2) /\ Near(d2) \subseteq Near(d) \cup {x}
  <2>1. CASE up = kRootIno
    <3>1. Kids(d2, kRootIno) = Kids(d, kRootIno) \cup {x}
      BY <1>2, <1>3, <2>1
    <3>2. \A i \in Kids(d, kRootIno) : Kids(d2, i) = Kids(d, i)
      BY <1>2, <1>3, <1>5, <2>1
    <3> QED BY <1>4, <3>1, <3>2 DEF Near, Linked
  <2>2. CASE up # kRootIno
    <3>1. Kids(d2, kRootIno) = Kids(d, kRootIno)
      BY <1>2, <1>3, <2>2
    <3>2. up \in Kids(d, kRootIno)
      BY <1>1, <2>2 DEF Near
    <3>3. \A i \in Kids(d, kRootIno) : Kids(d2, i) = Kids(d, i) \cup (IF i = up THEN {x} ELSE {})
      BY <1>2, <1>3
    <3> QED BY <3>1, <3>2, <3>3 DEF Near, Linked
  <2> QED BY <2>1, <2>2
<1>7. ASSUME NEW i \in Near(d2), NEW q \in Named(d2, i)
      PROVE  \/ i \in Near(d) /\ q \in Named(d, i) /\ Ent(d2, q).ino = Ent(d, q).ino
             \/ i = up /\ q = z /\ Ent(d2, q).ino = x
  <2>1. i \in Near(d) /\ i \in Linked(d)
    BY <1>1, <1>2, <1>6
  <2>2. Named(d2, i) = Named(d, i) \cup (IF i = up THEN {z} ELSE {})
    BY <2>1, AddedNamed
  <2>3. \A r \in Spots(d, i) : Ent(d2, r).ino = Ent(d, r).ino
    BY <2>1, AddedNamed
  <2>4. CASE q \in Named(d, i)
    BY <2>1, <2>3, <2>4, NamedIs
  <2>5. CASE q \notin Named(d, i)
    BY <1>1, <2>2, <2>5
  <2> QED BY <2>4, <2>5
<1>8. ASSUME NEW i \in Near(d2), NEW j \in Kids(d2, i)
      PROVE  \/ i \in Near(d) /\ j \in Kids(d, i) /\ j \in Linked(d)
             \/ i = up /\ j = x
  <2>1. PICK q \in Named(d2, i) : j = Ent(d2, q).ino
    BY KidsIs
  <2>2. CASE i \in Near(d) /\ q \in Named(d, i) /\ Ent(d2, q).ino = Ent(d, q).ino
    BY <1>2, <2>1, <2>2, KidsIs
  <2> QED BY <1>7, <2>1, <2>2
<1> QED
  BY <1>6, <1>7, <1>8

LEMMA RootedAdd ==
  ASSUME NEW d \in Disks, NEW d2 \in Disks, Rooted(d), NEW up, NEW z, NEW name, NEW x,
         Adds(d, d2, up, z, name, x)
  PROVE  Rooted(d2)
<1>1. /\ up \in Near(d) /\ x \notin Linked(d) /\ Named(d2, x) = {} /\ Up(d2, x, up)
      /\ d2.ino[x].kind # "none" /\ Shape(d2, x) /\ Linked(d) \cup {x} \subseteq d2.ibm
  BY DEF Adds
<1>2. /\ Near(d) \subseteq Linked(d) /\ kRootIno \in Near(d) /\ Kids(d, kRootIno) \subseteq Near(d)
      /\ \A i \in Near(d) : Kids(d, i) \subseteq Linked(d)
  BY DEF Near, Linked
<1>3. Linked(d2) = Linked(d) \cup {x} /\ Near(d2) \subseteq Near(d) \cup {x}
  BY AddedLinked
<1>4. \A i \in Near(d2) : \A q \in Named(d2, i) :
        \/ i \in Near(d) /\ q \in Named(d, i) /\ Ent(d2, q).ino = Ent(d, q).ino
        \/ i = up /\ q = z /\ Ent(d2, q).ino = x
  BY AddedLinked
<1>5. \A i \in Near(d2) : \A j \in Kids(d2, i) :
        \/ i \in Near(d) /\ j \in Kids(d, i) /\ j \in Linked(d)
        \/ i = up /\ j = x
  BY AddedLinked
<1>6. \A i \in Linked(d2) : i \in d2.ibm /\ d2.ino[i].kind # "none" /\ Shape(d2, i)
  <2>1. \A i \in Linked(d) : d2.ino[i].kind = d.ino[i].kind /\ Shape(d2, i) /\ d.ino[i].kind # "none"
    BY AddedNamed, LinkedFacts
  <2> QED BY <1>1, <1>3, <2>1
<1>7. \A i \in Near(d2) : kRootIno \notin Kids(d2, i)
  <2>1. \A i \in Near(d) : kRootIno \notin Kids(d, i)
    BY DEF Rooted
  <2> QED BY <1>1, <1>2, <1>5, <2>1
<1>8. ASSUME NEW i \in Near(d2), NEW j \in Near(d2), NEW q \in Named(d2, i), NEW r \in Named(d2, j),
             Ent(d2, q).ino = Ent(d2, r).ino
      PROVE  i = j /\ q = r
  <2>1. \A k \in Near(d) : \A y \in Named(d, k) : Ent(d, y).ino \in Linked(d)
    BY <1>2, KidsIs
  <2>2. CASE i \in Near(d) /\ q \in Named(d, i) /\ Ent(d2, q).ino = Ent(d, q).ino
    <3>1. Ent(d2, q).ino \in Linked(d)
      BY <2>1, <2>2
    <3>2. j \in Near(d) /\ r \in Named(d, j) /\ Ent(d2, r).ino = Ent(d, r).ino
      BY <1>1, <1>4, <1>8, <3>1
    <3>3. Ent(d, q).ino = Ent(d, r).ino
      BY <1>8, <2>2, <3>2
    <3> QED BY <2>2, <3>2, <3>3 DEF Rooted
  <2>3. CASE i = up /\ q = z /\ Ent(d2, q).ino = x
    <3>1. ~(j \in Near(d) /\ r \in Named(d, j) /\ Ent(d2, r).ino = Ent(d, r).ino)
      BY <1>1, <1>8, <2>1, <2>3
    <3> QED BY <1>4, <2>3, <3>1
  <2> QED BY <1>4, <2>2, <2>3
<1>9. ASSUME NEW i \in Kids(d2, kRootIno), NEW j \in Kids(d2, i) PROVE Named(d2, j) = {}
  <2>1. i \in Near(d2) /\ kRootIno \in Near(d2)
    BY DEF Near
  <2>2. CASE j = x
    BY <1>1, <2>2
  <2>3. CASE j # x
    <3>1. i \in Near(d) /\ j \in Kids(d, i) /\ j \in Linked(d)
      BY <1>5, <2>1, <2>3
    <3>2. i \in Kids(d, kRootIno)
      BY <1>1, <1>2, <1>5, <2>1, <3>1
    <3>3. Named(d, j) = {}
      BY <3>1, <3>2 DEF Rooted
    <3>4. j # up
      BY <1>1, <3>1, <3>2, DepthTwo
    <3>5. Named(d2, j) = Named(d, j) \cup (IF j = up THEN {z} ELSE {})
      BY <3>1, AddedNamed
    <3> QED BY <3>3, <3>4, <3>5
  <2> QED BY <2>2, <2>3
<1>10. ASSUME NEW j \in Linked(d), NEW w, Up(d, j, w) PROVE Up(d2, j, w)
  <2>1. /\ Spots(d, j) \subseteq Spots(d2, j) /\ d2.ino[j].kind = d.ino[j].kind
        /\ Spots(d2, j) \ Named(d2, j) = Spots(d, j) \ Named(d, j)
        /\ \A q \in Spots(d, j) : Ent(d2, q).name = Ent(d, q).name /\ Ent(d2, q).ino = Ent(d, q).ino
    BY AddedNamed
  <2>2. ASSUME IsDir(d2, j)
        PROVE  /\ \E q \in Spots(d, j) : Ent(d, q).name = ".."
               /\ \A q \in Spots(d, j) \ Named(d, j) :
                    \/ Ent(d, q).name = "." /\ Ent(d, q).ino = j
                    \/ Ent(d, q).name = ".." /\ Ent(d, q).ino = w
    BY <1>10, <2>1, <2>2 DEF Up, IsDir
  <2>3. ASSUME IsDir(d2, j)
        PROVE  /\ \E q \in Spots(d2, j) : Ent(d2, q).name = ".."
               /\ \A q \in Spots(d2, j) \ Named(d2, j) :
                    \/ Ent(d2, q).name = "." /\ Ent(d2, q).ino = j
                    \/ Ent(d2, q).name = ".." /\ Ent(d2, q).ino = w
    BY <2>1, <2>2, <2>3
  <2> QED BY <2>3 DEF Up
<1>11. IsDir(d2, kRootIno) /\ Up(d2, kRootIno, kRootIno)
  <2>1. IsDir(d, kRootIno) /\ Up(d, kRootIno, kRootIno) /\ kRootIno \in Linked(d)
    BY <1>2 DEF Rooted
  <2>2. d2.ino[kRootIno].kind = d.ino[kRootIno].kind
    BY <2>1, AddedNamed
  <2> QED BY <1>10, <2>1, <2>2 DEF IsDir
<1>12. ASSUME NEW i \in Near(d2), NEW j \in Kids(d2, i) PROVE Up(d2, j, i)
  <2>1. CASE i \in Near(d) /\ j \in Kids(d, i) /\ j \in Linked(d)
    <3>1. Up(d, j, i)
      BY <2>1 DEF Rooted
    <3> QED BY <1>10, <2>1, <3>1
  <2>2. CASE i = up /\ j = x
    BY <1>1, <2>2
  <2> QED BY <1>5, <2>1, <2>2
<1> QED
  BY <1>6, <1>7, <1>8, <1>9, <1>11, <1>12 DEF Rooted

\* The path now leads to the new inode.
LEMMA AddedLookup ==
  ASSUME NEW d \in Disks, NEW d2 \in Disks, Rooted(d), NEW up, NEW z, NEW name, NEW x,
         Adds(d, d2, up, z, name, x), NEW path \in Paths,
         up = lookup_abs(d, Front(path)), name = Last(path)
  PROVE  lookup_abs(d2, path) = x
<1>1. Rooted(d2) /\ Near(d) \subseteq Near(d2)
  BY RootedAdd, AddedLinked
<1>2. up \in Near(d) /\ name \in Names /\ Ent(d2, z).name = name /\ Ent(d2, z).ino = x /\ x \in Inodes
      /\ up # 0
  BY LinkedFacts DEF Adds
<1>3. Near(d) \subseteq Linked(d) /\ kRootIno \in Near(d)
  BY LinkedFacts
<1>4. lookup_abs(d2, Front(path)) = up
  <2>1. ASSUME NEW a \in Tops, path = <<a>> PROVE lookup_abs(d2, Front(path)) = up
    <3>1. Front(path) = <<>>
      BY <2>1, PathEnds
    <3> QED BY <3>1, LookupRoot
  <2>2. ASSUME NEW a \in Homes, NEW b \in Subs, path = <<a, b>> PROVE lookup_abs(d2, Front(path)) = up
    <3>1. Front(path) = <<a>> /\ a \in Names
      BY <2>2, PathEnds, NamesAssumption DEF Names
    <3>2. up = Child(d, kRootIno, a) /\ lookup_abs(d2, Front(path)) = Child(d2, kRootIno, a)
      BY <3>1, LookupTop
    <3>3. PICK q \in Named(d, kRootIno) : Ent(d, q).name = a /\ Ent(d, q).ino = up
      BY <1>2, <1>3, <3>1, <3>2, ChildNear
    <3>4. q \in Named(d2, kRootIno) /\ Ent(d2, q).name = a /\ Ent(d2, q).ino = up
      BY <1>3, <3>3, AddedNamed, NamedIs
    <3>5. Child(d2, kRootIno, a) = Ent(d2, q).ino
      BY <1>1, <1>3, <3>1, <3>4, ChildNear
    <3> QED BY <3>2, <3>4, <3>5
  <2> QED BY <2>1, <2>2, PathIs
<1>5. z \in Named(d2, up)
  <2>1. up \in Linked(d)
    BY <1>2, <1>3
  <2> QED BY <2>1, AddedNamed
<1>6. lookup_abs(d2, path) = Child(d2, up, name)
  BY <1>4, LookupLast
<1> QED
  BY <1>1, <1>2, <1>5, <1>6, ChildNear

Writes(d, d2, b, v) == d2 = [d EXCEPT !.blk[b] = v]

LEMMA WriteOne ==
  ASSUME NEW d \in Disks, NEW b \in Blocks, NEW v \in DataBlocks \cup DirBlocks,
         NEW d2, Writes(d, d2, b, v)
  PROVE  /\ d2 \in Disks /\ d2.bbm = d.bbm /\ d2.ibm = d.ibm /\ d2.ino = d.ino
         /\ d2.fb = d.fb /\ d2.fi = d.fi
         /\ d2.blk[b] = v /\ \A a \in Blocks \ {b} : d2.blk[a] = d.blk[a]
<1> DEFINE B == [d.blk EXCEPT ![b] = v]
<1>1. d.blk \in [Blocks -> DataBlocks \cup DirBlocks]
  BY DiskTypes
<1>2. B \in [Blocks -> DataBlocks \cup DirBlocks] /\ B[b] = v /\ \A a \in Blocks \ {b} : B[a] = d.blk[a]
  BY <1>1
<1>3. d2 = [d EXCEPT !.blk = B]
  BY DEF Writes
<1> HIDE DEF B
<1> QED
  BY <1>2, <1>3 DEF Disks

LEMMA BlockTypes ==
  ASSUME NEW d \in Disks, NEW b \in Blocks
  PROVE  d.blk[b] \in DataBlocks \cup DirBlocks /\ d.blk[b].ents \in Seq(Entries)
<1>1. d.blk[b] \in DataBlocks \cup DirBlocks
  BY DiskTypes
<1>2. <<>> \in Seq(Entries)
  OBVIOUS
<1> QED
  BY <1>1, <1>2 DEF DataBlocks, DirBlocks

LEMMA DirBlockIs ==
  ASSUME NEW s \in Seq(Entries), NEW b, b = DirBlock(s)
  PROVE  b \in DirBlocks /\ b.use = "dir" /\ b.ents = s
  BY DEF DirBlock, DirBlocks

\* The inode an entry is to lead to.
Ready(d, x, up) ==
  /\ x \in Inodes /\ x \notin Linked(d) /\ x \in d.ibm /\ d.ino[x].kind # "none"
  /\ Shape(d, x) /\ Named(d, x) = {} /\ Up(d, x, up)

LEMMA ReadyKept ==
  ASSUME NEW d, NEW d2, NEW x, NEW up, Ready(d, x, up), d2.ino[x] = d.ino[x],
         \A b \in Own(d, x) : d2.blk[b] = d.blk[b]
  PROVE  d2.ino[x].kind # "none" /\ Shape(d2, x) /\ Named(d2, x) = {} /\ Up(d2, x, up)
<1>1. /\ Spots(d2, x) = Spots(d, x) /\ \A q \in Spots(d, x) : Ent(d2, q) = Ent(d, q)
      /\ Named(d2, x) = Named(d, x) /\ Shape(d2, x)
  BY SameDir DEF Ready
<1>2. Named(d, x) = {} /\ Up(d, x, up) /\ d.ino[x].kind # "none"
  BY DEF Ready
<1>3. Up(d2, x, up)
  <2>1. IsDir(d2, x) <=> IsDir(d, x)
    BY DEF IsDir
  <2> QED BY <1>1, <1>2, <2>1 DEF Up
<1> QED
  BY <1>1, <1>2, <1>3

LEMMA GoodAdd ==
  ASSUME NEW F, NEW d, Good(d, F), NEW d2 \in Disks, 0 \in d2.bbm,
         NEW up, NEW z, NEW name, NEW x \in F, Adds(d, d2, up, z, name, x),
         NEW S, S = Linked(d) \cup F, Moves(d, d2, S, S, up)
  PROVE  Good(d2, F) /\ Linked(d2) = Linked(d) \cup {x}
<1>1. d \in Disks /\ Rooted(d) /\ Spread(d, S)
  BY DEF Good
<1>2. Rooted(d2) /\ Linked(d2) = Linked(d) \cup {x}
  BY <1>1, RootedAdd, AddedLinked
<1>3. Spread(d2, S)
  BY <1>1, SpreadStep
<1>4. Linked(d2) \cup F = S
  BY <1>2
<1> QED
  BY <1>2, <1>3, <1>4 DEF Good

\* A name that is not yet in directory up.
Fresh(d, up, name) == name \in Names /\ \A q \in Named(d, up) : Ent(d, q).name # name

\* The entry goes behind the last one of a block.
LEMMA AddSlack ==
  ASSUME NEW F, NEW d, Good(d, F), NEW x \in F, NEW up \in Near(d), IsDir(d, up), Ready(d, x, up),
         NEW name, Fresh(d, up, name), NEW b \in Own(d, up), Slack(d.blk[b].ents),
         NEW d2, Writes(d, d2, b, DirBlock(AddTo(d.blk[b].ents, name, x)))
  PROVE  /\ Good(d2, F) /\ \E z : Adds(d, d2, up, z, name, x)
         /\ d2.bbm = d.bbm /\ d2.ibm = d.ibm /\ d2.fb = d.fb /\ d2.fi = d.fi
<1> DEFINE s == d.blk[b].ents
           t == AddTo(s, name, x)
           n == Len(s)
           z == <<b, n + 1>>
           S == Linked(d) \cup F
<1>1. /\ d \in Disks /\ Rooted(d) /\ 0 \in d.bbm /\ Spread(d, S)
      /\ up \in Linked(d) /\ up \in Inodes /\ Shape(d, up) /\ Linked(d) \subseteq d.ibm
  BY LinkedFacts DEF Good
<1>2. b \in Blocks /\ s \in Seq(Entries)
  BY <1>1, OwnInBlocks, BlockTypes
<1>3. s # <<>> /\ Room(s) = kSlots
  BY <1>1 DEF Shape
<1>4. name \in Names /\ x \in Inodes /\ x \notin Linked(d) /\ x \in d.ibm
  BY DEF Fresh, Ready
<1>5. /\ t \in Seq(Entries) /\ Len(t) = n + 1 /\ Room(t) = kSlots /\ t # <<>>
      /\ \A k \in 1 .. n : t[k].name = s[k].name /\ t[k].ino = s[k].ino
      /\ t[n + 1].name = name /\ t[n + 1].ino = x
  BY <1>2, <1>3, <1>4, AddToIs
<1>6. n \in Nat /\ DOMAIN s = 1 .. n /\ DOMAIN t = 1 .. n + 1
  BY <1>2, <1>5
<1> HIDE DEF t
<1>7. /\ d2 \in Disks /\ d2.bbm = d.bbm /\ d2.ibm = d.ibm /\ d2.ino = d.ino
      /\ d2.fb = d.fb /\ d2.fi = d.fi
      /\ d2.blk[b].use = "dir" /\ d2.blk[b].ents = t
      /\ \A a \in Blocks \ {b} : d2.blk[a] = d.blk[a]
  <2> DEFINE v == DirBlock(t)
  <2>1. v \in DirBlocks /\ v.use = "dir" /\ v.ents = t
    BY <1>5, DirBlockIs
  <2>2. Writes(d, d2, b, v)
    BY DEF t, s
  <2>3. v \in DataBlocks \cup DirBlocks
    BY <2>1
  <2> HIDE DEF v
  <2>4. /\ d2 \in Disks /\ d2.bbm = d.bbm /\ d2.ibm = d.ibm /\ d2.ino = d.ino
        /\ d2.fb = d.fb /\ d2.fi = d.fi
        /\ d2.blk[b] = v /\ \A a \in Blocks \ {b} : d2.blk[a] = d.blk[a]
    <3>1. d \in Disks /\ b \in Blocks
      BY <1>1, <1>2
    <3> HIDE DEF S, s, n, z
    <3> QED BY <2>2, <2>3, <3>1, WriteOne
  <2> QED BY <2>1, <2>4
<1> HIDE DEF s, n
<1>8. \A j : Own(d2, j) = Own(d, j) /\ (IsDir(d2, j) <=> IsDir(d, j))
  BY <1>7 DEF Own, IsDir
<1>9. \A j \in S \ {up} : b \notin Own(d, j) /\ Own(d, j) \subseteq d.bbm
  BY <1>1 DEF Spread, Sound
<1>10. \A q \in Spots(d, up) : /\ q[1] \in Own(d, up) /\ q[1] \in Blocks /\ q[2] \in Nat \ {0}
                               /\ q = <<q[1], q[2]>> /\ q[2] \in DOMAIN d.blk[q[1]].ents
  BY <1>1, EntTypes
<1>11. d.blk[b].ents = s
  BY DEF s
<1>12. z \notin Spots(d, up)
  BY <1>6, <1>10, <1>11
<1>13. Spots(d2, up) = Spots(d, up) \cup {z}
  <2>1. ASSUME NEW q \in Spots(d, up) PROVE q \in Spots(d2, up)
    <3>1. q[2] \in DOMAIN d2.blk[q[1]].ents
      BY <1>6, <1>7, <1>10, <1>11
    <3>2. <<q[1], q[2]>> \in Spots(d2, up)
      BY <1>8, <1>10, <3>1, SpotIs
    <3> QED BY <1>10, <3>2
  <2>2. z \in Spots(d2, up)
    <3>1. n + 1 \in Nat \ {0} /\ n + 1 \in DOMAIN d2.blk[b].ents
      BY <1>6, <1>7
    <3> QED BY <1>8, <3>1, SpotIs
  <2>3. ASSUME NEW q \in Spots(d2, up), q # z PROVE q \in Spots(d, up)
    <3>1. q[1] \in Own(d, up) /\ q[2] \in Nat \ {0} /\ q = <<q[1], q[2]>> /\ q[1] \in Blocks
          /\ q[2] \in DOMAIN d2.blk[q[1]].ents
      BY <1>1, <1>7, <1>8, EntTypes
    <3>2. q[2] \in DOMAIN d.blk[q[1]].ents
      <4>1. CASE q[1] = b
        <5>1. q[2] # n + 1
          BY <2>3, <3>1, <4>1
        <5> QED BY <1>6, <1>7, <1>11, <3>1, <4>1, <5>1
      <4>2. CASE q[1] # b
        BY <1>7, <3>1, <4>2
      <4> QED BY <4>1, <4>2
    <3>3. <<q[1], q[2]>> \in Spots(d, up)
      BY <3>1, <3>2, SpotIs
    <3> QED BY <3>1, <3>3
  <2> QED BY <2>1, <2>2, <2>3
<1>14. \A q \in Spots(d, up) : Ent(d2, q).name = Ent(d, q).name /\ Ent(d2, q).ino = Ent(d, q).ino
  <2> SUFFICES ASSUME NEW q \in Spots(d, up)
               PROVE  Ent(d2, q).name = Ent(d, q).name /\ Ent(d2, q).ino = Ent(d, q).ino
    OBVIOUS
  <2>1. CASE q[1] = b
    <3>1. q[2] \in 1 .. n
      BY <1>6, <1>10, <1>11, <2>1
    <3> QED BY <1>5, <1>7, <1>11, <2>1, <3>1 DEF Ent
  <2>2. CASE q[1] # b
    BY <1>7, <1>10, <2>2 DEF Ent
  <2> QED BY <2>1, <2>2
<1>15. Ent(d2, z).name = name /\ Ent(d2, z).ino = x
  BY <1>5, <1>7 DEF Ent
<1>16. Shape(d2, up)
  <2>1. /\ NumBlocks(d.ino[up]) = Len(d.ino[up].ext)
        /\ \A k \in DOMAIN d.ino[up].ext : d.ino[up].ext[k].l = k - 1 /\ d.ino[up].ext[k].n = 1
        /\ \A a \in Own(d, up) : /\ d.blk[a].use = "dir" /\ d.blk[a].ents # <<>>
                                 /\ Room(d.blk[a].ents) = kSlots
        /\ \A q, r \in Spots(d, up) : Ent(d, q).name = Ent(d, r).name => q = r
    BY <1>1 DEF Shape
  <2>2. ASSUME NEW a \in Own(d2, up)
        PROVE  d2.blk[a].use = "dir" /\ d2.blk[a].ents # <<>> /\ Room(d2.blk[a].ents) = kSlots
    <3>1. a \in Own(d, up) /\ a \in Blocks
      BY <1>1, <1>8, OwnInBlocks
    <3>2. CASE a = b
      BY <1>5, <1>7, <3>2
    <3>3. CASE a # b
      BY <1>7, <2>1, <3>1, <3>3
    <3> QED BY <3>2, <3>3
  <2>3. \A q \in Spots(d, up) : Ent(d, q).name # name
    BY <1>4, NamedIs DEF Fresh
  <2>4. \A q, r \in Spots(d2, up) : Ent(d2, q).name = Ent(d2, r).name => q = r
    BY <1>13, <1>14, <1>15, <2>1, <2>3
  <2> QED BY <1>7, <2>1, <2>2, <2>4, Zenon DEF Shape
<1>17. d2.ino[x].kind # "none" /\ Shape(d2, x) /\ Named(d2, x) = {} /\ Up(d2, x, up)
  <2>1. \A a \in Own(d, x) : d2.blk[a] = d.blk[a]
    <3>1. b \notin Own(d, x) /\ Own(d, x) \subseteq Blocks
      BY <1>1, <1>4, <1>9, OwnInBlocks
    <3> QED BY <1>7, <3>1
  <2>2. d2.ino[x] = d.ino[x]
    BY <1>7
  <2> QED BY <2>1, <2>2, ReadyKept, Zenon
<1>18. \A j \in Linked(d) \ {up} :
         /\ d2.ino[j].kind = d.ino[j].kind
         /\ IsDir(d, j) => d2.ino[j] = d.ino[j] /\ \A a \in Own(d, j) : d2.blk[a] = d.blk[a]
  <2> SUFFICES ASSUME NEW j \in Linked(d) \ {up} PROVE \A a \in Own(d, j) : d2.blk[a] = d.blk[a]
    BY <1>7
  <2>1. b \notin Own(d, j) /\ Own(d, j) \subseteq Blocks
    BY <1>1, <1>9, LinkedFacts, OwnInBlocks
  <2> QED BY <1>7, <2>1
<1>19. IsDir(d2, up) /\ Linked(d) \cup {x} \subseteq d2.ibm
  BY <1>1, <1>4, <1>7, <1>8
<1> HIDE DEF z
<1>20. Adds(d, d2, up, z, name, x)
  BY <1>4, <1>12, <1>13, <1>14, <1>15, <1>16, <1>17, <1>18, <1>19 DEF Adds
<1>21. Moves(d, d2, S, S, up)
  <2>1. \A i \in S \ {up} : d2.ino[i].ext = d.ino[i].ext /\ Own(d, i) \subseteq d2.bbm
    BY <1>7, <1>9
  <2>2. up \in S /\ Sound(d, up) /\ \A i \in S \ {up} : Own(d2, up) \cap Own(d, i) = {}
    BY <1>1, <1>8 DEF Spread
  <2>4. S \subseteq S \cup {up}
    OBVIOUS
  <2>3. Sound(d2, up)
    BY <1>7, <1>8, <2>2 DEF Sound
  <2> HIDE DEF S
  <2> QED BY <2>1, <2>2, <2>3, <2>4, Zenon DEF Moves
<1>22. 0 \in d2.bbm
  BY <1>1, <1>7
<1> HIDE DEF S
<1>23. S = Linked(d) \cup F
  BY DEF S
<1>24. Good(d2, F)
  BY <1>7, <1>20, <1>21, <1>22, <1>23, GoodAdd
<1> QED
  BY <1>7, <1>20, <1>24

\* One extent more.
Appended(t, s, e) == t = Append(s, e)

LEMMA AppendExt ==
  ASSUME NEW s \in ExtLists, Len(s) < kExtents, NEW e \in Extents, NEW t, Appended(t, s, e)
  PROVE  /\ t \in ExtLists /\ Len(t) = Len(s) + 1 /\ DOMAIN t = 1 .. Len(s) + 1
         /\ \A k \in 1 .. Len(s) : t[k] = s[k]
         /\ t[Len(s) + 1] = e
         /\ BlocksIn(t) = BlocksIn(s) \cup Run(e)
         /\ Disjoint(s) /\ Run(e) \cap BlocksIn(s) = {} => Disjoint(t)
<1>1. s \in Seq(Extents) /\ Len(s) \in Nat /\ DOMAIN s = 1 .. Len(s)
  BY DEF ExtLists
<1>2. /\ t \in Seq(Extents) /\ Len(t) = Len(s) + 1 /\ DOMAIN t = 1 .. Len(s) + 1
      /\ (\A k \in 1 .. Len(s) : t[k] = s[k]) /\ t[Len(s) + 1] = e
  BY <1>1 DEF Appended
<1>3. t \in ExtLists
  BY <1>1, <1>2, Sizes DEF ExtLists
<1> DEFINE m == Len(s)
<1> HIDE DEF m
<1>4. \A k : k \in DOMAIN t <=> k \in DOMAIN s \/ k = m + 1
  BY <1>1, <1>2 DEF m
<1>5. (\A k \in DOMAIN s : t[k] = s[k]) /\ t[m + 1] = e
  BY <1>1, <1>2 DEF m
<1>6. BlocksIn(t) = BlocksIn(s) \cup Run(e)
  <2>1. ASSUME NEW b PROVE b \in BlocksIn(t) <=> b \in BlocksIn(s) \/ b \in Run(e)
    <3>1. b \in BlocksIn(t) <=> \E k \in DOMAIN t : b \in Run(t[k])
      BY InBlocksIn
    <3>2. b \in BlocksIn(s) <=> \E k \in DOMAIN s : b \in Run(s[k])
      BY InBlocksIn
    <3> QED BY <1>4, <1>5, <3>1, <3>2
  <2> QED BY <2>1
<1>7. ASSUME Disjoint(s), Run(e) \cap BlocksIn(s) = {} PROVE Disjoint(t)
  <2>1. \A k \in DOMAIN s : Run(s[k]) \subseteq BlocksIn(s)
    BY InBlocksIn
  <2>2. ASSUME NEW j \in DOMAIN t, NEW k \in DOMAIN t, j # k PROVE Run(t[j]) \cap Run(t[k]) = {}
    <3>1. CASE j \in DOMAIN s /\ k \in DOMAIN s
      BY <1>5, <1>7, <2>2, <3>1 DEF Disjoint
    <3>2. CASE j \notin DOMAIN s
      <4>1. j = m + 1 /\ k \in DOMAIN s
        BY <1>4, <2>2, <3>2
      <4> QED BY <1>5, <1>7, <2>1, <4>1
    <3>3. CASE k \notin DOMAIN s
      <4>1. k = m + 1 /\ j \in DOMAIN s
        BY <1>4, <2>2, <3>3
      <4> QED BY <1>5, <1>7, <2>1, <4>1
    <3> QED BY <3>1, <3>2, <3>3
  <2> QED BY <2>2 DEF Disjoint
<1> QED
  BY <1>2, <1>3, <1>6, <1>7

LEMMA ExtentIs ==
  ASSUME NEW l \in Nat, NEW n \in Nat, n > 0, NEW p \in Nat, p + n <= kBlocks, NEW e, e = Extent(l, n, p)
  PROVE  e \in Extents /\ e.l = l /\ e.n = n /\ e.p = p /\ Run(e) = p .. p + n - 1
<1>1. e.l = l /\ e.n = n /\ e.p = p
  BY DEF Extent
<1>2. n \in 1 .. kBlocks /\ p \in Blocks
  BY Sizes DEF Blocks
<1>3. e \in [l : Nat, n : 1 .. kBlocks, p : Blocks]
  BY <1>2 DEF Extent
<1> QED
  BY <1>1, <1>3 DEF Extents, Run

LongerDir(o, p) ==
  [o EXCEPT !.size = @ + kBytes, !.ext = Append(@, Extent(NumBlocks(o), 1, p))]

LEMMA InodeGrown ==
  ASSUME NEW d \in Disks, NEW up \in Inodes, IsDir(d, up), Shape(d, up), Len(d.ino[up].ext) < kExtents,
         NEW p \in Blocks,
         NEW inode, inode = LongerDir(d.ino[up], p)
  PROVE  /\ inode \in InodeRecs /\ inode.kind = "dir"
         /\ BlocksIn(inode.ext) = Own(d, up) \cup {p}
         /\ NumBlocks(inode) = Len(inode.ext)
         /\ \A k \in DOMAIN inode.ext : inode.ext[k].l = k - 1 /\ inode.ext[k].n = 1
         /\ Disjoint(d.ino[up].ext) /\ p \notin Own(d, up) => Disjoint(inode.ext)
<1> DEFINE o == d.ino[up]
           s == o.ext
           m == Len(s)
           e == Extent(m, 1, p)
           t == Append(s, e)
<1>1. o \in InodeRecs /\ o.kind = "dir" /\ o.size \in Nat /\ s \in ExtLists /\ m \in Nat /\ DOMAIN s = 1 .. m
  BY ExtTypes DEF IsDir
<1>2. NumBlocks(o) = m /\ \A k \in DOMAIN s : s[k].l = k - 1 /\ s[k].n = 1
  BY DEF Shape
<1>3. p \in Nat /\ p + 1 <= kBlocks /\ p .. p + 1 - 1 = {p}
  BY Sizes DEF Blocks
<1>4. e \in Extents /\ e.l = m /\ e.n = 1 /\ Run(e) = {p}
  <2>1. 1 \in Nat /\ 1 > 0
    OBVIOUS
  <2> HIDE DEF m
  <2>2. e \in Extents /\ e.l = m /\ e.n = 1 /\ Run(e) = p .. p + 1 - 1
    BY <1>1, <1>3, <2>1, ExtentIs
  <2> QED BY <1>3, <2>2
<1> HIDE DEF e
<1>5. /\ t \in ExtLists /\ Len(t) = m + 1 /\ DOMAIN t = 1 .. m + 1
      /\ (\A k \in 1 .. m : t[k] = s[k]) /\ t[m + 1] = e
      /\ BlocksIn(t) = BlocksIn(s) \cup {p}
      /\ Disjoint(s) /\ {p} \cap BlocksIn(s) = {} => Disjoint(t)
  <2>1. Len(s) < kExtents /\ Appended(t, s, e)
    BY DEF Appended
  <2> HIDE DEF t, s
  <2>2. /\ t \in ExtLists /\ Len(t) = Len(s) + 1 /\ DOMAIN t = 1 .. Len(s) + 1
        /\ (\A k \in 1 .. Len(s) : t[k] = s[k]) /\ t[Len(s) + 1] = e
        /\ BlocksIn(t) = BlocksIn(s) \cup Run(e)
        /\ Disjoint(s) /\ Run(e) \cap BlocksIn(s) = {} => Disjoint(t)
    BY <1>1, <1>4, <2>1, AppendExt
  <2> QED BY <1>4, <2>2
<1>6. inode = [o EXCEPT !.size = o.size + kBytes, !.ext = t]
  BY <1>2 DEF e, LongerDir
<1> HIDE DEF t, m, o
<1>7. inode \in InodeRecs /\ inode.kind = "dir" /\ inode.size = o.size + kBytes /\ inode.ext = t
  <2>1. o.size + kBytes \in Nat
    BY <1>1, Sizes
  <2> QED BY <1>1, <1>5, <1>6, <2>1 DEF InodeRecs
<1>8. NumBlocks(inode) = Len(t)
  <2>1. CeilDiv(o.size + kBytes, kBytes) = CeilDiv(o.size, kBytes) + 1
    BY <1>1, CeilFacts
  <2> QED BY <1>2, <1>5, <1>7, <2>1 DEF NumBlocks
<1>9. \A k \in DOMAIN t : t[k].l = k - 1 /\ t[k].n = 1
  <2> SUFFICES ASSUME NEW k \in DOMAIN t PROVE t[k].l = k - 1 /\ t[k].n = 1
    OBVIOUS
  <2>1. CASE k \in 1 .. m
    BY <1>1, <1>2, <1>5, <2>1
  <2>2. CASE k = m + 1
    BY <1>1, <1>4, <1>5, <2>2
  <2> QED BY <1>1, <1>5, <2>1, <2>2
<1> QED
  BY <1>5, <1>7, <1>8, <1>9 DEF Own, o

\* What GrowDir() comes to: block p is part of directory up and holds the entry.
Grown(d, d2, up, p, name, x) ==
  /\ d2 \in Disks /\ d2.bbm = d.bbm \cup {p} /\ d2.ibm = d.ibm
  /\ \A j \in Inodes \ {up} : d2.ino[j] = d.ino[j]
  /\ d2.ino[up] = LongerDir(d.ino[up], p)
  /\ d2.blk[p] = DirBlock(<<Entry(name, x, kSlots)>>)
  /\ \A b \in Blocks \ {p} : d2.blk[b] = d.blk[b]

LEMMA AddGrown ==
  ASSUME NEW F \in SUBSET Inodes, NEW d, Good(d, F), NEW x \in F, NEW up \in Near(d), IsDir(d, up),
         Ready(d, x, up), NEW name, Fresh(d, up, name),
         NEW p \in Blocks, p \notin d.bbm, Len(d.ino[up].ext) < kExtents,
         NEW d2, Grown(d, d2, up, p, name, x)
  PROVE  /\ Good(d2, F) /\ \E z : Adds(d, d2, up, z, name, x)
<1> DEFINE t == <<Entry(name, x, kSlots)>>
           z == <<p, 1>>
           S == Linked(d) \cup F
<1>1. /\ d \in Disks /\ Rooted(d) /\ 0 \in d.bbm /\ Spread(d, S)
      /\ up \in Linked(d) /\ up \in Inodes /\ Shape(d, up) /\ Linked(d) \subseteq d.ibm
      /\ Linked(d) \subseteq Inodes
  BY LinkedFacts DEF Good
<1>4. name \in Names /\ x \in Inodes /\ x \notin Linked(d) /\ x \in d.ibm
  BY DEF Fresh, Ready
<1>5. /\ t \in Seq(Entries) /\ DOMAIN t = {1} /\ Room(t) = kSlots /\ t # <<>>
      /\ t[1].name = name /\ t[1].ino = x
  <2> DEFINE e == Entry(name, x, kSlots)
  <2>1. name \in Labels
    BY <1>4, Zenon DEF Labels
  <2>2. x \in 0 .. kInodes /\ kSlots \in Nat
    BY <1>4, Sizes DEF Inodes
  <2>3. e \in Entries /\ e.name = name /\ e.ino = x /\ e.len = kSlots
    BY <2>1, <2>2, EntryIs
  <2> HIDE DEF e
  <2>4. Room(<<e>>) = kSlots
    BY <2>3, RoomOne
  <2>5. <<e>> \in Seq(Entries) /\ DOMAIN <<e>> = {1} /\ <<e>> # <<>> /\ <<e>>[1] = e
    BY <2>3
  <2> QED BY <2>3, <2>4, <2>5 DEF e
<1> HIDE DEF t
<1>7. /\ d2 \in Disks /\ d2.bbm = d.bbm \cup {p} /\ d2.ibm = d.ibm
      /\ \A j \in Inodes \ {up} : d2.ino[j] = d.ino[j]
      /\ d2.blk[p].use = "dir" /\ d2.blk[p].ents = t
      /\ \A b \in Blocks \ {p} : d2.blk[b] = d.blk[b]
  <2>1. d2.blk[p] = DirBlock(t)
    BY DEF Grown, t
  <2> QED BY <1>5, <2>1, DirBlockIs DEF Grown
<1>8. /\ d2.ino[up].kind = "dir" /\ Own(d2, up) = Own(d, up) \cup {p}
      /\ NumBlocks(d2.ino[up]) = Len(d2.ino[up].ext)
      /\ \A k \in DOMAIN d2.ino[up].ext : d2.ino[up].ext[k].l = k - 1 /\ d2.ino[up].ext[k].n = 1
      /\ Disjoint(d.ino[up].ext) /\ p \notin Own(d, up) => Disjoint(d2.ino[up].ext)
  <2> DEFINE inode == d2.ino[up]
  <2>1. inode = LongerDir(d.ino[up], p)
    BY DEF Grown
  <2> HIDE DEF inode
  <2>2. /\ inode.kind = "dir" /\ BlocksIn(inode.ext) = Own(d, up) \cup {p}
        /\ NumBlocks(inode) = Len(inode.ext)
        /\ \A k \in DOMAIN inode.ext : inode.ext[k].l = k - 1 /\ inode.ext[k].n = 1
        /\ Disjoint(d.ino[up].ext) /\ p \notin Own(d, up) => Disjoint(inode.ext)
    BY <1>1, <2>1, InodeGrown
  <2> QED BY <2>2 DEF inode, Own
<1>9. \A j \in S : p \notin Own(d, j) /\ Own(d, j) \subseteq d.bbm \ {0}
  BY <1>1 DEF Spread, Sound
<1>10. \A q \in Spots(d, up) : /\ q[1] \in Own(d, up) /\ q[1] \in Blocks /\ q[2] \in Nat \ {0}
                               /\ q = <<q[1], q[2]>> /\ q[2] \in DOMAIN d.blk[q[1]].ents
  BY <1>1, EntTypes
<1>11. p \notin Own(d, up)
  BY <1>1, <1>9
<1>12. z \notin Spots(d, up)
  BY <1>10, <1>11
<1>13. IsDir(d2, up)
  BY <1>8 DEF IsDir
<1>14. Spots(d2, up) = Spots(d, up) \cup {z}
  <2>1. ASSUME NEW q \in Spots(d, up) PROVE q \in Spots(d2, up)
    <3>1. q[2] \in DOMAIN d2.blk[q[1]].ents
      BY <1>7, <1>10, <1>11
    <3>2. <<q[1], q[2]>> \in Spots(d2, up)
      BY <1>8, <1>10, <1>13, <3>1, SpotIs
    <3> QED BY <1>10, <3>2
  <2>2. z \in Spots(d2, up)
    <3>1. 1 \in Nat \ {0} /\ 1 \in DOMAIN d2.blk[p].ents /\ p \in Own(d2, up)
      BY <1>5, <1>7, <1>8
    <3> QED BY <1>13, <3>1, SpotIs
  <2>3. ASSUME NEW q \in Spots(d2, up), q # z PROVE q \in Spots(d, up)
    <3>1. q[1] \in Own(d2, up) /\ q[2] \in Nat \ {0} /\ q = <<q[1], q[2]>> /\ q[1] \in Blocks
          /\ q[2] \in DOMAIN d2.blk[q[1]].ents
      BY <1>1, <1>7, EntTypes
    <3>2. q[1] # p
      BY <1>5, <1>7, <2>3, <3>1
    <3>3. q[2] \in DOMAIN d.blk[q[1]].ents /\ q[1] \in Own(d, up)
      BY <1>7, <1>8, <3>1, <3>2
    <3>4. <<q[1], q[2]>> \in Spots(d, up)
      BY <3>1, <3>3, SpotIs
    <3> QED BY <3>1, <3>4
  <2> QED BY <2>1, <2>2, <2>3
<1>15. \A q \in Spots(d, up) : Ent(d2, q) = Ent(d, q)
  BY <1>7, <1>10, <1>11 DEF Ent
<1>16. Ent(d2, z).name = name /\ Ent(d2, z).ino = x
  BY <1>5, <1>7 DEF Ent
<1>17. Shape(d2, up)
  <2>1. /\ \A a \in Own(d, up) : /\ d.blk[a].use = "dir" /\ d.blk[a].ents # <<>>
                                 /\ Room(d.blk[a].ents) = kSlots
        /\ \A q, r \in Spots(d, up) : Ent(d, q).name = Ent(d, r).name => q = r
    BY <1>1 DEF Shape
  <2>2. ASSUME NEW a \in Own(d2, up)
        PROVE  d2.blk[a].use = "dir" /\ d2.blk[a].ents # <<>> /\ Room(d2.blk[a].ents) = kSlots
    <3>2. CASE a = p
      BY <1>5, <1>7, <3>2
    <3>3. CASE a # p
      <4>1. a \in Own(d, up) /\ a \in Blocks
        BY <1>1, <1>8, <3>3, OwnInBlocks
      <4> QED BY <1>7, <2>1, <3>3, <4>1
    <3> QED BY <3>2, <3>3
  <2>3. \A q \in Spots(d, up) : Ent(d, q).name # name
    BY <1>4, NamedIs DEF Fresh
  <2>4. \A q, r \in Spots(d2, up) : Ent(d2, q).name = Ent(d2, r).name => q = r
    BY <1>14, <1>15, <1>16, <2>1, <2>3
  <2> QED BY <1>8, <2>2, <2>4, Zenon DEF Shape
<1>18. \A j \in S \ {up} : d2.ino[j] = d.ino[j] /\ \A a \in Own(d, j) : d2.blk[a] = d.blk[a]
  <2> SUFFICES ASSUME NEW j \in S \ {up}
               PROVE  d2.ino[j] = d.ino[j] /\ \A a \in Own(d, j) : d2.blk[a] = d.blk[a]
    OBVIOUS
  <2>1. j \in Inodes /\ p \notin Own(d, j) /\ Own(d, j) \subseteq Blocks
    BY <1>1, <1>9, OwnInBlocks
  <2> QED BY <1>7, <2>1
<1>19. d2.ino[x].kind # "none" /\ Shape(d2, x) /\ Named(d2, x) = {} /\ Up(d2, x, up)
  <2>1. d2.ino[x] = d.ino[x] /\ \A a \in Own(d, x) : d2.blk[a] = d.blk[a]
    BY <1>1, <1>4, <1>18
  <2> QED BY <2>1, ReadyKept, Zenon
<1>20. Linked(d) \cup {x} \subseteq d2.ibm
  BY <1>1, <1>4, <1>7
<1>21. \A j \in Linked(d) \ {up} :
         /\ d2.ino[j].kind = d.ino[j].kind
         /\ IsDir(d, j) => d2.ino[j] = d.ino[j] /\ \A a \in Own(d, j) : d2.blk[a] = d.blk[a]
  BY <1>18
<1>22. \A q \in Spots(d, up) : Ent(d2, q).name = Ent(d, q).name /\ Ent(d2, q).ino = Ent(d, q).ino
  BY <1>15
<1> HIDE DEF z
<1>23. Adds(d, d2, up, z, name, x)
  BY <1>4, <1>12, <1>13, <1>14, <1>16, <1>17, <1>19, <1>20, <1>21, <1>22 DEF Adds
<1>24. Moves(d, d2, S, S, up)
  <2>1. \A i \in S \ {up} : d2.ino[i].ext = d.ino[i].ext /\ Own(d, i) \subseteq d2.bbm
    BY <1>7, <1>9, <1>18
  <2>2. up \in S /\ Sound(d, up) /\ \A i \in S \ {up} : Own(d2, up) \cap Own(d, i) = {}
    BY <1>1, <1>8, <1>9 DEF Spread
  <2>3. Sound(d2, up)
    <3>1. Own(d2, up) \subseteq d2.bbm \ {0}
      BY <1>1, <1>7, <1>8, <1>9
    <3>2. Disjoint(d.ino[up].ext)
      BY <2>2 DEF Sound, Disjoint
    <3> QED BY <1>8, <1>11, <3>1, <3>2 DEF Sound, Disjoint
  <2>4. S \subseteq S \cup {up}
    OBVIOUS
  <2> HIDE DEF S
  <2> QED BY <2>1, <2>2, <2>3, <2>4, Zenon DEF Moves
<1>25. 0 \in d2.bbm
  BY <1>1, <1>7
<1> HIDE DEF S
<1>26. S = Linked(d) \cup F
  BY DEF S
<1>27. Good(d2, F)
  BY <1>7, <1>23, <1>24, <1>25, <1>26, GoodAdd
<1> QED
  BY <1>23, <1>27

-----------------------------------------------------------------------------
(* dir_add_entry()                                                         *)

\* No directory in the tree has this block.
Spare(d, b) == b \in Blocks /\ \A i \in Linked(d) : IsDir(d, i) => b \notin Own(d, i)

LEMMA WriteSpare ==
  ASSUME NEW F, NEW d, Good(d, F), NEW b, Spare(d, b), NEW v \in DataBlocks \cup DirBlocks,
         NEW d2, Writes(d, d2, b, v)
  PROVE  Good(d2, F) /\ Linked(d2) = Linked(d)
<1> DEFINE B == d2.blk
<1>1. d \in Disks /\ Rooted(d) /\ b \in Blocks
  BY DEF Good, Spare
<1>2. /\ d2 \in Disks /\ d2.bbm = d.bbm /\ d2.ibm = d.ibm /\ d2.ino = d.ino
      /\ d2.fb = d.fb /\ d2.fi = d.fi /\ \A a \in Blocks \ {b} : B[a] = d.blk[a]
  BY <1>1, WriteOne
<1>3. B \in [Blocks -> DataBlocks \cup DirBlocks]
  BY <1>2, DiskTypes
<1>4. \A i \in Linked(d) : IsDir(d, i) => \A a \in Own(d, i) : B[a] = d.blk[a]
  <2> SUFFICES ASSUME NEW i \in Linked(d), IsDir(d, i), NEW a \in Own(d, i) PROVE B[a] = d.blk[a]
    OBVIOUS
  <2>1. a \in Blocks /\ a # b
    BY <1>1, LinkedFacts, OwnInBlocks DEF Spare
  <2> QED BY <1>2, <2>1
<1>5. d2 = [d EXCEPT !.blk = B]
  BY <1>1, <1>2 DEF Disks
<1> HIDE DEF B
<1> QED
  BY <1>3, <1>4, <1>5, WriteBlocks

LEMMA WriteCall ==
  ASSUME NEW F, NEW c, Fine(c, F), NEW b, NEW v, c.ok => Spare(c.d, b) /\ v \in DataBlocks \cup DirBlocks,
         NEW r, r = write_block(c, b, v)
  PROVE  /\ Fine(r, F) /\ r.ok = c.ok /\ r.got = c.got
         /\ c.ok => Writes(c.d, r.d, b, v) /\ Linked(r.d) = Linked(c.d)
         /\ ~c.ok => r.d = c.d
<1> DEFINE e == [c.d EXCEPT !.blk[b] = v]
<1>1. c.ok \in BOOLEAN /\ Good(c.d, F)
  BY FineTypes
<1>2. Writes(c.d, e, b, v)
  BY Zenon DEF Writes
<1>3. r = Put(c, e)
  BY Zenon DEF write_block
<1> HIDE DEF e
<1>4. c.ok => Good(e, F) /\ Linked(e) = Linked(c.d)
  BY <1>1, <1>2, WriteSpare
<1>5. Fine(r, F) /\ r.ok = c.ok /\ r.got = c.got /\ r.d = IF c.ok THEN e ELSE c.d
  BY <1>3, <1>4, PutFine
<1> QED
  BY <1>1, <1>2, <1>4, <1>5

\* More blocks are in use, and nothing else that counts has changed.
Grew(d, d2) == d2.ibm = d.ibm /\ d2.fb = d.fb /\ d2.fi = d.fi /\ d.bbm \subseteq d2.bbm

LEMMA WritesGrew ==
  ASSUME NEW d \in Disks, NEW b \in Blocks, NEW v \in DataBlocks \cup DirBlocks,
         NEW d2, Writes(d, d2, b, v)
  PROVE  Grew(d, d2)
  BY WriteOne DEF Grew

LEMMA GrewTrans ==
  ASSUME NEW d, NEW d2, NEW d3, Grew(d, d2), Grew(d2, d3)
  PROVE  Grew(d, d3)
  BY DEF Grew

LEMMA EntryBlocks ==
  /\ DirBlock(<<Entry("", 0, kSlots)>>) \in DataBlocks \cup DirBlocks
  /\ \A name \in Names, x \in Inodes : DirBlock(<<Entry(name, x, kSlots)>>) \in DataBlocks \cup DirBlocks
<1>1. ASSUME NEW e \in Entries PROVE DirBlock(<<e>>) \in DataBlocks \cup DirBlocks
  <2>1. <<e>> \in Seq(Entries)
    OBVIOUS
  <2>2. DirBlock(<<e>>) \in DirBlocks
    BY <2>1, DirBlockIs
  <2> QED BY <2>2
<1>2. ASSUME NEW name \in Labels, NEW x \in 0 .. kInodes PROVE Entry(name, x, kSlots) \in Entries
  <2>1. kSlots \in Nat
    BY Sizes
  <2> QED BY <2>1, EntryIs
<1> DEFINE L == ""
<1>3. L \in Labels
  BY Zenon DEF Labels
<1>4. Names \subseteq Labels
  BY Zenon DEF Labels
<1>5. 0 \in 0 .. kInodes /\ Inodes \subseteq 0 .. kInodes
  BY Sizes DEF Inodes
<1> HIDE DEF L
<1>6. DirBlock(<<Entry(L, 0, kSlots)>>) \in DataBlocks \cup DirBlocks
  BY <1>1, <1>2, <1>3, <1>5
<1>7. \A name \in Names, x \in Inodes : DirBlock(<<Entry(name, x, kSlots)>>) \in DataBlocks \cup DirBlocks
  BY <1>1, <1>2, <1>4, <1>5
<1> QED
  BY <1>6, <1>7, Zenon DEF L

LEMMA GrowDirFine ==
  ASSUME NEW F \in SUBSET Inodes, NEW c, Fine(c, F), c.ok, NEW x, NEW up, NEW name,
         Good(c.d, F \cup {x}), Ready(c.d, x, up), up \in Near(c.d), Fresh(c.d, up, name), IsDir(c.d, up),
         NEW r, r = GrowDir(c, up, name, x)
  PROVE  /\ Fine(r, F) /\ Grew(c.d, r.d)
         /\ r.ok => \E z : Adds(c.d, r.d, up, z, name, x)
<1> DEFINE a == alloc_blocks(c, 1)
           p == a.got
           v == DirBlock(<<Entry("", 0, kSlots)>>)
           w == DirBlock(<<Entry(name, x, kSlots)>>)
           e == write_block(a, p, v)
           inode == c.d.ino[up]
           n == Need(e, Len(inode.ext) < kExtents)
           f == write_block(n, p, w)
           k == LongerDir(inode, p)
           G == F \cup {x}
<1>1. x \in Inodes /\ name \in Names /\ up \in Inodes /\ c.d \in Disks /\ G \in SUBSET Inodes /\ x \in G
      /\ Good(c.d, F) /\ Good(c.d, G)
  BY FineTypes, LinkedFacts DEF Ready, Fresh
<1>2. v \in DataBlocks \cup DirBlocks /\ w \in DataBlocks \cup DirBlocks
  BY <1>1, EntryBlocks, Zenon
<1>3. r = store_inode(f, up, k)
  BY Zenon DEF GrowDir, LongerDir
<1>4. /\ Fine(a, F) /\ (~a.ok => a.d = c.d)
      /\ a.ok => /\ p \in Nat /\ p > 0 /\ p + 1 <= kBlocks /\ (p .. p + 1 - 1) \cap c.d.bbm = {}
                 /\ a.d = [c.d EXCEPT !.bbm = @ \cup (p .. p + 1 - 1)]
  <2>1. 1 \in Nat /\ 1 > 0
    OBVIOUS
  <2> QED BY <2>1, AllocBlocks
<1> HIDE DEF a, p, v, w
<1>5. ASSUME a.ok
      PROVE  /\ p \in Blocks /\ p \notin c.d.bbm /\ Spare(a.d, p) /\ a.d \in Disks
             /\ a.d.bbm = c.d.bbm \cup {p} /\ a.d.ibm = c.d.ibm /\ a.d.ino = c.d.ino /\ a.d.blk = c.d.blk
             /\ a.d.fb = c.d.fb /\ a.d.fi = c.d.fi /\ Linked(a.d) = Linked(c.d)
  <2>1. p .. p + 1 - 1 = {p} /\ p \in Blocks
    BY <1>4, <1>5, Sizes DEF Blocks
  <2>2. p \notin c.d.bbm
    BY <1>4, <1>5, <2>1
  <2> DEFINE R == {p}
             d == c.d
             d2 == a.d
  <2>3. R \subseteq Blocks /\ d2 = [d EXCEPT !.bbm = @ \cup R] /\ Good(d, F)
    BY <1>1, <1>4, <1>5, <2>1
  <2> HIDE DEF R, d, d2
  <2>4. /\ Good(d2, F) /\ d2.bbm = d.bbm \cup R /\ d2.ibm = d.ibm /\ d2.ino = d.ino /\ d2.blk = d.blk
        /\ d2.fb = d.fb /\ d2.fi = d.fi /\ Linked(d2) = Linked(d)
    BY <2>3, MarkBlocks
  <2>5. \A i \in Linked(d) : Own(d2, i) = Own(d, i) /\ Own(d, i) \subseteq d.bbm
    BY <2>3, <2>4 DEF Good, Spread, Sound, Own
  <2>6. Spare(d2, p)
    BY <2>1, <2>2, <2>4, <2>5 DEF Spare, d
  <2> QED BY <2>1, <2>2, <2>4, <2>6 DEF d, d2, R, Good
<1>6. /\ Fine(e, F) /\ e.ok = a.ok
      /\ a.ok => Writes(a.d, e.d, p, v) /\ Linked(e.d) = Linked(a.d)
      /\ ~a.ok => e.d = a.d
  BY <1>2, <1>4, <1>5, WriteCall
<1> HIDE DEF e
<1>7. ASSUME a.ok PROVE Spare(e.d, p) /\ e.d.ino = c.d.ino /\ e.d \in Disks /\ Grew(c.d, e.d)
                        /\ e.d.bbm = c.d.bbm \cup {p} /\ \A b \in Blocks \ {p} : e.d.blk[b] = c.d.blk[b]
  <2>1. /\ e.d.ino = a.d.ino /\ e.d.bbm = a.d.bbm /\ e.d.ibm = a.d.ibm /\ e.d \in Disks
        /\ e.d.fb = a.d.fb /\ e.d.fi = a.d.fi /\ \A b \in Blocks \ {p} : e.d.blk[b] = a.d.blk[b]
    BY <1>2, <1>5, <1>6, <1>7, WriteOne
  <2>2. Spare(e.d, p)
    BY <1>5, <1>6, <1>7, <2>1 DEF Spare, IsDir, Own
  <2> QED BY <1>5, <1>7, <2>1, <2>2 DEF Grew
<1>8. /\ Fine(n, F) /\ n.ok = (e.ok /\ Len(inode.ext) < kExtents) /\ n.d = e.d
  <2> DEFINE y == Len(inode.ext) < kExtents
  <2>1. y \in BOOLEAN
    OBVIOUS
  <2> HIDE DEF y
  <2>2. Fine(Need(e, y), F) /\ Need(e, y).ok = (e.ok /\ y) /\ Need(e, y).d = e.d
    BY <1>6, <2>1, NeedFine
  <2> QED BY <2>2, Zenon DEF y
<1> HIDE DEF n
<1>9. /\ Fine(f, F) /\ f.ok = n.ok
      /\ n.ok => Writes(n.d, f.d, p, w)
      /\ ~n.ok => f.d = n.d
  <2>1. n.ok => Spare(n.d, p)
    BY <1>6, <1>7, <1>8
  <2> QED BY <1>2, <1>8, <2>1, WriteCall
<1> HIDE DEF f
<1> DEFINE g == [f.d EXCEPT !.ino[up] = k]
<1>10. r = Put(f, g)
  BY <1>3, Zenon DEF store_inode
<1>11. ASSUME f.ok
       PROVE  Grown(c.d, g, up, p, name, x) /\ Grew(c.d, g) /\ p \in Blocks /\ p \notin c.d.bbm
              /\ Len(inode.ext) < kExtents
  <2>1. a.ok /\ Len(inode.ext) < kExtents /\ n.d = e.d
    BY <1>6, <1>8, <1>9, <1>11
  <2>2. e.d \in Disks /\ p \in Blocks /\ Writes(e.d, f.d, p, w)
    BY <1>5, <1>7, <1>9, <1>11, <2>1
  <2>3. /\ f.d.ino = c.d.ino /\ f.d.bbm = c.d.bbm \cup {p} /\ f.d.ibm = c.d.ibm /\ f.d \in Disks
        /\ f.d.fb = c.d.fb /\ f.d.fi = c.d.fi /\ f.d.blk[p] = w
        /\ \A b \in Blocks \ {p} : f.d.blk[b] = c.d.blk[b]
    <3>1. /\ f.d.ino = e.d.ino /\ f.d.bbm = e.d.bbm /\ f.d.ibm = e.d.ibm /\ f.d \in Disks
          /\ f.d.fb = e.d.fb /\ f.d.fi = e.d.fi /\ f.d.blk[p] = w
          /\ \A b \in Blocks \ {p} : f.d.blk[b] = e.d.blk[b]
      BY <1>2, <2>2, WriteOne
    <3> QED BY <1>7, <2>1, <3>1 DEF Grew
  <2>4. k \in InodeRecs
    <3>1. IsDir(c.d, up) /\ Shape(c.d, up)
      BY <1>1, LinkedFacts DEF Good
    <3> HIDE DEF k
    <3>2. k = LongerDir(c.d.ino[up], p) /\ Len(c.d.ino[up].ext) < kExtents /\ p \in Blocks
      BY <1>5, <2>1 DEF k
    <3>3. c.d \in Disks /\ up \in Inodes
      BY <1>1
    <3> QED BY <3>1, <3>2, <3>3, InodeGrown
  <2> HIDE DEF k
  <2>5. /\ g \in Disks /\ g.bbm = f.d.bbm /\ g.ibm = f.d.ibm /\ g.blk = f.d.blk /\ g.fb = f.d.fb /\ g.fi = f.d.fi
        /\ g.ino[up] = k /\ \A j \in Inodes \ {up} : g.ino[j] = f.d.ino[j]
    BY <1>1, <2>3, <2>4 DEF Disks
  <2> HIDE DEF g
  <2> QED BY <1>5, <2>1, <2>3, <2>5 DEF Grown, Grew, k, w
<1> HIDE DEF g, k
<1>12. ASSUME f.ok
       PROVE  Good(g, F) /\ \E z : Adds(c.d, g, up, z, name, x)
  <2> DEFINE d == c.d
  <2>1. /\ Good(d, G) /\ up \in Near(d) /\ IsDir(d, up) /\ Ready(d, x, up) /\ Fresh(d, up, name)
        /\ p \notin d.bbm /\ p \in Blocks /\ Len(d.ino[up].ext) < kExtents /\ Grown(d, g, up, p, name, x)
    BY <1>1, <1>11, <1>12
  <2> HIDE DEF d, G
  <2>2. Good(g, G) /\ \E z : Adds(d, g, up, z, name, x)
    BY <1>1, <2>1, AddGrown
  <2>3. F \subseteq G \cup Linked(g)
    BY DEF G
  <2> QED BY <2>2, <2>3, GoodFewer DEF d
<1>13. Fine(r, F) /\ r.ok = f.ok /\ r.d = IF f.ok THEN g ELSE f.d
  BY <1>9, <1>10, <1>12, PutFine
<1>14. CASE f.ok
  BY <1>11, <1>12, <1>13, <1>14
<1>15. CASE ~f.ok
  <2>1. r.d = e.d /\ ~r.ok
    BY <1>8, <1>9, <1>13, <1>15
  <2>2. Grew(c.d, e.d)
    <3>1. CASE a.ok
      BY <1>7, <3>1
    <3>2. CASE ~a.ok
      BY <1>4, <1>6, <3>2 DEF Grew
    <3> QED BY <3>1, <3>2
  <2> QED BY <1>13, <2>1, <2>2
<1> QED
  BY <1>14, <1>15

LEMMA DirAdd ==
  ASSUME NEW F \in SUBSET Inodes, NEW c, Fine(c, F), NEW x, NEW up, NEW name,
         c.ok => /\ Good(c.d, F \cup {x}) /\ Ready(c.d, x, up) /\ up \in Near(c.d)
                 /\ Fresh(c.d, up, name),
         NEW r, r = dir_add_entry(c, up, name, x)
  PROVE  /\ Fine(r, F) /\ Grew(c.d, r.d)
         /\ r.ok => c.ok /\ \E z : Adds(c.d, r.d, up, z, name, x)
<1> DEFINE inode == c.d.ino[up]
           roomy == {l \in 0 .. NumBlocks(inode) - 1 : Slack(EntriesAt(c.d, up, l))}
           b == map_lblock(inode, Min(roomy))
           w == DirBlock(AddTo(c.d.blk[b].ents, name, x))
           G == F \cup {x}
<1>1. c.ok \in BOOLEAN /\ c.d \in Disks /\ Good(c.d, F) /\ Rooted(c.d)
  BY FineTypes
<1>2. CASE ~c.ok \/ inode.kind # "dir"
  <2>1. r = Need(c, FALSE)
    BY <1>2, Zenon DEF dir_add_entry
  <2>2. Fine(r, F) /\ r.ok = (c.ok /\ FALSE) /\ r.d = c.d
    BY <2>1, NeedFine
  <2> QED BY <2>2 DEF Grew
<1>3. CASE c.ok /\ inode.kind = "dir" /\ roomy = {}
  <2>1. r = GrowDir(c, up, name, x)
    BY <1>3, Zenon DEF dir_add_entry
  <2>2. IsDir(c.d, up)
    BY <1>3 DEF IsDir
  <2> QED BY <1>3, <2>1, <2>2, GrowDirFine
<1>4. CASE c.ok /\ inode.kind = "dir" /\ roomy # {}
  <2>1. r = write_block(c, b, w)
    BY <1>4, Zenon DEF dir_add_entry
  <2>2. /\ IsDir(c.d, up) /\ up \in Inodes /\ Shape(c.d, up) /\ up \in Near(c.d)
    BY <1>1, <1>4, LinkedFacts DEF IsDir
  <2>3. Min(roomy) \in roomy
    <3>1. roomy \subseteq Nat
      OBVIOUS
    <3> QED BY <1>4, <3>1, MinIn
  <2>4. b \in Own(c.d, up) /\ Slack(c.d.blk[b].ents)
    BY <1>1, <2>2, <2>3, MapDir DEF EntriesAt
  <2> DEFINE d == c.d
             e == [c.d EXCEPT !.blk[b] = w]
  <2> HIDE DEF b, roomy
  <2>5. Writes(d, e, b, DirBlock(AddTo(d.blk[b].ents, name, x)))
    BY Zenon DEF Writes
  <2>6. r = Put(c, e)
    BY <2>1, Zenon DEF write_block
  <2>7. /\ Good(d, G) /\ IsDir(d, up) /\ Ready(d, x, up) /\ Fresh(d, up, name) /\ x \in G /\ up \in Near(d)
        /\ b \in Own(d, up) /\ Slack(d.blk[b].ents)
    BY <1>4, <2>2, <2>4
  <2> HIDE DEF d, e, G
  <2>8. /\ Good(e, G) /\ \E z : Adds(d, e, up, z, name, x)
        /\ e.bbm = d.bbm /\ e.ibm = d.ibm /\ e.fb = d.fb /\ e.fi = d.fi
    BY <2>5, <2>7, AddSlack
  <2>9. F \subseteq G \cup Linked(e)
    BY DEF G
  <2>10. Good(e, F)
    BY <2>8, <2>9, GoodFewer
  <2>11. Fine(r, F) /\ r.ok = c.ok /\ r.d = IF c.ok THEN e ELSE c.d
    BY <2>6, <2>10, PutFine
  <2> QED BY <1>4, <2>8, <2>11 DEF d, Grew
<1> QED
  BY <1>1, <1>2, <1>3, <1>4

-----------------------------------------------------------------------------
(* The counts                                                              *)

LEMMA EnoughGrew ==
  ASSUME NEW d \in Disks, NEW d2 \in Disks, Grew(d, d2), NEW x \in Int, NEW y \in Int, Enough(d, x, y)
  PROVE  Enough(d2, x, y)
<1>1. /\ IsFiniteSet(d2.bbm) /\ Cardinality(d2.bbm) \in Nat /\ Cardinality(d.bbm) \in Nat
      /\ Cardinality(d.ibm) \in Nat /\ d.fb \in Nat /\ d.fi \in Nat
  BY BitmapsFinite, DiskTypes
<1>2. Cardinality(d.bbm) <= Cardinality(d2.bbm)
  BY <1>1, FS_Subset DEF Grew
<1>3. d2.ibm = d.ibm /\ d2.fb = d.fb /\ d2.fi = d.fi
  BY DEF Grew
<1> QED
  BY <1>1, <1>2, <1>3, Sizes DEF Enough

LEMMA EnoughInode ==
  ASSUME NEW d \in Disks, NEW d2 \in Disks, NEW i, i \notin d.ibm,
         d2.bbm = d.bbm, d2.ibm = d.ibm \cup {i}, d2.fb = d.fb, d2.fi = d.fi, Enough(d, 0, 0)
  PROVE  Enough(d2, 0, 1)
<1>1. /\ IsFiniteSet(d.ibm) /\ Cardinality(d.ibm) \in Nat /\ Cardinality(d.bbm) \in Nat
      /\ d.fb \in Nat /\ d.fi \in Nat
  BY BitmapsFinite, DiskTypes
<1>2. Cardinality(d.ibm \cup {i}) = Cardinality(d.ibm) + 1
  BY <1>1, FS_AddElement
<1> QED
  BY <1>1, <1>2, Sizes DEF Enough

LEMMA EnoughBlocks ==
  ASSUME NEW d \in Disks, NEW d2 \in Disks, NEW p \in Nat, NEW n \in Nat, NEW y \in Int,
         (p .. p + n - 1) \cap d.bbm = {},
         d2.bbm = d.bbm \cup (p .. p + n - 1), d2.ibm = d.ibm, d2.fb = d.fb, d2.fi = d.fi, Enough(d, 0, y)
  PROVE  Enough(d2, n, y)
<1> DEFINE R == p .. p + n - 1
<1>1. /\ IsFiniteSet(d.bbm) /\ Cardinality(d.ibm) \in Nat /\ Cardinality(d.bbm) \in Nat
      /\ d.fb \in Nat /\ d.fi \in Nat
  BY BitmapsFinite, DiskTypes
<1>2. IsFiniteSet(R) /\ Cardinality(R) = n
  <2>1. p \in Int /\ p + n - 1 \in Int
    OBVIOUS
  <2>2. IsFiniteSet(R) /\ Cardinality(R) = IF p > p + n - 1 THEN 0 ELSE (p + n - 1) - p + 1
    BY <2>1, FS_Interval
  <2>3. n = IF p > p + n - 1 THEN 0 ELSE (p + n - 1) - p + 1
    OBVIOUS
  <2> HIDE DEF R
  <2> QED BY <2>2, <2>3
<1>3. d.bbm \cap R = {} /\ d2.bbm = d.bbm \cup R
  OBVIOUS
<1> HIDE DEF R
<1>4. Cardinality(d.bbm \cup R) = Cardinality(d.bbm) + Cardinality(R) - Cardinality(d.bbm \cap R)
  BY <1>1, <1>2, FS_Union
<1>5. Cardinality(d.bbm \cap R) = 0
  BY <1>3, FS_EmptySet, Zenon
<1>6. Cardinality(d2.bbm) = Cardinality(d.bbm) + n
  <2>1. d2.bbm = d.bbm \cup R
    BY <1>3
  <2>2. Cardinality(d.bbm \cup R) = Cardinality(d.bbm) + n - 0
    BY <1>2, <1>4, <1>5, Zenon
  <2>3. Cardinality(d2.bbm) = Cardinality(d.bbm) + n - 0
    BY <2>1, <2>2, Zenon
  <2> QED BY <1>1, <2>3
<1> QED
  BY <1>1, <1>6, Sizes DEF Enough

\* Blocks and an inode become free.
LEMMA EnoughFreed ==
  ASSUME NEW d \in Disks, NEW d2 \in Disks, NEW R, NEW n \in Nat, IsFiniteSet(R), Cardinality(R) <= n,
         d2.bbm = d.bbm \ R, d2.ibm = d.ibm, d2.fb = d.fb, d2.fi = d.fi, Enough(d, 0, 0)
  PROVE  Enough(d2, 0 - n, 0)
<1>1. /\ IsFiniteSet(d.bbm) /\ Cardinality(d.ibm) \in Nat /\ Cardinality(d.bbm) \in Nat
      /\ d.fb \in Nat /\ d.fi \in Nat /\ Cardinality(R) \in Nat
  BY BitmapsFinite, DiskTypes, FS_CardinalityType
<1>2. Cardinality(d.bbm \ R) = Cardinality(d.bbm) - Cardinality(d.bbm \cap R)
  BY <1>1, FS_Difference
<1>3. Cardinality(d.bbm \cap R) \in Nat /\ Cardinality(d.bbm \cap R) <= Cardinality(R)
  <2>1. d.bbm \cap R \subseteq R
    OBVIOUS
  <2>2. IsFiniteSet(d.bbm \cap R) /\ Cardinality(d.bbm \cap R) <= Cardinality(R)
    BY <2>1, FS_Subset
  <2> QED BY <2>2, FS_CardinalityType
<1> QED
  BY <1>1, <1>2, <1>3, Sizes DEF Enough

LEMMA EnoughFewer ==
  ASSUME NEW d \in Disks, NEW x \in Int, NEW y \in Int, NEW v \in Int, NEW w \in Int,
         Enough(d, x, y), v <= x, w <= y
  PROVE  Enough(d, v, w)
<1>1. Cardinality(d.ibm) \in Nat /\ Cardinality(d.bbm) \in Nat /\ d.fb \in Nat /\ d.fi \in Nat
  BY BitmapsFinite, DiskTypes
<1> QED
  BY <1>1, Sizes DEF Enough

\* commit_counts() takes no more than has become used.
LEMMA CommitEnough ==
  ASSUME NEW F, NEW c, Fine(c, F), NEW x \in Int, NEW y \in Int, NEW r, r = commit_counts(c, x, y),
         \/ x >= 0 /\ y >= 0 /\ Enough(c.d, 0, 0) /\ (c.ok => Enough(c.d, x, y))
         \/ x <= 0 /\ y <= 0 /\ c.ok /\ Enough(c.d, x, y)
  PROVE  Enough(r.d, 0, 0)
<1>1. c.d \in Disks /\ r.d \in Disks
  BY CommitCounts, FineTypes
<1>2. Cardinality(c.d.ibm) \in Nat /\ Cardinality(c.d.bbm) \in Nat /\ c.d.fb \in Nat /\ c.d.fi \in Nat
  BY <1>1, BitmapsFinite, DiskTypes
<1>3. r.d.bbm = c.d.bbm /\ r.d.ibm = c.d.ibm
  BY CommitCounts
<1>4. \/ r.d.fb = c.d.fb /\ r.d.fi = c.d.fi
      \/ c.ok /\ r.d.fb = c.d.fb - x /\ r.d.fi = c.d.fi - y
  BY CommitCounts
<1>5. c.ok /\ c.d.fb - x >= 0 /\ c.d.fi - y >= 0 => r.d.fb = c.d.fb - x /\ r.d.fi = c.d.fi - y
  BY CommitCounts
<1>6. CASE x >= 0 /\ y >= 0 /\ Enough(c.d, 0, 0) /\ (c.ok => Enough(c.d, x, y))
  BY <1>2, <1>3, <1>4, <1>6, Sizes DEF Enough
<1>7. CASE x <= 0 /\ y <= 0 /\ c.ok /\ Enough(c.d, x, y)
  <2>1. r.d.fb = c.d.fb - x /\ r.d.fi = c.d.fi - y
    BY <1>2, <1>5, <1>7
  <2> QED BY <1>2, <1>3, <1>7, <2>1, Sizes DEF Enough
<1> QED
  BY <1>6, <1>7

-----------------------------------------------------------------------------
(* A new file or directory                                                 *)

\* A path goes the same way when directories are the same.
LEMMA KeptFront ==
  ASSUME NEW d \in Disks, NEW d2 \in Disks, Rooted(d), Kept(d, d2), Linked(d) \subseteq d2.ibm,
         NEW path \in Paths
  PROVE  lookup_abs(d2, Front(path)) = lookup_abs(d, Front(path))
<1>1. /\ Rooted(d2) /\ Near(d2) = Near(d)
      /\ \A i \in Linked(d) : Named(d2, i) = Named(d, i) /\ \A q \in Spots(d, i) : Ent(d2, q) = Ent(d, q)
  BY RootedKept
<1>2. kRootIno \in Near(d) /\ kRootIno \in Linked(d)
  BY LinkedFacts
<1>3. ASSUME NEW a \in Names PROVE Child(d2, kRootIno, a) = Child(d, kRootIno, a)
  <2>1. \A q \in Named(d, kRootIno) : Ent(d2, q) = Ent(d, q)
    BY <1>1, <1>2, NamedIs
  <2>2. ASSUME Child(d, kRootIno, a) # 0 PROVE Child(d2, kRootIno, a) = Child(d, kRootIno, a)
    <3>1. PICK q \in Named(d, kRootIno) : Ent(d, q).name = a /\ Ent(d, q).ino = Child(d, kRootIno, a)
      BY <1>2, <2>2, ChildNear
    <3>2. q \in Named(d2, kRootIno) /\ Ent(d2, q) = Ent(d, q)
      BY <1>1, <1>2, <2>1
    <3> QED BY <1>1, <1>2, <3>1, <3>2, ChildNear
  <2>3. ASSUME Child(d2, kRootIno, a) # 0 PROVE Child(d2, kRootIno, a) = Child(d, kRootIno, a)
    <3>1. PICK q \in Named(d2, kRootIno) : Ent(d2, q).name = a /\ Ent(d2, q).ino = Child(d2, kRootIno, a)
      BY <1>1, <1>2, <2>3, ChildNear
    <3>2. q \in Named(d, kRootIno) /\ Ent(d2, q) = Ent(d, q)
      BY <1>1, <1>2, <2>1
    <3> QED BY <1>2, <3>1, <3>2, ChildNear
  <2> QED BY <2>2, <2>3
<1>4. ASSUME NEW a \in Tops, path = <<a>> PROVE lookup_abs(d2, Front(path)) = lookup_abs(d, Front(path))
  <2>1. Front(path) = <<>>
    BY <1>4, PathEnds
  <2> QED BY <2>1, LookupRoot
<1>5. ASSUME NEW a \in Homes, NEW b \in Subs, path = <<a, b>>
      PROVE  lookup_abs(d2, Front(path)) = lookup_abs(d, Front(path))
  <2>1. Front(path) = <<a>> /\ a \in Names
    BY <1>5, PathEnds, NamesAssumption DEF Names
  <2>2. lookup_abs(d2, Front(path)) = Child(d2, kRootIno, a)
        /\ lookup_abs(d, Front(path)) = Child(d, kRootIno, a)
    BY <2>1, LookupTop
  <2> QED BY <1>3, <2>1, <2>2
<1> QED
  BY <1>4, <1>5, PathIs

LEMMA SameLookup ==
  ASSUME NEW d, NEW d2, d2.ino = d.ino, d2.blk = d.blk, NEW path \in Paths
  PROVE  lookup_abs(d2, path) = lookup_abs(d, path)
<1>1. \A i : list_dir(d2, i) = list_dir(d, i)
  BY DEF list_dir, EntriesAt
<1>2. ASSUME NEW i, NEW a PROVE Child(d2, i, a) = Child(d, i, a)
  <2>1. list_dir(d2, i) = list_dir(d, i)
    BY <1>1
  <2> DEFINE A == {e \in list_dir(d2, i) : e.name = a}
             B == {e \in list_dir(d, i) : e.name = a}
  <2>2. A = B
    BY <2>1
  <2>3. Child(d2, i, a) = IF i = 0 \/ A = {} THEN 0 ELSE (CHOOSE e \in A : TRUE).ino
    BY Zenon DEF Child
  <2>4. Child(d, i, a) = IF i = 0 \/ B = {} THEN 0 ELSE (CHOOSE e \in B : TRUE).ino
    BY Zenon DEF Child
  <2> HIDE DEF A, B
  <2> QED BY <2>2, <2>3, <2>4
<1>3. ASSUME NEW a \in Tops, path = <<a>> PROVE lookup_abs(d2, path) = lookup_abs(d, path)
  BY <1>2, <1>3, LookupTop
<1>4. ASSUME NEW a \in Homes, NEW b \in Subs, path = <<a, b>> PROVE lookup_abs(d2, path) = lookup_abs(d, path)
  BY <1>2, <1>4, LookupSub
<1> QED
  BY <1>3, <1>4, PathIs

LEMMA FreshName ==
  ASSUME NEW d \in Disks, Rooted(d), NEW path \in Paths, NEW up, up = lookup_abs(d, Front(path)), up # 0,
         lookup_abs(d, path) = 0
  PROVE  up \in Near(d) /\ Fresh(d, up, Last(path))
<1>1. /\ up \in Near(d)
      /\ \A q \in Named(d, up) : Ent(d, q).name = Last(path) => 0 = Ent(d, q).ino
  BY LookupIn
<1>2. Kids(d, up) \subseteq Linked(d) /\ 0 \notin Linked(d)
  BY <1>1, LinkedFacts
<1>3. \A q \in Named(d, up) : Ent(d, q).ino # 0
  BY <1>2, KidsIs
<1> QED
  BY <1>1, <1>3, PathIs DEF Fresh

LEMMA FreshKept ==
  ASSUME NEW d \in Disks, NEW d2 \in Disks, Rooted(d), Kept(d, d2), Linked(d) \subseteq d2.ibm,
         NEW up \in Near(d), NEW name, Fresh(d, up, name)
  PROVE  up \in Near(d2) /\ Fresh(d2, up, name)
<1>1. up \in Linked(d)
  BY LinkedFacts
<1>2. Near(d2) = Near(d) /\ Named(d2, up) = Named(d, up) /\ \A q \in Spots(d, up) : Ent(d2, q) = Ent(d, q)
  BY <1>1, RootedKept
<1>3. \A q \in Named(d, up) : Ent(d2, q) = Ent(d, q)
  BY <1>2, NamedIs
<1> QED
  BY <1>2, <1>3 DEF Fresh

\* The end of Created() and mkdir(): inode x is ready and becomes the end of the path.
Linking(d, c, F, path, up, x, m) ==
  /\ c.ok => /\ up # 0 /\ lookup_abs(d, path) = 0 /\ up = lookup_abs(d, Front(path))
             /\ Kept(d, c.d) /\ Linked(d) \subseteq c.d.ibm
             /\ Ready(c.d, x, up) /\ Good(c.d, F \cup {x})
  /\ Enough(d, 0, 0) => Enough(c.d, 0, 0) /\ (c.ok => Enough(c.d, m, 1))

LEMMA LinkFine ==
  ASSUME NEW F \in SUBSET Inodes, NEW d \in Disks, Rooted(d), NEW c, Fine(c, F), NEW path \in Paths,
         NEW up, NEW x, NEW m \in Nat, Linking(d, c, F, path, up, x, m),
         NEW r, r = commit_counts(dir_add_entry(c, up, Last(path), x), m, 1)
  PROVE  /\ Fine(r, F) /\ (Enough(d, 0, 0) => Enough(r.d, 0, 0))
         /\ r.ok => lookup_abs(r.d, path) # 0
<1> DEFINE e == dir_add_entry(c, up, Last(path), x)
           name == Last(path)
<1>1. c.d \in Disks /\ c.ok \in BOOLEAN /\ Rooted(c.d) /\ 1 \in Int /\ 0 \in Int
  <2>1. c.d \in Disks /\ c.ok \in BOOLEAN /\ Rooted(c.d)
    BY FineTypes
  <2>2. 1 \in Int /\ 0 \in Int
    OBVIOUS
  <2> QED BY <2>1, <2>2
<1>2. ASSUME c.ok
      PROVE  /\ Good(c.d, F \cup {x}) /\ Ready(c.d, x, up) /\ up \in Near(c.d)
             /\ Fresh(c.d, up, name) /\ up = lookup_abs(c.d, Front(path))
  <2>1. /\ up # 0 /\ lookup_abs(d, path) = 0 /\ up = lookup_abs(d, Front(path))
        /\ Kept(d, c.d) /\ Linked(d) \subseteq c.d.ibm
        /\ Ready(c.d, x, up) /\ Good(c.d, F \cup {x})
    BY <1>2 DEF Linking
  <2>2. up \in Near(d) /\ Fresh(d, up, name)
    BY <2>1, FreshName
  <2>3. up \in Near(c.d) /\ Fresh(c.d, up, name)
    BY <1>1, <2>1, <2>2, FreshKept
  <2>4. up = lookup_abs(c.d, Front(path))
    BY <1>1, <2>1, KeptFront
  <2> QED BY <2>1, <2>3, <2>4
<1> HIDE DEF name
<1>3. /\ Fine(e, F) /\ Grew(c.d, e.d)
      /\ e.ok => c.ok /\ \E z : Adds(c.d, e.d, up, z, name, x)
  BY <1>2, DirAdd DEF name
<1>4. r = commit_counts(e, m, 1)
  OBVIOUS
<1> HIDE DEF e
<1>5. /\ Fine(r, F) /\ (r.ok => e.ok) /\ r.d.ino = e.d.ino /\ r.d.blk = e.d.blk
  BY <1>1, <1>3, <1>4, CommitCounts
<1>6. e.d \in Disks
  BY <1>3, FineTypes
<1>7. ASSUME Enough(d, 0, 0) PROVE Enough(r.d, 0, 0)
  <2>1. Enough(c.d, 0, 0) /\ (c.ok => Enough(c.d, m, 1))
    BY <1>7 DEF Linking
  <2>2. Enough(e.d, 0, 0) /\ (e.ok => Enough(e.d, m, 1))
    BY <1>1, <1>3, <1>6, <2>1, EnoughGrew
  <2>3. m >= 0 /\ 1 >= 0 /\ m \in Int
    OBVIOUS
  <2> QED BY <1>1, <1>3, <1>4, <2>2, <2>3, CommitEnough
<1>8. ASSUME r.ok PROVE lookup_abs(r.d, path) # 0
  <2>1. e.ok /\ c.ok
    BY <1>3, <1>5, <1>8
  <2>2. PICK z : Adds(c.d, e.d, up, z, name, x)
    BY <1>3, <2>1
  <2>3. lookup_abs(e.d, path) = x
    BY <1>1, <1>2, <1>6, <2>1, <2>2, AddedLookup DEF name
  <2>4. x \in Inodes /\ 0 \notin Inodes
    BY <1>2, <2>1 DEF Ready, Inodes
  <2>5. lookup_abs(r.d, path) = lookup_abs(e.d, path)
    BY <1>5, SameLookup
  <2> QED BY <2>3, <2>4, <2>5
<1> QED
  BY <1>5, <1>7, <1>8

DirInode(p) == [kind |-> "dir", size |-> kBytes, ext |-> <<Extent(0, 1, p)>>]

LEMMA DirInodeIs ==
  ASSUME NEW p \in Blocks, NEW inode, inode = DirInode(p)
  PROVE  /\ inode \in InodeRecs /\ inode.kind = "dir" /\ inode.size = kBytes /\ NumBlocks(inode) = 1
         /\ Len(inode.ext) = 1 /\ DOMAIN inode.ext = {1} /\ inode.ext[1].l = 0 /\ inode.ext[1].n = 1
         /\ BlocksIn(inode.ext) = {p} /\ Disjoint(inode.ext)
<1> DEFINE e == Extent(0, 1, p)
           s == <<e>>
<1>1. p \in Nat /\ p + 1 <= kBlocks /\ p .. p + 1 - 1 = {p}
  BY Sizes DEF Blocks
<1>2. e \in Extents /\ e.l = 0 /\ e.n = 1 /\ Run(e) = {p}
  <2>1. 1 \in Nat /\ 1 > 0 /\ 0 \in Nat
    OBVIOUS
  <2>2. e \in Extents /\ e.l = 0 /\ e.n = 1 /\ Run(e) = p .. p + 1 - 1
    BY <1>1, <2>1, ExtentIs
  <2> QED BY <1>1, <2>2
<1>3. inode.kind = "dir" /\ inode.size = kBytes /\ inode.ext = s
  BY DEF DirInode
<1>4. inode = [kind |-> "dir", size |-> kBytes, ext |-> s]
  BY DEF DirInode
<1> HIDE DEF e
<1>5. s \in Seq(Extents) /\ Len(s) = 1 /\ DOMAIN s = {1} /\ s[1] = e
  BY <1>2
<1> HIDE DEF s
<1>6. s \in ExtLists
  BY <1>5, Sizes DEF ExtLists
<1>7. inode \in InodeRecs
  BY <1>4, <1>6, Sizes DEF InodeRecs
<1>8. BlocksIn(s) = {p}
  <2>1. \A b : b \in BlocksIn(s) <=> \E k \in DOMAIN s : b \in Run(s[k])
    BY InBlocksIn
  <2> QED BY <1>2, <1>5, <2>1
<1>9. Disjoint(s)
  BY <1>5 DEF Disjoint
<1>10. NumBlocks(inode) = 1
  BY <1>3, CeilFacts DEF NumBlocks
<1> QED
  BY <1>2, <1>3, <1>5, <1>7, <1>8, <1>9, <1>10

\* A directory as mkdir() leaves it.
LEMMA NewDir ==
  ASSUME NEW d \in Disks, NEW x \in Inodes, NEW p \in Blocks, NEW up \in Inodes,
         d.ino[x] = DirInode(p), d.blk[p] = DotDot(x, up)
  PROVE  /\ Shape(d, x) /\ Named(d, x) = {} /\ Kids(d, x) = {} /\ Up(d, x, up) /\ Own(d, x) = {p}
         /\ IsDir(d, x)
<1> DEFINE e == Entry(".", x, 1)
           f == Entry("..", up, kSlots - 1)
           t == <<e, f>>
<1>1. /\ d.ino[x].kind = "dir" /\ NumBlocks(d.ino[x]) = 1
      /\ Len(d.ino[x].ext) = 1 /\ DOMAIN d.ino[x].ext = {1} /\ d.ino[x].ext[1].l = 0 /\ d.ino[x].ext[1].n = 1
      /\ Own(d, x) = {p}
  BY DirInodeIs DEF Own
<1>2. "." \in Labels /\ ".." \in Labels
  BY Zenon DEF Labels
<1>3. x \in 0 .. kInodes /\ up \in 0 .. kInodes /\ 1 \in Nat /\ kSlots - 1 \in Nat
  BY Sizes DEF Inodes
<1>4. e \in Entries /\ e.name = "." /\ e.ino = x /\ e.len = 1
  BY <1>2, <1>3, EntryIs
<1>5. f \in Entries /\ f.name = ".." /\ f.ino = up /\ f.len = kSlots - 1
  BY <1>2, <1>3, EntryIs
<1>6. d.blk[p] = DirBlock(t)
  BY Zenon DEF DotDot
<1> HIDE DEF e, f
<1>7. t \in Seq(Entries) /\ Len(t) = 2 /\ DOMAIN t = {1, 2} /\ t[1] = e /\ t[2] = f /\ t # <<>>
  BY <1>4, <1>5
<1>8. Room(t) = kSlots
  <2>1. Room(t) = e.len + f.len
    BY <1>4, <1>5, RoomTwo
  <2> QED BY <1>4, <1>5, <2>1, Sizes
<1> HIDE DEF t
<1>9. d.blk[p].use = "dir" /\ d.blk[p].ents = t
  BY <1>6, <1>7, DirBlockIs
<1>10. IsDir(d, x)
  BY <1>1 DEF IsDir
<1>11. \A q \in Spots(d, x) : \/ q = <<p, 1>> /\ Ent(d, q) = e
                              \/ q = <<p, 2>> /\ Ent(d, q) = f
  <2> SUFFICES ASSUME NEW q \in Spots(d, x) PROVE \/ q = <<p, 1>> /\ Ent(d, q) = e
                                                  \/ q = <<p, 2>> /\ Ent(d, q) = f
    OBVIOUS
  <2>1. q[1] = p /\ q[2] \in {1, 2} /\ q = <<q[1], q[2]>>
    BY <1>1, <1>7, <1>9, EntTypes
  <2> QED BY <1>7, <1>9, <2>1 DEF Ent
<1>12. \A q, r \in Spots(d, x) : Ent(d, q).name = Ent(d, r).name => q = r
  BY <1>4, <1>5, <1>11
<1>13. Shape(d, x)
  <2>1. \A k \in DOMAIN d.ino[x].ext : d.ino[x].ext[k].l = k - 1 /\ d.ino[x].ext[k].n = 1
    BY <1>1
  <2>2. \A b \in Own(d, x) : d.blk[b].use = "dir" /\ d.blk[b].ents # <<>> /\ Room(d.blk[b].ents) = kSlots
    BY <1>1, <1>7, <1>8, <1>9
  <2>3. NumBlocks(d.ino[x]) = Len(d.ino[x].ext)
    BY <1>1
  <2> QED BY <1>12, <2>1, <2>2, <2>3, Zenon DEF Shape
<1>14. Named(d, x) = {}
  <2>1. "." \notin Names /\ ".." \notin Names
    BY NamesAssumption DEF Names
  <2> QED BY <1>4, <1>5, <1>11, <2>1, NamedIs
<1>15. Up(d, x, up)
  <2>1. <<p, 2>> \in Spots(d, x) /\ Ent(d, <<p, 2>>) = f
    <3>1. p \in Own(d, x) /\ 2 \in Nat \ {0} /\ 2 \in DOMAIN d.blk[p].ents /\ d.blk[p].ents[2] = f
      BY <1>1, <1>7, <1>9
    <3> QED BY <1>10, <3>1, SpotIs
  <2>2. \E q \in Spots(d, x) : Ent(d, q).name = ".."
    BY <1>5, <2>1
  <2>3. \A q \in Spots(d, x) \ Named(d, x) :
          \/ Ent(d, q).name = "." /\ Ent(d, q).ino = x
          \/ Ent(d, q).name = ".." /\ Ent(d, q).ino = up
    BY <1>4, <1>5, <1>11
  <2> QED BY <2>2, <2>3 DEF Up
<1>16. Kids(d, x) = {}
  BY <1>14, KidsIs
<1> QED
  BY <1>1, <1>10, <1>13, <1>14, <1>15, <1>16

LEMMA NewFileIs ==
  ASSUME NEW kind \in {"none", "file"}, NEW inode, inode = [kind |-> kind, size |-> 0, ext |-> <<>>]
  PROVE  /\ inode \in InodeRecs /\ inode.kind = kind /\ inode.ext = <<>>
         /\ BlocksIn(inode.ext) = {} /\ Disjoint(inode.ext)
<1>1. inode.kind = kind /\ inode.ext = <<>> /\ inode.size = 0
  OBVIOUS
<1>2. <<>> \in ExtLists
  BY Sizes DEF ExtLists
<1>3. inode \in InodeRecs
  BY <1>2 DEF InodeRecs
<1>4. DOMAIN inode.ext = {}
  BY <1>1
<1>5. BlocksIn(inode.ext) = {}
  BY <1>4, InBlocksIn
<1>6. Disjoint(inode.ext)
  BY <1>4 DEF Disjoint
<1> QED
  BY <1>1, <1>3, <1>5, <1>6

\* One inode more is watched.
LEMMA GoodPlus ==
  ASSUME NEW F, NEW d, Good(d, F), NEW x, Sound(d, x),
         \A j \in (Linked(d) \cup F) \ {x} : Own(d, x) \cap Own(d, j) = {}
  PROVE  Good(d, F \cup {x})
<1> DEFINE S == Linked(d) \cup F
<1>1. Spread(d, S)
  BY DEF Good
<1>2. Spread(d, S \cup {x})
  BY <1>1 DEF Spread
<1>3. Linked(d) \cup (F \cup {x}) = S \cup {x}
  OBVIOUS
<1> QED
  BY <1>2, <1>3 DEF Good

LEMMA BeginFine ==
  ASSUME NEW F, Good(disk, F), g_hint \in Blocks
  PROVE  Fine(Begin, F) /\ Begin.ok /\ Begin.d = disk /\ Begin.log = <<>> /\ Begin.hint = g_hint
<1>1. disk \in Disks
  BY DEF Good
<1>2. Begin.ok /\ Begin.d = disk /\ Begin.log = <<>> /\ Begin.hint = g_hint /\ Begin.got = 0
  BY DEF Begin
<1>3. <<>> \in Seq(Logged)
  OBVIOUS
<1>4. Begin \in Calls
  BY <1>1, <1>3 DEF Begin, Calls
<1>5. DOMAIN <<>> = {}
  OBVIOUS
<1> QED
  BY <1>2, <1>4, <1>5 DEF Fine

\* What a call comes to: every disk it leaves behind is good, and the counts are
\* never below what is free if they were not before.
Works(c, F) == Fine(c, F) /\ (Enough(disk, 0, 0) => Enough(c.d, 0, 0))

\* The inode alloc_inode() took, filled with what it will be.
Taken(d, F, a, x, inode) ==
  /\ Good(a, F) /\ x \in Inodes /\ x \in a.ibm /\ x \notin Linked(a)
  /\ inode \in InodeRecs /\ inode.kind # "none"
  /\ BlocksIn(inode.ext) \subseteq a.bbm \ {0} /\ Disjoint(inode.ext)
  /\ \A j \in (Linked(a) \cup F) \ {x} : BlocksIn(inode.ext) \cap Own(a, j) = {}
  /\ Kept(d, a) /\ Linked(a) = Linked(d)

Marks(d, d2, x) == d2 = [d EXCEPT !.ibm = @ \cup {x}]

TakenStored(d, F, a, x, inode, d2) ==
  /\ Good(d2, F) /\ Good(d2, F \cup {x}) /\ Linked(d2) = Linked(d) /\ Kept(d, d2)
  /\ d2.ino[x] = inode /\ d2.bbm = a.bbm /\ d2.ibm = a.ibm /\ d2.blk = a.blk
  /\ d2.fb = a.fb /\ d2.fi = a.fi

LEMMA StoreTaken ==
  ASSUME NEW F \in SUBSET Inodes, NEW d \in Disks, Linked(d) \subseteq Inodes, NEW a, NEW x, NEW inode,
         Taken(d, F, a, x, inode), NEW d2, Stores(a, d2, x, inode)
  PROVE  TakenStored(d, F, a, x, inode, d2)
<1>1. /\ Good(a, F) /\ x \in Inodes /\ x \notin Linked(a) /\ inode \in InodeRecs
      /\ BlocksIn(inode.ext) \subseteq a.bbm \ {0} /\ Disjoint(inode.ext)
      /\ \A j \in (Linked(a) \cup F) \ {x} : BlocksIn(inode.ext) \cap Own(a, j) = {}
      /\ Kept(d, a) /\ Linked(a) = Linked(d)
  BY DEF Taken
<1>2. /\ Good(d2, F) /\ Linked(d2) = Linked(a)
      /\ d2.bbm = a.bbm /\ d2.ibm = a.ibm /\ d2.blk = a.blk
      /\ d2.ino[x] = inode /\ (\A j \in Inodes \ {x} : d2.ino[j] = a.ino[j])
      /\ d2.fb = a.fb /\ d2.fi = a.fi
  <2>1. Storable(a, F, x, inode)
    BY <1>1 DEF Storable
  <2> QED BY <1>1, <2>1, StoreInode
<1>3. Sound(d2, x)
  BY <1>1, <1>2 DEF Sound, Own, Disjoint
<1>4. \A j \in (Linked(d2) \cup F) \ {x} : Own(d2, x) \cap Own(d2, j) = {}
  <2> SUFFICES ASSUME NEW j \in (Linked(d2) \cup F) \ {x} PROVE Own(d2, x) \cap Own(d2, j) = {}
    OBVIOUS
  <2>1. j \in Inodes \ {x} /\ j \in (Linked(a) \cup F) \ {x}
    BY <1>1, <1>2
  <2>2. Own(d2, j) = Own(a, j) /\ Own(d2, x) = BlocksIn(inode.ext)
    BY <1>2, <2>1 DEF Own
  <2> QED BY <1>1, <2>1, <2>2
<1>5. Good(d2, F \cup {x})
  BY <1>2, <1>3, <1>4, GoodPlus
<1>6. Kept(d, d2)
  <2>1. \A i \in Linked(d) : d2.ino[i] = a.ino[i]
    BY <1>1, <1>2
  <2> QED BY <1>1, <1>2, <2>1 DEF Kept
<1> QED
  BY <1>1, <1>2, <1>5, <1>6 DEF TakenStored

\* An inode is taken: the tree is as it was.
LEMMA InodeTaken ==
  ASSUME NEW F, NEW d, Good(d, F), NEW x \in Inodes, x \notin d.ibm,
         NEW d2, Marks(d, d2, x)
  PROVE  /\ Good(d2, F) /\ Linked(d2) = Linked(d) /\ Kept(d, d2) /\ x \notin Linked(d)
         /\ x \in d2.ibm /\ d2.ibm = d.ibm \cup {x} /\ d2.bbm = d.bbm /\ d2.ino = d.ino /\ d2.blk = d.blk
         /\ d2.fb = d.fb /\ d2.fi = d.fi
         /\ Enough(d, 0, 0) => Enough(d2, 0, 1) /\ Enough(d2, 0, 0)
<1> DEFINE I == d.ibm \cup {x}
<1>1. d \in Disks /\ Rooted(d)
  BY DEF Good
<1>2. Linked(d) \subseteq d.ibm
  BY <1>1, LinkedFacts
<1>3. I \in SUBSET Inodes /\ Linked(d) \subseteq I
  BY <1>1, <1>2, DiskTypes
<1>4. d2 = [d EXCEPT !.ibm = I]
  BY DEF Marks
<1> HIDE DEF I
<1>5. /\ Good(d2, F) /\ Linked(d2) = Linked(d)
      /\ d2.bbm = d.bbm /\ d2.ibm = I /\ d2.ino = d.ino /\ d2.blk = d.blk
      /\ d2.fb = d.fb /\ d2.fi = d.fi
  BY <1>3, <1>4, MarkInodes
<1>6. d2 \in Disks
  BY <1>5 DEF Good
<1>7. ASSUME Enough(d, 0, 0) PROVE Enough(d2, 0, 1) /\ Enough(d2, 0, 0)
  <2>1. Enough(d2, 0, 1)
    BY <1>1, <1>5, <1>6, <1>7, EnoughInode DEF I
  <2>2. 0 \in Int /\ 1 \in Int /\ 0 <= 0 /\ 0 <= 1
    OBVIOUS
  <2> QED BY <1>6, <2>1, <2>2, EnoughFewer
<1>8. Kept(d, d2)
  BY <1>5 DEF Kept
<1> QED
  BY <1>2, <1>5, <1>7, <1>8 DEF I

LEMMA StoreCall ==
  ASSUME NEW F, NEW c, Fine(c, F), NEW i, NEW inode, c.ok => Storable(c.d, F, i, inode),
         NEW r, r = store_inode(c, i, inode)
  PROVE  /\ Fine(r, F) /\ r.ok = c.ok /\ r.got = c.got
         /\ c.ok => Stores(c.d, r.d, i, inode)
         /\ ~c.ok => r.d = c.d
<1> DEFINE d2 == [c.d EXCEPT !.ino[i] = inode]
<1>1. Stores(c.d, d2, i, inode)
  BY DEF Stores
<1>2. r = Put(c, d2)
  BY Zenon DEF store_inode
<1> HIDE DEF d2
<1>3. Good(c.d, F)
  BY FineTypes
<1>4. c.ok => Good(d2, F)
  BY <1>1, <1>3, StoreInode
<1>5. /\ Fine(r, F) /\ r.ok = c.ok /\ r.got = c.got
      /\ r.d = IF c.ok THEN d2 ELSE c.d
  BY <1>2, <1>4, PutFine
<1> QED
  BY <1>1, <1>5

\* The first steps of a call that makes something: its parent is asked for, and an
\* inode is taken.
LEMMA BeginInode ==
  ASSUME NEW F, Good(disk, F), g_hint \in Blocks, NEW y \in BOOLEAN, NEW a, a = alloc_inode(Need(Begin, y))
  PROVE  /\ Fine(a, F) /\ a.ok \in BOOLEAN
         /\ ~a.ok => a.d = disk
         /\ a.ok => y /\ a.got \in Inodes /\ a.got \notin disk.ibm /\ Marks(disk, a.d, a.got)
<1> DEFINE n == Need(Begin, y)
<1>1. Fine(Begin, F) /\ Begin.ok /\ Begin.d = disk
  BY BeginFine
<1>2. Fine(n, F) /\ n.ok = (Begin.ok /\ y) /\ n.d = Begin.d
  BY <1>1, NeedFine
<1>3. a = alloc_inode(n)
  OBVIOUS
<1> HIDE DEF n
<1>4. /\ Fine(a, F)
      /\ ~a.ok => a.d = n.d
      /\ a.ok => /\ n.ok /\ a.got \in Inodes /\ a.got \notin n.d.ibm
                 /\ a.d = [n.d EXCEPT !.ibm = @ \cup {a.got}]
  BY <1>2, <1>3, AllocInode
<1>5. a.ok \in BOOLEAN
  BY <1>4, FineTypes
<1>6. n.d = disk
  BY <1>1, <1>2
<1>7. a.ok => y
  BY <1>1, <1>2, <1>4
<1>8. a.ok => Marks(disk, a.d, a.got)
  BY <1>4, <1>6, Zenon DEF Marks
<1> QED
  BY <1>4, <1>5, <1>6, <1>7, <1>8

LEMMA CreatedWorks ==
  ASSUME NEW F \in SUBSET Inodes, Good(disk, F), g_hint \in Blocks, NEW path \in Paths,
         lookup_abs(disk, path) = 0, NEW r, r = Created(path)
  PROVE  Works(r, F) /\ (r.ok => lookup_abs(r.d, path) # 0)
<1> DEFINE up == lookup_abs(disk, Front(path))
           y == up # 0
           a == alloc_inode(Need(Begin, y))
           x == a.got
           s == store_inode(a, x, NewFile)
<1>1. r = commit_counts(dir_add_entry(s, up, Last(path), x), 0, 1)
  BY Zenon DEF Created
<1>2. disk \in Disks /\ Rooted(disk)
  BY DEF Good
<1>3. Linked(disk) \subseteq Inodes /\ Linked(disk) \subseteq disk.ibm
  BY <1>2, LinkedFacts
<1>4. y \in BOOLEAN
  OBVIOUS
<1>5. /\ Fine(a, F) /\ a.ok \in BOOLEAN
      /\ ~a.ok => a.d = disk
      /\ a.ok => y /\ x \in Inodes /\ x \notin disk.ibm /\ Marks(disk, a.d, x)
  <2> HIDE DEF y
  <2> QED BY <1>4, BeginInode
<1>6. up = lookup_abs(disk, Front(path)) /\ (y => up # 0) /\ s = store_inode(a, x, NewFile)
  OBVIOUS
<1> HIDE DEF a, x, y, up, s
<1>7. /\ NewFile \in InodeRecs /\ NewFile.kind = "file" /\ NewFile.ext = <<>>
      /\ BlocksIn(NewFile.ext) = {} /\ Disjoint(NewFile.ext)
  BY NewFileIs DEF NewFile
<1>8. ASSUME a.ok
      PROVE  /\ Taken(disk, F, a.d, x, NewFile) /\ Storable(a.d, F, x, NewFile)
             /\ a.d.ibm = disk.ibm \cup {x} /\ x \notin Linked(disk)
             /\ Enough(disk, 0, 0) => Enough(a.d, 0, 1) /\ Enough(a.d, 0, 0)
  <2>1. /\ Good(a.d, F) /\ Linked(a.d) = Linked(disk) /\ Kept(disk, a.d) /\ x \notin Linked(disk)
        /\ x \in a.d.ibm /\ a.d.ibm = disk.ibm \cup {x}
        /\ Enough(disk, 0, 0) => Enough(a.d, 0, 1) /\ Enough(a.d, 0, 0)
    BY <1>5, <1>8, InodeTaken
  <2>2. NewFile.kind # "none" /\ x \in Inodes
    BY <1>5, <1>7, <1>8
  <2>3. Taken(disk, F, a.d, x, NewFile)
    BY <1>7, <2>1, <2>2 DEF Taken
  <2>4. Storable(a.d, F, x, NewFile)
    BY <1>7, <2>1, <2>2 DEF Storable
  <2> QED BY <2>1, <2>3, <2>4
<1>9. /\ Fine(s, F) /\ s.ok = a.ok
      /\ a.ok => Stores(a.d, s.d, x, NewFile)
      /\ ~a.ok => s.d = a.d
  <2> HIDE DEF NewFile
  <2> QED BY <1>5, <1>6, <1>8, StoreCall
<1>10. ASSUME a.ok
       PROVE  /\ Good(s.d, F \cup {x}) /\ Linked(s.d) = Linked(disk) /\ Kept(disk, s.d)
              /\ s.d.ino[x] = NewFile /\ s.d.ibm = disk.ibm \cup {x}
              /\ Grew(a.d, s.d)
  <2>1. /\ Good(s.d, F) /\ Good(s.d, F \cup {x}) /\ Linked(s.d) = Linked(disk) /\ Kept(disk, s.d)
        /\ s.d.ino[x] = NewFile /\ s.d.bbm = a.d.bbm /\ s.d.ibm = a.d.ibm /\ s.d.blk = a.d.blk
        /\ s.d.fb = a.d.fb /\ s.d.fi = a.d.fi
    <3>1. TakenStored(disk, F, a.d, x, NewFile, s.d)
      BY <1>2, <1>3, <1>8, <1>9, <1>10, StoreTaken
    <3> QED BY <3>1 DEF TakenStored
  <2> QED BY <1>8, <1>10, <2>1 DEF Grew
<1>11. ASSUME a.ok PROVE Ready(s.d, x, up)
  <2>1. s.d.ino[x].kind = "file" /\ ~IsDir(s.d, x) /\ s.d.ino[x].kind # "none"
    BY <1>7, <1>10, <1>11 DEF IsDir
  <2>2. Shape(s.d, x) /\ Up(s.d, x, up)
    BY <2>1 DEF Shape, Up
  <2>3. Named(s.d, x) = {}
    BY <2>1 DEF Named, Spots
  <2>4. x \in Inodes /\ x \notin Linked(s.d) /\ x \in s.d.ibm
    BY <1>5, <1>8, <1>10, <1>11
  <2> QED BY <2>1, <2>2, <2>3, <2>4 DEF Ready
<1>12. a.d \in Disks /\ s.d \in Disks
  BY <1>5, <1>9, FineTypes
<1>13. Linking(disk, s, F, path, up, x, 0)
  <2>1. ASSUME s.ok
        PROVE  /\ up # 0 /\ lookup_abs(disk, path) = 0 /\ up = lookup_abs(disk, Front(path))
               /\ Kept(disk, s.d) /\ Linked(disk) \subseteq s.d.ibm
               /\ Ready(s.d, x, up) /\ Good(s.d, F \cup {x})
    BY <1>3, <1>5, <1>6, <1>9, <1>10, <1>11, <2>1
  <2>2. ASSUME Enough(disk, 0, 0) PROVE Enough(s.d, 0, 0) /\ (s.ok => Enough(s.d, 0, 1))
    <3>1. CASE ~a.ok
      BY <1>5, <1>9, <2>2, <3>1
    <3>2. CASE a.ok
      <4>1. Enough(a.d, 0, 1) /\ Enough(a.d, 0, 0) /\ Grew(a.d, s.d)
        BY <1>8, <1>10, <2>2, <3>2
      <4>2. 0 \in Int /\ 1 \in Int
        OBVIOUS
      <4> QED BY <1>12, <4>1, <4>2, EnoughGrew
    <3> QED BY <1>5, <3>1, <3>2
  <2> QED BY <2>1, <2>2 DEF Linking
<1>14. 0 \in Nat
  OBVIOUS
<1> QED
  BY <1>1, <1>2, <1>9, <1>13, <1>14, LinkFine DEF Works

LEMMA DotDotBlock ==
  ASSUME NEW x \in Inodes, NEW up \in Inodes
  PROVE  DotDot(x, up) \in DataBlocks \cup DirBlocks
<1> DEFINE e == Entry(".", x, 1)
           f == Entry("..", up, kSlots - 1)
           t == <<e, f>>
<1>1. "." \in Labels /\ ".." \in Labels
  BY Zenon DEF Labels
<1>2. x \in 0 .. kInodes /\ up \in 0 .. kInodes /\ 1 \in Nat /\ kSlots - 1 \in Nat
  BY Sizes DEF Inodes
<1>3. e \in Entries /\ f \in Entries
  BY <1>1, <1>2, EntryIs
<1>4. DotDot(x, up) = DirBlock(t)
  BY Zenon DEF DotDot
<1> HIDE DEF e, f
<1>5. t \in Seq(Entries)
  BY <1>3
<1> HIDE DEF t
<1> QED
  BY <1>4, <1>5, DirBlockIs

\* A new directory from the block and the inode taken for it: the disk a, and d2
\* when both are written.
LEMMA DirTaken ==
  ASSUME NEW F \in SUBSET Inodes, NEW d \in Disks, Rooted(d), NEW a, Good(a, F), Kept(d, a), Linked(a) = Linked(d),
         NEW x \in Inodes, x \in a.ibm, x \notin Linked(d),
         NEW p \in Blocks, p # 0, p \in a.bbm, \A j \in Linked(d) \cup F : p \notin Own(a, j),
         NEW up \in Inodes,
         NEW s, Stores(a, s, x, DirInode(p)), NEW d2, Writes(s, d2, p, DotDot(x, up))
  PROVE  /\ Storable(a, F, x, DirInode(p)) /\ Good(s, F) /\ Spare(s, p)
         /\ Good(d2, F \cup {x}) /\ Kept(d, d2) /\ Ready(d2, x, up)
         /\ Grew(a, s) /\ Grew(a, d2)
<1> DEFINE inode == DirInode(p)
           v == DotDot(x, up)
<1>1. /\ inode \in InodeRecs /\ inode.kind = "dir" /\ BlocksIn(inode.ext) = {p} /\ Disjoint(inode.ext)
  BY DirInodeIs
<1>2. Linked(d) \subseteq Inodes
  BY LinkedFacts
<1>3. v \in DataBlocks \cup DirBlocks
  BY DotDotBlock
<1>4. Stores(a, s, x, inode) /\ Writes(s, d2, p, v)
  OBVIOUS
<1>5. s.ino[x] = inode => s.ino[x] = DirInode(p)
  OBVIOUS
<1>6. d2.blk[p] = v => d2.blk[p] = DotDot(x, up)
  OBVIOUS
<1> HIDE DEF inode, v
<1>7. \A j \in (Linked(a) \cup F) \ {x} : BlocksIn(inode.ext) \cap Own(a, j) = {}
  BY <1>1
<1>8. Taken(d, F, a, x, inode)
  BY <1>1, <1>7 DEF Taken
<1>9. Storable(a, F, x, inode)
  BY <1>1, <1>7 DEF Storable
<1>10. /\ Good(s, F) /\ Good(s, F \cup {x}) /\ Linked(s) = Linked(d) /\ Kept(d, s)
       /\ s.ino[x] = inode /\ s.bbm = a.bbm /\ s.ibm = a.ibm /\ s.blk = a.blk
       /\ s.fb = a.fb /\ s.fi = a.fi
  <2>1. Linked(d) \subseteq Inodes /\ Stores(a, s, x, inode) /\ Taken(d, F, a, x, inode)
    BY <1>2, <1>4, <1>8
  <2>2. TakenStored(d, F, a, x, inode, s)
    BY <2>1, StoreTaken
  <2> QED BY <2>2 DEF TakenStored
<1>11. s \in Disks /\ Spread(s, Linked(s) \cup (F \cup {x}))
  BY <1>10 DEF Good
<1>12. \A j \in Linked(d) : p \notin Own(s, j)
  <2>1. Own(s, x) = {p}
    BY <1>1, <1>10 DEF Own
  <2> QED BY <1>10, <1>11, <2>1 DEF Spread
<1>13. Spare(s, p)
  BY <1>10, <1>12 DEF Spare
<1>14. Good(d2, F \cup {x}) /\ Linked(d2) = Linked(s)
  BY <1>3, <1>4, <1>10, <1>13, WriteSpare
<1>15. /\ d2 \in Disks /\ d2.bbm = s.bbm /\ d2.ibm = s.ibm /\ d2.ino = s.ino
       /\ d2.fb = s.fb /\ d2.fi = s.fi
       /\ d2.blk[p] = v /\ \A b \in Blocks \ {p} : d2.blk[b] = s.blk[b]
  BY <1>3, <1>4, <1>11, WriteOne
<1>16. Kept(d, d2)
  <2> SUFFICES ASSUME NEW i \in Linked(d)
               PROVE  /\ d2.ino[i].kind = d.ino[i].kind
                      /\ IsDir(d, i) => d2.ino[i] = d.ino[i] /\ \A b \in Own(d, i) : d2.blk[b] = d.blk[b]
    BY DEF Kept
  <2>1. /\ s.ino[i].kind = d.ino[i].kind
        /\ IsDir(d, i) => s.ino[i] = d.ino[i] /\ \A b \in Own(d, i) : s.blk[b] = d.blk[b]
    BY <1>10 DEF Kept
  <2>2. ASSUME IsDir(d, i), NEW b \in Own(d, i) PROVE d2.blk[b] = d.blk[b]
    <3>1. b \in Own(s, i)
      BY <2>1, <2>2 DEF Own
    <3>2. b \in Blocks
      BY <1>2, <2>2, OwnInBlocks
    <3>3. b # p
      BY <1>12, <3>1
    <3> QED BY <1>15, <2>1, <2>2, <3>2, <3>3
  <2> QED BY <1>15, <2>1, <2>2
<1>17. Ready(d2, x, up)
  <2>1. d2.ino[x] = DirInode(p) /\ d2.blk[p] = DotDot(x, up)
    BY <1>5, <1>6, <1>10, <1>15
  <2>2. /\ Shape(d2, x) /\ Named(d2, x) = {} /\ Up(d2, x, up) /\ IsDir(d2, x)
    BY <1>15, <2>1, NewDir
  <2>3. d2.ino[x].kind # "none"
    BY <2>2 DEF IsDir
  <2>4. x \notin Linked(d2) /\ x \in d2.ibm
    BY <1>10, <1>14, <1>15
  <2> QED BY <2>2, <2>3, <2>4 DEF Ready
<1>18. Grew(a, s) /\ Grew(a, d2)
  BY <1>10, <1>15 DEF Grew
<1> QED
  BY <1>9, <1>10, <1>13, <1>14, <1>16, <1>17, <1>18 DEF inode

\* Block and inode as mkdir() takes them.
LEMMA BlockTaken ==
  ASSUME NEW F, NEW c, Fine(c, F), NEW b, b = alloc_blocks(c, 1)
  PROVE  /\ Fine(b, F) /\ b.ok \in BOOLEAN /\ (b.ok => c.ok)
         /\ ~b.ok => b.d = c.d
         /\ b.ok => /\ b.got \in Blocks /\ b.got # 0 /\ b.got \notin c.d.bbm
                    /\ Linked(b.d) = Linked(c.d) /\ b.d.ino = c.d.ino /\ b.d.blk = c.d.blk
                    /\ b.d.ibm = c.d.ibm /\ b.d.bbm = c.d.bbm \cup {b.got}
                    /\ \A y \in Int : Enough(c.d, 0, y) => Enough(b.d, 1, y)
<1> DEFINE p == b.got
           R == p .. p + 1 - 1
<1>1. 1 \in Nat /\ 1 > 0
  OBVIOUS
<1>2. /\ Fine(b, F)
      /\ ~b.ok => b.d = c.d
      /\ b.ok => /\ c.ok /\ p \in Nat /\ p > 0 /\ p + 1 <= kBlocks
                 /\ R \cap c.d.bbm = {}
                 /\ b.d = [c.d EXCEPT !.bbm = @ \cup R]
  BY <1>1, AllocBlocks
<1>3. b.ok \in BOOLEAN /\ b.d \in Disks /\ c.d \in Disks /\ Good(c.d, F)
  BY <1>2, FineTypes
<1>4. ASSUME b.ok
      PROVE  /\ p \in Blocks /\ p # 0 /\ p \notin c.d.bbm
             /\ Linked(b.d) = Linked(c.d) /\ b.d.ino = c.d.ino /\ b.d.blk = c.d.blk
             /\ b.d.ibm = c.d.ibm /\ b.d.bbm = c.d.bbm \cup {p}
             /\ \A y \in Int : Enough(c.d, 0, y) => Enough(b.d, 1, y)
  <2>1. p \in Nat /\ p > 0 /\ p + 1 <= kBlocks /\ R = {p}
    BY <1>2, <1>4
  <2>2. p \in Blocks
    BY <2>1, Sizes DEF Blocks
  <2>3. R \cap c.d.bbm = {} /\ b.d = [c.d EXCEPT !.bbm = @ \cup R]
    BY <1>2, <1>4
  <2>4. R \subseteq Blocks
    BY <2>1, <2>2
  <2> HIDE DEF R
  <2>5. /\ Linked(b.d) = Linked(c.d)
        /\ b.d.bbm = c.d.bbm \cup R /\ b.d.ibm = c.d.ibm /\ b.d.ino = c.d.ino /\ b.d.blk = c.d.blk
        /\ b.d.fb = c.d.fb /\ b.d.fi = c.d.fi
    BY <1>3, <2>3, <2>4, MarkBlocks, SMTT(30)
  <2>6. ASSUME NEW y \in Int, Enough(c.d, 0, y) PROVE Enough(b.d, 1, y)
    BY <1>1, <1>3, <2>1, <2>3, <2>5, <2>6, EnoughBlocks DEF R
  <2> QED BY <2>1, <2>2, <2>3, <2>5, <2>6
<1> QED
  BY <1>2, <1>3, <1>4

LEMMA MkdirWorks ==
  ASSUME NEW F \in SUBSET Inodes, Good(disk, F), g_hint \in Blocks, NEW path \in Paths,
         NEW r, r = mkdir(path)
  PROVE  Works(r, F)
<1> DEFINE up == lookup_abs(disk, Front(path))
           y == /\ up # 0 /\ disk.ino[up].kind = "dir" /\ lookup_abs(disk, path) = 0
           i == alloc_inode(Need(Begin, y))
           x == i.got
           b == alloc_blocks(i, 1)
           p == b.got
           s == store_inode(b, x, DirInode(p))
           w == write_block(s, p, DotDot(x, up))
<1>1. r = commit_counts(dir_add_entry(w, up, Last(path), x), 1, 1)
  BY Zenon DEF mkdir, DirInode
<1>2. disk \in Disks /\ Rooted(disk)
  BY DEF Good
<1>3. Linked(disk) \subseteq Inodes /\ Linked(disk) \subseteq disk.ibm /\ Near(disk) \subseteq Linked(disk)
  BY <1>2, LinkedFacts
<1>4. y \in BOOLEAN
  OBVIOUS
<1>5. /\ Fine(i, F) /\ i.ok \in BOOLEAN
      /\ ~i.ok => i.d = disk
      /\ i.ok => y /\ x \in Inodes /\ x \notin disk.ibm /\ Marks(disk, i.d, x)
  <2> HIDE DEF y
  <2> QED BY <1>4, BeginInode
<1>6. /\ up = lookup_abs(disk, Front(path)) /\ (y => up # 0 /\ lookup_abs(disk, path) = 0)
      /\ b = alloc_blocks(i, 1)
      /\ s = store_inode(b, x, DirInode(p)) /\ w = write_block(s, p, DotDot(x, up))
  OBVIOUS
<1>7. p = b.got
  OBVIOUS
<1> HIDE DEF i, x, y, up, b, s, w
<1>8. ASSUME i.ok
      PROVE  /\ Good(i.d, F) /\ Linked(i.d) = Linked(disk) /\ Kept(disk, i.d) /\ x \notin Linked(disk)
             /\ i.d.ibm = disk.ibm \cup {x}
             /\ Enough(disk, 0, 0) => Enough(i.d, 0, 1) /\ Enough(i.d, 0, 0)
  BY <1>5, <1>8, InodeTaken
<1>9. /\ Fine(b, F) /\ b.ok \in BOOLEAN /\ (b.ok => i.ok)
      /\ ~b.ok => b.d = i.d
      /\ b.ok => /\ p \in Blocks /\ p # 0 /\ p \notin i.d.bbm
                 /\ Linked(b.d) = Linked(i.d) /\ b.d.ino = i.d.ino /\ b.d.blk = i.d.blk
                 /\ b.d.ibm = i.d.ibm /\ b.d.bbm = i.d.bbm \cup {p}
                 /\ \A z \in Int : Enough(i.d, 0, z) => Enough(b.d, 1, z)
  BY <1>5, <1>6, BlockTaken
<1> HIDE DEF p
<1>10. ASSUME b.ok
       PROVE  /\ Good(b.d, F) /\ Kept(disk, b.d) /\ Linked(b.d) = Linked(disk)
              /\ x \in Inodes /\ x \in b.d.ibm /\ x \notin Linked(disk)
              /\ p \in Blocks /\ p # 0 /\ p \in b.d.bbm /\ (\A j \in Linked(disk) \cup F : p \notin Own(b.d, j))
              /\ up \in Inodes /\ up # 0 /\ lookup_abs(disk, path) = 0 /\ b.d.ibm = disk.ibm \cup {x}
  <2>1. i.ok /\ y /\ x \in Inodes /\ up # 0 /\ lookup_abs(disk, path) = 0
    BY <1>5, <1>6, <1>9, <1>10
  <2>2. Good(b.d, F)
    BY <1>9, FineTypes
  <2>3. Kept(disk, b.d) /\ Linked(b.d) = Linked(disk)
    <3>1. Kept(disk, i.d) /\ Linked(i.d) = Linked(disk) /\ b.d.ino = i.d.ino /\ b.d.blk = i.d.blk
      BY <1>8, <1>9, <1>10, <2>1
    <3> QED BY <1>9, <1>10, <3>1 DEF Kept
  <2>4. up \in Inodes
    BY <1>2, <1>3, <1>6, <2>1, LookupIn
  <2>5. \A j \in Linked(disk) \cup F : p \notin Own(b.d, j)
    <3>1. Spread(i.d, Linked(i.d) \cup F)
      BY <1>5, FineTypes
    <3>2. \A j \in Linked(disk) \cup F : Own(i.d, j) \subseteq i.d.bbm
      BY <1>8, <2>1, <3>1 DEF Spread, Sound
    <3>3. \A j : Own(b.d, j) = Own(i.d, j)
      BY <1>9, <1>10 DEF Own
    <3> QED BY <1>9, <1>10, <3>2, <3>3
  <2> QED BY <1>8, <1>9, <1>10, <2>1, <2>2, <2>3, <2>4, <2>5
<1>11. ASSUME b.ok PROVE Storable(b.d, F, x, DirInode(p))
  <2> DEFINE d1 == [b.d EXCEPT !.ino[x] = DirInode(p)]
             d2 == [d1 EXCEPT !.blk[p] = DotDot(x, up)]
  <2>1. Stores(b.d, d1, x, DirInode(p)) /\ Writes(d1, d2, p, DotDot(x, up))
    BY DEF Stores, Writes
  <2> HIDE DEF d1, d2
  <2> QED BY <1>2, <1>10, <1>11, <2>1, DirTaken
<1>12. /\ Fine(s, F) /\ s.ok = b.ok
       /\ b.ok => Stores(b.d, s.d, x, DirInode(p))
       /\ ~b.ok => s.d = b.d
  BY <1>6, <1>9, <1>11, StoreCall
<1>13. ASSUME s.ok PROVE Spare(s.d, p) /\ DotDot(x, up) \in DataBlocks \cup DirBlocks
  <2> DEFINE d2 == [s.d EXCEPT !.blk[p] = DotDot(x, up)]
  <2>1. Writes(s.d, d2, p, DotDot(x, up))
    BY DEF Writes
  <2> HIDE DEF d2
  <2>2. b.ok /\ Stores(b.d, s.d, x, DirInode(p))
    BY <1>12, <1>13
  <2>3. Spare(s.d, p)
    BY <1>2, <1>10, <2>1, <2>2, DirTaken
  <2> QED BY <1>10, <2>2, <2>3, DotDotBlock
<1>14. /\ Fine(w, F) /\ w.ok = s.ok
       /\ s.ok => Writes(s.d, w.d, p, DotDot(x, up))
       /\ ~s.ok => w.d = s.d
  BY <1>6, <1>12, <1>13, WriteCall
<1>15. ASSUME b.ok
       PROVE  Good(w.d, F \cup {x}) /\ Kept(disk, w.d) /\ Ready(w.d, x, up) /\ Grew(b.d, w.d)
  <2>1. Stores(b.d, s.d, x, DirInode(p)) /\ Writes(s.d, w.d, p, DotDot(x, up))
    BY <1>12, <1>14, <1>15
  <2> QED BY <1>2, <1>10, <1>15, <2>1, DirTaken
<1>16. b.d \in Disks /\ w.d \in Disks
  BY <1>9, <1>14, FineTypes
<1>17. Linking(disk, w, F, path, up, x, 1)
  <2>1. ASSUME w.ok
        PROVE  /\ up # 0 /\ lookup_abs(disk, path) = 0 /\ up = lookup_abs(disk, Front(path))
               /\ Kept(disk, w.d) /\ Linked(disk) \subseteq w.d.ibm
               /\ Ready(w.d, x, up) /\ Good(w.d, F \cup {x})
    <3>1. b.ok
      BY <1>12, <1>14, <2>1
    <3>2. w.d.ibm = b.d.ibm
      BY <1>15, <3>1 DEF Grew
    <3> QED BY <1>3, <1>6, <1>10, <1>15, <3>1, <3>2
  <2>2. ASSUME Enough(disk, 0, 0) PROVE Enough(w.d, 0, 0) /\ (w.ok => Enough(w.d, 1, 1))
    <3>1. CASE ~b.ok
      <4>1. w.d = i.d /\ ~w.ok
        BY <1>9, <1>12, <1>14, <3>1
      <4>2. Enough(i.d, 0, 0)
        BY <1>5, <1>8, <2>2
      <4> QED BY <4>1, <4>2
    <3>2. CASE b.ok
      <4>1. Enough(i.d, 0, 1)
        BY <1>8, <1>9, <2>2, <3>2
      <4>2. 0 \in Int /\ 1 \in Int /\ 0 <= 1
        OBVIOUS
      <4>3. Enough(b.d, 1, 1)
        BY <1>9, <3>2, <4>1, <4>2
      <4>4. Enough(w.d, 1, 1)
        BY <1>15, <1>16, <3>2, <4>2, <4>3, EnoughGrew
      <4>5. Enough(w.d, 0, 0)
        BY <1>16, <4>2, <4>4, EnoughFewer
      <4> QED BY <4>4, <4>5
    <3> QED BY <1>9, <3>1, <3>2
  <2> QED BY <2>1, <2>2 DEF Linking
<1>18. 1 \in Nat
  OBVIOUS
<1> QED
  BY <1>1, <1>2, <1>14, <1>17, <1>18, LinkFine DEF Works

\* The blocks of an inode whose place in the inode table now holds no block.
LEMMA OldUnheld ==
  ASSUME NEW F \in SUBSET Inodes, NEW d, Good(d, F), NEW i \in Linked(d), NEW d2, Linked(d2) \subseteq Linked(d),
         i \in Linked(d2) \cup F => Own(d2, i) = {}, \A j \in Inodes \ {i} : d2.ino[j] = d.ino[j]
  PROVE  Unheld(d2, F, Own(d, i))
<1>1. d \in Disks /\ Rooted(d) /\ Spread(d, Linked(d) \cup F)
  BY DEF Good
<1>2. Linked(d) \subseteq Inodes
  BY <1>1, LinkedFacts
<1>3. 0 \notin Own(d, i)
  BY <1>1 DEF Spread, Sound
<1>4. \A j \in Linked(d2) \cup F : Own(d2, j) \cap Own(d, i) = {}
  <2> SUFFICES ASSUME NEW j \in Linked(d2) \cup F, j # i PROVE Own(d2, j) \cap Own(d, i) = {}
    OBVIOUS
  <2>1. j \in Inodes \ {i} /\ j \in Linked(d) \cup F
    BY <1>2
  <2>2. Own(d2, j) = Own(d, j)
    BY <2>1 DEF Own
  <2> QED BY <1>1, <2>1, <2>2 DEF Spread
<1> QED
  BY <1>3, <1>4 DEF Unheld, Clear

LEMMA TruncatedWorks ==
  ASSUME NEW F \in SUBSET Inodes, Good(disk, F), g_hint \in Blocks, NEW path \in Paths,
         lookup_abs(disk, path) # 0, disk.ino[lookup_abs(disk, path)].kind = "file",
         NEW r, r = Truncated(path)
  PROVE  Works(r, F)
<1> DEFINE i == lookup_abs(disk, path)
           old == disk.ino[i]
           y == old.kind = "file"
           n == Need(Begin, y)
           s == store_inode(n, i, NewFile)
           f == free_blocks(s, old.ext)
           k == Freed(old)
<1>1. r = commit_counts(f, 0 - k, 0)
  BY Zenon DEF Truncated
<1>2. disk \in Disks /\ Rooted(disk)
  BY DEF Good
<1>3. i \in Linked(disk) /\ i \in Inodes
  BY <1>2, LinkedFacts, LookupIn
<1>4. y \in BOOLEAN /\ y
  OBVIOUS
<1>5. Fine(n, F) /\ n.ok /\ n.d = disk
  <2> HIDE DEF y
  <2>1. Fine(Begin, F) /\ Begin.ok /\ Begin.d = disk
    BY BeginFine
  <2> QED BY <1>4, <2>1, NeedFine
<1>6. /\ s = store_inode(n, i, NewFile) /\ f = free_blocks(s, old.ext) /\ k = Freed(old)
      /\ old = disk.ino[i] /\ disk.ino[i].kind = "file"
  OBVIOUS
<1> HIDE DEF y, n, s, f, i, old, k
<1>7. /\ NewFile \in InodeRecs /\ NewFile.kind = "file"
      /\ BlocksIn(NewFile.ext) = {} /\ Disjoint(NewFile.ext)
  BY NewFileIs DEF NewFile
<1>8. Storable(disk, F, i, NewFile)
  BY <1>3, <1>6, <1>7 DEF Storable
<1>9. Fine(s, F) /\ s.ok = n.ok /\ Stores(disk, s.d, i, NewFile)
  <2> HIDE DEF NewFile
  <2> QED BY <1>5, <1>6, <1>8, StoreCall
<1>10. /\ Linked(s.d) = Linked(disk) /\ s.d.ino[i] = NewFile
       /\ \A j \in Inodes \ {i} : s.d.ino[j] = disk.ino[j]
       /\ s.d.bbm = disk.bbm /\ s.d.ibm = disk.ibm /\ s.d.fb = disk.fb /\ s.d.fi = disk.fi
  BY <1>8, <1>9, StoreInode
<1>11. Unheld(s.d, F, BlocksIn(old.ext))
  <2>1. Own(s.d, i) = {}
    BY <1>7, <1>10 DEF Own
  <2>2. Unheld(s.d, F, Own(disk, i))
    BY <1>3, <1>10, <2>1, OldUnheld
  <2> QED BY <1>6, <2>2 DEF Own
<1>12. old \in InodeRecs /\ old.ext \in ExtLists
  BY <1>2, <1>3, <1>6, ExtTypes
<1> DEFINE R == BlocksIn(old.ext)
<1>13. /\ Fine(f, F) /\ f.ok = s.ok
       /\ f.d.ibm = s.d.ibm /\ f.d.fb = s.d.fb /\ f.d.fi = s.d.fi
       /\ f.d.bbm = IF s.ok THEN s.d.bbm \ R ELSE s.d.bbm
  BY <1>6, <1>9, <1>11, <1>12, FreeBlocks
<1>14. f.ok /\ f.d.bbm = disk.bbm \ R /\ f.d.ibm = disk.ibm /\ f.d.fb = disk.fb /\ f.d.fi = disk.fi
  BY <1>5, <1>9, <1>10, <1>13
<1>15. k \in Nat /\ IsFiniteSet(R) /\ Cardinality(R) <= k
  BY <1>6, <1>12, FreedCounts
<1>16. 0 - k \in Int /\ 0 \in Int /\ 0 - k <= 0 /\ 0 <= 0
  BY <1>15
<1> HIDE DEF R
<1>17. f.d \in Disks
  BY <1>13, FineTypes
<1>18. Fine(r, F)
  BY <1>1, <1>13, <1>16, CommitCounts
<1>19. ASSUME Enough(disk, 0, 0) PROVE Enough(r.d, 0, 0)
  <2>1. Enough(f.d, 0 - k, 0)
    BY <1>2, <1>14, <1>15, <1>17, <1>19, EnoughFreed
  <2> QED BY <1>1, <1>13, <1>14, <1>16, <2>1, CommitEnough
<1> QED
  BY <1>18, <1>19 DEF Works

\* Entry k of block b is gone, the ones behind it have moved up.
Unlinks(d, d2, b, k) == Writes(d, d2, b, DirBlock(Unlinked(d.blk[b].ents, k)))
Shift(b, k, q) == IF q[1] # b \/ q[2] < k THEN q ELSE <<b, q[2] + 1>>

LEMMA UnlinkBlock ==
  ASSUME NEW d \in Disks, NEW b \in Blocks, NEW k \in 2 .. Len(d.blk[b].ents), NEW d2, Unlinks(d, d2, b, k)
  PROVE  /\ d2 \in Disks /\ d2.bbm = d.bbm /\ d2.ibm = d.ibm /\ d2.ino = d.ino
         /\ d2.fb = d.fb /\ d2.fi = d.fi
         /\ \A a \in Blocks \ {b} : d2.blk[a] = d.blk[a]
         /\ d2.blk[b].use = "dir" /\ d2.blk[b].ents # <<>>
         /\ Room(d2.blk[b].ents) = Room(d.blk[b].ents)
         /\ Len(d.blk[b].ents) \in Nat
         /\ DOMAIN d.blk[b].ents = 1 .. Len(d.blk[b].ents)
         /\ DOMAIN d2.blk[b].ents = 1 .. Len(d.blk[b].ents) - 1
         /\ \A j \in 1 .. Len(d.blk[b].ents) - 1 :
              LET o == IF j < k THEN j ELSE j + 1
              IN d2.blk[b].ents[j].name = d.blk[b].ents[o].name /\ d2.blk[b].ents[j].ino = d.blk[b].ents[o].ino
<1> DEFINE s == d.blk[b].ents
           t == Unlinked(s, k)
           v == DirBlock(t)
<1>1. s \in Seq(Entries)
  BY BlockTypes
<1>2. Writes(d, d2, b, v) /\ k \in 2 .. Len(s)
  BY DEF Unlinks
<1> HIDE DEF s
<1>3. /\ t \in Seq(Entries) /\ Len(t) = Len(s) - 1 /\ Room(t) = Room(s) /\ t # <<>>
      /\ \A j \in 1 .. Len(s) - 1 :
              LET o == IF j < k THEN j ELSE j + 1
              IN t[j].name = s[o].name /\ t[j].ino = s[o].ino
  BY <1>1, <1>2, UnlinkedIs
<1> HIDE DEF t
<1>4. v \in DirBlocks /\ v.use = "dir" /\ v.ents = t
  BY <1>3, DirBlockIs
<1>5. v \in DataBlocks \cup DirBlocks
  BY <1>4
<1> HIDE DEF v
<1>6. /\ d2 \in Disks /\ d2.bbm = d.bbm /\ d2.ibm = d.ibm /\ d2.ino = d.ino
      /\ d2.fb = d.fb /\ d2.fi = d.fi
      /\ d2.blk[b] = v /\ \A a \in Blocks \ {b} : d2.blk[a] = d.blk[a]
  BY <1>2, <1>5, WriteOne
<1>7. Len(s) \in Nat /\ DOMAIN s = 1 .. Len(s) /\ DOMAIN t = 1 .. Len(s) - 1
  BY <1>1, <1>3
<1>8. d2.blk[b].ents = t /\ d2.blk[b].use = "dir"
  BY <1>4, <1>6
<1> QED
  BY <1>3, <1>6, <1>7, <1>8 DEF s

LEMMA UnlinkSpots ==
  ASSUME NEW d \in Disks, NEW up \in Inodes, IsDir(d, up), NEW b \in Own(d, up),
         NEW k \in 2 .. Len(d.blk[b].ents), NEW d2, Unlinks(d, d2, b, k)
  PROVE  /\ \A q \in Spots(d2, up) : /\ Shift(b, k, q) \in Spots(d, up) /\ Shift(b, k, q) # <<b, k>>
                                     /\ Ent(d2, q).name = Ent(d, Shift(b, k, q)).name
                                     /\ Ent(d2, q).ino = Ent(d, Shift(b, k, q)).ino
         /\ \A q, r \in Spots(d2, up) : Shift(b, k, q) = Shift(b, k, r) => q = r
         /\ \A q \in Spots(d, up) \ {<<b, k>>} : \E r \in Spots(d2, up) : Shift(b, k, r) = q
<1>1. b \in Blocks
  BY OwnInBlocks
<1> DEFINE m == Len(d.blk[b].ents)
<1>2. /\ d2 \in Disks /\ d2.ino = d.ino
      /\ \A a \in Blocks \ {b} : d2.blk[a] = d.blk[a]
      /\ m \in Nat
      /\ DOMAIN d.blk[b].ents = 1 .. m
      /\ DOMAIN d2.blk[b].ents = 1 .. m - 1
      /\ \A j \in 1 .. m - 1 :
           LET o == IF j < k THEN j ELSE j + 1
           IN d2.blk[b].ents[j].name = d.blk[b].ents[o].name /\ d2.blk[b].ents[j].ino = d.blk[b].ents[o].ino
  BY <1>1, UnlinkBlock
<1>3. k \in 2 .. m
  OBVIOUS
<1> HIDE DEF m
<1>4. Own(d2, up) = Own(d, up) /\ IsDir(d2, up) /\ Own(d, up) \subseteq Blocks
  BY <1>2, OwnInBlocks DEF Own, IsDir
<1>5. ASSUME NEW q \in Spots(d2, up)
      PROVE  /\ q[1] \in Own(d, up) /\ q[1] \in Blocks /\ q[2] \in Nat \ {0} /\ q = <<q[1], q[2]>>
             /\ q[2] \in DOMAIN d2.blk[q[1]].ents /\ Ent(d2, q) = d2.blk[q[1]].ents[q[2]]
  <2>1. /\ q[1] \in Own(d2, up) /\ q[1] \in Blocks /\ q[2] \in Nat \ {0} /\ q = <<q[1], q[2]>>
        /\ q[2] \in DOMAIN d2.blk[q[1]].ents
    BY <1>2, EntTypes
  <2>2. Ent(d2, q) = d2.blk[q[1]].ents[q[2]]
    BY DEF Ent
  <2> QED BY <1>4, <2>1, <2>2
<1>6. ASSUME NEW q \in Spots(d2, up)
      PROVE  /\ Shift(b, k, q) \in Spots(d, up) /\ Shift(b, k, q) # <<b, k>>
             /\ Ent(d2, q).name = Ent(d, Shift(b, k, q)).name
             /\ Ent(d2, q).ino = Ent(d, Shift(b, k, q)).ino
  <2>1. CASE q[1] # b
    <3>1. Shift(b, k, q) = q /\ q # <<b, k>>
      BY <1>5, <2>1 DEF Shift
    <3>2. d2.blk[q[1]] = d.blk[q[1]]
      BY <1>2, <1>5, <2>1
    <3>3. q \in Spots(d, up) /\ Ent(d, q) = d.blk[q[1]].ents[q[2]]
      BY <1>5, <3>2, SpotIs
    <3>4. Ent(d2, q) = Ent(d, q)
      BY <1>5, <3>2, <3>3
    <3> QED BY <3>1, <3>3, <3>4
  <2>2. CASE q[1] = b
    <3> DEFINE j == q[2]
               o == IF j < k THEN j ELSE j + 1
    <3>1. j \in 1 .. m - 1 /\ Ent(d2, q) = d2.blk[b].ents[j] /\ q = <<b, j>>
      BY <1>2, <1>5, <2>2
    <3>2. o \in 1 .. m /\ o # k /\ o \in Nat \ {0}
      BY <1>2, <1>3, <3>1
    <3>3. Shift(b, k, q) = <<b, o>>
      BY <2>2, <3>1 DEF Shift
    <3>4. d2.blk[b].ents[j].name = d.blk[b].ents[o].name /\ d2.blk[b].ents[j].ino = d.blk[b].ents[o].ino
      BY <1>2, <3>1
    <3> HIDE DEF o, j
    <3>5. <<b, o>> \in Spots(d, up) /\ Ent(d, <<b, o>>) = d.blk[b].ents[o]
      BY <1>2, <3>2, SpotIs
    <3>6. <<b, o>> # <<b, k>>
      BY <3>2
    <3> QED BY <3>1, <3>3, <3>4, <3>5, <3>6
  <2> QED BY <2>1, <2>2
<1>7. ASSUME NEW q \in Spots(d2, up), NEW r \in Spots(d2, up), Shift(b, k, q) = Shift(b, k, r)
      PROVE  q = r
  <2>1. /\ q[2] \in Nat /\ q = <<q[1], q[2]>> /\ r[2] \in Nat /\ r = <<r[1], r[2]>>
    BY <1>5
  <2>2. k \in Nat
    BY <1>3
  <2>3. q[1] = r[1] /\ q[2] = r[2]
    <3>1. /\ Shift(b, k, q)[1] = q[1] /\ Shift(b, k, r)[1] = r[1]
          /\ Shift(b, k, q)[2] = IF q[1] # b \/ q[2] < k THEN q[2] ELSE q[2] + 1
          /\ Shift(b, k, r)[2] = IF r[1] # b \/ r[2] < k THEN r[2] ELSE r[2] + 1
      BY DEF Shift
    <3> QED BY <1>7, <2>1, <2>2, <3>1
  <2> QED BY <2>1, <2>3
<1>8. ASSUME NEW q \in Spots(d, up), q # <<b, k>>
      PROVE  \E r \in Spots(d2, up) : Shift(b, k, r) = q
  <2>1. /\ q[1] \in Own(d, up) /\ q[1] \in Blocks /\ q[2] \in Nat \ {0} /\ q = <<q[1], q[2]>>
        /\ q[2] \in DOMAIN d.blk[q[1]].ents
    BY EntTypes
  <2>2. CASE q[1] # b
    <3>1. d2.blk[q[1]] = d.blk[q[1]]
      BY <1>2, <2>1, <2>2
    <3>2. q \in Spots(d2, up)
      BY <1>4, <2>1, <3>1, SpotIs
    <3>3. Shift(b, k, q) = q
      BY <2>2 DEF Shift
    <3> QED BY <3>2, <3>3
  <2>3. CASE q[1] = b
    <3> DEFINE j == q[2]
               h == IF j < k THEN j ELSE j - 1
               r == <<b, h>>
    <3>1. j \in 1 .. m /\ q = <<b, j>> /\ j # k
      BY <1>2, <1>8, <2>1, <2>3
    <3>2. h \in 1 .. m - 1 /\ h \in Nat \ {0}
      BY <1>2, <1>3, <3>1
    <3>3. (h = j /\ j < k) \/ (h = j - 1 /\ j > k)
      BY <1>2, <1>3, <3>1
    <3> HIDE DEF h, j
    <3>4. r \in Spots(d2, up)
      BY <1>2, <1>4, <3>2, SpotIs
    <3>5. Shift(b, k, r) = q
      <4>1. r[1] = b /\ r[2] = h
        OBVIOUS
      <4>2. Shift(b, k, r) = IF h < k THEN r ELSE <<b, h + 1>>
        BY <4>1, Zenon DEF Shift
      <4>3. k \in Nat /\ j \in Nat
        BY <1>3, <3>1
      <4> QED BY <3>1, <3>3, <4>2, <4>3
    <3> QED BY <3>4, <3>5
  <2> QED BY <2>2, <2>3
<1> QED
  BY <1>6, <1>7, <1>8

\* The entries of a directory that are no names lead to it and to the root: paths
\* have two names.
LEMMA NearUp ==
  ASSUME NEW d \in Disks, Rooted(d), NEW up \in Near(d)
  PROVE  Up(d, up, kRootIno) /\ up \notin Kids(d, up) /\ kRootIno \notin Kids(d, up)
<1>1. kRootIno \in Near(d) /\ \A i \in Near(d) : kRootIno \notin Kids(d, i)
  BY LinkedFacts DEF Rooted
<1>2. CASE up = kRootIno
  BY <1>1, <1>2 DEF Rooted
<1>3. CASE up # kRootIno
  <2>1. up \in Kids(d, kRootIno)
    BY <1>3 DEF Near
  <2>2. Up(d, up, kRootIno)
    BY <1>1, <2>1 DEF Rooted
  <2>3. ASSUME up \in Kids(d, up) PROVE FALSE
    <3>1. PICK q \in Named(d, kRootIno) : up = Ent(d, q).ino
      BY <2>1, KidsIs
    <3>2. PICK r \in Named(d, up) : up = Ent(d, r).ino
      BY <2>3, KidsIs
    <3>3. \A i, j \in Near(d) : \A q1 \in Named(d, i), r1 \in Named(d, j) :
            Ent(d, q1).ino = Ent(d, r1).ino => i = j /\ q1 = r1
      BY DEF Rooted
    <3>4. kRootIno = up
      BY <1>1, <3>1, <3>2, <3>3
    <3> QED BY <1>3, <3>4
  <2> QED BY <1>1, <2>2, <2>3
<1> QED
  BY <1>2, <1>3

\* What leads to a child is the one entry with its name.
LEMMA OneSpot ==
  ASSUME NEW d \in Disks, Rooted(d), NEW up \in Near(d), NEW i \in Kids(d, up),
         NEW q \in Spots(d, up), Ent(d, q).ino = i
  PROVE  q \in Named(d, up)
<1>1. Up(d, up, kRootIno) /\ up \notin Kids(d, up) /\ kRootIno \notin Kids(d, up)
  BY NearUp
<1>2. up \in Inodes
  BY LinkedFacts
<1>3. IsDir(d, up)
  BY <1>2, EntTypes
<1> SUFFICES ASSUME q \notin Named(d, up) PROVE FALSE
  OBVIOUS
<1>4. \/ Ent(d, q).ino = up
      \/ Ent(d, q).ino = kRootIno
  BY <1>1, <1>3 DEF Up
<1> QED
  BY <1>1, <1>4

LEMMA UnlinkGood ==
  ASSUME NEW F, NEW d, Good(d, F), NEW up \in Near(d), NEW b, NEW k,
         <<b, k>> \in Named(d, up), k \in 2 .. Len(d.blk[b].ents), NEW i, i = Ent(d, <<b, k>>).ino,
         NEW d2, Unlinks(d, d2, b, k)
  PROVE  Good(d2, F) /\ Linked(d2) \subseteq Linked(d) /\ i \notin Linked(d2)
<1> DEFINE z == <<b, k>>
<1>1. d \in Disks /\ Rooted(d) /\ 0 \in d.bbm /\ Spread(d, Linked(d) \cup F)
  BY DEF Good
<1>2. up \in Linked(d) /\ up \in Inodes /\ Linked(d) \subseteq Inodes /\ Linked(d) \subseteq d.ibm
      /\ \A j \in Linked(d) : Shape(d, j)
  BY <1>1, LinkedFacts
<1>3. z \in Spots(d, up) /\ Ent(d, z).name \in Names
  BY NamedIs
<1>4. IsDir(d, up) /\ b \in Own(d, up) /\ b \in Blocks
  <2>1. z[1] = b
    OBVIOUS
  <2> HIDE DEF z
  <2> QED BY <1>1, <1>2, <1>3, <2>1, EntTypes
<1>5. /\ \A q \in Spots(d2, up) : /\ Shift(b, k, q) \in Spots(d, up) /\ Shift(b, k, q) # z
                                  /\ Ent(d2, q).name = Ent(d, Shift(b, k, q)).name
                                  /\ Ent(d2, q).ino = Ent(d, Shift(b, k, q)).ino
      /\ \A q, r \in Spots(d2, up) : Shift(b, k, q) = Shift(b, k, r) => q = r
      /\ \A q \in Spots(d, up) \ {z} : \E r \in Spots(d2, up) : Shift(b, k, r) = q
  BY <1>1, <1>2, <1>4, UnlinkSpots
<1>6. /\ d2 \in Disks /\ d2.bbm = d.bbm /\ d2.ibm = d.ibm /\ d2.ino = d.ino
      /\ \A a \in Blocks \ {b} : d2.blk[a] = d.blk[a]
      /\ d2.blk[b].use = "dir" /\ d2.blk[b].ents # <<>>
      /\ Room(d2.blk[b].ents) = Room(d.blk[b].ents)
  BY <1>1, <1>4, UnlinkBlock
<1> HIDE DEF z
<1>7. Embeds(d, d2, up)
  <2> DEFINE o == [q \in Spots(d2, up) |-> Shift(b, k, q)]
  <2>1. o \in [Spots(d2, up) -> Spots(d, up)] /\ \A q \in Spots(d2, up) : o[q] = Shift(b, k, q)
    BY <1>5
  <2> HIDE DEF o
  <2>2. \A q \in Spots(d2, up) : /\ Ent(d2, q).name = Ent(d, o[q]).name
                                 /\ Ent(d2, q).ino = Ent(d, o[q]).ino
    BY <1>5, <2>1
  <2>3. \A q, r \in Spots(d2, up) : o[q] = o[r] => q = r
    BY <1>5, <2>1
  <2>4. \A q \in Spots(d, up) \ Named(d, up) : \E r \in Spots(d2, up) : o[r] = q
    BY <1>5, <2>1 DEF z
  <2> QED BY <2>1, <2>2, <2>3, <2>4 DEF Embeds
<1>8. Shape(d2, up)
  <2>1. Own(d2, up) = Own(d, up) /\ Own(d, up) \subseteq Blocks
    BY <1>1, <1>2, <1>6, OwnInBlocks DEF Own
  <2>2. /\ NumBlocks(d.ino[up]) = Len(d.ino[up].ext)
        /\ \A j \in DOMAIN d.ino[up].ext : d.ino[up].ext[j].l = j - 1 /\ d.ino[up].ext[j].n = 1
        /\ \A a \in Own(d, up) : /\ d.blk[a].use = "dir" /\ d.blk[a].ents # <<>>
                                 /\ Room(d.blk[a].ents) = kSlots
        /\ \A q, r \in Spots(d, up) : Ent(d, q).name = Ent(d, r).name => q = r
    BY <1>2, <1>4, Zenon DEF Shape
  <2>3. ASSUME NEW a \in Own(d2, up)
        PROVE  d2.blk[a].use = "dir" /\ d2.blk[a].ents # <<>> /\ Room(d2.blk[a].ents) = kSlots
    <3>1. CASE a = b
      BY <1>4, <1>6, <2>2, <3>1
    <3>2. CASE a # b
      BY <1>6, <2>1, <2>2, <3>2
    <3> QED BY <3>1, <3>2
  <2>4. ASSUME NEW q \in Spots(d2, up), NEW r \in Spots(d2, up), Ent(d2, q).name = Ent(d2, r).name
        PROVE  q = r
    <3>1. Shift(b, k, q) = Shift(b, k, r)
      BY <1>5, <2>2, <2>4
    <3> QED BY <1>5, <3>1
  <2>5. /\ NumBlocks(d2.ino[up]) = Len(d2.ino[up].ext)
        /\ \A j \in DOMAIN d2.ino[up].ext : d2.ino[up].ext[j].l = j - 1 /\ d2.ino[up].ext[j].n = 1
    BY <1>6, <2>2
  <2> QED BY <2>3, <2>4, <2>5, Zenon DEF Shape
<1>9. \A j \in Linked(d) : Embeds(d, d2, j) /\ Shape(d2, j) /\ d2.ino[j].kind = d.ino[j].kind
  <2> SUFFICES ASSUME NEW j \in Linked(d), j # up PROVE Embeds(d, d2, j) /\ Shape(d2, j)
    BY <1>6, <1>7, <1>8
  <2>1. b \notin Own(d, j)
    BY <1>1, <1>2, <1>4 DEF Spread
  <2>2. Own(d, j) \subseteq Blocks
    BY <1>1, <1>2, OwnInBlocks
  <2>3. d2.ino[j] = d.ino[j] /\ \A a \in Own(d, j) : d2.blk[a] = d.blk[a]
    BY <1>6, <2>1, <2>2
  <2>4. Shape(d, j) /\ d2.ino[j].kind = d.ino[j].kind
    BY <1>2, <2>3
  <2> QED BY <2>3, <2>4, SameDir
<1>10. Near(d2) \subseteq Near(d) /\ Linked(d2) \subseteq Linked(d)
  BY <1>9, LinkedStep
<1>11. Linked(d2) \subseteq d2.ibm
  BY <1>2, <1>6, <1>10
<1>12. Rooted(d2)
  BY <1>1, <1>6, <1>9, <1>11, RootedStep
<1>13. Spread(d2, Linked(d2) \cup F)
  <2>1. \A j : Own(d2, j) = Own(d, j)
    BY <1>6 DEF Own
  <2>2. \A j \in Linked(d2) \cup F : Sound(d2, j)
    BY <1>1, <1>6, <1>10, <2>1 DEF Spread, Sound
  <2>3. \A j, h \in Linked(d2) \cup F : j # h => Own(d2, j) \cap Own(d2, h) = {}
    BY <1>1, <1>10, <2>1 DEF Spread
  <2> QED BY <2>2, <2>3 DEF Spread
<1>14. Good(d2, F)
  BY <1>1, <1>6, <1>12, <1>13 DEF Good
<1>15. ASSUME i \in Linked(d2) PROVE FALSE
  <2>1. i \in Kids(d, up)
    BY <1>3, KidsIs DEF z
  <2>2. i # kRootIno
    BY <1>1, <2>1, NearUp
  <2>3. PICK j \in Near(d2) : i \in Kids(d2, j)
    <3>1. i \in Kids(d2, kRootIno) \/ \E j \in Kids(d2, kRootIno) : i \in Kids(d2, j)
      BY <1>15, <2>2 DEF Linked, Near
    <3>2. kRootIno \in Near(d2) /\ Kids(d2, kRootIno) \subseteq Near(d2)
      BY DEF Near
    <3> QED BY <3>1, <3>2
  <2>4. PICK q \in Named(d2, j) : i = Ent(d2, q).ino
    BY <2>3, KidsIs
  <2>5. q \in Spots(d2, j) /\ Ent(d2, q).name \in Names
    BY <2>4, NamedIs
  <2>6. j \in Near(d) /\ j \in Linked(d)
    BY <1>1, <1>10, <2>3, LinkedFacts
  <2>7. \A h, j1 \in Near(d) : \A q1 \in Named(d, h), r1 \in Named(d, j1) :
            Ent(d, q1).ino = Ent(d, r1).ino => h = j1 /\ q1 = r1
    BY <1>1 DEF Rooted
  <2>8. PICK r \in Spots(d, j) : /\ Ent(d, r).ino = i /\ Ent(d, r).name \in Names
                                 /\ j = up => r # z
    <3>1. CASE j = up
      BY <1>5, <2>4, <2>5, <3>1
    <3>2. CASE j # up
      <4>1. Embeds(d, d2, j)
        BY <1>9, <2>6
      <4>2. PICK o \in [Spots(d2, j) -> Spots(d, j)] :
              \A q1 \in Spots(d2, j) : /\ Ent(d2, q1).name = Ent(d, o[q1]).name
                                       /\ Ent(d2, q1).ino = Ent(d, o[q1]).ino
        BY <4>1 DEF Embeds
      <4>3. o[q] \in Spots(d, j) /\ Ent(d, o[q]).ino = i /\ Ent(d, o[q]).name \in Names
        BY <2>4, <2>5, <4>2
      <4> QED BY <3>2, <4>3
    <3> QED BY <3>1, <3>2
  <2>9. r \in Named(d, j) /\ z \in Named(d, up) /\ Ent(d, z).ino = i
    BY <1>3, <2>8, NamedIs DEF z
  <2>10. j = up /\ r = z
    BY <2>6, <2>7, <2>8, <2>9
  <2> QED BY <2>8, <2>10
<1> QED
  BY <1>10, <1>14, <1>15

LEMMA EnoughInodeFreed ==
  ASSUME NEW d \in Disks, NEW d2 \in Disks, NEW i, NEW x \in Int,
         d2.bbm = d.bbm, d2.ibm = d.ibm \ {i}, d2.fb = d.fb, d2.fi = d.fi, Enough(d, x, 0)
  PROVE  Enough(d2, x, 0 - 1)
<1>1. /\ IsFiniteSet(d.ibm) /\ Cardinality(d.ibm) \in Nat /\ Cardinality(d.bbm) \in Nat
      /\ Cardinality(d2.ibm) \in Nat
  BY BitmapsFinite
<1>2. Cardinality(d.ibm \ {i}) >= Cardinality(d.ibm) - 1
  BY <1>1, FS_RemoveElement
<1>3. d.fb \in Nat /\ d.fi \in Nat
  BY DiskTypes
<1>4. d.fi + Cardinality(d.ibm) >= kInodes + 0 /\ d.fb + Cardinality(d.bbm) >= kBlocks + x
  BY DEF Enough
<1>5. d2.fi + Cardinality(d2.ibm) >= kInodes + (0 - 1)
  BY <1>1, <1>2, <1>3, <1>4, Sizes
<1>6. d2.fb + Cardinality(d2.bbm) >= kBlocks + x
  BY <1>4
<1> QED
  BY <1>5, <1>6 DEF Enough

\* Where rm() finds the entry.
RmBlock(up, i) ==
  CHOOSE n \in 0 .. NumBlocks(disk.ino[up]) - 1 :
    \E e \in Range(EntriesAt(disk, up, n)) : e.ino = i
RmIndex(up, i) ==
  CHOOSE n \in DOMAIN EntriesAt(disk, up, RmBlock(up, i)) : EntriesAt(disk, up, RmBlock(up, i))[n].ino = i

LEMMA RmSpot ==
  ASSUME NEW F, Good(disk, F), NEW path \in Paths, NEW up, up = lookup_abs(disk, Front(path)),
         NEW i, i = lookup_abs(disk, path), i # 0, ~FirstOfBlock(path),
         NEW b, b = map_lblock(disk.ino[up], RmBlock(up, i)), NEW k, k = RmIndex(up, i)
  PROVE  /\ EntriesAt(disk, up, RmBlock(up, i)) = disk.blk[b].ents
         /\ up \in Near(disk) /\ i \in Linked(disk) /\ b \in Blocks
         /\ <<b, k>> \in Named(disk, up) /\ k \in 2 .. Len(disk.blk[b].ents) /\ Ent(disk, <<b, k>>).ino = i
<1>1. disk \in Disks /\ Rooted(disk)
  BY DEF Good
<1>2. up \in Near(disk) /\ i \in Linked(disk)
      /\ \E q \in Named(disk, up) : Ent(disk, q).name = Last(path) /\ Ent(disk, q).ino = i
  BY <1>1, LookupIn
<1>3. PICK q \in Named(disk, up) : Ent(disk, q).ino = i
  BY <1>2
<1>4. up \in Inodes /\ Shape(disk, up)
  BY <1>1, <1>2, LinkedFacts
<1>5. q \in Spots(disk, up)
  BY <1>3, NamedIs
<1>6. q[1] \in Own(disk, up) /\ IsDir(disk, up) /\ q[2] \in DOMAIN disk.blk[q[1]].ents
  BY <1>1, <1>4, <1>5, EntTypes
<1> DEFINE L == 0 .. NumBlocks(disk.ino[up]) - 1
           l == RmBlock(up, i)
<1>7. /\ \A n \in L : map_lblock(disk.ino[up], n) \in Own(disk, up)
      /\ \E n \in L : map_lblock(disk.ino[up], n) = q[1]
  BY <1>1, <1>4, <1>6, MapDir
<1>8. \E n \in L : \E e \in Range(EntriesAt(disk, up, n)) : e.ino = i
  <2>1. PICK n \in L : map_lblock(disk.ino[up], n) = q[1]
    BY <1>7
  <2>2. EntriesAt(disk, up, n) = disk.blk[q[1]].ents
    BY <2>1 DEF EntriesAt
  <2>3. disk.blk[q[1]].ents[q[2]] \in Range(EntriesAt(disk, up, n))
    BY <1>6, <2>2 DEF Range
  <2>4. disk.blk[q[1]].ents[q[2]].ino = i
    BY <1>3 DEF Ent
  <2> QED BY <2>3, <2>4
<1>9. l \in L /\ \E e \in Range(EntriesAt(disk, up, l)) : e.ino = i
  BY <1>8, Zenon DEF RmBlock
<1>10. EntriesAt(disk, up, l) = disk.blk[b].ents /\ b \in Own(disk, up)
  BY <1>7, <1>9 DEF EntriesAt
<1> HIDE DEF l
<1>11. \E n \in DOMAIN EntriesAt(disk, up, l) : EntriesAt(disk, up, l)[n].ino = i
  BY <1>9 DEF Range
<1>12. k \in DOMAIN EntriesAt(disk, up, l) /\ EntriesAt(disk, up, l)[k].ino = i
  BY <1>11, Zenon DEF RmIndex, l
<1> HIDE DEF L
<1>13. b \in Blocks
  BY <1>1, <1>4, <1>10, OwnInBlocks
<1>14. disk.blk[b].ents \in Seq(Entries)
  BY <1>1, <1>13, BlockTypes
<1>15. k \in 1 .. Len(disk.blk[b].ents) /\ disk.blk[b].ents[k].ino = i /\ Len(disk.blk[b].ents) \in Nat
  BY <1>10, <1>12, <1>14
<1>16. k # 1
  <2>1. l \in 0 .. NumBlocks(disk.ino[up]) - 1
    BY <1>9 DEF L
  <2>2. EntriesAt(disk, up, l)[1].ino # i
    BY <2>1, Zenon DEF FirstOfBlock
  <2> QED BY <1>12, <2>2
<1>17. <<b, k>> \in Spots(disk, up) /\ Ent(disk, <<b, k>>) = disk.blk[b].ents[k]
  <2>1. k \in Nat \ {0} /\ k \in DOMAIN disk.blk[b].ents
    BY <1>14, <1>15
  <2> QED BY <1>6, <1>10, <2>1, SpotIs
<1>18. i \in Kids(disk, up)
  BY <1>3, KidsIs
<1> DEFINE z == <<b, k>>
<1>19. z \in Spots(disk, up) /\ Ent(disk, z).ino = i
  BY <1>15, <1>17
<1> HIDE DEF z
<1>20. z \in Named(disk, up)
  BY <1>1, <1>2, <1>18, <1>19, OneSpot
<1>21. k \in 2 .. Len(disk.blk[b].ents)
  BY <1>15, <1>16
<1> QED
  BY <1>2, <1>10, <1>13, <1>19, <1>20, <1>21 DEF z, l

\* The end of rm(): blocks, bitmap and inode of an inode no name leads to.
Dropping(u, i, old, f, b, z, r) ==
  /\ f = free_blocks(u, old.ext)
  /\ b = Put(f, [f.d EXCEPT !.ibm = @ \ {i}])
  /\ z = store_inode(b, i, NoInode)
  /\ r = commit_counts(z, 0 - Freed(old), 0 - 1)

LEMMA Dropped ==
  ASSUME NEW G \in SUBSET Inodes, NEW d, Good(d, G), NEW i \in Linked(d), i \notin G,
         NEW u, Fine(u, G), u.ok, Linked(u.d) \subseteq Linked(d), i \notin Linked(u.d),
         u.d.ino = d.ino, u.d.ibm = d.ibm, u.d.bbm = d.bbm, u.d.fb = d.fb, u.d.fi = d.fi,
         NEW f, NEW b, NEW z, NEW r, Dropping(u, i, d.ino[i], f, b, z, r)
  PROVE  Fine(r, G) /\ Good(r.d, G \cup {i}) /\ (Enough(d, 0, 0) => Enough(r.d, 0, 0))
<1> DEFINE old == d.ino[i]
           R == BlocksIn(old.ext)
           k == Freed(old)
<1>1. d \in Disks /\ Rooted(d)
  BY DEF Good
<1>2. i \in Inodes /\ Linked(d) \subseteq Inodes /\ Linked(d) \subseteq d.ibm
  BY <1>1, LinkedFacts
<1>3. old \in InodeRecs /\ old.ext \in ExtLists
  BY <1>1, <1>2, ExtTypes
<1>4. Unheld(u.d, G, R)
  <2>1. Unheld(u.d, G, Own(d, i))
    BY <1>2, OldUnheld
  <2> QED BY <2>1 DEF Own
<1>5. f = free_blocks(u, old.ext) /\ r = commit_counts(z, 0 - k, 0 - 1)
  BY Zenon DEF Dropping
<1>6. k \in Nat /\ IsFiniteSet(R) /\ Cardinality(R) <= k
  BY <1>3, FreedCounts
<1> HIDE DEF old, k
<1>7. /\ Fine(f, G) /\ f.ok = u.ok /\ Linked(f.d) = Linked(u.d)
      /\ f.d.ino = u.d.ino /\ f.d.ibm = u.d.ibm /\ f.d.fb = u.d.fb /\ f.d.fi = u.d.fi
      /\ f.d.bbm = IF u.ok THEN u.d.bbm \ R ELSE u.d.bbm
  BY <1>3, <1>4, <1>5, FreeBlocks, ZenonT(40)
<1> HIDE DEF R
<1> DEFINE I == f.d.ibm \ {i}
           d2 == [f.d EXCEPT !.ibm = I]
<1>8. Good(f.d, G) /\ f.d \in Disks /\ f.ok
  BY <1>7, FineTypes
<1>9. I \in SUBSET Inodes /\ Linked(f.d) \subseteq I
  BY <1>2, <1>7, <1>8, DiskTypes
<1>10. b = Put(f, d2) /\ d2 = [f.d EXCEPT !.ibm = I] /\ z = store_inode(b, i, NoInode)
  BY Zenon DEF Dropping
<1>11. I = d.ibm \ {i}
  BY <1>7
<1> HIDE DEF I, d2
<1>12. /\ Good(d2, G) /\ Linked(d2) = Linked(f.d)
       /\ d2.bbm = f.d.bbm /\ d2.ibm = I /\ d2.ino = f.d.ino
       /\ d2.fb = f.d.fb /\ d2.fi = f.d.fi
  BY <1>8, <1>9, <1>10, MarkInodes
<1>13. Fine(b, G) /\ b.ok = f.ok /\ b.d = IF f.ok THEN d2 ELSE f.d
  <2>1. b = Put(f, d2)
    BY <1>10
  <2> QED BY <1>7, <1>12, <2>1, PutFine
<1>14. b.ok /\ b.d = d2
  BY <1>8, <1>13
<1>15. /\ NoInode \in InodeRecs /\ NoInode.kind = "none" /\ NoInode.ext = <<>>
       /\ BlocksIn(NoInode.ext) = {} /\ Disjoint(NoInode.ext)
  BY NewFileIs DEF NoInode
<1>16. Storable(b.d, G, i, NoInode)
  BY <1>2, <1>7, <1>12, <1>14, <1>15 DEF Storable
<1>17. Fine(z, G) /\ z.ok = b.ok /\ Stores(b.d, z.d, i, NoInode)
  <2> HIDE DEF NoInode
  <2> QED BY <1>10, <1>13, <1>14, <1>16, StoreCall
<1>18. /\ z.d.ino[i] = NoInode /\ z.d.bbm = b.d.bbm /\ z.d.ibm = b.d.ibm
       /\ z.d.fb = b.d.fb /\ z.d.fi = b.d.fi
  <2>1. Good(b.d, G)
    BY <1>12, <1>14
  <2> QED BY <1>16, <1>17, <2>1, StoreInode
<1>19. 0 - k \in Int /\ 0 - 1 \in Int /\ 0 - k <= 0 /\ 0 - 1 <= 0
  BY <1>6
<1>20. Fine(r, G) /\ r.d.ino = z.d.ino
  BY <1>5, <1>17, <1>19, CommitCounts
<1>21. Good(r.d, G)
  BY <1>20, FineTypes
<1>22. Own(r.d, i) = {} /\ Sound(r.d, i)
  <2>1. r.d.ino[i] = NoInode /\ DOMAIN NoInode.ext = {}
    BY <1>15, <1>18, <1>20
  <2> QED BY <1>15, <2>1 DEF Own, Sound
<1>23. Good(r.d, G \cup {i})
  BY <1>21, <1>22, GoodPlus
<1>24. ASSUME Enough(d, 0, 0) PROVE Enough(r.d, 0, 0)
  <2>1. f.d.bbm = d.bbm \ R /\ f.d.ibm = d.ibm /\ f.d.fb = d.fb /\ f.d.fi = d.fi
    BY <1>7
  <2>2. Enough(f.d, 0 - k, 0)
    BY <1>1, <1>6, <1>8, <1>24, <2>1, EnoughFreed
  <2>3. z.d.bbm = f.d.bbm /\ z.d.ibm = f.d.ibm \ {i} /\ z.d.fb = f.d.fb /\ z.d.fi = f.d.fi
    BY <1>12, <1>14, <1>18 DEF I
  <2>4. z.d \in Disks
    BY <1>17, FineTypes
  <2>5. Enough(z.d, 0 - k, 0 - 1)
    BY <1>8, <1>19, <2>2, <2>3, <2>4, EnoughInodeFreed
  <2>6. z.ok
    BY <1>14, <1>17
  <2> QED BY <1>5, <1>17, <1>19, <2>5, <2>6, CommitEnough
<1> QED
  BY <1>20, <1>23, <1>24

LEMMA RmWorks ==
  ASSUME NEW F \in SUBSET Inodes, Good(disk, F), g_hint \in Blocks, NEW path \in Paths, ~FirstOfBlock(path),
         NEW G, G = F \ {lookup_abs(disk, path)}, NEW r, r = rm(path)
  PROVE  Works(r, G) /\ Good(r.d, F)
<1> DEFINE up == lookup_abs(disk, Front(path))
           i == lookup_abs(disk, path)
           old == disk.ino[i]
           l == RmBlock(up, i)
           ents == EntriesAt(disk, up, l)
           k == RmIndex(up, i)
           p == map_lblock(disk.ino[up], l)
           u == write_block(Begin, p, DirBlock(Unlinked(ents, k)))
           f == free_blocks(u, old.ext)
           b == Put(f, [f.d EXCEPT !.ibm = @ \ {i}])
           z == store_inode(b, i, NoInode)
           no == up = 0 \/ i = 0 \/ ~IsEmpty(i)
<1>1. r = IF no THEN Need(Begin, FALSE) ELSE commit_counts(z, 0 - Freed(old), 0 - 1)
  BY Zenon DEF rm, RmBlock, RmIndex
<1>2. G \in SUBSET Inodes /\ Good(disk, G)
  BY GoodFewer
<1>3. Fine(Begin, G) /\ Begin.ok /\ Begin.d = disk
  BY <1>2, BeginFine
<1>4. CASE no
  <2>1. FALSE \in BOOLEAN
    OBVIOUS
  <2>2. Fine(Need(Begin, FALSE), G) /\ Need(Begin, FALSE).d = disk
    BY <1>3, <2>1, NeedFine
  <2>3. r = Need(Begin, FALSE)
    BY <1>1, <1>4, Zenon
  <2> QED BY <2>2, <2>3 DEF Works
<1>5. CASE ~no
  <2>1. i # 0
    BY <1>5
  <2>2. r = commit_counts(z, 0 - Freed(disk.ino[i]), 0 - 1)
    BY <1>1, <1>5, Zenon
  <2>3. /\ ents = disk.blk[p].ents
        /\ up \in Near(disk) /\ i \in Linked(disk) /\ p \in Blocks
        /\ <<p, k>> \in Named(disk, up) /\ k \in 2 .. Len(disk.blk[p].ents) /\ Ent(disk, <<p, k>>).ino = i
    BY <2>1, RmSpot
  <2> DEFINE v == DirBlock(Unlinked(disk.blk[p].ents, k))
             d1 == [disk EXCEPT !.blk[p] = v]
  <2>4. u = Put(Begin, d1)
    <3>1. u = Put(Begin, [Begin.d EXCEPT !.blk[p] = DirBlock(Unlinked(ents, k))])
      BY Zenon DEF write_block
    <3> QED BY <1>3, <2>3, <3>1, Zenon
  <2>5. f = free_blocks(u, disk.ino[i].ext) /\ b = Put(f, [f.d EXCEPT !.ibm = @ \ {i}])
        /\ z = store_inode(b, i, NoInode) /\ G = F \ {i}
    OBVIOUS
  <2>6. Unlinks(disk, d1, p, k)
    BY DEF Unlinks, Writes
  <2> HIDE DEF d1, v, u, f, b, z, k, p, ents, l, up, i
  <2>7. Good(d1, G) /\ Linked(d1) \subseteq Linked(disk) /\ i \notin Linked(d1)
    BY <1>2, <2>3, <2>6, UnlinkGood
  <2>8. Fine(u, G) /\ u.ok = Begin.ok /\ u.d = IF Begin.ok THEN d1 ELSE Begin.d
    BY <1>3, <2>4, <2>7, PutFine
  <2>9. u.ok /\ u.d = d1
    BY <1>3, <2>8
  <2>10. disk \in Disks
    BY DEF Good
  <2>11. /\ d1.bbm = disk.bbm /\ d1.ibm = disk.ibm /\ d1.ino = disk.ino
         /\ d1.fb = disk.fb /\ d1.fi = disk.fi
    BY <2>3, <2>6, <2>10, UnlinkBlock
  <2>12. i \notin G
    BY <2>5
  <2>13. /\ Linked(u.d) \subseteq Linked(disk) /\ i \notin Linked(u.d)
         /\ u.d.ino = disk.ino /\ u.d.ibm = disk.ibm /\ u.d.bbm = disk.bbm
         /\ u.d.fb = disk.fb /\ u.d.fi = disk.fi
    BY <2>7, <2>9, <2>11
  <2>14. Dropping(u, i, disk.ino[i], f, b, z, r)
    BY <2>2, <2>5, Zenon DEF Dropping
  <2>15. Fine(r, G) /\ Good(r.d, G \cup {i}) /\ (Enough(disk, 0, 0) => Enough(r.d, 0, 0))
    BY <1>2, <2>3, <2>8, <2>9, <2>12, <2>13, <2>14, Dropped
  <2>16. Good(r.d, F)
    BY <2>5, <2>15, GoodFewer
  <2> QED BY <2>15, <2>16 DEF Works
<1> QED
  BY <1>4, <1>5

LEMMA PatchedIs ==
  ASSUME NEW block \in DataBlocks \cup DirBlocks, NEW l \in Nat, NEW off \in Nat, NEW s \in Seq(Val)
  PROVE  Patched(block, l, off, s) \in DataBlocks
<1> DEFINE V(k) == LET at == l * kBytes + k - 1
                   IN IF at >= off /\ at < off + Len(s) THEN s[at - off + 1]
                      ELSE IF block.use = "data" THEN block.data[k] ELSE 0
           t == [k \in 1 .. kBytes |-> V(k)]
<1>1. 0 \in Val
  BY FsAssumption
<1>2. block.use = "data" => block.data \in [1 .. kBytes -> Val]
  BY DEF DataBlocks, DirBlocks
<1>3. l * kBytes \in Nat /\ kBytes \in Nat
  BY Sizes
<1>4. ASSUME NEW k \in 1 .. kBytes PROVE V(k) \in Val
  <2> DEFINE at == l * kBytes + k - 1
  <2>1. at \in Int
    BY <1>3
  <2>2. V(k) = IF at >= off /\ at < off + Len(s) THEN s[at - off + 1]
               ELSE IF block.use = "data" THEN block.data[k] ELSE 0
    BY Zenon
  <2> HIDE DEF at, V
  <2>3. CASE at >= off /\ at < off + Len(s)
    <3>1. at - off + 1 \in 1 .. Len(s)
      BY <2>1, <2>3
    <3>2. V(k) = s[at - off + 1]
      BY <2>2, <2>3
    <3> QED BY <3>1, <3>2
  <2>4. CASE ~(at >= off /\ at < off + Len(s))
    BY <1>1, <1>2, <2>2, <2>4
  <2> QED BY <2>3, <2>4
<1>5. Patched(block, l, off, s) = DataBlock(t)
  BY Zenon DEF Patched
<1> HIDE DEF V
<1>6. t \in [1 .. kBytes -> Val]
  BY <1>4
<1> HIDE DEF t
<1> QED
  BY <1>5, <1>6 DEF DataBlock, DataBlocks

\* No directory has a block of this inode.
Apart(d, inode) == \A i \in Linked(d) : IsDir(d, i) => Own(d, i) \cap BlocksIn(inode.ext) = {}

\* The blocks when those the inode puts at `from' and the next k - 1 places are written.
PatchedBlk(d, inode, from, k, off, s) ==
  [b \in Blocks |->
     LET ls == {l \in from .. from + k - 1 : map_lblock(inode, l) = b}
     IN IF ls = {} THEN d.blk[b] ELSE Patched(d.blk[b], Min(ls), off, s)]

LEMMA PatchGood ==
  ASSUME NEW F, NEW d, Good(d, F), NEW inode, inode.ext \in Seq(Extents), Apart(d, inode),
         NEW from \in Nat, NEW k \in Nat, NEW off \in Nat, NEW s \in Seq(Val),
         NEW d2, d2 = [d EXCEPT !.blk = PatchedBlk(d, inode, from, k, off, s)]
  PROVE  /\ Good(d2, F) /\ Linked(d2) = Linked(d)
         /\ d2.bbm = d.bbm /\ d2.ibm = d.ibm /\ d2.ino = d.ino /\ d2.fb = d.fb /\ d2.fi = d.fi
<1> DEFINE B == PatchedBlk(d, inode, from, k, off, s)
           L(b) == {l \in from .. from + k - 1 : map_lblock(inode, l) = b}
<1>1. d \in Disks /\ Rooted(d) /\ Spread(d, Linked(d) \cup F)
  BY DEF Good
<1>2. \A b \in Blocks : B[b] = IF L(b) = {} THEN d.blk[b] ELSE Patched(d.blk[b], Min(L(b)), off, s)
  BY Zenon DEF PatchedBlk
<1>3. B = [b \in Blocks |-> IF L(b) = {} THEN d.blk[b] ELSE Patched(d.blk[b], Min(L(b)), off, s)]
  BY Zenon DEF PatchedBlk
<1>4. d2 = [d EXCEPT !.blk = B]
  OBVIOUS
<1>5. ASSUME NEW b \in Blocks PROVE B[b] \in DataBlocks \cup DirBlocks
  <2>1. d.blk[b] \in DataBlocks \cup DirBlocks
    BY <1>1, BlockTypes
  <2>2. CASE L(b) = {}
    BY <1>2, <2>1, <2>2, Zenon
  <2>3. CASE L(b) # {}
    <3> DEFINE m == Min(L(b))
    <3>1. L(b) \subseteq Nat
      OBVIOUS
    <3>2. m \in Nat
      BY <2>3, <3>1, MinIn
    <3>3. B[b] = Patched(d.blk[b], m, off, s)
      BY <1>2, <2>3, Zenon
    <3> HIDE DEF m, B, L
    <3>4. Patched(d.blk[b], m, off, s) \in DataBlocks
      BY <2>1, <3>2, PatchedIs
    <3> QED BY <3>3, <3>4
  <2> QED BY <2>2, <2>3
<1>6. ASSUME NEW i \in Linked(d), IsDir(d, i), NEW b \in Own(d, i) PROVE B[b] = d.blk[b]
  <2>1. i \in Inodes
    BY <1>1, LinkedFacts
  <2>2. b \in Blocks
    BY <1>1, <1>6, <2>1, OwnInBlocks
  <2>3. b # 0
    BY <1>1, <1>6 DEF Spread, Sound
  <2>4. b \notin BlocksIn(inode.ext)
    BY <1>6 DEF Apart
  <2>5. \A l \in from .. from + k - 1 : map_lblock(inode, l) # b
    <3> SUFFICES ASSUME NEW l \in from .. from + k - 1 PROVE map_lblock(inode, l) # b
      OBVIOUS
    <3>1. l \in Int
      OBVIOUS
    <3>2. map_lblock(inode, l) = 0 \/ map_lblock(inode, l) \in BlocksIn(inode.ext)
      BY <3>1, MapOwn
    <3> QED BY <2>3, <2>4, <3>2
  <2>6. L(b) = {}
    BY <2>5
  <2> QED BY <1>2, <2>2, <2>6, Zenon
<1>7. B \in [Blocks -> DataBlocks \cup DirBlocks]
  <2> DEFINE W(b) == IF L(b) = {} THEN d.blk[b] ELSE Patched(d.blk[b], Min(L(b)), off, s)
  <2>1. B = [b \in Blocks |-> W(b)]
    BY <1>3, Zenon
  <2>2. \A b \in Blocks : W(b) = B[b]
    BY <1>2, Zenon
  <2> HIDE DEF W, B, L
  <2>3. \A b \in Blocks : W(b) \in DataBlocks \cup DirBlocks
    BY <1>5, <2>2
  <2> QED BY <2>1, <2>3
<1> HIDE DEF B, L
<1> QED
  BY <1>4, <1>6, <1>7, WriteBlocks

BlocksOnly(c, r, F) ==
  /\ Fine(r, F) /\ r.ok = c.ok /\ Linked(r.d) = Linked(c.d)
  /\ r.d.bbm = c.d.bbm /\ r.d.ibm = c.d.ibm /\ r.d.ino = c.d.ino
  /\ r.d.fb = c.d.fb /\ r.d.fi = c.d.fi

LEMMA PatchFine ==
  ASSUME NEW F, NEW c, Fine(c, F), NEW inode, inode.ext \in Seq(Extents), c.ok => Apart(c.d, inode),
         NEW from \in Nat, NEW to \in Int, NEW off \in Nat, NEW s \in Seq(Val),
         NEW r, r = PatchBlocks(c, inode, from, to, off, s)
  PROVE  BlocksOnly(c, r, F)
<1> DEFINE n == to - from + 1
           A == [k \in 1 .. n |-> [c.d EXCEPT !.blk = PatchedBlk(c.d, inode, from, k, off, s)]]
<1>1. c.d \in Disks /\ Good(c.d, F) /\ c.ok \in BOOLEAN
  BY FineTypes
<1>2. n \in Int
  OBVIOUS
<1>3. CASE ~(c.ok /\ n > 0)
  <2>1. r = c
    BY <1>3, Zenon DEF PatchBlocks, PutAll
  <2> QED BY <2>1 DEF BlocksOnly
<1>4. CASE c.ok /\ n > 0
  <2>1. r = [c EXCEPT !.d = A[n], !.log = @ \o [k \in 1 .. n |-> [d |-> A[k], hint |-> c.hint]]]
    <3>1. n \in 1 .. n
      BY <1>2, <1>4
    <3>2. r = [c EXCEPT !.d = [c.d EXCEPT !.blk = PatchedBlk(c.d, inode, from, n, off, s)],
                        !.log = @ \o [k \in 1 .. n |->
                          [d |-> [c.d EXCEPT !.blk = PatchedBlk(c.d, inode, from, k, off, s)],
                           hint |-> c.hint]]]
      BY <1>4, Zenon DEF PatchBlocks, PutAll, PatchedBlk
    <3> QED BY <3>1, <3>2, Zenon
  <2>2. ASSUME NEW k \in 1 .. n
        PROVE  /\ Good(A[k], F) /\ Linked(A[k]) = Linked(c.d) /\ A[k].bbm = c.d.bbm
               /\ A[k].ino = c.d.ino /\ A[k].ibm = c.d.ibm /\ A[k].fb = c.d.fb /\ A[k].fi = c.d.fi
    <3> DEFINE e == A[k]
    <3>1. e = [c.d EXCEPT !.blk = PatchedBlk(c.d, inode, from, k, off, s)]
      BY Zenon
    <3>2. k \in Nat /\ Apart(c.d, inode)
      BY <1>4
    <3> HIDE DEF e, A
    <3>3. /\ Good(e, F) /\ Linked(e) = Linked(c.d)
          /\ e.bbm = c.d.bbm /\ e.ibm = c.d.ibm /\ e.ino = c.d.ino /\ e.fb = c.d.fb /\ e.fi = c.d.fi
      BY <1>1, <3>1, <3>2, PatchGood
    <3> QED BY <3>3 DEF e
  <2>3. n \in 1 .. n /\ n \in Nat
    BY <1>2, <1>4
  <2>4. Fine(r, F) /\ r.ok = c.ok /\ r.d = A[n]
    <3> HIDE DEF A, n
    <3>1. Wrote(c, r, A, n, F)
      BY <1>4, <2>1, <2>2, <2>3, Zenon DEF Wrote
    <3> QED BY <3>1, LogFine
  <2> HIDE DEF A
  <2> QED BY <2>2, <2>3, <2>4 DEF BlocksOnly
<1> QED
  BY <1>3, <1>4

Sized(inode, off, s) == [inode EXCEPT !.size = IF off + Len(s) > @ THEN off + Len(s) ELSE @]
LongerFile(inode, l, n, p) == [inode EXCEPT !.ext = Append(@, Extent(l, n, p))]

LEMMA SizedIs ==
  ASSUME NEW inode \in InodeRecs, NEW off \in Nat, NEW s \in Seq(Val), NEW t, t = Sized(inode, off, s)
  PROVE  t \in InodeRecs /\ t.kind = inode.kind /\ t.ext = inode.ext
<1> DEFINE x == IF off + Len(s) > inode.size THEN off + Len(s) ELSE inode.size
<1>1. inode.size \in Nat /\ Len(s) \in Nat
  BY DEF InodeRecs
<1>2. x \in Nat
  BY <1>1
<1>3. t = [inode EXCEPT !.size = x]
  BY Zenon DEF Sized
<1> HIDE DEF x
<1> QED
  BY <1>2, <1>3 DEF InodeRecs

LEMMA LongerFileIs ==
  ASSUME NEW inode \in InodeRecs, Len(inode.ext) < kExtents, NEW l \in Nat, NEW n \in Nat, n > 0,
         NEW p \in Nat, p + n <= kBlocks, NEW t, t = LongerFile(inode, l, n, p)
  PROVE  /\ t \in InodeRecs /\ t.kind = inode.kind /\ t.ext \in Seq(Extents)
         /\ BlocksIn(t.ext) = BlocksIn(inode.ext) \cup (p .. p + n - 1)
         /\ Disjoint(inode.ext) /\ (p .. p + n - 1) \cap BlocksIn(inode.ext) = {} => Disjoint(t.ext)
<1> DEFINE e == Extent(l, n, p)
           x == Append(inode.ext, e)
<1>1. e \in Extents /\ Run(e) = p .. p + n - 1
  BY ExtentIs
<1>2. Appended(x, inode.ext, e)
  BY DEF Appended
<1>3. t = [inode EXCEPT !.ext = x]
  BY Zenon DEF LongerFile
<1>4. inode.ext \in ExtLists
  BY DEF InodeRecs
<1> HIDE DEF e, x
<1>5. /\ x \in ExtLists /\ BlocksIn(x) = BlocksIn(inode.ext) \cup Run(e)
      /\ Disjoint(inode.ext) /\ Run(e) \cap BlocksIn(inode.ext) = {} => Disjoint(x)
  BY <1>1, <1>2, <1>4, AppendExt
<1>6. t \in InodeRecs /\ t.kind = inode.kind /\ t.ext = x
  BY <1>3, <1>5 DEF InodeRecs
<1>7. x \in Seq(Extents)
  BY <1>5 DEF ExtLists
<1> QED
  BY <1>1, <1>5, <1>6, <1>7

\* The steps of a write that needs m more blocks: patched, taken, patched, stored, counted.
Growing(c, i, off, s, p, a, w, z, m) ==
  LET inode == c.d.ino[i]
      new == NumBlocks(inode)
      grown == LongerFile(inode, new, m, a.got)
      last == (off + Len(s) - 1) \div kBytes
  IN /\ a = alloc_blocks(Need(p, Len(inode.ext) < kExtents), m)
     /\ w = PatchBlocks(a, grown, new, last, off, s)
     /\ z = store_inode(w, i, Sized(grown, off, s))

\* The file is not in the tree as a directory, and nobody else has its blocks.
LEMMA FileApart ==
  ASSUME NEW F, NEW d, Good(d, F), NEW i \in F, d.ino[i].kind = "file"
  PROVE  /\ Apart(d, d.ino[i]) /\ Disjoint(d.ino[i].ext) /\ Own(d, i) \subseteq d.bbm \ {0}
         /\ \A j \in (Linked(d) \cup F) \ {i} : Own(d, i) \cap Own(d, j) = {}
<1>1. Spread(d, Linked(d) \cup F)
  BY DEF Good
<1>2. ~IsDir(d, i)
  BY DEF IsDir
<1>3. \A j \in (Linked(d) \cup F) \ {i} : Own(d, i) \cap Own(d, j) = {}
  BY <1>1 DEF Spread
<1>4. Own(d, i) = BlocksIn(d.ino[i].ext)
  BY DEF Own
<1>5. Apart(d, d.ino[i])
  BY <1>2, <1>3, <1>4 DEF Apart
<1>6. Sound(d, i)
  BY <1>1 DEF Spread
<1>7. Disjoint(d.ino[i].ext) /\ Own(d, i) \subseteq d.bbm \ {0}
  BY <1>6 DEF Sound, Disjoint
<1> QED
  BY <1>3, <1>5, <1>7

Took(d, d2, R) == d2 = [d EXCEPT !.bbm = @ \cup R]

LEMMA TookBlocks ==
  ASSUME NEW F, NEW d, Good(d, F), NEW R, R \subseteq Blocks, NEW d2, Took(d, d2, R)
  PROVE  /\ Linked(d2) = Linked(d) /\ d2.bbm = d.bbm \cup R /\ d2.ibm = d.ibm /\ d2.ino = d.ino
         /\ d2.fb = d.fb /\ d2.fi = d.fi
<1>1. d2 = [d EXCEPT !.bbm = @ \cup R]
  BY DEF Took
<1> QED
  BY <1>1, MarkBlocks

LEMMA GrowFile ==
  ASSUME NEW F \in SUBSET Inodes, NEW c, Fine(c, F), c.ok, NEW i \in F, c.d.ino[i].kind = "file",
         NEW off \in Nat, NEW s \in Seq(Val), NEW m \in Nat, m > 0,
         NEW p, Fine(p, F), Linked(p.d) = Linked(c.d), p.d.ino = c.d.ino, Grew(c.d, p.d), p.d.bbm = c.d.bbm,
         NEW a, NEW w, NEW z, Growing(c, i, off, s, p, a, w, z, m)
  PROVE  /\ Fine(a, F) /\ (~a.ok => a.d = p.d)
         /\ a.ok => /\ Fine(z, F) /\ z.ok
                    /\ Enough(c.d, 0, 0) => Enough(z.d, m, 0)
<1> DEFINE inode == c.d.ino[i]
           new == NumBlocks(inode)
           grown == LongerFile(inode, new, m, a.got)
           last == (off + Len(s) - 1) \div kBytes
           y == Len(inode.ext) < kExtents
           n == Need(p, y)
           sized == Sized(grown, off, s)
<1>1. a = alloc_blocks(n, m)
  BY Zenon DEF Growing
<1>w. w = PatchBlocks(a, grown, new, last, off, s)
  BY Zenon DEF Growing
<1>z. z = store_inode(w, i, sized)
  BY Zenon DEF Growing
<1>s. sized = Sized(grown, off, s)
  OBVIOUS
<1>g. grown = LongerFile(inode, new, m, a.got)
  OBVIOUS
<1>2. c.d \in Disks /\ Good(c.d, F) /\ p.d \in Disks
  BY FineTypes
<1>3. inode \in InodeRecs /\ inode.ext \in ExtLists /\ inode.size \in Nat
  BY <1>2, ExtTypes
<1>4. new \in Nat
  BY <1>3, CeilFacts DEF NumBlocks
<1>5. last \in Int
  <2>1. Len(s) \in Nat
    OBVIOUS
  <2> QED BY <2>1, Sizes
<1>6. y \in BOOLEAN
  OBVIOUS
<1>7. y => Len(inode.ext) < kExtents
  OBVIOUS
<1>8. Own(c.d, i) = BlocksIn(inode.ext)
  BY DEF Own
<1>9. /\ Apart(c.d, inode) /\ Disjoint(inode.ext) /\ Own(c.d, i) \subseteq c.d.bbm \ {0}
      /\ \A j \in (Linked(c.d) \cup F) \ {i} : Own(c.d, i) \cap Own(c.d, j) = {}
  BY <1>2, FileApart
<1>10. inode.kind = "file"
  OBVIOUS
<1> HIDE DEF y, last, new
<1>11. Fine(n, F) /\ n.ok = (p.ok /\ y) /\ n.d = p.d
  BY <1>6, NeedFine
<1> HIDE DEF n, sized, grown, inode
<1> DEFINE R == a.got .. a.got + m - 1
<1>12. /\ Fine(a, F)
       /\ ~a.ok => a.d = n.d
       /\ a.ok => /\ n.ok /\ a.got \in Nat /\ a.got > 0 /\ a.got + m <= kBlocks
                  /\ R \cap n.d.bbm = {}
                  /\ a.d = [n.d EXCEPT !.bbm = @ \cup R]
  BY <1>1, <1>11, AllocBlocks
<1>13. ASSUME a.ok
       PROVE  Fine(z, F) /\ z.ok /\ (Enough(c.d, 0, 0) => Enough(z.d, m, 0))
  <2>1. y /\ a.got \in Nat /\ a.got > 0 /\ a.got + m <= kBlocks /\ R \cap c.d.bbm = {}
    BY <1>11, <1>12, <1>13
  <2>2. R \subseteq Blocks /\ 0 \notin R
    BY <2>1, Sizes DEF Blocks
  <2>3. /\ grown \in InodeRecs /\ grown.kind = inode.kind /\ grown.ext \in Seq(Extents)
        /\ BlocksIn(grown.ext) = BlocksIn(inode.ext) \cup R
        /\ Disjoint(inode.ext) /\ R \cap BlocksIn(inode.ext) = {} => Disjoint(grown.ext)
    BY <1>3, <1>4, <1>7, <1>g, <2>1, LongerFileIs, SMTT(30)
  <2>4. a.d = [p.d EXCEPT !.bbm = @ \cup R]
    BY <1>11, <1>12, <1>13
  <2>5. Good(p.d, F)
    BY FineTypes
  <2> HIDE DEF R
  <2>6. /\ Linked(a.d) = Linked(p.d) /\ a.d.bbm = p.d.bbm \cup R /\ a.d.ibm = p.d.ibm /\ a.d.ino = p.d.ino
        /\ a.d.fb = p.d.fb /\ a.d.fi = p.d.fi
    <3>1. Took(p.d, a.d, R)
      BY <2>4 DEF Took
    <3> QED BY <2>2, <2>5, <3>1, TookBlocks
  <2>7. \A j \in Linked(c.d) \cup F : Own(c.d, j) \subseteq c.d.bbm
    BY <1>2 DEF Good, Spread, Sound
  <2>8. \A j : Own(a.d, j) = Own(c.d, j) /\ (IsDir(a.d, j) <=> IsDir(c.d, j))
    BY <2>6 DEF Own, IsDir
  <2>9. Apart(a.d, grown)
    <3> SUFFICES ASSUME NEW j \in Linked(c.d), IsDir(c.d, j) PROVE Own(c.d, j) \cap BlocksIn(grown.ext) = {}
      BY <2>6, <2>8 DEF Apart
    <3>1. Own(c.d, j) \cap BlocksIn(inode.ext) = {}
      BY <1>9 DEF Apart
    <3> QED BY <2>1, <2>3, <2>7, <3>1
  <2>10. /\ Fine(w, F) /\ w.ok = a.ok /\ Linked(w.d) = Linked(a.d)
         /\ w.d.bbm = a.d.bbm /\ w.d.ibm = a.d.ibm /\ w.d.ino = a.d.ino
         /\ w.d.fb = a.d.fb /\ w.d.fi = a.d.fi
    <3>1. Fine(a, F) /\ grown.ext \in Seq(Extents)
      BY <1>12, <2>3
    <3>2. BlocksOnly(a, w, F)
      BY <1>4, <1>5, <1>w, <2>9, <3>1, PatchFine
    <3> QED BY <3>2 DEF BlocksOnly
  <2>11. sized \in InodeRecs /\ sized.kind = grown.kind /\ sized.ext = grown.ext
    BY <1>s, <2>3, SizedIs, SMTT(30)
  <2>12. Storable(w.d, F, i, sized)
    <3>1. i \in Inodes /\ w.d.ino[i].kind = "file" /\ sized.kind = "file"
      BY <1>10, <2>3, <2>6, <2>10, <2>11
    <3>2. BlocksIn(sized.ext) = BlocksIn(inode.ext) \cup R
      BY <2>3, <2>11
    <3>3. BlocksIn(sized.ext) \subseteq w.d.bbm \ {0}
      BY <1>8, <1>9, <2>2, <2>6, <2>10, <3>2
    <3>4. Disjoint(sized.ext)
      BY <1>8, <1>9, <2>1, <2>3, <2>11
    <3>5. \A j \in (Linked(w.d) \cup F) \ {i} : BlocksIn(sized.ext) \cap Own(w.d, j) = {}
      <4> SUFFICES ASSUME NEW j \in (Linked(c.d) \cup F) \ {i} PROVE BlocksIn(sized.ext) \cap Own(w.d, j) = {}
        BY <2>6, <2>10
      <4>1. Own(w.d, j) = Own(c.d, j)
        BY <2>6, <2>10 DEF Own
      <4> QED BY <1>8, <1>9, <2>1, <2>7, <3>2, <4>1
    <3> QED BY <2>11, <3>1, <3>3, <3>4, <3>5 DEF Storable
  <2>13. Fine(z, F) /\ z.ok = w.ok /\ Stores(w.d, z.d, i, sized)
    BY <1>13, <1>z, <2>10, <2>12, StoreCall
  <2>14. z.d.bbm = w.d.bbm /\ z.d.ibm = w.d.ibm /\ z.d.fb = w.d.fb /\ z.d.fi = w.d.fi
    <3>1. Good(w.d, F)
      BY <2>10, FineTypes
    <3> QED BY <2>12, <2>13, <3>1, StoreInode
  <2>15. ASSUME Enough(c.d, 0, 0) PROVE Enough(z.d, m, 0)
    <3>1. /\ z.d.bbm = c.d.bbm \cup R /\ z.d.ibm = c.d.ibm /\ z.d.fb = c.d.fb /\ z.d.fi = c.d.fi
      BY <2>6, <2>10, <2>14 DEF Grew
    <3>2. z.d \in Disks
      BY <2>13, FineTypes
    <3>3. 0 \in Int
      OBVIOUS
    <3> QED BY <1>2, <2>1, <2>15, <3>1, <3>2, <3>3, EnoughBlocks DEF R
  <2> QED BY <1>13, <2>10, <2>13, <2>15
<1> QED
  BY <1>11, <1>12, <1>13

LEMMA WriteInsideFine ==
  ASSUME NEW F \in SUBSET Inodes, NEW c, Fine(c, F), NEW i \in F, NEW off \in Nat, NEW s \in Seq(Val),
         NEW r, r = WriteInside(c, i, off, s)
  PROVE  Fine(r, F) /\ (Enough(c.d, 0, 0) => Enough(r.d, 0, 0))
<1> DEFINE inode == c.d.ino[i]
           first == off \div kBytes
           last == (off + Len(s) - 1) \div kBytes
           held == NumBlocks(inode) - 1
           new == held + 1
           m == last - new + 1
           to == IF last < held THEN last ELSE held
           p == PatchBlocks(c, inode, first, to, off, s)
           a == alloc_blocks(Need(p, Len(inode.ext) < kExtents), m)
           grown == LongerFile(inode, new, m, a.got)
           w == PatchBlocks(a, grown, new, last, off, s)
           sized == Sized(inode, off, s)
           z == store_inode(w, i, Sized(grown, off, s))
           no == ~c.ok \/ inode.kind # "file"
<1>1. r = IF no THEN Need(c, FALSE)
          ELSE IF last <= held THEN store_inode(p, i, sized)
          ELSE IF ~a.ok THEN a
          ELSE commit_counts(z, m, 0)
  BY Zenon DEF WriteInside, Sized, LongerFile
<1>2. c.d \in Disks /\ Good(c.d, F) /\ c.ok \in BOOLEAN
  BY FineTypes
<1>3. CASE no
  <2>1. FALSE \in BOOLEAN
    OBVIOUS
  <2>2. Fine(Need(c, FALSE), F) /\ Need(c, FALSE).d = c.d
    BY <2>1, NeedFine
  <2>3. r = Need(c, FALSE)
    BY <1>1, <1>3, Zenon
  <2> QED BY <2>2, <2>3
<1>4. CASE ~no
  <2>1. c.ok /\ c.d.ino[i].kind = "file" /\ inode.kind = "file"
    BY <1>2, <1>4
  <2>2. inode \in InodeRecs /\ inode.ext \in ExtLists /\ inode.ext \in Seq(Extents) /\ inode.size \in Nat
    BY <1>2, ExtTypes
  <2>3. NumBlocks(inode) \in Nat
    BY <2>2, CeilFacts DEF NumBlocks
  <2>4. held \in Int /\ new = NumBlocks(inode)
    BY <2>3
  <2>5. Len(s) \in Nat
    OBVIOUS
  <2>6. last \in Int /\ first \in Nat
    BY <2>5, Sizes
  <2>7. to \in Int
    BY <2>4, <2>6
  <2>8. Own(c.d, i) = BlocksIn(inode.ext)
    BY DEF Own
  <2>9. /\ Apart(c.d, inode) /\ Disjoint(inode.ext) /\ Own(c.d, i) \subseteq c.d.bbm \ {0}
        /\ \A j \in (Linked(c.d) \cup F) \ {i} : Own(c.d, i) \cap Own(c.d, j) = {}
    BY <1>2, <2>1, FileApart
  <2>10. p = PatchBlocks(c, inode, first, to, off, s)
    OBVIOUS
  <2>11. sized = Sized(inode, off, s)
    OBVIOUS
  <2>12. m \in Int /\ (~(last <= held) => m > 0)
    BY <2>3, <2>4, <2>6
  <2>13. Growing(c, i, off, s, p, a, w, z, m)
    <3>1. a = alloc_blocks(Need(p, Len(inode.ext) < kExtents), m)
      OBVIOUS
    <3>2. w = PatchBlocks(a, LongerFile(inode, NumBlocks(inode), m, a.got), NumBlocks(inode), last, off, s)
      <4>1. w = PatchBlocks(a, LongerFile(inode, new, m, a.got), new, last, off, s)
        OBVIOUS
      <4> HIDE DEF w, a, m, new
      <4> QED BY <2>4, <4>1, Zenon
    <3>3. z = store_inode(w, i, Sized(LongerFile(inode, NumBlocks(inode), m, a.got), off, s))
      <4>1. z = store_inode(w, i, Sized(LongerFile(inode, new, m, a.got), off, s))
        OBVIOUS
      <4> HIDE DEF z, w, a, m, new
      <4> QED BY <2>4, <4>1, Zenon
    <3> HIDE DEF a, w, z, m, p
    <3> QED BY <3>1, <3>2, <3>3, Zenon DEF Growing
  <2>14. r = IF last <= held THEN store_inode(p, i, sized) ELSE IF ~a.ok THEN a ELSE commit_counts(z, m, 0)
    BY <1>1, <1>4, Zenon
  <2> HIDE DEF inode, p, a, w, z, m, to, first, sized, new, held, last, grown
  <2>15. BlocksOnly(c, p, F)
    BY <2>2, <2>6, <2>7, <2>9, <2>10, PatchFine
  <2>16. /\ Fine(p, F) /\ p.ok /\ Linked(p.d) = Linked(c.d) /\ p.d.bbm = c.d.bbm /\ p.d.ibm = c.d.ibm
         /\ p.d.ino = c.d.ino /\ p.d.fb = c.d.fb /\ p.d.fi = c.d.fi /\ Grew(c.d, p.d)
    BY <2>1, <2>15 DEF BlocksOnly, Grew
  <2>17. p.d \in Disks /\ Good(p.d, F) /\ 0 \in Int
    <3>1. Fine(p, F)
      BY <2>16
    <3>2. p.d \in Disks /\ Good(p.d, F)
      BY <3>1, FineTypes
    <3> QED BY <3>2
  <2>18. Enough(c.d, 0, 0) => Enough(p.d, 0, 0)
    <3>1. Grew(c.d, p.d) /\ p.d \in Disks /\ 0 \in Int
      BY <2>16, <2>17
    <3> QED BY <1>2, <3>1, EnoughGrew
  <2>19. CASE last <= held
    <3>1. r = store_inode(p, i, sized)
      BY <2>14, <2>19
    <3>2. sized \in InodeRecs /\ sized.kind = inode.kind /\ sized.ext = inode.ext
      <4>1. inode \in InodeRecs
        BY <2>2
      <4> QED BY <2>11, <4>1, SizedIs
    <3>3. Storable(p.d, F, i, sized)
      <4>1. i \in Inodes /\ p.d.ino[i].kind = "file" /\ sized.kind = "file"
        BY <2>1, <2>16, <3>2
      <4>2. BlocksIn(sized.ext) \subseteq p.d.bbm \ {0} /\ Disjoint(sized.ext)
        BY <2>8, <2>9, <2>16, <3>2
      <4>3. \A j : Own(p.d, j) = Own(c.d, j)
        BY <2>16 DEF Own
      <4>4. \A j \in (Linked(p.d) \cup F) \ {i} : BlocksIn(sized.ext) \cap Own(p.d, j) = {}
        BY <2>8, <2>9, <2>16, <3>2, <4>3
      <4> QED BY <3>2, <4>1, <4>2, <4>4 DEF Storable
    <3>4. Fine(r, F) /\ Stores(p.d, r.d, i, sized)
      BY <2>16, <3>1, <3>3, StoreCall
    <3>5. r.d.bbm = p.d.bbm /\ r.d.ibm = p.d.ibm /\ r.d.fb = p.d.fb /\ r.d.fi = p.d.fi
      BY <2>17, <3>3, <3>4, StoreInode
    <3>6. Enough(p.d, 0, 0) => Enough(r.d, 0, 0)
      BY <3>5 DEF Enough
    <3> QED BY <2>18, <3>4, <3>6
  <2>20. CASE ~(last <= held)
    <3>1. m \in Nat /\ m > 0
      BY <2>12, <2>20
    <3>2. /\ Fine(a, F) /\ (~a.ok => a.d = p.d)
          /\ a.ok => /\ Fine(z, F) /\ z.ok
                     /\ Enough(c.d, 0, 0) => Enough(z.d, m, 0)
      BY <2>1, <2>13, <2>16, <3>1, GrowFile
    <3>3. a.ok \in BOOLEAN
      BY <3>2, FineTypes
    <3>4. CASE ~a.ok
      <4>1. r = a
        BY <2>14, <2>20, <3>4
      <4> QED BY <2>18, <3>2, <3>4, <4>1
    <3>5. CASE a.ok
      <4>1. r = commit_counts(z, m, 0)
        BY <2>14, <2>20, <3>5
      <4>2. Fine(z, F) /\ z.ok /\ (Enough(c.d, 0, 0) => Enough(z.d, m, 0))
        BY <3>2, <3>5
      <4>3. m \in Int /\ m >= 0 /\ 0 \in Int /\ 0 >= 0 /\ 0 <= m /\ 0 <= 0
        BY <3>1
      <4>4. Fine(r, F)
        BY <4>1, <4>2, <4>3, CommitCounts
      <4>5. ASSUME Enough(c.d, 0, 0) PROVE Enough(r.d, 0, 0)
        <5>1. Enough(z.d, m, 0) /\ z.d \in Disks
          BY <4>2, <4>5, FineTypes
        <5>2. Enough(z.d, 0, 0)
          BY <4>3, <5>1, EnoughFewer
        <5> QED BY <4>1, <4>2, <4>3, <5>1, <5>2, CommitEnough
      <4> QED BY <4>4, <4>5
    <3> QED BY <3>3, <3>4, <3>5
  <2> QED BY <2>19, <2>20
<1> QED
  BY <1>3, <1>4

\* A chunk of a gap starts in front of its end.
LEMMA ChunkIn ==
  ASSUME NEW size \in Nat, NEW at \in Nat, at > size
  PROVE  ChunkStart(size, at) \in Nat /\ ChunkStart(size, at) < at
<1> DEFINE x == at - 1
           y == x % kBytes
           block == x - y
<1>1. x \in Nat
  OBVIOUS
<1>2. y \in 0 .. kBytes - 1 /\ y <= x
  BY <1>1, Sizes, ModIn
<1>3. block \in Nat /\ block < at
  <2> HIDE DEF y
  <2> QED BY <1>1, <1>2, Sizes
<1>4. ChunkStart(size, at) = IF block < size THEN size ELSE block
  BY Zenon DEF ChunkStart
<1> HIDE DEF block
<1> QED
  BY <1>3, <1>4

LEMMA FillerIs ==
  ASSUME NEW n \in Nat, NEW g \in Val
  PROVE  Filler(n, g) \in Seq(Val)
<1>1. 0 \in Val
  BY FsAssumption
<1>2. Filler(n, g) \in [1 .. n -> Val]
  BY <1>1 DEF Filler
<1> QED
  BY <1>2, FnSeq

\* What write_at() has done when there is no gap in front of byte `at', from what it
\* had done at earlier bytes.
FillStep(f, i, size, g, start, at) ==
  IF at <= size THEN start
  ELSE WriteInside(f[ChunkStart(size, at)], i, ChunkStart(size, at), Filler(at - ChunkStart(size, at), g))
Fills(f, n, i, size, g, start) == f = [at \in 0 .. n |-> FillStep(f, i, size, g, start, at)]

LEMMA FillsIs ==
  ASSUME NEW f, NEW n, NEW i, NEW size, NEW g, NEW start, Fills(f, n, i, size, g, start)
  PROVE  \A at \in 0 .. n : f[at] = FillStep(f, i, size, g, start, at)
<1> DEFINE h == [at \in 0 .. n |-> FillStep(f, i, size, g, start, at)]
<1>1. f = h
  BY Zenon DEF Fills
<1>2. \A at \in 0 .. n : h[at] = FillStep(f, i, size, g, start, at)
  OBVIOUS
<1> HIDE DEF h
<1> QED
  BY <1>1, <1>2, Zenon

LEMMA FillsMore ==
  ASSUME NEW m \in Nat, m > 0, NEW i, NEW size \in Nat, NEW g, NEW start,
         NEW f, Fills(f, m - 1, i, size, g, start)
  PROVE  \E h : Fills(h, m, i, size, g, start)
<1> DEFINE V(at) == IF at < m THEN f[at] ELSE FillStep(f, i, size, g, start, m)
           h == [at \in 0 .. m |-> V(at)]
<1>1. \A at \in 0 .. m - 1 : f[at] = FillStep(f, i, size, g, start, at)
  BY FillsIs
<1>2. \A at \in 0 .. m : h[at] = V(at)
  OBVIOUS
<1>3. \A at \in 0 .. m - 1 : h[at] = f[at]
  OBVIOUS
<1>4. \A at \in 0 .. m : V(at) = FillStep(f, i, size, g, start, at)
  <2> SUFFICES ASSUME NEW at \in 0 .. m PROVE V(at) = FillStep(f, i, size, g, start, at)
    OBVIOUS
  <2>1. CASE at < m
    <3>1. at \in 0 .. m - 1
      BY <2>1
    <3>2. V(at) = f[at]
      BY <2>1
    <3> QED BY <1>1, <3>1, <3>2
  <2>2. CASE ~(at < m)
    <3>1. at = m
      BY <2>2
    <3>2. V(at) = FillStep(f, i, size, g, start, m)
      BY <2>2
    <3> QED BY <3>1, <3>2
  <2> QED BY <2>1, <2>2
<1> HIDE DEF h, V
<1>5. \A at \in 0 .. m : FillStep(f, i, size, g, start, at) = FillStep(h, i, size, g, start, at)
  <2> SUFFICES ASSUME NEW at \in 0 .. m PROVE FillStep(f, i, size, g, start, at) = FillStep(h, i, size, g, start, at)
    OBVIOUS
  <2>1. CASE at <= size
    BY <2>1 DEF FillStep
  <2>2. CASE ~(at <= size)
    <3> DEFINE from == ChunkStart(size, at)
    <3>1. at \in Nat /\ at > size
      BY <2>2
    <3>2. from \in Nat /\ from < at
      BY <3>1, ChunkIn
    <3>3. from \in 0 .. m - 1
      BY <3>1, <3>2
    <3>4. h[from] = f[from]
      BY <1>3, <3>3
    <3>5. FillStep(f, i, size, g, start, at) = WriteInside(f[from], i, from, Filler(at - from, g))
      BY <2>2, Zenon DEF FillStep
    <3>6. FillStep(h, i, size, g, start, at) = WriteInside(h[from], i, from, Filler(at - from, g))
      BY <2>2, Zenon DEF FillStep
    <3> HIDE DEF from
    <3> QED BY <3>4, <3>5, <3>6, Zenon
  <2> QED BY <2>1, <2>2
<1>6. h = [at \in 0 .. m |-> V(at)]
  BY Zenon DEF h
<1>7. \A at \in 0 .. m : V(at) = FillStep(h, i, size, g, start, at)
  BY <1>4, <1>5, Zenon
<1>8. h = [at \in 0 .. m |-> FillStep(h, i, size, g, start, at)]
  <2> DEFINE W(at) == FillStep(h, i, size, g, start, at)
  <2>1. \A at \in 0 .. m : V(at) = W(at)
    BY <1>7, Zenon
  <2> HIDE DEF W
  <2>2. [at \in 0 .. m |-> V(at)] = [at \in 0 .. m |-> W(at)]
    BY <2>1
  <2> QED BY <1>6, <2>2, Zenon DEF W
<1> QED
  BY <1>8, Zenon DEF Fills

LEMMA FillsExist ==
  ASSUME NEW n \in Nat, NEW i, NEW size \in Nat, NEW g, NEW start
  PROVE  \E f : Fills(f, n, i, size, g, start)
<1> DEFINE S == {k \in Nat : ~\E f : Fills(f, k, i, size, g, start)}
<1>1. 0 \notin S
  <2> DEFINE f == [at \in 0 .. 0 |-> start]
  <2>1. \A at \in 0 .. 0 : start = FillStep(f, i, size, g, start, at)
    <3> SUFFICES ASSUME NEW at \in 0 .. 0 PROVE start = FillStep(f, i, size, g, start, at)
      OBVIOUS
    <3>1. at <= size
      OBVIOUS
    <3> QED BY <3>1, Zenon DEF FillStep
  <2>2. f = [at \in 0 .. 0 |-> FillStep(f, i, size, g, start, at)]
    <3> DEFINE W(at) == FillStep(f, i, size, g, start, at)
    <3>1. \A at \in 0 .. 0 : start = W(at)
      BY <2>1, Zenon
    <3> HIDE DEF W
    <3>2. [at \in 0 .. 0 |-> start] = [at \in 0 .. 0 |-> W(at)]
      BY <3>1
    <3> QED BY <3>2, Zenon DEF W
  <2>3. Fills(f, 0, i, size, g, start)
    BY <2>2, Zenon DEF Fills
  <2> HIDE DEF f
  <2> QED BY <2>3
<1> SUFFICES ASSUME S # {} PROVE FALSE
  OBVIOUS
<1>2. S \subseteq Nat
  OBVIOUS
<1> HIDE DEF S
<1>3. PICK m \in S : m > 0 /\ m - 1 \in Nat /\ m - 1 \notin S
  BY <1>1, <1>2, LeastNat
<1>4. m \in Nat /\ ~\E f : Fills(f, m, i, size, g, start)
  BY <1>3 DEF S
<1>5. PICK f : Fills(f, m - 1, i, size, g, start)
  BY <1>3 DEF S
<1> QED
  BY <1>3, <1>4, <1>5, FillsMore

LEMMA FillsFine ==
  ASSUME NEW F \in SUBSET Inodes, NEW i \in F, NEW n \in Nat, NEW size \in Nat, NEW g \in Val,
         NEW start, Works(start, F), NEW f, Fills(f, n, i, size, g, start)
  PROVE  \A at \in 0 .. n : Works(f[at], F)
<1> DEFINE S == {at \in 0 .. n : ~Works(f[at], F)}
<1>1. \A at \in 0 .. n : f[at] = FillStep(f, i, size, g, start, at)
  BY FillsIs
<1> SUFFICES ASSUME S # {} PROVE FALSE
  OBVIOUS
<1>2. S \subseteq Nat
  OBVIOUS
<1> DEFINE m == Min(S)
<1>3. m \in S /\ \A y \in S : m <= y
  BY <1>2, MinIn
<1> HIDE DEF m
<1>4. m \in 0 .. n /\ ~Works(f[m], F) /\ m \in Nat
  BY <1>3
<1>5. f[m] = FillStep(f, i, size, g, start, m)
  BY <1>1, <1>4
<1>6. CASE m <= size
  <2>1. f[m] = start
    BY <1>5, <1>6 DEF FillStep
  <2> QED BY <1>4, <2>1
<1>7. CASE ~(m <= size)
  <2> DEFINE from == ChunkStart(size, m)
             s == Filler(m - from, g)
             c == f[from]
             r == f[m]
  <2>1. m > size
    BY <1>4, <1>7
  <2>2. from \in Nat /\ from < m
    BY <1>4, <2>1, ChunkIn
  <2>3. r = WriteInside(c, i, from, s)
    BY <1>5, <1>7, Zenon DEF FillStep
  <2>4. m - from \in Nat
    BY <1>4, <2>2
  <2>5. s \in Seq(Val)
    BY <2>4, FillerIs
  <2>6. from \in 0 .. n /\ from \notin S
    BY <1>3, <1>4, <2>2
  <2>7. Works(c, F)
    BY <2>6
  <2> HIDE DEF from, s, c
  <2>8. Fine(c, F) /\ (Enough(disk, 0, 0) => Enough(c.d, 0, 0))
    BY <2>7 DEF Works
  <2>9. Fine(r, F) /\ (Enough(c.d, 0, 0) => Enough(r.d, 0, 0))
    <3> HIDE DEF r
    <3> QED BY <2>2, <2>3, <2>5, <2>8, WriteInsideFine
  <2>10. Works(r, F)
    BY <2>8, <2>9 DEF Works
  <2> QED BY <1>4, <2>10
<1> QED
  BY <1>6, <1>7

LEMMA WriteWorks ==
  ASSUME NEW F \in SUBSET Inodes, Good(disk, F), g_hint \in Blocks, NEW i \in F, NEW off \in Nat,
         NEW s \in Seq(Val), NEW g \in Val, NEW r, r = write_at(i, off, s, g)
  PROVE  Works(r, F)
<1> DEFINE size == disk.ino[i].size
           y == disk.ino[i].kind = "file"
           start == Need(Begin, y)
           f == CHOOSE h : h = [at \in 0 .. off |->
                  IF at <= size THEN start
                  ELSE LET from == ChunkStart(size, at) IN WriteInside(h[from], i, from, Filler(at - from, g))]
           e == CHOOSE h : Fills(h, off, i, size, g, start)
<1>1. r = WriteInside(f[off], i, off, s)
  BY Zenon DEF write_at
<1>2. f = e
  BY Zenon DEF Fills, FillStep
<1>3. disk \in Disks
  BY DEF Good
<1>4. size \in Nat
  BY <1>3, ExtTypes
<1>5. y \in BOOLEAN
  OBVIOUS
<1>6. Works(start, F)
  <2> HIDE DEF y
  <2>1. Fine(Begin, F) /\ Begin.d = disk
    BY BeginFine
  <2>2. Fine(start, F) /\ start.d = Begin.d
    BY <1>5, <2>1, NeedFine
  <2> HIDE DEF start
  <2> QED BY <2>1, <2>2 DEF Works
<1> HIDE DEF start, size, f
<1>7. \E h : Fills(h, off, i, size, g, start)
  BY <1>4, FillsExist
<1>8. Fills(e, off, i, size, g, start)
  BY <1>7, Zenon
<1> HIDE DEF e
<1>9. \A at \in 0 .. off : Works(e[at], F)
  BY <1>4, <1>6, <1>8, FillsFine
<1> DEFINE c == e[off]
<1>10. Works(c, F)
  <2>1. off \in 0 .. off
    OBVIOUS
  <2> QED BY <1>9, <2>1
<1>11. r = WriteInside(c, i, off, s)
  BY <1>1, <1>2, Zenon
<1> HIDE DEF c
<1>12. Fine(c, F) /\ (Enough(disk, 0, 0) => Enough(c.d, 0, 0))
  BY <1>10 DEF Works
<1>13. Fine(r, F) /\ (Enough(c.d, 0, 0) => Enough(r.d, 0, 0))
  BY <1>11, <1>12, WriteInsideFine
<1> QED
  BY <1>12, <1>13 DEF Works

-----------------------------------------------------------------------------
(* Steps                                                                   *)

OpenIn(fds) == {fds[f].ino : f \in Fds} \ {0}

LEMMA InvFacts ==
  ASSUME FsInv
  PROVE  /\ Good(disk, Opened) /\ g_hint \in Blocks /\ stops \in 0 .. MaxStops /\ fd \in [Fds -> FdRecs]
         /\ stops = 0 => Enough(disk, 0, 0)
         /\ Opened = OpenIn(fd) /\ Opened \in SUBSET Inodes
         /\ disk \in Disks /\ Rooted(disk) /\ Linked(disk) \subseteq Inodes
<1>1. /\ Good(disk, Opened) /\ g_hint \in Blocks /\ stops \in 0 .. MaxStops /\ fd \in [Fds -> FdRecs]
      /\ stops = 0 => Enough(disk, 0, 0)
  BY DEF FsInv
<1>2. Opened = OpenIn(fd)
  BY DEF Opened, OpenIn
<1>3. \A f \in Fds : fd[f].ino \in 0 .. kInodes
  BY <1>1 DEF FdRecs
<1>4. Opened \in SUBSET Inodes
  BY <1>3, Sizes DEF Opened, Inodes
<1>5. disk \in Disks /\ Rooted(disk)
  BY <1>1 DEF Good
<1> QED
  BY <1>1, <1>2, <1>4, <1>5, LinkedFacts

LEMMA FinishStep ==
  ASSUME FsInv, NEW c, Good(c.d, Opened), c.hint \in Blocks, Enough(disk, 0, 0) => Enough(c.d, 0, 0),
         NEW fds \in [Fds -> FdRecs], OpenIn(fds) \subseteq Opened \cup Linked(c.d), Finish(c, fds)
  PROVE  FsInv'
<1>1. disk' = c.d /\ g_hint' = c.hint /\ fd' = fds /\ stops' = stops
  BY DEF Finish
<1>2. Good(c.d, OpenIn(fds))
  BY GoodFewer
<1>3. Opened' = OpenIn(fds)
  BY <1>1, Zenon DEF Opened, OpenIn
<1>4. Good(disk', Opened')
  BY <1>1, <1>2, <1>3, Zenon
<1>5. stops \in 0 .. MaxStops /\ (stops = 0 => Enough(c.d, 0, 0))
  BY InvFacts
<1>6. /\ g_hint' \in Blocks /\ stops' \in 0 .. MaxStops /\ fd' \in [Fds -> FdRecs]
  BY <1>1, <1>5
<1>7. stops' = 0 => Enough(disk', 0, 0)
  BY <1>1, <1>5, Zenon
<1> QED
  BY <1>4, <1>6, <1>7 DEF FsInv

LEMMA LogAt ==
  ASSUME NEW F, NEW c, Fine(c, F), NEW k \in 1 .. Len(c.log) - 1
  PROVE  Good(c.log[k].d, F) /\ c.log[k].hint \in Blocks
<1>1. c.log \in Seq(Logged)
  BY FineTypes
<1>2. k \in DOMAIN c.log /\ c.log[k] \in Logged
  BY <1>1
<1>3. Good(c.log[k].d, F)
  BY <1>2 DEF Fine
<1> QED
  BY <1>2, <1>3 DEF Logged

\* A call that stopped is one more: the counts may be wrong from then on.
LEMMA StopStep ==
  ASSUME stops \in 0 .. MaxStops, stops < MaxStops, stops' = stops + 1
  PROVE  stops' \in 0 .. MaxStops /\ stops' # 0
  BY Sizes

LEMMA BrokenStep ==
  ASSUME FsInv, NEW c, Fine(c, Opened), Broken(c)
  PROVE  FsInv'
<1>1. PICK k \in 1 .. Len(c.log) - 1 :
        /\ disk' = c.log[k].d /\ g_hint' = c.log[k].hint /\ fd' = fd
        /\ stops < MaxStops /\ stops' = stops + 1
  BY DEF Broken
<1>2. Good(c.log[k].d, Opened) /\ c.log[k].hint \in Blocks
  BY LogAt
<1>3. Opened' = Opened
  BY <1>1, Zenon DEF Opened
<1>4. Good(disk', Opened')
  BY <1>1, <1>2, <1>3, Zenon
<1>5. stops \in 0 .. MaxStops /\ fd \in [Fds -> FdRecs]
  BY InvFacts
<1>6. stops' \in 0 .. MaxStops /\ stops' # 0
  BY <1>1, <1>5, StopStep
<1>7. g_hint' \in Blocks /\ fd' \in [Fds -> FdRecs]
  BY <1>1, <1>2, <1>5
<1> QED
  BY <1>4, <1>6, <1>7 DEF FsInv

LEMMA ClosedAll ==
  AllClosed \in [Fds -> FdRecs] /\ OpenIn(AllClosed) = {} /\ 0 \in Blocks
<1>1. Closed \in FdRecs /\ Closed.ino = 0
  BY Sizes DEF Closed, FdRecs
<1>2. \A f \in Fds : AllClosed[f] = Closed
  BY DEF AllClosed
<1>3. AllClosed \in [Fds -> FdRecs]
  BY <1>1 DEF AllClosed
<1> QED
  BY <1>1, <1>2, <1>3, Sizes DEF OpenIn, Blocks

LEMMA CrashStep ==
  ASSUME FsInv, NEW F, NEW c, Fine(c, F), Crash(c)
  PROVE  FsInv'
<1>1. PICK k \in 1 .. Len(c.log) - 1 :
        /\ disk' = c.log[k].d /\ g_hint' = 0 /\ fd' = AllClosed
        /\ stops < MaxStops /\ stops' = stops + 1
  BY DEF Crash
<1>2. Good(c.log[k].d, F)
  BY LogAt
<1>3. Good(c.log[k].d, {})
  BY <1>2, GoodFewer
<1>4. Opened' = OpenIn(AllClosed)
  BY <1>1, Zenon DEF Opened, OpenIn
<1>5. Good(disk', Opened')
  BY <1>1, <1>3, <1>4, ClosedAll, Zenon
<1>6. stops \in 0 .. MaxStops
  BY InvFacts
<1>7. stops' \in 0 .. MaxStops /\ stops' # 0
  BY <1>1, <1>6, StopStep
<1>8. g_hint' \in Blocks /\ fd' \in [Fds -> FdRecs]
  BY <1>1, ClosedAll
<1> QED
  BY <1>5, <1>7, <1>8 DEF FsInv

LEMMA DoStep ==
  ASSUME FsInv, NEW c, Works(c, Opened), NEW fds \in [Fds -> FdRecs],
         OpenIn(fds) \subseteq Opened \cup Linked(c.d), Do(c, fds)
  PROVE  FsInv'
<1>1. Fine(c, Opened) /\ (Enough(disk, 0, 0) => Enough(c.d, 0, 0))
  BY DEF Works
<1>2. Good(c.d, Opened) /\ c.hint \in Blocks
  BY <1>1, FineTypes
<1>3. Finish(c, fds) \/ Broken(c) \/ Crash(c)
  BY DEF Do
<1>4. CASE Finish(c, fds)
  BY <1>1, <1>2, <1>4, FinishStep
<1>5. CASE Broken(c)
  BY <1>1, <1>5, BrokenStep
<1>6. CASE Crash(c)
  BY <1>1, <1>6, CrashStep
<1> QED
  BY <1>3, <1>4, <1>5, <1>6

\* Only descriptors change, and none leads to another inode than before.
LEMMA FdStep ==
  ASSUME FsInv, disk' = disk, g_hint' = g_hint, stops' = stops,
         fd' \in [Fds -> FdRecs], \A f \in Fds : fd'[f].ino \in {0, fd[f].ino}
  PROVE  FsInv'
<1>1. /\ Good(disk, Opened) /\ g_hint \in Blocks /\ stops \in 0 .. MaxStops
      /\ stops = 0 => Enough(disk, 0, 0)
  BY InvFacts
<1>2. Opened' \subseteq Opened
  BY DEF Opened
<1>3. Good(disk, Opened')
  BY <1>1, <1>2, GoodFewer
<1>4. Good(disk', Opened')
  BY <1>3, Zenon
<1>5. g_hint' \in Blocks /\ stops' \in 0 .. MaxStops /\ (stops' = 0 => Enough(disk', 0, 0))
  BY <1>1, Zenon
<1> QED
  BY <1>4, <1>5 DEF FsInv

LEMMA CloseStep ==
  ASSUME FsInv, NEW f \in Fds, fd_close(f)
  PROVE  FsInv'
<1>1. fd \in [Fds -> FdRecs]
  BY InvFacts
<1>2. disk' = disk /\ g_hint' = g_hint /\ stops' = stops /\ fd' = [fd EXCEPT ![f] = Closed]
  BY DEF fd_close
<1>3. Closed \in FdRecs /\ Closed.ino = 0
  BY Sizes DEF Closed, FdRecs
<1>4. fd' \in [Fds -> FdRecs] /\ \A h \in Fds : fd'[h].ino \in {0, fd[h].ino}
  <2> HIDE DEF Closed
  <2> QED BY <1>1, <1>2, <1>3
<1> QED
  BY <1>2, <1>4, FdStep

LEMMA SeekStep ==
  ASSUME FsInv, NEW f \in Fds, NEW pos, Seek(f, pos)
  PROVE  FsInv'
<1>1. fd \in [Fds -> FdRecs]
  BY InvFacts
<1>2. disk' = disk /\ g_hint' = g_hint /\ stops' = stops /\ fd' = [fd EXCEPT ![f].pos = pos] /\ pos \in Nat
  BY Sizes DEF Seek
<1>3. [fd[f] EXCEPT !.pos = pos] \in FdRecs /\ [fd[f] EXCEPT !.pos = pos].ino = fd[f].ino
  BY <1>1, <1>2 DEF FdRecs
<1>4. fd' \in [Fds -> FdRecs] /\ \A h \in Fds : fd'[h].ino \in {0, fd[h].ino}
  BY <1>1, <1>2, <1>3
<1> QED
  BY <1>2, <1>4, FdStep

LEMMA FdSet ==
  ASSUME NEW fds \in [Fds -> FdRecs], NEW f \in Fds, NEW e \in FdRecs, NEW g, g = [fds EXCEPT ![f] = e]
  PROVE  g \in [Fds -> FdRecs] /\ OpenIn(g) \subseteq OpenIn(fds) \cup ({e.ino} \ {0})
<1>1. g \in [Fds -> FdRecs] /\ \A h \in Fds : g[h] = IF h = f THEN e ELSE fds[h]
  OBVIOUS
<1>2. \A h \in Fds : g[h].ino = e.ino \/ g[h].ino = fds[h].ino
  BY <1>1
<1> QED
  BY <1>1, <1>2 DEF OpenIn

LEMMA NewFdIs ==
  ASSUME FsInv, NEW d \in Disks, NEW i \in 0 .. kInodes, NEW a \in BOOLEAN, a => i # 0,
         NEW fds, fds = NewFd(d, i, a)
  PROVE  fds \in [Fds -> FdRecs] /\ OpenIn(fds) \subseteq Opened \cup ({i} \ {0})
<1>1. fd \in [Fds -> FdRecs] /\ Opened = OpenIn(fd)
  BY InvFacts
<1>2. CASE FreeFds = {}
  <2>1. fds = fd
    BY <1>2, Zenon DEF NewFd
  <2> QED BY <1>1, <2>1
<1>3. CASE FreeFds # {}
  <2> DEFINE m == Min(FreeFds)
             p == IF a THEN d.ino[i].size ELSE 0
             e == [ino |-> i, append |-> a, pos |-> p]
  <2>1. FreeFds \subseteq Nat /\ FreeFds \subseteq Fds
    BY DEF FreeFds, Fds
  <2>2. m \in Fds
    BY <1>3, <2>1, MinIn
  <2>3. p \in Nat
    <3>1. CASE a
      <4>1. i \in Inodes
        BY <3>1, Sizes DEF Inodes
      <4>2. d.ino[i].size \in Nat
        BY <4>1, ExtTypes
      <4> QED BY <3>1, <4>2
    <3>2. CASE ~a
      BY <3>2
    <3> QED BY <3>1, <3>2
  <2>4. fds = [fd EXCEPT ![m] = e]
    BY <1>3, Zenon DEF NewFd
  <2> HIDE DEF m, p
  <2>5. e \in FdRecs /\ e.ino = i
    BY <2>3 DEF FdRecs
  <2> HIDE DEF e
  <2>6. fds \in [Fds -> FdRecs] /\ OpenIn(fds) \subseteq OpenIn(fd) \cup ({e.ino} \ {0})
    BY <1>1, <2>2, <2>4, <2>5, FdSet
  <2> QED BY <1>1, <2>5, <2>6
<1> QED
  BY <1>2, <1>3

LEMMA OpenStep ==
  ASSUME FsInv, NEW path \in Paths, NEW flags \in {"r", "w", "a"}, fd_open(path, flags)
  PROVE  FsInv'
<1> DEFINE i == lookup_abs(disk, path)
           new == Created(path)
           cut == Truncated(path)
           trunc == flags = "w" /\ disk.ino[i].kind = "file"
           c == IF i = 0 THEN new ELSE IF trunc THEN cut ELSE Begin
           a == flags = "a"
           j == lookup_abs(c.d, path)
           fds == IF c.ok THEN NewFd(c.d, j, a) ELSE fd
<1>1. Do(c, fds)
  BY Zenon DEF fd_open
<1>2. /\ Good(disk, Opened) /\ g_hint \in Blocks /\ fd \in [Fds -> FdRecs] /\ Opened = OpenIn(fd)
      /\ Opened \in SUBSET Inodes
  BY InvFacts
<1>3. a \in BOOLEAN
  OBVIOUS
<1>4. Works(c, Opened) /\ (c.ok /\ a => lookup_abs(c.d, path) # 0)
  <2>1. CASE i = 0
    <3>1. c = new
      BY <2>1, Zenon
    <3>2. Works(new, Opened) /\ (new.ok => lookup_abs(new.d, path) # 0)
      <4>1. lookup_abs(disk, path) = 0
        BY <2>1
      <4> QED BY <1>2, <4>1, CreatedWorks
    <3> HIDE DEF c, new, a
    <3> QED BY <3>1, <3>2
  <2>2. CASE i # 0 /\ trunc
    <3>1. c = cut /\ ~a
      BY <2>2
    <3>2. lookup_abs(disk, path) # 0 /\ disk.ino[lookup_abs(disk, path)].kind = "file"
      BY <2>2
    <3>3. Works(cut, Opened)
      BY <1>2, <3>2, TruncatedWorks
    <3> HIDE DEF c, cut, a
    <3> QED BY <3>1, <3>3
  <2>3. CASE i # 0 /\ ~trunc
    <3>1. c = Begin
      BY <2>3, Zenon
    <3>2. Fine(Begin, Opened) /\ Begin.d = disk
      BY <1>2, BeginFine
    <3>3. Works(Begin, Opened)
      BY <3>2 DEF Works
    <3>4. lookup_abs(disk, path) # 0
      BY <2>3
    <3> HIDE DEF c, a
    <3> QED BY <3>1, <3>2, <3>3, <3>4
  <2> QED BY <2>1, <2>2, <2>3
<1>5. fds = IF c.ok THEN NewFd(c.d, j, a) ELSE fd
  OBVIOUS
<1>6. j = lookup_abs(c.d, path)
  OBVIOUS
<1> HIDE DEF c, a, j, fds
<1>7. Fine(c, Opened)
  BY <1>4 DEF Works
<1>8. c.d \in Disks /\ Rooted(c.d) /\ c.ok \in BOOLEAN /\ Linked(c.d) \subseteq Inodes
  BY <1>7, FineTypes
<1>9. j = 0 \/ j \in Linked(c.d)
  BY <1>6, <1>8, LookupIn
<1>10. fds \in [Fds -> FdRecs] /\ OpenIn(fds) \subseteq Opened \cup Linked(c.d)
  <2>1. CASE ~c.ok
    BY <1>2, <1>5, <2>1
  <2>2. CASE c.ok
    <3>1. fds = NewFd(c.d, j, a)
      BY <1>5, <2>2
    <3>2. j \in 0 .. kInodes
      BY <1>8, <1>9, Sizes DEF Inodes
    <3>3. a => j # 0
      BY <1>4, <1>6, <2>2
    <3>4. fds \in [Fds -> FdRecs] /\ OpenIn(fds) \subseteq Opened \cup ({j} \ {0})
      BY <1>3, <1>8, <3>1, <3>2, <3>3, NewFdIs
    <3> QED BY <1>9, <3>4
  <2> QED BY <1>8, <2>1, <2>2
<1> QED
  BY <1>1, <1>4, <1>10, DoStep

LEMMA MkdirStep ==
  ASSUME FsInv, NEW path \in Paths, Mkdir(path)
  PROVE  FsInv'
<1> DEFINE c == mkdir(path)
<1>1. Do(c, fd)
  BY Zenon DEF Mkdir
<1>2. /\ Good(disk, Opened) /\ g_hint \in Blocks /\ fd \in [Fds -> FdRecs] /\ Opened = OpenIn(fd)
      /\ Opened \in SUBSET Inodes
  BY InvFacts
<1>3. Works(c, Opened)
  BY <1>2, MkdirWorks
<1> HIDE DEF c
<1> QED
  BY <1>1, <1>2, <1>3, DoStep

LEMMA RmStep ==
  ASSUME FsInv, NEW path \in Paths, Rm(path)
  PROVE  FsInv'
<1> DEFINE c == rm(path)
           i == lookup_abs(disk, path)
           G == Opened \ {i}
<1>1. ~FirstOfBlock(path)
  BY DEF Rm
<1>2. Finish(c, fd) \/ Crash(c) \/ ((\A f \in Fds : fd[f].ino # i) /\ Broken(c))
  BY Zenon DEF Rm
<1>3. /\ Good(disk, Opened) /\ g_hint \in Blocks /\ fd \in [Fds -> FdRecs] /\ Opened = OpenIn(fd)
      /\ Opened \in SUBSET Inodes
  BY InvFacts
<1>4. Works(c, G) /\ Good(c.d, Opened)
  BY <1>1, <1>3, RmWorks
<1> HIDE DEF c, i
<1>5. Fine(c, G) /\ (Enough(disk, 0, 0) => Enough(c.d, 0, 0))
  BY <1>4 DEF Works
<1>6. c.hint \in Blocks
  BY <1>5, FineTypes
<1>7. CASE Finish(c, fd)
  BY <1>3, <1>4, <1>5, <1>6, <1>7, FinishStep
<1>8. CASE Crash(c)
  BY <1>5, <1>8, CrashStep
<1>9. CASE (\A f \in Fds : fd[f].ino # i) /\ Broken(c)
  <2>1. G = Opened
    BY <1>9 DEF Opened
  <2> HIDE DEF G
  <2> QED BY <1>5, <1>9, <2>1, BrokenStep
<1> QED
  BY <1>2, <1>7, <1>8, <1>9

LEMMA WriteStep ==
  ASSUME FsInv, NEW f \in Fds, NEW len \in Lens, NEW v \in Val \ {0}, NEW g \in Val \ {0}, fd_write(f, len, v, g)
  PROVE  FsInv'
<1> DEFINE e == fd[f]
           at == IF e.append THEN disk.ino[e.ino].size ELSE e.pos
           s == [k \in 1 .. len |-> v]
           c == write_at(e.ino, at, s, g)
           moved == [e EXCEPT !.pos = at]
           n == IF c.ok THEN [moved EXCEPT !.pos = at + len] ELSE moved
           fds == [fd EXCEPT ![f] = n]
<1>1. e.ino # 0 /\ Do(c, fds)
  BY Zenon DEF fd_write
<1>2. /\ Good(disk, Opened) /\ g_hint \in Blocks /\ fd \in [Fds -> FdRecs] /\ Opened = OpenIn(fd)
      /\ Opened \in SUBSET Inodes /\ disk \in Disks
  BY InvFacts
<1>3. e \in FdRecs /\ e.ino \in Opened
  BY <1>1, <1>2 DEF Opened
<1>4. at \in Nat
  <2>1. disk.ino[e.ino].size \in Nat
    BY <1>2, <1>3, ExtTypes
  <2>2. e.pos \in Nat
    BY <1>3 DEF FdRecs
  <2> QED BY <2>1, <2>2
<1>5. len \in Nat
  BY FsAssumption
<1>6. s \in Seq(Val)
  <2>1. s \in [1 .. len -> Val]
    OBVIOUS
  <2> QED BY <1>5, <2>1, FnSeq
<1>7. c = write_at(e.ino, at, s, g) /\ g \in Val
  OBVIOUS
<1>8. fds = [fd EXCEPT ![f] = n]
  OBVIOUS
<1> HIDE DEF at, s
<1>9. n \in FdRecs /\ n.ino = e.ino
  <2>1. moved \in FdRecs /\ moved.ino = e.ino /\ at + len \in Nat
    BY <1>3, <1>4, <1>5 DEF FdRecs
  <2>2. [moved EXCEPT !.pos = at + len] \in FdRecs /\ [moved EXCEPT !.pos = at + len].ino = e.ino
    <3> HIDE DEF moved
    <3> QED BY <2>1 DEF FdRecs
  <2> HIDE DEF moved, c
  <2> QED BY <2>1, <2>2
<1> HIDE DEF c, n, fds
<1>10. Works(c, Opened)
  <2> HIDE DEF e
  <2> QED BY <1>2, <1>3, <1>4, <1>6, <1>7, WriteWorks
<1>11. fds \in [Fds -> FdRecs] /\ OpenIn(fds) \subseteq OpenIn(fd) \cup ({n.ino} \ {0})
  BY <1>2, <1>8, <1>9, FdSet
<1>12. OpenIn(fds) \subseteq Opened \cup Linked(c.d)
  BY <1>2, <1>3, <1>9, <1>11
<1> QED
  BY <1>1, <1>10, <1>11, <1>12, DoStep

LEMMA FsNext ==
  ASSUME FsInv, [Next]_vars
  PROVE  FsInv'
<1>1. ASSUME NEW path \in Paths, Mkdir(path) PROVE FsInv'
  BY <1>1, MkdirStep
<1>2. ASSUME NEW path \in Paths, Rm(path) PROVE FsInv'
  BY <1>2, RmStep
<1>3. ASSUME NEW path \in Paths, NEW flags \in {"r", "w", "a"}, fd_open(path, flags) PROVE FsInv'
  BY <1>3, OpenStep
<1>4. ASSUME NEW f \in Fds, fd_close(f) PROVE FsInv'
  BY <1>4, CloseStep
<1>5. ASSUME NEW f \in Fds, lseek(f) PROVE FsInv'
  <2>1. PICK pos \in {0, MaxSize - 1} : Seek(f, pos)
    BY <1>5 DEF lseek
  <2> QED BY <2>1, SeekStep
<1>6. ASSUME NEW f \in Fds, NEW len \in Lens, fd_read(f, len) PROVE FsInv'
  <2>1. \E pos : Seek(f, pos)
    BY <1>6 DEF fd_read
  <2>2. PICK pos : Seek(f, pos)
    BY <2>1
  <2> QED BY <2>2, SeekStep
<1>7. ASSUME NEW f \in Fds, NEW len \in Lens, NEW v \in Val \ {0}, NEW g \in Val \ {0}, fd_write(f, len, v, g)
      PROVE  FsInv'
  BY <1>7, WriteStep
<1>8. CASE UNCHANGED vars
  <2>1. disk' = disk /\ g_hint' = g_hint /\ fd' = fd /\ stops' = stops
    BY <1>8 DEF vars
  <2>2. fd' \in [Fds -> FdRecs] /\ \A f \in Fds : fd'[f].ino \in {0, fd[f].ino}
    BY <2>1, InvFacts
  <2> QED BY <2>1, <2>2, FdStep
<1> QED
  BY <1>1, <1>2, <1>3, <1>4, <1>5, <1>6, <1>7, <1>8 DEF Next

-----------------------------------------------------------------------------
(* The invariant of the specification, and what it says                    *)

\* The disk a volume begins with.
FirstDisk(d) ==
  /\ d.bbm = {0, 1} /\ d.ibm = {kRootIno} /\ d.fb = kBlocks - 2 /\ d.fi = kInodes - 1
  /\ d.ino[kRootIno] = DirInode(1) /\ d.blk[1] = DotDot(kRootIno, kRootIno)

LEMMA FirstIs ==
  ASSUME Init
  PROVE  disk \in Disks /\ FirstDisk(disk)
<1> DEFINE I == [i \in Inodes |-> IF i = kRootIno THEN DirInode(1) ELSE NoInode]
           B == [b \in Blocks |-> IF b = 1 THEN DotDot(kRootIno, kRootIno) ELSE Blank]
<1>1. disk = [bbm |-> {0, 1}, ibm |-> {kRootIno}, ino |-> I, blk |-> B,
              fb |-> kBlocks - 2, fi |-> kInodes - 1]
  BY DEF Init, DirInode
<1>2. 0 \in Blocks /\ 1 \in Blocks /\ kRootIno \in Inodes
  BY Sizes DEF Blocks
<1>3. I \in [Inodes -> InodeRecs] /\ I[kRootIno] = DirInode(1)
  <2>1. DirInode(1) \in InodeRecs
    BY <1>2, DirInodeIs
  <2>2. NoInode \in InodeRecs
    BY NewFileIs DEF NoInode
  <2> QED BY <1>2, <2>1, <2>2
<1>4. B \in [Blocks -> DataBlocks \cup DirBlocks] /\ B[1] = DotDot(kRootIno, kRootIno)
  <2>1. DotDot(kRootIno, kRootIno) \in DataBlocks \cup DirBlocks
    BY <1>2, DotDotBlock
  <2>2. Blank \in DataBlocks
    BY FsAssumption DEF Blank, DataBlock, DataBlocks
  <2> QED BY <1>2, <2>1, <2>2
<1>5. kBlocks - 2 \in Nat /\ kInodes - 1 \in Nat
  BY Sizes
<1> HIDE DEF I, B
<1>6. /\ disk.bbm = {0, 1} /\ disk.ibm = {kRootIno} /\ disk.ino = I /\ disk.blk = B
      /\ disk.fb = kBlocks - 2 /\ disk.fi = kInodes - 1
  BY <1>1
<1>7. disk \in Disks
  <2>1. {0, 1} \in SUBSET Blocks /\ {kRootIno} \in SUBSET Inodes
    BY <1>2
  <2> QED BY <1>1, <1>3, <1>4, <1>5, <2>1 DEF Disks
<1> QED
  BY <1>3, <1>4, <1>6, <1>7 DEF FirstDisk

LEMMA FirstGood ==
  ASSUME NEW d \in Disks, FirstDisk(d)
  PROVE  Good(d, {}) /\ Enough(d, 0, 0)
<1>1. 1 \in Blocks /\ kRootIno \in Inodes /\ d.ino[kRootIno] = DirInode(1)
      /\ d.blk[1] = DotDot(kRootIno, kRootIno) /\ d.bbm = {0, 1} /\ d.ibm = {kRootIno}
  BY Sizes DEF FirstDisk, Blocks
<1>2. /\ Shape(d, kRootIno) /\ Named(d, kRootIno) = {} /\ Kids(d, kRootIno) = {}
      /\ Up(d, kRootIno, kRootIno) /\ Own(d, kRootIno) = {1} /\ IsDir(d, kRootIno)
  BY <1>1, NewDir
<1>3. Near(d) = {kRootIno} /\ Linked(d) = {kRootIno}
  BY <1>2 DEF Near, Linked
<1>4. d.ino[kRootIno].kind # "none"
  BY <1>2 DEF IsDir
<1>5. Rooted(d)
  BY <1>1, <1>2, <1>3, <1>4 DEF Rooted
<1>6. Sound(d, kRootIno)
  <2>1. Disjoint(d.ino[kRootIno].ext)
    BY <1>1, DirInodeIs
  <2> QED BY <1>1, <1>2, <2>1 DEF Sound, Disjoint
<1>7. Good(d, {})
  BY <1>1, <1>3, <1>5, <1>6 DEF Good, Spread
<1>8. Cardinality(d.bbm) = 2
  <2>1. Cardinality({0}) = 1 /\ IsFiniteSet({0})
    BY FS_Singleton
  <2>2. Cardinality({0} \cup {1}) = 2
    BY <2>1, FS_AddElement
  <2>3. {0} \cup {1} = {0, 1}
    OBVIOUS
  <2> QED BY <1>1, <2>2, <2>3
<1>9. Cardinality(d.ibm) = 1
  BY <1>1, FS_Singleton
<1> QED
  BY <1>7, <1>8, <1>9, Sizes DEF Enough, FirstDisk

LEMMA FsStart ==
  ASSUME Init
  PROVE  FsInv
<1>1. disk \in Disks /\ FirstDisk(disk)
  BY FirstIs
<1>2. Good(disk, {}) /\ Enough(disk, 0, 0)
  BY <1>1, FirstGood
<1>3. g_hint = 0 /\ fd = AllClosed /\ stops = 0
  BY DEF Init
<1>4. fd \in [Fds -> FdRecs] /\ OpenIn(fd) = {} /\ 0 \in Blocks
  BY <1>3, ClosedAll
<1>5. Opened = {}
  BY <1>4 DEF Opened, OpenIn
<1>6. stops \in 0 .. MaxStops
  BY <1>3, Sizes
<1> QED
  BY <1>2, <1>3, <1>4, <1>5, <1>6 DEF FsInv

\* Wherever a call stops, the disk is a tree of directories whose blocks, and those of
\* every open file, are marked used and belong to one inode each.
THEOREM FsInvAlways == Spec => []FsInv
<1>1. Init => FsInv
  BY FsStart
<1>2. FsInv /\ [Next]_vars => FsInv'
  BY FsNext
<1> QED
  BY <1>1, <1>2, PTL DEF Spec

LEMMA ReachLinked ==
  ASSUME FsInv
  PROVE  Reach \subseteq Linked(disk)
<1>1. disk \in Disks /\ Rooted(disk)
  BY InvFacts
<1>2. kRootIno \in Linked(disk)
  BY <1>1, LinkedFacts
<1>3. ASSUME NEW p \in Paths, lookup_abs(disk, p) # 0 PROVE lookup_abs(disk, p) \in Linked(disk)
  BY <1>1, <1>3, LookupIn
<1> QED
  BY <1>2, <1>3 DEF Reach

LEMMA InvTypes ==
  ASSUME FsInv
  PROVE  TypeOK
<1>1. /\ g_hint \in Blocks /\ stops \in 0 .. MaxStops /\ fd \in [Fds -> FdRecs] /\ disk \in Disks
  BY InvFacts
<1>2. /\ disk.bbm \in SUBSET Blocks /\ disk.ibm \in SUBSET Inodes /\ disk.fb \in Nat /\ disk.fi \in Nat
  BY <1>1, DiskTypes
<1>3. \A i \in Inodes : disk.ino[i].kind \in {"none", "file", "dir"} /\ Len(disk.ino[i].ext) <= kExtents
  BY <1>1, ExtTypes
<1>4. \A f \in Fds : fd[f].ino \in 0 .. kInodes /\ fd[f].pos \in Nat
  BY <1>1 DEF FdRecs
<1> QED
  BY <1>1, <1>2, <1>3, <1>4 DEF TypeOK

LEMMA InvConsistent ==
  ASSUME FsInv
  PROVE  Consistent
<1>1. /\ disk \in Disks /\ Rooted(disk) /\ Spread(disk, Linked(disk) \cup Opened)
      /\ Linked(disk) \subseteq Inodes
  BY InvFacts DEF Good
<1>2. \A i \in Linked(disk) : i \in disk.ibm /\ disk.ino[i].kind # "none"
  BY <1>1, LinkedFacts
<1>3. ASSUME NEW i \in Linked(disk)
      PROVE  /\ BlocksIn(disk.ino[i].ext) \subseteq disk.bbm \ {0}
             /\ Cardinality(BlocksIn(disk.ino[i].ext)) = Freed(disk.ino[i])
  <2>1. Sound(disk, i)
    BY <1>1 DEF Spread
  <2>2. Disjoint(disk.ino[i].ext) /\ BlocksIn(disk.ino[i].ext) \subseteq disk.bbm \ {0}
    BY <2>1 DEF Sound, Own, Disjoint
  <2>3. disk.ino[i] \in InodeRecs
    BY <1>1, ExtTypes
  <2> QED BY <2>2, <2>3, FreedCounts
<1>4. \A i, j \in Linked(disk) : i # j => BlocksIn(disk.ino[i].ext) \cap BlocksIn(disk.ino[j].ext) = {}
  BY <1>1 DEF Spread, Own
<1>5. TypeOK /\ Reach \subseteq Linked(disk)
  BY InvTypes, ReachLinked
<1> HIDE DEF Reach
<1> QED
  BY <1>2, <1>3, <1>4, <1>5 DEF Consistent

\* Wherever a call stopped, for a volume of any size: every name leads to an inode
\* that is marked used, every block it maps is marked used, and no block is mapped
\* twice (rm, write_file and write_at free last and allocate first).
THEOREM ConsistentAlways == Spec => []Consistent
<1>1. FsInv => Consistent
  BY InvConsistent
<1> QED
  BY <1>1, FsInvAlways, PTL

LEMMA InvCounts ==
  ASSUME FsInv
  PROVE  NeverRefused
<1>1. disk \in Disks /\ (stops = 0 => Enough(disk, 0, 0))
  BY InvFacts
<1>2. /\ disk.fb \in Nat /\ disk.fi \in Nat
      /\ Cardinality(disk.bbm) \in Nat /\ Cardinality(disk.ibm) \in Nat
  BY <1>1, DiskTypes, BitmapsFinite
<1> QED
  BY <1>1, <1>2, Sizes DEF NeverRefused, Enough

\* As long as no call stopped half way, the counts of free blocks and inodes are never
\* below what is really free: commit_counts() does not refuse a call that is done.
THEOREM NeverRefusedAlways == Spec => []NeverRefused
<1>1. FsInv => NeverRefused
  BY InvCounts
<1> QED
  BY <1>1, FsInvAlways, PTL

\* ".." of a directory leads to the one its entry was found in.
LEMMA UpIs ==
  ASSUME NEW d \in Disks, Rooted(d), NEW i \in Linked(d), NEW q \in Named(d, i), IsDir(d, Ent(d, q).ino)
  PROVE  Child(d, Ent(d, q).ino, "..") = i
<1> DEFINE j == Ent(d, q).ino
<1>1. /\ Linked(d) \subseteq Inodes /\ Near(d) \subseteq Linked(d) /\ 0 \notin Linked(d)
      /\ \A n \in Near(d) : Kids(d, n) \subseteq Linked(d)
      /\ \A n \in Linked(d) : Shape(d, n)
  BY LinkedFacts
<1>2. i \in Near(d)
  <2> SUFFICES ASSUME i \notin Near(d) PROVE FALSE
    OBVIOUS
  <2>1. PICK n \in Kids(d, kRootIno) : i \in Kids(d, n)
    BY DEF Linked
  <2>2. Named(d, i) = {}
    BY <2>1 DEF Rooted
  <2> QED BY <2>2
<1>3. j \in Kids(d, i)
  BY KidsIs
<1>4. j \in Linked(d) /\ j \in Inodes /\ Shape(d, j)
  BY <1>1, <1>2, <1>3
<1>5. Up(d, j, i)
  BY <1>2, <1>3 DEF Rooted
<1>6. PICK r \in Spots(d, j) : Ent(d, r).name = ".."
  BY <1>5 DEF Up
<1>7. ".." \notin Names
  BY NamesAssumption DEF Names
<1>8. r \notin Named(d, j)
  BY <1>6, <1>7 DEF Named
<1>9. Ent(d, r).ino = i
  BY <1>5, <1>6, <1>8 DEF Up
<1>10. i # 0
  BY <1>1
<1> HIDE DEF j
<1> QED
  <2>1. Child(d, j, "..") = Ent(d, r).ino
    BY <1>4, <1>6, <1>9, <1>10, ChildIs
  <2> QED BY <2>1, <1>9 DEF j

LEMMA DirWhole ==
  ASSUME NEW d \in Disks, Rooted(d), NEW i \in Linked(d), IsDir(d, i)
  PROVE  /\ \A l \in 0 .. NumBlocks(d.ino[i]) - 1 :
              /\ d.blk[map_lblock(d.ino[i], l)].use = "dir"
              /\ Room(EntriesAt(d, i, l)) = kSlots
         /\ \A e1, e2 \in list_dir(d, i) : e1.name = e2.name => e1 = e2
         /\ \A e \in list_dir(d, i) :
              e.name \in Names /\ d.ino[e.ino].kind = "dir" => Child(d, e.ino, "..") = i
<1>1. i \in Inodes /\ Shape(d, i)
  BY LinkedFacts
<1>2. /\ \A b \in Own(d, i) : d.blk[b].use = "dir" /\ Room(d.blk[b].ents) = kSlots
      /\ \A q, r \in Spots(d, i) : Ent(d, q).name = Ent(d, r).name => q = r
  BY <1>1 DEF Shape
<1>3. ASSUME NEW l \in 0 .. NumBlocks(d.ino[i]) - 1
      PROVE  /\ d.blk[map_lblock(d.ino[i], l)].use = "dir"
             /\ Room(EntriesAt(d, i, l)) = kSlots
  <2>1. map_lblock(d.ino[i], l) \in Own(d, i)
    BY <1>1, MapDir
  <2> QED BY <1>2, <2>1, Zenon DEF EntriesAt
<1>4. \A e \in list_dir(d, i) : \E q \in Spots(d, i) : e = Ent(d, q)
  BY <1>1, ListDir
<1>5. \A e1, e2 \in list_dir(d, i) : e1.name = e2.name => e1 = e2
  BY <1>2, <1>4
<1>6. ASSUME NEW e \in list_dir(d, i), e.name \in Names, d.ino[e.ino].kind = "dir"
      PROVE  Child(d, e.ino, "..") = i
  <2>1. PICK q \in Spots(d, i) : e = Ent(d, q)
    BY <1>4
  <2>2. q \in Named(d, i) /\ IsDir(d, Ent(d, q).ino)
    BY <1>6, <2>1 DEF Named, IsDir
  <2>3. Child(d, Ent(d, q).ino, "..") = i
    BY <2>2, UpIs
  <2> QED BY <2>1, <2>3
<1> QED
  BY <1>3, <1>5, <1>6

LEMMA InvDirs ==
  ASSUME FsInv
  PROVE  DirsWhole
<1>1. disk \in Disks /\ Rooted(disk)
  BY InvFacts
<1>2. Reach \subseteq Linked(disk)
  BY ReachLinked
<1> HIDE DEF Reach
<1> SUFFICES ASSUME NEW i \in Reach, disk.ino[i].kind = "dir"
             PROVE  /\ \A l \in 0 .. NumBlocks(disk.ino[i]) - 1 :
                         /\ disk.blk[map_lblock(disk.ino[i], l)].use = "dir"
                         /\ Room(EntriesAt(disk, i, l)) = kSlots
                    /\ \A e1, e2 \in list_dir(disk, i) : e1.name = e2.name => e1 = e2
                    /\ \A e \in list_dir(disk, i) :
                         e.name \in Names /\ disk.ino[e.ino].kind = "dir" => Child(disk, e.ino, "..") = i
  BY Zenon DEF DirsWhole
<1>3. i \in Linked(disk) /\ IsDir(disk, i)
  BY <1>2 DEF IsDir
<1> QED
  BY <1>1, <1>3, DirWhole

\* The blocks of every directory stay lists of entries that fill them, one name once,
\* and ".." leads back to where the directory was found, wherever a call stopped and
\* whatever was written through descriptors (dir_add_entry, mkdir, rm).
THEOREM DirsWholeAlways == Spec => []DirsWhole
<1>1. FsInv => DirsWhole
  BY InvDirs
<1> QED
  BY <1>1, FsInvAlways, PTL
=============================================================================
