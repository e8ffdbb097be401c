---------------------------- MODULE SpaceProofs ----------------------------
(***************************************************************************)
(* Theorems about Space, for any number of processes, frames and regions.  *)
(***************************************************************************)
EXTENDS Space, FiniteSetTheorems, NaturalsInduction, TLAPS

-----------------------------------------------------------------------------
(* The inductive invariant: what is in the frames, what the processes have *)
(* of it.                                                                  *)

\* What a frame holds is one of six kinds of things.
Cell(c) ==
  /\ c.use \in {"free", "data", "table", "group", "space", "kstack"}
  /\ c.use = "free" => c = Free
  /\ c.use = "kstack" => c = Kstack
  /\ c.use = "data" => c.val \in Val /\ c = Data(c.val)
  /\ c.use = "table" => c.ent \in [Region -> Entries \cup {NoEntry}] /\ c = Table(c.ent)
  /\ c.use = "group" => c.pt \in Frames /\ c.refs \in Nat \ {0} /\ c = Group(c.pt, c.refs)
  /\ c.use = "space" => c.pt \in 0 .. kFrames /\ c.cow \in 0 .. kFrames /\ c = SpaceAt(c.pt, c.cow)

OfFrames(m) == m = [f \in Frames |-> m[f]]
CellsOK(m) == OfFrames(m) /\ \A f \in Frames : Cell(m[f])

\* A space has tables and, if it has one, a group that is there.
SpacesOK(m) ==
  \A s \in Frames : m[s].use = "space" =>
    /\ m[s].pt # 0 => m[m[s].pt].use = "table"
    /\ m[s].cow # 0 => m[s].pt # 0 /\ m[m[s].cow].use = "group"

\* A group has tables of its own that nobody writes through.
GroupsOK(m) ==
  \A g \in Frames : m[g].use = "group" =>
    /\ m[m[g].pt].use = "table"
    /\ \A r \in Region : ~m[m[g].pt].ent[r].w
    /\ \A h \in Frames : m[h].use = "group" /\ m[h].pt = m[g].pt => h = g

\* Tables are shared within a group only, and only by spaces that are in it.
SharesOK(m) ==
  \A s \in Frames : m[s].use = "space" =>
    /\ \A t \in Frames \ {s} : m[t].use = "space" /\ m[t].pt = m[s].pt /\ m[s].pt # 0 =>
         m[s].cow # 0 /\ m[s].pt = m[m[s].cow].pt
    /\ \A g \in Frames : m[g].use = "group" /\ m[g].pt = m[s].pt => m[s].cow = g

Members(m, g) == {s \in Frames : m[s].use = "space" /\ m[s].cow = g}
CountOK(m) == \A g \in Frames : m[g].use = "group" => m[g].refs = Cardinality(Members(m, g))

MemOK(m) == CellsOK(m) /\ SpacesOK(m) /\ GroupsOK(m) /\ SharesOK(m) /\ CountOK(m)

PresentIn(T) == {p \in Pids : T[p].state # "free"}
Ent(m, T, p, r) == m[m[T[p].sp].pt].ent[r]

\* A process has a space and a kernel stack (process 1 none) to itself.
HoldOK(m, T) ==
  \A p \in PresentIn(T) :
    /\ T[p].sp \in Frames /\ m[T[p].sp].use = "space" /\ m[T[p].sp].pt # 0
    /\ T[p].kstack # 0 => m[T[p].kstack].use = "kstack"
    /\ \A q \in PresentIn(T) \ {p} :
         T[q].sp # T[p].sp /\ (T[p].kstack # 0 => T[q].kstack # T[p].kstack)

\* It has its pages, and alone the ones it may write.
PagesOK(m, T) ==
  \A p \in PresentIn(T), r \in Region :
    Ent(m, T, p, r) \in Entries /\ m[Ent(m, T, p, r).frame].use = "data"
OnceOK(m, T) ==
  \A p, q \in PresentIn(T), r, s \in Region :
    Ent(m, T, p, r).w /\ Ent(m, T, q, s).frame = Ent(m, T, p, r).frame => q = p /\ s = r

\* The image it was given, its own or its parent's, is there; whoever maps a frame of
\* it was given the same image.
BasesOK(m, T) ==
  \A p \in PresentIn(T), r \in Region :
    /\ T[p].base[r] \in Frames /\ m[T[p].base[r]].use = "data"
    /\ \A q \in PresentIn(T), s \in Region :
         /\ Ent(m, T, q, s).frame = T[p].base[r] => T[q].base = T[p].base
         /\ T[p].owns /\ T[q].owns /\ T[q].base[s] = T[p].base[r] => q = p

\* The image of a process that does not own it is that of its parent, which is still
\* there; following the parents leads to an owner.
Sharers(T) == {p \in PresentIn(T) : ~T[p].owns}
FamilyOK(T) ==
  /\ \A c \in Sharers(T) : T[c].ppid \in PresentIn(T) /\ T[c].base = T[T[c].ppid].base
  /\ \A X \in SUBSET Sharers(T) : X # {} => \E c \in X : T[c].ppid \notin X

\* Nobody shares the image of a dead process.
DeadOK(T) == \A p \in Pids : T[p].state = "dead" => \A c \in Sharers(T) : T[c].ppid # p

HeldOK(m, T) == HoldOK(m, T) /\ PagesOK(m, T) /\ OnceOK(m, T) /\ BasesOK(m, T)
TableOK(T) == T \in [Pids -> Tasks] /\ FamilyOK(T) /\ DeadOK(T)

\* The CPU follows the current process, and of the others at most one is dead.
SpaceInv ==
  /\ MemOK(mem) /\ TableOK(task) /\ HeldOK(mem, task)
  /\ current \in Pids /\ task[current].state # "free" /\ forks \in 0 .. MaxForks
  /\ tlb \in [Region -> Entries \cup {NoEntry}]
  /\ CpuFollows
  /\ \A p, q \in Pids \ {current} : task[p].state = "dead" /\ task[q].state = "dead" => q = p
-----------------------------------------------------------------------------
(* Numbers                                                                 *)

\* The least number of a set.
LEMMA Least ==
  ASSUME NEW S, S \subseteq Nat, S # {}
  PROVE  Min(S) \in S /\ \A y \in S : Min(S) <= y
<1>1. IsWellFoundedOn(OpToRel(<, Nat), Nat)
  BY NatLessThanWellFounded
<1>2. PICK n \in S : \A y \in S : ~(<<y, n>> \in OpToRel(<, Nat))
  BY <1>1, WFMin
<1>3. \A y \in S : n <= y
  <2> SUFFICES ASSUME NEW y \in S, ~(n <= y) PROVE FALSE
    OBVIOUS
  <2>1. <<y, n>> \in OpToRel(<, Nat)
    BY DEF OpToRel
  <2> QED
    BY <1>2, <2>1
<1> QED
  BY <1>3 DEF Min

\* A set that holds 0, and with a number the next one, holds all up to L.
LEMMA UpTo ==
  ASSUME NEW L \in Nat, NEW S, 0 \in S, \A n \in 1 .. L : n - 1 \in S => n \in S
  PROVE  \A n \in 0 .. L : n \in S
<1> DEFINE B == {n \in 0 .. L : n \notin S}
<1> SUFFICES ASSUME B # {} PROVE FALSE
  OBVIOUS
<1>1. B \subseteq Nat
  OBVIOUS
<1> DEFINE n == Min(B)
<1> HIDE DEF n
<1>2. n \in B /\ \A y \in B : n <= y
  BY <1>1, Least DEF n
<1>3. n \in 1 .. L
  BY <1>2
<1>4. n - 1 \notin B
  BY <1>2, <1>3
<1> QED
  BY <1>2, <1>3, <1>4

\* The elements of a finite set of numbers that come before f.
Below(S, f) == {e \in S : e < f}

\* There is one with n before it, if there are more than n.
LEMMA Ranked ==
  ASSUME NEW S, S \subseteq Nat, IsFiniteSet(S), NEW L \in Nat, L < Cardinality(S)
  PROVE  \A n \in 0 .. L : \E f \in S : Cardinality(Below(S, f)) = n
<1> DEFINE Q == {n \in 0 .. L : \E f \in S : Cardinality(Below(S, f)) = n}
<1>1. Cardinality(S) \in Nat
  BY FS_CardinalityType
<1>2. 0 \in Q
  <2>1. S # {}
    BY <1>1, FS_EmptySet
  <2> DEFINE f == Min(S)
  <2> HIDE DEF f
  <2>2. f \in S /\ \A y \in S : f <= y
    BY <2>1, Least DEF f
  <2>3. Below(S, f) = {}
    <3>1. \A y \in S : y \in Nat /\ f \in Nat /\ ~(y < f)
      BY <2>2
    <3> QED
      BY <3>1 DEF Below
  <2>4. Cardinality(Below(S, f)) = 0
    BY <2>3, FS_EmptySet
  <2>5. 0 \in 0 .. L
    OBVIOUS
  <2> QED
    BY <2>2, <2>4, <2>5
<1>3. ASSUME NEW n \in 1 .. L, n - 1 \in Q PROVE n \in Q
  <2>1. PICK f \in S : Cardinality(Below(S, f)) = n - 1
    BY <1>3
  <2> DEFINE A == Below(S, f) \cup {f}
             C == S \ A
  <2>2. Below(S, f) \in SUBSET S /\ f \notin Below(S, f) /\ f \in Nat
    BY DEF Below
  <2>3. IsFiniteSet(Below(S, f))
    BY <2>2, FS_Subset
  <2>4. IsFiniteSet(A) /\ Cardinality(A) = Cardinality(Below(S, f)) + 1
    BY <2>2, <2>3, FS_AddElement
  <2>5. Cardinality(A) = n
    BY <2>1, <2>4
  <2>6. C # {}
    <3>1. SUFFICES ASSUME C = {} PROVE FALSE
      OBVIOUS
    <3>2. A = S
      BY <2>2, <3>1
    <3> QED
      BY <1>1, <2>5, <3>2
  <2> DEFINE h == Min(C)
  <2> HIDE DEF h
  <2>7. h \in C /\ \A y \in C : h <= y
    <3>1. C \subseteq Nat
      OBVIOUS
    <3> HIDE DEF C
    <3> QED
      BY <2>6, <3>1, Least DEF h
  <2>8. h \in S /\ h \in Nat /\ f < h
    BY <2>2, <2>7 DEF Below
  <2>9. Below(S, h) = A
    <3>1. ASSUME NEW e \in S, e < h PROVE e \in A
      BY <2>7, <2>8, <3>1
    <3>2. ASSUME NEW e \in A PROVE e \in S /\ e < h
      <4>1. e \in S /\ e \in Nat /\ e <= f
        BY <2>2, <3>2 DEF Below
      <4> QED
        BY <2>2, <2>8, <4>1
    <3> HIDE DEF A
    <3> QED
      BY <3>1, <3>2 DEF Below
  <2> HIDE DEF A
  <2>10. h \in S /\ Cardinality(Below(S, h)) = n
    BY <2>5, <2>8, <2>9
  <2> QED
    BY <2>10
<1> HIDE DEF Q
<1>4. \A n \in 0 .. L : n \in Q
  BY <1>2, <1>3, UpTo
<1> QED
  BY <1>4 DEF Q

-----------------------------------------------------------------------------
(* Frames                                                                  *)

\* What the kinds of cells are made of.
LEMMA Shapes ==
  /\ Free.use = "free" /\ Kstack.use = "kstack"
  /\ \A v : Data(v).use = "data" /\ Data(v).val = v
  /\ \A e : Table(e).use = "table" /\ Table(e).ent = e
  /\ \A p, n : Group(p, n).use = "group" /\ Group(p, n).pt = p /\ Group(p, n).refs = n
  /\ \A p, g : SpaceAt(p, g).use = "space" /\ SpaceAt(p, g).pt = p /\ SpaceAt(p, g).cow = g
BY DEF Free, Kstack, Data, Table, Group, SpaceAt

\* They are cells.
LEMMA MadeCells ==
  /\ Cell(Free) /\ Cell(Kstack)
  /\ \A v \in Val : Cell(Data(v))
  /\ \A e \in [Region -> Entries \cup {NoEntry}] : Cell(Table(e))
  /\ \A p \in Frames, n \in Nat \ {0} : Cell(Group(p, n))
  /\ \A p, g \in 0 .. kFrames : Cell(SpaceAt(p, g))
BY Shapes DEF Cell

\* A cell of a kind is one that was made that way.
LEMMA CellShapes ==
  ASSUME NEW c, Cell(c)
  PROVE  /\ c.use \in {"free", "data", "table", "group", "space", "kstack"}
         /\ c.use = "free" => c = Free
         /\ c.use = "data" => c.val \in Val /\ c = Data(c.val)
         /\ c.use = "table" => c.ent \in [Region -> Entries \cup {NoEntry}] /\ c = Table(c.ent)
         /\ c.use = "group" => c.pt \in Frames /\ c.refs \in Nat \ {0} /\ c = Group(c.pt, c.refs)
         /\ c.use = "space" => c.pt \in 0 .. kFrames /\ c.cow \in 0 .. kFrames
                               /\ c = SpaceAt(c.pt, c.cow)
BY DEF Cell

\* A space and tables that were only just made.
LEMMA EmptyShapes ==
  /\ NoSpace = SpaceAt(0, 0)
  /\ \E e \in [Region -> Entries \cup {NoEntry}] : EmptyTable = Table(e)
BY DEF NoSpace, SpaceAt, EmptyTable

\* There are finitely many frames, and 0 is none.
LEMMA FramesFinite ==
  /\ kFrames \in Nat /\ Frames \subseteq Nat \ {0} /\ 0 \notin Frames /\ IsFiniteSet(Frames)
  /\ \A n : n \in Frames <=> n \in 0 .. kFrames /\ n # 0
<1>1. kFrames \in Nat
  BY SpaceAssumption
<1>2. IsFiniteSet(Frames)
  BY <1>1, FS_Interval DEF Frames
<1> QED
  BY <1>1, <1>2 DEF Frames

\* The free ones can be counted.
LEMMA UnusedFinite ==
  ASSUME NEW m
  PROVE  Unused(m) \subseteq Frames /\ IsFiniteSet(Unused(m)) /\ Cardinality(Unused(m)) \in Nat
<1>1. Unused(m) \in SUBSET Frames
  BY DEF Unused
<1>2. IsFiniteSet(Unused(m))
  BY <1>1, FramesFinite, FS_Subset
<1> QED
  BY <1>1, <1>2, FS_CardinalityType

\* kframe_alloc() gives a frame that is free.
LEMMA Alloc ==
  ASSUME NEW m, NEW n \in Nat, n >= 1, Room(m, n)
  PROVE  kframe_alloc(m) \in Frames /\ m[kframe_alloc(m)].use = "free"
<1>1. Cardinality(Unused(m)) >= n /\ Cardinality(Unused(m)) \in Nat /\ IsFiniteSet(Unused(m))
  BY UnusedFinite DEF Room
<1>2. Unused(m) # {}
  BY <1>1, FS_EmptySet
<1>3. Unused(m) \subseteq Nat
  BY UnusedFinite, FramesFinite
<1>4. Min(Unused(m)) \in Unused(m)
  BY <1>2, <1>3, Least
<1> QED
  BY <1>4 DEF kframe_alloc, Unused

\* Using a free frame leaves room for one less.
LEMMA RoomLess ==
  ASSUME NEW m, NEW k, NEW f \in Frames, m[f].use = "free", k[f].use # "free",
         \A e \in Frames \ {f} : k[e] = m[e],
         NEW n \in Nat
  PROVE  Room(m, n + 1) <=> Room(k, n)
<1>1. Unused(k) = Unused(m) \ {f} /\ f \in Unused(m)
  BY DEF Unused
<1>2. Cardinality(Unused(k)) = Cardinality(Unused(m)) - 1
  BY <1>1, UnusedFinite, FS_RemoveElement
<1>3. Cardinality(Unused(k)) \in Nat /\ Cardinality(Unused(m)) \in Nat
  BY UnusedFinite
<1> QED
  BY <1>2, <1>3 DEF Room

\* give_frames() gives every region a free frame of its own.
LEMMA Give ==
  ASSUME NEW m, Room(m, kRegions)
  PROVE  /\ give_frames(m) \in [Region -> Frames]
         /\ \A r \in Region : m[give_frames(m)[r]].use = "free"
         /\ \A r, s \in Region : give_frames(m)[r] = give_frames(m)[s] => r = s
<1> DEFINE S == Unused(m)
           b == give_frames(m)
<1>1. S \subseteq Nat /\ S \subseteq Frames /\ IsFiniteSet(S) /\ Cardinality(S) \in Nat
  BY UnusedFinite, FramesFinite
<1>2. kRegions \in Nat \ {0}
  BY SpaceAssumption
<1>3. kRegions - 1 \in Nat /\ kRegions - 1 < Cardinality(S)
  BY <1>1, <1>2 DEF Room
<1>4. \A n \in 0 .. kRegions - 1 : \E f \in S : Cardinality(Below(S, f)) = n
  <2> HIDE DEF S
  <2> QED
    BY <1>1, <1>3, Ranked
<1>5. ASSUME NEW r \in Region
      PROVE  b[r] \in S /\ Cardinality(Below(S, b[r])) = r - 1
  <2>1. r - 1 \in 0 .. kRegions - 1
    BY <1>2 DEF Region
  <2>2. \E f \in S : Cardinality(Below(S, f)) = r - 1
    BY <1>4, <2>1
  <2>3. b[r] = CHOOSE f \in S : Cardinality(Below(S, f)) = r - 1
    BY DEF give_frames, Below
  <2> HIDE DEF S, b
  <2> QED
    BY <2>2, <2>3
<1>6. b \in [Region -> Frames]
  <2>1. b = [r \in Region |-> b[r]]
    BY DEF give_frames
  <2>2. \A r \in Region : b[r] \in Frames
    BY <1>1, <1>5
  <2> HIDE DEF b
  <2> QED
    BY <2>1, <2>2
<1>7. ASSUME NEW r \in Region, NEW s \in Region, b[r] = b[s] PROVE r = s
  <2>1. r - 1 = s - 1
    BY <1>5, <1>7
  <2> QED
    BY <2>1, <1>2 DEF Region
<1>8. ASSUME NEW r \in Region PROVE m[b[r]].use = "free"
  BY <1>5 DEF Unused
<1> QED
  BY <1>6, <1>7, <1>8

-----------------------------------------------------------------------------
(* What the operators of paging.cpp do to the frames                       *)

\* The members of a group can be counted.
LEMMA MembersFinite ==
  ASSUME NEW m, NEW g
  PROVE  Members(m, g) \subseteq Frames /\ IsFiniteSet(Members(m, g))
         /\ Cardinality(Members(m, g)) \in Nat
<1>1. Members(m, g) \in SUBSET Frames
  BY DEF Members
<1>2. IsFiniteSet(Members(m, g))
  BY <1>1, FramesFinite, FS_Subset
<1> QED
  BY <1>1, <1>2, FS_CardinalityType

\* kfree() frees frames.
LEMMA Freed ==
  ASSUME NEW m, CellsOK(m), NEW S
  PROVE  /\ CellsOK(kfree(m, S))
         /\ \A f \in Frames : kfree(m, S)[f] = IF f \in S THEN Free ELSE m[f]
<1>1. \A f \in Frames : kfree(m, S)[f] = IF f \in S THEN Free ELSE m[f]
  BY DEF kfree
<1>2. OfFrames(kfree(m, S))
  BY DEF kfree, OfFrames
<1>3. \A f \in Frames : Cell(kfree(m, S)[f])
  BY <1>1, MadeCells DEF CellsOK
<1> QED
  BY <1>1, <1>2, <1>3 DEF CellsOK

\* What MemOK says of one space.
LEMMA OfSpace ==
  ASSUME NEW m, MemOK(m), NEW s \in Frames, m[s].use = "space"
  PROVE  /\ m[s] = SpaceAt(m[s].pt, m[s].cow)
         /\ m[s].pt # 0 => m[s].pt \in Frames /\ m[m[s].pt].use = "table"
         /\ m[s].cow # 0 => /\ m[s].cow \in Frames /\ m[m[s].cow].use = "group"
                            /\ m[s].pt # 0
BY CellShapes, FramesFinite DEF MemOK, CellsOK, SpacesOK

\* The same of a group.
LEMMA OfGroup ==
  ASSUME NEW m, MemOK(m), NEW g \in Frames, m[g].use = "group"
  PROVE  /\ m[g] = Group(m[g].pt, m[g].refs) /\ m[g].refs \in Nat \ {0}
         /\ m[g].pt \in Frames /\ m[m[g].pt].use = "table"
         /\ m[g].refs = Cardinality(Members(m, g))
BY CellShapes, FramesFinite DEF MemOK, CellsOK, GroupsOK, CountOK

\* A frame that was free becomes data, a kernel stack or an empty space.
LEMMA NewCell ==
  ASSUME NEW m, MemOK(m), NEW f \in Frames, m[f].use = "free", NEW c, Cell(c),
         c.use \in {"data", "kstack"} \/ c = NoSpace,
         NEW k, k = [m EXCEPT ![f] = c]
  PROVE  MemOK(k)
<1>0. CellsOK(m)
  BY DEF MemOK
<1>1. CellsOK(k) /\ k[f] = c /\ \A e \in Frames \ {f} : k[e] = m[e]
  <2>1. OfFrames(k) /\ k[f] = c /\ \A e \in Frames \ {f} : k[e] = m[e]
    BY <1>0 DEF CellsOK, OfFrames
  <2>2. CellsOK(k)
    BY <1>0, <2>1 DEF CellsOK
  <2> QED
    BY <2>1, <2>2
<1>2. c.use = "space" => c.pt = 0 /\ c.cow = 0
  BY Shapes, EmptyShapes
<1>3. c.use \in {"data", "kstack", "space"}
  BY Shapes, EmptyShapes
<1>4. \A e \in Frames : k[e].use \in {"table", "group"} => e # f /\ k[e] = m[e]
  BY <1>1, <1>3
<1>5. \A e \in Frames : m[e].use \in {"table", "group", "space"} => e # f /\ k[e] = m[e]
  BY <1>1
<1>6. SpacesOK(k)
  BY <1>1, <1>2, <1>5, OfSpace DEF SpacesOK
<1>7. GroupsOK(k)
  BY <1>4, <1>5, OfGroup DEF MemOK, GroupsOK
<1>8. SharesOK(k)
  <2> SUFFICES ASSUME NEW s \in Frames, k[s].use = "space"
      PROVE /\ \A t \in Frames \ {s} : k[t].use = "space" /\ k[t].pt = k[s].pt /\ k[s].pt # 0 =>
                  k[s].cow # 0 /\ k[s].pt = k[k[s].cow].pt
            /\ \A g \in Frames : k[g].use = "group" /\ k[g].pt = k[s].pt => k[s].cow = g
    BY DEF SharesOK
  <2>1. CASE s = f
    <3>1. k[s].pt = 0
      BY <1>1, <1>2, <2>1
    <3> QED
      BY <1>4, <3>1, OfGroup, FramesFinite
  <2>2. CASE s # f
    <3>1. k[s] = m[s]
      BY <1>1, <2>2
    <3>2. \A t \in Frames \ {s} : m[t].use = "space" /\ m[t].pt = m[s].pt /\ m[s].pt # 0 =>
            m[s].cow # 0 /\ m[s].pt = m[m[s].cow].pt /\ m[s].cow \in Frames
            /\ m[m[s].cow].use = "group"
      BY <3>1, OfSpace DEF MemOK, SharesOK
    <3>3. \A t \in Frames \ {s} : k[t].use = "space" /\ k[t].pt = k[s].pt /\ k[s].pt # 0 =>
            t # f /\ k[t] = m[t]
      BY <1>1, <1>2
    <3>4. \A g \in Frames : m[g].use = "group" /\ m[g].pt = m[s].pt => m[s].cow = g
      BY <3>1 DEF MemOK, SharesOK
    <3> QED
      BY <1>4, <1>5, <3>1, <3>2, <3>3, <3>4
  <2> QED
    BY <2>1, <2>2
<1>9. CountOK(k)
  <2> SUFFICES ASSUME NEW g \in Frames, k[g].use = "group"
               PROVE  k[g].refs = Cardinality(Members(k, g))
    BY DEF CountOK
  <2>1. Members(k, g) = Members(m, g)
    BY <1>1, <1>2, FramesFinite DEF Members
  <2>2. k[g] = m[g] /\ m[g].use = "group"
    BY <1>4
  <2> QED
    BY <2>1, <2>2, OfGroup
<1> QED
  BY <1>1, <1>6, <1>7, <1>8, <1>9 DEF MemOK

\* What is in a frame changes: data, free frames that become data, tables of no group.
Fills(m, k) ==
  \A f \in Frames :
    \/ k[f] = m[f]
    \/ m[f].use \in {"free", "data"} /\ k[f].use \in {"data", "kstack"}
    \/ /\ m[f].use = "table" /\ k[f].use = "table"
       /\ \A g \in Frames : m[g].use = "group" => m[g].pt # f

\* The frames stay in order.
LEMMA Filled ==
  ASSUME NEW m, MemOK(m), NEW k, CellsOK(k), Fills(m, k)
  PROVE  MemOK(k)
<1>1. \A f \in Frames : m[f].use \in {"group", "space"} \/ k[f].use \in {"group", "space"} =>
        k[f] = m[f]
  BY DEF Fills
<1>2. \A f \in Frames : m[f].use = "table" => k[f].use = "table"
  BY DEF Fills
<1>3. SpacesOK(k)
  BY <1>1, <1>2, OfSpace DEF SpacesOK
<1>4. GroupsOK(k)
  <2> SUFFICES ASSUME NEW g \in Frames, k[g].use = "group"
      PROVE /\ k[k[g].pt].use = "table"
            /\ \A r \in Region : ~k[k[g].pt].ent[r].w
            /\ \A h \in Frames : k[h].use = "group" /\ k[h].pt = k[g].pt => h = g
    BY DEF GroupsOK
  <2>1. k[g] = m[g] /\ m[g].use = "group" /\ m[g].pt \in Frames /\ m[m[g].pt].use = "table"
    BY <1>1, OfGroup
  <2>2. k[m[g].pt] = m[m[g].pt]
    BY <2>1 DEF Fills
  <2>3. /\ \A r \in Region : ~m[m[g].pt].ent[r].w
        /\ \A h \in Frames : m[h].use = "group" /\ m[h].pt = m[g].pt => h = g
    BY <2>1 DEF MemOK, GroupsOK
  <2> QED
    BY <1>1, <2>1, <2>2, <2>3
<1>5. SharesOK(k)
  <2> SUFFICES ASSUME NEW s \in Frames, k[s].use = "space"
      PROVE /\ \A t \in Frames \ {s} : k[t].use = "space" /\ k[t].pt = k[s].pt /\ k[s].pt # 0 =>
                  k[s].cow # 0 /\ k[s].pt = k[k[s].cow].pt
            /\ \A g \in Frames : k[g].use = "group" /\ k[g].pt = k[s].pt => k[s].cow = g
    BY DEF SharesOK
  <2>1. k[s] = m[s] /\ m[s].use = "space"
    BY <1>1
  <2>2. m[s].cow # 0 => m[s].cow \in Frames /\ k[m[s].cow] = m[m[s].cow]
    BY <1>1, <2>1, OfSpace
  <2>3. \A t \in Frames \ {s} : m[t].use = "space" /\ m[t].pt = m[s].pt /\ m[s].pt # 0 =>
          m[s].cow # 0 /\ m[s].pt = m[m[s].cow].pt
    BY <2>1 DEF MemOK, SharesOK
  <2>4. \A g \in Frames : m[g].use = "group" /\ m[g].pt = m[s].pt => m[s].cow = g
    BY <2>1 DEF MemOK, SharesOK
  <2> QED
    BY <1>1, <2>1, <2>2, <2>3, <2>4
<1>6. CountOK(k)
  <2> SUFFICES ASSUME NEW g \in Frames, k[g].use = "group"
               PROVE  k[g].refs = Cardinality(Members(k, g))
    BY DEF CountOK
  <2>1. Members(k, g) = Members(m, g)
    BY <1>1 DEF Members
  <2>2. k[g] = m[g] /\ m[g].use = "group"
    BY <1>1
  <2> QED
    BY <2>1, <2>2, OfGroup
<1> QED
  BY <1>3, <1>4, <1>5, <1>6 DEF MemOK

\* Frames that nothing outside of D refers to.
Shut(m, D) ==
  /\ \A s \in Frames \ D : m[s].use = "space" => m[s].pt \notin D /\ m[s].cow \notin D
  /\ \A g \in Frames \ D : m[g].use = "group" => m[g].pt \notin D
  /\ \A s \in D \cap Frames : m[s].use = "space" => m[s].cow = 0 \/ m[s].cow \in D

\* They can be freed.
LEMMA Shrinks ==
  ASSUME NEW m, MemOK(m), NEW D, Shut(m, D)
  PROVE  MemOK(kfree(m, D))
<1> DEFINE k == kfree(m, D)
<1>0. CellsOK(m)
  BY DEF MemOK
<1>1. CellsOK(k) /\ \A f \in Frames : k[f] = IF f \in D THEN Free ELSE m[f]
  BY <1>0, Freed
<1> HIDE DEF k
<1>2. \A f \in Frames : k[f].use # "free" => f \notin D /\ k[f] = m[f]
  BY <1>1, Shapes
<1>3. \A f \in Frames : f \notin D => k[f] = m[f]
  BY <1>1
<1>4. SpacesOK(k)
  BY <1>2, <1>3, OfSpace DEF SpacesOK, Shut
<1>5. GroupsOK(k)
  <2> SUFFICES ASSUME NEW g \in Frames, k[g].use = "group"
      PROVE /\ k[k[g].pt].use = "table"
            /\ \A r \in Region : ~k[k[g].pt].ent[r].w
            /\ \A h \in Frames : k[h].use = "group" /\ k[h].pt = k[g].pt => h = g
    BY DEF GroupsOK
  <2>1. k[g] = m[g] /\ m[g].use = "group" /\ m[g].pt \in Frames /\ m[m[g].pt].use = "table"
        /\ g \notin D
    BY <1>2, OfGroup
  <2>2. k[m[g].pt] = m[m[g].pt]
    BY <1>3, <2>1 DEF Shut
  <2>3. /\ \A r \in Region : ~m[m[g].pt].ent[r].w
        /\ \A h \in Frames : m[h].use = "group" /\ m[h].pt = m[g].pt => h = g
    BY <2>1 DEF MemOK, GroupsOK
  <2> QED
    BY <1>2, <2>1, <2>2, <2>3
<1>6. SharesOK(k)
  <2> SUFFICES ASSUME NEW s \in Frames, k[s].use = "space"
      PROVE /\ \A t \in Frames \ {s} : k[t].use = "space" /\ k[t].pt = k[s].pt /\ k[s].pt # 0 =>
                  k[s].cow # 0 /\ k[s].pt = k[k[s].cow].pt
            /\ \A g \in Frames : k[g].use = "group" /\ k[g].pt = k[s].pt => k[s].cow = g
    BY DEF SharesOK
  <2>1. k[s] = m[s] /\ m[s].use = "space" /\ s \notin D
    BY <1>2
  <2>2. m[s].cow # 0 => m[s].cow \in Frames /\ k[m[s].cow] = m[m[s].cow]
    BY <1>3, <2>1, OfSpace DEF Shut
  <2>3. \A t \in Frames \ {s} : m[t].use = "space" /\ m[t].pt = m[s].pt /\ m[s].pt # 0 =>
          m[s].cow # 0 /\ m[s].pt = m[m[s].cow].pt
    BY <2>1 DEF MemOK, SharesOK
  <2>4. \A g \in Frames : m[g].use = "group" /\ m[g].pt = m[s].pt => m[s].cow = g
    BY <2>1 DEF MemOK, SharesOK
  <2> QED
    BY <1>2, <2>1, <2>2, <2>3, <2>4
<1>7. CountOK(k)
  <2> SUFFICES ASSUME NEW g \in Frames, k[g].use = "group"
               PROVE  k[g].refs = Cardinality(Members(k, g))
    BY DEF CountOK
  <2>1. k[g] = m[g] /\ m[g].use = "group" /\ g \notin D /\ g # 0
    BY <1>2, FramesFinite
  <2>2. Members(k, g) = Members(m, g)
    <3>1. ASSUME NEW s \in Frames, m[s].use = "space", m[s].cow = g PROVE s \notin D
      BY <2>1, <3>1 DEF Shut
    <3> QED
      BY <1>2, <1>3, <3>1 DEF Members
  <2> QED
    BY <2>1, <2>2, OfGroup
<1>8. MemOK(k)
  BY <1>1, <1>4, <1>5, <1>6, <1>7 DEF MemOK
<1> QED
  BY <1>8 DEF k

\* A space moves to new tables (space_create, unshare).
LEMMA Moves ==
  ASSUME NEW m, MemOK(m), NEW s \in Frames, m[s].use = "space", NEW pt \in Frames, m[pt].use = "free",
         m[s].pt # 0 \/ m[s].cow = 0,
         NEW e \in [Region -> Entries \cup {NoEntry}],
         NEW k, OfFrames(k), k[s] = SpaceAt(pt, m[s].cow), k[pt] = Table(e),
         \A f \in Frames \ {s, pt} : k[f] = m[f]
  PROVE  MemOK(k)
<1>1. /\ k[s].use = "space" /\ k[s].pt = pt /\ k[s].cow = m[s].cow
      /\ k[pt].use = "table" /\ s # pt /\ pt # 0
  BY Shapes, FramesFinite
<1>2. CellsOK(k)
  <2>1. Cell(k[s]) /\ Cell(k[pt])
    BY MadeCells, CellShapes, FramesFinite DEF MemOK, CellsOK
  <2> QED
    BY <2>1 DEF MemOK, CellsOK
<1>3. \A f \in Frames : k[f].use \in {"group"} \/ m[f].use \in {"group", "table"} => k[f] = m[f]
  BY <1>1
<1>4. \A t \in Frames \ {s} : m[t].use = "space" \/ k[t].use = "space" => k[t] = m[t]
  BY <1>1
<1>5. \A f \in Frames : m[f].use \in {"space", "group"} => m[f].pt # pt
  BY <1>1, OfSpace, OfGroup
<1>6. SpacesOK(k)
  BY <1>1, <1>3, <1>4, OfSpace DEF SpacesOK
<1>7. GroupsOK(k)
  BY <1>3, OfGroup DEF MemOK, GroupsOK
<1>8. SharesOK(k)
  <2> SUFFICES ASSUME NEW t \in Frames, k[t].use = "space"
      PROVE /\ \A u \in Frames \ {t} : k[u].use = "space" /\ k[u].pt = k[t].pt /\ k[t].pt # 0 =>
                  k[t].cow # 0 /\ k[t].pt = k[k[t].cow].pt
            /\ \A g \in Frames : k[g].use = "group" /\ k[g].pt = k[t].pt => k[t].cow = g
    BY DEF SharesOK
  <2>1. CASE t = s
    BY <1>1, <1>3, <1>4, <1>5, <2>1
  <2>2. CASE t # s
    <3>1. k[t] = m[t] /\ m[t].use = "space" /\ m[t].pt # pt
      BY <1>4, <1>5, <2>2
    <3>2. m[t].cow # 0 => m[t].cow \in Frames /\ k[m[t].cow] = m[m[t].cow]
      BY <1>3, <3>1, OfSpace
    <3>3. \A u \in Frames \ {t} : m[u].use = "space" /\ m[u].pt = m[t].pt /\ m[t].pt # 0 =>
            m[t].cow # 0 /\ m[t].pt = m[m[t].cow].pt
      BY <3>1 DEF MemOK, SharesOK
    <3>4. \A g \in Frames : m[g].use = "group" /\ m[g].pt = m[t].pt => m[t].cow = g
      BY <3>1 DEF MemOK, SharesOK
    <3>5. \A u \in Frames \ {t} : k[u].use = "space" /\ k[u].pt = k[t].pt => k[u] = m[u]
      BY <1>1, <1>4, <3>1
    <3> QED
      BY <1>3, <3>1, <3>2, <3>3, <3>4, <3>5
  <2> QED
    BY <2>1, <2>2
<1>9. CountOK(k)
  <2> SUFFICES ASSUME NEW g \in Frames, k[g].use = "group"
               PROVE  k[g].refs = Cardinality(Members(k, g))
    BY DEF CountOK
  <2>1. Members(k, g) = Members(m, g)
    BY <1>1, <1>4 DEF Members
  <2>2. k[g] = m[g] /\ m[g].use = "group"
    BY <1>3
  <2> QED
    BY <2>1, <2>2, OfGroup
<1> QED
  BY <1>2, <1>6, <1>7, <1>8, <1>9 DEF MemOK

\* The tables of a space become those of a new group (space_share_user).
LEMMA Founds ==
  ASSUME NEW m, MemOK(m), NEW s \in Frames, m[s].use = "space", m[s].cow = 0, m[s].pt # 0,
         NEW g \in Frames, m[g].use = "free",
         NEW e \in [Region -> Entries \cup {NoEntry}], \A r \in Region : ~e[r].w,
         NEW k, OfFrames(k), k[s] = SpaceAt(m[s].pt, g), k[g] = Group(m[s].pt, 1),
         k[m[s].pt] = Table(e), \A f \in Frames \ {s, g, m[s].pt} : k[f] = m[f]
  PROVE  MemOK(k)
<1> DEFINE pt == m[s].pt
<1>0. pt \in Frames /\ m[pt].use = "table"
  BY OfSpace
<1>1. /\ k[s].use = "space" /\ k[s].pt = pt /\ k[s].cow = g
      /\ k[g].use = "group" /\ k[g].pt = pt /\ k[g].refs = 1
      /\ k[pt].use = "table" /\ k[pt].ent = e /\ s # pt /\ pt # 0 /\ g # 0 /\ g # s /\ g # pt
  BY <1>0, Shapes, FramesFinite
<1>a. \A f \in Frames \ {s, g, pt} : k[f] = m[f]
  OBVIOUS
<1>2. CellsOK(k)
  <2>1. Cell(k[s]) /\ Cell(k[pt]) /\ Cell(k[g])
    BY <1>0, MadeCells, CellShapes, FramesFinite
  <2> QED
    BY <2>1, <1>a DEF MemOK, CellsOK
<1>b. \A f \in Frames \ {s} : m[f].use \in {"space", "group"} => m[f].pt # pt
  <2>1. \A f \in Frames \ {s} : m[f].use = "space" => m[f].pt # m[s].pt
    BY DEF MemOK, SharesOK
  <2>2. \A f \in Frames : m[f].use = "group" => m[f].pt # m[s].pt
    BY FramesFinite DEF MemOK, SharesOK
  <2> QED
    BY <2>1, <2>2
<1> HIDE DEF pt
<1>3. \A f \in Frames \ {g} : k[f].use = "group" \/ m[f].use = "group" => k[f] = m[f]
  BY <1>0, <1>1, <1>a
<1>4. \A t \in Frames \ {s} : m[t].use = "space" \/ k[t].use = "space" => k[t] = m[t]
  BY <1>0, <1>1, <1>a
<1>5. \A f \in Frames : m[f].use = "table" => k[f].use = "table"
  BY <1>0, <1>1, <1>a
<1>6. SpacesOK(k)
  BY <1>0, <1>1, <1>3, <1>4, <1>5, OfSpace DEF SpacesOK
<1>7. GroupsOK(k)
  <2> SUFFICES ASSUME NEW h \in Frames, k[h].use = "group"
      PROVE /\ k[k[h].pt].use = "table"
            /\ \A r \in Region : ~k[k[h].pt].ent[r].w
            /\ \A i \in Frames : k[i].use = "group" /\ k[i].pt = k[h].pt => i = h
    BY DEF GroupsOK
  <2>1. CASE h = g
    BY <1>1, <1>3, <1>b, <2>1
  <2>2. CASE h # g
    <3>1. k[h] = m[h] /\ m[h].use = "group" /\ m[h].pt \in Frames /\ m[m[h].pt].use = "table"
          /\ m[h].pt # pt
      BY <1>3, <1>b, <2>2, OfGroup
    <3>2. k[m[h].pt] = m[m[h].pt]
      BY <1>a, <3>1
    <3>3. /\ \A r \in Region : ~m[m[h].pt].ent[r].w
          /\ \A i \in Frames : m[i].use = "group" /\ m[i].pt = m[h].pt => i = h
      BY <3>1 DEF MemOK, GroupsOK
    <3> QED
      BY <1>1, <1>3, <3>1, <3>2, <3>3
  <2> QED
    BY <2>1, <2>2
<1>8. SharesOK(k)
  <2> SUFFICES ASSUME NEW t \in Frames, k[t].use = "space"
      PROVE /\ \A u \in Frames \ {t} : k[u].use = "space" /\ k[u].pt = k[t].pt /\ k[t].pt # 0 =>
                  k[t].cow # 0 /\ k[t].pt = k[k[t].cow].pt
            /\ \A h \in Frames : k[h].use = "group" /\ k[h].pt = k[t].pt => k[t].cow = h
    BY DEF SharesOK
  <2>1. CASE t = s
    BY <1>1, <1>3, <1>4, <1>b, <2>1
  <2>2. CASE t # s
    <3>1. k[t] = m[t] /\ m[t].use = "space" /\ m[t].pt # pt
      BY <1>4, <1>b, <2>2
    <3>2. m[t].cow # 0 => m[t].cow \in Frames \ {g} /\ k[m[t].cow] = m[m[t].cow]
      BY <1>3, <3>1, OfSpace
    <3>3. \A u \in Frames \ {t} : m[u].use = "space" /\ m[u].pt = m[t].pt /\ m[t].pt # 0 =>
            m[t].cow # 0 /\ m[t].pt = m[m[t].cow].pt
      BY <3>1 DEF MemOK, SharesOK
    <3>4. \A h \in Frames : m[h].use = "group" /\ m[h].pt = m[t].pt => m[t].cow = h
      BY <3>1 DEF MemOK, SharesOK
    <3>5. \A u \in Frames \ {t} : k[u].use = "space" /\ k[u].pt = k[t].pt => k[u] = m[u]
      BY <1>1, <1>4, <3>1
    <3>6. \A h \in Frames : k[h].use = "group" /\ k[h].pt = k[t].pt => k[h] = m[h]
      BY <1>1, <1>3, <3>1
    <3> QED
      BY <3>1, <3>2, <3>3, <3>4, <3>5, <3>6
  <2> QED
    BY <2>1, <2>2
<1>9. CountOK(k)
  <2> SUFFICES ASSUME NEW h \in Frames, k[h].use = "group"
               PROVE  k[h].refs = Cardinality(Members(k, h))
    BY DEF CountOK
  <2>0. h # 0
    BY FramesFinite
  <2>1. CASE h = g
    <3>1. \A t \in Frames : m[t].use = "space" => m[t].cow # g
      BY <1>1, OfSpace
    <3>2. Members(k, g) = {s}
      BY <1>1, <1>4, <3>1 DEF Members
    <3>3. Cardinality(Members(k, g)) = 1
      BY <3>2, FS_Singleton
    <3> QED
      BY <1>1, <2>1, <3>3
  <2>2. CASE h # g
    <3>1. Members(k, h) = Members(m, h)
      BY <1>1, <1>4, <2>0, <2>2 DEF Members
    <3>2. k[h] = m[h] /\ m[h].use = "group"
      BY <1>3, <2>2
    <3> QED
      BY <3>1, <3>2, OfGroup
  <2> QED
    BY <2>1, <2>2
<1> QED
  BY <1>2, <1>6, <1>7, <1>8, <1>9 DEF MemOK

\* A space that has tables to itself drops them for those of a group.
LEMMA Joins ==
  ASSUME NEW m, MemOK(m), NEW s \in Frames, m[s].use = "space", m[s].cow = 0, m[s].pt # 0,
         NEW g \in Frames, m[g].use = "group",
         NEW k, OfFrames(k), k[s] = SpaceAt(m[g].pt, g), k[g] = Group(m[g].pt, m[g].refs + 1),
         k[m[s].pt] = Free, \A f \in Frames \ {s, g, m[s].pt} : k[f] = m[f]
  PROVE  MemOK(k)
<1> DEFINE pt == m[s].pt
<1>0. /\ pt \in Frames /\ m[pt].use = "table"
      /\ m[g].pt \in Frames /\ m[m[g].pt].use = "table" /\ m[g].refs \in Nat \ {0}
      /\ m[g].refs = Cardinality(Members(m, g))
  BY OfSpace, OfGroup
<1>1. /\ k[s].use = "space" /\ k[s].pt = m[g].pt /\ k[s].cow = g
      /\ k[g].use = "group" /\ k[g].pt = m[g].pt /\ k[g].refs = m[g].refs + 1
      /\ k[pt].use = "free" /\ s # pt /\ pt # 0 /\ g # 0 /\ g # s /\ g # pt
  BY <1>0, Shapes, FramesFinite
<1>a. \A f \in Frames \ {s, g, pt} : k[f] = m[f]
  OBVIOUS
<1>2. CellsOK(k)
  <2>0. m[g].refs + 1 \in Nat \ {0}
    BY <1>0
  <2>1. Cell(k[s]) /\ Cell(k[pt]) /\ Cell(k[g])
    BY <1>0, <2>0, MadeCells, FramesFinite
  <2> QED
    BY <2>1, <1>a DEF MemOK, CellsOK
<1>b. \A f \in Frames \ {s} : m[f].use \in {"space", "group"} => m[f].pt # pt
  <2>1. \A f \in Frames \ {s} : m[f].use = "space" => m[f].pt # m[s].pt
    BY DEF MemOK, SharesOK
  <2>2. \A f \in Frames : m[f].use = "group" => m[f].pt # m[s].pt
    BY FramesFinite DEF MemOK, SharesOK
  <2> QED
    BY <2>1, <2>2
<1>c. m[s].cow = 0
  OBVIOUS
<1> HIDE DEF pt
<1>3. \A f \in Frames : k[f].use = "group" \/ m[f].use = "group" =>
        m[f].use = "group" /\ k[f].use = "group" /\ k[f].pt = m[f].pt /\ (f # g => k[f] = m[f])
  BY <1>0, <1>1, <1>a
<1>4. \A t \in Frames \ {s} : m[t].use = "space" \/ k[t].use = "space" => k[t] = m[t]
  BY <1>0, <1>1, <1>a
<1>5. \A f \in Frames \ {pt} : m[f].use = "table" => k[f] = m[f]
  BY <1>0, <1>1, <1>a
<1>6. SpacesOK(k)
  <2> SUFFICES ASSUME NEW t \in Frames, k[t].use = "space"
      PROVE /\ k[t].pt # 0 => k[k[t].pt].use = "table"
            /\ k[t].cow # 0 => k[t].pt # 0 /\ k[k[t].cow].use = "group"
    BY DEF SpacesOK
  <2>1. CASE t = s
    BY <1>0, <1>1, <1>5, <1>b, <2>1, FramesFinite
  <2>2. CASE t # s
    BY <1>3, <1>4, <1>5, <1>b, <2>2, OfSpace
  <2> QED
    BY <2>1, <2>2
<1>7. GroupsOK(k)
  <2> SUFFICES ASSUME NEW h \in Frames, k[h].use = "group"
      PROVE /\ k[k[h].pt].use = "table"
            /\ \A r \in Region : ~k[k[h].pt].ent[r].w
            /\ \A i \in Frames : k[i].use = "group" /\ k[i].pt = k[h].pt => i = h
    BY DEF GroupsOK
  <2>1. k[h].pt = m[h].pt /\ m[h].use = "group" /\ m[h].pt \in Frames /\ m[m[h].pt].use = "table"
        /\ m[h].pt # pt
    BY <1>1, <1>3, <1>b, OfGroup
  <2>2. k[m[h].pt] = m[m[h].pt]
    BY <1>5, <2>1
  <2>3. /\ \A r \in Region : ~m[m[h].pt].ent[r].w
        /\ \A i \in Frames : m[i].use = "group" /\ m[i].pt = m[h].pt => i = h
    BY <2>1 DEF MemOK, GroupsOK
  <2> QED
    BY <1>3, <2>1, <2>2, <2>3
<1>8. SharesOK(k)
  <2> SUFFICES ASSUME NEW t \in Frames, k[t].use = "space"
      PROVE /\ \A u \in Frames \ {t} : k[u].use = "space" /\ k[u].pt = k[t].pt /\ k[t].pt # 0 =>
                  k[t].cow # 0 /\ k[t].pt = k[k[t].cow].pt
            /\ \A h \in Frames : k[h].use = "group" /\ k[h].pt = k[t].pt => k[t].cow = h
    BY DEF SharesOK
  <2>0. \A h \in Frames : m[h].use = "group" /\ m[h].pt = m[g].pt => h = g
    BY <1>0 DEF MemOK, GroupsOK
  <2>1. CASE t = s
    BY <1>1, <1>3, <2>0, <2>1
  <2>2. CASE t # s
    <3>1. k[t] = m[t] /\ m[t].use = "space"
      BY <1>4, <2>2
    <3>2. m[t].cow # 0 => m[t].cow \in Frames /\ k[m[t].cow].pt = m[m[t].cow].pt
      BY <1>3, <3>1, OfSpace
    <3>3. \A u \in Frames \ {t} : m[u].use = "space" /\ m[u].pt = m[t].pt /\ m[t].pt # 0 =>
            m[t].cow # 0 /\ m[t].pt = m[m[t].cow].pt
      BY <3>1 DEF MemOK, SharesOK
    <3>4. \A h \in Frames : m[h].use = "group" /\ m[h].pt = m[t].pt => m[t].cow = h
      BY <3>1 DEF MemOK, SharesOK
    <3>5. ASSUME NEW u \in Frames \ {t}, k[u].use = "space", k[u].pt = k[t].pt, k[t].pt # 0
          PROVE  k[t].cow # 0 /\ k[t].pt = k[k[t].cow].pt
      <4>1. CASE u = s
        <5>1. m[t].pt = m[g].pt
          BY <1>1, <3>1, <3>5, <4>1
        <5>2. m[t].cow = g
          BY <3>4, <5>1
        <5> QED
          BY <1>1, <3>1, <5>1, <5>2
      <4>2. CASE u # s
        BY <1>4, <3>1, <3>2, <3>3, <3>5, <4>2
      <4> QED
        BY <4>1, <4>2
    <3> QED
      BY <1>3, <3>1, <3>4, <3>5
  <2> QED
    BY <2>1, <2>2
<1>9. CountOK(k)
  <2> SUFFICES ASSUME NEW h \in Frames, k[h].use = "group"
               PROVE  k[h].refs = Cardinality(Members(k, h))
    BY DEF CountOK
  <2>1. CASE h = g
    <3>1. Members(k, g) = Members(m, g) \cup {s} /\ s \notin Members(m, g)
      BY <1>1, <1>4, <1>c DEF Members
    <3>2. IsFiniteSet(Members(m, g)) /\ Cardinality(Members(m, g)) \in Nat
      BY MembersFinite
    <3>3. Cardinality(Members(k, g)) = Cardinality(Members(m, g)) + 1
      BY <3>1, <3>2, FS_AddElement
    <3> QED
      BY <1>0, <1>1, <2>1, <3>3
  <2>2. CASE h # g
    <3>0. h # 0
      BY FramesFinite
    <3>1. Members(k, h) = Members(m, h)
      BY <1>1, <1>4, <1>c, <3>0, <2>2 DEF Members
    <3>2. k[h] = m[h] /\ m[h].use = "group"
      BY <1>3, <2>2
    <3> QED
      BY <3>1, <3>2, OfGroup
  <2> QED
    BY <2>1, <2>2
<1> QED
  BY <1>2, <1>6, <1>7, <1>8, <1>9 DEF MemOK

\* A group is one member short, and has others.
LEMMA Lessens ==
  ASSUME NEW m, MemOK(m), NEW s \in Frames, m[s].use = "space",
         NEW g \in Frames, m[s].cow = g, m[g].refs # 1,
         NEW k, OfFrames(k), k[s] = Free \/ (m[s].pt # m[g].pt /\ k[s] = SpaceAt(m[s].pt, 0)),
         k[g] = Group(m[g].pt, m[g].refs - 1), \A f \in Frames \ {s, g} : k[f] = m[f]
  PROVE  MemOK(k)
<1>0. /\ g # 0 /\ m[g].use = "group" /\ m[s].pt \in Frames /\ m[m[s].pt].use = "table"
      /\ m[g].pt \in Frames /\ m[m[g].pt].use = "table" /\ m[g].refs \in Nat \ {0}
      /\ m[g].refs = Cardinality(Members(m, g))
  BY OfSpace, OfGroup, FramesFinite
<1>1. /\ k[s].use = "free" \/ (k[s].use = "space" /\ k[s].pt = m[s].pt /\ k[s].cow = 0
                                /\ m[s].pt # m[g].pt)
      /\ k[g].use = "group" /\ k[g].pt = m[g].pt /\ k[g].refs = m[g].refs - 1 /\ g # s
  BY <1>0, Shapes
<1>a. \A f \in Frames \ {s, g} : k[f] = m[f]
  OBVIOUS
<1>2. CellsOK(k)
  <2>0. m[g].refs - 1 \in Nat \ {0}
    BY <1>0
  <2>1. Cell(k[s]) /\ Cell(k[g])
    BY <1>0, <2>0, MadeCells, FramesFinite
  <2> QED
    BY <2>1, <1>a DEF MemOK, CellsOK
<1>c. m[s].cow = g /\ m[s].use = "space"
  OBVIOUS
<1>3. \A f \in Frames : k[f].use = "group" \/ m[f].use = "group" =>
        m[f].use = "group" /\ k[f].use = "group" /\ k[f].pt = m[f].pt /\ (f # g => k[f] = m[f])
  BY <1>0, <1>1, <1>a
<1>4. \A t \in Frames \ {s} : m[t].use = "space" \/ k[t].use = "space" => k[t] = m[t]
  BY <1>0, <1>1, <1>a
<1>5. \A f \in Frames : m[f].use = "table" => k[f] = m[f]
  BY <1>0, <1>1, <1>a
<1>6. SpacesOK(k)
  BY <1>0, <1>1, <1>3, <1>4, <1>5, OfSpace DEF SpacesOK
<1>7. GroupsOK(k)
  <2> SUFFICES ASSUME NEW h \in Frames, k[h].use = "group"
      PROVE /\ k[k[h].pt].use = "table"
            /\ \A r \in Region : ~k[k[h].pt].ent[r].w
            /\ \A i \in Frames : k[i].use = "group" /\ k[i].pt = k[h].pt => i = h
    BY DEF GroupsOK
  <2>1. k[h].pt = m[h].pt /\ m[h].use = "group" /\ m[h].pt \in Frames /\ m[m[h].pt].use = "table"
    BY <1>1, <1>3, OfGroup
  <2>2. k[m[h].pt] = m[m[h].pt]
    BY <1>5, <2>1
  <2>3. /\ \A r \in Region : ~m[m[h].pt].ent[r].w
        /\ \A i \in Frames : m[i].use = "group" /\ m[i].pt = m[h].pt => i = h
    BY <2>1 DEF MemOK, GroupsOK
  <2> QED
    BY <1>3, <2>1, <2>2, <2>3
<1>8. SharesOK(k)
  <2> SUFFICES ASSUME NEW t \in Frames, k[t].use = "space"
      PROVE /\ \A u \in Frames \ {t} : k[u].use = "space" /\ k[u].pt = k[t].pt /\ k[t].pt # 0 =>
                  k[t].cow # 0 /\ k[t].pt = k[k[t].cow].pt
            /\ \A h \in Frames : k[h].use = "group" /\ k[h].pt = k[t].pt => k[t].cow = h
    BY DEF SharesOK
  <2>0. m[t].use = "space" /\ k[t].pt = m[t].pt
    BY <1>1, <1>4, <1>c
  <2>1. \A u \in Frames \ {t} : m[u].use = "space" /\ m[u].pt = m[t].pt /\ m[t].pt # 0 =>
          m[t].cow # 0 /\ m[t].pt = m[m[t].cow].pt
    BY <2>0 DEF MemOK, SharesOK
  <2>2. \A h \in Frames : m[h].use = "group" /\ m[h].pt = m[t].pt => m[t].cow = h
    BY <2>0 DEF MemOK, SharesOK
  <2>3. \A u \in Frames : k[u].use = "space" => m[u].use = "space" /\ k[u].pt = m[u].pt
    BY <1>1, <1>4, <1>c
  <2>4. CASE t = s
    <3>1. m[t].pt # m[g].pt /\ m[t].cow = g
      BY <1>1, <1>c, <2>4
    <3> QED
      BY <1>3, <2>0, <2>1, <2>2, <2>3, <3>1
  <2>5. CASE t # s
    <3>1. k[t] = m[t]
      BY <1>4, <2>5
    <3>2. m[t].cow # 0 => m[t].cow \in Frames /\ k[m[t].cow].pt = m[m[t].cow].pt
      BY <1>3, <2>0, OfSpace
    <3> QED
      BY <1>3, <2>0, <2>1, <2>2, <2>3, <3>1, <3>2
  <2> QED
    BY <2>4, <2>5
<1>9. CountOK(k)
  <2> SUFFICES ASSUME NEW h \in Frames, k[h].use = "group"
               PROVE  k[h].refs = Cardinality(Members(k, h))
    BY DEF CountOK
  <2>1. CASE h = g
    <3>1. Members(k, g) = Members(m, g) \ {s} /\ s \in Members(m, g)
      BY <1>0, <1>1, <1>4, <1>c DEF Members
    <3>2. IsFiniteSet(Members(m, g)) /\ Cardinality(Members(m, g)) \in Nat
      BY MembersFinite
    <3>3. Cardinality(Members(k, g)) = Cardinality(Members(m, g)) - 1
      BY <3>1, <3>2, FS_RemoveElement
    <3> QED
      BY <1>0, <1>1, <2>1, <3>3
  <2>2. CASE h # g
    <3>0. h # 0
      BY FramesFinite
    <3>1. Members(k, h) = Members(m, h)
      BY <1>1, <1>4, <1>c, <3>0, <2>2 DEF Members
    <3>2. k[h] = m[h] /\ m[h].use = "group"
      BY <1>3, <2>2
    <3> QED
      BY <3>1, <3>2, OfGroup
  <2> QED
    BY <2>1, <2>2
<1> QED
  BY <1>2, <1>6, <1>7, <1>8, <1>9 DEF MemOK

\* The only member of a group.
LEMMA OnlyMember ==
  ASSUME NEW m, MemOK(m), NEW s \in Frames, m[s].use = "space",
         NEW g \in Frames, m[s].cow = g, m[g].refs = 1
  PROVE  \A t \in Frames : m[t].use = "space" /\ m[t].cow = g => t = s
<1>1. g # 0 /\ m[g].use = "group"
  BY OfSpace, FramesFinite
<1>2. Cardinality(Members(m, g)) = 1 /\ IsFiniteSet(Members(m, g))
  BY <1>1, OfGroup, MembersFinite
<1>3. PICK x : Members(m, g) = {x}
  BY <1>2, FS_Singleton
<1> QED
  BY <1>3 DEF Members

\* The last member, which has tables of its own, leaves: the group is gone.
LEMMA Dissolves ==
  ASSUME NEW m, MemOK(m), NEW s \in Frames, m[s].use = "space",
         NEW g \in Frames, m[s].cow = g, m[g].refs = 1, m[s].pt # m[g].pt,
         NEW k, OfFrames(k), k[s] = SpaceAt(m[s].pt, 0), k[g] = Free, k[m[g].pt] = Free,
         \A f \in Frames \ {s, g, m[g].pt} : k[f] = m[f]
  PROVE  MemOK(k)
<1> DEFINE pt == m[g].pt
<1>0. /\ g # 0 /\ m[g].use = "group" /\ m[s].pt \in Frames /\ m[m[s].pt].use = "table"
      /\ pt \in Frames /\ m[pt].use = "table"
  BY OfSpace, OfGroup, FramesFinite
<1>1. /\ k[s].use = "space" /\ k[s].pt = m[s].pt /\ k[s].cow = 0 /\ m[s].pt # pt
      /\ k[g].use = "free" /\ k[pt].use = "free" /\ g # s /\ g # pt /\ s # pt
  BY <1>0, Shapes
<1>a. \A f \in Frames \ {s, g, pt} : k[f] = m[f]
  OBVIOUS
<1>b. \A t \in Frames : m[t].use = "space" /\ m[t].cow = g => t = s
  BY OnlyMember
<1>2. CellsOK(k)
  <2>1. Cell(k[s]) /\ Cell(k[g]) /\ Cell(k[pt])
    BY <1>0, MadeCells, FramesFinite
  <2> QED
    BY <2>1, <1>a DEF MemOK, CellsOK
<1>c. m[s].cow = g /\ m[s].use = "space"
  OBVIOUS
<1>d. \A t \in Frames \ {s} : m[t].use = "space" => m[t].pt # pt
  BY <1>0, <1>b DEF MemOK, SharesOK
<1>e. \A h \in Frames \ {g} : m[h].use = "group" => m[h].pt # pt
  BY <1>0 DEF MemOK, GroupsOK
<1> HIDE DEF pt
<1>3. \A f \in Frames : k[f].use = "group" => f # g /\ k[f] = m[f]
  BY <1>0, <1>1, <1>a
<1>f. \A f \in Frames \ {g} : m[f].use = "group" => k[f] = m[f]
  BY <1>0, <1>1, <1>a, <1>c
<1>4. \A t \in Frames \ {s} : m[t].use = "space" \/ k[t].use = "space" => k[t] = m[t]
  BY <1>0, <1>1, <1>a
<1>5. \A f \in Frames \ {pt} : m[f].use = "table" => k[f] = m[f]
  BY <1>0, <1>1, <1>a, <1>c
<1>6. SpacesOK(k)
  <2> SUFFICES ASSUME NEW t \in Frames, k[t].use = "space"
      PROVE /\ k[t].pt # 0 => k[k[t].pt].use = "table"
            /\ k[t].cow # 0 => k[t].pt # 0 /\ k[k[t].cow].use = "group"
    BY DEF SpacesOK
  <2>1. CASE t = s
    BY <1>0, <1>1, <1>5, <2>1
  <2>2. CASE t # s
    BY <1>b, <1>d, <1>f, <1>4, <1>5, <2>2, OfSpace
  <2> QED
    BY <2>1, <2>2
<1>7. GroupsOK(k)
  <2> SUFFICES ASSUME NEW h \in Frames, k[h].use = "group"
      PROVE /\ k[k[h].pt].use = "table"
            /\ \A r \in Region : ~k[k[h].pt].ent[r].w
            /\ \A i \in Frames : k[i].use = "group" /\ k[i].pt = k[h].pt => i = h
    BY DEF GroupsOK
  <2>1. k[h] = m[h] /\ m[h].use = "group" /\ m[h].pt \in Frames /\ m[m[h].pt].use = "table"
        /\ m[h].pt # pt
    BY <1>3, <1>e, OfGroup
  <2>2. k[m[h].pt] = m[m[h].pt]
    BY <1>5, <2>1
  <2>3. /\ \A r \in Region : ~m[m[h].pt].ent[r].w
        /\ \A i \in Frames : m[i].use = "group" /\ m[i].pt = m[h].pt => i = h
    BY <2>1 DEF MemOK, GroupsOK
  <2> QED
    BY <1>3, <2>1, <2>2, <2>3
<1>8. SharesOK(k)
  <2> SUFFICES ASSUME NEW t \in Frames, k[t].use = "space"
      PROVE /\ \A u \in Frames \ {t} : k[u].use = "space" /\ k[u].pt = k[t].pt /\ k[t].pt # 0 =>
                  k[t].cow # 0 /\ k[t].pt = k[k[t].cow].pt
            /\ \A h \in Frames : k[h].use = "group" /\ k[h].pt = k[t].pt => k[t].cow = h
    BY DEF SharesOK
  <2>0. m[t].use = "space" /\ k[t].pt = m[t].pt
    BY <1>1, <1>4, <1>c
  <2>1. \A u \in Frames \ {t} : m[u].use = "space" /\ m[u].pt = m[t].pt /\ m[t].pt # 0 =>
          m[t].cow # 0 /\ m[t].pt = m[m[t].cow].pt
    BY <2>0 DEF MemOK, SharesOK
  <2>2. \A h \in Frames : m[h].use = "group" /\ m[h].pt = m[t].pt => m[t].cow = h
    BY <2>0 DEF MemOK, SharesOK
  <2>3. \A u \in Frames : k[u].use = "space" => m[u].use = "space" /\ k[u].pt = m[u].pt
    BY <1>1, <1>4, <1>c
  <2>4. CASE t = s
    <3>1. m[t].pt # m[g].pt /\ m[t].cow = g
      BY <1>1, <1>c, <2>4 DEF pt
    <3> QED
      BY <1>3, <2>0, <2>1, <2>2, <2>3, <3>1
  <2>5. CASE t # s
    <3>1. k[t] = m[t] /\ m[t].cow # g
      BY <1>4, <1>b, <2>0, <2>5
    <3>2. m[t].cow # 0 => m[t].cow \in Frames /\ k[m[t].cow] = m[m[t].cow]
      BY <1>f, <2>0, <3>1, OfSpace
    <3> QED
      BY <1>3, <2>0, <2>1, <2>2, <2>3, <3>1, <3>2
  <2> QED
    BY <2>4, <2>5
<1>9. CountOK(k)
  <2> SUFFICES ASSUME NEW h \in Frames, k[h].use = "group"
               PROVE  k[h].refs = Cardinality(Members(k, h))
    BY DEF CountOK
  <2>0. h # 0 /\ h # g /\ k[h] = m[h]
    BY <1>3, FramesFinite
  <2>1. Members(k, h) = Members(m, h)
    BY <1>1, <1>4, <1>c, <2>0 DEF Members
  <2> QED
    BY <2>0, <2>1, OfGroup
<1> QED
  BY <1>2, <1>6, <1>7, <1>8, <1>9 DEF MemOK

-----------------------------------------------------------------------------
(* The operators of paging.cpp keep the frames in order, and leave alone   *)
(* what other spaces have                                                  *)

\* Changes within a cell.
LEMMA Edits ==
  /\ \A p, g, h : [SpaceAt(p, g) EXCEPT !.cow = h] = SpaceAt(p, h)
  /\ \A p, g, q : [SpaceAt(p, g) EXCEPT !.pt = q] = SpaceAt(q, g)
  /\ \A p, n, i : [Group(p, n) EXCEPT !.refs = i] = Group(p, i)
  /\ \A e, d : [Table(e) EXCEPT !.ent = d] = Table(d)
BY DEF SpaceAt, Group, Table

\* An equation to be used when it is asked for.
Is(k, x) == k = x

\* Data and kernel stacks stay what they are.
Inert(m, k) == \A f \in Frames : m[f].use \in {"data", "kstack"} => k[f] = m[f]

\* Spaces outside X keep their tables.
Same(m, k, X) ==
  /\ Inert(m, k)
  /\ \A t \in Frames \ X : m[t].use = "space" =>
       /\ k[t].use = "space" /\ k[t].pt = m[t].pt
       /\ m[t].pt # 0 => k[m[t].pt] = m[m[t].pt]

\* They keep what the tables map, perhaps not the write access.
Soft(m, k, X) ==
  /\ Inert(m, k)
  /\ \A t \in Frames \ X : m[t].use = "space" =>
       /\ k[t].use = "space" /\ k[t].pt = m[t].pt
       /\ m[t].pt # 0 => \A r \in Region :
            /\ k[m[t].pt].ent[r].frame = m[m[t].pt].ent[r].frame
            /\ k[m[t].pt].ent[r].w => m[m[t].pt].ent[r].w

\* A space that has left its group lets go of it.
Left(m, s) == [LeaveGroup(m, m[s].cow) EXCEPT ![s].cow = 0]

\* The group is one member short, or gone.
LEMMA Leave ==
  ASSUME NEW m, MemOK(m), NEW s \in Frames, m[s].use = "space", OutOfGroup(m, s),
         NEW k, Is(k, Left(m, s))
  PROVE  /\ MemOK(k) /\ Same(m, k, {}) /\ k[s] = SpaceAt(m[s].pt, 0)
         /\ \A t \in Frames \ {s} : m[t].use = "space" => k[t] = m[t]
<1> DEFINE g == m[s].cow
           pt == m[g].pt
           l == LeaveGroup(m, g)
<1>0. CellsOK(m) /\ OfFrames(m)
  BY DEF MemOK, CellsOK
<1>1. /\ g # 0 /\ g \in Frames /\ m[g].use = "group" /\ m[s].pt # pt /\ m[s].pt \in Frames
      /\ m[s] = SpaceAt(m[s].pt, g)
  BY OfSpace DEF OutOfGroup
<1>2. /\ m[g] = Group(pt, m[g].refs) /\ pt \in Frames /\ m[pt].use = "table"
  BY <1>1, OfGroup
<1>3. m[m[s].pt].use = "table"
  BY <1>1, OfSpace, FramesFinite
<1>4. g # s /\ pt # s /\ pt # g
  BY <1>1, <1>2
<1>5. CASE m[g].refs = 1
  <2>1. \A f \in Frames : l[f] = IF f \in {g, pt} THEN Free ELSE m[f]
    BY <1>0, <1>5, Freed DEF LeaveGroup
  <2>2. OfFrames(l)
    BY <1>5 DEF LeaveGroup, kfree, OfFrames
  <2>3. l[s] = SpaceAt(m[s].pt, g) /\ Is(k, [l EXCEPT ![s].cow = 0])
    BY <1>1, <1>4, <2>1 DEF Left
  <2> HIDE DEF l
  <2>4. k[s] = SpaceAt(m[s].pt, 0)
    BY <2>2, <2>3, Edits DEF OfFrames, Is
  <2>5. OfFrames(k) /\ \A f \in Frames \ {s} : k[f] = l[f]
    BY <2>2, <2>3 DEF OfFrames, Is
  <2>6. k[g] = Free /\ k[pt] = Free /\ \A f \in Frames \ {s, g, pt} : k[f] = m[f]
    BY <1>1, <1>2, <1>4, <2>1, <2>5
  <2>7. MemOK(k)
    <3>1. m[s].cow = g /\ m[s].pt # m[g].pt /\ k[m[g].pt] = Free
          /\ \A f \in Frames \ {s, g, m[g].pt} : k[f] = m[f]
      BY <1>1, <2>6
    <3> HIDE DEF g, pt
    <3> QED
      BY <1>1, <1>5, <2>4, <2>5, <2>6, <3>1, Dissolves
  <2>8. \A t \in Frames : m[t].use = "space" /\ m[t].cow = g => t = s
    BY <1>1, <1>5, OnlyMember
  <2>9. \A t \in Frames : m[t].use = "space" => m[t].pt # pt
    BY <1>1, <1>2, <2>8 DEF MemOK, SharesOK
  <2>10. \A t \in Frames \ {s} : m[t].use = "space" => k[t] = m[t]
    BY <1>1, <1>2, <2>6
  <2>11. \A t \in Frames : m[t].use = "space" /\ m[t].pt # 0 => k[m[t].pt] = m[m[t].pt]
    BY <1>1, <1>2, <2>6, <2>9, OfSpace
  <2>12. Inert(m, k)
    BY <1>1, <1>2, <2>6 DEF Inert
  <2>13. Same(m, k, {})
    <3>1. k[s].use = "space" /\ k[s].pt = m[s].pt
      BY <2>4, Shapes
    <3>2. \A t \in Frames : m[t].use = "space" => k[t].use = "space" /\ k[t].pt = m[t].pt
      BY <2>10, <3>1
    <3> QED
      BY <2>11, <2>12, <3>2 DEF Same
  <2> QED
    BY <2>4, <2>7, <2>10, <2>13
<1>6. CASE m[g].refs # 1
  <2>1. l[g] = Group(pt, m[g].refs - 1) /\ \A f \in Frames \ {g} : l[f] = m[f]
    BY <1>0, <1>1, <1>2, <1>6, Edits DEF LeaveGroup, OfFrames
  <2>2. OfFrames(l)
    BY <1>0, <1>6 DEF LeaveGroup, OfFrames
  <2>3. l[s] = SpaceAt(m[s].pt, g) /\ Is(k, [l EXCEPT ![s].cow = 0])
    BY <1>1, <1>4, <2>1 DEF Left
  <2> HIDE DEF l
  <2>4. k[s] = SpaceAt(m[s].pt, 0)
    BY <2>2, <2>3, Edits DEF OfFrames, Is
  <2>5. OfFrames(k) /\ \A f \in Frames \ {s} : k[f] = l[f]
    BY <2>2, <2>3 DEF OfFrames, Is
  <2>6. k[g] = Group(pt, m[g].refs - 1) /\ \A f \in Frames \ {s, g} : k[f] = m[f]
    BY <1>1, <1>2, <1>4, <2>1, <2>5
  <2>7. MemOK(k)
    <3>1. m[s].cow = g /\ m[s].pt # m[g].pt /\ k[g] = Group(m[g].pt, m[g].refs - 1)
      BY <1>1, <2>6
    <3> HIDE DEF g, pt
    <3> QED
      BY <1>1, <1>6, <2>4, <2>5, <2>6, <3>1, Lessens
  <2>10. \A t \in Frames \ {s} : m[t].use = "space" => k[t] = m[t]
    BY <1>1, <1>2, <2>6
  <2>11. \A t \in Frames : m[t].use = "space" /\ m[t].pt # 0 => k[m[t].pt] = m[m[t].pt]
    BY <1>1, <1>2, <2>6, OfSpace
  <2>12. Inert(m, k)
    BY <1>1, <1>2, <2>6 DEF Inert
  <2>13. Same(m, k, {})
    <3>1. k[s].use = "space" /\ k[s].pt = m[s].pt
      BY <2>4, Shapes
    <3>2. \A t \in Frames : m[t].use = "space" => k[t].use = "space" /\ k[t].pt = m[t].pt
      BY <2>10, <3>1
    <3> QED
      BY <2>11, <2>12, <3>2 DEF Same
  <2> QED
    BY <2>4, <2>7, <2>10, <2>13
<1> QED
  BY <1>5, <1>6

\* space_create() makes a space and its tables,
LEMMA CreateOk ==
  ASSUME NEW m, MemOK(m), space_create(m).ok, NEW k, k = space_create(m).m,
         NEW s, s = space_create(m).s
  PROVE  /\ MemOK(k) /\ Same(m, k, {}) /\ s \in Frames /\ m[s].use = "free"
         /\ k[s].use = "space" /\ k[s].cow = 0 /\ k[s].pt # 0 /\ k[s].pt \in Frames
         /\ m[k[s].pt].use = "free" /\ k[s].pt # s
         /\ \A f \in Frames \ {s, k[s].pt} : k[f] = m[f]
<1> DEFINE m1 == [m EXCEPT ![s] = NoSpace]
           pt == kframe_alloc(m1)
<1>0. CellsOK(m) /\ OfFrames(m)
  BY DEF MemOK, CellsOK
<1>1. Room(m, 1) /\ Room(m, 2)
  BY DEF space_create
<1>2. s = kframe_alloc(m)
  BY <1>1 DEF space_create
<1>3. s \in Frames /\ m[s].use = "free"
  BY <1>1, <1>2, Alloc
<1>4. k = [m1 EXCEPT ![s].pt = pt, ![pt] = EmptyTable]
  BY <1>1, <1>2 DEF space_create
<1>5. OfFrames(m1) /\ m1[s] = NoSpace /\ \A f \in Frames \ {s} : m1[f] = m[f]
  BY <1>0, <1>3 DEF OfFrames
<1>6. MemOK(m1)
  <2>1. Cell(NoSpace)
    BY MadeCells, EmptyShapes, FramesFinite
  <2> QED
    BY <1>3, <2>1, NewCell
<1> HIDE DEF m1
<1>7. Room(m1, 1)
  <2>1. m1[s].use # "free"
    BY <1>5, EmptyShapes, Shapes
  <2>2. Room(m, 1 + 1) <=> Room(m1, 1)
    BY <1>3, <1>5, <2>1, RoomLess
  <2> QED
    BY <1>1, <2>2
<1>8. pt \in Frames /\ m1[pt].use = "free" /\ pt # 0
  BY <1>7, Alloc, FramesFinite
<1>9. pt # s /\ m[pt].use = "free" /\ m1[s] = SpaceAt(0, 0)
  BY <1>5, <1>8, EmptyShapes, Shapes
<1> HIDE DEF pt
<1>10. k[s] = SpaceAt(pt, 0) /\ k[pt] = EmptyTable /\ OfFrames(k)
       /\ \A f \in Frames \ {s, pt} : k[f] = m1[f]
  <2>1. k[s] = [m1[s] EXCEPT !.pt = pt]
    BY <1>3, <1>4, <1>5, <1>8, <1>9 DEF OfFrames
  <2>2. k[s] = SpaceAt(pt, 0)
    BY <1>9, <2>1, Edits
  <2>3. k[pt] = EmptyTable /\ OfFrames(k) /\ \A f \in Frames \ {s, pt} : k[f] = m1[f]
    BY <1>3, <1>4, <1>5, <1>8, <1>9 DEF OfFrames
  <2> QED
    BY <2>2, <2>3
<1>11. m1[s].use = "space" /\ m1[s].cow = 0 /\ k[s].use = "space" /\ k[s].cow = 0 /\ k[s].pt = pt
  BY <1>9, <1>10, Shapes
<1>12. MemOK(k)
  BY <1>3, <1>6, <1>8, <1>10, <1>11, EmptyShapes, Moves
<1>13. \A f \in Frames \ {s, pt} : k[f] = m[f]
  BY <1>5, <1>10
<1>14. Same(m, k, {})
  <2>1. Inert(m, k)
    BY <1>3, <1>9, <1>13 DEF Inert
  <2>2. ASSUME NEW t \in Frames, m[t].use = "space" PROVE k[t] = m[t] /\ (m[t].pt # 0 => k[m[t].pt] = m[m[t].pt])
    BY <1>3, <1>9, <1>13, <2>2, OfSpace
  <2> QED
    BY <2>1, <2>2 DEF Same
<1> QED
  BY <1>3, <1>8, <1>9, <1>11, <1>12, <1>13, <1>14

\* or leaves one without tables behind.
LEMMA CreateFails ==
  ASSUME NEW m, MemOK(m), ~space_create(m).ok, NEW k, k = space_create(m).m
  PROVE  MemOK(k) /\ Same(m, k, {})
<1>0. CellsOK(m) /\ OfFrames(m)
  BY DEF MemOK, CellsOK
<1>1. CASE ~Room(m, 1)
  <2>1. k = m
    BY <1>1 DEF space_create
  <2> QED
    BY <2>1 DEF Same, Inert
<1>2. CASE Room(m, 1)
  <2> DEFINE s == kframe_alloc(m)
  <2>1. ~Room(m, 2)
    BY <1>2 DEF space_create
  <2>2. k = [m EXCEPT ![s] = NoSpace]
    BY <1>2, <2>1 DEF space_create
  <2>3. s \in Frames /\ m[s].use = "free"
    BY <1>2, Alloc
  <2> HIDE DEF s
  <2>4. Cell(NoSpace)
    BY MadeCells, EmptyShapes, FramesFinite
  <2>5. MemOK(k)
    BY <2>2, <2>3, <2>4, NewCell
  <2>6. \A f \in Frames \ {s} : k[f] = m[f]
    BY <1>0, <2>2, <2>3 DEF OfFrames
  <2>7. Inert(m, k)
    BY <2>3, <2>6 DEF Inert
  <2>8. ASSUME NEW t \in Frames, m[t].use = "space" PROVE k[t] = m[t] /\ (m[t].pt # 0 => k[m[t].pt] = m[m[t].pt])
    BY <2>3, <2>6, <2>8, OfSpace
  <2> QED
    BY <2>5, <2>7, <2>8 DEF Same
<1> QED
  BY <1>1, <1>2

\* A space with tables to itself goes, tables and all.
LEMMA DestroyAlone ==
  ASSUME NEW m, MemOK(m), NEW s \in Frames, m[s].use = "space", m[s].cow = 0, m[s].pt # 0
  PROVE  MemOK(kfree(m, {s, m[s].pt})) /\ Same(m, kfree(m, {s, m[s].pt}), {s})
<1> DEFINE pt == m[s].pt
           k == kfree(m, {s, pt})
<1>0. CellsOK(m)
  BY DEF MemOK
<1>1. pt \in Frames /\ m[pt].use = "table" /\ pt # 0
  BY OfSpace
<1>2. \A f \in Frames \ {s} : m[f].use = "space" => m[f].pt # pt
  BY DEF MemOK, SharesOK
<1>3. \A f \in Frames : m[f].use = "group" => m[f].pt # pt
  BY FramesFinite DEF MemOK, SharesOK
<1>4. m[s].cow = 0 /\ m[s].use = "space"
  OBVIOUS
<1>5. \A f \in Frames : k[f] = IF f \in {s, pt} THEN Free ELSE m[f]
  BY <1>0, Freed
<1> HIDE DEF pt
<1>6. Shut(m, {s, pt})
  <2>1. ASSUME NEW t \in Frames \ {s, pt}, m[t].use = "space" PROVE m[t].pt \notin {s, pt} /\ m[t].cow \notin {s, pt}
    <3>1. m[t].pt # 0 => m[m[t].pt].use = "table"
      BY <2>1, OfSpace
    <3>2. m[t].cow # 0 => m[m[t].cow].use = "group"
      BY <2>1, OfSpace
    <3>3. s # 0 /\ pt # 0
      BY <1>1, FramesFinite
    <3> QED
      BY <1>1, <1>2, <1>4, <2>1, <3>1, <3>2, <3>3
  <2>2. ASSUME NEW h \in Frames \ {s, pt}, m[h].use = "group" PROVE m[h].pt \notin {s, pt}
    <3>1. m[m[h].pt].use = "table"
      BY <2>2, OfGroup
    <3> QED
      BY <1>3, <1>4, <2>2, <3>1
  <2>3. ASSUME NEW t \in {s, pt} \cap Frames, m[t].use = "space" PROVE m[t].cow = 0 \/ m[t].cow \in {s, pt}
    BY <1>1, <1>4, <2>3
  <2> QED
    BY <2>1, <2>2, <2>3 DEF Shut
<1>7. MemOK(k)
  BY <1>6, Shrinks
<1> HIDE DEF k
<1>8. Inert(m, k)
  BY <1>1, <1>4, <1>5 DEF Inert
<1>9. ASSUME NEW t \in Frames \ {s}, m[t].use = "space"
      PROVE  k[t] = m[t] /\ (m[t].pt # 0 => k[m[t].pt] = m[m[t].pt])
  BY <1>1, <1>2, <1>4, <1>5, <1>9, OfSpace
<1>10. Same(m, k, {s})
  BY <1>8, <1>9 DEF Same
<1> QED
  BY <1>7, <1>10 DEF k, pt

\* Two functions of the frames that agree.
LEMMA SameFrames ==
  ASSUME NEW k, NEW l, OfFrames(k), OfFrames(l), \A f \in Frames : k[f] = l[f]
  PROVE  k = l
BY DEF OfFrames

\* What LeaveGroup changes.
LEMMA LeaveGroupAt ==
  ASSUME NEW m, OfFrames(m), CellsOK(m), NEW g \in Frames, m[g].use = "group"
  PROVE  /\ OfFrames(LeaveGroup(m, g))
         /\ m[g].refs = 1 => \A f \in Frames : LeaveGroup(m, g)[f] = IF f \in {g, m[g].pt} THEN Free ELSE m[f]
         /\ m[g].refs # 1 => \A f \in Frames : LeaveGroup(m, g)[f] =
                               IF f = g THEN Group(m[g].pt, m[g].refs - 1) ELSE m[f]
<1>1. m[g] = Group(m[g].pt, m[g].refs)
  BY CellShapes DEF CellsOK
<1>2. CASE m[g].refs = 1
  BY <1>2, Freed DEF LeaveGroup, kfree, OfFrames
<1>3. CASE m[g].refs # 1
  <2>1. LeaveGroup(m, g) = [m EXCEPT ![g].refs = @ - 1]
    BY <1>3 DEF LeaveGroup
  <2>2. OfFrames([m EXCEPT ![g].refs = @ - 1])
    BY DEF OfFrames
  <2>3. [m EXCEPT ![g].refs = @ - 1][g] = [m[g] EXCEPT !.refs = m[g].refs - 1]
    BY DEF OfFrames
  <2>4. \A f \in Frames \ {g} : [m EXCEPT ![g].refs = @ - 1][f] = m[f]
    BY DEF OfFrames
  <2> DEFINE l == [m EXCEPT ![g].refs = @ - 1]
  <2> HIDE DEF l
  <2>5. l[g] = Group(m[g].pt, m[g].refs - 1)
    <3>1. l[g] = [m[g] EXCEPT !.refs = m[g].refs - 1]
      BY <2>3 DEF l
    <3> QED
      BY <1>1, <3>1, Edits
  <2>6. \A f \in Frames : l[f] = IF f = g THEN Group(m[g].pt, m[g].refs - 1) ELSE m[f]
    BY <2>4, <2>5 DEF l
  <2> QED
    BY <1>3, <2>1, <2>2, <2>6 DEF l
<1> QED
  BY <1>2, <1>3

\* space_destroy() of a space that no process has any more.
LEMMA Destroy ==
  ASSUME NEW m, MemOK(m), NEW s \in Frames, m[s].use = "space", m[s].pt # 0
  PROVE  MemOK(space_destroy(m, s)) /\ Same(m, space_destroy(m, s), {s})
<1> DEFINE pt == m[s].pt
           g == m[s].cow
           k == space_destroy(m, s)
<1>0. CellsOK(m) /\ OfFrames(m)
  BY DEF MemOK, CellsOK
<1>1. pt \in Frames /\ m[pt].use = "table" /\ pt # 0 /\ pt # s
  BY OfSpace
<1>2. CASE g = 0
  <2>1. k = kfree(kfree(m, {pt}), {s})
    BY <1>2 DEF space_destroy
  <2>2. kfree(kfree(m, {pt}), {s}) = kfree(m, {s, pt})
    BY DEF kfree
  <2>3. k = kfree(m, {s, m[s].pt})
    BY <2>1, <2>2
  <2> HIDE DEF k
  <2> QED
    BY <1>2, <2>3, DestroyAlone DEF k
<1>3. CASE g # 0 /\ OutOfGroup(m, s)
  <2> DEFINE l == Left(m, s)
             own == kfree(m, {pt})
  <2>0. g \in Frames /\ m[g].use = "group" /\ m[g].pt # pt /\ m[g].pt \in Frames
    BY <1>3, OfSpace, OfGroup DEF OutOfGroup
  <2>1. k = kfree(LeaveGroup(own, g), {s})
    BY <1>3 DEF space_destroy
  <2>2. /\ MemOK(l) /\ Same(m, l, {}) /\ l[s] = SpaceAt(pt, 0)
    <3> HIDE DEF l, pt
    <3>1. Is(l, Left(m, s))
      BY DEF Is, l
    <3> QED
      BY <1>3, <3>1, Leave DEF pt
  <2>4. \A f \in Frames : own[f] = IF f \in {pt} THEN Free ELSE m[f]
    BY <1>0, Freed
  <2>3. CellsOK(own) /\ OfFrames(own) /\ own[g] = m[g] /\ own[g].use = "group"
    <3>1. CellsOK(own)
      BY <1>0, Freed
    <3> HIDE DEF own
    <3>2. own[g] = m[g]
      BY <1>1, <2>0, <2>4
    <3> QED
      BY <2>0, <3>1, <3>2 DEF CellsOK
  <2> HIDE DEF own, k
  <2>5. l[s].use = "space" /\ l[s].cow = 0 /\ l[s].pt = pt
    BY <2>2, Shapes
  <2>6. MemOK(kfree(l, {s, pt})) /\ Same(l, kfree(l, {s, pt}), {s})
    <3> HIDE DEF l, pt
    <3>1. MemOK(kfree(l, {s, l[s].pt})) /\ Same(l, kfree(l, {s, l[s].pt}), {s})
      BY <1>1, <2>2, <2>5, DestroyAlone
    <3> QED
      BY <2>5, <3>1
  <2>7. \A f \in Frames \ {s} : l[f] = LeaveGroup(m, g)[f]
    <3>1. OfFrames(LeaveGroup(m, g))
      BY <1>0, <2>0, LeaveGroupAt
    <3> QED
      BY <3>1 DEF Left, OfFrames
  <2>8. \A f \in Frames \ {pt} : LeaveGroup(own, g)[f] = LeaveGroup(m, g)[f]
    <3>1. CASE m[g].refs = 1
      BY <1>0, <1>1, <2>0, <2>3, <2>4, <3>1, LeaveGroupAt
    <3>2. CASE m[g].refs # 1
      BY <1>0, <1>1, <2>0, <2>3, <2>4, <3>2, LeaveGroupAt
    <3> QED
      BY <3>1, <3>2
  <2>9. \A f \in Frames : k[f] = kfree(l, {s, pt})[f]
    <3> HIDE DEF l, g
    <3>1. ASSUME NEW f \in Frames PROVE k[f] = kfree(l, {s, pt})[f]
      <4>1. CASE f \in {s}
        BY <2>1, <4>1 DEF kfree
      <4>2. CASE f = pt
        <5>1. LeaveGroup(own, g)[pt] = own[pt]
          BY <1>1, <2>0, <2>3, LeaveGroupAt
        <5>2. own[pt] = Free
          BY <1>1, <2>4
        <5> QED
          BY <1>1, <2>1, <4>2, <5>1, <5>2 DEF kfree
      <4>3. CASE f \notin {s, pt}
        <5>1. LeaveGroup(own, g)[f] = l[f]
          BY <2>7, <2>8, <4>3
        <5> QED
          BY <2>1, <4>3, <5>1 DEF kfree
      <4> QED
        BY <4>1, <4>2, <4>3
    <3> QED
      BY <3>1
  <2>10. k = kfree(l, {s, pt})
    <3>1. OfFrames(k) /\ OfFrames(kfree(l, {s, pt}))
      BY <2>1 DEF kfree, OfFrames
    <3> HIDE DEF l
    <3> QED
      BY <2>9, <3>1, SameFrames
  <2>11. Same(m, k, {s})
    <3> DEFINE k2 == kfree(l, {s, pt})
    <3>1. Same(l, k2, {s}) /\ Same(m, l, {})
      BY <2>2, <2>6
    <3> HIDE DEF l, k2
    <3>2. Same(m, k2, {s})
      BY <3>1 DEF Same, Inert
    <3> QED
      BY <2>10, <3>2 DEF k2
  <2> QED
    BY <2>6, <2>10, <2>11 DEF k
<1>4. CASE g # 0 /\ ~OutOfGroup(m, s)
  <2>0. g \in Frames /\ m[g].use = "group" /\ m[g].pt = pt
    BY <1>4, OfSpace, OfGroup DEF OutOfGroup
  <2>1. k = kfree(LeaveGroup(m, g), {s})
    BY <1>4 DEF space_destroy
  <2>2. CASE m[g].refs = 1
    <3>1. \A t \in Frames : m[t].use = "space" /\ m[t].cow = g => t = s
      BY <2>0, <2>2, OnlyMember
    <3>2. k = kfree(m, {s, g, pt})
      BY <2>0, <2>1, <2>2 DEF LeaveGroup, kfree
    <3>a. m[s].use = "space" /\ m[s].cow = g
      OBVIOUS
    <3> HIDE DEF k, pt, g
    <3>3. \A f \in Frames : k[f] = IF f \in {s, g, pt} THEN Free ELSE m[f]
      BY <1>0, <3>2, Freed
    <3>4. \A t \in Frames \ {s} : m[t].use = "space" => m[t].pt # pt
      BY <2>0, <3>1 DEF MemOK, SharesOK
    <3>5. \A h \in Frames \ {g} : m[h].use = "group" => m[h].pt # pt
      BY <2>0 DEF MemOK, GroupsOK
    <3>6. Shut(m, {s, g, pt})
      <4>1. ASSUME NEW t \in Frames \ {s, g, pt}, m[t].use = "space"
            PROVE m[t].pt \notin {s, g, pt} /\ m[t].cow \notin {s, g, pt}
        <5>1. m[t].pt # 0 => m[m[t].pt].use = "table"
          BY <4>1, OfSpace
        <5>2. m[t].cow # 0 => m[m[t].cow].use = "group"
          BY <4>1, OfSpace
        <5>3. s # 0 /\ g # 0
          BY <2>0, FramesFinite
        <5> QED
          BY <1>1, <2>0, <3>1, <3>4, <3>a, <4>1, <5>1, <5>2, <5>3
      <4>2. ASSUME NEW h \in Frames \ {s, g, pt}, m[h].use = "group" PROVE m[h].pt \notin {s, g, pt}
        <5>1. m[m[h].pt].use = "table"
          BY <4>2, OfGroup
        <5> QED
          BY <2>0, <3>5, <3>a, <4>2, <5>1
      <4>3. ASSUME NEW t \in {s, g, pt} \cap Frames, m[t].use = "space" PROVE m[t].cow = 0 \/ m[t].cow \in {s, g, pt}
        BY <1>1, <2>0, <3>a, <4>3
      <4> QED
        BY <4>1, <4>2, <4>3 DEF Shut
    <3>7. MemOK(k)
      BY <3>2, <3>6, Shrinks
    <3>8. Inert(m, k)
      BY <1>1, <2>0, <3>3, <3>a DEF Inert
    <3>9. ASSUME NEW t \in Frames \ {s}, m[t].use = "space"
          PROVE  k[t] = m[t] /\ (m[t].pt # 0 => k[m[t].pt] = m[m[t].pt])
      <4>1. k[t] = m[t]
        BY <1>1, <2>0, <3>3, <3>9
      <4>2. m[t].pt # 0 => m[t].pt \in Frames /\ m[m[t].pt].use = "table" /\ m[t].pt # pt
        BY <3>4, <3>9, OfSpace
      <4> QED
        BY <2>0, <3>3, <3>a, <4>1, <4>2
    <3>10. Same(m, k, {s})
      BY <3>8, <3>9 DEF Same
    <3> QED
      BY <3>7, <3>10 DEF k
  <2>3. CASE m[g].refs # 1
    <3>a. m[s].use = "space" /\ m[s].cow = g
      OBVIOUS
    <3> HIDE DEF k, g
    <3> DEFINE l == LeaveGroup(m, g)
    <3>1. OfFrames(l) /\ \A f \in Frames : l[f] = IF f = g THEN Group(m[g].pt, m[g].refs - 1) ELSE m[f]
      BY <1>0, <2>0, <2>3, LeaveGroupAt
    <3> HIDE DEF l
    <3>2. k = kfree(l, {s})
      BY <2>1 DEF l
    <3>3. OfFrames(k) /\ \A f \in Frames : k[f] = IF f \in {s} THEN Free ELSE l[f]
      BY <3>2 DEF kfree, OfFrames
    <3>4. k[s] = Free /\ k[g] = Group(m[g].pt, m[g].refs - 1) /\ \A f \in Frames \ {s, g} : k[f] = m[f]
      BY <2>0, <3>1, <3>3, <3>a
    <3>5. MemOK(k)
      BY <2>0, <2>3, <3>3, <3>4, <3>a, Lessens
    <3>6. Inert(m, k)
      BY <2>0, <3>4, <3>a DEF Inert
    <3>7. ASSUME NEW t \in Frames \ {s}, m[t].use = "space"
          PROVE  k[t] = m[t] /\ (m[t].pt # 0 => k[m[t].pt] = m[m[t].pt])
      BY <2>0, <3>4, <3>7, <3>a, OfSpace
    <3>8. Same(m, k, {s})
      BY <3>6, <3>7 DEF Same
    <3> QED
      BY <3>5, <3>8 DEF k
  <2> QED
    BY <2>2, <2>3
<1> QED
  BY <1>2, <1>3, <1>4

\* A space that was only just made can be given back: nothing has changed.
LEMMA CreateDestroy ==
  ASSUME NEW m, MemOK(m), space_create(m).ok
  PROVE  space_destroy(space_create(m).m, space_create(m).s) = m
<1> DEFINE k == space_create(m).m
           s == space_create(m).s
<1>1. /\ MemOK(k) /\ s \in Frames /\ m[s].use = "free" /\ k[s].use = "space" /\ k[s].cow = 0
      /\ k[s].pt \in Frames /\ m[k[s].pt].use = "free" /\ k[s].pt # s
      /\ \A f \in Frames \ {s, k[s].pt} : k[f] = m[f]
  <2> HIDE DEF k, s
  <2>1. k = space_create(m).m /\ s = space_create(m).s
    BY DEF k, s
  <2> QED
    BY <2>1, CreateOk
<1> HIDE DEF k, s
<1>2. space_destroy(k, s) = kfree(kfree(k, {k[s].pt}), {s})
  BY <1>1 DEF space_destroy
<1>3. m[s] = Free /\ m[k[s].pt] = Free /\ OfFrames(m)
  BY <1>1, CellShapes DEF MemOK, CellsOK
<1>4. \A f \in Frames : kfree(kfree(k, {k[s].pt}), {s})[f] = m[f]
  BY <1>1, <1>3 DEF kfree
<1>5. OfFrames(kfree(kfree(k, {k[s].pt}), {s}))
  BY DEF kfree, OfFrames
<1> DEFINE l == kfree(kfree(k, {k[s].pt}), {s})
<1> HIDE DEF l
<1>6. l = m
  BY <1>3, <1>4, <1>5, SameFrames DEF l
<1> QED
  BY <1>2, <1>6 DEF k, s, l

\* Taking write access away.
LEMMA Protects ==
  ASSUME NEW e \in [Region -> Entries \cup {NoEntry}]
  PROVE  /\ ReadOnly(e) \in [Region -> Entries \cup {NoEntry}]
         /\ \A r \in Region : ReadOnly(e)[r].frame = e[r].frame /\ ~ReadOnly(e)[r].w
         /\ (\A r \in Region : ~e[r].w) => ReadOnly(e) = e
<1>1. ASSUME NEW r \in Region
      PROVE  /\ ReadOnly(e)[r] \in Entries \cup {NoEntry}
             /\ ReadOnly(e)[r].frame = e[r].frame /\ ~ReadOnly(e)[r].w
             /\ ~e[r].w => ReadOnly(e)[r] = e[r]
  <2>1. ReadOnly(e)[r] = [e[r] EXCEPT !.w = FALSE] /\ e[r] \in Entries \cup {NoEntry}
    BY DEF ReadOnly
  <2>2. CASE e[r] \in Entries
    BY <2>1, <2>2 DEF Entries
  <2>3. CASE e[r] = NoEntry
    <3>1. [NoEntry EXCEPT !.w = FALSE] = NoEntry /\ ~NoEntry.w
      <4>1. NoEntry \in [frame : {0}, w : BOOLEAN] /\ ~NoEntry.w
        BY DEF NoEntry
      <4>2. \A n \in [frame : {0}, w : BOOLEAN] : ~n.w => [n EXCEPT !.w = FALSE] = n
        OBVIOUS
      <4> QED
        BY <4>1, <4>2
    <3>2. ReadOnly(e)[r] = NoEntry
      BY <2>1, <2>3, <3>1
    <3> QED
      BY <2>3, <3>1, <3>2
  <2> QED
    BY <2>1, <2>2, <2>3
<1>2. ReadOnly(e) = [r \in Region |-> ReadOnly(e)[r]]
  BY DEF ReadOnly
<1>3. ReadOnly(e) \in [Region -> Entries \cup {NoEntry}]
  BY <1>1, <1>2
<1>4. ASSUME \A r \in Region : ~e[r].w PROVE ReadOnly(e) = e
  BY <1>1, <1>3, <1>4
<1> QED
  BY <1>1, <1>3, <1>4

\* What JoinGroup changes.
LEMMA JoinAt ==
  ASSUME NEW m, MemOK(m), NEW s \in Frames, m[s].use = "space", m[s].cow = 0, m[s].pt # 0,
         NEW g \in Frames, m[g].use = "group", NEW k, Is(k, JoinGroup(m, s, g))
  PROVE  /\ OfFrames(k) /\ k[s] = SpaceAt(m[g].pt, g) /\ k[g] = Group(m[g].pt, m[g].refs + 1)
         /\ k[m[s].pt] = Free /\ \A f \in Frames \ {s, g, m[s].pt} : k[f] = m[f]
<1>1. m[s].pt \in Frames /\ m[m[s].pt].use = "table" /\ m[g] = Group(m[g].pt, m[g].refs)
  BY OfSpace, OfGroup
<1>2. g # s /\ m[s].pt # s /\ m[s].pt # g
  BY <1>1
<1> DEFINE l == kfree(m, {m[s].pt})
<1>3. OfFrames(l) /\ \A f \in Frames : l[f] = IF f = m[s].pt THEN Free ELSE m[f]
  BY DEF kfree, OfFrames
<1>4. Is(k, [l EXCEPT ![s] = SpaceAt(m[g].pt, g), ![g].refs = @ + 1])
  BY DEF JoinGroup, Is
<1> HIDE DEF l
<1>5. l[g] = m[g] /\ l[m[s].pt] = Free
  BY <1>1, <1>2, <1>3
<1>6. k[g] = [l[g] EXCEPT !.refs = l[g].refs + 1]
  BY <1>2, <1>3, <1>4 DEF OfFrames, Is
<1>7. OfFrames(k) /\ k[s] = SpaceAt(m[g].pt, g) /\ \A f \in Frames \ {s, g} : k[f] = l[f]
  BY <1>2, <1>3, <1>4 DEF OfFrames, Is
<1>8. k[g] = Group(m[g].pt, m[g].refs + 1)
  BY <1>1, <1>5, <1>6, Edits
<1> QED
  BY <1>1, <1>2, <1>3, <1>5, <1>7, <1>8

\* The state a parent's space is in before the tables are shared: in no group it has left.
LetGo(m, s) == IF OutOfGroup(m, s) THEN [LeaveGroup(m, m[s].cow) EXCEPT ![s].cow = 0] ELSE m

\* It keeps its tables.
LEMMA LetsGo ==
  ASSUME NEW m, MemOK(m), NEW s \in Frames, m[s].use = "space", m[s].pt # 0,
         NEW k, Is(k, LetGo(m, s))
  PROVE  /\ MemOK(k) /\ Same(m, k, {}) /\ k[s].use = "space" /\ k[s].pt = m[s].pt
         /\ k[s].cow # 0 => k[k[s].cow].pt = k[s].pt
         /\ \A t \in Frames \ {s} : m[t].use = "space" => k[t] = m[t]
<1>1. CASE OutOfGroup(m, s)
  <2>1. Is(k, Left(m, s))
    BY <1>1 DEF LetGo, Left, Is
  <2>2. /\ MemOK(k) /\ Same(m, k, {}) /\ k[s] = SpaceAt(m[s].pt, 0)
        /\ \A t \in Frames \ {s} : m[t].use = "space" => k[t] = m[t]
    BY <1>1, <2>1, Leave
  <2>3. k[s].use = "space" /\ k[s].pt = m[s].pt /\ k[s].cow = 0
    BY <2>2, Shapes
  <2> QED
    BY <2>2, <2>3
<1>2. CASE ~OutOfGroup(m, s)
  <2>1. k = m
    BY <1>2 DEF LetGo, Is
  <2>2. Same(m, m, {})
    BY DEF Same, Inert
  <2>3. m[s].cow # 0 => m[m[s].cow].pt = m[s].pt
    BY <1>2 DEF OutOfGroup
  <2> QED
    BY <2>1, <2>2, <2>3
<1> QED
  BY <1>1, <1>2

\* The tables of a group that is there, or is made for it, without write access.
Protected(m, g) == [m EXCEPT ![m[g].pt].ent = ReadOnly(@)]
Founded(m, s, g) == [m EXCEPT ![g] = Group(m[s].pt, 1), ![s].cow = g]

\* A new group for the tables of a space.
LEMMA FoundsGroup ==
  ASSUME NEW m, MemOK(m), NEW s \in Frames, m[s].use = "space", m[s].cow = 0, m[s].pt # 0,
         NEW g \in Frames, m[g].use = "free", NEW k, Is(k, Protected(Founded(m, s, g), g))
  PROVE  /\ MemOK(k) /\ Soft(m, k, {}) /\ k[s] = SpaceAt(m[s].pt, g) /\ k[g].use = "group"
         /\ k[g].pt = m[s].pt
         /\ \A t \in Frames \ {s} : m[t].use = "space" => k[t] = m[t]
<1> DEFINE pt == m[s].pt
           l == Founded(m, s, g)
           e == ReadOnly(m[pt].ent)
<1>0. OfFrames(m) /\ pt \in Frames /\ m[pt].use = "table"
  BY OfSpace DEF MemOK, CellsOK
<1>1. m[s] = SpaceAt(pt, 0) /\ m[pt] = Table(m[pt].ent) /\ m[pt].ent \in [Region -> Entries \cup {NoEntry}]
  BY <1>0, OfSpace, CellShapes DEF MemOK, CellsOK
<1>2. s # pt /\ g # s /\ g # pt
  BY <1>0
<1>3. OfFrames(l) /\ l[g] = Group(pt, 1) /\ \A f \in Frames \ {s, g} : l[f] = m[f]
  BY <1>0, <1>2 DEF Founded, OfFrames
<1>4. l[s] = SpaceAt(pt, g)
  <2>1. l[s] = [m[s] EXCEPT !.cow = g]
    BY <1>0, <1>2 DEF Founded, OfFrames
  <2> HIDE DEF l, pt
  <2> QED
    BY <1>1, <2>1, Edits
<1>5. l[g].pt = pt
  BY <1>3, Shapes
<1> HIDE DEF l
<1>6. Is(k, [l EXCEPT ![pt].ent = ReadOnly(@)])
  BY <1>5 DEF Protected, Is, l
<1>7. OfFrames(k) /\ \A f \in Frames \ {pt} : k[f] = l[f]
  BY <1>0, <1>3, <1>6 DEF OfFrames, Is
<1>8. k[pt] = Table(e)
  <2>1. k[pt] = [l[pt] EXCEPT !.ent = ReadOnly(l[pt].ent)]
    BY <1>0, <1>3, <1>6 DEF OfFrames, Is
  <2>2. l[pt] = m[pt]
    BY <1>0, <1>2, <1>3
  <2> HIDE DEF pt
  <2> QED
    BY <1>1, <2>1, <2>2, Edits
<1>9. e \in [Region -> Entries \cup {NoEntry}]
      /\ \A r \in Region : e[r].frame = m[pt].ent[r].frame /\ ~e[r].w
  BY <1>1, Protects
<1> HIDE DEF e
<1>10. k[s] = SpaceAt(pt, g) /\ k[g] = Group(pt, 1) /\ \A f \in Frames \ {s, g, pt} : k[f] = m[f]
  BY <1>0, <1>2, <1>3, <1>4, <1>7
<1>11. MemOK(k)
  BY <1>7, <1>8, <1>9, <1>10, Founds
<1>12. m[s].use = "space" /\ m[g].use = "free"
  OBVIOUS
<1> HIDE DEF pt
<1>13. Inert(m, k)
  BY <1>0, <1>10, <1>12 DEF Inert
<1>14. \A t \in Frames \ {s} : m[t].use = "space" => k[t] = m[t]
  BY <1>0, <1>10, <1>12
<1>15. k[s].use = "space" /\ k[s].pt = pt /\ k[g].use = "group" /\ k[g].pt = pt /\ k[pt].ent = e
  BY <1>8, <1>10, Shapes
<1>16. Soft(m, k, {})
  <2>1. ASSUME NEW t \in Frames, m[t].use = "space"
        PROVE  /\ k[t].use = "space" /\ k[t].pt = m[t].pt
               /\ m[t].pt # 0 => \A r \in Region :
                    /\ k[m[t].pt].ent[r].frame = m[m[t].pt].ent[r].frame
                    /\ k[m[t].pt].ent[r].w => m[m[t].pt].ent[r].w
    <3>1. k[t].use = "space" /\ k[t].pt = m[t].pt
      BY <1>14, <1>15, <2>1 DEF pt
    <3>2. CASE m[t].pt = pt
      BY <1>9, <1>15, <3>1, <3>2
    <3>3. CASE m[t].pt # pt /\ m[t].pt # 0
      <4>1. m[t].pt \in Frames /\ m[m[t].pt].use = "table"
        BY <2>1, <3>3, OfSpace
      <4>2. k[m[t].pt] = m[m[t].pt]
        BY <1>10, <1>12, <3>3, <4>1
      <4> QED
        BY <3>1, <4>2
    <3> QED
      BY <3>1, <3>2, <3>3
  <2> QED
    BY <1>13, <2>1 DEF Soft
<1> QED
  BY <1>10, <1>11, <1>14, <1>15, <1>16 DEF pt

\* The tables of a group are protected already.
LEMMA StaysProtected ==
  ASSUME NEW m, MemOK(m), NEW g \in Frames, m[g].use = "group"
  PROVE  Protected(m, g) = m
<1> DEFINE pt == m[g].pt
           k == Protected(m, g)
<1>1. OfFrames(m) /\ pt \in Frames /\ m[pt].use = "table"
  BY OfGroup DEF MemOK, CellsOK
<1>2. m[pt] = Table(m[pt].ent) /\ m[pt].ent \in [Region -> Entries \cup {NoEntry}]
  BY <1>1, CellShapes DEF MemOK, CellsOK
<1>3. \A r \in Region : ~m[pt].ent[r].w
  BY DEF MemOK, GroupsOK
<1>4. ReadOnly(m[pt].ent) = m[pt].ent
  BY <1>2, <1>3, Protects
<1>5. k[pt] = [m[pt] EXCEPT !.ent = ReadOnly(m[pt].ent)] /\ OfFrames(k)
      /\ \A f \in Frames \ {pt} : k[f] = m[f]
  BY <1>1 DEF Protected, OfFrames
<1> HIDE DEF k, pt
<1>6. k[pt] = m[pt]
  BY <1>2, <1>4, <1>5, Edits
<1>7. k = m
  BY <1>1, <1>5, <1>6, SameFrames
<1> QED
  BY <1>7 DEF k

\* Keeping tables is a way of keeping what they map,
LEMMA SameSoft ==
  ASSUME NEW m, NEW k, NEW X, Same(m, k, X)
  PROVE  Soft(m, k, X)
BY DEF Same, Soft

\* and one change may follow the other.
LEMMA SoftTwice ==
  ASSUME NEW m, NEW k, NEW l, NEW X, Soft(m, k, {}), Soft(k, l, X)
  PROVE  Soft(m, l, X)
<1>1. Inert(m, l)
  BY DEF Soft, Inert
<1>2. ASSUME NEW t \in Frames \ X, m[t].use = "space"
      PROVE  /\ l[t].use = "space" /\ l[t].pt = m[t].pt
             /\ m[t].pt # 0 => \A r \in Region :
                  /\ l[m[t].pt].ent[r].frame = m[m[t].pt].ent[r].frame
                  /\ l[m[t].pt].ent[r].w => m[m[t].pt].ent[r].w
  <2>1. /\ k[t].use = "space" /\ k[t].pt = m[t].pt
        /\ m[t].pt # 0 => \A r \in Region :
             /\ k[m[t].pt].ent[r].frame = m[m[t].pt].ent[r].frame
             /\ k[m[t].pt].ent[r].w => m[m[t].pt].ent[r].w
    BY <1>2 DEF Soft
  <2>2. /\ l[t].use = "space" /\ l[t].pt = k[t].pt
        /\ k[t].pt # 0 => \A r \in Region :
             /\ l[k[t].pt].ent[r].frame = k[k[t].pt].ent[r].frame
             /\ l[k[t].pt].ent[r].w => k[k[t].pt].ent[r].w
    BY <1>2, <2>1 DEF Soft
  <2> QED
    BY <2>1, <2>2
<1> QED
  BY <1>1, <1>2 DEF Soft

\* Joining a group, as the others see it.
LEMMA JoinsGroup ==
  ASSUME NEW m, MemOK(m), NEW s \in Frames, m[s].use = "space", m[s].cow = 0, m[s].pt # 0,
         NEW g \in Frames, m[g].use = "group", NEW k, Is(k, JoinGroup(m, s, g))
  PROVE  MemOK(k) /\ Same(m, k, {s}) /\ k[s].use = "space" /\ k[s].pt = m[g].pt
<1>1. /\ OfFrames(k) /\ k[s] = SpaceAt(m[g].pt, g) /\ k[g] = Group(m[g].pt, m[g].refs + 1)
      /\ k[m[s].pt] = Free /\ \A f \in Frames \ {s, g, m[s].pt} : k[f] = m[f]
  BY JoinAt
<1>2. MemOK(k)
  BY <1>1, Joins
<1>3. k[s].use = "space" /\ k[s].pt = m[g].pt
  BY <1>1, Shapes
<1>4. m[s].pt \in Frames /\ m[m[s].pt].use = "table"
  BY OfSpace
<1>5. \A t \in Frames \ {s} : m[t].use = "space" => m[t].pt # m[s].pt
  BY DEF MemOK, SharesOK
<1>6. Inert(m, k)
  BY <1>1, <1>4 DEF Inert
<1>7. ASSUME NEW t \in Frames \ {s}, m[t].use = "space"
      PROVE  k[t] = m[t] /\ (m[t].pt # 0 => k[m[t].pt] = m[m[t].pt])
  <2>1. k[t] = m[t]
    BY <1>1, <1>4, <1>7
  <2>2. m[t].pt # 0 => m[t].pt \in Frames /\ m[m[t].pt].use = "table" /\ m[t].pt # m[s].pt
    BY <1>5, <1>7, OfSpace
  <2> QED
    BY <1>1, <2>1, <2>2
<1>8. Same(m, k, {s})
  BY <1>6, <1>7 DEF Same
<1> QED
  BY <1>2, <1>3, <1>8

\* space_share_user(): the child gets the parent's tables, which lose write access,
LEMMA ShareOk ==
  ASSUME NEW m, MemOK(m), NEW c \in Frames, m[c].use = "space", m[c].cow = 0, m[c].pt # 0,
         NEW s \in Frames, m[s].use = "space", m[s].pt # 0, c # s,
         space_share_user(m, c, s).ok, NEW k, Is(k, space_share_user(m, c, s).m)
  PROVE  /\ MemOK(k) /\ Soft(m, k, {c}) /\ k[c].use = "space" /\ k[c].pt = m[s].pt
<1> DEFINE m1 == LetGo(m, s)
           new == m1[s].cow = 0
           g == IF new THEN kframe_alloc(m1) ELSE m1[s].cow
           m2 == IF new THEN Founded(m1, s, g) ELSE m1
           m3 == Protected(m2, g)
<1>1. /\ MemOK(m1) /\ Same(m, m1, {}) /\ m1[s].use = "space" /\ m1[s].pt = m[s].pt
      /\ m1[s].cow # 0 => m1[m1[s].cow].pt = m1[s].pt
      /\ m1[c] = m[c]
  <2> HIDE DEF m1
  <2>1. Is(m1, LetGo(m, s))
    BY DEF Is, m1
  <2> QED
    BY <2>1, LetsGo
<1>2. Is(k, JoinGroup(m3, c, g)) /\ (new => Room(m1, 1))
  BY DEF space_share_user, LetGo, Founded, Protected, Is
<1>a. c # s /\ m[c].use = "space" /\ m[c].cow = 0 /\ m[c].pt # 0 /\ m[s].pt # 0
  OBVIOUS
<1> HIDE DEF m1
<1>3. /\ MemOK(m3) /\ Soft(m1, m3, {}) /\ g \in Frames /\ m3[g].use = "group"
      /\ m3[g].pt = m[s].pt /\ m3[c] = m[c]
  <2>1. CASE new
    <3>1. g = kframe_alloc(m1) /\ Is(m3, Protected(Founded(m1, s, g), g))
      BY <2>1 DEF Is
    <3>2. g \in Frames /\ m1[g].use = "free"
      BY <1>2, <2>1, <3>1, Alloc
    <3>3. m1[s].cow = 0 /\ m1[s].pt # 0
      BY <1>1, <1>a, <2>1
    <3> HIDE DEF m3, g
    <3>4. /\ MemOK(m3) /\ Soft(m1, m3, {}) /\ m3[g].use = "group" /\ m3[g].pt = m1[s].pt
          /\ \A t \in Frames \ {s} : m1[t].use = "space" => m3[t] = m1[t]
      BY <1>1, <3>1, <3>2, <3>3, FoundsGroup
    <3> QED
      BY <1>1, <1>a, <3>2, <3>4
  <2>2. CASE ~new
    <3>1. g = m1[s].cow /\ m2 = m1 /\ g # 0
      BY <2>2
    <3>2. g \in Frames /\ m1[g].use = "group"
      BY <1>1, <3>1, OfSpace
    <3>3. m3 = Protected(m1, g)
      BY <3>1
    <3> HIDE DEF m3, g, m2
    <3>4. m3 = m1
      BY <1>1, <3>2, <3>3, StaysProtected
    <3>5. Soft(m1, m1, {})
      BY DEF Soft, Inert
    <3> QED
      BY <1>1, <3>1, <3>2, <3>4, <3>5
  <2> QED
    BY <2>1, <2>2
<1> HIDE DEF m3, g
<1>4. MemOK(k) /\ Same(m3, k, {c}) /\ k[c].use = "space" /\ k[c].pt = m3[g].pt
  BY <1>2, <1>3, <1>a, JoinsGroup
<1>5. Soft(m, k, {c})
  <2>1. Soft(m, m1, {})
    BY <1>1, SameSoft
  <2>2. Soft(m3, k, {c})
    BY <1>4, SameSoft
  <2>3. Soft(m1, k, {c})
    BY <1>3, <2>2, SoftTwice
  <2> QED
    BY <2>1, <2>3, SoftTwice
<1> QED
  BY <1>3, <1>4, <1>5

\* or there is no room for a group.
LEMMA ShareFails ==
  ASSUME NEW m, MemOK(m), NEW c \in Frames, m[c].use = "space",
         NEW s \in Frames, m[s].use = "space", m[s].pt # 0, c # s,
         ~space_share_user(m, c, s).ok, NEW k, Is(k, space_share_user(m, c, s).m)
  PROVE  MemOK(k) /\ Same(m, k, {}) /\ k[c] = m[c]
<1>1. Is(k, LetGo(m, s))
  BY DEF space_share_user, LetGo, Is
<1> QED
  BY <1>1, LetsGo

-----------------------------------------------------------------------------
(* What the processes have                                                 *)

\* A process maps the same frames, and what it maps and was given is still there.
Quiet(m, k, T) ==
  \A p \in PresentIn(T) :
    /\ k[T[p].sp].use = "space" /\ k[T[p].sp].pt # 0
    /\ T[p].kstack # 0 => k[T[p].kstack].use = "kstack"
    /\ \A r \in Region :
         /\ Ent(k, T, p, r) \in Entries /\ Ent(k, T, p, r).frame = Ent(m, T, p, r).frame
         /\ Ent(k, T, p, r).w => Ent(m, T, p, r).w
         /\ k[Ent(m, T, p, r).frame].use = "data" /\ k[T[p].base[r]].use = "data"

\* It reads the same, and through the same entries.
Reads(m, k, T) ==
  \A p \in PresentIn(T), r \in Region : k[Ent(k, T, p, r).frame] = m[Ent(m, T, p, r).frame]
Steady(m, k, T) == \A p \in PresentIn(T), r \in Region : Ent(k, T, p, r) = Ent(m, T, p, r)

\* Then it has what it had.
LEMMA QuietHeld ==
  ASSUME NEW m, NEW k, NEW T, HeldOK(m, T), Quiet(m, k, T)
  PROVE  HeldOK(k, T)
<1>1. HoldOK(k, T)
  BY DEF HeldOK, HoldOK, Quiet
<1>2. PagesOK(k, T)
  BY DEF Quiet, PagesOK
<1>3. OnceOK(k, T)
  <2> SUFFICES ASSUME NEW p \in PresentIn(T), NEW q \in PresentIn(T), NEW r \in Region, NEW s \in Region,
                      Ent(k, T, p, r).w, Ent(k, T, q, s).frame = Ent(k, T, p, r).frame
               PROVE  q = p /\ s = r
    BY DEF OnceOK
  <2>1. Ent(m, T, p, r).w /\ Ent(m, T, q, s).frame = Ent(m, T, p, r).frame
    BY DEF Quiet
  <2> QED
    BY <2>1 DEF HeldOK, OnceOK
<1>4. BasesOK(k, T)
  <2> SUFFICES ASSUME NEW p \in PresentIn(T), NEW r \in Region
      PROVE /\ T[p].base[r] \in Frames /\ k[T[p].base[r]].use = "data"
            /\ \A q \in PresentIn(T), s \in Region :
                 /\ Ent(k, T, q, s).frame = T[p].base[r] => T[q].base = T[p].base
                 /\ T[p].owns /\ T[q].owns /\ T[q].base[s] = T[p].base[r] => q = p
    BY DEF BasesOK
  <2>1. /\ T[p].base[r] \in Frames
        /\ \A q \in PresentIn(T), s \in Region :
             /\ Ent(m, T, q, s).frame = T[p].base[r] => T[q].base = T[p].base
             /\ T[p].owns /\ T[q].owns /\ T[q].base[s] = T[p].base[r] => q = p
    BY DEF HeldOK, BasesOK
  <2>2. k[T[p].base[r]].use = "data"
    BY DEF Quiet
  <2>3. \A q \in PresentIn(T), s \in Region : Ent(k, T, q, s).frame = Ent(m, T, q, s).frame
    BY DEF Quiet
  <2> QED
    BY <2>1, <2>2, <2>3
<1> QED
  BY <1>1, <1>2, <1>3, <1>4 DEF HeldOK

\* Of one process: its space, its tables and their entries.
LEMMA OfProcess ==
  ASSUME NEW m, MemOK(m), NEW T, HeldOK(m, T), NEW p \in PresentIn(T)
  PROVE  /\ T[p].sp \in Frames /\ m[T[p].sp].use = "space"
         /\ m[T[p].sp].pt # 0 /\ m[T[p].sp].pt \in Frames /\ m[m[T[p].sp].pt].use = "table"
         /\ \A r \in Region : /\ Ent(m, T, p, r) \in Entries /\ Ent(m, T, p, r).frame \in Frames
                              /\ m[Ent(m, T, p, r).frame].use = "data"
                              /\ T[p].base[r] \in Frames /\ m[T[p].base[r]].use = "data"
<1>1. T[p].sp \in Frames /\ m[T[p].sp].use = "space" /\ m[T[p].sp].pt # 0
  BY DEF HeldOK, HoldOK
<1>2. m[T[p].sp].pt \in Frames /\ m[m[T[p].sp].pt].use = "table"
  BY <1>1, OfSpace
<1>3. \A r \in Region : Ent(m, T, p, r) \in Entries /\ m[Ent(m, T, p, r).frame].use = "data"
  BY DEF HeldOK, PagesOK
<1>4. \A e \in Entries : e.frame \in Frames
  BY DEF Entries
<1>5. \A r \in Region : T[p].base[r] \in Frames /\ m[T[p].base[r]].use = "data"
  BY DEF HeldOK, BasesOK
<1> QED
  BY <1>1, <1>2, <1>3, <1>4, <1>5

\* An entry that maps a frame.
LEMMA Mapping ==
  ASSUME NEW e \in Entries \cup {NoEntry}, e.frame \in Frames
  PROVE  e \in Entries
BY FramesFinite DEF NoEntry

\* The kernel stack of a process is a frame.
LEMMA StackFrame ==
  ASSUME NEW T \in [Pids -> Tasks], NEW p \in PresentIn(T), T[p].kstack # 0
  PROVE  T[p].kstack \in Frames
BY FramesFinite DEF PresentIn, Tasks

\* A change that leaves the spaces of the processes their tables.
LEMMA SoftHeld ==
  ASSUME NEW m, MemOK(m), NEW k, MemOK(k), NEW T \in [Pids -> Tasks], HeldOK(m, T),
         NEW X, Soft(m, k, X), \A p \in PresentIn(T) : T[p].sp \notin X
  PROVE  HeldOK(k, T) /\ Reads(m, k, T)
<1>1. ASSUME NEW p \in PresentIn(T)
      PROVE  /\ k[T[p].sp].use = "space" /\ k[T[p].sp].pt # 0
             /\ T[p].kstack # 0 => k[T[p].kstack].use = "kstack"
             /\ \A r \in Region :
                  /\ Ent(k, T, p, r) \in Entries /\ Ent(k, T, p, r).frame = Ent(m, T, p, r).frame
                  /\ Ent(k, T, p, r).w => Ent(m, T, p, r).w
                  /\ k[Ent(m, T, p, r).frame] = m[Ent(m, T, p, r).frame]
                  /\ k[Ent(m, T, p, r).frame].use = "data" /\ k[T[p].base[r]].use = "data"
  <2> DEFINE s == T[p].sp
  <2>1. /\ s \in Frames /\ m[s].use = "space"
        /\ m[s].pt # 0 /\ m[s].pt \in Frames /\ m[m[s].pt].use = "table"
        /\ \A r \in Region : /\ Ent(m, T, p, r) \in Entries /\ Ent(m, T, p, r).frame \in Frames
                             /\ m[Ent(m, T, p, r).frame].use = "data"
                             /\ T[p].base[r] \in Frames /\ m[T[p].base[r]].use = "data"
    BY OfProcess
  <2>2. s \notin X
    OBVIOUS
  <2>3. /\ k[s].use = "space" /\ k[s].pt = m[s].pt
        /\ \A r \in Region : /\ k[m[s].pt].ent[r].frame = m[m[s].pt].ent[r].frame
                             /\ k[m[s].pt].ent[r].w => m[m[s].pt].ent[r].w
    <3> HIDE DEF s
    <3> QED
      BY <2>1, <2>2 DEF Soft
  <2>4. k[m[s].pt].use = "table"
    <3> HIDE DEF s
    <3> QED
      BY <2>1, <2>3, OfSpace
  <2>5. k[m[s].pt].ent \in [Region -> Entries \cup {NoEntry}]
    BY <2>1, <2>4, CellShapes DEF MemOK, CellsOK
  <2>6. ASSUME NEW r \in Region
        PROVE  /\ Ent(k, T, p, r) \in Entries /\ Ent(k, T, p, r).frame = Ent(m, T, p, r).frame
               /\ Ent(k, T, p, r).w => Ent(m, T, p, r).w
    <3>1. Ent(k, T, p, r) = k[m[s].pt].ent[r] /\ Ent(m, T, p, r) = m[m[s].pt].ent[r]
      BY <2>3 DEF Ent
    <3>2. Ent(k, T, p, r) \in Entries \cup {NoEntry}
      BY <2>5, <3>1
    <3>3. Ent(k, T, p, r).frame = Ent(m, T, p, r).frame /\ (Ent(k, T, p, r).w => Ent(m, T, p, r).w)
      BY <2>3, <3>1
    <3> QED
      BY <2>1, <3>2, <3>3, Mapping
  <2>7. \A r \in Region : k[Ent(m, T, p, r).frame] = m[Ent(m, T, p, r).frame]
                          /\ k[T[p].base[r]] = m[T[p].base[r]]
    BY <2>1 DEF Soft, Inert
  <2>8. ASSUME T[p].kstack # 0 PROVE k[T[p].kstack].use = "kstack"
    <3>1. m[T[p].kstack].use = "kstack" /\ T[p].kstack \in Frames
      BY <2>8, StackFrame DEF HeldOK, HoldOK
    <3> QED
      BY <3>1 DEF Soft, Inert
  <2> QED
    BY <2>1, <2>3, <2>6, <2>7, <2>8
<1>2. Quiet(m, k, T)
  BY <1>1 DEF Quiet
<1>3. HeldOK(k, T)
  BY <1>2, QuietHeld
<1>4. Reads(m, k, T)
  BY <1>1 DEF Reads
<1> QED
  BY <1>3, <1>4

\* One that leaves them the tables as they are.
LEMMA SameHeld ==
  ASSUME NEW m, MemOK(m), NEW k, MemOK(k), NEW T \in [Pids -> Tasks], HeldOK(m, T),
         NEW X, Same(m, k, X), \A p \in PresentIn(T) : T[p].sp \notin X
  PROVE  HeldOK(k, T) /\ Reads(m, k, T) /\ Steady(m, k, T)
<1>1. HeldOK(k, T) /\ Reads(m, k, T)
  BY SameSoft, SoftHeld
<1>2. ASSUME NEW p \in PresentIn(T), NEW r \in Region PROVE Ent(k, T, p, r) = Ent(m, T, p, r)
  <2>1. T[p].sp \in Frames /\ m[T[p].sp].use = "space" /\ m[T[p].sp].pt # 0 /\ T[p].sp \notin X
    BY OfProcess
  <2>2. k[T[p].sp].pt = m[T[p].sp].pt /\ k[m[T[p].sp].pt] = m[m[T[p].sp].pt]
    BY <2>1 DEF Same
  <2> QED
    BY <2>2 DEF Ent
<1>3. Steady(m, k, T)
  BY <1>2 DEF Steady
<1> QED
  BY <1>1, <1>3

\* Data and kernel stacks that no process has are freed.
LEMMA FreeData ==
  ASSUME NEW m, MemOK(m), NEW T \in [Pids -> Tasks], HeldOK(m, T), NEW D,
         \A f \in D \cap Frames : m[f].use \in {"data", "kstack"},
         \A p \in PresentIn(T) : T[p].kstack # 0 => T[p].kstack \notin D,
         \A p \in PresentIn(T), r \in Region : Ent(m, T, p, r).frame \notin D /\ T[p].base[r] \notin D
  PROVE  /\ MemOK(kfree(m, D)) /\ HeldOK(kfree(m, D), T)
         /\ Reads(m, kfree(m, D), T) /\ Steady(m, kfree(m, D), T)
<1> DEFINE k == kfree(m, D)
           E == D \cap Frames
<1>0. CellsOK(m)
  BY DEF MemOK
<1>1. k = kfree(m, E)
  BY DEF kfree
<1>2. Shut(m, E)
  <2>1. \A f \in E : f \in Frames /\ f # 0 /\ m[f].use \in {"data", "kstack"}
    BY FramesFinite
  <2> HIDE DEF E
  <2>2. ASSUME NEW s \in Frames, m[s].use = "space" PROVE m[s].pt \notin E /\ m[s].cow \notin E
    BY <2>1, <2>2, OfSpace
  <2>3. ASSUME NEW g \in Frames, m[g].use = "group" PROVE m[g].pt \notin E
    BY <2>1, <2>3, OfGroup
  <2> QED
    BY <2>1, <2>2, <2>3 DEF Shut
<1>3. MemOK(k)
  <2> HIDE DEF E, k
  <2> QED
    BY <1>1, <1>2, Shrinks
<1>4. \A f \in Frames : k[f] = IF f \in D THEN Free ELSE m[f]
  BY <1>0, Freed
<1> HIDE DEF k
<1>5. ASSUME NEW p \in PresentIn(T)
      PROVE  /\ k[T[p].sp] = m[T[p].sp] /\ k[m[T[p].sp].pt] = m[m[T[p].sp].pt]
             /\ T[p].kstack # 0 => k[T[p].kstack].use = "kstack"
             /\ \A r \in Region : /\ k[Ent(m, T, p, r).frame] = m[Ent(m, T, p, r).frame]
                                  /\ k[T[p].base[r]] = m[T[p].base[r]]
  <2>1. /\ T[p].sp \in Frames /\ m[T[p].sp].use = "space"
        /\ m[T[p].sp].pt # 0 /\ m[T[p].sp].pt \in Frames /\ m[m[T[p].sp].pt].use = "table"
        /\ \A r \in Region : Ent(m, T, p, r).frame \in Frames /\ T[p].base[r] \in Frames
    BY OfProcess
  <2>2. k[T[p].sp] = m[T[p].sp] /\ k[m[T[p].sp].pt] = m[m[T[p].sp].pt]
    BY <1>4, <2>1
  <2>3. ASSUME T[p].kstack # 0 PROVE k[T[p].kstack].use = "kstack"
    <3>1. m[T[p].kstack].use = "kstack" /\ T[p].kstack \in Frames
      BY <2>3, StackFrame DEF HeldOK, HoldOK
    <3> QED
      BY <1>4, <2>3, <3>1
  <2>4. \A r \in Region : /\ k[Ent(m, T, p, r).frame] = m[Ent(m, T, p, r).frame]
                          /\ k[T[p].base[r]] = m[T[p].base[r]]
    BY <1>4, <2>1
  <2> QED
    BY <2>2, <2>3, <2>4
<1>6. \A p \in PresentIn(T), r \in Region : Ent(k, T, p, r) = Ent(m, T, p, r)
  BY <1>5 DEF Ent
<1>7. Quiet(m, k, T)
  <2> SUFFICES ASSUME NEW p \in PresentIn(T)
      PROVE /\ k[T[p].sp].use = "space" /\ k[T[p].sp].pt # 0
            /\ T[p].kstack # 0 => k[T[p].kstack].use = "kstack"
            /\ \A r \in Region :
                 /\ Ent(k, T, p, r) \in Entries /\ Ent(k, T, p, r).frame = Ent(m, T, p, r).frame
                 /\ Ent(k, T, p, r).w => Ent(m, T, p, r).w
                 /\ k[Ent(m, T, p, r).frame].use = "data" /\ k[T[p].base[r]].use = "data"
    BY DEF Quiet
  <2>1. /\ m[T[p].sp].use = "space" /\ m[T[p].sp].pt # 0
        /\ \A r \in Region : /\ Ent(m, T, p, r) \in Entries
                             /\ m[Ent(m, T, p, r).frame].use = "data" /\ m[T[p].base[r]].use = "data"
    BY OfProcess
  <2> QED
    BY <1>5, <1>6, <2>1
<1>8. HeldOK(k, T)
  BY <1>7, QuietHeld
<1>9. Reads(m, k, T) /\ Steady(m, k, T)
  BY <1>5, <1>6 DEF Reads, Steady
<1> QED
  BY <1>3, <1>8, <1>9 DEF k

\* unshare(): tables of its own, with the same entries.
LEMMA Unshares ==
  ASSUME NEW m, MemOK(m), NEW s \in Frames, m[s].use = "space", m[s].pt # 0,
         unshare(m, s).ok, NEW k, Is(k, unshare(m, s).m)
  PROVE  /\ MemOK(k) /\ Same(m, k, {s}) /\ k[s].use = "space" /\ k[s].pt # 0 /\ k[k[s].pt] = m[m[s].pt]
         /\ k[s].cow = m[s].cow /\ (m[s].cow # 0 => OutOfGroup(k, s))
         /\ k[s].pt = m[s].pt \/ m[k[s].pt].use = "free"
<1>1. CASE m[s].cow = 0 \/ OutOfGroup(m, s)
  <2>1. k = m
    BY <1>1 DEF unshare, Is
  <2>2. Same(m, m, {s})
    BY DEF Same, Inert
  <2>3. m[s].cow # 0 => OutOfGroup(m, s)
    BY <1>1
  <2> QED
    BY <2>1, <2>2, <2>3
<1>2. CASE m[s].cow # 0 /\ ~OutOfGroup(m, s)
  <2> DEFINE pt == kframe_alloc(m)
             g == m[s].cow
             e == m[m[s].pt].ent
  <2>1. Room(m, 1) /\ Is(k, [m EXCEPT ![pt] = m[m[s].pt], ![s].pt = pt])
    BY <1>2 DEF unshare, Is
  <2>2. pt \in Frames /\ m[pt].use = "free" /\ pt # 0
    BY <2>1, Alloc, FramesFinite
  <2> HIDE DEF pt
  <2>3. OfFrames(m) /\ m[s] = SpaceAt(m[s].pt, g) /\ m[s].pt \in Frames /\ m[m[s].pt].use = "table"
    BY OfSpace DEF MemOK, CellsOK
  <2>4. m[m[s].pt] = Table(e) /\ e \in [Region -> Entries \cup {NoEntry}]
    BY <2>3, CellShapes DEF MemOK, CellsOK
  <2>5. g \in Frames /\ m[g].use = "group" /\ m[g].pt = m[s].pt
    BY <1>2, OfSpace DEF OutOfGroup
  <2>6. pt # s /\ OfFrames(k) /\ k[pt] = m[m[s].pt] /\ \A f \in Frames \ {s, pt} : k[f] = m[f]
    BY <2>1, <2>2, <2>3 DEF OfFrames, Is
  <2>7. k[s] = SpaceAt(pt, g)
    <3>1. k[s] = [m[s] EXCEPT !.pt = pt]
      BY <2>1, <2>2, <2>3, <2>6 DEF OfFrames, Is
    <3> HIDE DEF g
    <3> QED
      BY <2>3, <3>1, Edits
  <2>8. MemOK(k)
    <3> HIDE DEF e
    <3> QED
      BY <2>2, <2>3, <2>4, <2>6, <2>7, Moves
  <2>9. k[s].use = "space" /\ k[s].pt = pt /\ k[s].cow = g
    BY <2>7, Shapes
  <2>a. m[s].use = "space"
    OBVIOUS
  <2>10. k[g] = m[g] /\ m[s].pt # pt
    BY <2>2, <2>3, <2>5, <2>6, <2>a
  <2>11. OutOfGroup(k, s)
    BY <1>2, <2>5, <2>9, <2>10 DEF OutOfGroup
  <2>12. Inert(m, k)
    BY <2>2, <2>6, <2>a DEF Inert
  <2>13. ASSUME NEW t \in Frames \ {s}, m[t].use = "space"
         PROVE  k[t] = m[t] /\ (m[t].pt # 0 => k[m[t].pt] = m[m[t].pt])
    BY <2>2, <2>6, <2>13, <2>a, OfSpace
  <2>14. Same(m, k, {s})
    BY <2>12, <2>13 DEF Same
  <2> QED
    BY <2>2, <2>6, <2>8, <2>9, <2>11, <2>14
<1> QED
  BY <1>1, <1>2

\* The process that has the space goes on with what it had.
LEMMA UnsharesHeld ==
  ASSUME NEW m, MemOK(m), NEW T \in [Pids -> Tasks], HeldOK(m, T), NEW p \in PresentIn(T),
         NEW k, MemOK(k), NEW s, s = T[p].sp, Same(m, k, {s}),
         k[s].use = "space", k[s].pt # 0, k[k[s].pt] = m[m[s].pt]
  PROVE  HeldOK(k, T) /\ Reads(m, k, T) /\ Steady(m, k, T)
<1>1. ASSUME NEW q \in PresentIn(T)
      PROVE  k[T[q].sp].use = "space" /\ k[T[q].sp].pt # 0 /\ k[k[T[q].sp].pt] = m[m[T[q].sp].pt]
  <2>1. CASE q = p
    BY <2>1
  <2>2. CASE q # p
    <3>1. T[q].sp # s
      BY <2>2 DEF HeldOK, HoldOK
    <3>2. T[q].sp \in Frames /\ m[T[q].sp].use = "space" /\ m[T[q].sp].pt # 0
      BY OfProcess
    <3> QED
      BY <3>1, <3>2 DEF Same
  <2> QED
    BY <2>1, <2>2
<1>2. \A q \in PresentIn(T), r \in Region : Ent(k, T, q, r) = Ent(m, T, q, r)
  BY <1>1 DEF Ent
<1>3. \A q \in PresentIn(T), r \in Region :
        /\ k[Ent(m, T, q, r).frame] = m[Ent(m, T, q, r).frame]
        /\ k[T[q].base[r]] = m[T[q].base[r]]
  <2> TAKE q \in PresentIn(T), r \in Region
  <2>1. /\ Ent(m, T, q, r).frame \in Frames /\ m[Ent(m, T, q, r).frame].use = "data"
        /\ T[q].base[r] \in Frames /\ m[T[q].base[r]].use = "data"
    BY OfProcess
  <2> QED
    BY <2>1 DEF Same, Inert
<1>4. Quiet(m, k, T)
  <2> SUFFICES ASSUME NEW q \in PresentIn(T)
      PROVE /\ k[T[q].sp].use = "space" /\ k[T[q].sp].pt # 0
            /\ T[q].kstack # 0 => k[T[q].kstack].use = "kstack"
            /\ \A r \in Region :
                 /\ Ent(k, T, q, r) \in Entries /\ Ent(k, T, q, r).frame = Ent(m, T, q, r).frame
                 /\ Ent(k, T, q, r).w => Ent(m, T, q, r).w
                 /\ k[Ent(m, T, q, r).frame].use = "data" /\ k[T[q].base[r]].use = "data"
    BY DEF Quiet
  <2>1. \A r \in Region : /\ Ent(m, T, q, r) \in Entries
                          /\ m[Ent(m, T, q, r).frame].use = "data" /\ m[T[q].base[r]].use = "data"
    BY OfProcess
  <2>2. ASSUME T[q].kstack # 0 PROVE k[T[q].kstack].use = "kstack"
    <3>1. m[T[q].kstack].use = "kstack" /\ T[q].kstack \in Frames
      BY <2>2, StackFrame DEF HeldOK, HoldOK
    <3> QED
      BY <3>1 DEF Same, Inert
  <2> QED
    BY <1>1, <1>2, <1>3, <2>1, <2>2
<1>5. HeldOK(k, T)
  BY <1>4, QuietHeld
<1>6. Reads(m, k, T) /\ Steady(m, k, T)
  BY <1>2, <1>3 DEF Reads, Steady
<1> QED
  BY <1>5, <1>6

\* map_page(): a process that has tables to itself gets a page nobody maps.
LEMMA Remaps ==
  ASSUME NEW m, MemOK(m), NEW T \in [Pids -> Tasks], HeldOK(m, T), NEW p \in PresentIn(T),
         NEW r \in Region, NEW s, Is(s, T[p].sp), m[s].cow # 0, OutOfGroup(m, s),
         NEW n \in Frames, m[n].use = "data",
         \A q \in PresentIn(T), i \in Region : Ent(m, T, q, i).frame # n /\ T[q].base[i] # n,
         NEW k, Is(k, map_page(m, s, r, n))
  PROVE  /\ MemOK(k) /\ HeldOK(k, T) /\ Inert(m, k) /\ k[s] = m[s]
         /\ Ent(k, T, p, r) = [frame |-> n, w |-> TRUE]
         /\ \A q \in PresentIn(T), i \in Region : q # p \/ i # r => Ent(k, T, q, i) = Ent(m, T, q, i)
<1> DEFINE pt == m[s].pt
           x == [frame |-> n, w |-> TRUE]
           e == [m[pt].ent EXCEPT ![r] = x]
<1>z. s = T[p].sp
  BY DEF Is
<1>0. s \in Frames /\ m[s].use = "space" /\ pt # 0 /\ pt \in Frames /\ m[pt].use = "table"
      /\ OfFrames(m) /\ m[pt] = Table(m[pt].ent) /\ m[pt].ent \in [Region -> Entries \cup {NoEntry}]
  BY <1>z, OfProcess, CellShapes DEF MemOK, CellsOK
<1>1. Is(k, [m EXCEPT ![pt].ent[r] = x])
  <2>1. m[pt].ent[r].frame # n
    BY <1>z DEF Ent
  <2> QED
    BY <2>1 DEF map_page, Is
<1>2. OfFrames(k) /\ \A f \in Frames \ {pt} : k[f] = m[f]
  BY <1>0, <1>1 DEF OfFrames, Is
<1>3. k[pt] = Table(e)
  <2>1. k[pt] = [m[pt] EXCEPT !.ent = [m[pt].ent EXCEPT ![r] = x]]
    BY <1>0, <1>1 DEF OfFrames, Is
  <2>2. k[pt] = [m[pt] EXCEPT !.ent = e]
    BY <2>1
  <2> HIDE DEF e, pt
  <2> QED
    BY <1>0, <2>2, Edits
<1>4. x \in Entries /\ e \in [Region -> Entries \cup {NoEntry}] /\ e[r] = x
      /\ \A i \in Region \ {r} : e[i] = m[pt].ent[i]
  <2>1. x \in Entries
    BY DEF Entries
  <2> HIDE DEF x, pt
  <2> QED
    BY <1>0, <2>1
<1>5. k[pt].use = "table" /\ k[pt].ent = e
  BY <1>3, Shapes
<1>6. CellsOK(k)
  <2>1. Cell(k[pt])
    BY <1>3, <1>4, MadeCells
  <2> HIDE DEF pt
  <2> QED
    BY <1>2, <2>1 DEF MemOK, CellsOK
<1>7. \A g \in Frames : m[g].use = "group" => m[g].pt # pt
  BY <1>0 DEF MemOK, SharesOK, OutOfGroup
<1>8. \A t \in Frames \ {s} : m[t].use = "space" => m[t].pt # pt
  BY <1>0 DEF MemOK, SharesOK, OutOfGroup
<1>9. Fills(m, k)
  BY <1>0, <1>2, <1>5, <1>7 DEF Fills
<1>10. MemOK(k)
  BY <1>6, <1>9, Filled
<1>11. Inert(m, k) /\ k[s] = m[s]
  BY <1>0, <1>2 DEF Inert
<1>a. s = T[p].sp /\ m[n].use = "data"
      /\ \A q \in PresentIn(T), i \in Region : Ent(m, T, q, i).frame # n /\ T[q].base[i] # n
  BY <1>z
<1>12. Ent(k, T, p, r) = x /\ \A i \in Region \ {r} : Ent(k, T, p, i) = Ent(m, T, p, i)
  <2>1. \A i \in Region : Ent(k, T, p, i) = k[pt].ent[i] /\ Ent(m, T, p, i) = m[pt].ent[i]
    BY <1>11, <1>z DEF Ent
  <2> HIDE DEF e, x, pt
  <2> QED
    BY <1>4, <1>5, <2>1
<1> HIDE DEF e
<1>13. \A q \in PresentIn(T) \ {p} : k[T[q].sp] = m[T[q].sp] /\ \A i \in Region : Ent(k, T, q, i) = Ent(m, T, q, i)
  <2> TAKE q \in PresentIn(T) \ {p}
  <2>1. T[q].sp # s
    BY <1>a DEF HeldOK, HoldOK
  <2>2. T[q].sp \in Frames /\ m[T[q].sp].use = "space" /\ m[T[q].sp].pt \in Frames
    BY OfProcess
  <2>3. m[T[q].sp].pt # pt
    BY <1>8, <2>1, <2>2
  <2>4. k[T[q].sp] = m[T[q].sp] /\ k[m[T[q].sp].pt] = m[m[T[q].sp].pt]
    BY <1>0, <1>2, <2>2, <2>3
  <2> QED
    BY <2>4 DEF Ent
<1>14. \A q \in PresentIn(T), i \in Region : q # p \/ i # r => Ent(k, T, q, i) = Ent(m, T, q, i)
  BY <1>12, <1>13
<1>b. x.frame = n
  OBVIOUS
<1> HIDE DEF pt, x
<1>15. \A q \in PresentIn(T), i \in Region : k[Ent(m, T, q, i).frame].use = "data"
         /\ k[T[q].base[i]].use = "data" /\ T[q].base[i] \in Frames /\ Ent(m, T, q, i) \in Entries
  <2> TAKE q \in PresentIn(T), i \in Region
  <2>1. /\ Ent(m, T, q, i) \in Entries /\ Ent(m, T, q, i).frame \in Frames
        /\ m[Ent(m, T, q, i).frame].use = "data"
        /\ T[q].base[i] \in Frames /\ m[T[q].base[i]].use = "data"
    BY OfProcess
  <2> QED
    BY <1>11, <2>1 DEF Inert
<1>16. k[n].use = "data"
  BY <1>11, <1>a DEF Inert
<1>17. HoldOK(k, T)
  <2>1. \A q \in PresentIn(T) : k[T[q].sp] = m[T[q].sp]
    BY <1>11, <1>13, <1>a
  <2>2. ASSUME NEW q \in PresentIn(T), T[q].kstack # 0 PROVE k[T[q].kstack].use = "kstack"
    <3>1. m[T[q].kstack].use = "kstack" /\ T[q].kstack \in Frames
      BY <2>2, StackFrame DEF HeldOK, HoldOK
    <3> QED
      BY <1>11, <3>1 DEF Inert
  <2> QED
    BY <2>1, <2>2 DEF HeldOK, HoldOK
<1>18. PagesOK(k, T)
  <2> SUFFICES ASSUME NEW q \in PresentIn(T), NEW i \in Region
               PROVE  Ent(k, T, q, i) \in Entries /\ k[Ent(k, T, q, i).frame].use = "data"
    BY DEF PagesOK
  <2>1. CASE q = p /\ i = r
    BY <1>4, <1>12, <1>16, <1>b, <2>1
  <2>2. CASE q # p \/ i # r
    BY <1>14, <1>15, <2>2
  <2> QED
    BY <2>1, <2>2
<1>19. OnceOK(k, T)
  <2> SUFFICES ASSUME NEW q \in PresentIn(T), NEW u \in PresentIn(T), NEW i \in Region, NEW j \in Region,
                      Ent(k, T, q, i).w, Ent(k, T, u, j).frame = Ent(k, T, q, i).frame
               PROVE  u = q /\ j = i
    BY DEF OnceOK
  <2>1. CASE (q = p /\ i = r) /\ (u = p /\ j = r)
    BY <2>1
  <2>2. CASE (q = p /\ i = r) /\ ~(u = p /\ j = r)
    BY <1>12, <1>14, <1>a, <1>b, <2>2
  <2>3. CASE ~(q = p /\ i = r) /\ (u = p /\ j = r)
    BY <1>12, <1>14, <1>a, <1>b, <2>3
  <2>4. CASE ~(q = p /\ i = r) /\ ~(u = p /\ j = r)
    <3>1. Ent(m, T, q, i).w /\ Ent(m, T, u, j).frame = Ent(m, T, q, i).frame
      BY <1>14, <2>4
    <3> QED
      BY <3>1 DEF HeldOK, OnceOK
  <2> QED
    BY <2>1, <2>2, <2>3, <2>4
<1>20. BasesOK(k, T)
  <2> SUFFICES ASSUME NEW q \in PresentIn(T), NEW i \in Region
      PROVE /\ T[q].base[i] \in Frames /\ k[T[q].base[i]].use = "data"
            /\ \A u \in PresentIn(T), j \in Region :
                 /\ Ent(k, T, u, j).frame = T[q].base[i] => T[u].base = T[q].base
                 /\ T[q].owns /\ T[u].owns /\ T[u].base[j] = T[q].base[i] => u = q
    BY DEF BasesOK
  <2>1. \A u \in PresentIn(T), j \in Region :
             /\ Ent(m, T, u, j).frame = T[q].base[i] => T[u].base = T[q].base
             /\ T[q].owns /\ T[u].owns /\ T[u].base[j] = T[q].base[i] => u = q
    BY DEF HeldOK, BasesOK
  <2>2. \A u \in PresentIn(T), j \in Region :
             Ent(k, T, u, j).frame = T[q].base[i] => Ent(m, T, u, j).frame = T[q].base[i]
    BY <1>12, <1>14, <1>a, <1>b
  <2> QED
    BY <1>15, <2>1, <2>2
<1>21. HeldOK(k, T)
  BY <1>17, <1>18, <1>19, <1>20 DEF HeldOK
<1> QED
  BY <1>10, <1>11, <1>12, <1>14, <1>21 DEF x

\* space_cow_fault(): when it finds the frames it needs, the process reads what it read
\* before; entries other than the one it was called for change only if tables move.
LEMMA CowFaultOk ==
  ASSUME NEW m, MemOK(m), NEW T \in [Pids -> Tasks], HeldOK(m, T), NEW p \in PresentIn(T),
         NEW r \in Region, NEW s, Is(s, T[p].sp), space_cow_fault(m, s, r).ok,
         NEW k, Is(k, space_cow_fault(m, s, r).m)
  PROVE  /\ MemOK(k) /\ HeldOK(k, T) /\ Reads(m, k, T)
         /\ \A i \in Region \ {r} : Ent(k, T, p, i) = Ent(m, T, p, i)
<1> DEFINE e == m[m[s].pt].ent[r]
           n == kframe_alloc(m)
           m1 == [m EXCEPT ![n] = m[e.frame]]
           u == unshare(m1, s)
           m2 == u.m
<1>0. s = T[p].sp /\ e = Ent(m, T, p, r)
  BY DEF Is, Ent
<1>1. m[s].cow # 0 /\ Room(m, 1) /\ u.ok /\ Is(k, map_page(m2, s, r, n))
  BY DEF space_cow_fault, Is
<1>2. /\ s \in Frames /\ m[s].use = "space" /\ m[s].pt # 0
      /\ e.frame \in Frames /\ m[e.frame].use = "data"
  <2> HIDE DEF e
  <2> QED
    BY <1>0, OfProcess
<1>3. n \in Frames /\ m[n].use = "free"
  <2>1. Room(m, 1)
    BY <1>1
  <2> HIDE DEF n, e, m1, m2, u
  <2> QED
    BY <2>1, Alloc DEF n
<1> HIDE DEF n, e
<1>4. Cell(m[e.frame]) /\ OfFrames(m)
  BY <1>2 DEF MemOK, CellsOK
<1>5. m1[n] = m[e.frame] /\ \A f \in Frames \ {n} : m1[f] = m[f]
  BY <1>3, <1>4 DEF OfFrames
<1>6. MemOK(m1)
  BY <1>2, <1>3, <1>4, NewCell
<1> HIDE DEF m1
<1>7. Same(m, m1, {})
  <2>1. Inert(m, m1)
    BY <1>3, <1>5 DEF Inert
  <2>2. ASSUME NEW t \in Frames, m[t].use = "space" PROVE m1[t] = m[t] /\ (m[t].pt # 0 => m1[m[t].pt] = m[m[t].pt])
    BY <1>3, <1>5, <2>2, OfSpace
  <2> QED
    BY <2>1, <2>2 DEF Same
<1>8. HeldOK(m1, T) /\ Reads(m, m1, T) /\ Steady(m, m1, T)
  BY <1>6, <1>7, SameHeld
<1>9. m1[s].use = "space" /\ m1[s].pt # 0 /\ m1[s].cow = m[s].cow
  BY <1>2, <1>3, <1>5
<1>10. /\ MemOK(m2) /\ Same(m1, m2, {s}) /\ m2[s].use = "space" /\ m2[s].pt # 0
       /\ m2[m2[s].pt] = m1[m1[s].pt] /\ m2[s].cow = m1[s].cow
       /\ m1[s].cow # 0 => OutOfGroup(m2, s)
  <2>1. Is(m2, unshare(m1, s).m) /\ unshare(m1, s).ok
    BY <1>1 DEF Is
  <2>2. s \in Frames /\ m1[s].use = "space" /\ m1[s].pt # 0
    BY <1>2, <1>9
  <2>3. unshare(m1, s).ok
    BY <2>1
  <2> HIDE DEF m2, u
  <2> QED
    BY <1>6, <2>1, <2>2, <2>3, Unshares
<1> HIDE DEF m2, u
<1>11. HeldOK(m2, T) /\ Reads(m1, m2, T) /\ Steady(m1, m2, T)
  BY <1>0, <1>6, <1>8, <1>10, UnsharesHeld
<1>12. m2[n] = m[e.frame]
  BY <1>2, <1>3, <1>5, <1>10 DEF Same, Inert
<1>13. \A q \in PresentIn(T), i \in Region : Ent(m2, T, q, i) = Ent(m, T, q, i)
         /\ m2[Ent(m, T, q, i).frame] = m[Ent(m, T, q, i).frame]
  BY <1>8, <1>11 DEF Steady, Reads
<1>14. \A q \in PresentIn(T), i \in Region : Ent(m2, T, q, i).frame # n /\ T[q].base[i] # n
  <2> TAKE q \in PresentIn(T), i \in Region
  <2>1. m[Ent(m, T, q, i).frame].use = "data" /\ m[T[q].base[i]].use = "data"
    BY OfProcess
  <2> QED
    BY <1>3, <1>13, <2>1
<1>15. /\ MemOK(k) /\ HeldOK(k, T) /\ Inert(m2, k)
       /\ Ent(k, T, p, r) = [frame |-> n, w |-> TRUE]
       /\ \A q \in PresentIn(T), i \in Region : q # p \/ i # r => Ent(k, T, q, i) = Ent(m2, T, q, i)
  <2>1. m2[s].cow # 0 /\ OutOfGroup(m2, s) /\ m2[n].use = "data"
    BY <1>1, <1>2, <1>9, <1>10, <1>12
  <2>2. Is(k, map_page(m2, s, r, n))
    BY <1>1
  <2>3. MemOK(m2) /\ HeldOK(m2, T)
    BY <1>10, <1>11
  <2> QED
    BY <1>3, <1>14, <2>1, <2>2, <2>3, Remaps
<1>16. Reads(m, k, T)
  <2> SUFFICES ASSUME NEW q \in PresentIn(T), NEW i \in Region
               PROVE  k[Ent(k, T, q, i).frame] = m[Ent(m, T, q, i).frame]
    BY DEF Reads
  <2>1. CASE q = p /\ i = r
    <3>1. Ent(k, T, q, i).frame = n
      BY <1>15, <2>1
    <3>2. k[n] = m2[n]
      BY <1>2, <1>3, <1>12, <1>15 DEF Inert
    <3> QED
      BY <1>0, <1>12, <2>1, <3>1, <3>2
  <2>2. CASE q # p \/ i # r
    <3>1. Ent(k, T, q, i) = Ent(m, T, q, i)
      BY <1>13, <1>15, <2>2
    <3>2. m[Ent(m, T, q, i).frame].use = "data" /\ Ent(m, T, q, i).frame \in Frames
      BY OfProcess
    <3>3. k[Ent(m, T, q, i).frame] = m2[Ent(m, T, q, i).frame]
      BY <1>13, <1>15, <3>2 DEF Inert
    <3> QED
      BY <1>13, <3>1, <3>3
  <2> QED
    BY <2>1, <2>2
<1>17. \A i \in Region \ {r} : Ent(k, T, p, i) = Ent(m, T, p, i)
  BY <1>13, <1>15
<1> QED
  BY <1>15, <1>16, <1>17

\* Otherwise nothing has changed.
LEMMA CowFaultFails ==
  ASSUME NEW m, NEW s, NEW r, ~space_cow_fault(m, s, r).ok
  PROVE  space_cow_fault(m, s, r).m = m
BY DEF space_cow_fault

\* An image b is mapped into a space s that has nothing yet,
Maps(m, s, b, k) ==
  /\ MemOK(m) /\ s \in Frames /\ m[s].use = "space" /\ m[s].cow = 0 /\ m[s].pt # 0
  /\ b \in [Region -> Frames] /\ \A r \in Region : m[b[r]].use = "free"
  /\ Is(k, map_image(m, s, b))

\* and is there.
Mapped(m, s, b, k) ==
  /\ k[s] = m[s]
  /\ \A r \in Region : /\ k[m[s].pt].ent[r] \in Entries /\ k[m[s].pt].ent[r].frame = b[r]
                       /\ k[b[r]] = Data(Loaded)

\* map_image(): new frames in the tables of a space that nobody has yet.
LEMMA MapImage ==
  ASSUME NEW m, NEW s, NEW b, NEW k, Maps(m, s, b, k)
  PROVE  MemOK(k) /\ Same(m, k, {s}) /\ Mapped(m, s, b, k)
<1>a. /\ MemOK(m) /\ s \in Frames /\ m[s].use = "space" /\ m[s].cow = 0 /\ m[s].pt # 0
      /\ b \in [Region -> Frames] /\ \A r \in Region : m[b[r]].use = "free"
      /\ Is(k, map_image(m, s, b))
  BY DEF Maps
<1> USE <1>a
<1> DEFINE pt == m[s].pt
           own == {b[r] : r \in Region}
           e == [r \in Region |-> [frame |-> b[r], w |-> TRUE]]
<1>0. pt \in Frames /\ m[pt].use = "table" /\ m[s].use = "space"
  BY OfSpace
<1>1. OfFrames(k) /\ \A f \in Frames : k[f] = IF f \in own THEN Data(Loaded)
                                             ELSE IF f = pt THEN Table(e) ELSE m[f]
  BY DEF map_image, OfFrames, Is
<1>2. own \subseteq Frames /\ \A f \in own : m[f].use = "free"
  OBVIOUS
<1>3. \A r \in Region : b[r] \in own
  OBVIOUS
<1>4. e \in [Region -> Entries \cup {NoEntry}] /\ \A r \in Region : e[r] \in Entries /\ e[r].frame = b[r]
  BY DEF Entries
<1>5. \A f \in Frames \ {s} : m[f].use = "space" => m[f].pt # pt
  BY DEF MemOK, SharesOK
<1>6. \A f \in Frames : m[f].use = "group" => m[f].pt # pt
  BY FramesFinite DEF MemOK, SharesOK
<1> HIDE DEF pt, own, e
<1>7. k[pt] = Table(e) /\ (\A f \in own : k[f] = Data(Loaded)) /\ k[s] = m[s]
      /\ \A f \in Frames : m[f].use \notin {"free"} /\ f # pt => k[f] = m[f]
  BY <1>0, <1>1, <1>2
<1>8. k[pt].use = "table" /\ k[pt].ent = e /\ \A f \in own : k[f].use = "data"
  BY <1>7, Shapes
<1>9. CellsOK(k)
  <2>1. Cell(Data(Loaded)) /\ Cell(Table(e))
    BY <1>4, MadeCells, SpaceAssumption
  <2>2. \A f \in Frames : Cell(m[f])
    BY DEF MemOK, CellsOK
  <2> QED
    BY <1>1, <2>1, <2>2 DEF CellsOK
<1>10. Fills(m, k)
  <2> SUFFICES ASSUME NEW f \in Frames
      PROVE \/ k[f] = m[f]
            \/ m[f].use \in {"free", "data"} /\ k[f].use \in {"data", "kstack"}
            \/ /\ m[f].use = "table" /\ k[f].use = "table"
               /\ \A g \in Frames : m[g].use = "group" => m[g].pt # f
    BY DEF Fills
  <2>1. CASE f \in own
    BY <1>2, <1>8, <2>1
  <2>2. CASE f = pt
    BY <1>0, <1>6, <1>8, <2>2
  <2>3. CASE f \notin own /\ f # pt
    BY <1>1, <2>3
  <2> QED
    BY <2>1, <2>2, <2>3
<1>11. MemOK(k)
  BY <1>9, <1>10, Filled
<1>12. Inert(m, k)
  BY <1>0, <1>7 DEF Inert
<1>13. ASSUME NEW t \in Frames \ {s}, m[t].use = "space"
       PROVE  k[t] = m[t] /\ (m[t].pt # 0 => k[m[t].pt] = m[m[t].pt])
  <2>1. k[t] = m[t]
    BY <1>0, <1>7, <1>13
  <2>2. m[t].pt # 0 => m[t].pt \in Frames /\ m[m[t].pt].use = "table" /\ m[t].pt # pt
    BY <1>5, <1>13, OfSpace
  <2> QED
    BY <1>7, <2>1, <2>2
<1>14. Same(m, k, {s})
  BY <1>12, <1>13 DEF Same
<1> QED
  BY <1>3, <1>4, <1>7, <1>8, <1>11, <1>14 DEF pt, Mapped

\* Nobody that was given the image of p is still there.
NoSharers(T, p) == \A c \in Sharers(T) : T[c].ppid # p

\* Then nobody else was given any of its frames, or maps one.
LEMMA NobodyShares ==
  ASSUME NEW m, NEW T, HeldOK(m, T), FamilyOK(T), NEW p \in PresentIn(T), T[p].owns,
         NoSharers(T, p), NEW q \in PresentIn(T) \ {p}, NEW r \in Region, NEW s \in Region
  PROVE  T[q].base[s] # T[p].base[r] /\ Ent(m, T, q, s).frame # T[p].base[r]
<1> DEFINE Meets(c) == \E i, j \in Region : T[c].base[j] = T[p].base[i]
           X == {c \in Sharers(T) : Meets(c)}
<1>1. \A c \in PresentIn(T) \ {p} : T[c].owns => ~Meets(c)
  BY DEF HeldOK, BasesOK
<1>2. X = {}
  <2>1. SUFFICES ASSUME X # {} PROVE FALSE
    OBVIOUS
  <2>2. PICK c \in X : T[c].ppid \notin X
    <3>1. X \in SUBSET Sharers(T)
      OBVIOUS
    <3> HIDE DEF X
    <3> QED
      BY <2>1, <3>1 DEF FamilyOK
  <2>3. T[c].ppid \in PresentIn(T) /\ T[c].base = T[T[c].ppid].base /\ T[c].ppid # p
    BY DEF FamilyOK, NoSharers
  <2>4. Meets(T[c].ppid)
    BY <2>3
  <2>5. T[T[c].ppid].owns
    BY <2>2, <2>3, <2>4 DEF Sharers
  <2> QED
    BY <1>1, <2>3, <2>4, <2>5
<1>3. ~Meets(q)
  BY <1>1, <1>2 DEF Sharers
<1>4. \A i, j \in Region : T[q].base[j] # T[p].base[i]
  BY <1>3
<1> HIDE DEF Meets, X
<1>5. Ent(m, T, q, s).frame = T[p].base[r] => T[q].base = T[p].base
  BY DEF HeldOK, BasesOK
<1> QED
  BY <1>4, <1>5

\* Without p the others have what they had.
LEMMA WithoutHeld ==
  ASSUME NEW m, NEW T \in [Pids -> Tasks], HeldOK(m, T), NEW p \in Pids,
         NEW U \in [Pids -> Tasks], U[p].state = "free", \A q \in Pids \ {p} : U[q] = T[q]
  PROVE  HeldOK(m, U) /\ PresentIn(U) = PresentIn(T) \ {p}
<1>1. PresentIn(U) = PresentIn(T) \ {p} /\ \A q \in PresentIn(U) : U[q] = T[q]
  BY DEF PresentIn
<1>2. \A q \in PresentIn(U), r \in Region : Ent(m, U, q, r) = Ent(m, T, q, r)
  BY <1>1 DEF Ent
<1>3. HoldOK(m, U)
  BY <1>1 DEF HeldOK, HoldOK
<1>4. PagesOK(m, U)
  BY <1>1, <1>2 DEF HeldOK, PagesOK
<1>5. OnceOK(m, U)
  BY <1>1, <1>2 DEF HeldOK, OnceOK
<1>6. BasesOK(m, U)
  <2> SUFFICES ASSUME NEW q \in PresentIn(U), NEW i \in Region
      PROVE /\ U[q].base[i] \in Frames /\ m[U[q].base[i]].use = "data"
            /\ \A u \in PresentIn(U), j \in Region :
                 /\ Ent(m, U, u, j).frame = U[q].base[i] => U[u].base = U[q].base
                 /\ U[q].owns /\ U[u].owns /\ U[u].base[j] = U[q].base[i] => u = q
    BY DEF BasesOK
  <2>1. q \in PresentIn(T) /\ U[q] = T[q]
    BY <1>1
  <2>2. /\ T[q].base[i] \in Frames /\ m[T[q].base[i]].use = "data"
        /\ \A u \in PresentIn(T), j \in Region :
             /\ Ent(m, T, u, j).frame = T[q].base[i] => T[u].base = T[q].base
             /\ T[q].owns /\ T[u].owns /\ T[u].base[j] = T[q].base[i] => u = q
    BY <2>1 DEF HeldOK, BasesOK
  <2> QED
    BY <1>1, <1>2, <2>1, <2>2
<1> QED
  BY <1>1, <1>3, <1>4, <1>5, <1>6 DEF HeldOK

\* and the families are whole.
LEMMA WithoutTable ==
  ASSUME NEW T, TableOK(T), NEW p \in Pids, NoSharers(T, p),
         NEW U \in [Pids -> Tasks], U[p].state = "free", \A q \in Pids \ {p} : U[q] = T[q]
  PROVE  TableOK(U)
<1>1. PresentIn(U) = PresentIn(T) \ {p} /\ \A q \in PresentIn(U) : U[q] = T[q]
  BY DEF PresentIn
<1>2. Sharers(U) = Sharers(T) \ {p} /\ \A c \in Sharers(U) : U[c] = T[c] /\ T[c].ppid # p
  BY <1>1 DEF Sharers, NoSharers
<1>3. FamilyOK(U)
  <2>1. ASSUME NEW c \in Sharers(U) PROVE U[c].ppid \in PresentIn(U) /\ U[c].base = U[U[c].ppid].base
    BY <1>1, <1>2 DEF TableOK, FamilyOK
  <2>2. ASSUME NEW X \in SUBSET Sharers(U), X # {} PROVE \E c \in X : U[c].ppid \notin X
    <3>1. X \in SUBSET Sharers(T)
      BY <1>2
    <3>2. PICK c \in X : T[c].ppid \notin X
      BY <2>2, <3>1 DEF TableOK, FamilyOK
    <3> QED
      BY <1>2, <3>2
  <2> QED
    BY <2>1, <2>2 DEF FamilyOK
<1>4. DeadOK(U)
  <2>1. ASSUME NEW q \in Pids, U[q].state = "dead", NEW c \in Sharers(U) PROVE U[c].ppid # q
    <3>1. q # p /\ T[q].state = "dead"
      BY <2>1
    <3> QED
      BY <1>2, <2>1, <3>1 DEF TableOK, DeadOK
  <2> QED
    BY <2>1 DEF DeadOK
<1> QED
  BY <1>3, <1>4 DEF TableOK

\* Two changes in a row.
LEMMA Twice ==
  ASSUME NEW m, NEW k, NEW l, NEW T
  PROVE  /\ Reads(m, k, T) /\ Reads(k, l, T) => Reads(m, l, T)
         /\ Steady(m, k, T) /\ Steady(k, l, T) => Steady(m, l, T)
BY DEF Reads, Steady

\* What a process is given back, once nobody shares it.
LEMMA GiveBack ==
  ASSUME NEW m, MemOK(m), NEW T \in [Pids -> Tasks], HeldOK(m, T), FamilyOK(T),
         NEW p \in PresentIn(T), NoSharers(T, p),
         NEW k, MemOK(k), NEW U \in [Pids -> Tasks], HeldOK(k, U), Inert(m, k),
         \A q \in PresentIn(U) \ {p} : q \in PresentIn(T) /\ U[q] = T[q],
         \A q \in PresentIn(U) \ {p}, r \in Region : Ent(k, U, q, r) = Ent(m, T, q, r),
         p \in PresentIn(U) => \A r \in Region : /\ m[Ent(k, U, p, r).frame].use = "free"
                                                 /\ m[U[p].base[r]].use = "free",
         NEW D, D \subseteq Owned(T[p]) \cup ({T[p].kstack} \ {U[p].kstack}), p \in PresentIn(U) => D \subseteq Owned(T[p])
  PROVE  /\ MemOK(kfree(k, D)) /\ HeldOK(kfree(k, D), U)
         /\ Reads(k, kfree(k, D), U) /\ Steady(k, kfree(k, D), U)
<1>1. \A f \in Owned(T[p]) : /\ T[p].owns /\ f \in Frames /\ m[f].use = "data"
                             /\ \E r \in Region : f = T[p].base[r]
  <2>1. \A r \in Region : T[p].base[r] \in Frames /\ m[T[p].base[r]].use = "data"
    BY OfProcess
  <2> QED
    BY <2>1 DEF Owned
<1>2. \A f \in D \cap Frames : k[f] = m[f] /\ m[f].use \in {"data", "kstack"}
  <2> SUFFICES ASSUME NEW f \in D \cap Frames PROVE k[f] = m[f] /\ m[f].use \in {"data", "kstack"}
    OBVIOUS
  <2>1. CASE f \in Owned(T[p])
    BY <1>1, <2>1 DEF Inert
  <2>2. CASE f \notin Owned(T[p])
    <3>1. f = T[p].kstack /\ f # 0
      BY <2>2, FramesFinite
    <3>2. m[f].use = "kstack"
      BY <3>1 DEF HeldOK, HoldOK
    <3> QED
      BY <3>2 DEF Inert
  <2> QED
    BY <2>1, <2>2
<1>3. ASSUME NEW q \in PresentIn(U), U[q].kstack # 0 PROVE U[q].kstack \notin D
  <2>1. k[U[q].kstack].use = "kstack" /\ U[q].kstack \in Frames
    BY <1>3, StackFrame DEF HeldOK, HoldOK
  <2>2. U[q].kstack \notin Owned(T[p])
    BY <1>1, <2>1 DEF Inert
  <2>3. CASE q = p
    BY <2>2, <2>3
  <2>4. CASE q # p
    <3>1. q \in PresentIn(T) /\ U[q] = T[q]
      BY <2>4
    <3>2. T[q].kstack # T[p].kstack
      BY <1>3, <2>4, <3>1 DEF HeldOK, HoldOK
    <3> QED
      BY <2>2, <3>1, <3>2
  <2> QED
    BY <2>3, <2>4
<1>4. ASSUME NEW q \in PresentIn(U), NEW r \in Region
      PROVE  Ent(k, U, q, r).frame \notin D /\ U[q].base[r] \notin D
  <2>0. /\ Ent(k, U, q, r).frame \in Frames /\ k[Ent(k, U, q, r).frame].use = "data"
        /\ U[q].base[r] \in Frames /\ k[U[q].base[r]].use = "data"
    BY OfProcess
  <2>1. CASE q = p
    <3>1. m[Ent(k, U, p, r).frame].use = "free" /\ m[U[p].base[r]].use = "free" /\ D \subseteq Owned(T[p])
      BY <2>1
    <3> QED
      BY <1>1, <2>1, <3>1
  <2>2. CASE q # p
    <3>1. q \in PresentIn(T) /\ U[q] = T[q] /\ Ent(k, U, q, r) = Ent(m, T, q, r)
      BY <2>2
    <3>2. /\ m[Ent(m, T, q, r).frame].use = "data" /\ m[T[q].base[r]].use = "data"
      BY <3>1, OfProcess
    <3>3. ASSUME T[p].owns, NEW i \in Region
          PROVE  T[q].base[r] # T[p].base[i] /\ Ent(m, T, q, r).frame # T[p].base[i]
      <4>1. q \in PresentIn(T) \ {p}
        BY <2>2, <3>1
      <4> QED
        BY <3>3, <4>1, NobodyShares
    <3>4. T[q].base[r] \notin Owned(T[p]) /\ Ent(m, T, q, r).frame \notin Owned(T[p])
      BY <1>1, <3>3
    <3>5. T[p].kstack # 0 => m[T[p].kstack].use = "kstack"
      BY DEF HeldOK, HoldOK
    <3>6. T[q].base[r] # T[p].kstack /\ Ent(m, T, q, r).frame # T[p].kstack
      BY <2>0, <3>1, <3>2, <3>5, FramesFinite
    <3> QED
      BY <3>1, <3>4, <3>6
  <2> QED
    BY <2>1, <2>2
<1>5. \A f \in D \cap Frames : k[f].use \in {"data", "kstack"}
  BY <1>2
<1> QED
  BY <1>3, <1>4, <1>5, FreeData

\* destroy(): the others go on with what they had.
LEMMA DestroyProcess ==
  ASSUME NEW m, MemOK(m), NEW T, TableOK(T), HeldOK(m, T), NEW p \in PresentIn(T), NoSharers(T, p),
         NEW U \in [Pids -> Tasks], U[p] = FreeSlot, \A q \in Pids \ {p} : U[q] = T[q],
         NEW k, Is(k, destroy(m, T[p]))
  PROVE  /\ MemOK(k) /\ TableOK(U) /\ HeldOK(k, U) /\ Reads(m, k, U) /\ Steady(m, k, U)
         /\ PresentIn(U) = PresentIn(T) \ {p}
<1> DEFINE s == T[p].sp
           l == space_destroy(m, s)
           D == {T[p].kstack} \cup Owned(T[p])
<1>0. T \in [Pids -> Tasks] /\ FamilyOK(T) /\ p \in Pids
  BY DEF TableOK, PresentIn
<1>1. k = kfree(l, D)
  BY DEF destroy, Is
<1>2. U[p].state = "free" /\ U[p].kstack = 0
  BY DEF FreeSlot
<1>3. HeldOK(m, U) /\ PresentIn(U) = PresentIn(T) \ {p}
  BY <1>0, <1>2, WithoutHeld
<1>4. TableOK(U)
  BY <1>0, <1>2, WithoutTable
<1>5. s \in Frames /\ m[s].use = "space" /\ m[s].pt # 0
  BY OfProcess
<1>6. MemOK(l) /\ Same(m, l, {s})
  <2> HIDE DEF s
  <2> QED
    BY <1>5, Destroy
<1>7. \A q \in PresentIn(U) : T[q].sp # s /\ U[q] = T[q] /\ q \in PresentIn(T) \ {p}
  <2>1. \A q \in PresentIn(T) \ {p} : T[q].sp # s /\ q \in Pids
    BY DEF HeldOK, HoldOK, PresentIn
  <2> QED
    BY <1>3, <2>1
<1>a. U \in [Pids -> Tasks]
  OBVIOUS
<1> HIDE DEF l, s
<1>8. HeldOK(l, U) /\ Reads(m, l, U) /\ Steady(m, l, U)
  <2>1. \A q \in PresentIn(U) : U[q].sp \notin {s}
    BY <1>7
  <2> QED
    BY <1>3, <1>6, <1>a, <2>1, SameHeld
<1>9. \A q \in PresentIn(U) \ {p}, r \in Region : Ent(l, U, q, r) = Ent(m, T, q, r)
  <2>1. \A q \in PresentIn(U), r \in Region : Ent(m, U, q, r) = Ent(m, T, q, r)
    BY <1>7 DEF Ent
  <2> QED
    BY <1>8, <2>1 DEF Steady
<1>10. D \ {0} \subseteq Owned(T[p]) \cup ({T[p].kstack} \ {U[p].kstack}) /\ p \notin PresentIn(U)
  BY <1>2, <1>3
<1>11. k = kfree(l, D \ {0})
  BY <1>1, FramesFinite DEF kfree
<1> DEFINE C == D \ {0}
<1> HIDE DEF D, C
<1>12. /\ MemOK(kfree(l, C)) /\ HeldOK(kfree(l, C), U)
       /\ Reads(l, kfree(l, C), U) /\ Steady(l, kfree(l, C), U)
  <2>1. Inert(m, l)
    BY <1>6 DEF Same
  <2>2. C \subseteq Owned(T[p]) \cup ({T[p].kstack} \ {U[p].kstack}) /\ p \notin PresentIn(U)
    BY <1>10 DEF C
  <2>3. \A q \in PresentIn(U) \ {p} : q \in PresentIn(T) /\ U[q] = T[q]
    BY <1>7
  <2> QED
    BY <1>0, <1>6, <1>8, <1>9, <1>a, <2>1, <2>2, <2>3, GiveBack
<1>13. Reads(m, k, U) /\ Steady(m, k, U)
  <2>1. Reads(l, k, U) /\ Reads(m, l, U) /\ Steady(l, k, U) /\ Steady(m, l, U)
    BY <1>8, <1>11, <1>12 DEF C
  <2> QED
    BY <2>1, Twice
<1> QED
  BY <1>3, <1>4, <1>11, <1>12, <1>13 DEF C

\* Process p, in U instead of T, has a new image b that nobody else knows (replace).
Renews(m, T, p, U, b) ==
  /\ T \in [Pids -> Tasks] /\ HeldOK(m, T) /\ p \in PresentIn(T) /\ U \in [Pids -> Tasks]
  /\ U[p].state = T[p].state /\ U[p].kstack = T[p].kstack
  /\ \A q \in Pids \ {p} : U[q] = T[q]
  /\ U[p].sp \in Frames /\ m[U[p].sp].use = "space" /\ m[U[p].sp].pt # 0
  /\ \A q \in PresentIn(T) : T[q].sp # U[p].sp
  /\ Is(U[p].base, b)
  /\ \A r \in Region : b[r] \in Frames /\ m[b[r]].use = "data"
  /\ \A r, s \in Region : b[r] = b[s] => r = s
  /\ \A r \in Region : Ent(m, U, p, r) \in Entries /\ Ent(m, U, p, r).frame = b[r]
  /\ \A q \in PresentIn(T), r, s \in Region : Ent(m, T, q, s).frame # b[r] /\ T[q].base[s] # b[r]

\* All have what they need then, and the others what they had.
LEMMA MovesHeld ==
  ASSUME NEW m, NEW T, NEW p, NEW U, NEW b, Renews(m, T, p, U, b)
  PROVE  /\ HeldOK(m, U) /\ PresentIn(U) = PresentIn(T)
         /\ \A q \in PresentIn(U) \ {p} : U[q] = T[q]
         /\ \A q \in PresentIn(U) \ {p}, r \in Region : Ent(m, U, q, r) = Ent(m, T, q, r)
<1>r. /\ T \in [Pids -> Tasks] /\ HeldOK(m, T) /\ p \in PresentIn(T) /\ U \in [Pids -> Tasks]
      /\ U[p].state = T[p].state /\ U[p].kstack = T[p].kstack
      /\ \A q \in Pids \ {p} : U[q] = T[q]
      /\ U[p].sp \in Frames /\ m[U[p].sp].use = "space" /\ m[U[p].sp].pt # 0
      /\ \A q \in PresentIn(T) : T[q].sp # U[p].sp
      /\ Is(U[p].base, b)
      /\ \A r \in Region : b[r] \in Frames /\ m[b[r]].use = "data"
      /\ \A r, s \in Region : b[r] = b[s] => r = s
      /\ \A r \in Region : Ent(m, U, p, r) \in Entries /\ Ent(m, U, p, r).frame = b[r]
      /\ \A q \in PresentIn(T), r, s \in Region : Ent(m, T, q, s).frame # b[r] /\ T[q].base[s] # b[r]
  BY DEF Renews
<1> USE <1>r
<1>0. p \in Pids
  BY DEF PresentIn
<1>1. PresentIn(U) = PresentIn(T) /\ \A q \in PresentIn(T) \ {p} : U[q] = T[q]
  BY DEF PresentIn
<1>2. \A q \in PresentIn(T) \ {p}, r \in Region : Ent(m, U, q, r) = Ent(m, T, q, r)
  BY <1>1 DEF Ent
<1>3. U[p].base = b
  BY DEF Is
<1>4. HoldOK(m, U)
  <2>1. \A q \in PresentIn(T) \ {p} : U[q] = T[q] /\ T[q].sp # U[p].sp
    BY <1>1
  <2>2. ASSUME NEW q \in PresentIn(U)
        PROVE /\ U[q].sp \in Frames /\ m[U[q].sp].use = "space" /\ m[U[q].sp].pt # 0
              /\ U[q].kstack # 0 => m[U[q].kstack].use = "kstack"
              /\ \A u \in PresentIn(U) \ {q} :
                   U[u].sp # U[q].sp /\ (U[q].kstack # 0 => U[u].kstack # U[q].kstack)
    <3>1. CASE q = p
      BY <1>1, <2>1, <3>1 DEF HeldOK, HoldOK
    <3>2. CASE q # p
      BY <1>1, <2>1, <3>2 DEF HeldOK, HoldOK
    <3> QED
      BY <3>1, <3>2
  <2> QED
    BY <2>2 DEF HoldOK
<1>a. \A r \in Region : Ent(m, U, p, r).frame = b[r] /\ Ent(m, U, p, r) \in Entries
  OBVIOUS
<1>5. PagesOK(m, U)
  <2>1. ASSUME NEW q \in PresentIn(U), NEW i \in Region
        PROVE  Ent(m, U, q, i) \in Entries /\ m[Ent(m, U, q, i).frame].use = "data"
    <3>1. CASE q = p
      BY <1>a, <3>1
    <3>2. CASE q # p
      BY <1>1, <1>2, <3>2 DEF HeldOK, PagesOK
    <3> QED
      BY <3>1, <3>2
  <2> QED
    BY <2>1 DEF PagesOK
<1>b. \A q \in PresentIn(T) \ {p}, r, s \in Region : Ent(m, U, q, s).frame # b[r] /\ U[q].base[s] # b[r]
  BY <1>1, <1>2
<1>6. OnceOK(m, U)
  <2> SUFFICES ASSUME NEW q \in PresentIn(U), NEW u \in PresentIn(U), NEW i \in Region, NEW j \in Region,
                      Ent(m, U, q, i).w, Ent(m, U, u, j).frame = Ent(m, U, q, i).frame
               PROVE  u = q /\ j = i
    BY DEF OnceOK
  <2>1. CASE q = p /\ u = p
    BY <1>a, <2>1
  <2>2. CASE q = p /\ u # p
    BY <1>1, <1>a, <1>b, <2>2
  <2>3. CASE q # p /\ u = p
    BY <1>1, <1>a, <1>b, <2>3
  <2>4. CASE q # p /\ u # p
    <3>1. q \in PresentIn(T) \ {p} /\ u \in PresentIn(T) \ {p}
      BY <1>1, <2>4
    <3>2. Ent(m, T, q, i).w /\ Ent(m, T, u, j).frame = Ent(m, T, q, i).frame
      BY <1>2, <3>1
    <3> QED
      BY <3>1, <3>2 DEF HeldOK, OnceOK
  <2> QED
    BY <2>1, <2>2, <2>3, <2>4
<1>7. BasesOK(m, U)
  <2> SUFFICES ASSUME NEW q \in PresentIn(U), NEW i \in Region
      PROVE /\ U[q].base[i] \in Frames /\ m[U[q].base[i]].use = "data"
            /\ \A u \in PresentIn(U), j \in Region :
                 /\ Ent(m, U, u, j).frame = U[q].base[i] => U[u].base = U[q].base
                 /\ U[q].owns /\ U[u].owns /\ U[u].base[j] = U[q].base[i] => u = q
    BY DEF BasesOK
  <2>1. CASE q = p
    BY <1>1, <1>3, <1>b, <2>1
  <2>2. CASE q # p
    <3>1. q \in PresentIn(T) \ {p} /\ U[q] = T[q]
      BY <1>1, <2>2
    <3>2. /\ T[q].base[i] \in Frames /\ m[T[q].base[i]].use = "data"
          /\ \A u \in PresentIn(T), j \in Region :
               /\ Ent(m, T, u, j).frame = T[q].base[i] => T[u].base = T[q].base
               /\ T[q].owns /\ T[u].owns /\ T[u].base[j] = T[q].base[i] => u = q
      BY <3>1 DEF HeldOK, BasesOK
    <3>3. ASSUME NEW u \in PresentIn(U), NEW j \in Region
          PROVE  /\ Ent(m, U, u, j).frame = U[q].base[i] => U[u].base = U[q].base
                 /\ U[q].owns /\ U[u].owns /\ U[u].base[j] = U[q].base[i] => u = q
      <4>1. CASE u = p
        BY <1>3, <1>a, <1>b, <3>1, <4>1
      <4>2. CASE u # p
        BY <1>1, <1>2, <3>1, <3>2, <4>2
      <4> QED
        BY <4>1, <4>2
    <3> QED
      BY <3>1, <3>2, <3>3
  <2> QED
    BY <2>1, <2>2
<1> QED
  BY <1>1, <1>2, <1>4, <1>5, <1>6, <1>7 DEF HeldOK

\* and leaves the family it shared with, alone or with nobody sharing.
LEMMA MovesTable ==
  ASSUME NEW T, TableOK(T), NEW p \in PresentIn(T), NoSharers(T, p),
         NEW U \in [Pids -> Tasks], U[p].state # "free", U[p].owns \/ U[p] = [T[p] EXCEPT !.state = "dead"],
         \A q \in Pids \ {p} : U[q] = T[q]
  PROVE  TableOK(U)
<1>0. T \in [Pids -> Tasks] /\ p \in Pids
  BY DEF TableOK, PresentIn
<1>1. PresentIn(U) = PresentIn(T) /\ \A q \in PresentIn(T) \ {p} : U[q] = T[q]
  BY <1>0 DEF PresentIn
<1>2. p \in Sharers(U) => U[p].owns = T[p].owns /\ U[p].base = T[p].base /\ U[p].ppid = T[p].ppid
  BY <1>0 DEF Sharers, Tasks
<1>3. \A c \in Sharers(U) : /\ c \in Sharers(T) /\ U[c].base = T[c].base /\ U[c].ppid = T[c].ppid
                            /\ T[c].ppid # p
  BY <1>1, <1>2 DEF Sharers, NoSharers
<1>4. FamilyOK(U)
  <2>1. ASSUME NEW c \in Sharers(U) PROVE U[c].ppid \in PresentIn(U) /\ U[c].base = U[U[c].ppid].base
    <3>1. T[c].ppid \in PresentIn(T) \ {p} /\ T[c].base = T[T[c].ppid].base
      BY <1>3 DEF TableOK, FamilyOK
    <3> QED
      BY <1>1, <1>3, <3>1
  <2>2. ASSUME NEW X \in SUBSET Sharers(U), X # {} PROVE \E c \in X : U[c].ppid \notin X
    <3>1. X \in SUBSET Sharers(T)
      BY <1>3
    <3>2. PICK c \in X : T[c].ppid \notin X
      BY <2>2, <3>1 DEF TableOK, FamilyOK
    <3> QED
      BY <1>3, <3>2
  <2> QED
    BY <2>1, <2>2 DEF FamilyOK
<1>5. DeadOK(U)
  <2>1. ASSUME NEW q \in Pids, U[q].state = "dead", NEW c \in Sharers(U) PROVE U[c].ppid # q
    <3>1. CASE q = p
      BY <1>3, <3>1
    <3>2. CASE q # p
      BY <1>3, <2>1, <3>2 DEF TableOK, DeadOK
    <3> QED
      BY <3>1, <3>2
  <2> QED
    BY <2>1 DEF DeadOK
<1> QED
  BY <1>4, <1>5 DEF TableOK

Killed(T, p) == [T EXCEPT ![p].state = "dead"]

\* A process that dies has what it had, until it is swept up.
LEMMA DiesHeld ==
  ASSUME NEW m, NEW T \in [Pids -> Tasks], HeldOK(m, T), NEW p \in PresentIn(T),
         NEW U, Is(U, Killed(T, p))
  PROVE  /\ U \in [Pids -> Tasks] /\ HeldOK(m, U) /\ PresentIn(U) = PresentIn(T)
         /\ U[p] = [T[p] EXCEPT !.state = "dead"] /\ \A q \in Pids \ {p} : U[q] = T[q]
<1>0. p \in Pids /\ T[p] \in Tasks
  BY DEF PresentIn
<1>1. U[p] = [T[p] EXCEPT !.state = "dead"] /\ \A q \in Pids \ {p} : U[q] = T[q]
  BY <1>0 DEF Is, Killed
<1>2. [T[p] EXCEPT !.state = "dead"] \in Tasks
  BY <1>0 DEF Tasks, States
<1>3. U \in [Pids -> Tasks]
  BY <1>0, <1>2 DEF Is, Killed
<1>a. /\ U[p].sp = T[p].sp /\ U[p].base = T[p].base /\ U[p].owns = T[p].owns
      /\ U[p].kstack = T[p].kstack /\ U[p].state = "dead"
  BY <1>0, <1>1 DEF Tasks
<1>4. PresentIn(U) = PresentIn(T)
  BY <1>0, <1>1, <1>a DEF PresentIn
<1>5. \A q \in PresentIn(T) : /\ U[q].sp = T[q].sp /\ U[q].base = T[q].base
                              /\ U[q].owns = T[q].owns /\ U[q].kstack = T[q].kstack
  BY <1>1, <1>a DEF PresentIn
<1>6. \A q \in PresentIn(T), r \in Region : Ent(m, U, q, r) = Ent(m, T, q, r)
  BY <1>5 DEF Ent
<1>7. HoldOK(m, U)
  BY <1>4, <1>5 DEF HeldOK, HoldOK
<1>8. PagesOK(m, U)
  BY <1>4, <1>6 DEF HeldOK, PagesOK
<1>9. OnceOK(m, U)
  BY <1>4, <1>6 DEF HeldOK, OnceOK
<1>10. BasesOK(m, U)
  <2> SUFFICES ASSUME NEW q \in PresentIn(T), NEW i \in Region
      PROVE /\ U[q].base[i] \in Frames /\ m[U[q].base[i]].use = "data"
            /\ \A u \in PresentIn(T), j \in Region :
                 /\ Ent(m, U, u, j).frame = U[q].base[i] => U[u].base = U[q].base
                 /\ U[q].owns /\ U[u].owns /\ U[u].base[j] = U[q].base[i] => u = q
    BY <1>4 DEF BasesOK
  <2>1. /\ T[q].base[i] \in Frames /\ m[T[q].base[i]].use = "data"
        /\ \A u \in PresentIn(T), j \in Region :
             /\ Ent(m, T, u, j).frame = T[q].base[i] => T[u].base = T[q].base
             /\ T[q].owns /\ T[u].owns /\ T[u].base[j] = T[q].base[i] => u = q
    BY DEF HeldOK, BasesOK
  <2> QED
    BY <1>5, <1>6, <2>1
<1> QED
  BY <1>1, <1>3, <1>4, <1>7, <1>8, <1>9, <1>10 DEF HeldOK

\* A child that has its parent's tables (fork_user): nobody writes through them.
LEMMA ForksHeld ==
  ASSUME NEW m, MemOK(m), NEW T \in [Pids -> Tasks], HeldOK(m, T), NEW p \in PresentIn(T),
         NEW c \in Pids \ PresentIn(T), NEW U \in [Pids -> Tasks], \A q \in Pids \ {c} : U[q] = T[q],
         NEW s \in Frames, m[s].use = "space", m[s].pt = m[T[p].sp].pt,
         \A q \in PresentIn(T) : T[q].sp # s,
         NEW ks \in Frames, m[ks].use = "kstack", \A q \in PresentIn(T) : T[q].kstack # ks,
         U[c].state = "live", U[c].sp = s, U[c].kstack = ks, U[c].base = T[p].base, ~U[c].owns
  PROVE  /\ HeldOK(m, U) /\ PresentIn(U) = PresentIn(T) \cup {c}
         /\ \A q \in PresentIn(T), r \in Region : Ent(m, U, q, r) = Ent(m, T, q, r)
         /\ \A r \in Region : Ent(m, U, c, r) = Ent(m, T, p, r)
<1>0. p \in Pids /\ p # c
  BY DEF PresentIn
<1>1. PresentIn(U) = PresentIn(T) \cup {c} /\ \A q \in PresentIn(T) : U[q] = T[q] /\ q # c
  BY DEF PresentIn
<1>2. /\ \A q \in PresentIn(T), r \in Region : Ent(m, U, q, r) = Ent(m, T, q, r)
      /\ \A r \in Region : Ent(m, U, c, r) = Ent(m, T, p, r)
  BY <1>1 DEF Ent
<1>3. \A r \in Region : ~Ent(m, T, p, r).w
  <2> DEFINE d == T[p].sp
             g == m[d].cow
  <2>1. d \in Frames /\ m[d].use = "space" /\ m[d].pt # 0 /\ d # s
    BY OfProcess
  <2>2. m[d].cow # 0 /\ m[d].pt = m[m[d].cow].pt
    <3> HIDE DEF d
    <3>1. m[s].pt = m[d].pt /\ m[s].use = "space"
      BY DEF d
    <3> QED
      BY <2>1, <3>1 DEF MemOK, SharesOK
  <2>3. g \in Frames /\ m[g].use = "group"
    <3> HIDE DEF d
    <3> QED
      BY <2>1, <2>2, OfSpace
  <2>4. \A r \in Region : ~m[m[g].pt].ent[r].w
    <3> HIDE DEF g
    <3> QED
      BY <2>3 DEF MemOK, GroupsOK
  <2> QED
    BY <2>2, <2>4 DEF Ent
<1>4. HoldOK(m, U)
  <2>1. m[T[p].sp].pt # 0
    BY OfProcess
  <2>2. ASSUME NEW q \in PresentIn(U)
        PROVE /\ U[q].sp \in Frames /\ m[U[q].sp].use = "space" /\ m[U[q].sp].pt # 0
              /\ U[q].kstack # 0 => m[U[q].kstack].use = "kstack"
              /\ \A u \in PresentIn(U) \ {q} :
                   U[u].sp # U[q].sp /\ (U[q].kstack # 0 => U[u].kstack # U[q].kstack)
    <3>1. CASE q = c
      BY <1>1, <2>1, <3>1
    <3>2. CASE q # c
      BY <1>1, <3>2 DEF HeldOK, HoldOK
    <3> QED
      BY <3>1, <3>2
  <2> QED
    BY <2>2 DEF HoldOK
<1>5. PagesOK(m, U)
  BY <1>1, <1>2 DEF HeldOK, PagesOK
<1>a. \A q \in PresentIn(T), i, j \in Region :
        Ent(m, T, q, i).w => Ent(m, T, p, j).frame # Ent(m, T, q, i).frame
  <2> SUFFICES ASSUME NEW q \in PresentIn(T), NEW i \in Region, NEW j \in Region, Ent(m, T, q, i).w,
                      Ent(m, T, p, j).frame = Ent(m, T, q, i).frame
               PROVE  FALSE
    OBVIOUS
  <2>1. p = q
    BY DEF HeldOK, OnceOK
  <2> QED
    BY <1>3, <2>1
<1>6. OnceOK(m, U)
  <2> SUFFICES ASSUME NEW q \in PresentIn(U), NEW u \in PresentIn(U), NEW i \in Region, NEW j \in Region,
                      Ent(m, U, q, i).w, Ent(m, U, u, j).frame = Ent(m, U, q, i).frame
               PROVE  u = q /\ j = i
    BY DEF OnceOK
  <2>1. CASE q = c
    BY <1>2, <1>3, <2>1
  <2>2. CASE q # c /\ u = c
    BY <1>1, <1>2, <1>a, <2>2
  <2>3. CASE q # c /\ u # c
    <3>1. q \in PresentIn(T) /\ u \in PresentIn(T)
      BY <1>1, <2>3
    <3>2. Ent(m, T, q, i).w /\ Ent(m, T, u, j).frame = Ent(m, T, q, i).frame
      BY <1>2, <3>1
    <3> QED
      BY <3>1, <3>2 DEF HeldOK, OnceOK
  <2> QED
    BY <2>1, <2>2, <2>3
<1>7. BasesOK(m, U)
  <2> DEFINE Like(q) == IF q = c THEN p ELSE q
  <2>1. \A q \in PresentIn(U) : Like(q) \in PresentIn(T) /\ U[q].base = T[Like(q)].base
          /\ (U[q].owns => T[Like(q)].owns /\ q # c)
    BY <1>1
  <2>2. \A q \in PresentIn(U), r \in Region : Ent(m, U, q, r) = Ent(m, T, Like(q), r)
    BY <1>1, <1>2
  <2> SUFFICES ASSUME NEW q \in PresentIn(U), NEW i \in Region
      PROVE /\ U[q].base[i] \in Frames /\ m[U[q].base[i]].use = "data"
            /\ \A u \in PresentIn(U), j \in Region :
                 /\ Ent(m, U, u, j).frame = U[q].base[i] => U[u].base = U[q].base
                 /\ U[q].owns /\ U[u].owns /\ U[u].base[j] = U[q].base[i] => u = q
    BY DEF BasesOK
  <2> DEFINE z == Like(q)
  <2>3. /\ T[z].base[i] \in Frames /\ m[T[z].base[i]].use = "data"
        /\ \A u \in PresentIn(T), j \in Region :
             /\ Ent(m, T, u, j).frame = T[z].base[i] => T[u].base = T[z].base
             /\ T[z].owns /\ T[u].owns /\ T[u].base[j] = T[z].base[i] => u = z
    <3>1. z \in PresentIn(T)
      BY <2>1
    <3> HIDE DEF z
    <3> QED
      BY <3>1 DEF HeldOK, BasesOK
  <2>4. ASSUME NEW u \in PresentIn(U), NEW j \in Region
        PROVE  /\ Ent(m, U, u, j).frame = U[q].base[i] => U[u].base = U[q].base
               /\ U[q].owns /\ U[u].owns /\ U[u].base[j] = U[q].base[i] => u = q
    <3>1. Ent(m, U, u, j).frame = U[q].base[i] => U[u].base = U[q].base
      BY <2>1, <2>2, <2>3
    <3>2. ASSUME U[q].owns, U[u].owns, U[u].base[j] = U[q].base[i] PROVE u = q
      <4>1. q # c /\ u # c /\ q \in PresentIn(T) /\ u \in PresentIn(T) /\ U[q] = T[q] /\ U[u] = T[u]
        BY <1>1, <2>1, <3>2
      <4> QED
        BY <3>2, <4>1 DEF HeldOK, BasesOK
    <3> QED
      BY <3>1, <3>2
  <2> QED
    BY <2>1, <2>3, <2>4
<1> QED
  BY <1>1, <1>2, <1>4, <1>5, <1>6, <1>7 DEF HeldOK

\* It joins the family.
LEMMA ForksTable ==
  ASSUME NEW T, TableOK(T), NEW p \in Pids, T[p].state = "live", NEW c \in Pids \ PresentIn(T),
         NEW U \in [Pids -> Tasks], \A q \in Pids \ {c} : U[q] = T[q],
         U[c].state = "live", U[c].base = T[p].base, ~U[c].owns, U[c].ppid = p
  PROVE  TableOK(U)
<1>0. p \in PresentIn(T) /\ p # c
  BY DEF PresentIn
<1>1. PresentIn(U) = PresentIn(T) \cup {c} /\ \A q \in PresentIn(T) : U[q] = T[q] /\ q # c
  BY DEF PresentIn
<1>2. Sharers(U) = Sharers(T) \cup {c} /\ \A q \in Sharers(T) : U[q] = T[q] /\ T[q].ppid \in PresentIn(T) /\ q # c
  BY <1>1 DEF Sharers, TableOK, FamilyOK
<1>3. FamilyOK(U)
  <2>1. ASSUME NEW d \in Sharers(U) PROVE U[d].ppid \in PresentIn(U) /\ U[d].base = U[U[d].ppid].base
    <3>1. CASE d = c
      BY <1>0, <1>1, <3>1
    <3>2. CASE d # c
      <4>1. d \in Sharers(T)
        BY <1>2, <3>2
      <4>2. T[d].ppid \in PresentIn(T) /\ T[d].base = T[T[d].ppid].base
        BY <4>1 DEF TableOK, FamilyOK
      <4> QED
        BY <1>1, <1>2, <4>1, <4>2
    <3> QED
      BY <3>1, <3>2
  <2>2. ASSUME NEW X \in SUBSET Sharers(U), X # {} PROVE \E d \in X : U[d].ppid \notin X
    <3> DEFINE Y == X \ {c}
    <3>1. Y \in SUBSET Sharers(T)
      BY <1>2
    <3>2. CASE Y = {}
      <4>1. X = {c}
        BY <2>2, <3>2
      <4> QED
        BY <1>0, <4>1
    <3>3. CASE Y # {}
      <4>1. PICK d \in Y : T[d].ppid \notin Y
        <5> HIDE DEF Y
        <5> QED
          BY <3>1, <3>3 DEF TableOK, FamilyOK
      <4>2. d \in Sharers(T) /\ d \in X
        BY <3>1
      <4>3. U[d].ppid = T[d].ppid /\ T[d].ppid # c
        BY <1>1, <1>2, <4>2
      <4> QED
        BY <4>1, <4>2, <4>3
    <3> QED
      BY <3>2, <3>3
  <2> QED
    BY <2>1, <2>2 DEF FamilyOK
<1>4. DeadOK(U)
  <2>1. ASSUME NEW q \in Pids, U[q].state = "dead", NEW d \in Sharers(U) PROVE U[d].ppid # q
    <3>1. q # c /\ T[q].state = "dead" /\ q # p
      BY <2>1
    <3>2. CASE d = c
      BY <3>1, <3>2
    <3>3. CASE d # c
      BY <1>2, <3>1, <3>3 DEF TableOK, DeadOK
    <3> QED
      BY <3>2, <3>3
  <2> QED
    BY <2>1 DEF DeadOK
<1> QED
  BY <1>3, <1>4 DEF TableOK

-----------------------------------------------------------------------------
(* What the processes read                                                 *)

Reading(m, T) ==
  [p \in Pids |-> IF T[p].state # "live" THEN Nobody
                  ELSE [r \in Region |-> m[Ent(m, T, p, r).frame].val]]

\* It is what the abstract view shows.
LEMMA ReadingView ==
  View = Reading(mem, task) /\ View' = Reading(mem', task')
BY DEF View, Reading, EntryOf, Ent

\* A live process reads values; a process that is not live nothing.
LEMMA ReadsValues ==
  ASSUME NEW m, MemOK(m), NEW T, HeldOK(m, T), NEW p \in Pids
  PROVE  /\ T[p].state = "live" => Reading(m, T)[p] \in [Region -> Val] /\ Reading(m, T)[p] # Nobody
         /\ T[p].state # "live" => Reading(m, T)[p] = Nobody
<1>1. ASSUME T[p].state = "live" PROVE Reading(m, T)[p] \in [Region -> Val]
  <2>1. p \in PresentIn(T)
    BY <1>1 DEF PresentIn
  <2>2. ASSUME NEW r \in Region PROVE m[Ent(m, T, p, r).frame].val \in Val
    <3>1. Ent(m, T, p, r).frame \in Frames /\ m[Ent(m, T, p, r).frame].use = "data"
      BY <2>1, OfProcess
    <3> QED
      BY <3>1 DEF MemOK, CellsOK, Cell
  <2>3. Reading(m, T)[p] = [r \in Region |-> m[Ent(m, T, p, r).frame].val]
    BY <1>1 DEF Reading
  <2> QED
    BY <2>2, <2>3
<1>2. Nobody \notin [Region -> Val]
  BY SpaceAssumption DEF Region
<1>3. T[p].state # "live" => Reading(m, T)[p] = Nobody
  BY DEF Reading
<1> QED
  BY <1>1, <1>2, <1>3

\* A process whose pages hold what they held reads what it read.
LEMMA ReadsAlike ==
  ASSUME NEW m, NEW T, NEW k, NEW U, NEW p \in Pids, NEW q \in Pids, U[q].state = T[p].state,
         T[p].state = "live" =>
           \A r \in Region : k[Ent(k, U, q, r).frame] = m[Ent(m, T, p, r).frame]
  PROVE  Reading(k, U)[q] = Reading(m, T)[p]
<1>1. CASE T[p].state # "live"
  BY <1>1 DEF Reading
<1>2. CASE T[p].state = "live"
  <2>1. Reading(k, U)[q] = [r \in Region |-> k[Ent(k, U, q, r).frame].val]
    BY <1>2 DEF Reading
  <2>2. Reading(m, T)[p] = [r \in Region |-> m[Ent(m, T, p, r).frame].val]
    BY <1>2 DEF Reading
  <2>3. \A r \in Region : k[Ent(k, U, q, r).frame].val = m[Ent(m, T, p, r).frame].val
    BY <1>2
  <2> QED
    BY <2>1, <2>2, <2>3
<1> QED
  BY <1>1, <1>2

\* All of them do, if all of their pages do.
LEMMA ReadsOn ==
  ASSUME NEW m, NEW T, NEW k, Reads(m, k, T)
  PROVE  Reading(k, T) = Reading(m, T)
<1>1. ASSUME NEW p \in Pids PROVE Reading(k, T)[p] = Reading(m, T)[p]
  <2>1. T[p].state = "live" =>
           \A r \in Region : k[Ent(k, T, p, r).frame] = m[Ent(m, T, p, r).frame]
    BY DEF Reads, PresentIn
  <2> QED
    BY <2>1, ReadsAlike
<1>2. Reading(k, T) = [p \in Pids |-> Reading(k, T)[p]] /\ Reading(m, T) = [p \in Pids |-> Reading(m, T)[p]]
  BY DEF Reading
<1> QED
  BY <1>1, <1>2

\* One process changes what it reads.
LEMMA OneChanges ==
  ASSUME NEW p \in Pids, View[p] # Nobody, View'[p] \in [Region -> Val],
         \A q \in Pids \ {p} : View'[q] = View[q]
  PROVE  M!Next
BY DEF M!Next, M!Change, M!Alive, M!Others

\* One process ends.
LEMMA OneEnds ==
  ASSUME NEW p \in Pids, View[p] # Nobody, View'[p] = Nobody,
         \A q \in Pids \ {p} : View'[q] = View[q]
  PROVE  M!Next
BY DEF M!Next, M!End, M!Alive, M!Others

\* One process is forked from another.
LEMMA OneStarts ==
  ASSUME NEW p \in Pids, NEW c \in Pids, View[p] # Nobody, View[c] = Nobody, View'[c] = View[p],
         \A q \in Pids \ {c} : View'[q] = View[q]
  PROVE  M!Next
BY DEF M!Next, M!Fork, M!Alive, M!Others

-----------------------------------------------------------------------------
(* reap()                                                                  *)

\* With d the only dead process besides the current one, or no process at all.
LEMMA ReapsOne ==
  ASSUME NEW m, NEW d \in 1 .. kMaxTask + 1,
         \A n \in Pids : n # current /\ task[n].state = "dead" <=> n = d
  PROVE  reap(m) = IF d \in Pids THEN destroy(m, task[d]) ELSE m
<1> DEFINE N == 0 .. kMaxTask
           Due(n) == n # current /\ task[n].state = "dead"
           F(u) == [n \in N |-> IF n = 0 THEN m
                                ELSE IF Due(n) THEN destroy(u[n - 1], task[n]) ELSE u[n - 1]]
           upto == CHOOSE u : u = F(u)
           w == [n \in N |-> IF n < d THEN m ELSE destroy(m, task[d])]
<1>1. reap(m) = upto[kMaxTask]
  BY DEF reap
<1>2. kMaxTask \in Nat \ {0}
  BY SpaceAssumption
<1>3. \A n \in N : n # 0 => n \in Pids /\ n - 1 \in N
  BY <1>2 DEF Pids
<1>4. w = F(w)
  <2> SUFFICES ASSUME NEW n \in N
               PROVE  w[n] = IF n = 0 THEN m
                             ELSE IF Due(n) THEN destroy(w[n - 1], task[n]) ELSE w[n - 1]
    BY Zenon
  <2>1. CASE n = 0
    BY <1>2, <2>1
  <2>2. CASE n # 0 /\ n = d
    <3>1. Due(n) /\ n - 1 \in N
      BY <1>3, <2>2
    <3>2. w[n - 1] = m
      BY <1>2, <2>2, <3>1
    <3>3. w[n] = destroy(m, task[d])
      BY <1>2, <2>2
    <3> HIDE DEF w, Due
    <3> QED
      BY <2>2, <3>1, <3>2, <3>3
  <2>3. CASE n # 0 /\ n # d
    <3>1. ~Due(n) /\ n - 1 \in N
      BY <1>3, <2>3
    <3>2. n - 1 < d <=> n < d
      BY <1>2, <2>3
    <3>3. w[n] = w[n - 1]
      BY <3>1, <3>2
    <3> HIDE DEF w, Due
    <3> QED
      BY <2>3, <3>1, <3>3
  <2> QED
    BY <2>1, <2>2, <2>3
<1>5. upto = F(upto)
  <2> HIDE DEF F, w
  <2> QED
    BY <1>4, Zenon
<1> DEFINE S == {n \in N : upto[n] = w[n]}
<1>6. 0 \in S
  <2>1. 0 \in N /\ 0 < d
    BY <1>2
  <2>2. w[0] = m
    BY <2>1
  <2>3. F(upto)[0] = m
    BY <2>1
  <2> HIDE DEF upto, w, F
  <2> QED
    BY <1>5, <2>1, <2>2, <2>3
<1>7. ASSUME NEW n \in 1 .. kMaxTask, n - 1 \in S PROVE n \in S
  <2>1. n \in N /\ n # 0
    BY <1>2
  <2> HIDE DEF upto, w
  <2>2. F(upto)[n] = IF Due(n) THEN destroy(upto[n - 1], task[n]) ELSE upto[n - 1]
    BY <2>1
  <2>3. F(w)[n] = IF Due(n) THEN destroy(w[n - 1], task[n]) ELSE w[n - 1]
    BY <2>1
  <2>4. upto[n - 1] = w[n - 1]
    BY <1>7
  <2> HIDE DEF F, Due
  <2>5. F(upto)[n] = F(w)[n]
    BY <2>2, <2>3, <2>4
  <2> QED
    BY <1>4, <1>5, <2>1, <2>5
<1>8. \A n \in N : n \in S
  <2> HIDE DEF S
  <2> QED
    BY <1>2, <1>6, <1>7, UpTo
<1>9. kMaxTask \in N
  BY <1>2
<1>10. upto[kMaxTask] = w[kMaxTask]
  BY <1>8, <1>9
<1>11. w[kMaxTask] = IF d \in Pids THEN destroy(m, task[d]) ELSE m
  BY <1>2, <1>9 DEF Pids
<1> HIDE DEF upto, w
<1> QED
  BY <1>1, <1>10, <1>11

-----------------------------------------------------------------------------
(* The steps                                                               *)

\* What the programs and the kernel have to keep to: an exec fails before it has
\* switched spaces, and not in a process that runs in its parent's image; the kernel
\* copies no results into shared pages; processes wait for those they share with.
Careful == FailedBy \subseteq {"owner"} /\ FailedAt \subseteq {"open"} /\ ~CopyShared /\ Orderly

\* The invariant after a step.
LEMMA InvNext ==
  ASSUME MemOK(mem'), TableOK(task'), HeldOK(mem', task'), current' \in Pids,
         task'[current'].state # "free", forks' \in 0 .. MaxForks,
         tlb' \in [Region -> Entries \cup {NoEntry}], cr3' = task'[current'].sp,
         task'[current'].state = "live" =>
           \A r \in Region : tlb'[r] = NoEntry \/ tlb'[r] = Ent(mem', task', current', r),
         \A p, q \in Pids \ {current'} :
           task'[p].state = "dead" /\ task'[q].state = "dead" => q = p
  PROVE  SpaceInv'
<1>1. CpuFollows'
  BY DEF CpuFollows, Running, Walk, Ent
<1> QED
  BY <1>1 DEF SpaceInv

\* The current process: the CPU walks its tables, and knows nothing else.
LEMMA OfCurrent ==
  ASSUME SpaceInv
  PROVE  /\ current \in PresentIn(task) /\ current \in Pids /\ task \in [Pids -> Tasks]
         /\ cr3 = task[current].sp
         /\ \A r \in Region : Walk(r) = Ent(mem, task, current, r) /\ Walk(r) \in Entries
         /\ Running => \A r \in Region : \A e \in Seen(r) : e # NoEntry => e = Walk(r)
         /\ Running => \A r \in Region : tlb[r] = NoEntry \/ tlb[r] = Ent(mem, task, current, r)
<1>1. current \in PresentIn(task) /\ current \in Pids /\ task \in [Pids -> Tasks]
  BY DEF SpaceInv, PresentIn, TableOK
<1>2. cr3 = task[current].sp
  BY DEF SpaceInv, CpuFollows
<1>3. \A r \in Region : Walk(r) = Ent(mem, task, current, r)
  BY <1>2 DEF Walk, Ent
<1>4. \A r \in Region : Walk(r) \in Entries
  BY <1>1, <1>3, OfProcess DEF SpaceInv
<1>5. Running => \A r \in Region : tlb[r] = NoEntry \/ tlb[r] = Walk(r)
  BY DEF SpaceInv, CpuFollows
<1>6. Running => \A r \in Region : \A e \in Seen(r) : e # NoEntry => e = Walk(r)
  BY <1>5 DEF Seen
<1> QED
  BY <1>1, <1>2, <1>3, <1>4, <1>5, <1>6

\* The CPU keeps an entry.
LEMMA Keeps ==
  ASSUME NEW r \in Region, NEW e \in Entries
  PROVE  /\ NoTlb \in [Region -> Entries \cup {NoEntry}]
         /\ \A i \in Region : NoTlb[i] = NoEntry
         /\ [NoTlb EXCEPT ![r] = e] \in [Region -> Entries \cup {NoEntry}]
         /\ \A i \in Region : [NoTlb EXCEPT ![r] = e][i] = IF i = r THEN e ELSE NoEntry
BY DEF NoTlb

\* A load.
LEMMA LoadStep ==
  ASSUME SpaceInv, NEW r \in Region, Load(r)
  PROVE  SpaceInv' /\ View' = View
<1>1. PICK e \in Seen(r) : e # NoEntry /\ tlb' = [NoTlb EXCEPT ![r] = e]
  BY DEF Load
<1>2. mem' = mem /\ task' = task /\ current' = current /\ cr3' = cr3 /\ forks' = forks /\ Running
  BY DEF Load
<1>3. e = Ent(mem, task, current, r) /\ e \in Entries
  BY <1>1, <1>2, OfCurrent
<1>4. /\ tlb' \in [Region -> Entries \cup {NoEntry}]
      /\ \A i \in Region : tlb'[i] = IF i = r THEN e ELSE NoEntry
  BY <1>1, <1>3, Keeps
<1>5. \A i \in Region : tlb'[i] = NoEntry \/ tlb'[i] = Ent(mem', task', current', i)
  BY <1>2, <1>3, <1>4
<1>6. SpaceInv'
  BY <1>2, <1>4, <1>5, OfCurrent, InvNext DEF SpaceInv
<1> QED
  BY <1>2, <1>6, ReadingView

\* A store changes a page that nobody else maps.
LEMMA StoreStep ==
  ASSUME Careful, SpaceInv, NEW r \in Region, NEW v \in Val, Store(r, v)
  PROVE  SpaceInv' /\ M!Next
<1>1. PICK e \in Seen(r) : e.w /\ mem' = [mem EXCEPT ![e.frame] = Data(v)] /\ tlb' = [NoTlb EXCEPT ![r] = e]
  BY DEF Store, Careful
<1>2. task' = task /\ current' = current /\ cr3' = cr3 /\ forks' = forks /\ Running
  BY DEF Store
<1>3. e # NoEntry
  BY <1>1 DEF NoEntry
<1>4. e = Ent(mem, task, current, r) /\ e \in Entries
  BY <1>2, <1>3, OfCurrent
<1> DEFINE n == e.frame
<1>5. /\ current \in PresentIn(task) /\ current \in Pids /\ task \in [Pids -> Tasks]
      /\ MemOK(mem) /\ HeldOK(mem, task)
  BY OfCurrent DEF SpaceInv
<1>6. n \in Frames /\ mem[n].use = "data"
  BY <1>4, <1>5, OfProcess
<1>7. OfFrames(mem)
  BY <1>5 DEF MemOK, CellsOK
<1>8. OfFrames(mem') /\ mem'[n] = Data(v) /\ \A f \in Frames \ {n} : mem'[f] = mem[f]
  BY <1>1, <1>6, <1>7 DEF OfFrames
<1> HIDE DEF n
<1>9. Data(v).use = "data" /\ Cell(Data(v))
  BY Shapes, MadeCells
<1>10. MemOK(mem')
  <2>1. CellsOK(mem')
    BY <1>5, <1>8, <1>9 DEF MemOK, CellsOK
  <2>2. Fills(mem, mem')
    BY <1>6, <1>8, <1>9 DEF Fills
  <2> QED
    BY <1>5, <2>1, <2>2, Filled
<1>11. \A f \in Frames : mem'[f].use = mem[f].use /\ (f # n => mem'[f] = mem[f])
  BY <1>6, <1>8, <1>9
<1>12. ASSUME NEW p \in PresentIn(task)
       PROVE  /\ mem'[task[p].sp] = mem[task[p].sp]
              /\ \A i \in Region : Ent(mem', task, p, i) = Ent(mem, task, p, i)
  <2>1. /\ task[p].sp \in Frames /\ mem[task[p].sp].use = "space"
        /\ mem[task[p].sp].pt \in Frames /\ mem[mem[task[p].sp].pt].use = "table"
    BY <1>5, OfProcess
  <2>2. mem'[task[p].sp] = mem[task[p].sp] /\ mem'[mem[task[p].sp].pt] = mem[mem[task[p].sp].pt]
    BY <1>6, <1>8, <2>1
  <2> QED
    BY <2>2 DEF Ent
<1>13. Quiet(mem, mem', task)
  <2> SUFFICES ASSUME NEW p \in PresentIn(task)
               PROVE  /\ mem'[task[p].sp].use = "space" /\ mem'[task[p].sp].pt # 0
                      /\ task[p].kstack # 0 => mem'[task[p].kstack].use = "kstack"
                      /\ \A i \in Region :
                           /\ Ent(mem', task, p, i) \in Entries
                           /\ Ent(mem', task, p, i).frame = Ent(mem, task, p, i).frame
                           /\ Ent(mem', task, p, i).w => Ent(mem, task, p, i).w
                           /\ mem'[Ent(mem, task, p, i).frame].use = "data"
                           /\ mem'[task[p].base[i]].use = "data"
    BY DEF Quiet
  <2>1. mem'[task[p].sp].use = "space" /\ mem'[task[p].sp].pt # 0
    BY <1>5, <1>12, OfProcess
  <2>2. task[p].kstack # 0 => mem'[task[p].kstack].use = "kstack"
    <3> SUFFICES ASSUME task[p].kstack # 0 PROVE mem'[task[p].kstack].use = "kstack"
      OBVIOUS
    <3>1. task[p].kstack \in Frames
      BY <1>5, StackFrame
    <3>2. mem[task[p].kstack].use = "kstack"
      BY <1>5 DEF HeldOK, HoldOK
    <3> QED
      BY <1>11, <3>1, <3>2
  <2>3. ASSUME NEW i \in Region
        PROVE  /\ Ent(mem', task, p, i) \in Entries /\ Ent(mem', task, p, i) = Ent(mem, task, p, i)
               /\ mem'[Ent(mem, task, p, i).frame].use = "data"
               /\ mem'[task[p].base[i]].use = "data"
    <3>1. /\ Ent(mem, task, p, i) \in Entries /\ Ent(mem, task, p, i).frame \in Frames
          /\ mem[Ent(mem, task, p, i).frame].use = "data"
          /\ task[p].base[i] \in Frames /\ mem[task[p].base[i]].use = "data"
      BY <1>5, OfProcess
    <3> QED
      BY <1>11, <1>12, <3>1
  <2> QED
    BY <2>1, <2>2, <2>3
<1>14. HeldOK(mem', task')
  BY <1>2, <1>5, <1>13, QuietHeld
<1>15. /\ tlb' \in [Region -> Entries \cup {NoEntry}]
       /\ \A i \in Region : tlb'[i] = IF i = r THEN e ELSE NoEntry
  BY <1>1, <1>4, Keeps
<1>16. \A i \in Region : tlb'[i] = NoEntry \/ tlb'[i] = Ent(mem', task', current', i)
  BY <1>2, <1>4, <1>5, <1>12, <1>15
<1>17. SpaceInv'
  BY <1>2, <1>10, <1>14, <1>15, <1>16, OfCurrent, InvNext DEF SpaceInv
<1>18. ASSUME NEW q \in Pids \ {current} PROVE Reading(mem', task')[q] = Reading(mem, task)[q]
  <2>1. ASSUME task[q].state = "live", NEW i \in Region
        PROVE  mem'[Ent(mem', task', q, i).frame] = mem[Ent(mem, task, q, i).frame]
    <3>1. q \in PresentIn(task)
      BY <2>1 DEF PresentIn
    <3>2. Ent(mem, task, q, i).frame # n
      BY <1>1, <1>4, <1>5, <3>1 DEF HeldOK, OnceOK, n
    <3>3. Ent(mem, task, q, i).frame \in Frames
      BY <1>5, <3>1, OfProcess
    <3> QED
      BY <1>2, <1>8, <1>12, <3>1, <3>2, <3>3
  <2>2. task'[q].state = task[q].state /\ q \in Pids
    BY <1>2
  <2>3. task[q].state = "live" =>
          \A i \in Region : mem'[Ent(mem', task', q, i).frame] = mem[Ent(mem, task, q, i).frame]
    BY <2>1
  <2> QED
    BY <2>2, <2>3, ReadsAlike
<1>19. Reading(mem, task)[current] # Nobody
  BY <1>2, <1>5, ReadsValues DEF Running
<1>20. Reading(mem', task')[current] \in [Region -> Val]
  BY <1>2, <1>5, <1>10, <1>14, ReadsValues DEF Running
<1>21. M!Next
  BY <1>5, <1>18, <1>19, <1>20, ReadingView, OneChanges
<1> QED
  BY <1>17, <1>21

\* Somebody ends, with nobody in its image.
LEMMA DiesStep ==
  ASSUME Careful, SpaceInv, Running, MayEnd(current), Is(mem', mem),
         Is(task', Killed(task, current)), current' = current, cr3' = cr3,
         forks' = forks, tlb' \in [Region -> Entries \cup {NoEntry}]
  PROVE  SpaceInv' /\ M!Next
<1>1. /\ current \in PresentIn(task) /\ current \in Pids /\ task \in [Pids -> Tasks]
      /\ MemOK(mem) /\ HeldOK(mem, task) /\ TableOK(task) /\ cr3 = task[current].sp
  BY OfCurrent DEF SpaceInv
<1>2. /\ task' \in [Pids -> Tasks] /\ HeldOK(mem, task') /\ PresentIn(task') = PresentIn(task)
      /\ task'[current] = [task[current] EXCEPT !.state = "dead"]
      /\ \A q \in Pids \ {current} : task'[q] = task[q]
  BY <1>1, DiesHeld
<1>3. NoSharers(task, current)
  BY DEF Careful, MayEnd, Done, NoSharers, Sharers, PresentIn
<1>4. task'[current].state = "dead" /\ task'[current].sp = task[current].sp
  BY <1>1, <1>2 DEF Tasks
<1>5. TableOK(task')
  BY <1>1, <1>2, <1>3, <1>4, MovesTable
<1>6. SpaceInv'
  <2>1. HeldOK(mem', task') /\ MemOK(mem')
    BY <1>1, <1>2 DEF Is
  <2>2. cr3' = task'[current'].sp /\ task'[current'].state # "live" /\ task'[current'].state # "free"
    BY <1>1, <1>4
  <2>3. \A p, q \in Pids \ {current'} : task'[p].state = "dead" /\ task'[q].state = "dead" => q = p
    BY <1>2 DEF SpaceInv
  <2>4. current' \in Pids /\ forks' \in 0 .. MaxForks
    BY <1>1 DEF SpaceInv
  <2> QED
    BY <1>5, <2>1, <2>2, <2>3, <2>4, InvNext
<1>7. ASSUME NEW q \in Pids \ {current} PROVE Reading(mem', task')[q] = Reading(mem, task)[q]
  <2>1. task'[q] = task[q] /\ task'[q].state = task[q].state /\ q \in Pids
    BY <1>2
  <2>2. task[q].state = "live" =>
          \A i \in Region : mem'[Ent(mem', task', q, i).frame] = mem[Ent(mem, task, q, i).frame]
    BY <2>1 DEF Ent, Is
  <2> QED
    BY <2>1, <2>2, ReadsAlike
<1>8. Reading(mem, task)[current] # Nobody
  BY <1>1, ReadsValues DEF Running
<1>9. Reading(mem', task')[current] = Nobody
  BY <1>1, <1>4 DEF Reading
<1>10. M!Next
  BY <1>1, <1>7, <1>8, <1>9, ReadingView, OneEnds
<1> QED
  BY <1>6, <1>10

\* exit().
LEMMA ExitStep ==
  ASSUME Careful, SpaceInv, Exit
  PROVE  SpaceInv' /\ M!Next
<1>1. /\ Running /\ MayEnd(current) /\ Is(task', Killed(task, current))
      /\ Is(mem', mem) /\ current' = current /\ cr3' = cr3 /\ forks' = forks /\ tlb' = tlb
  BY DEF Exit, Is, Killed
<1>2. tlb' \in [Region -> Entries \cup {NoEntry}]
  BY <1>1 DEF SpaceInv
<1> QED
  BY <1>1, <1>2, DiesStep

\* A step that leaves the processes and the CPU where they are, and their pages.
LEMMA StillStep ==
  ASSUME SpaceInv, MemOK(mem'), HeldOK(mem', task), Reads(mem, mem', task),
         task' = task, current' = current, cr3' = cr3, forks' \in 0 .. MaxForks,
         tlb' \in [Region -> Entries \cup {NoEntry}],
         \A r \in Region : tlb'[r] = NoEntry \/ tlb'[r] = Ent(mem', task, current, r)
  PROVE  SpaceInv' /\ View' = View
<1>1. SpaceInv'
  <2>1. current' \in Pids /\ task'[current'].state # "free" /\ cr3' = task'[current'].sp
    BY OfCurrent DEF SpaceInv
  <2>2. TableOK(task') /\ HeldOK(mem', task')
    BY DEF SpaceInv
  <2>3. \A r \in Region : tlb'[r] = NoEntry \/ tlb'[r] = Ent(mem', task', current', r)
    OBVIOUS
  <2>4. \A p, q \in Pids \ {current'} : task'[p].state = "dead" /\ task'[q].state = "dead" => q = p
    BY DEF SpaceInv
  <2> QED
    BY <2>1, <2>2, <2>3, <2>4, InvNext
<1>2. Reading(mem', task) = Reading(mem, task)
  BY ReadsOn
<1> QED
  BY <1>1, <1>2, ReadingView

\* A store that faults.
LEMMA FaultStep ==
  ASSUME Careful, SpaceInv, NEW r \in Region, Fault(r)
  PROVE  SpaceInv' /\ (M!Next \/ View' = View)
<1> DEFINE s == task[current].sp
           c == space_cow_fault(mem, s, r)
           moved == c.m[s].pt # mem[s].pt
           old == IF moved THEN link_tables(s) ELSE tlb
<1>1. /\ Running /\ mem' = c.m /\ tlb' = [old EXCEPT ![r] = NoEntry]
      /\ current' = current /\ cr3' = cr3 /\ forks' = forks
      /\ IF c.ok THEN task' = task
         ELSE MayEnd(current) /\ Is(task', Killed(task, current))
  BY DEF Fault, Is, Killed
<1>2. /\ current \in PresentIn(task) /\ task \in [Pids -> Tasks] /\ MemOK(mem) /\ HeldOK(mem, task)
      /\ cr3 = s /\ \A i \in Region : tlb[i] = NoEntry \/ tlb[i] = Ent(mem, task, current, i)
  BY <1>1, OfCurrent DEF SpaceInv
<1>3. tlb \in [Region -> Entries \cup {NoEntry}] /\ forks \in 0 .. MaxForks
  BY DEF SpaceInv
<1>4. /\ NoTlb \in [Region -> Entries \cup {NoEntry}] /\ \A i \in Region : NoTlb[i] = NoEntry
  BY DEF NoTlb
<1>5. old = NoTlb \/ old = tlb
  BY <1>2 DEF link_tables
<1> HIDE DEF old
<1>6. tlb' \in [Region -> Entries \cup {NoEntry}] /\ \A i \in Region : tlb'[i] = IF i = r THEN NoEntry ELSE old[i]
  BY <1>1, <1>3, <1>4, <1>5
<1> HIDE DEF c
<1>7. CASE c.ok
  <2>1. Is(mem', space_cow_fault(mem, s, r).m) /\ space_cow_fault(mem, s, r).ok /\ Is(s, task[current].sp)
    BY <1>1, <1>7 DEF c, Is
  <2> HIDE DEF s
  <2>2. /\ MemOK(mem') /\ HeldOK(mem', task) /\ Reads(mem, mem', task)
        /\ \A i \in Region \ {r} : Ent(mem', task, current, i) = Ent(mem, task, current, i)
    BY <1>2, <2>1, CowFaultOk
  <2>3. \A i \in Region : tlb'[i] = NoEntry \/ tlb'[i] = Ent(mem', task, current, i)
    BY <1>2, <1>4, <1>5, <1>6, <2>2
  <2> QED
    BY <1>1, <1>3, <1>6, <1>7, <2>2, <2>3, StillStep
<1>8. CASE ~c.ok
  <2>1. Is(mem', mem)
    BY <1>1, <1>8, CowFaultFails DEF c, Is
  <2> QED
    BY <1>1, <1>6, <1>8, <2>1, DiesStep
<1> QED
  BY <1>7, <1>8

\* A space that was made beside those of the processes.
LEMMA Made ==
  ASSUME SpaceInv, space_create(mem).ok, NEW k, Is(k, space_create(mem).m),
         NEW s, Is(s, space_create(mem).s)
  PROVE  /\ MemOK(k) /\ HeldOK(k, task) /\ Reads(mem, k, task) /\ Steady(mem, k, task)
         /\ Same(mem, k, {}) /\ s \in Frames /\ mem[s].use = "free"
         /\ k[s].use = "space" /\ k[s].cow = 0 /\ k[s].pt # 0 /\ k[s].pt \in Frames
         /\ mem[k[s].pt].use = "free"
         /\ \A f \in Frames \ {s, k[s].pt} : k[f] = mem[f]
         /\ \A p \in PresentIn(task) : task[p].sp # s
<1>1. MemOK(mem) /\ HeldOK(mem, task) /\ task \in [Pids -> Tasks]
  BY OfCurrent DEF SpaceInv
<1>2. k = space_create(mem).m /\ s = space_create(mem).s
  BY DEF Is
<1>3. /\ MemOK(k) /\ Same(mem, k, {}) /\ s \in Frames /\ mem[s].use = "free"
      /\ k[s].use = "space" /\ k[s].cow = 0 /\ k[s].pt # 0 /\ k[s].pt \in Frames
      /\ mem[k[s].pt].use = "free"
      /\ \A f \in Frames \ {s, k[s].pt} : k[f] = mem[f]
  BY <1>1, <1>2, CreateOk
<1>4. \A p \in PresentIn(task) : task[p].sp # s
  <2>1. ASSUME NEW p \in PresentIn(task) PROVE mem[task[p].sp].use = "space"
    BY <1>1, OfProcess
  <2> QED
    BY <1>3, <2>1
<1>5. HeldOK(k, task) /\ Reads(mem, k, task) /\ Steady(mem, k, task)
  BY <1>1, <1>3, SameHeld
<1> QED
  BY <1>3, <1>4, <1>5

\* The slot fork_user() fills.
Child(s, ks) ==
  [state |-> "live", sp |-> s, base |-> task[current].base,
   owns |-> FALSE, kstack |-> ks, ppid |-> current]

\* A fork, once the pages are shared, that finds room for the kernel stack.
LEMMA ForkFits ==
  ASSUME SpaceInv, Running, NEW l, MemOK(l), HeldOK(l, task), Reads(mem, l, task),
         NEW s \in Frames, l[s].use = "space", l[s].pt = l[task[current].sp].pt,
         \A p \in PresentIn(task) : task[p].sp # s,
         NEW c \in Pids \ PresentIn(task), NEW ks \in Frames, l[ks].use = "free",
         Is(mem', [l EXCEPT ![ks] = Kstack]), Is(task', [task EXCEPT ![c] = Child(s, ks)]),
         tlb' = NoTlb, current' = current, cr3' = cr3, forks' \in 0 .. MaxForks
  PROVE  SpaceInv' /\ M!Next
<1>1. /\ current \in PresentIn(task) /\ current \in Pids /\ task \in [Pids -> Tasks]
      /\ MemOK(mem) /\ HeldOK(mem, task) /\ TableOK(task) /\ cr3 = task[current].sp
      /\ task[current].state = "live"
  BY OfCurrent DEF SpaceInv, Running
<1>2. OfFrames(l)
  BY DEF MemOK, CellsOK
<1>3. mem' = [l EXCEPT ![ks] = Kstack]
  BY DEF Is
<1>4. mem'[ks] = Kstack /\ \A f \in Frames \ {ks} : mem'[f] = l[f]
  BY <1>2, <1>3 DEF OfFrames
<1>5. Kstack.use = "kstack" /\ Cell(Kstack)
  BY Shapes, MadeCells
<1>6. MemOK(mem')
  BY <1>3, <1>5, NewCell
<1>7. Same(l, mem', {})
  <2>1. Inert(l, mem')
    BY <1>4 DEF Inert
  <2>2. ASSUME NEW t \in Frames, l[t].use = "space"
        PROVE  /\ mem'[t].use = "space" /\ mem'[t].pt = l[t].pt
               /\ l[t].pt # 0 => mem'[l[t].pt] = l[l[t].pt]
    <3>1. mem'[t] = l[t]
      BY <1>4, <2>2
    <3>2. l[t].pt # 0 => l[t].pt \in Frames /\ l[l[t].pt].use = "table"
      BY <2>2, OfSpace
    <3> QED
      BY <1>4, <2>2, <3>1, <3>2
  <2> QED
    BY <2>1, <2>2 DEF Same
<1>8. HeldOK(mem', task) /\ Reads(l, mem', task)
  BY <1>1, <1>6, <1>7, SameHeld
<1>9. Reads(mem, mem', task)
  BY <1>8, Twice
<1> DEFINE x == Child(s, ks)
<1>10. /\ x \in Tasks /\ x.state = "live" /\ x.sp = s /\ x.kstack = ks
       /\ x.base = task[current].base /\ ~x.owns /\ x.ppid = current
  <2>1. task[current] \in Tasks
    BY <1>1
  <2>2. task[current].base \in [Region -> 0 .. kFrames]
    BY <2>1 DEF Tasks
  <2>3. s \in 0 .. kFrames /\ ks \in 0 .. kFrames
    BY FramesFinite
  <2>4. current \in 0 .. kMaxTask
    BY <1>1, SpaceAssumption DEF Pids
  <2> QED
    BY <2>2, <2>3, <2>4 DEF Child, Tasks, States
<1> HIDE DEF x
<1>11. task' = [task EXCEPT ![c] = x]
  BY DEF Is, x
<1>12. task' \in [Pids -> Tasks] /\ task'[c] = x /\ \A q \in Pids \ {c} : task'[q] = task[q]
  BY <1>1, <1>10, <1>11
<1>13. mem'[s].use = "space" /\ mem'[s].pt = mem'[task[current].sp].pt
  <2>1. task[current].sp \in Frames /\ l[task[current].sp].use = "space"
    BY <1>1, OfProcess
  <2>2. mem'[s] = l[s] /\ mem'[task[current].sp] = l[task[current].sp]
    BY <1>4, <2>1
  <2> QED
    BY <2>2
<1>14. \A q \in PresentIn(task) : task[q].kstack # ks
  <2> SUFFICES ASSUME NEW q \in PresentIn(task), task[q].kstack = ks PROVE FALSE
    OBVIOUS
  <2>1. ks # 0
    BY FramesFinite
  <2>2. l[ks].use = "kstack"
    BY <2>1 DEF HeldOK, HoldOK
  <2> QED
    BY <2>2
<1>15. mem'[ks].use = "kstack"
  BY <1>4, <1>5
<1>16. /\ task'[c].state = "live" /\ task'[c].sp = s /\ task'[c].kstack = ks
       /\ task'[c].base = task[current].base /\ ~task'[c].owns /\ task'[c].ppid = current
  BY <1>10, <1>12
<1>17. /\ HeldOK(mem', task') /\ PresentIn(task') = PresentIn(task) \cup {c}
       /\ \A q \in PresentIn(task), r \in Region : Ent(mem', task', q, r) = Ent(mem', task, q, r)
       /\ \A r \in Region : Ent(mem', task', c, r) = Ent(mem', task, current, r)
  BY <1>1, <1>6, <1>8, <1>12, <1>13, <1>14, <1>15, <1>16, ForksHeld
<1>18. TableOK(task')
  BY <1>1, <1>12, <1>16, ForksTable
<1>19. c # current /\ task'[current] = task[current]
  BY <1>1, <1>12
<1>20. SpaceInv'
  <2>1. current' \in Pids /\ cr3' = task'[current'].sp /\ task'[current'].state # "free"
    BY <1>1, <1>19
  <2>2. tlb' \in [Region -> Entries \cup {NoEntry}] /\ \A r \in Region : tlb'[r] = NoEntry
    BY DEF NoTlb
  <2>3. \A p, q \in Pids \ {current'} : task'[p].state = "dead" /\ task'[q].state = "dead" => q = p
    BY <1>12, <1>16 DEF SpaceInv
  <2> QED
    BY <1>6, <1>17, <1>18, <2>1, <2>2, <2>3, InvNext
<1>21. ASSUME NEW q \in Pids \ {c} PROVE Reading(mem', task')[q] = Reading(mem, task)[q]
  <2>1. task'[q].state = task[q].state /\ q \in Pids
    BY <1>12
  <2>2. task[q].state = "live" =>
          \A i \in Region : mem'[Ent(mem', task', q, i).frame] = mem[Ent(mem, task, q, i).frame]
    <3> SUFFICES ASSUME task[q].state = "live", NEW i \in Region
                 PROVE mem'[Ent(mem', task', q, i).frame] = mem[Ent(mem, task, q, i).frame]
      OBVIOUS
    <3>1. q \in PresentIn(task)
      BY DEF PresentIn
    <3> QED
      BY <1>9, <1>17, <3>1 DEF Reads
  <2> QED
    BY <2>1, <2>2, ReadsAlike
<1>22. Reading(mem', task')[c] = Reading(mem, task)[current]
  <2>1. \A i \in Region : mem'[Ent(mem', task', c, i).frame].val = mem[Ent(mem, task, current, i).frame].val
    BY <1>1, <1>9, <1>17 DEF Reads
  <2>2. Reading(mem', task')[c] = [i \in Region |-> mem'[Ent(mem', task', c, i).frame].val]
    BY <1>16 DEF Reading
  <2>3. Reading(mem, task)[current] = [i \in Region |-> mem[Ent(mem, task, current, i).frame].val]
    BY <1>1 DEF Reading
  <2> QED
    BY <2>1, <2>2, <2>3
<1>23. Reading(mem, task)[current] # Nobody /\ Reading(mem, task)[c] = Nobody
  <2>1. task[c].state # "live"
    BY DEF PresentIn
  <2> QED
    BY <1>1, <2>1, ReadsValues
<1>24. M!Next
  BY <1>1, <1>21, <1>22, <1>23, ReadingView, OneStarts
<1> QED
  BY <1>20, <1>24

\* fork_user().
LEMMA ForkStep ==
  ASSUME SpaceInv, Fork
  PROVE  SpaceInv' /\ (M!Next \/ View' = View)
<1> DEFINE own == task[current].sp
           s == space_create(mem).s
           k == space_create(mem).m
           l == space_share_user(k, s, own).m
           ks == kframe_alloc(l)
<1>1. PICK c \in free_slot :
        IF ~space_create(mem).ok THEN mem' = k /\ task' = task /\ tlb' = tlb
        ELSE IF ~space_share_user(k, s, own).ok
        THEN mem' = space_destroy(l, s) /\ task' = task /\ tlb' = tlb
        ELSE IF ~Room(l, 1) THEN mem' = l /\ tlb' = link_tables(own) /\ task' = task
        ELSE /\ mem' = [l EXCEPT ![ks] = Kstack] /\ tlb' = link_tables(own)
             /\ task' = [task EXCEPT ![c] = Child(s, ks)]
  BY DEF Fork, Child
<1>2. Running /\ forks' \in 0 .. MaxForks /\ current' = current /\ cr3' = cr3
  BY SpaceAssumption DEF Fork, SpaceInv
<1>3. /\ current \in PresentIn(task) /\ task \in [Pids -> Tasks] /\ MemOK(mem) /\ HeldOK(mem, task)
      /\ cr3 = own /\ \A i \in Region : tlb[i] = NoEntry \/ tlb[i] = Ent(mem, task, current, i)
      /\ tlb \in [Region -> Entries \cup {NoEntry}]
  BY <1>2, OfCurrent DEF SpaceInv
<1>4. link_tables(own) = NoTlb
  BY <1>3 DEF link_tables
<1>5. NoTlb \in [Region -> Entries \cup {NoEntry}] /\ \A i \in Region : NoTlb[i] = NoEntry
  BY DEF NoTlb
<1>6. own \in Frames /\ c \in Pids \ PresentIn(task)
  BY <1>3, OfProcess DEF free_slot, PresentIn
<1>7. Is(k, space_create(mem).m) /\ Is(s, space_create(mem).s) /\ Is(l, space_share_user(k, s, own).m) /\ Is(own, task[current].sp)
  BY DEF Is
<1> HIDE DEF k, s, l, ks, own
<1>8. CASE ~space_create(mem).ok
  <2>1. mem' = space_create(mem).m /\ task' = task /\ tlb' = tlb
    BY <1>1, <1>8 DEF k
  <2>2. MemOK(mem') /\ Same(mem, mem', {})
    BY <1>3, <1>8, <2>1, CreateFails
  <2>3. HeldOK(mem', task) /\ Reads(mem, mem', task) /\ Steady(mem, mem', task)
    BY <1>3, <2>2, SameHeld
  <2>4. \A i \in Region : tlb'[i] = NoEntry \/ tlb'[i] = Ent(mem', task, current, i)
    BY <1>3, <2>1, <2>3 DEF Steady
  <2> QED
    BY <1>2, <1>3, <2>1, <2>2, <2>3, <2>4, StillStep
<1>9. CASE space_create(mem).ok
  <2>1. /\ MemOK(k) /\ HeldOK(k, task) /\ Reads(mem, k, task) /\ Steady(mem, k, task)
        /\ s \in Frames /\ k[s].use = "space" /\ k[s].cow = 0 /\ k[s].pt # 0
        /\ \A p \in PresentIn(task) : task[p].sp # s
    BY <1>7, <1>9, Made
  <2>2. k[own].use = "space" /\ k[own].pt # 0 /\ s # own
    BY <1>3, <2>1, OfProcess DEF own
  <2>3. CASE ~space_share_user(k, s, own).ok
    <3>1. mem' = space_destroy(l, s) /\ task' = task /\ tlb' = tlb
      BY <1>1, <1>9, <2>3
    <3>2. MemOK(l) /\ Same(k, l, {}) /\ l[s] = k[s]
      BY <1>6, <1>7, <2>1, <2>2, <2>3, ShareFails
    <3>3. HeldOK(l, task) /\ Reads(k, l, task) /\ Steady(k, l, task)
      BY <1>3, <2>1, <3>2, SameHeld
    <3>4. MemOK(mem') /\ Same(l, mem', {s})
      BY <2>1, <3>1, <3>2, Destroy
    <3>5. HeldOK(mem', task) /\ Reads(l, mem', task) /\ Steady(l, mem', task)
      BY <1>3, <2>1, <3>2, <3>3, <3>4, SameHeld
    <3>6. Reads(mem, mem', task) /\ Steady(mem, mem', task)
      BY <2>1, <3>3, <3>5, Twice
    <3>7. \A i \in Region : tlb'[i] = NoEntry \/ tlb'[i] = Ent(mem', task, current, i)
      BY <1>3, <3>1, <3>6 DEF Steady
    <3> QED
      BY <1>2, <1>3, <3>1, <3>4, <3>5, <3>6, <3>7, StillStep
  <2>4. CASE space_share_user(k, s, own).ok
    <3>1. MemOK(l) /\ Soft(k, l, {s}) /\ l[s].use = "space" /\ l[s].pt = k[own].pt
      BY <1>6, <1>7, <2>1, <2>2, <2>4, ShareOk
    <3>2. HeldOK(l, task) /\ Reads(k, l, task)
      BY <1>3, <2>1, <3>1, SoftHeld
    <3>3. Reads(mem, l, task)
      BY <2>1, <3>2, Twice
    <3>4. CASE ~Room(l, 1)
      <4>1. mem' = l /\ task' = task /\ tlb' = NoTlb
        BY <1>1, <1>4, <1>9, <2>4, <3>4
      <4> QED
        BY <1>2, <1>5, <3>1, <3>2, <3>3, <4>1, StillStep
    <3>5. CASE Room(l, 1)
      <4>1. /\ Is(mem', [l EXCEPT ![ks] = Kstack]) /\ tlb' = NoTlb
            /\ Is(task', [task EXCEPT ![c] = Child(s, ks)])
        BY <1>1, <1>4, <1>9, <2>4, <3>5 DEF Is
      <4>2. ks \in Frames /\ l[ks].use = "free"
        BY <3>5, Alloc DEF ks
      <4>3. l[s].pt = l[task[current].sp].pt
        BY <1>6, <1>7, <2>2, <3>1 DEF Soft, Is
      <4> QED
        BY <1>2, <1>6, <2>1, <3>1, <3>2, <3>3, <4>1, <4>2, <4>3, ForkFits
    <3> QED
      BY <3>4, <3>5
  <2> QED
    BY <2>3, <2>4
<1> QED
  BY <1>8, <1>9

\* replace() without room: the processes go on as they were.
LEMMA ExecNoRoomStep ==
  ASSUME SpaceInv, ExecNoRoom
  PROVE  SpaceInv' /\ View' = View
<1>1. /\ mem' = IF space_create(mem).ok THEN space_destroy(space_create(mem).m, space_create(mem).s)
                ELSE space_create(mem).m
      /\ Running /\ task' = task /\ current' = current /\ cr3' = cr3 /\ tlb' = tlb /\ forks' = forks
  BY DEF ExecNoRoom
<1>2. /\ current \in PresentIn(task) /\ task \in [Pids -> Tasks] /\ MemOK(mem) /\ HeldOK(mem, task) /\ forks \in 0 .. MaxForks
      /\ \A i \in Region : tlb[i] = NoEntry \/ tlb[i] = Ent(mem, task, current, i)
      /\ tlb \in [Region -> Entries \cup {NoEntry}]
  BY <1>1, OfCurrent DEF SpaceInv
<1>3. MemOK(mem') /\ Same(mem, mem', {})
  <2>1. CASE space_create(mem).ok
    <3>1. mem' = mem
      BY <1>1, <1>2, <2>1, CreateDestroy
    <3> QED
      BY <1>2, <3>1 DEF Same, Inert
  <2>2. CASE ~space_create(mem).ok
    BY <1>1, <1>2, <2>2, CreateFails
  <2> QED
    BY <2>1, <2>2
<1>4. HeldOK(mem', task) /\ Reads(mem, mem', task) /\ Steady(mem, mem', task)
  BY <1>2, <1>3, SameHeld
<1>5. \A i \in Region : tlb'[i] = NoEntry \/ tlb'[i] = Ent(mem', task, current, i)
  BY <1>1, <1>2, <1>4 DEF Steady
<1> QED
  BY <1>1, <1>2, <1>3, <1>4, <1>5, StillStep

\* load_into() that fails for an owner, before the switch: everything is as it was.
LEMMA ExecFailsStep ==
  ASSUME Careful, SpaceInv, NEW at \in {"open", "load"}, ExecFails(at)
  PROVE  SpaceInv' /\ View' = View
<1>a. Party \in FailedBy /\ at \in FailedAt
  BY DEF ExecFails
<1>b. Party = "owner" /\ at = "open"
  BY <1>a DEF Careful
<1>c. task[current].owns
  BY <1>b DEF Party
<1>1. /\ mem' = space_destroy(space_create(mem).m, space_create(mem).s)
      /\ space_create(mem).ok /\ task' = [task EXCEPT ![current].owns = TRUE]
      /\ task[current].owns /\ Running /\ current' = current /\ cr3' = cr3 /\ tlb' = tlb
      /\ forks' = forks
  BY <1>b, <1>c DEF ExecFails
<1>2. /\ task \in [Pids -> Tasks] /\ MemOK(mem) /\ HeldOK(mem, task) /\ forks \in 0 .. MaxForks
      /\ \A i \in Region : tlb[i] = NoEntry \/ tlb[i] = Ent(mem, task, current, i)
      /\ tlb \in [Region -> Entries \cup {NoEntry}] /\ current \in Pids
  BY <1>1, OfCurrent DEF SpaceInv
<1>3. mem' = mem
  BY <1>1, <1>2, CreateDestroy
<1>4. task' = task
  <2>1. task[current] \in Tasks
    BY <1>2
  <2>2. [task[current] EXCEPT !.owns = TRUE] = task[current]
    BY <1>1, <2>1 DEF Tasks
  <2> QED
    BY <1>1, <1>2, <2>2
<1>5. MemOK(mem') /\ HeldOK(mem', task) /\ Reads(mem, mem', task)
  BY <1>2, <1>3 DEF Reads
<1>6. \A i \in Region : tlb'[i] = NoEntry \/ tlb'[i] = Ent(mem', task, current, i)
  BY <1>1, <1>2, <1>3
<1> QED
  BY <1>1, <1>2, <1>4, <1>5, <1>6, StillStep

\* The slot of a process in a new image.
Renewed(T, p, s, b) == [T EXCEPT ![p].sp = s, ![p].base = b, ![p].owns = TRUE]

\* What it is.
LEMMA RenewedIs ==
  ASSUME NEW T \in [Pids -> Tasks], NEW p \in Pids, NEW s \in Frames, NEW b \in [Region -> Frames],
         NEW U, Is(U, Renewed(T, p, s, b))
  PROVE  /\ U \in [Pids -> Tasks] /\ \A q \in Pids \ {p} : U[q] = T[q]
         /\ U[p].state = T[p].state /\ U[p].kstack = T[p].kstack /\ U[p].sp = s
         /\ U[p].base = b /\ U[p].owns
<1>1. T[p] \in Tasks
  OBVIOUS
<1> DEFINE x == [[[T[p] EXCEPT !.sp = s] EXCEPT !.base = b] EXCEPT !.owns = TRUE]
<1>2. s \in 0 .. kFrames /\ b \in [Region -> 0 .. kFrames]
  BY FramesFinite
<1>3. x \in Tasks /\ x.state = T[p].state /\ x.kstack = T[p].kstack /\ x.sp = s /\ x.base = b /\ x.owns
  BY <1>1, <1>2 DEF Tasks
<1>4. U = [T EXCEPT ![p] = x]
  BY <1>1 DEF Is, Renewed, Tasks
<1> HIDE DEF x
<1>5. U \in [Pids -> Tasks] /\ U[p] = x /\ \A q \in Pids \ {p} : U[q] = T[q]
  BY <1>3, <1>4
<1> QED
  BY <1>3, <1>5

\* The process that runs in the new image, before the old one is given back.
LEMMA ExecMoves ==
  ASSUME SpaceInv, space_create(mem).ok, NEW k, Is(k, space_create(mem).m),
         NEW s, Is(s, space_create(mem).s), Room(k, kRegions),
         NEW b, Is(b, give_frames(k)), NEW j, Is(j, map_image(k, s, b)),
         NEW U, Is(U, Renewed(task, current, s, b))
  PROVE  /\ MemOK(j) /\ HeldOK(j, U) /\ PresentIn(U) = PresentIn(task) /\ Inert(mem, j)
         /\ s \in Frames /\ (\A p \in PresentIn(task) : task[p].sp # s)
         /\ b \in [Region -> Frames]
         /\ \A r \in Region : mem[b[r]].use = "free" /\ Ent(j, U, current, r).frame = b[r]
         /\ \A q \in PresentIn(task) \ {current}, r \in Region :
              /\ Ent(j, U, q, r) = Ent(mem, task, q, r)
              /\ j[Ent(j, U, q, r).frame] = mem[Ent(mem, task, q, r).frame]
<1>1. current \in PresentIn(task) /\ current \in Pids /\ task \in [Pids -> Tasks]
  BY OfCurrent
<1>2. /\ MemOK(k) /\ HeldOK(k, task) /\ Reads(mem, k, task) /\ Steady(mem, k, task)
      /\ Same(mem, k, {}) /\ s \in Frames /\ mem[s].use = "free"
      /\ k[s].use = "space" /\ k[s].cow = 0 /\ k[s].pt # 0 /\ k[s].pt \in Frames
      /\ \A f \in Frames \ {s, k[s].pt} : k[f] = mem[f]
      /\ \A p \in PresentIn(task) : task[p].sp # s
  BY Made
<1>3. /\ b \in [Region -> Frames] /\ \A r \in Region : k[b[r]].use = "free"
      /\ \A r, i \in Region : b[r] = b[i] => r = i
  BY Give DEF Is
<1>4. /\ MemOK(j) /\ Same(k, j, {s}) /\ j[s] = k[s]
      /\ \A r \in Region : /\ j[k[s].pt].ent[r] \in Entries /\ j[k[s].pt].ent[r].frame = b[r]
                           /\ j[b[r]] = Data(Loaded)
  <2>1. Maps(k, s, b, j)
    BY <1>2, <1>3 DEF Maps
  <2>2. MemOK(j) /\ Same(k, j, {s}) /\ Mapped(k, s, b, j)
    BY <2>1, MapImage
  <2> QED
    BY <2>2 DEF Mapped
<1>5. HeldOK(j, task) /\ Reads(k, j, task) /\ Steady(k, j, task)
  BY <1>1, <1>2, <1>4, SameHeld
<1>6. Reads(mem, j, task) /\ Steady(mem, j, task)
  BY <1>2, <1>5, Twice
<1>7. Inert(mem, j)
  BY <1>2, <1>4 DEF Same, Inert
<1>8. ASSUME NEW r \in Region PROVE mem[b[r]].use = "free"
  <2>1. k[k[s].pt].use = "table"
    BY <1>2, OfSpace
  <2>2. b[r] \in Frames \ {s, k[s].pt}
    BY <1>2, <1>3, <2>1
  <2> QED
    BY <1>2, <1>3, <2>2
<1>9. /\ U \in [Pids -> Tasks] /\ \A q \in Pids \ {current} : U[q] = task[q]
      /\ U[current].state = task[current].state /\ U[current].kstack = task[current].kstack
      /\ U[current].sp = s /\ U[current].base = b /\ U[current].owns
  BY <1>1, <1>2, <1>3, RenewedIs
<1>10. \A r \in Region : Ent(j, U, current, r) \in Entries /\ Ent(j, U, current, r).frame = b[r]
  BY <1>4, <1>9 DEF Ent
<1>11. ASSUME NEW q \in PresentIn(task), NEW r \in Region, NEW i \in Region
       PROVE  Ent(j, task, q, i).frame # b[r] /\ task[q].base[i] # b[r]
  <2>1. k[Ent(k, task, q, i).frame].use = "data" /\ k[task[q].base[i]].use = "data"
    BY <1>2, OfProcess
  <2>2. Ent(j, task, q, i) = Ent(k, task, q, i)
    BY <1>5 DEF Steady
  <2> QED
    BY <1>3, <2>1, <2>2
<1>12. ASSUME NEW r \in Region PROVE b[r] \in Frames /\ j[b[r]].use = "data"
  <2>1. j[b[r]] = Data(Loaded)
    BY <1>4
  <2> QED
    BY <1>3, <2>1, Shapes
<1>13. Is(U[current].base, b) /\ U[current].sp \in Frames
  BY <1>2, <1>9 DEF Is
<1>14. j[U[current].sp].use = "space" /\ j[U[current].sp].pt # 0
  BY <1>2, <1>4, <1>9
<1>15. \A q \in PresentIn(task) : task[q].sp # U[current].sp
  BY <1>2, <1>9
<1>16. /\ HeldOK(j, U) /\ PresentIn(U) = PresentIn(task)
       /\ \A q \in PresentIn(U) \ {current}, r \in Region : Ent(j, U, q, r) = Ent(j, task, q, r)
  <2>1. Renews(j, task, current, U, b)
    BY <1>1, <1>3, <1>5, <1>9, <1>10, <1>11, <1>12, <1>13, <1>14, <1>15 DEF Renews
  <2> QED
    BY <2>1, MovesHeld
<1>17. ASSUME NEW q \in PresentIn(task) \ {current}, NEW r \in Region
       PROVE  /\ Ent(j, U, q, r) = Ent(mem, task, q, r)
              /\ j[Ent(j, U, q, r).frame] = mem[Ent(mem, task, q, r).frame]
  BY <1>6, <1>16 DEF Steady, Reads
<1>18. \A r \in Region : Ent(j, U, current, r).frame = b[r]
  BY <1>10
<1> QED
  BY <1>2, <1>3, <1>4, <1>7, <1>8, <1>16, <1>17, <1>18

\* replace() all the way.
LEMMA ExecStep ==
  ASSUME Careful, SpaceInv, Exec
  PROVE  SpaceInv' /\ M!Next
<1> DEFINE s == space_create(mem).s
           k == space_create(mem).m
           b == give_frames(k)
           j == map_image(k, s, b)
           t == task[current]
           h == space_destroy(j, t.sp)
           D == Owned(t)
<1>1. /\ Running /\ space_create(mem).ok /\ Room(k, kRegions) /\ Done(current)
      /\ mem' = kfree(h, D) /\ current' = current /\ forks' = forks
      /\ cr3' = s /\ tlb' = NoTlb
  BY DEF Exec, Careful, space_switch
<1>2. Is(task', Renewed(task, current, s, b))
  BY DEF Exec, Is, Renewed
<1>3. /\ Is(k, space_create(mem).m) /\ Is(s, space_create(mem).s) /\ Is(b, give_frames(k))
      /\ Is(j, map_image(k, s, b)) /\ Is(h, space_destroy(j, t.sp))
  BY DEF Is
<1>4. /\ current \in PresentIn(task) /\ current \in Pids /\ task \in [Pids -> Tasks]
      /\ MemOK(mem) /\ HeldOK(mem, task) /\ TableOK(task) /\ task[current].state = "live"
  BY <1>1, OfCurrent DEF SpaceInv, Running
<1> HIDE DEF k, s, b, j, h, D
<1>5. /\ MemOK(j) /\ HeldOK(j, task') /\ PresentIn(task') = PresentIn(task) /\ Inert(mem, j)
      /\ s \in Frames /\ (\A p \in PresentIn(task) : task[p].sp # s)
      /\ b \in [Region -> Frames]
      /\ \A r \in Region : mem[b[r]].use = "free" /\ Ent(j, task', current, r).frame = b[r]
      /\ \A q \in PresentIn(task) \ {current}, r \in Region :
           /\ Ent(j, task', q, r) = Ent(mem, task, q, r)
           /\ j[Ent(j, task', q, r).frame] = mem[Ent(mem, task, q, r).frame]
  BY <1>1, <1>2, <1>3, ExecMoves
<1>6. /\ task' \in [Pids -> Tasks] /\ \A q \in Pids \ {current} : task'[q] = task[q]
      /\ task'[current].state = task[current].state /\ task'[current].kstack = task[current].kstack
      /\ task'[current].sp = s /\ task'[current].base = b /\ task'[current].owns
  BY <1>2, <1>4, <1>5, RenewedIs
<1>7. NoSharers(task, current)
  BY <1>1 DEF Done, NoSharers, Sharers, PresentIn
<1>8. TableOK(task')
  BY <1>4, <1>6, <1>7, MovesTable
<1>9. t.sp \in Frames /\ j[t.sp].use = "space" /\ j[t.sp].pt # 0
  <2>1. /\ t.sp \in Frames /\ mem[t.sp].use = "space" /\ mem[t.sp].pt # 0
    BY <1>4, OfProcess
  <2>2. Same(mem, k, {}) /\ MemOK(k) /\ k[s].use = "space" /\ k[s].cow = 0 /\ k[s].pt # 0 /\ s \in Frames
    BY <1>1, <1>3, Made
  <2>3. b \in [Region -> Frames] /\ \A r \in Region : k[b[r]].use = "free"
    BY <1>1, Give DEF b
  <2>4. Same(k, j, {s})
    <3>1. Maps(k, s, b, j)
      BY <1>3, <2>2, <2>3 DEF Maps
    <3> QED
      BY <3>1, MapImage
  <2>5. k[t.sp].use = "space" /\ k[t.sp].pt = mem[t.sp].pt
    BY <2>1, <2>2 DEF Same
  <2>6. t.sp # s
    BY <1>4, <1>5
  <2> QED
    BY <2>1, <2>4, <2>5, <2>6 DEF Same
<1>10. MemOK(h) /\ Same(j, h, {t.sp})
  BY <1>5, <1>9, Destroy DEF h
<1>11. \A p \in PresentIn(task') : task'[p].sp \notin {t.sp}
  <2> SUFFICES ASSUME NEW p \in PresentIn(task) PROVE task'[p].sp # t.sp
    BY <1>5
  <2>1. CASE p = current
    BY <1>4, <1>5, <1>6, <2>1
  <2>2. CASE p # current
    <3>1. task'[p] = task[p]
      BY <1>6, <2>2 DEF PresentIn
    <3>2. task[p].sp # task[current].sp
      BY <1>4, <2>2 DEF HeldOK, HoldOK
    <3> QED
      BY <3>1, <3>2
  <2> QED
    BY <2>1, <2>2
<1>12. HeldOK(h, task') /\ Reads(j, h, task') /\ Steady(j, h, task')
  BY <1>5, <1>6, <1>10, <1>11, SameHeld
<1>13. Inert(mem, h)
  BY <1>5, <1>10 DEF Same, Inert
<1>14. \A q \in PresentIn(task') \ {current} : q \in PresentIn(task) /\ task'[q] = task[q]
  BY <1>5, <1>6 DEF PresentIn
<1>15. \A q \in PresentIn(task') \ {current}, r \in Region : Ent(h, task', q, r) = Ent(mem, task, q, r)
  BY <1>5, <1>12 DEF Steady
<1>16. ASSUME NEW r \in Region
       PROVE  mem[Ent(h, task', current, r).frame].use = "free" /\ mem[task'[current].base[r]].use = "free"
  <2>1. Ent(h, task', current, r) = Ent(j, task', current, r)
    BY <1>4, <1>5, <1>12 DEF Steady
  <2>2. Ent(j, task', current, r).frame = b[r] /\ mem[b[r]].use = "free"
    BY <1>5
  <2> QED
    BY <1>6, <2>1, <2>2
<1>17. D \subseteq Owned(task[current])
  BY DEF D
<1>18. FamilyOK(task)
  BY <1>4 DEF TableOK
<1>19. /\ MemOK(kfree(h, D)) /\ HeldOK(kfree(h, D), task')
       /\ Reads(h, kfree(h, D), task') /\ Steady(h, kfree(h, D), task')
  <2>1. D \subseteq Owned(task[current]) \cup ({task[current].kstack} \ {task'[current].kstack})
    BY <1>17
  <2> QED
    BY <1>4, <1>6, <1>7, <1>10, <1>12, <1>13, <1>14, <1>15, <1>16, <1>17, <1>18, <2>1, GiveBack
<1>20. MemOK(mem') /\ HeldOK(mem', task') /\ Reads(j, mem', task')
  BY <1>1, <1>12, <1>19, Twice
<1>21. SpaceInv'
  <2>1. current' \in Pids /\ cr3' = task'[current'].sp /\ task'[current'].state # "free"
    BY <1>1, <1>4, <1>6
  <2>2. tlb' \in [Region -> Entries \cup {NoEntry}] /\ \A r \in Region : tlb'[r] = NoEntry
    BY <1>1 DEF NoTlb
  <2>3. \A p, q \in Pids \ {current'} : task'[p].state = "dead" /\ task'[q].state = "dead" => q = p
    BY <1>1, <1>6 DEF SpaceInv
  <2>4. forks' \in 0 .. MaxForks
    BY <1>1 DEF SpaceInv
  <2> QED
    BY <1>8, <1>20, <2>1, <2>2, <2>3, <2>4, InvNext
<1>22. ASSUME NEW q \in Pids \ {current} PROVE Reading(mem', task')[q] = Reading(mem, task)[q]
  <2>1. task'[q].state = task[q].state /\ q \in Pids
    BY <1>6
  <2>2. task[q].state = "live" =>
          \A i \in Region : mem'[Ent(mem', task', q, i).frame] = mem[Ent(mem, task, q, i).frame]
    <3> SUFFICES ASSUME task[q].state = "live", NEW i \in Region
                 PROVE mem'[Ent(mem', task', q, i).frame] = mem[Ent(mem, task, q, i).frame]
      OBVIOUS
    <3>1. q \in PresentIn(task) \ {current} /\ q \in PresentIn(task')
      BY <1>5 DEF PresentIn
    <3>2. mem'[Ent(mem', task', q, i).frame] = j[Ent(j, task', q, i).frame]
      BY <1>20, <3>1 DEF Reads
    <3> QED
      BY <1>5, <3>1, <3>2
  <2> QED
    BY <2>1, <2>2, ReadsAlike
<1>23. Reading(mem, task)[current] # Nobody
  BY <1>4, ReadsValues
<1>24. Reading(mem', task')[current] \in [Region -> Val]
  BY <1>4, <1>6, <1>20, ReadsValues
<1>25. M!Next
  BY <1>4, <1>22, <1>23, <1>24, ReadingView, OneChanges
<1> QED
  BY <1>21, <1>25

\* reap(): the dead process goes, and the others have and read what they had.
LEMMA ReapStep ==
  ASSUME SpaceInv, mem' = reap(mem), task' = Reaped
  PROVE  /\ MemOK(mem') /\ TableOK(task') /\ HeldOK(mem', task') /\ View' = View
         /\ \A q \in Pids : q = current \/ task[q].state # "dead" => task'[q] = task[q]
         /\ \A q \in Pids : task'[q].state = "dead" => q = current
         /\ Steady(mem, mem', task')
<1>1. mem' = reap(mem) /\ task' = Reaped
  OBVIOUS
<1>2. /\ task \in [Pids -> Tasks] /\ MemOK(mem) /\ HeldOK(mem, task) /\ TableOK(task)
      /\ current \in Pids /\ forks \in 0 .. MaxForks
      /\ \A q, n \in Pids \ {current} : task[q].state = "dead" /\ task[n].state = "dead" => n = q
  BY OfCurrent DEF SpaceInv
<1>3. PICK d \in 1 .. kMaxTask + 1 :
        \A n \in Pids : n # current /\ task[n].state = "dead" <=> n = d
  <2>1. kMaxTask \in Nat
    BY SpaceAssumption
  <2>2. CASE \E n \in Pids : n # current /\ task[n].state = "dead"
    <3>1. PICK n \in Pids : n # current /\ task[n].state = "dead"
      BY <2>2
    <3>2. n \in 1 .. kMaxTask + 1
      BY <2>1 DEF Pids
    <3>3. \A i \in Pids : i # current /\ task[i].state = "dead" <=> i = n
      BY <1>2, <3>1
    <3> QED
      BY <3>2, <3>3
  <2>3. CASE ~\E n \in Pids : n # current /\ task[n].state = "dead"
    <3>1. kMaxTask + 1 \in 1 .. kMaxTask + 1 /\ kMaxTask + 1 \notin Pids
      BY <2>1 DEF Pids
    <3>2. \A i \in Pids : i # current /\ task[i].state = "dead" <=> i = kMaxTask + 1
      BY <2>3, <3>1
    <3> QED
      BY <3>1, <3>2
  <2> QED
    BY <2>2, <2>3
<1>4. mem' = IF d \in Pids THEN destroy(mem, task[d]) ELSE mem
  BY <1>1, <1>3, ReapsOne
<1>5. FreeSlot \in Tasks /\ FreeSlot.state = "free"
  BY SpaceAssumption DEF FreeSlot, Tasks, States, NoFrames
<1>6. \A q \in Pids : task'[q] = IF q = d THEN FreeSlot ELSE task[q]
  BY <1>1, <1>3 DEF Reaped
<1>7. task' \in [Pids -> Tasks]
  <2>1. task' = [q \in Pids |-> task'[q]]
    BY <1>1 DEF Reaped
  <2>2. \A q \in Pids : task'[q] \in Tasks
    BY <1>2, <1>5, <1>6
  <2> QED
    BY <2>1, <2>2
<1>8. MemOK(mem') /\ TableOK(task') /\ HeldOK(mem', task') /\ Reads(mem, mem', task')
      /\ Steady(mem, mem', task')
  <2>1. CASE d \in Pids
    <3>1. Is(mem', destroy(mem, task[d]))
      BY <1>4, <2>1 DEF Is
    <3>2. task[d].state = "dead" /\ d \in PresentIn(task)
      BY <1>3, <2>1 DEF PresentIn
    <3>3. NoSharers(task, d)
      BY <1>2, <2>1, <3>2 DEF TableOK, DeadOK, NoSharers
    <3>4. task'[d] = FreeSlot /\ \A q \in Pids \ {d} : task'[q] = task[q]
      BY <1>6, <2>1
    <3> QED
      BY <1>2, <1>7, <3>1, <3>2, <3>3, <3>4, DestroyProcess
  <2>2. CASE d \notin Pids
    <3>1. mem' = mem
      BY <1>4, <2>2
    <3>2. task' = task
      <4>1. \A q \in Pids : task'[q] = task[q]
        BY <1>6, <2>2
      <4> QED
        BY <1>2, <1>7, <4>1
    <3> QED
      BY <1>2, <3>1, <3>2 DEF Reads, Steady
  <2> QED
    BY <2>1, <2>2
<1>9. \A q \in Pids : q = current \/ task[q].state # "dead" => task'[q] = task[q]
  BY <1>3, <1>6
<1>10. \A q \in Pids : task'[q].state = "dead" => q = current
  BY <1>3, <1>5, <1>6
<1>12. ASSUME NEW q \in Pids PROVE Reading(mem', task')[q] = Reading(mem, task)[q]
  <2>1. CASE q = d
    <3>1. task[q].state # "live" /\ task'[q].state # "live"
      BY <1>3, <1>5, <1>6, <2>1
    <3> QED
      BY <3>1 DEF Reading
  <2>2. CASE q # d
    <3>1. task'[q] = task[q]
      BY <1>6, <2>2
    <3>2. task[q].state = "live" =>
            \A i \in Region : mem'[Ent(mem', task', q, i).frame] = mem[Ent(mem, task, q, i).frame]
      <4> SUFFICES ASSUME task[q].state = "live", NEW i \in Region
                   PROVE mem'[Ent(mem', task', q, i).frame] = mem[Ent(mem, task, q, i).frame]
        OBVIOUS
      <4>1. q \in PresentIn(task')
        BY <3>1 DEF PresentIn
      <4>2. mem'[Ent(mem', task', q, i).frame] = mem[Ent(mem, task', q, i).frame]
        BY <1>8, <4>1 DEF Reads
      <4>3. Ent(mem, task', q, i) = Ent(mem, task, q, i)
        BY <3>1 DEF Ent
      <4> QED
        BY <4>2, <4>3
    <3>3. task'[q].state = task[q].state
      BY <3>1
    <3> QED
      BY <3>2, <3>3, ReadsAlike
  <2> QED
    BY <2>1, <2>2
<1>13. Reading(mem', task') = Reading(mem, task)
  <2>1. /\ Reading(mem', task') = [q \in Pids |-> Reading(mem', task')[q]]
        /\ Reading(mem, task) = [q \in Pids |-> Reading(mem, task)[q]]
    BY DEF Reading
  <2> QED
    BY <1>12, <2>1
<1> QED
  BY <1>8, <1>9, <1>10, <1>13, ReadingView

\* preempt() and task_switch_now().
LEMMA SwitchStep ==
  ASSUME SpaceInv, NEW p \in Pids, Switch(p)
  PROVE  SpaceInv' /\ View' = View
<1>1. /\ task[p].state = "live" /\ p # current /\ mem' = reap(mem) /\ task' = Reaped
      /\ current' = p /\ cr3' = task[p].sp /\ tlb' = NoTlb /\ forks' = forks
  BY DEF Switch, Live, space_switch
<1>2. /\ MemOK(mem') /\ TableOK(task') /\ HeldOK(mem', task') /\ View' = View /\ task'[p] = task[p]
      /\ \A q \in Pids : task'[q].state = "dead" => q = current
  BY <1>1, ReapStep
<1>3. current' \in Pids /\ cr3' = task'[current'].sp /\ task'[current'].state # "free"
  BY <1>1, <1>2
<1>4. tlb' \in [Region -> Entries \cup {NoEntry}] /\ \A r \in Region : tlb'[r] = NoEntry
  BY <1>1 DEF NoTlb
<1>5. \A i, q \in Pids \ {current'} : task'[i].state = "dead" /\ task'[q].state = "dead" => q = i
  BY <1>2
<1>6. forks' \in 0 .. MaxForks
  BY <1>1 DEF SpaceInv
<1> QED
  BY <1>2, <1>3, <1>4, <1>5, <1>6, InvNext

\* reap() in wait_for(), or in a preempt() that does not switch: the tables of the
\* current process are as they were, so what the TLB has of them is right.
LEMMA SweepStep ==
  ASSUME SpaceInv, Sweep
  PROVE  SpaceInv' /\ View' = View
<1>1. /\ mem' = reap(mem) /\ task' = Reaped
      /\ current' = current /\ cr3' = cr3 /\ tlb' = tlb /\ forks' = forks
  BY DEF Sweep
<1>2. current \in Pids /\ cr3 = task[current].sp /\ task[current].state # "free"
  BY DEF SpaceInv, CpuFollows
<1>3. /\ MemOK(mem') /\ TableOK(task') /\ HeldOK(mem', task') /\ View' = View
      /\ task'[current] = task[current] /\ Steady(mem, mem', task')
      /\ \A q \in Pids : task'[q].state = "dead" => q = current
  BY <1>1, <1>2, ReapStep
<1>4. current' \in Pids /\ cr3' = task'[current'].sp /\ task'[current'].state # "free"
  BY <1>1, <1>2, <1>3
<1>5. ASSUME task'[current'].state = "live", NEW r \in Region
      PROVE  tlb'[r] = NoEntry \/ tlb'[r] = Ent(mem', task', current', r)
  <2>1. tlb[r] = NoEntry \/ tlb[r] = Ent(mem, task, current, r)
    BY <1>1, <1>2, <1>3, <1>5 DEF SpaceInv, CpuFollows, Running, Walk, Ent
  <2>2. current \in PresentIn(task')
    BY <1>2, <1>3 DEF PresentIn
  <2>3. Ent(mem', task', current, r) = Ent(mem, task', current, r)
    BY <1>3, <2>2 DEF Steady
  <2>4. Ent(mem, task', current, r) = Ent(mem, task, current, r)
    BY <1>3 DEF Ent
  <2> QED
    BY <1>1, <2>1, <2>3, <2>4
<1>6. \A i, q \in Pids \ {current'} : task'[i].state = "dead" /\ task'[q].state = "dead" => q = i
  BY <1>1, <1>3
<1>7. forks' \in 0 .. MaxForks /\ tlb' \in [Region -> Entries \cup {NoEntry}]
  BY <1>1 DEF SpaceInv
<1> QED
  BY <1>3, <1>4, <1>5, <1>6, <1>7, InvNext

\* Every step.
LEMMA NextStep ==
  ASSUME Careful, SpaceInv, [Next]_vars
  PROVE  SpaceInv' /\ [M!Next]_View
<1>1. CASE Next
  <2>1. CASE \E r \in Region : Load(r)
    BY <2>1, LoadStep
  <2>2. CASE \E r \in Region : Fault(r)
    BY <2>2, FaultStep
  <2>3. CASE \E r \in Region, v \in Val : Store(r, v)
    BY <2>3, StoreStep
  <2>4. CASE Fork
    BY <2>4, ForkStep
  <2>5. CASE ExecNoRoom
    BY <2>5, ExecNoRoomStep
  <2>6. CASE \E at \in {"open", "load"} : ExecFails(at)
    BY <2>6, ExecFailsStep
  <2>7. CASE Exec
    BY <2>7, ExecStep
  <2>8. CASE Exit
    BY <2>8, ExitStep
  <2>9. CASE \E p \in Pids : Switch(p)
    BY <2>9, SwitchStep
  <2>10. CASE Sweep
    BY <2>10, SweepStep
  <2> QED
    BY <1>1, <2>1, <2>2, <2>3, <2>4, <2>5, <2>6, <2>7, <2>8, <2>9, <2>10 DEF Next
<1>2. CASE UNCHANGED vars
  <2>1. mem' = mem /\ task' = task /\ current' = current /\ cr3' = cr3 /\ tlb' = tlb /\ forks' = forks
    BY <1>2 DEF vars
  <2>2. SpaceInv'
    BY <2>1 DEF SpaceInv, CpuFollows, Running, Walk
  <2>3. View' = View
    BY <2>1 DEF View, EntryOf
  <2> QED
    BY <2>2, <2>3
<1> QED
  BY <1>1, <1>2

-----------------------------------------------------------------------------
(* The start                                                               *)

\* All frames free: room for a space, its tables and an image.
LEMMA StartRoom ==
  ASSUME NEW m, Is(m, [f \in Frames |-> Free])
  PROVE  /\ MemOK(m) /\ space_create(m).ok
         /\ Room(space_create(m).m, kRegions)
<1>1. OfFrames(m) /\ \A f \in Frames : m[f] = Free
  BY DEF Is, OfFrames
<1>2. Free.use = "free" /\ Cell(Free)
  BY Shapes, MadeCells
<1>3. \A f \in Frames : m[f].use = "free" /\ Cell(m[f])
  BY <1>1, <1>2
<1>4. MemOK(m)
  BY <1>1, <1>3 DEF MemOK, CellsOK, SpacesOK, GroupsOK, SharesOK, CountOK
<1>5. Unused(m) = Frames
  BY <1>3 DEF Unused
<1>6. kFrames \in Nat /\ kRegions \in Nat \ {0} /\ kFrames >= 2 + kRegions
  BY SpaceAssumption
<1>7. IsFiniteSet(Frames) /\ Cardinality(Frames) = kFrames
  BY <1>6, FS_Interval DEF Frames
<1>8. Room(m, 1) /\ Room(m, 2)
  BY <1>5, <1>6, <1>7 DEF Room
<1>9. space_create(m).ok
  BY <1>8 DEF space_create
<1> DEFINE k == space_create(m).m
           s == space_create(m).s
           pt == k[s].pt
<1>10. /\ MemOK(k) /\ s \in Frames /\ k[s].use = "space" /\ pt # 0 /\ pt \in Frames /\ pt # s
       /\ \A f \in Frames \ {s, pt} : k[f] = m[f]
  BY <1>4, <1>9, CreateOk
<1> HIDE DEF k, s
<1>11. k[pt].use = "table"
  BY <1>10, OfSpace
<1> HIDE DEF pt
<1>12. Unused(k) = (Frames \ {s}) \ {pt}
  BY <1>3, <1>10, <1>11 DEF Unused
<1>13. IsFiniteSet(Frames \ {s}) /\ Cardinality(Frames \ {s}) = kFrames - 1
  BY <1>7, <1>10, FS_RemoveElement
<1>14. Cardinality((Frames \ {s}) \ {pt}) = kFrames - 1 - 1
  <2>1. pt \in Frames \ {s}
    BY <1>10
  <2> QED
    BY <1>13, <2>1, FS_RemoveElement
<1>15. Room(k, kRegions)
  BY <1>6, <1>12, <1>14 DEF Room
<1> QED
  BY <1>4, <1>9, <1>15 DEF k

\* init_first() leaves one process in an image of its own.
LEMMA InitSpace == Init => SpaceInv /\ M!Init
<1> SUFFICES ASSUME Init PROVE SpaceInv /\ M!Init
  OBVIOUS
<1> DEFINE m == [f \in Frames |-> Free]
           k == space_create(m).m
           s == space_create(m).s
           b == give_frames(k)
           x == [FreeSlot EXCEPT !.state = "live", !.sp = s, !.base = b, !.owns = TRUE]
<1>1. /\ current = kPid1 /\ tlb = NoTlb /\ forks = 0 /\ Is(mem, map_image(k, s, b)) /\ cr3 = s
      /\ task = [p \in Pids |-> IF p # kPid1 THEN FreeSlot ELSE x]
  BY DEF Init, Is
<1>2. Is(m, [f \in Frames |-> Free]) /\ k = space_create(m).m /\ s = space_create(m).s
  BY DEF Is
<1>3. b = give_frames(k)
  OBVIOUS
<1> HIDE DEF m
<1>4. MemOK(m) /\ space_create(m).ok /\ Room(k, kRegions)
  BY <1>2, StartRoom
<1> HIDE DEF k, s, b
<1>5. MemOK(k) /\ s \in Frames /\ k[s].use = "space" /\ k[s].cow = 0 /\ k[s].pt # 0
  BY <1>2, <1>4, CreateOk
<1>6. /\ b \in [Region -> Frames] /\ \A r \in Region : k[b[r]].use = "free"
      /\ \A r, i \in Region : b[r] = b[i] => r = i
  BY <1>3, <1>4, Give
<1>7. MemOK(mem) /\ Mapped(k, s, b, mem)
  <2>1. Maps(k, s, b, mem)
    BY <1>1, <1>5, <1>6 DEF Maps
  <2> QED
    BY <2>1, MapImage
<1>8. /\ mem[s] = k[s]
      /\ \A r \in Region : /\ mem[k[s].pt].ent[r] \in Entries /\ mem[k[s].pt].ent[r].frame = b[r]
                           /\ mem[b[r]] = Data(Loaded)
  BY <1>7 DEF Mapped
<1>9. \A r \in Region : mem[b[r]].use = "data"
  BY <1>8, Shapes
<1>10. FreeSlot \in Tasks /\ FreeSlot.state = "free"
  BY SpaceAssumption DEF FreeSlot, Tasks, States, NoFrames
<1>11. /\ x \in Tasks /\ x.state = "live" /\ x.sp = s /\ x.base = b /\ x.owns /\ x.kstack = 0
  <2>1. b \in [Region -> 0 .. kFrames] /\ s \in 0 .. kFrames
    BY <1>5, <1>6, FramesFinite
  <2> QED
    BY <1>10, <2>1 DEF Tasks, States, FreeSlot
<1> HIDE DEF x
<1>12. kPid1 \in Pids
  BY SpaceAssumption DEF kPid1, Pids
<1>13. task \in [Pids -> Tasks] /\ task[kPid1] = x /\ \A p \in Pids \ {kPid1} : task[p] = FreeSlot
  BY <1>1, <1>10, <1>11, <1>12
<1>14. PresentIn(task) = {kPid1}
  BY <1>10, <1>11, <1>12, <1>13 DEF PresentIn
<1>15. task[kPid1].sp = s /\ task[kPid1].base = b /\ task[kPid1].owns /\ task[kPid1].kstack = 0
       /\ task[kPid1].state = "live"
  BY <1>11, <1>13
<1>16. \A r \in Region : Ent(mem, task, kPid1, r) \in Entries /\ Ent(mem, task, kPid1, r).frame = b[r]
  BY <1>8, <1>15 DEF Ent
<1>17. HoldOK(mem, task)
  BY <1>5, <1>8, <1>14, <1>15 DEF HoldOK
<1>18. PagesOK(mem, task)
  BY <1>9, <1>14, <1>16 DEF PagesOK
<1>19. OnceOK(mem, task)
  BY <1>6, <1>14, <1>16 DEF OnceOK
<1>20. BasesOK(mem, task)
  BY <1>6, <1>9, <1>14, <1>15 DEF BasesOK
<1>21. TableOK(task)
  <2>1. Sharers(task) = {}
    BY <1>14, <1>15 DEF Sharers
  <2> QED
    BY <1>13, <2>1 DEF TableOK, FamilyOK, DeadOK
<1>22. \A p \in Pids : task[p].state # "dead"
  BY <1>10, <1>13, <1>15
<1>23. HeldOK(mem, task)
  BY <1>17, <1>18, <1>19, <1>20 DEF HeldOK
<1>24. SpaceInv
  <2>1. tlb \in [Region -> Entries \cup {NoEntry}] /\ \A r \in Region : tlb[r] = NoEntry
    BY <1>1 DEF NoTlb
  <2>2. CpuFollows
    BY <1>1, <1>15, <2>1 DEF CpuFollows
  <2>3. forks \in 0 .. MaxForks
    BY <1>1, SpaceAssumption
  <2> QED
    BY <1>1, <1>7, <1>12, <1>15, <1>21, <1>22, <1>23, <2>1, <2>2, <2>3 DEF SpaceInv
<1>25. M!Init
  <2> DEFINE v == Reading(mem, task)[kPid1]
  <2>1. v \in [Region -> Val]
    BY <1>7, <1>12, <1>15, <1>23, ReadsValues
  <2>2. Reading(mem, task) = [q \in Pids |-> Reading(mem, task)[q]]
    BY DEF Reading
  <2>3. \A q \in Pids \ {kPid1} : Reading(mem, task)[q] = Nobody
    BY <1>10, <1>13 DEF Reading
  <2> HIDE DEF v
  <2>4. View = [q \in Pids |-> IF q = kPid1 THEN v ELSE Nobody]
    <3>1. \A q \in Pids : Reading(mem, task)[q] = IF q = kPid1 THEN v ELSE Nobody
      BY <2>3 DEF v
    <3> QED
      BY <2>2, <3>1, ReadingView
  <2> QED
    BY <1>12, <2>1, <2>4 DEF M!Init
<1> QED
  BY <1>24, <1>25

-----------------------------------------------------------------------------
(* Theorems                                                                *)

\* The invariant holds at all times.
LEMMA SpaceSound == ASSUME Careful PROVE Spec => []SpaceInv
<1>1. SpaceInv /\ [Next]_vars => SpaceInv'
  BY NextStep
<1> QED
  BY <1>1, InitSpace, PTL DEF Spec

\* However processes fork, write, fault, exec, end and are swept up, in any order and
\* with any step running out of frames: what a process maps was not given back, and
\* what it may write nobody else maps.
THEOREM IsolatedAlways == ASSUME Careful PROVE Spec => []Isolated
<1>1. ASSUME SpaceInv PROVE Isolated
  <2>1. Present = PresentIn(task) /\ MemOK(mem) /\ HeldOK(mem, task)
    BY <1>1 DEF Present, PresentIn, SpaceInv
  <2>2. \A p, r : EntryOf(p, r) = Ent(mem, task, p, r)
    BY DEF EntryOf, Ent
  <2> SUFFICES ASSUME NEW p \in PresentIn(task)
               PROVE  /\ mem[task[p].sp].use = "space" /\ mem[mem[task[p].sp].pt].use = "table"
                      /\ \A r \in Region :
                           /\ Ent(mem, task, p, r) \in Entries
                           /\ mem[Ent(mem, task, p, r).frame].use = "data"
                           /\ Ent(mem, task, p, r).w =>
                                \A q \in PresentIn(task) : \A s \in Region :
                                  Ent(mem, task, q, s).frame = Ent(mem, task, p, r).frame => q = p /\ s = r
    BY <2>1, <2>2 DEF Isolated
  <2>3. mem[task[p].sp].use = "space" /\ mem[mem[task[p].sp].pt].use = "table"
    BY <2>1, OfProcess
  <2>4. ASSUME NEW r \in Region
        PROVE  /\ Ent(mem, task, p, r) \in Entries
               /\ mem[Ent(mem, task, p, r).frame].use = "data"
    BY <2>1, OfProcess
  <2>5. ASSUME NEW r \in Region, Ent(mem, task, p, r).w, NEW q \in PresentIn(task), NEW s \in Region,
               Ent(mem, task, q, s).frame = Ent(mem, task, p, r).frame
        PROVE  q = p /\ s = r
    BY <2>1, <2>5 DEF HeldOK, OnceOK
  <2> QED
    BY <2>3, <2>4, <2>5
<1> QED
  BY <1>1, SpaceSound, PTL

\* A group of sharing spaces counts them at all times, through every fork, fault, exec
\* and end, and also when one of these stops half way for lack of a frame.
THEOREM GroupCountedAlways == ASSUME Careful PROVE Spec => []GroupCounted
<1>1. ASSUME SpaceInv PROVE GroupCounted
  <2>1. /\ MemOK(mem) /\ HeldOK(mem, task) /\ current \in PresentIn(task) /\ current \in Pids
        /\ task \in [Pids -> Tasks] /\ cr3 = task[current].sp
    BY <1>1, OfCurrent DEF SpaceInv
  <2>2. cr3 \in Frames
    BY <2>1, OfProcess
  <2>3. ASSUME NEW g \in Frames, mem[g].use = "group"
        PROVE  /\ mem[g].pt \in Frames /\ mem[g].refs \in 1 .. kFrames /\ mem[mem[g].pt].use = "table"
               /\ mem[g].refs = Cardinality({s \in Frames : mem[s].use = "space" /\ mem[s].cow = g})
    <3>1. /\ mem[g].refs \in Nat \ {0} /\ mem[g].pt \in Frames /\ mem[mem[g].pt].use = "table"
          /\ mem[g].refs = Cardinality(Members(mem, g))
      BY <2>1, <2>3, OfGroup
    <3>2. Members(mem, g) \in SUBSET Frames /\ Cardinality(Members(mem, g)) \in Nat
      BY MembersFinite
    <3>3. IsFiniteSet(Frames) /\ Cardinality(Frames) = kFrames /\ kFrames \in Nat
      <4>1. kFrames \in Nat
        BY SpaceAssumption
      <4> QED
        BY <4>1, FS_Interval DEF Frames
    <3>4. Cardinality(Members(mem, g)) <= Cardinality(Frames)
      BY <3>2, <3>3, FS_Subset
    <3> QED
      BY <3>1, <3>2, <3>3, <3>4 DEF Members
  <2>4. ASSUME NEW f \in Frames
        PROVE  /\ mem[f].use \in {"free", "data", "table", "group", "space", "kstack"}
               /\ mem[f].use = "space" => mem[f].pt \in 0 .. kFrames /\ mem[f].cow \in 0 .. kFrames
               /\ mem[f].use = "table" => mem[f].ent \in [Region -> Entries \cup {NoEntry}]
    <3>1. Cell(mem[f])
      BY <2>1 DEF MemOK, CellsOK
    <3> QED
      BY <3>1, CellShapes
  <2>5. TypeOK
    BY <1>1, <2>1, <2>2, <2>3, <2>4 DEF TypeOK, SpaceInv
  <2> QED
    BY <2>3, <2>5 DEF GroupCounted
<1> QED
  BY <1>1, SpaceSound, PTL

\* The CPU runs in the space of the current process and uses no entry that its tables
\* no longer hold.
THEOREM CpuFollowsAlways == ASSUME Careful PROVE Spec => []CpuFollows
<1>1. SpaceInv => CpuFollows
  BY DEF SpaceInv
<1> QED
  BY <1>1, SpaceSound, PTL

\* Copy on write is invisible: sharing, faults, groups and their failures implement
\* memory that every process has for itself.
THEOREM SpaceIsMemory == ASSUME Careful PROVE Spec => IsMemory
<1>1. SpaceInv /\ [Next]_vars => [M!Next]_View
  BY NextStep
<1> QED
  BY <1>1, InitSpace, SpaceSound, PTL DEF Spec, IsMemory, M!Spec
=============================================================================
