--------------------------- MODULE UserHeapProofs ---------------------------
(***************************************************************************)
(* Theorems about UserHeap, for every size of the arena, of a page and of  *)
(* a word, and whatever programs ask for as long as it does not wrap.      *)
(***************************************************************************)
EXTENDS UserHeap, SequenceTheorems, WellFoundedInduction, TLAPS

-----------------------------------------------------------------------------
(* The inductive invariant                                                 *)

OnGrid(x) == x \in Nat /\ \E q \in 0 .. x : x = q * kAlign
Block == [at : Nat, size : Nat]
At(a, n) == [at |-> a, size |-> n]

Holds(b, x) == b.at <= x /\ x < b.at + b.size
Clear(b, c) == b.at + b.size <= c.at \/ c.at + c.size <= b.at

\* A block of the arena, below the part that was not carved yet.
Inside(b, next) ==
  /\ b \in Block /\ OnGrid(b.at) /\ OnGrid(b.size) /\ b.size > 0
  /\ kArenaVA <= b.at /\ b.at + b.size <= next

\* Less than a block is left behind, and never where the tail begins.
Dense(T, next) ==
  /\ \A a \in kArenaVA .. next - kMinBlock :
       \E b \in T : \E x \in a .. a + kMinBlock - 1 : Holds(b, x)
  /\ next # Null => \E b \in T : Holds(b, next - 1)

Packed(T, next) ==
  /\ \A b \in T : Inside(b, next)
  /\ \A b, c \in T : b # c => Clear(b, c)
  /\ Dense(T, next)

\* S is on the list, B is with programs.
Laid(S, B, next) ==
  /\ Packed(S \cup B, next)
  /\ S \cap B = {}
  /\ \A b \in B : kMinBlock <= b.size

\* The tail not carved yet ends at the break; at first there is none.
Edges(h) ==
  /\ h \in [g_next : Nat, g_end : Nat, g_free : Seq(Block), brk : Nat]
  /\ OnGrid(h.g_next) /\ OnGrid(h.brk)
  /\ kArenaVA <= h.brk /\ h.brk <= kArenaVA + kArenaBytes
  /\ \/ h.g_next = Null /\ h.g_end = Null /\ h.brk = kArenaVA
     \/ kArenaVA < h.g_next /\ h.g_next <= h.g_end /\ h.g_end = h.brk

Sound(h, B) == Edges(h) /\ IsInjective(h.g_free) /\ Laid(Range(h.g_free), B, h.g_next)

Blocks == {BlockOf(p) : p \in DOMAIN held}

HeapInv ==
  /\ Sound(heap, Blocks)
  /\ DOMAIN blk = DOMAIN held
  /\ \A p \in DOMAIN held :
       /\ p \in Nat /\ kAlign <= p /\ blk[p] \in Nat
       /\ held[p].align = kAlign /\ held[p].bytes \in Nat /\ held[p].bytes + kAlign <= blk[p]

\* No size wraps on its way through Need() and carve().
Fits(n) == n + 2 * kAlign + 2 * kPage + kArenaBytes <= Word
Modest ==
  /\ \A n \in Sizes \cup {1} : Fits(n)
  /\ \A n, size \in Sizes : n * size < Word => Fits(n * size)

-----------------------------------------------------------------------------
(* Numbers                                                                 *)

\* What the constants are.
LEMMA Constants ==
  /\ kAlign \in Nat \ {0} /\ kMinBlock \in Nat \ {0} /\ kPage \in Nat \ {0}
  /\ kArenaVA \in Nat \ {0} /\ kArenaBytes \in Nat \ {0} /\ Word \in Nat \ {0}
  /\ kMinBlock = 2 * kAlign /\ kArenaVA + kArenaBytes < Word
  BY UserHeapAssumption

\* What is on the grid is a multiple, and the other way round.
LEMMA GridIs ==
  ASSUME NEW x \in Nat
  PROVE  OnGrid(x) <=> \E q \in Nat : x = q * kAlign
<1>1. kAlign \in Nat \ {0}
  BY Constants
<1>2. ASSUME NEW q \in Nat, x = q * kAlign PROVE q \in 0 .. x
  <2>1. q * (kAlign - 1) >= 0
    BY <1>1
  <2>2. q * kAlign = q + q * (kAlign - 1)
    BY <1>1
  <2>3. q <= q * kAlign
    BY <1>1, <2>1, <2>2
  <2> QED
    BY <1>2, <2>3
<1> QED
  BY <1>2 DEF OnGrid

\* Blocks move and grow by multiples of kAlign.
LEMMA GridSum ==
  ASSUME NEW x \in Nat, NEW y \in Nat, OnGrid(x), OnGrid(y)
  PROVE  OnGrid(x + y) /\ (y <= x => OnGrid(x - y))
<1>1. PICK q \in Nat, r \in Nat : x = q * kAlign /\ y = r * kAlign
  BY GridIs
<1>2. kAlign \in Nat /\ kAlign > 0
  BY Constants
<1>3. x + y = (q + r) * kAlign /\ x - y = (q - r) * kAlign
  BY <1>1, <1>2
<1>4. y <= x => r <= q
  BY <1>1, <1>2
<1>5. q + r \in Nat /\ (r <= q => q - r \in Nat)
  OBVIOUS
<1>6. x + y \in Nat /\ (y <= x => x - y \in Nat)
  OBVIOUS
<1> QED
  BY <1>3, <1>4, <1>5, <1>6, GridIs

\* align_up() returns the next multiple, if it does not wrap.
LEMMA AlignUp ==
  ASSUME NEW v \in Nat, NEW a \in Nat \ {0}, v + a - 1 < Word
  PROVE  /\ align_up(v, a) \in Nat /\ v <= align_up(v, a) /\ align_up(v, a) < v + a
         /\ \E q \in Nat : align_up(v, a) = q * a
<1>1. (v + a - 1) % Word = v + a - 1
  BY Constants
<1>2. PICK q \in Nat : q = (v + a - 1) \div a
  OBVIOUS
<1>3. q * a <= v + a - 1 /\ v + a - 1 < q * a + a
  BY <1>2
<1>4. align_up(v, a) = q * a /\ q * a \in Nat
  BY <1>1, <1>2 DEF align_up
<1> QED
  BY <1>3, <1>4

\* Pages are on the grid, and so is the arena.
LEMMA PageGrid ==
  /\ OnGrid(kPage) /\ OnGrid(kArenaVA) /\ OnGrid(kAlign) /\ OnGrid(0)
  /\ \A q \in Nat : q * kPage \in Nat /\ OnGrid(q * kPage)
<1>1. kPage \in Nat \ {0} /\ kAlign \in Nat \ {0} /\ kArenaVA \in Nat \ {0}
  BY Constants
<1>2. kPage % kAlign = 0 /\ kArenaVA % kPage = 0
  BY UserHeapAssumption
<1>3. PICK r \in Nat : kPage = r * kAlign
  BY <1>1, <1>2
<1>4. PICK s \in Nat : kArenaVA = s * kPage
  BY <1>1, <1>2
<1>5. ASSUME NEW q \in Nat PROVE q * kPage \in Nat /\ OnGrid(q * kPage)
  <2>1. q * kPage = (q * r) * kAlign /\ q * r \in Nat /\ q * kPage \in Nat
    BY <1>1, <1>3
  <2> QED
    BY <2>1, GridIs
<1>6. kAlign = 1 * kAlign /\ 0 = 0 * kAlign
  BY <1>1
<1>7. OnGrid(kAlign) /\ OnGrid(0)
  BY <1>1, <1>6, GridIs
<1>8. OnGrid(kPage)
  BY <1>1, <1>3, GridIs
<1>9. OnGrid(kArenaVA)
  BY <1>4, <1>5
<1> QED
  BY <1>5, <1>7, <1>8, <1>9

\* A request becomes a block of the grid with room for its header.
LEMMA NeedFits ==
  ASSUME NEW n \in Nat, n > 0, Fits(n)
  PROVE  /\ Need(n) \in Nat /\ OnGrid(Need(n)) /\ n + kAlign <= Need(n) /\ kMinBlock <= Need(n)
         /\ Need(n) + 2 * kPage + kArenaBytes <= Word
<1>1. /\ kAlign \in Nat \ {0} /\ kPage \in Nat \ {0} /\ kArenaBytes \in Nat \ {0} /\ Word \in Nat \ {0}
      /\ kMinBlock = 2 * kAlign
  BY Constants
<1>2. n + kAlign \in Nat /\ (n + kAlign) % Word = n + kAlign /\ n + kAlign + kAlign - 1 < Word
  BY <1>1 DEF Fits
<1>3. PICK q \in Nat : Need(n) = q * kAlign
  BY <1>1, <1>2, AlignUp DEF Need
<1>4. Need(n) \in Nat /\ n + kAlign <= Need(n) /\ Need(n) < n + kAlign + kAlign
  BY <1>1, <1>2, AlignUp DEF Need
<1>5. q >= 2
  <2>1. CASE q = 0
    BY <1>1, <1>3, <1>4, <2>1
  <2>2. CASE q = 1
    BY <1>1, <1>3, <1>4, <2>2
  <2> QED
    BY <2>1, <2>2
<1>6. q * kAlign >= 2 * kAlign
  BY <1>1, <1>5
<1>7. OnGrid(Need(n))
  BY <1>3, <1>4, GridIs
<1> QED
  BY <1>1, <1>3, <1>4, <1>6, <1>7 DEF Fits

-----------------------------------------------------------------------------
(* Blocks that do not overlap                                              *)

\* A block made from an address and a size.
LEMMA AtIs ==
  ASSUME NEW a \in Nat, NEW n \in Nat
  PROVE  At(a, n) \in Block /\ At(a, n).at = a /\ At(a, n).size = n
  BY DEF At, Block

\* A block is its address and its size.
LEMMA BlockIs ==
  ASSUME NEW b \in Block
  PROVE  b.at \in Nat /\ b.size \in Nat /\ b = At(b.at, b.size)
  BY DEF At, Block

\* Two blocks that are not clear of each other are one.
LEMMA OneBlock ==
  ASSUME NEW T, NEW next, Packed(T, next), NEW b \in T, NEW c \in T, ~Clear(b, c)
  PROVE  b = c
  BY DEF Packed

\* A block that reaches the new end of what was carved, behind the others.
LEMMA Extends ==
  ASSUME NEW T, NEW next \in Nat, Packed(T, next), NEW a \in Nat, NEW n \in Nat \ {0},
         OnGrid(a), OnGrid(n), kArenaVA <= a, next <= a,
         IF next = Null THEN a = kArenaVA ELSE a < next + kMinBlock
  PROVE  Packed(T \cup {At(a, n)}, a + n) /\ At(a, n) \notin T
<1> DEFINE b == At(a, n)
           U == T \cup {b}
<1>1. b \in Block /\ b.at = a /\ b.size = n
  BY AtIs
<1>2. kMinBlock \in Nat \ {0} /\ kArenaVA \in Nat \ {0}
  BY Constants
<1> HIDE DEF b
<1>3. \A c \in T : c \in Block /\ c.at \in Nat /\ c.size \in Nat /\ c.size > 0 /\ c.at + c.size <= next
  BY BlockIs DEF Packed, Inside
<1>4. b \notin T
  BY <1>1, <1>3
<1>5. \A c \in U : Inside(c, a + n)
  <2>1. Inside(b, a + n)
    BY <1>1 DEF Inside
  <2>2. ASSUME NEW c \in T PROVE Inside(c, a + n)
    BY <1>3 DEF Packed, Inside
  <2> QED
    BY <2>1, <2>2
<1>6. \A c, d \in U : c # d => Clear(c, d)
  BY <1>1, <1>3 DEF Packed, Clear
<1>7. ASSUME NEW e \in kArenaVA .. (a + n) - kMinBlock
      PROVE  \E c \in U : \E x \in e .. e + kMinBlock - 1 : Holds(c, x)
  <2>1. e \in Nat /\ kArenaVA <= e /\ e + kMinBlock <= a + n
    BY <1>2, <1>7
  <2>2. CASE e + kMinBlock <= next
    <3>1. e \in kArenaVA .. next - kMinBlock
      BY <1>2, <2>1, <2>2
    <3> QED
      BY <3>1 DEF Packed, Dense
  <2>3. CASE a < e + kMinBlock
    <3>1. e + kMinBlock - 1 \in e .. e + kMinBlock - 1 /\ Holds(b, e + kMinBlock - 1)
      BY <1>1, <1>2, <2>1, <2>3 DEF Holds
    <3> QED
      BY <3>1
  <2>4. CASE next < e + kMinBlock /\ e + kMinBlock <= a
    <3>1. next # Null
      BY <1>2, <2>1, <2>4
    <3>2. PICK c \in T : Holds(c, next - 1)
      BY <3>1 DEF Packed, Dense
    <3>3. next - 1 \in e .. e + kMinBlock - 1
      BY <1>2, <2>1, <2>4, <3>1 DEF Null
    <3> QED
      BY <3>2, <3>3
  <2> QED
    BY <1>2, <2>1, <2>2, <2>3, <2>4
<1>8. Holds(b, a + n - 1)
  BY <1>1 DEF Holds
<1>9. Dense(U, a + n)
  BY <1>7, <1>8 DEF Dense
<1> QED
  BY <1>4, <1>5, <1>6, <1>9 DEF Packed, b

\* If T and U hold the same bytes U is as dense as T.
LEMMA SameBytes ==
  ASSUME NEW T, NEW U, NEW next \in Nat, Dense(T, next),
         \A b \in T : \A x \in Nat : Holds(b, x) => \E c \in U : Holds(c, x)
  PROVE  Dense(U, next)
<1>1. kMinBlock \in Nat \ {0} /\ kArenaVA \in Nat \ {0}
  BY Constants
<1>2. ASSUME NEW a \in kArenaVA .. next - kMinBlock
      PROVE  \E b \in U : \E x \in a .. a + kMinBlock - 1 : Holds(b, x)
  <2>1. PICK b \in T : \E x \in a .. a + kMinBlock - 1 : Holds(b, x)
    BY <1>2 DEF Dense
  <2>2. PICK x \in a .. a + kMinBlock - 1 : Holds(b, x)
    BY <2>1
  <2>3. x \in Nat
    BY <1>1, <1>2, <2>2
  <2> QED
    BY <2>2, <2>3
<1>3. ASSUME next # Null PROVE \E b \in U : Holds(b, next - 1)
  <2>1. PICK b \in T : Holds(b, next - 1)
    BY <1>3 DEF Dense
  <2>2. next - 1 \in Nat
    BY <1>3 DEF Null
  <2> QED
    BY <2>1, <2>2
<1> QED
  BY <1>2, <1>3 DEF Dense

\* A block cut in two.
LEMMA Splits ==
  ASSUME NEW T, NEW next \in Nat, Packed(T, next), NEW b \in T, NEW n \in Nat, OnGrid(n),
         0 < n, n < b.size
  PROVE  LET U == (T \ {b}) \cup {At(b.at, n), At(b.at + n, b.size - n)}
         IN /\ Packed(U, next)
            /\ At(b.at, n) \notin T /\ At(b.at + n, b.size - n) \notin T
            /\ At(b.at, n) # At(b.at + n, b.size - n)
<1>1. /\ b.at \in Nat /\ b.size \in Nat /\ OnGrid(b.at) /\ OnGrid(b.size) /\ kArenaVA <= b.at
      /\ b.at + b.size <= next
  BY BlockIs DEF Packed, Inside
<1> DEFINE c == At(b.at, n)
           d == At(b.at + n, b.size - n)
           U == (T \ {b}) \cup {c, d}
<1>2. c \in Block /\ c.at = b.at /\ c.size = n
  BY <1>1, AtIs
<1>3. b.at + n \in Nat /\ b.size - n \in Nat
  BY <1>1
<1>4. d \in Block /\ d.at = b.at + n /\ d.size = b.size - n
  BY <1>3, AtIs
<1>5. OnGrid(b.at + n) /\ OnGrid(b.size - n)
  <2>1. n <= b.size
    BY <1>1
  <2> QED
    BY <1>1, <2>1, GridSum
<1> HIDE DEF c, d
<1>6. \A e \in T \ {b} : e.at \in Nat /\ e.size \in Nat /\ e.size > 0 /\ Clear(e, b) /\ Clear(b, e)
  BY BlockIs DEF Packed, Inside
<1>7. c \notin T \ {b} /\ d \notin T \ {b} /\ c # d /\ c # b /\ d # b
  BY <1>1, <1>2, <1>4, <1>6 DEF Clear
<1>8. kArenaVA \in Nat
  BY Constants
<1>9. ASSUME NEW e \in U PROVE Inside(e, next)
  <2>1. Inside(c, next) /\ Inside(d, next)
    BY <1>1, <1>2, <1>4, <1>5, <1>8 DEF Inside
  <2> QED
    BY <2>1 DEF Packed
<1>10. \A e, f \in U : e # f => Clear(e, f)
  <2>1. Clear(c, d) /\ Clear(d, c)
    BY <1>1, <1>2, <1>4 DEF Clear
  <2>2. \A e \in T \ {b} : Clear(c, e) /\ Clear(e, c) /\ Clear(d, e) /\ Clear(e, d)
    BY <1>1, <1>2, <1>4, <1>6 DEF Clear
  <2> QED
    BY <2>1, <2>2 DEF Packed
<1>11. \A e \in T : \A x \in Nat : Holds(e, x) => \E f \in U : Holds(f, x)
  <2>1. \A x \in Nat : Holds(b, x) => Holds(c, x) \/ Holds(d, x)
    BY <1>1, <1>2, <1>4 DEF Holds
  <2> QED
    BY <2>1
<1>12. Dense(U, next)
  BY <1>11, SameBytes DEF Packed
<1> QED
  BY <1>7, <1>9, <1>10, <1>12 DEF Packed, c, d

\* Two blocks that touch, made one.
LEMMA Merges ==
  ASSUME NEW T, NEW next \in Nat, Packed(T, next), NEW b \in T, NEW c \in T, Joins(b, c)
  PROVE  /\ Packed((T \ {b, c}) \cup {Joined(b, c)}, next)
         /\ Joined(b, c) \notin T
<1>1. /\ b.at \in Nat /\ b.size \in Nat /\ OnGrid(b.at) /\ OnGrid(b.size) /\ kArenaVA <= b.at
      /\ c.at \in Nat /\ c.size \in Nat /\ OnGrid(c.at) /\ OnGrid(c.size)
      /\ c.at + c.size <= next /\ b.size > 0 /\ c.size > 0 /\ b.at + b.size = c.at
  BY BlockIs DEF Packed, Inside, Joins
<1> DEFINE d == Joined(b, c)
           U == (T \ {b, c}) \cup {d}
<1>2. d \in Block /\ d.at = b.at /\ d.size = b.size + c.size
  BY <1>1 DEF Joined, Block
<1>3. OnGrid(b.size + c.size)
  BY <1>1, GridSum
<1> HIDE DEF d
<1>4. \A e \in T \ {b, c} : /\ e.at \in Nat /\ e.size \in Nat /\ e.size > 0
                            /\ Clear(e, b) /\ Clear(e, c)
  BY BlockIs DEF Packed, Inside
<1>5. \A e \in T \ {b, c} : Clear(e, d) /\ Clear(d, e)
  BY <1>1, <1>2, <1>4 DEF Clear
<1>6. d \notin T
  BY <1>1, <1>2, <1>4, <1>5 DEF Clear
<1>7. kArenaVA \in Nat
  BY Constants
<1>8. ASSUME NEW e \in U PROVE Inside(e, next)
  <2>1. Inside(d, next)
    BY <1>1, <1>2, <1>3, <1>7 DEF Inside
  <2> QED
    BY <2>1 DEF Packed
<1>9. \A e, f \in U : e # f => Clear(e, f)
  BY <1>5 DEF Packed
<1>10. \A e \in T : \A x \in Nat : Holds(e, x) => \E f \in U : Holds(f, x)
  <2>1. \A x \in Nat : Holds(b, x) \/ Holds(c, x) => Holds(d, x)
    BY <1>1, <1>2 DEF Holds
  <2> QED
    BY <2>1
<1>11. Dense(U, next)
  BY <1>10, SameBytes DEF Packed
<1> QED
  BY <1>6, <1>8, <1>9, <1>11 DEF Packed, d

\* The last block, made larger or smaller.
LEMMA Resizes ==
  ASSUME NEW T, NEW next \in Nat, Packed(T, next), NEW b \in T, b.at + b.size = next,
         NEW n \in Nat \ {0}, OnGrid(n)
  PROVE  /\ Packed((T \ {b}) \cup {At(b.at, n)}, b.at + n)
         /\ At(b.at, n) \notin T \ {b}
<1>1. /\ b.at \in Nat /\ b.size \in Nat /\ OnGrid(b.at) /\ kArenaVA <= b.at /\ b.size > 0
  BY BlockIs DEF Packed, Inside
<1> DEFINE c == At(b.at, n)
           U == (T \ {b}) \cup {c}
<1>2. c \in Block /\ c.at = b.at /\ c.size = n
  BY <1>1, AtIs
<1> HIDE DEF c
<1>3. kMinBlock \in Nat \ {0} /\ kArenaVA \in Nat \ {0}
  BY Constants
<1>4. \A e \in T \ {b} : e.at \in Nat /\ e.size \in Nat /\ e.size > 0 /\ e.at + e.size <= b.at
  BY <1>1, BlockIs DEF Packed, Inside, Clear
<1>5. c \notin T \ {b}
  BY <1>1, <1>2, <1>4
<1>6. ASSUME NEW e \in U PROVE Inside(e, b.at + n)
  <2>1. Inside(c, b.at + n)
    BY <1>1, <1>2 DEF Inside
  <2>2. ASSUME e \in T \ {b} PROVE Inside(e, b.at + n)
    BY <1>1, <1>4, <2>2 DEF Packed, Inside
  <2> QED
    BY <2>1, <2>2
<1>7. \A e, f \in U : e # f => Clear(e, f)
  <2>1. \A e \in T \ {b} : Clear(e, c) /\ Clear(c, e)
    BY <1>1, <1>2, <1>4 DEF Clear
  <2> QED
    BY <2>1 DEF Packed
<1>8. ASSUME NEW a \in kArenaVA .. (b.at + n) - kMinBlock
      PROVE  \E e \in U : \E x \in a .. a + kMinBlock - 1 : Holds(e, x)
  <2>1. a \in Nat /\ kArenaVA <= a /\ a + kMinBlock <= b.at + n
    BY <1>1, <1>3, <1>8
  <2>2. CASE a + kMinBlock <= b.at
    <3>1. a \in kArenaVA .. next - kMinBlock
      BY <1>1, <1>3, <2>1, <2>2
    <3>2. PICK e \in T : \E x \in a .. a + kMinBlock - 1 : Holds(e, x)
      BY <3>1 DEF Packed, Dense
    <3>3. e # b
      BY <1>1, <1>3, <2>1, <2>2, <3>2 DEF Holds
    <3> QED
      BY <3>2, <3>3
  <2>3. CASE b.at < a + kMinBlock
    <3>1. a + kMinBlock - 1 \in a .. a + kMinBlock - 1 /\ Holds(c, a + kMinBlock - 1)
      BY <1>1, <1>2, <1>3, <2>1, <2>3 DEF Holds
    <3> QED
      BY <3>1
  <2> QED
    BY <1>1, <1>3, <2>1, <2>2, <2>3
<1>9. \E e \in U : Holds(e, b.at + n - 1)
  <2>1. Holds(c, b.at + n - 1)
    BY <1>1, <1>2 DEF Holds
  <2> QED
    BY <2>1
<1>10. Dense(U, b.at + n)
  BY <1>1, <1>3, <1>8, <1>9 DEF Dense
<1> QED
  BY <1>5, <1>6, <1>7, <1>10 DEF Packed, c

-----------------------------------------------------------------------------
(* The list                                                                *)

\* F is a list of the blocks of S, each once.
Lists(F, S) == F \in Seq(Block) /\ IsInjective(F) /\ Range(F) = S

\* The list with b in place of what is between i and j.
Splice(F, i, b, j) == SubSeq(F, 1, i) \o <<b>> \o SubSeq(F, j, Len(F))

\* What is at its places.
SpliceOf(G, F, i, b, j) ==
  /\ G \in Seq(Block) /\ Len(G) = i + 1 + (Len(F) + 1 - j)
  /\ \A k \in 1 .. i : G[k] = F[k]
  /\ G[i + 1] = b
  /\ \A k \in i + 2 .. Len(G) : G[k] = F[k + j - (i + 2)]

\* The members of a list are the blocks at its places.
LEMMA ListedAt ==
  ASSUME NEW F, NEW S, Lists(F, S)
  PROVE  /\ Len(F) \in Nat /\ DOMAIN F = 1 .. Len(F)
         /\ \A k \in 1 .. Len(F) : F[k] \in Block /\ F[k] \in S
         /\ \A k, l \in 1 .. Len(F) : F[k] = F[l] => k = l
         /\ \A b \in S : \E k \in 1 .. Len(F) : F[k] = b
<1>1. Len(F) \in Nat /\ DOMAIN F = 1 .. Len(F) /\ \A k \in 1 .. Len(F) : F[k] \in Block
  BY DEF Lists
<1>2. \A k \in 1 .. Len(F) : F[k] \in S
  BY <1>1 DEF Lists, Range
<1>3. \A k, l \in 1 .. Len(F) : F[k] = F[l] => k = l
  BY <1>1 DEF Lists, IsInjective
<1>4. \A b \in S : \E k \in 1 .. Len(F) : F[k] = b
  BY <1>1 DEF Lists, Range
<1> QED
  BY <1>1, <1>2, <1>3, <1>4

\* And the other way round.
LEMMA ListOf ==
  ASSUME NEW F \in Seq(Block), NEW S,
         \A k \in 1 .. Len(F) : F[k] \in S,
         \A k, l \in 1 .. Len(F) : F[k] = F[l] => k = l,
         \A b \in S : \E k \in 1 .. Len(F) : F[k] = b
  PROVE  Lists(F, S)
<1>1. DOMAIN F = 1 .. Len(F)
  OBVIOUS
<1>2. IsInjective(F)
  BY <1>1 DEF IsInjective
<1>3. Range(F) = S
  BY <1>1 DEF Range
<1> QED
  BY <1>2, <1>3 DEF Lists

\* The places of a spliced list.
LEMMA SpliceIs ==
  ASSUME NEW F \in Seq(Block), NEW i \in 0 .. Len(F), NEW j \in i + 1 .. Len(F) + 1, NEW b \in Block
  PROVE  SpliceOf(Splice(F, i, b, j), F, i, b, j)
<1> DEFINE p == SubSeq(F, 1, i)
           q == SubSeq(F, j, Len(F))
           P == p \o <<b>>
           G == P \o q
<1>1. Len(F) \in Nat /\ i \in Nat /\ j \in Nat /\ i + 1 <= j /\ j <= Len(F) + 1 /\ i <= Len(F)
  OBVIOUS
<1>2. (\A k \in 1 .. i : F[k] \in Block) /\ \A k \in j .. Len(F) : F[k] \in Block
  BY <1>1
<1>3. p \in Seq(Block) /\ Len(p) = i /\ \A k \in 1 .. i : p[k] = F[k]
  BY <1>1, <1>2, SubSeqProperties
<1>4. q \in Seq(Block) /\ Len(q) = Len(F) + 1 - j /\ \A k \in 1 .. Len(F) + 1 - j : q[k] = F[j + k - 1]
  <2>1. /\ q \in Seq(Block)
        /\ Len(q) = IF j <= Len(F) THEN Len(F) - j + 1 ELSE 0
        /\ \A k \in 1 .. Len(F) - j + 1 : q[k] = F[j + k - 1]
    BY <1>1, <1>2, SubSeqProperties
  <2> QED
    BY <1>1, <2>1
<1> HIDE DEF p, q
<1>5. <<b>> \in Seq(Block) /\ Len(<<b>>) = 1 /\ <<b>>[1] = b
  OBVIOUS
<1>6. P \in Seq(Block) /\ Len(P) = i + 1 /\ (\A k \in 1 .. i : P[k] = F[k]) /\ P[i + 1] = b
  <2>1. /\ P \in Seq(Block) /\ Len(P) = Len(p) + Len(<<b>>)
        /\ \A k \in 1 .. Len(p) + Len(<<b>>) :
             P[k] = IF k <= Len(p) THEN p[k] ELSE <<b>>[k - Len(p)]
    BY <1>3, <1>5, ConcatProperties
  <2> HIDE DEF P
  <2> QED
    BY <1>1, <1>3, <1>5, <2>1
<1> HIDE DEF P
<1>7. /\ G \in Seq(Block) /\ Len(G) = Len(P) + Len(q)
      /\ \A k \in 1 .. Len(P) + Len(q) : G[k] = IF k <= Len(P) THEN P[k] ELSE q[k - Len(P)]
  BY <1>4, <1>6, ConcatProperties
<1>8. G = Splice(F, i, b, j)
  BY DEF Splice, P, p, q
<1> HIDE DEF G
<1>9. Len(G) = i + 1 + (Len(F) + 1 - j)
  BY <1>4, <1>6, <1>7
<1>10. (\A k \in 1 .. i : G[k] = F[k]) /\ G[i + 1] = b
  <2>1. \A k \in 1 .. i + 1 : k \in 1 .. Len(P) + Len(q) /\ k <= Len(P)
    BY <1>1, <1>4, <1>6
  <2>2. \A k \in 1 .. i + 1 : G[k] = P[k]
    BY <1>7, <2>1
  <2>3. i + 1 \in 1 .. i + 1 /\ \A k \in 1 .. i : k \in 1 .. i + 1
    BY <1>1
  <2> QED
    BY <1>6, <2>2, <2>3
<1>11. ASSUME NEW k \in i + 2 .. Len(G) PROVE G[k] = F[k + j - (i + 2)]
  <2>1. G[k] = q[k - (i + 1)]
    BY <1>1, <1>4, <1>6, <1>7, <1>9
  <2>2. k - (i + 1) \in 1 .. Len(F) + 1 - j
    BY <1>1, <1>9
  <2>3. q[k - (i + 1)] = F[j + (k - (i + 1)) - 1]
    BY <1>4, <2>2
  <2>4. j + (k - (i + 1)) - 1 = k + j - (i + 2)
    BY <1>1, <1>9
  <2> QED
    BY <2>1, <2>3, <2>4
<1>12. SpliceOf(G, F, i, b, j)
  BY <1>7, <1>9, <1>10, <1>11 DEF SpliceOf
<1> QED
  BY <1>8, <1>12

\* What it lists.
LEMMA Spliced ==
  ASSUME NEW F, NEW S, Lists(F, S), NEW i \in 0 .. Len(F), NEW j \in i + 1 .. Len(F) + 1,
         NEW b \in Block, NEW R, b \notin R,
         \A k \in 1 .. Len(F) : F[k] \in R <=> k <= i \/ j <= k, R \subseteq S
  PROVE  Lists(Splice(F, i, b, j), R \cup {b})
<1> DEFINE G == Splice(F, i, b, j)
<1>1. F \in Seq(Block)
  BY DEF Lists
<1>0. SpliceOf(G, F, i, b, j)
  BY <1>1, SpliceIs
<1> HIDE DEF G
<1>2. /\ G \in Seq(Block) /\ Len(G) = i + 1 + (Len(F) + 1 - j)
      /\ \A k \in 1 .. i : G[k] = F[k]
      /\ G[i + 1] = b
      /\ \A k \in i + 2 .. Len(G) : G[k] = F[k + j - (i + 2)]
  BY <1>0 DEF SpliceOf
<1>3. /\ Len(F) \in Nat /\ i \in Nat /\ j \in Nat /\ i + 1 <= j /\ j <= Len(F) + 1 /\ i <= Len(F)
  BY ListedAt
<1>4. Len(G) \in Nat
  BY <1>2
<1>5. ASSUME NEW k \in 1 .. Len(G), k # i + 1
      PROVE  \E l \in 1 .. Len(F) : /\ G[k] = F[l] /\ (l <= i \/ j <= l)
                                    /\ l = IF k <= i THEN k ELSE k + j - (i + 2)
  <2>1. CASE k <= i
    <3>1. k \in 1 .. i /\ k \in 1 .. Len(F)
      BY <1>3, <1>4, <2>1
    <3>2. G[k] = F[k]
      BY <1>2, <3>1
    <3> QED
      BY <2>1, <3>1, <3>2
  <2>2. CASE k > i + 1
    <3>1. k \in i + 2 .. Len(G)
      BY <1>3, <1>4, <2>2
    <3>2. k + j - (i + 2) \in 1 .. Len(F) /\ j <= k + j - (i + 2)
      BY <1>2, <1>3, <3>1
    <3>3. G[k] = F[k + j - (i + 2)] /\ ~(k <= i)
      BY <1>2, <1>3, <2>2, <3>1
    <3> QED
      BY <3>2, <3>3
  <2> QED
    BY <1>3, <1>4, <1>5, <2>1, <2>2
<1>6. \A k \in 1 .. Len(G) : G[k] \in R \cup {b}
  <2> SUFFICES ASSUME NEW k \in 1 .. Len(G), k # i + 1 PROVE G[k] \in R
    BY <1>2
  <2> QED
    BY <1>5
<1>7. ASSUME NEW k \in 1 .. Len(G), NEW l \in 1 .. Len(G), G[k] = G[l] PROVE k = l
  <2>1. \A n \in 1 .. Len(G) : n # i + 1 => G[n] \in R
    BY <1>5
  <2>2. CASE k = i + 1 \/ l = i + 1
    BY <1>2, <1>7, <2>1, <2>2
  <2>3. CASE k # i + 1 /\ l # i + 1
    <3>1. PICK s \in 1 .. Len(F) : /\ G[k] = F[s] /\ (s <= i \/ j <= s)
                                   /\ s = IF k <= i THEN k ELSE k + j - (i + 2)
      BY <1>5, <2>3
    <3>2. PICK t \in 1 .. Len(F) : /\ G[l] = F[t] /\ (t <= i \/ j <= t)
                                   /\ t = IF l <= i THEN l ELSE l + j - (i + 2)
      BY <1>5, <2>3
    <3>3. s = t
      <4>1. F[s] = F[t]
        BY <1>7, <3>1, <3>2
      <4>2. \A m, n \in 1 .. Len(F) : F[m] = F[n] => m = n
        BY ListedAt
      <4> QED
        BY <3>1, <3>2, <4>1, <4>2
    <3> QED
      BY <1>3, <1>4, <2>3, <3>1, <3>2, <3>3
  <2> QED
    BY <2>2, <2>3
<1>8. ASSUME NEW c \in R \cup {b} PROVE \E k \in 1 .. Len(G) : G[k] = c
  <2>1. CASE c = b
    <3>1. i + 1 \in 1 .. Len(G)
      BY <1>2, <1>3
    <3> QED
      BY <1>2, <2>1, <3>1
  <2>2. CASE c \in R
    <3>1. PICK l \in 1 .. Len(F) : F[l] = c
      BY <2>2, ListedAt
    <3>2. CASE l <= i
      <4>1. l \in 1 .. Len(G) /\ l \in 1 .. i
        BY <1>2, <1>3, <3>1, <3>2
      <4> QED
        BY <1>2, <3>1, <4>1
    <3>3. CASE j <= l
      <4> DEFINE k == l + (i + 2) - j
      <4>1. k \in i + 2 .. Len(G) /\ k \in 1 .. Len(G) /\ k + j - (i + 2) = l
        BY <1>2, <1>3, <3>1, <3>3
      <4> HIDE DEF k
      <4> QED
        BY <1>2, <3>1, <4>1
    <3> QED
      BY <2>2, <3>1, <3>2, <3>3
  <2> QED
    BY <2>1, <2>2
<1>9. Lists(G, R \cup {b})
  BY <1>2, <1>6, <1>7, <1>8, ListOf
<1> QED
  BY <1>9 DEF G

\* A block put in front.
LEMMA Prepended ==
  ASSUME NEW F, NEW S, Lists(F, S), NEW b \in Block, b \notin S
  PROVE  Lists(<<b>> \o F, S \cup {b})
<1>1. F \in Seq(Block) /\ Len(F) \in Nat /\ \A k \in 1 .. Len(F) : F[k] \in S
  BY ListedAt DEF Lists
<1>2. SubSeq(F, 1, 0) = <<>> /\ SubSeq(F, 1, Len(F)) = F
  BY <1>1, SubSeqEmpty, SubSeqFull
<1>3. <<b>> \in Seq(Block)
  OBVIOUS
<1>4. <<>> \o <<b>> = <<b>>
  BY <1>3, ConcatEmptySeq
<1>5. Splice(F, 0, b, 1) = <<b>> \o F
  BY <1>2, <1>4 DEF Splice
<1>6. \A k \in 1 .. Len(F) : F[k] \in S <=> k <= 0 \/ 1 <= k
  BY <1>1
<1>7. 0 \in 0 .. Len(F) /\ 1 \in 0 + 1 .. Len(F) + 1
  BY <1>1
<1>8. Lists(Splice(F, 0, b, 1), S \cup {b})
  BY <1>6, <1>7, Spliced
<1> QED
  BY <1>5, <1>8

\* A block in place of another.
LEMMA Replaced ==
  ASSUME NEW F, NEW S, Lists(F, S), NEW k \in 1 .. Len(F), NEW b \in Block, b \notin S
  PROVE  Lists([F EXCEPT ![k] = b], (S \ {F[k]}) \cup {b})
<1> DEFINE G == [F EXCEPT ![k] = b]
<1>1. F \in Seq(Block) /\ Len(F) \in Nat /\ DOMAIN F = 1 .. Len(F)
  BY ListedAt DEF Lists
<1>2. /\ \A n \in 1 .. Len(F) : F[n] \in Block /\ F[n] \in S
      /\ \A m, n \in 1 .. Len(F) : F[m] = F[n] => m = n
      /\ \A c \in S : \E n \in 1 .. Len(F) : F[n] = c
  BY ListedAt
<1>3. G \in Seq(Block) /\ Len(G) = Len(F)
  BY <1>1
<1>4. G[k] = b /\ \A n \in 1 .. Len(F) \ {k} : G[n] = F[n]
  BY <1>1
<1> HIDE DEF G
<1>5. \A n \in 1 .. Len(F) \ {k} : F[n] # F[k] /\ F[n] # b
  BY <1>2
<1>6. \A n \in 1 .. Len(G) : G[n] \in (S \ {F[k]}) \cup {b}
  BY <1>2, <1>3, <1>4, <1>5
<1>7. \A m, n \in 1 .. Len(G) : G[m] = G[n] => m = n
  BY <1>2, <1>3, <1>4, <1>5
<1>8. ASSUME NEW c \in (S \ {F[k]}) \cup {b} PROVE \E n \in 1 .. Len(G) : G[n] = c
  <2>1. CASE c = b
    BY <1>3, <1>4, <2>1
  <2>2. CASE c \in S \ {F[k]}
    <3>1. PICK n \in 1 .. Len(F) : F[n] = c
      BY <1>2, <2>2
    <3> QED
      BY <1>3, <1>4, <2>2, <3>1
  <2> QED
    BY <2>1, <2>2
<1>9. Lists(G, (S \ {F[k]}) \cup {b})
  BY <1>3, <1>6, <1>7, <1>8, ListOf
<1> QED
  BY <1>9 DEF G

\* A block taken out.
LEMMA Removed ==
  ASSUME NEW F, NEW S, Lists(F, S), NEW k \in 1 .. Len(F)
  PROVE  Lists(RemoveAt(F, k), S \ {F[k]})
<1> DEFINE p == SubSeq(F, 1, k - 1)
           q == SubSeq(F, k + 1, Len(F))
           G == p \o q
<1>1. F \in Seq(Block) /\ Len(F) \in Nat /\ k \in Nat /\ 1 <= k /\ k <= Len(F)
  BY ListedAt DEF Lists
<1>2. /\ \A n \in 1 .. Len(F) : F[n] \in Block /\ F[n] \in S
      /\ \A m, n \in 1 .. Len(F) : F[m] = F[n] => m = n
      /\ \A c \in S : \E n \in 1 .. Len(F) : F[n] = c
  BY ListedAt
<1>3. /\ k - 1 \in Int /\ k + 1 \in Int /\ Len(F) \in Int /\ 1 \in Int
      /\ \A n \in 1 .. k - 1 : F[n] \in Block
      /\ \A n \in k + 1 .. Len(F) : F[n] \in Block
  BY <1>1, <1>2
<1>4. p \in Seq(Block) /\ Len(p) = k - 1 /\ \A n \in 1 .. k - 1 : p[n] = F[n]
  <2>1. /\ p \in Seq(Block) /\ Len(p) = IF 1 <= k - 1 THEN k - 1 - 1 + 1 ELSE 0
        /\ \A n \in 1 .. k - 1 - 1 + 1 : p[n] = F[1 + n - 1]
    BY <1>3, SubSeqProperties
  <2> HIDE DEF p
  <2> QED
    BY <1>1, <2>1
<1>5. q \in Seq(Block) /\ Len(q) = Len(F) - k /\ \A n \in 1 .. Len(F) - k : q[n] = F[k + n]
  <2>1. /\ q \in Seq(Block) /\ Len(q) = IF k + 1 <= Len(F) THEN Len(F) - (k + 1) + 1 ELSE 0
        /\ \A n \in 1 .. Len(F) - (k + 1) + 1 : q[n] = F[(k + 1) + n - 1]
    BY <1>3, SubSeqProperties
  <2> HIDE DEF q
  <2>2. ASSUME NEW n \in 1 .. Len(F) - k PROVE q[n] = F[k + n]
    <3>1. n \in 1 .. Len(F) - (k + 1) + 1 /\ (k + 1) + n - 1 = k + n
      BY <1>1
    <3> QED
      BY <2>1, <3>1
  <2> QED
    BY <1>1, <2>1, <2>2
<1> HIDE DEF p, q
<1>6. /\ G \in Seq(Block) /\ Len(G) = Len(p) + Len(q)
      /\ \A n \in 1 .. Len(p) + Len(q) : G[n] = IF n <= Len(p) THEN p[n] ELSE q[n - Len(p)]
  BY <1>4, <1>5, ConcatProperties
<1>7. G = RemoveAt(F, k)
  BY DEF RemoveAt, p, q
<1> HIDE DEF G
<1>8. Len(G) = Len(F) - 1
  BY <1>1, <1>4, <1>5, <1>6
<1>9. ASSUME NEW n \in 1 .. Len(G)
      PROVE  LET m == IF n < k THEN n ELSE n + 1
             IN G[n] = F[m] /\ m \in 1 .. Len(F) /\ m # k
  <2>1. n \in Nat /\ 1 <= n /\ n <= Len(F) - 1
    BY <1>1, <1>8
  <2>2. CASE n < k
    <3>1. G[n] = p[n] /\ n \in 1 .. k - 1
      BY <1>1, <1>4, <1>5, <1>6, <2>1, <2>2
    <3> QED
      BY <1>1, <1>4, <2>1, <2>2, <3>1
  <2>3. CASE ~(n < k)
    <3>1. G[n] = q[n - (k - 1)] /\ n - (k - 1) \in 1 .. Len(F) - k
      BY <1>1, <1>4, <1>5, <1>6, <2>1, <2>3
    <3>2. k + (n - (k - 1)) = n + 1
      BY <1>1, <2>1
    <3>3. G[n] = F[n + 1]
      BY <1>5, <3>1, <3>2
    <3>4. n + 1 \in 1 .. Len(F) /\ n + 1 # k
      BY <1>1, <2>1, <2>3
    <3> QED
      BY <2>3, <3>3, <3>4
  <2> QED
    BY <2>2, <2>3
<1>10. \A n \in 1 .. Len(G) : G[n] \in S \ {F[k]}
  BY <1>2, <1>9
<1>11. ASSUME NEW m \in 1 .. Len(G), NEW n \in 1 .. Len(G), G[m] = G[n] PROVE m = n
  <2> DEFINE s == IF m < k THEN m ELSE m + 1
             t == IF n < k THEN n ELSE n + 1
  <2>1. F[s] = F[t] /\ s \in 1 .. Len(F) /\ t \in 1 .. Len(F)
    BY <1>9, <1>11
  <2>2. s = t
    <3> HIDE DEF s, t
    <3> QED
      BY <1>2, <2>1
  <2> QED
    BY <1>1, <1>8, <2>2
<1>12. ASSUME NEW c \in S \ {F[k]} PROVE \E n \in 1 .. Len(G) : G[n] = c
  <2>1. PICK m \in 1 .. Len(F) : F[m] = c
    BY <1>2
  <2>2. m # k /\ m \in Nat
    BY <1>1, <2>1
  <2>3. CASE m < k
    <3>1. m \in 1 .. Len(G)
      BY <1>1, <1>8, <2>1, <2>3
    <3> QED
      BY <1>9, <2>1, <2>3, <3>1
  <2>4. CASE m > k
    <3> DEFINE n == m - 1
    <3>1. n \in 1 .. Len(G) /\ ~(n < k) /\ n + 1 = m
      BY <1>1, <1>8, <2>1, <2>4
    <3> HIDE DEF n
    <3> QED
      BY <1>9, <2>1, <3>1
  <2> QED
    BY <1>1, <2>1, <2>2, <2>3, <2>4
<1>13. Lists(G, S \ {F[k]})
  BY <1>6, <1>10, <1>11, <1>12, ListOf
<1> QED
  BY <1>7, <1>13

-----------------------------------------------------------------------------
(* The calls                                                               *)

\* What a sound heap is made of.
LEMMA SoundIs ==
  ASSUME NEW h, NEW B, Sound(h, B)
  PROVE  /\ Lists(h.g_free, Range(h.g_free))
         /\ Packed(Range(h.g_free) \cup B, h.g_next)
         /\ Range(h.g_free) \cap B = {}
         /\ \A b \in B : kMinBlock <= b.size
         /\ Edges(h)
         /\ h.g_next \in Nat /\ h.g_end \in Nat /\ h.brk \in Nat /\ h.g_free \in Seq(Block)
         /\ OnGrid(h.g_next) /\ OnGrid(h.brk)
         /\ kArenaVA <= h.brk /\ h.brk <= kArenaVA + kArenaBytes
         /\ \/ h.g_next = Null /\ h.g_end = Null /\ h.brk = kArenaVA
            \/ kArenaVA < h.g_next /\ h.g_next <= h.g_end /\ h.g_end = h.brk
  BY DEF Sound, Laid, Lists, Edges

\* The heap with other ends and another list.
HeapOf(next, end, F, brk) == [g_next |-> next, g_end |-> end, g_free |-> F, brk |-> brk]

\* A sound heap from its parts.
LEMMA SoundFrom ==
  ASSUME NEW next \in Nat, NEW end \in Nat, NEW brk \in Nat, NEW F, NEW S, NEW B,
         Lists(F, S), Packed(S \cup B, next), S \cap B = {},
         \A b \in B : kMinBlock <= b.size,
         OnGrid(next), OnGrid(brk), kArenaVA <= brk, brk <= kArenaVA + kArenaBytes,
         \/ next = Null /\ end = Null /\ brk = kArenaVA
         \/ kArenaVA < next /\ next <= end /\ end = brk
  PROVE  Sound(HeapOf(next, end, F, brk), B)
<1> DEFINE h == HeapOf(next, end, F, brk)
<1>1. h.g_next = next /\ h.g_end = end /\ h.g_free = F /\ h.brk = brk
  BY DEF HeapOf
<1>2. F \in Seq(Block) /\ IsInjective(F) /\ Range(F) = S
  BY DEF Lists
<1>3. h \in [g_next : Nat, g_end : Nat, g_free : Seq(Block), brk : Nat]
  BY <1>2 DEF HeapOf
<1> HIDE DEF h
<1>4. Edges(h)
  BY <1>1, <1>3 DEF Edges
<1>5. Laid(S, B, next)
  BY DEF Laid
<1>6. Sound(h, B)
  BY <1>1, <1>2, <1>4, <1>5 DEF Sound
<1> QED
  BY <1>6 DEF h

\* A heap is its four parts.
LEMMA HeapIs ==
  ASSUME NEW h, NEW B, Sound(h, B)
  PROVE  h = HeapOf(h.g_next, h.g_end, h.g_free, h.brk)
<1>1. h \in [g_next : Nat, g_end : Nat, g_free : Seq(Block), brk : Nat]
  BY DEF Sound, Edges
<1> QED
  BY <1>1 DEF HeapOf

\* release_tail() puts what was not carved on the list, if it is a block.
LEMMA ReleaseOK ==
  ASSUME NEW h, NEW B, Sound(h, B)
  PROVE  /\ Sound(release_tail(h), B)
         /\ release_tail(h).g_end - release_tail(h).g_next < kMinBlock
<1>1. kMinBlock \in Nat \ {0} /\ kArenaVA \in Nat \ {0}
  BY Constants
<1>2. CASE h.g_end - h.g_next < kMinBlock
  BY <1>2 DEF release_tail
<1>3. CASE ~(h.g_end - h.g_next < kMinBlock)
  <2> DEFINE S == Range(h.g_free)
             n == h.g_end - h.g_next
             b == At(h.g_next, n)
             F == <<b>> \o h.g_free
  <2>1. /\ h.g_next \in Nat /\ h.g_end \in Nat /\ h.brk \in Nat /\ OnGrid(h.g_next) /\ OnGrid(h.brk)
        /\ Lists(h.g_free, S) /\ Packed(S \cup B, h.g_next) /\ S \cap B = {}
        /\ (\A c \in B : kMinBlock <= c.size) /\ kArenaVA <= h.brk /\ h.brk <= kArenaVA + kArenaBytes
        /\ \/ h.g_next = Null /\ h.g_end = Null /\ h.brk = kArenaVA
           \/ kArenaVA < h.g_next /\ h.g_next <= h.g_end /\ h.g_end = h.brk
    BY SoundIs
  <2>2. h.g_next # Null /\ kArenaVA < h.g_next /\ h.g_next <= h.g_end /\ h.g_end = h.brk
    BY <1>1, <1>3, <2>1 DEF Null
  <2>3. n \in Nat \ {0} /\ OnGrid(n) /\ h.g_next + n = h.g_end /\ kArenaVA <= h.g_next
    <3>1. n \in Nat \ {0} /\ h.g_next + n = h.g_end /\ h.g_next <= h.brk /\ n = h.brk - h.g_next
      BY <1>1, <1>3, <2>1, <2>2
    <3> QED
      BY <1>1, <2>1, <2>2, <3>1, GridSum
  <2>4. release_tail(h) = HeapOf(h.g_end, h.g_end, F, h.brk)
    <3>1. release_tail(h) = [h EXCEPT !.g_free = F, !.g_next = h.g_end]
      BY <1>3 DEF release_tail, At
    <3>2. h = HeapOf(h.g_next, h.g_end, h.g_free, h.brk)
      BY HeapIs
    <3> QED
      BY <3>1, <3>2 DEF HeapOf
  <2>5. b \in Block
    BY <2>1, <2>3, AtIs
  <2> HIDE DEF n
  <2>6. Packed((S \cup B) \cup {b}, h.g_next + n) /\ b \notin S \cup B
    BY <1>1, <2>1, <2>2, <2>3, Extends
  <2>7. Lists(F, S \cup {b})
    BY <2>1, <2>5, <2>6, Prepended
  <2>8. (S \cup {b}) \cup B = (S \cup B) \cup {b} /\ (S \cup {b}) \cap B = {}
    BY <2>1, <2>6
  <2> HIDE DEF S, b, F
  <2>9. Packed((S \cup {b}) \cup B, h.g_end)
    BY <2>3, <2>6, <2>8
  <2>10. Sound(HeapOf(h.g_end, h.g_end, F, h.brk), B)
    BY <1>1, <2>1, <2>2, <2>7, <2>8, <2>9, SoundFrom
  <2>11. HeapOf(h.g_end, h.g_end, F, h.brk).g_end - HeapOf(h.g_end, h.g_end, F, h.brk).g_next < kMinBlock
    BY <1>1, <2>1 DEF HeapOf
  <2> QED
    BY <2>4, <2>10, <2>11
<1> QED
  BY <1>2, <1>3

\* What a call returned: a block that nobody had, for n bytes.
Given(r, B, n) ==
  /\ r.ptr \in Nat /\ r.ptr # Null /\ kAlign <= r.ptr /\ r.size \in Nat /\ n <= r.size
  /\ At(r.ptr - kAlign, r.size) \notin B
  /\ Sound(r.heap, B \cup {At(r.ptr - kAlign, r.size)})

\* It follows from the block behind the pointer.
LEMMA GivenFrom ==
  ASSUME NEW a \in Nat, NEW m \in Nat, NEW n \in Nat, n <= m, NEW h, NEW B,
         At(a, m) \notin B, Sound(h, B \cup {At(a, m)})
  PROVE  Given(Result(Payload(a), m, h), B, n)
<1>1. kAlign \in Nat \ {0}
  BY Constants
<1> DEFINE r == Result(Payload(a), m, h)
<1>2. r.ptr = a + kAlign /\ r.size = m /\ r.heap = h
  BY DEF Result, Payload
<1> HIDE DEF r
<1>3. r.ptr \in Nat /\ r.ptr # Null /\ kAlign <= r.ptr /\ r.ptr - kAlign = a
  BY <1>1, <1>2 DEF Null
<1>4. Given(r, B, n)
  BY <1>2, <1>3 DEF Given
<1> QED
  BY <1>4 DEF r

\* Taken() cuts a block of the list or takes it whole.
LEMMA TakenOK ==
  ASSUME NEW h, NEW B, Sound(h, B), NEW k \in 1 .. Len(h.g_free), NEW n \in Nat, OnGrid(n),
         kMinBlock <= n, h.g_free[k].size >= n
  PROVE  Given(Taken(h, k, n), B, n)
<1> DEFINE S == Range(h.g_free)
           b == h.g_free[k]
<1>1. /\ h.g_next \in Nat /\ h.g_end \in Nat /\ h.brk \in Nat /\ OnGrid(h.g_next) /\ OnGrid(h.brk)
      /\ Lists(h.g_free, S) /\ Packed(S \cup B, h.g_next) /\ S \cap B = {}
      /\ (\A c \in B : kMinBlock <= c.size) /\ kArenaVA <= h.brk /\ h.brk <= kArenaVA + kArenaBytes
      /\ \/ h.g_next = Null /\ h.g_end = Null /\ h.brk = kArenaVA
         \/ kArenaVA < h.g_next /\ h.g_next <= h.g_end /\ h.g_end = h.brk
  BY SoundIs
<1>2. kMinBlock \in Nat \ {0} /\ kAlign \in Nat \ {0}
  BY Constants
<1> HIDE DEF S
<1>3. b \in S /\ b \in Block /\ b \in S \cup B
  BY <1>1, ListedAt
<1>4. b.at \in Nat /\ b.size \in Nat /\ b = At(b.at, b.size)
  BY <1>3, BlockIs
<1>5. CASE b.size >= n + kAlign
  <2> DEFINE c == At(b.at, n)
             d == At(b.at + n, b.size - n)
             F == [h.g_free EXCEPT ![k] = d]
             g == HeapOf(h.g_next, h.g_end, F, h.brk)
  <2>1. 0 < n /\ n < b.size /\ b.at + n \in Nat /\ b.size - n \in Nat
    BY <1>2, <1>4, <1>5
  <2>2. d \in Block /\ c.size = n
    BY <1>4, <2>1, AtIs
  <2>3. Taken(h, k, n) = Result(Payload(b.at), n, g)
    <3>1. Taken(h, k, n) = Result(Payload(b.at), n, [h EXCEPT !.g_free = F])
      BY <1>5 DEF Taken, At
    <3>2. h = HeapOf(h.g_next, h.g_end, h.g_free, h.brk)
      BY HeapIs
    <3>3. [h EXCEPT !.g_free = F] = g
      BY <3>2 DEF HeapOf
    <3> QED
      BY <3>1, <3>3
  <2>4. /\ Packed(((S \cup B) \ {b}) \cup {c, d}, h.g_next)
        /\ c \notin S \cup B /\ d \notin S \cup B /\ c # d
    <3> HIDE DEF b
    <3> QED
      BY <1>1, <1>3, <2>1, Splits
  <2>5. Lists(F, (S \ {b}) \cup {d})
    BY <1>1, <2>2, <2>4, Replaced
  <2> HIDE DEF b, c, d, F
  <2>6. ((S \ {b}) \cup {d}) \cup (B \cup {c}) = ((S \cup B) \ {b}) \cup {c, d}
    BY <1>1, <1>3
  <2>7. ((S \ {b}) \cup {d}) \cap (B \cup {c}) = {}
    BY <1>1, <2>4
  <2>8. \A e \in B \cup {c} : kMinBlock <= e.size
    BY <1>1, <2>2
  <2>9. Packed(((S \ {b}) \cup {d}) \cup (B \cup {c}), h.g_next)
    BY <2>4, <2>6
  <2>10. Sound(g, B \cup {c})
    BY <1>1, <2>5, <2>7, <2>8, <2>9, SoundFrom
  <2>11. c \notin B
    BY <2>4
  <2> HIDE DEF g
  <2>12. Given(Result(Payload(b.at), n, g), B, n)
    BY <1>4, <2>10, <2>11, GivenFrom DEF c
  <2> QED
    BY <2>3, <2>12
<1>6. CASE ~(b.size >= n + kAlign)
  <2> DEFINE F == RemoveAt(h.g_free, k)
             g == HeapOf(h.g_next, h.g_end, F, h.brk)
  <2>1. Taken(h, k, n) = Result(Payload(b.at), b.size, g)
    <3>1. Taken(h, k, n) = Result(Payload(b.at), b.size, [h EXCEPT !.g_free = F])
      BY <1>6 DEF Taken
    <3>2. h = HeapOf(h.g_next, h.g_end, h.g_free, h.brk)
      BY HeapIs
    <3>3. [h EXCEPT !.g_free = F] = g
      BY <3>2 DEF HeapOf
    <3> QED
      BY <3>1, <3>3
  <2>2. Lists(F, S \ {b})
    BY <1>1, Removed
  <2>3. n <= b.size /\ kMinBlock <= b.size
    BY <1>2, <1>4
  <2> HIDE DEF b, F
  <2>4. (S \ {b}) \cup (B \cup {b}) = S \cup B /\ (S \ {b}) \cap (B \cup {b}) = {} /\ b \notin B
    BY <1>1, <1>3
  <2>5. \A e \in B \cup {b} : kMinBlock <= e.size
    BY <1>1, <2>3
  <2>6. Packed((S \ {b}) \cup (B \cup {b}), h.g_next)
    BY <1>1, <2>4
  <2>7. Sound(g, B \cup {b})
    BY <1>1, <2>2, <2>4, <2>5, <2>6, SoundFrom
  <2> HIDE DEF g
  <2>8. Given(Result(Payload(b.at), b.size, g), B, n)
    <3>1. At(b.at, b.size) \notin B /\ Sound(g, B \cup {At(b.at, b.size)})
      BY <1>4, <2>4, <2>7
    <3> QED
      BY <1>4, <2>3, <3>1, GivenFrom
  <2> QED
    BY <2>1, <2>8
<1> QED
  BY <1>5, <1>6

\* The break moved far enough for n bytes.
Grown(got, brk, n) ==
  /\ got \in Nat /\ OnGrid(got) /\ brk + n <= got /\ got <= kArenaVA + kArenaBytes
  /\ (got - brk) % Word >= n /\ (brk + n) % Word = brk + n

\* What carve() asks the kernel for, and what it gets.
LEMMA Grows ==
  ASSUME NEW brk \in Nat, NEW n \in Nat, OnGrid(brk), kArenaVA <= brk, brk <= kArenaVA + kArenaBytes,
         n + 2 * kPage + kArenaBytes <= Word
  PROVE  LET got == task_sbrk(brk, Signed((align_up(n, kPage) + kPage) % Word))
         IN got = Null \/ Grown(got, brk, n)
<1> DEFINE up == align_up(n, kPage)
           want == (up + kPage) % Word
           got == task_sbrk(brk, Signed(want))
<1>1. /\ kPage \in Nat \ {0} /\ kArenaVA \in Nat \ {0} /\ kArenaBytes \in Nat \ {0} /\ Word \in Nat \ {0}
      /\ kArenaVA + kArenaBytes < Word
  BY Constants
<1>2. n + kPage - 1 < Word
  BY <1>1
<1>3. up \in Nat /\ n <= up /\ up < n + kPage /\ \E q \in Nat : up = q * kPage
  BY <1>1, <1>2, AlignUp
<1>4. OnGrid(up) /\ OnGrid(kPage)
  BY <1>3, PageGrid
<1> HIDE DEF up
<1>5. want = up + kPage
  BY <1>1, <1>3
<1>6. want \in Nat /\ OnGrid(want) /\ n <= want /\ want + kArenaBytes < Word
  BY <1>1, <1>3, <1>4, <1>5, GridSum
<1> HIDE DEF want
<1>7. ASSUME Signed(want) # want PROVE got = Null
  <2>1. Signed(want) = want - Word
    BY <1>7 DEF Signed
  <2>2. brk + Signed(want) \in Int /\ brk + Signed(want) < kArenaVA
    BY <1>1, <1>6, <2>1
  <2> QED
    BY <1>1, <2>2 DEF task_sbrk
<1>8. ASSUME Signed(want) = want, got # Null PROVE Grown(got, brk, n)
  <2>1. got = brk + want /\ brk + want <= kArenaVA + kArenaBytes
    <3>1. got = task_sbrk(brk, want)
      BY <1>8
    <3>2. brk + want \in kArenaVA .. kArenaVA + kArenaBytes /\ got = brk + want
      BY <1>8, <3>1, Zenon DEF task_sbrk
    <3>3. \A x \in kArenaVA .. kArenaVA + kArenaBytes : x <= kArenaVA + kArenaBytes
      BY <1>1
    <3> QED
      BY <3>2, <3>3
  <2>2. OnGrid(brk + want)
    BY <1>6, GridSum
  <2>3. (got - brk) % Word = want
    BY <1>1, <1>6, <2>1
  <2>4. (brk + n) % Word = brk + n
    BY <1>1, <1>6, <2>1
  <2> HIDE DEF got
  <2>5. /\ got \in Nat /\ OnGrid(got) /\ brk + n <= got /\ got <= kArenaVA + kArenaBytes
        /\ (got - brk) % Word >= n
    BY <1>6, <2>1, <2>2, <2>3
  <2> QED
    BY <2>4, <2>5 DEF Grown
<1>9. got = Null \/ Grown(got, brk, n)
  BY <1>7, <1>8
<1> QED
  BY <1>9 DEF want, up

\* The heap with the break and the ends of the tail moved.
MovedTo(h, x, y) == [h EXCEPT !.brk = x, !.g_next = y, !.g_end = x]

\* Its parts.
LEMMA Moved ==
  ASSUME NEW next, NEW end, NEW F, NEW brk, NEW x, NEW y
  PROVE  MovedTo(HeapOf(next, end, F, brk), x, y) = HeapOf(y, x, F, x)
<1>1. [HeapOf(next, end, F, brk) EXCEPT !.brk = x] = HeapOf(next, end, F, x)
  BY DEF HeapOf
<1>2. [HeapOf(next, end, F, x) EXCEPT !.g_next = y] = HeapOf(y, end, F, x)
  BY DEF HeapOf
<1>3. [HeapOf(y, end, F, x) EXCEPT !.g_end = x] = HeapOf(y, x, F, x)
  BY DEF HeapOf
<1>4. MovedTo(HeapOf(next, end, F, brk), x, y)
       = [[[HeapOf(next, end, F, brk) EXCEPT !.brk = x] EXCEPT !.g_next = y] EXCEPT !.g_end = x]
  BY DEF MovedTo
<1> QED
  BY <1>1, <1>2, <1>3, <1>4, Zenon

\* carve() goes on to new pages, or finds none.
LEMMA CarveOK ==
  ASSUME NEW h, NEW B, Sound(h, B), h.g_end - h.g_next < kMinBlock, NEW n \in Nat, OnGrid(n),
         kMinBlock <= n, n + 2 * kPage + kArenaBytes <= Word
  PROVE  \/ carve(h, n).ptr = Null /\ Sound(carve(h, n).heap, B)
         \/ Given(carve(h, n), B, n)
<1> DEFINE S == Range(h.g_free)
           got == task_sbrk(h.brk, Signed((align_up(n, kPage) + kPage) % Word))
           b == At(h.brk, n)
           g == HeapOf(h.brk + n, got, h.g_free, got)
<1>1. /\ h.g_next \in Nat /\ h.g_end \in Nat /\ h.brk \in Nat /\ OnGrid(h.g_next) /\ OnGrid(h.brk)
      /\ Lists(h.g_free, S) /\ Packed(S \cup B, h.g_next) /\ S \cap B = {}
      /\ (\A c \in B : kMinBlock <= c.size) /\ kArenaVA <= h.brk /\ h.brk <= kArenaVA + kArenaBytes
      /\ \/ h.g_next = Null /\ h.g_end = Null /\ h.brk = kArenaVA
         \/ kArenaVA < h.g_next /\ h.g_next <= h.g_end /\ h.g_end = h.brk
  BY SoundIs
<1>2. /\ kMinBlock \in Nat \ {0} /\ kAlign \in Nat \ {0} /\ kArenaVA \in Nat \ {0}
  BY Constants
<1>3. ~(h.g_end - h.g_next >= n)
  BY <1>1, <1>2
<1>4. got = Null \/ Grown(got, h.brk, n)
  BY <1>1, Grows
<1>5. ASSUME got = Null PROVE carve(h, n) = Result(Null, 0, h)
  BY <1>3, <1>5 DEF carve
<1>6. ASSUME got # Null, Grown(got, h.brk, n) PROVE carve(h, n) = Result(Payload(h.brk), n, g)
  <2>1. (got - h.brk) % Word >= n /\ (h.brk + n) % Word = h.brk + n
    BY <1>6 DEF Grown
  <2>2. carve(h, n) = Result(Payload(h.brk), n, MovedTo(h, got, (h.brk + n) % Word))
    BY <1>3, <1>6, <2>1 DEF carve, MovedTo
  <2>3. h = HeapOf(h.g_next, h.g_end, h.g_free, h.brk)
    BY HeapIs
  <2> HIDE DEF got
  <2>4. MovedTo(HeapOf(h.g_next, h.g_end, h.g_free, h.brk), got, (h.brk + n) % Word)
          = HeapOf((h.brk + n) % Word, got, h.g_free, got)
    BY Moved
  <2>5. MovedTo(h, got, (h.brk + n) % Word) = HeapOf((h.brk + n) % Word, got, h.g_free, got)
    BY <2>3, <2>4, Zenon
  <2> QED
    BY <2>1, <2>2, <2>5 DEF got
<1> HIDE DEF got, S
<1>7. CASE got = Null
  <2>1. carve(h, n).ptr = Null /\ carve(h, n).heap = h
    BY <1>5, <1>7 DEF Result
  <2> QED
    BY <2>1
<1>8. CASE got # Null /\ Grown(got, h.brk, n)
  <2>1. got \in Nat /\ OnGrid(got) /\ h.brk + n <= got /\ got <= kArenaVA + kArenaBytes
    BY <1>8 DEF Grown
  <2>2. /\ n \in Nat \ {0} /\ h.brk + n \in Nat /\ kArenaVA < h.brk + n /\ h.g_next <= h.brk /\ kArenaVA <= got
        /\ IF h.g_next = Null THEN h.brk = kArenaVA ELSE h.brk < h.g_next + kMinBlock
    BY <1>1, <1>2, <2>1 DEF Null
  <2>3. OnGrid(h.brk + n)
    BY <1>1, GridSum
  <2>4. Packed((S \cup B) \cup {b}, h.brk + n) /\ b \notin S \cup B
    BY <1>1, <2>2, Extends
  <2>5. b.size = n
    BY <1>1, AtIs
  <2> HIDE DEF b
  <2>6. S \cup (B \cup {b}) = (S \cup B) \cup {b} /\ S \cap (B \cup {b}) = {} /\ b \notin B
    BY <1>1, <2>4
  <2>7. \A e \in B \cup {b} : kMinBlock <= e.size
    BY <1>1, <2>5
  <2>8. Packed(S \cup (B \cup {b}), h.brk + n)
    BY <2>4, <2>6
  <2>9. Sound(g, B \cup {b})
    BY <1>1, <2>1, <2>2, <2>3, <2>6, <2>7, <2>8, SoundFrom
  <2> HIDE DEF g
  <2>10. Given(Result(Payload(h.brk), n, g), B, n)
    BY <1>1, <2>6, <2>9, GivenFrom DEF b
  <2> QED
    BY <1>6, <1>8, <2>10
<1> QED
  BY <1>4, <1>7, <1>8

\* A set of naturals has a least element.
LEMMA MinIn ==
  ASSUME NEW S, S \subseteq Nat, S # {}
  PROVE  Min(S) \in S /\ \A y \in S : Min(S) <= y
<1>1. IsWellFoundedOn(OpToRel(<, Nat), Nat)
  BY NatLessThanWellFounded
<1>2. PICK m \in S : \A y \in S : ~(<<y, m>> \in OpToRel(<, Nat))
  BY <1>1, WFMin
<1>3. \A y \in S : m <= y
  <2> SUFFICES ASSUME NEW y \in S, ~(m <= y) PROVE FALSE
    OBVIOUS
  <2>1. <<y, m>> \in OpToRel(<, Nat)
    BY DEF OpToRel
  <2> QED
    BY <1>2, <2>1
<1> QED
  BY <1>3 DEF Min

\* The walks of malloc() and free() along the list.
Large(F, n) == SelectInSeq(F, LAMBDA b : b.size >= n)
Behind(F, a) == SelectInSeq(F, LAMBDA b : b.at >= a)

\* Where they stop.
LEMMA Walks ==
  ASSUME NEW F, Len(F) \in Nat, NEW n
  PROVE  /\ Large(F, n) = 0 \/ (Large(F, n) \in 1 .. Len(F) /\ F[Large(F, n)].size >= n)
         /\ Behind(F, n) = 0 \/ Behind(F, n) \in 1 .. Len(F)
<1> DEFINE I == {i \in 1 .. Len(F) : F[i].size >= n}
           J == {i \in 1 .. Len(F) : F[i].at >= n}
<1>1. Large(F, n) = IF I # {} THEN Min(I) ELSE 0
  BY DEF Large, SelectInSeq
<1>2. Behind(F, n) = IF J # {} THEN Min(J) ELSE 0
  BY DEF Behind, SelectInSeq
<1>3. I \subseteq Nat /\ J \subseteq Nat
  OBVIOUS
<1>4. I # {} => Min(I) \in I
  BY <1>3, MinIn
<1>5. J # {} => Min(J) \in J
  BY <1>3, MinIn
<1> QED
  BY <1>1, <1>2, <1>4, <1>5

\* malloc() returns a block that is in nobody's hands and not on the list, or null.
LEMMA MallocOK ==
  ASSUME NEW h, NEW B, Sound(h, B), NEW n \in Nat, Fits(n), Fits(1)
  PROVE  \/ malloc(h, n).ptr = Null /\ Sound(malloc(h, n).heap, B)
         \/ Given(malloc(h, n), B, n + kAlign)
<1> DEFINE m == IF n = 0 THEN 1 ELSE n
           need == Need(m)
           g == release_tail(h)
           k == Large(g.g_free, need)
<1>1. m \in Nat /\ m > 0 /\ Fits(m) /\ n <= m
  OBVIOUS
<1>2. malloc(h, n) = IF k = 0 THEN carve(g, need) ELSE Taken(g, k, need)
  BY DEF malloc, Large
<1> HIDE DEF m
<1>3. /\ need \in Nat /\ OnGrid(need) /\ m + kAlign <= need /\ kMinBlock <= need
      /\ need + 2 * kPage + kArenaBytes <= Word
  BY <1>1, NeedFits
<1>4. Sound(g, B) /\ g.g_end - g.g_next < kMinBlock
  BY ReleaseOK
<1> HIDE DEF need, g
<1>5. g.g_free \in Seq(Block)
  BY <1>4, SoundIs
<1>6. Len(g.g_free) \in Nat
  BY <1>5
<1>7. k = 0 \/ (k \in 1 .. Len(g.g_free) /\ g.g_free[k].size >= need)
  BY <1>6, Walks
<1>8. kAlign \in Nat
  BY Constants
<1>9. ASSUME NEW r, Given(r, B, need) PROVE Given(r, B, n + kAlign)
  <2>1. r.size \in Nat /\ need <= r.size
    BY <1>9 DEF Given
  <2>2. n + kAlign <= r.size
    BY <1>1, <1>3, <1>8, <2>1
  <2> QED
    BY <1>9, <2>2 DEF Given
<1> HIDE DEF k
<1>10. CASE k = 0
  <2>1. malloc(h, n) = carve(g, need)
    BY <1>2, <1>10
  <2> QED
    BY <1>3, <1>4, <1>9, <2>1, CarveOK
<1>11. CASE k # 0
  <2>1. malloc(h, n) = Taken(g, k, need) /\ k \in 1 .. Len(g.g_free) /\ g.g_free[k].size >= need
    BY <1>2, <1>7, <1>11
  <2>2. Given(Taken(g, k, need), B, need)
    BY <1>3, <1>4, <2>1, TakenOK
  <2> QED
    BY <1>9, <2>1, <2>2
<1> QED
  BY <1>10, <1>11

\* b is neither on the list nor with a program: it is being freed.
Between(S, B, b, next) == Packed((S \cup B) \cup {b}, next) /\ b \notin S \cup B /\ S \cap B = {}

\* It is merged with the block behind it,
LEMMA JoinBehind ==
  ASSUME NEW S, NEW B, NEW b, NEW next \in Nat, Between(S, B, b, next), NEW c \in S, Joins(b, c)
  PROVE  Between(S \ {c}, B, Joined(b, c), next) /\ Joined(b, c).at = b.at
<1> DEFINE T == (S \cup B) \cup {b}
           d == Joined(b, c)
<1>1. Packed(T, next) /\ b \notin S \cup B /\ S \cap B = {} /\ b \in T /\ c \in T
  BY DEF Between
<1> HIDE DEF T
<1>2. Packed((T \ {b, c}) \cup {d}, next) /\ d \notin T
  BY <1>1, Merges
<1>3. d.at = b.at
  BY DEF Joined
<1> HIDE DEF d
<1>4. (T \ {b, c}) \cup {d} = ((S \ {c}) \cup B) \cup {d}
  BY <1>1 DEF T
<1>5. d \notin (S \ {c}) \cup B /\ (S \ {c}) \cap B = {}
  BY <1>1, <1>2 DEF T
<1>6. Between(S \ {c}, B, d, next)
  BY <1>2, <1>4, <1>5 DEF Between
<1> QED
  BY <1>3, <1>6 DEF d

\* and with the one before it.
LEMMA JoinBefore ==
  ASSUME NEW S, NEW B, NEW b, NEW next \in Nat, Between(S, B, b, next), NEW c \in S, Joins(c, b)
  PROVE  Between(S \ {c}, B, Joined(c, b), next)
<1> DEFINE T == (S \cup B) \cup {b}
           d == Joined(c, b)
<1>1. Packed(T, next) /\ b \notin S \cup B /\ S \cap B = {} /\ b \in T /\ c \in T
  BY DEF Between
<1> HIDE DEF T
<1>2. Packed((T \ {c, b}) \cup {d}, next) /\ d \notin T
  BY <1>1, Merges
<1> HIDE DEF d
<1>3. (T \ {c, b}) \cup {d} = ((S \ {c}) \cup B) \cup {d}
  BY <1>1 DEF T
<1>4. d \notin (S \ {c}) \cup B /\ (S \ {c}) \cap B = {}
  BY <1>1, <1>2 DEF T
<1>5. Between(S \ {c}, B, d, next)
  BY <1>2, <1>3, <1>4 DEF Between
<1> QED
  BY <1>5 DEF d

\* The list after free(), if the walk stopped behind place i.
After(F, b, i) ==
  LET pre == SubSeq(F, 1, i)
      post == SubSeq(F, i + 1, Len(F))
      next == post # <<>> /\ Joins(b, Head(post))
      b1 == IF next THEN Joined(b, Head(post)) ELSE b
      post1 == IF next THEN Tail(post) ELSE post
  IN IF pre # <<>> /\ Joins(Last(pre), b) THEN Front(pre) \o <<Joined(Last(pre), b1)>> \o post1
     ELSE pre \o <<b1>> \o post1

\* What is in front of and behind that place.
LEMMA Ends ==
  ASSUME NEW F \in Seq(Block), NEW i \in 0 .. Len(F)
  PROVE  /\ SubSeq(F, 1, i) # <<>> <=> 0 < i
         /\ 0 < i => Last(SubSeq(F, 1, i)) = F[i] /\ Front(SubSeq(F, 1, i)) = SubSeq(F, 1, i - 1)
         /\ SubSeq(F, i + 1, Len(F)) # <<>> <=> i < Len(F)
         /\ i < Len(F) => /\ Head(SubSeq(F, i + 1, Len(F))) = F[i + 1]
                          /\ Tail(SubSeq(F, i + 1, Len(F))) = SubSeq(F, i + 2, Len(F))
<1>1. /\ Len(F) \in Nat /\ i \in Nat /\ i <= Len(F) /\ 1 \in Int /\ i \in Int /\ i + 1 \in Int
      /\ Len(F) \in Int /\ \A k \in 1 .. Len(F) : F[k] \in Block
  OBVIOUS
<1>2. (\A k \in 1 .. i : F[k] \in Block) /\ \A k \in i + 1 .. Len(F) : F[k] \in Block
  BY <1>1
<1> DEFINE p == SubSeq(F, 1, i)
           q == SubSeq(F, i + 1, Len(F))
<1>3. p \in Seq(Block) /\ Len(p) = i /\ \A k \in 1 .. i : p[k] = F[k]
  BY <1>1, <1>2, SubSeqProperties
<1>4. q \in Seq(Block) /\ Len(q) = Len(F) - i
  <2>1. q \in Seq(Block) /\ Len(q) = IF i + 1 <= Len(F) THEN Len(F) - (i + 1) + 1 ELSE 0
    BY <1>1, <1>2, SubSeqProperties
  <2> HIDE DEF q
  <2> QED
    BY <1>1, <2>1
<1>5. p # <<>> <=> 0 < i
  <2> HIDE DEF p
  <2> QED
    BY <1>1, <1>3
<1>6. q # <<>> <=> i < Len(F)
  <2> HIDE DEF q
  <2> QED
    BY <1>1, <1>4
<1>7. ASSUME 0 < i PROVE Last(p) = F[i] /\ Front(p) = SubSeq(F, 1, i - 1)
  <2>1. Last(p) = F[i]
    <3> HIDE DEF p
    <3> QED
      BY <1>1, <1>3, <1>7 DEF Last
  <2>2. \A k \in 1 .. i - 1 : F[k] \in Block /\ p[k] \in Block /\ p[k] = F[k]
    <3>1. \A k \in 1 .. i - 1 : k \in 1 .. i
      BY <1>1
    <3> HIDE DEF p
    <3> QED
      BY <1>2, <1>3, <3>1
  <2> DEFINE s == SubSeq(p, 1, i - 1)
             t == SubSeq(F, 1, i - 1)
  <2>3. i - 1 \in Int /\ i - 1 \in Nat
    BY <1>1, <1>7
  <2>4. s \in Seq(Block) /\ Len(s) = i - 1 /\ \A k \in 1 .. i - 1 : s[k] = p[k]
    <3> HIDE DEF p
    <3>1. /\ s \in Seq(Block) /\ Len(s) = IF 1 <= i - 1 THEN (i - 1) - 1 + 1 ELSE 0
          /\ \A k \in 1 .. (i - 1) - 1 + 1 : s[k] = p[1 + k - 1]
      BY <1>1, <2>2, <2>3, SubSeqProperties
    <3> HIDE DEF s
    <3> QED
      BY <2>3, <3>1
  <2>5. t \in Seq(Block) /\ Len(t) = i - 1 /\ \A k \in 1 .. i - 1 : t[k] = F[k]
    <3>1. /\ t \in Seq(Block) /\ Len(t) = IF 1 <= i - 1 THEN (i - 1) - 1 + 1 ELSE 0
          /\ \A k \in 1 .. (i - 1) - 1 + 1 : t[k] = F[1 + k - 1]
      BY <1>1, <2>2, <2>3, SubSeqProperties
    <3> HIDE DEF t
    <3> QED
      BY <2>3, <3>1
  <2>6. s = t
    <3> HIDE DEF s, t, p
    <3> QED
      BY <2>2, <2>4, <2>5, SeqEqual
  <2>7. Front(p) = s
    BY <1>3 DEF Front
  <2> QED
    BY <2>1, <2>6, <2>7
<1>8. ASSUME i < Len(F) PROVE Head(q) = F[i + 1] /\ Tail(q) = SubSeq(F, i + 2, Len(F))
  <2>1. i + 1 \in 1 .. Len(F) /\ Len(F) \in i + 1 .. Len(F) /\ (i + 1) + 1 = i + 2
    BY <1>1, <1>8
  <2>2. Head(q) = F[i + 1] /\ Tail(q) = SubSeq(F, (i + 1) + 1, Len(F))
    BY <2>1, HeadTailOfSubSeq
  <2> QED
    BY <2>1, <2>2
<1> QED
  BY <1>5, <1>6, <1>7, <1>8

\* R is what F lists but for what is between i and j.
Leaves(F, R, i, j) == \A k \in 1 .. Len(F) : F[k] \in R <=> k <= i \/ j <= k

\* A block in place of those between i and j on the list.
LEMMA SplicedIn ==
  ASSUME NEW F, NEW S, Lists(F, S), NEW i \in 0 .. Len(F), NEW j \in i + 1 .. Len(F) + 1,
         NEW R, R \subseteq S, Leaves(F, R, i, j), NEW B, NEW b, NEW next \in Nat, Between(R, B, b, next)
  PROVE  /\ Lists(Splice(F, i, b, j), R \cup {b})
         /\ Packed((R \cup {b}) \cup B, next) /\ (R \cup {b}) \cap B = {}
<1>1. Packed((R \cup B) \cup {b}, next) /\ b \notin R \cup B /\ R \cap B = {}
  BY DEF Between
<1>2. b \in Block
  BY <1>1 DEF Packed, Inside
<1>3. Lists(Splice(F, i, b, j), R \cup {b})
  BY <1>1, <1>2, Spliced DEF Leaves
<1>4. (R \cup {b}) \cup B = (R \cup B) \cup {b} /\ (R \cup {b}) \cap B = {}
  BY <1>1
<1> QED
  BY <1>1, <1>3, <1>4

\* free() puts the block on the list at place i, merged with whatever it touches there.
LEMMA AfterOK ==
  ASSUME NEW F, NEW S, Lists(F, S), NEW i \in 0 .. Len(F), NEW B, NEW b, NEW next \in Nat,
         Between(S, B, b, next)
  PROVE  \E R : Lists(After(F, b, i), R) /\ Packed(R \cup B, next) /\ R \cap B = {}
<1> DEFINE joins == i < Len(F) /\ Joins(b, F[i + 1])
           joined == 0 < i /\ Joins(F[i], b)
           b1 == IF joins THEN Joined(b, F[i + 1]) ELSE b
           S1 == IF joins THEN S \ {F[i + 1]} ELSE S
           j == IF joins THEN i + 2 ELSE i + 1
           b2 == IF joined THEN Joined(F[i], b1) ELSE b1
           S2 == IF joined THEN S1 \ {F[i]} ELSE S1
           m == IF joined THEN i - 1 ELSE i
<1>1. F \in Seq(Block)
  BY DEF Lists
<1>2. /\ Len(F) \in Nat /\ i \in Nat /\ i <= Len(F)
      /\ \A k \in 1 .. Len(F) : F[k] \in S
      /\ \A k, l \in 1 .. Len(F) : F[k] = F[l] => k = l
  BY ListedAt
<1>3. Between(S1, B, b1, next) /\ b1.at = b.at /\ S1 \subseteq S /\ j \in i + 1 .. Len(F) + 1
      /\ \A k \in 1 .. Len(F) : F[k] \in S1 <=> k <= i \/ j <= k
  <2>1. CASE joins
    <3>1. i + 1 \in 1 .. Len(F) /\ F[i + 1] \in S
      BY <1>2, <2>1
    <3>2. Between(S \ {F[i + 1]}, B, Joined(b, F[i + 1]), next) /\ Joined(b, F[i + 1]).at = b.at
      <4>1. \A c \in S : Joins(b, c) =>
              Between(S \ {c}, B, Joined(b, c), next) /\ Joined(b, c).at = b.at
        BY JoinBehind
      <4>2. F[i + 1] \in S /\ Joins(b, F[i + 1])
        BY <2>1, <3>1
      <4> QED
        BY <4>1, <4>2, Zenon
    <3>3. \A k \in 1 .. Len(F) : F[k] \in S \ {F[i + 1]} <=> k # i + 1
      BY <1>2, <3>1
    <3>4. \A k \in 1 .. Len(F) : k # i + 1 <=> k <= i \/ i + 2 <= k
      BY <1>2
    <3>5. i + 2 \in i + 1 .. Len(F) + 1
      BY <1>2, <3>1
    <3>6. S1 = S \ {F[i + 1]} /\ b1 = Joined(b, F[i + 1]) /\ j = i + 2
      BY <2>1
    <3> HIDE DEF S1, b1, j, joins
    <3> QED
      BY <3>2, <3>3, <3>4, <3>5, <3>6
  <2>2. CASE ~joins
    <3>1. \A k \in 1 .. Len(F) : k <= i \/ i + 1 <= k
      BY <1>2
    <3>2. i + 1 \in i + 1 .. Len(F) + 1
      BY <1>2
    <3>3. S1 = S /\ b1 = b /\ j = i + 1
      BY <2>2
    <3> HIDE DEF S1, b1, j, joins
    <3> QED
      BY <1>2, <3>1, <3>2, <3>3
  <2> QED
    BY <2>1, <2>2
<1>4. After(F, b, i) = Splice(F, m, b2, j)
  <2>1. /\ SubSeq(F, 1, i) # <<>> <=> 0 < i
        /\ 0 < i => Last(SubSeq(F, 1, i)) = F[i] /\ Front(SubSeq(F, 1, i)) = SubSeq(F, 1, i - 1)
        /\ SubSeq(F, i + 1, Len(F)) # <<>> <=> i < Len(F)
        /\ i < Len(F) => /\ Head(SubSeq(F, i + 1, Len(F))) = F[i + 1]
                         /\ Tail(SubSeq(F, i + 1, Len(F))) = SubSeq(F, i + 2, Len(F))
    BY <1>1, Ends
  <2> DEFINE pre == SubSeq(F, 1, i)
             post == SubSeq(F, i + 1, Len(F))
             next1 == post # <<>> /\ Joins(b, Head(post))
             c1 == IF next1 THEN Joined(b, Head(post)) ELSE b
             post1 == IF next1 THEN Tail(post) ELSE post
  <2>2. After(F, b, i) = IF pre # <<>> /\ Joins(Last(pre), b)
                         THEN Front(pre) \o <<Joined(Last(pre), c1)>> \o post1
                         ELSE pre \o <<c1>> \o post1
    BY Zenon DEF After
  <2>3. c1 = b1 /\ post1 = SubSeq(F, j, Len(F))
    <3>1. CASE joins
      <4>1. next1 /\ Head(post) = F[i + 1] /\ Tail(post) = SubSeq(F, i + 2, Len(F))
        BY <2>1, <3>1, Zenon
      <4> QED
        BY <3>1, <4>1, Zenon
    <3>2. CASE ~joins
      <4>1. ~next1
        BY <2>1, <3>2, Zenon
      <4> QED
        BY <3>2, <4>1, Zenon
    <3> QED
      BY <3>1, <3>2
  <2>4. CASE joined
    <3>1. /\ pre # <<>> /\ Last(pre) = F[i] /\ Joins(Last(pre), b) /\ Front(pre) = SubSeq(F, 1, i - 1)
      BY <2>1, <2>4, Zenon
    <3>2. m = i - 1 /\ b2 = Joined(F[i], b1)
      BY <2>4
    <3> HIDE DEF c1, post1, pre, b1, b2, m, j
    <3>3. After(F, b, i) = Front(pre) \o <<Joined(Last(pre), c1)>> \o post1
      BY <2>2, <3>1, Zenon
    <3> QED
      BY <2>3, <3>1, <3>2, <3>3, Zenon DEF Splice
  <2>5. CASE ~joined
    <3>1. ~(pre # <<>> /\ Joins(Last(pre), b))
      BY <2>1, <2>5, Zenon
    <3>2. m = i /\ b2 = b1
      BY <2>5
    <3> HIDE DEF c1, post1, b1, b2, m, j
    <3>3. After(F, b, i) = pre \o <<c1>> \o post1
      BY <2>2, <3>1, Zenon
    <3> QED
      BY <2>3, <3>2, <3>3, Zenon DEF Splice
  <2> QED
    BY <2>4, <2>5
<1> HIDE DEF b1, S1, j
<1>5. /\ Between(S2, B, b2, next) /\ S2 \subseteq S /\ m \in 0 .. Len(F) /\ j \in m + 1 .. Len(F) + 1
      /\ \A k \in 1 .. Len(F) : F[k] \in S2 <=> k <= m \/ j <= k
  <2>1. CASE joined
    <3>1. i \in 1 .. Len(F)
      BY <1>2, <2>1
    <3>2. F[i] \in S1
      BY <1>2, <1>3, <3>1
    <3>3. Joins(F[i], b1)
      BY <1>3, <2>1 DEF Joins
    <3>4. Between(S1 \ {F[i]}, B, Joined(F[i], b1), next)
      BY <1>3, <3>2, <3>3, JoinBefore
    <3>5. \A k \in 1 .. Len(F) : F[k] \in S1 \ {F[i]} <=> F[k] \in S1 /\ k # i
      BY <1>2, <3>1
    <3>6. j \in Nat /\ i + 1 <= j
      BY <1>2, <1>3
    <3>7. \A k \in 1 .. Len(F) : (k <= i \/ j <= k) /\ k # i <=> k <= i - 1 \/ j <= k
      BY <1>2, <3>6
    <3>8. i - 1 \in 0 .. Len(F) /\ j \in (i - 1) + 1 .. Len(F) + 1
      BY <1>2, <1>3, <3>1, <3>6
    <3>9. S2 = S1 \ {F[i]} /\ b2 = Joined(F[i], b1) /\ m = i - 1
      BY <2>1
    <3> HIDE DEF S2, b2, m, joined
    <3>10. \A k \in 1 .. Len(F) : F[k] \in S2 <=> k <= m \/ j <= k
      BY <1>3, <3>5, <3>7, <3>9
    <3> QED
      BY <1>3, <3>4, <3>8, <3>9, <3>10
  <2>2. CASE ~joined
    <3>1. S2 = S1 /\ b2 = b1 /\ m = i
      BY <2>2
    <3> HIDE DEF S2, b2, m, joined
    <3> QED
      BY <1>3, <3>1
  <2> QED
    BY <2>1, <2>2
<1> HIDE DEF b2, S2, m
<1>6. Leaves(F, S2, m, j)
  BY <1>5 DEF Leaves
<1>7. /\ Lists(Splice(F, m, b2, j), S2 \cup {b2})
      /\ Packed((S2 \cup {b2}) \cup B, next) /\ (S2 \cup {b2}) \cap B = {}
  BY <1>5, <1>6, SplicedIn
<1> QED
  BY <1>4, <1>7

\* free() moves a block from a program to the list.
LEMMA FreeOK ==
  ASSUME NEW h, NEW B, Sound(h, B), NEW b \in B
  PROVE  Sound(free(h, b), B \ {b})
<1> DEFINE S == Range(h.g_free)
           F == h.g_free
           k == Behind(F, b.at)
           i == IF k = 0 THEN Len(F) ELSE k - 1
<1>1. /\ h.g_next \in Nat /\ h.g_end \in Nat /\ h.brk \in Nat /\ OnGrid(h.g_next) /\ OnGrid(h.brk)
      /\ Lists(F, S) /\ Packed(S \cup B, h.g_next) /\ S \cap B = {}
      /\ (\A c \in B : kMinBlock <= c.size) /\ kArenaVA <= h.brk /\ h.brk <= kArenaVA + kArenaBytes
      /\ \/ h.g_next = Null /\ h.g_end = Null /\ h.brk = kArenaVA
         \/ kArenaVA < h.g_next /\ h.g_next <= h.g_end /\ h.g_end = h.brk
  BY SoundIs
<1>2. b \in Block
  BY <1>1 DEF Packed, Inside
<1>3. ~(b.size < kMinBlock)
  <2>1. b.size \in Nat /\ kMinBlock \in Nat /\ kMinBlock <= b.size
    BY <1>1, <1>2, BlockIs, Constants
  <2> QED
    BY <2>1
<1>4. free(h, b) = [h EXCEPT !.g_free = After(F, b, i)]
  BY <1>3 DEF free, After, Behind
<1>5. Len(F) \in Nat
  BY <1>1 DEF Lists
<1>6. k = 0 \/ k \in 1 .. Len(F)
  BY <1>5, Walks
<1>7. i \in 0 .. Len(F)
  <2> HIDE DEF k
  <2> QED
    BY <1>5, <1>6
<1> HIDE DEF S, i, F, k
<1>8. Between(S, B \ {b}, b, h.g_next)
  <2>1. (S \cup (B \ {b})) \cup {b} = S \cup B /\ b \notin S \cup (B \ {b}) /\ S \cap (B \ {b}) = {}
    BY <1>1
  <2> QED
    BY <1>1, <2>1 DEF Between
<1>9. PICK R : Lists(After(F, b, i), R) /\ Packed(R \cup (B \ {b}), h.g_next) /\ R \cap (B \ {b}) = {}
  BY <1>1, <1>7, <1>8, AfterOK
<1> DEFINE G == After(F, b, i)
<1>10. h = HeapOf(h.g_next, h.g_end, F, h.brk)
  BY HeapIs DEF F
<1> HIDE DEF G
<1>11. free(h, b) = HeapOf(h.g_next, h.g_end, G, h.brk)
  <2>1. free(h, b) = [h EXCEPT !.g_free = G]
    BY <1>4 DEF G
  <2> QED
    BY <1>10, <2>1 DEF HeapOf
<1>12. Lists(G, R)
  BY <1>9 DEF G
<1>13. \A c \in B \ {b} : kMinBlock <= c.size
  BY <1>1
<1>14. Sound(HeapOf(h.g_next, h.g_end, G, h.brk), B \ {b})
  BY <1>1, <1>9, <1>12, <1>13, SoundFrom
<1> QED
  BY <1>11, <1>14

\* The last block grows or shrinks where it is.
LEMMA InPlaceOK ==
  ASSUME NEW h, NEW B, Sound(h, B), NEW b \in B, NEW n \in Nat, OnGrid(n), kMinBlock <= n,
         b.at + b.size = h.g_next, b.at + n <= h.g_end
  PROVE  /\ b.at \in Nat /\ At(b.at, n) \notin B \ {b}
         /\ Sound([h EXCEPT !.g_next = b.at + n], (B \ {b}) \cup {At(b.at, n)})
<1> DEFINE S == Range(h.g_free)
           c == At(b.at, n)
           C == (B \ {b}) \cup {c}
<1>1. /\ h.g_next \in Nat /\ h.g_end \in Nat /\ h.brk \in Nat /\ OnGrid(h.g_next) /\ OnGrid(h.brk)
      /\ Lists(h.g_free, S) /\ Packed(S \cup B, h.g_next) /\ S \cap B = {}
      /\ (\A e \in B : kMinBlock <= e.size) /\ kArenaVA <= h.brk /\ h.brk <= kArenaVA + kArenaBytes
      /\ \/ h.g_next = Null /\ h.g_end = Null /\ h.brk = kArenaVA
         \/ kArenaVA < h.g_next /\ h.g_next <= h.g_end /\ h.g_end = h.brk
  BY SoundIs
<1>2. kMinBlock \in Nat \ {0} /\ kArenaVA \in Nat \ {0}
  BY Constants
<1> HIDE DEF S
<1>3. b \in Block /\ OnGrid(b.at) /\ b.size > 0 /\ kArenaVA <= b.at
  BY <1>1 DEF Packed, Inside
<1>4. b.at \in Nat /\ b.size \in Nat
  BY <1>3, BlockIs
<1>5. n \in Nat \ {0} /\ b.at + n \in Nat /\ kArenaVA < b.at + n /\ h.g_end = h.brk
  BY <1>1, <1>2, <1>3, <1>4 DEF Null
<1>6. c.size = n
  BY <1>4, AtIs
<1>7. Packed(((S \cup B) \ {b}) \cup {c}, b.at + n) /\ c \notin (S \cup B) \ {b}
  BY <1>1, <1>5, Resizes
<1>8. OnGrid(b.at + n)
  BY <1>3, <1>4, GridSum
<1> HIDE DEF c
<1>9. S \cup C = ((S \cup B) \ {b}) \cup {c} /\ S \cap C = {} /\ c \notin B \ {b}
  BY <1>1, <1>7
<1>10. \A e \in C : kMinBlock <= e.size
  BY <1>1, <1>6
<1>11. Packed(S \cup C, b.at + n)
  BY <1>7, <1>9
<1> DEFINE g == HeapOf(b.at + n, h.g_end, h.g_free, h.brk)
<1> HIDE DEF C
<1>12. Sound(g, C)
  BY <1>1, <1>5, <1>8, <1>9, <1>10, <1>11, SoundFrom
<1>13. h = HeapOf(h.g_next, h.g_end, h.g_free, h.brk)
  BY HeapIs
<1>14. [h EXCEPT !.g_next = b.at + n] = g
  <2>1. \A y : [HeapOf(h.g_next, h.g_end, h.g_free, h.brk) EXCEPT !.g_next = y]
                 = HeapOf(y, h.g_end, h.g_free, h.brk)
    BY DEF HeapOf
  <2> QED
    BY <1>13, <2>1, Zenon
<1>15. Sound([h EXCEPT !.g_next = b.at + n], C)
  BY <1>12, <1>14, Zenon
<1> QED
  BY <1>4, <1>9, <1>15 DEF C, c

\* What realloc() returns for b: b where it was, another block, or null.
Grew(r, B, b, n) ==
  /\ r.ptr = Payload(b.at) /\ r.size \in Nat /\ n <= r.size /\ b.at \in Nat
  /\ At(b.at, r.size) \notin B \ {b}
  /\ Sound(r.heap, (B \ {b}) \cup {At(b.at, r.size)})
Went(r, B, b, n) ==
  \E s : /\ Given(s, B, n) /\ r.ptr = s.ptr /\ r.size = s.size
         /\ Sound(r.heap, (B \ {b}) \cup {At(r.ptr - kAlign, r.size)})

\* And nothing else.
LEMMA ReallocOK ==
  ASSUME NEW h, NEW B, Sound(h, B), NEW b \in B, NEW n \in Nat \ {0}, Fits(n), Fits(1)
  PROVE  \/ realloc(h, b, n).ptr = Null /\ Sound(realloc(h, b, n).heap, B)
         \/ Grew(realloc(h, b, n), B, b, n + kAlign)
         \/ Went(realloc(h, b, n), B, b, n + kAlign)
<1> DEFINE want == Need(n)
           s == malloc(h, n)
           r == realloc(h, b, n)
<1>1. n \in Nat /\ n > 0
  OBVIOUS
<1>2. want \in Nat /\ OnGrid(want) /\ n + kAlign <= want /\ kMinBlock <= want
  BY <1>1, NeedFits
<1>3. (s.ptr = Null /\ Sound(s.heap, B)) \/ Given(s, B, n + kAlign)
  BY <1>1, MallocOK
<1>4. CASE b.at + b.size = h.g_next /\ b.at + want <= h.g_end
  <2>1. r = Result(Payload(b.at), want, [h EXCEPT !.g_next = b.at + want])
    BY <1>4 DEF realloc
  <2> HIDE DEF want, r
  <2>2. r.ptr = Payload(b.at) /\ r.size = want /\ r.heap = [h EXCEPT !.g_next = b.at + want]
    BY <2>1 DEF Result
  <2>3. /\ b.at \in Nat /\ At(b.at, want) \notin B \ {b}
        /\ Sound([h EXCEPT !.g_next = b.at + want], (B \ {b}) \cup {At(b.at, want)})
    BY <1>2, <1>4, InPlaceOK
  <2>4. Sound(r.heap, (B \ {b}) \cup {At(b.at, r.size)})
    BY <2>2, <2>3, Zenon
  <2>5. Grew(r, B, b, n + kAlign)
    BY <1>2, <2>2, <2>3, <2>4 DEF Grew
  <2> QED
    BY <2>5 DEF r
<1>5. CASE ~(b.at + b.size = h.g_next /\ b.at + want <= h.g_end)
  <2>1. r = IF s.ptr = Null THEN s ELSE [s EXCEPT !.heap = free(s.heap, b)]
    BY <1>5 DEF realloc
  <2>2. malloc(h, n) = Result(s.ptr, s.size, s.heap)
    BY DEF malloc, Result, carve, Taken
  <2> HIDE DEF s, r
  <2>3. CASE s.ptr = Null
    <3>1. r = s
      BY <2>1, <2>3
    <3>2. ~Given(s, B, n + kAlign)
      BY <2>3 DEF Given
    <3> QED
      BY <1>3, <2>3, <3>1, <3>2 DEF r
  <2>4. CASE s.ptr # Null
    <3>1. Given(s, B, n + kAlign)
      BY <1>3, <2>4
    <3> DEFINE c == At(s.ptr - kAlign, s.size)
    <3>2. Sound(s.heap, B \cup {c}) /\ c \notin B
      BY <3>1 DEF Given
    <3>3. Sound(free(s.heap, b), (B \cup {c}) \ {b})
      BY <3>2, FreeOK
    <3>4. s = Result(s.ptr, s.size, s.heap)
      BY <2>2 DEF s
    <3>5. r = [s EXCEPT !.heap = free(s.heap, b)]
      BY <2>1, <2>4
    <3>6. r.ptr = s.ptr /\ r.size = s.size /\ r.heap = free(s.heap, b)
      BY <3>4, <3>5 DEF Result
    <3>7. (B \cup {c}) \ {b} = (B \ {b}) \cup {c}
      <4> HIDE DEF c
      <4> QED
        BY <3>2
    <3>8. Sound(r.heap, (B \ {b}) \cup {At(r.ptr - kAlign, r.size)})
      BY <3>3, <3>6, <3>7
    <3>9. Went(r, B, b, n + kAlign)
      BY <3>1, <3>6, <3>8 DEF Went
    <3> QED
      BY <3>9 DEF r
  <2> QED
    BY <2>3, <2>4
<1> QED
  BY <1>4, <1>5

-----------------------------------------------------------------------------
(* Programs                                                                *)

\* The block behind a pointer that a program holds.
LEMMA HeldIs ==
  ASSUME HeapInv, NEW p \in DOMAIN held
  PROVE  /\ p \in Nat /\ kAlign <= p /\ p - kAlign \in Nat /\ blk[p] \in Nat
         /\ held[p].align = kAlign /\ held[p].bytes \in Nat /\ held[p].bytes + kAlign <= blk[p]
         /\ BlockOf(p) = At(p - kAlign, blk[p]) /\ BlockOf(p) \in Blocks
         /\ BlockOf(p).at = p - kAlign /\ BlockOf(p).size = blk[p]
<1>1. /\ p \in Nat /\ kAlign <= p /\ blk[p] \in Nat
      /\ held[p].align = kAlign /\ held[p].bytes \in Nat /\ held[p].bytes + kAlign <= blk[p]
  BY DEF HeapInv
<1>2. kAlign \in Nat
  BY Constants
<1>3. p - kAlign \in Nat
  BY <1>1, <1>2
<1>4. BlockOf(p) = At(p - kAlign, blk[p]) /\ BlockOf(p) \in Blocks
  BY DEF BlockOf, At, Blocks
<1>5. BlockOf(p).at = p - kAlign /\ BlockOf(p).size = blk[p]
  BY DEF BlockOf
<1> QED
  BY <1>1, <1>3, <1>4, <1>5

\* Different pointers have different blocks.
LEMMA HeldApart ==
  ASSUME HeapInv, NEW p \in DOMAIN held, NEW q \in DOMAIN held, p # q
  PROVE  BlockOf(p) # BlockOf(q)
<1>1. p \in Nat /\ q \in Nat /\ BlockOf(p).at = p - kAlign /\ BlockOf(q).at = q - kAlign
  BY HeldIs
<1>2. kAlign \in Nat
  BY Constants
<1> QED
  BY <1>1, <1>2

\* What a pointer to a block promises: it is aligned, in the arena, and clear of others.
LEMMA Promised ==
  ASSUME NEW h, NEW B, Sound(h, B), NEW p \in Nat, kAlign <= p, NEW m \in Nat, NEW n \in Nat,
         n + kAlign <= m, At(p - kAlign, m) \in B
  PROVE  /\ A!Multiple(p, kAlign) /\ kArenaVA <= p /\ p + n <= kArenaVA + kArenaBytes
         /\ \A q, k, l \in Nat :
              kAlign <= q /\ l + kAlign <= k /\ At(q - kAlign, k) \in B
                /\ At(q - kAlign, k) # At(p - kAlign, m) => q # p /\ A!Apart(p, n, q, l)
<1> DEFINE b == At(p - kAlign, m)
<1>1. kAlign \in Nat \ {0} /\ kArenaVA \in Nat \ {0} /\ kArenaBytes \in Nat
  BY Constants
<1>2. p - kAlign \in Nat
  BY <1>1
<1>3. b \in Block /\ b.at = p - kAlign /\ b.size = m
  BY <1>2, AtIs
<1>4. /\ Packed(Range(h.g_free) \cup B, h.g_next)
      /\ h.g_next \in Nat /\ h.brk \in Nat /\ h.brk <= kArenaVA + kArenaBytes
      /\ \/ h.g_next = Null /\ h.g_end = Null /\ h.brk = kArenaVA
         \/ kArenaVA < h.g_next /\ h.g_next <= h.g_end /\ h.g_end = h.brk
  BY SoundIs
<1> HIDE DEF b
<1>5. b \in B
  BY DEF b
<1>6. OnGrid(b.at) /\ kArenaVA <= b.at /\ b.at + b.size <= h.g_next
  BY <1>4, <1>5 DEF Packed, Inside
<1>7. h.g_next <= kArenaVA + kArenaBytes /\ kArenaVA <= p /\ p + n <= kArenaVA + kArenaBytes
  BY <1>1, <1>2, <1>3, <1>4, <1>6 DEF Null
<1>8. A!Multiple(p, kAlign)
  <2>1. OnGrid(kAlign)
    BY PageGrid
  <2>2. OnGrid((p - kAlign) + kAlign) /\ (p - kAlign) + kAlign = p
    BY <1>1, <1>2, <1>3, <1>6, <2>1, GridSum
  <2>3. OnGrid(p)
    BY <2>2
  <2> QED
    BY <2>3 DEF OnGrid, A!Multiple
<1>9. ASSUME NEW q \in Nat, NEW k \in Nat, NEW l \in Nat, kAlign <= q, l + kAlign <= k,
             At(q - kAlign, k) \in B, At(q - kAlign, k) # b
      PROVE  q # p /\ A!Apart(p, n, q, l)
  <2> DEFINE c == At(q - kAlign, k)
  <2>1. q - kAlign \in Nat
    BY <1>1, <1>9
  <2>2. c.at = q - kAlign /\ c.size = k
    BY <2>1, AtIs
  <2> HIDE DEF c
  <2>3. c \in B /\ c # b
    BY <1>9 DEF c
  <2>4. Clear(b, c)
    BY <1>4, <1>5, <2>3 DEF Packed
  <2> QED
    BY <1>1, <1>2, <1>3, <1>9, <2>1, <2>2, <2>4 DEF Clear, A!Apart
<1> QED
  BY <1>7, <1>8, <1>9 DEF b

\* The pointers and blocks after a call that returned one.
LEMMA ReturnOK ==
  ASSUME HeapInv, NEW r, NEW gone, NEW bytes \in Nat, Return(r, gone, bytes),
         r.ptr \in Nat, r.ptr # Null, kAlign <= r.ptr, r.size \in Nat, bytes + kAlign <= r.size,
         NEW C, C = {BlockOf(p) : p \in DOMAIN held \ gone},
         At(r.ptr - kAlign, r.size) \notin C, Sound(r.heap, C \cup {At(r.ptr - kAlign, r.size)})
  PROVE  /\ HeapInv'
         /\ r.ptr \notin DOMAIN held \ gone
         /\ DOMAIN held' = (DOMAIN held \ gone) \cup {r.ptr}
         /\ held'[r.ptr].bytes = bytes /\ held'[r.ptr].align = kAlign
         /\ \A p \in DOMAIN held \ gone : held'[p] = held[p]
<1> DEFINE kept == DOMAIN held \ gone
           now == kept \cup {r.ptr}
           b == At(r.ptr - kAlign, r.size)
<1>1. /\ heap' = r.heap
      /\ blk' = [p \in now |-> IF p = r.ptr THEN r.size ELSE blk[p]]
      /\ held' = [p \in now |-> IF p = r.ptr THEN [bytes |-> bytes, align |-> kAlign] ELSE held[p]]
  BY DEF Return
<1>2. \A p \in kept : /\ p \in Nat /\ kAlign <= p /\ p - kAlign \in Nat /\ blk[p] \in Nat
                      /\ held[p].align = kAlign /\ held[p].bytes \in Nat /\ held[p].bytes + kAlign <= blk[p]
                      /\ BlockOf(p) = At(p - kAlign, blk[p]) /\ BlockOf(p) \in C
  BY HeldIs
<1>3. r.ptr \notin kept
  <2> SUFFICES ASSUME r.ptr \in kept PROVE FALSE
    OBVIOUS
  <2>1. At(r.ptr - kAlign, blk[r.ptr]) \in C \cup {b} /\ At(r.ptr - kAlign, blk[r.ptr]) # b /\ b \in C \cup {b}
    BY <1>2
  <2>2. \E n \in Nat : bytes = n
    OBVIOUS
  <2>3. held[r.ptr].bytes \in Nat /\ blk[r.ptr] \in Nat /\ held[r.ptr].bytes + kAlign <= blk[r.ptr]
    BY <1>2
  <2> HIDE DEF b
  <2>4. r.ptr # r.ptr
    BY <2>1, <2>3, Promised DEF b
  <2> QED
    BY <2>4
<1>4. /\ DOMAIN held' = now /\ DOMAIN blk' = now
      /\ held'[r.ptr].bytes = bytes /\ held'[r.ptr].align = kAlign /\ blk'[r.ptr] = r.size
      /\ \A p \in kept : held'[p] = held[p] /\ blk'[p] = blk[p]
  BY <1>1, <1>3
<1> HIDE DEF b
<1>5. Blocks' = C \cup {b}
  <2>1. Blocks' = {At(p - kAlign, blk'[p]) : p \in now}
    BY <1>4 DEF Blocks, BlockOf, At
  <2>2. {At(p - kAlign, blk'[p]) : p \in now} = {At(p - kAlign, blk[p]) : p \in kept} \cup {b}
    BY <1>4 DEF b
  <2>3. C = {At(p - kAlign, blk[p]) : p \in kept}
    BY <1>2
  <2> QED
    BY <2>1, <2>2, <2>3
<1>6. Sound(heap', Blocks')
  BY <1>1, <1>5 DEF b
<1>7. \A p \in DOMAIN held' :
        /\ p \in Nat /\ kAlign <= p /\ blk'[p] \in Nat
        /\ held'[p].align = kAlign /\ held'[p].bytes \in Nat /\ held'[p].bytes + kAlign <= blk'[p]
  BY <1>2, <1>4
<1>8. HeapInv'
  BY <1>4, <1>6, <1>7 DEF HeapInv
<1> QED
  BY <1>3, <1>4, <1>8

\* A call that returned null.
LEMMA RefusedOK ==
  ASSUME HeapInv, NEW r, NEW gone, NEW bytes, Return(r, gone, bytes), r.ptr = Null, Sound(r.heap, Blocks)
  PROVE  HeapInv' /\ held' = held
<1>1. heap' = r.heap /\ blk' = blk /\ held' = held
  BY DEF Return
<1>2. Blocks' = Blocks
  BY <1>1 DEF Blocks, BlockOf
<1>3. Sound(heap', Blocks')
  BY <1>1, <1>2
<1> QED
  BY <1>1, <1>3 DEF HeapInv

\* A pointer to a block that nobody had may be handed out.
LEMMA Grants ==
  ASSUME HeapInv, NEW r, NEW n \in Nat, Given(r, Blocks, n + kAlign)
  PROVE  A!Grantable(held, r.ptr, n) /\ A!Multiple(r.ptr, kAlign)
<1> DEFINE b == At(r.ptr - kAlign, r.size)
<1>1. /\ r.ptr \in Nat /\ kAlign <= r.ptr /\ r.size \in Nat /\ n + kAlign <= r.size
      /\ b \notin Blocks /\ Sound(r.heap, Blocks \cup {b}) /\ b \in Blocks \cup {b}
  BY DEF Given
<1>2. /\ A!Multiple(r.ptr, kAlign) /\ kArenaVA <= r.ptr /\ r.ptr + n <= kArenaVA + kArenaBytes
      /\ \A q, k, l \in Nat :
           kAlign <= q /\ l + kAlign <= k /\ At(q - kAlign, k) \in Blocks \cup {b}
             /\ At(q - kAlign, k) # b => q # r.ptr /\ A!Apart(r.ptr, n, q, l)
  BY <1>1, Promised
<1>3. ASSUME NEW q \in DOMAIN held PROVE q # r.ptr /\ A!Apart(r.ptr, n, q, held[q].bytes)
  <2>1. /\ q \in Nat /\ blk[q] \in Nat /\ held[q].bytes \in Nat /\ kAlign <= q
        /\ held[q].bytes + kAlign <= blk[q] /\ At(q - kAlign, blk[q]) \in Blocks
    BY HeldIs
  <2> HIDE DEF b
  <2> QED
    BY <1>1, <1>2, <2>1
<1> QED
  BY <1>2, <1>3 DEF A!Grantable

\* malloc() and calloc() are Alloc.
LEMMA AllocStep ==
  ASSUME HeapInv, NEW r, NEW n \in Nat, Return(r, {}, n), Given(r, Blocks, n + kAlign)
  PROVE  HeapInv' /\ A!Alloc
<1>1. A!Grantable(held, r.ptr, n) /\ A!Multiple(r.ptr, kAlign)
  BY Grants
<1>2. /\ r.ptr \in Nat /\ r.ptr # Null /\ kAlign <= r.ptr /\ r.size \in Nat /\ n + kAlign <= r.size
      /\ At(r.ptr - kAlign, r.size) \notin Blocks /\ Sound(r.heap, Blocks \cup {At(r.ptr - kAlign, r.size)})
  BY DEF Given
<1>3. Blocks = {BlockOf(p) : p \in DOMAIN held \ {}}
  BY DEF Blocks
<1>4. /\ HeapInv'
      /\ r.ptr \notin DOMAIN held
      /\ DOMAIN held' = DOMAIN held \cup {r.ptr}
      /\ held'[r.ptr].bytes = n /\ held'[r.ptr].align = kAlign
      /\ \A p \in DOMAIN held : held'[p] = held[p]
  <2>1. /\ HeapInv'
        /\ r.ptr \notin DOMAIN held \ {}
        /\ DOMAIN held' = (DOMAIN held \ {}) \cup {r.ptr}
        /\ held'[r.ptr].bytes = n /\ held'[r.ptr].align = kAlign
        /\ \A p \in DOMAIN held \ {} : held'[p] = held[p]
    BY <1>2, <1>3, ReturnOK
  <2> QED
    BY <2>1
<1>5. A!Swap({}, r.ptr)
  BY <1>1, <1>4 DEF A!Swap
<1> QED
  BY <1>1, <1>4, <1>5 DEF A!Alloc

\* A call of malloc().
LEMMA MallocStep ==
  ASSUME HeapInv, Modest, Malloc
  PROVE  HeapInv' /\ (A!Next \/ held' = held)
<1>1. PICK n \in Sizes : Return(malloc(heap, n), {}, n)
  BY DEF Malloc
<1>2. n \in Nat /\ Fits(n) /\ Fits(1) /\ Sound(heap, Blocks)
  BY UserHeapAssumption DEF Modest, HeapInv
<1> DEFINE r == malloc(heap, n)
<1>3. (r.ptr = Null /\ Sound(r.heap, Blocks)) \/ Given(r, Blocks, n + kAlign)
  BY <1>2, MallocOK
<1> HIDE DEF r
<1>4. CASE r.ptr = Null /\ Sound(r.heap, Blocks)
  BY <1>1, <1>4, RefusedOK DEF r
<1>5. CASE Given(r, Blocks, n + kAlign)
  <2>1. HeapInv' /\ A!Alloc
    BY <1>1, <1>2, <1>5, AllocStep DEF r
  <2> QED
    BY <2>1 DEF A!Next
<1> QED
  BY <1>3, <1>4, <1>5

\* A call of calloc(): a product that does not fit in a word is refused.
LEMMA CallocStep ==
  ASSUME HeapInv, Modest, Calloc
  PROVE  HeapInv' /\ (A!Next \/ held' = held)
<1>1. PICK n \in Sizes, size \in Sizes : Return(calloc(heap, n, size), {}, n * size)
  BY DEF Calloc
<1>2. n \in Nat /\ size \in Nat /\ Fits(1) /\ Sound(heap, Blocks)
  BY UserHeapAssumption DEF Modest, HeapInv
<1>3. Word \in Nat \ {0}
  BY Constants
<1> DEFINE r == calloc(heap, n, size)
           m == n * size
<1>4. m \in Nat
  BY <1>2
<1>5. CASE n # 0 /\ size > (Word - 1) \div n
  <2>1. r = Result(Null, 0, heap)
    BY <1>5 DEF calloc
  <2>2. r.ptr = Null /\ r.heap = heap
    BY <2>1 DEF Result
  <2> HIDE DEF r
  <2>3. Sound(r.heap, Blocks)
    BY <1>2, <2>2
  <2> QED
    BY <1>1, <2>2, <2>3, RefusedOK DEF r
<1>6. CASE ~(n # 0 /\ size > (Word - 1) \div n)
  <2>1. m < Word
    <3>1. CASE n = 0
      BY <1>2, <1>3, <3>1
    <3>2. CASE n # 0
      <4>1. PICK q \in Nat : q = (Word - 1) \div n
        BY <1>2, <1>3, <3>2
      <4>2. q * n <= Word - 1
        BY <1>2, <1>3, <3>2, <4>1
      <4>3. size <= q
        BY <1>2, <1>6, <3>2, <4>1
      <4>4. n * size <= q * n
        <5>1. PICK d \in Nat : q = size + d
          <6>1. q - size \in Nat /\ q = size + (q - size)
            BY <1>2, <4>1, <4>3
          <6> QED
            BY <6>1
        <5>2. q * n = n * size + d * n /\ d * n >= 0
          BY <1>2, <5>1
        <5> QED
          BY <1>2, <1>4, <5>2
      <4> QED
        BY <1>2, <1>3, <1>4, <4>1, <4>2, <4>4
    <3> QED
      BY <3>1, <3>2
  <2>2. Fits(m)
    BY <2>1 DEF Modest
  <2>3. m % Word = m
    BY <1>3, <1>4, <2>1
  <2>4. r = malloc(heap, m)
    BY <1>6, <2>3 DEF calloc
  <2> HIDE DEF m, r
  <2>5. (r.ptr = Null /\ Sound(r.heap, Blocks)) \/ Given(r, Blocks, m + kAlign)
    BY <1>2, <1>4, <2>2, <2>4, MallocOK
  <2>6. Return(r, {}, m)
    BY <1>1 DEF r, m
  <2>7. CASE r.ptr = Null /\ Sound(r.heap, Blocks)
    BY <2>6, <2>7, RefusedOK
  <2>8. CASE Given(r, Blocks, m + kAlign)
    <3>1. HeapInv' /\ A!Alloc
      BY <1>4, <2>6, <2>8, AllocStep
    <3> QED
      BY <3>1 DEF A!Next
  <2> QED
    BY <2>5, <2>7, <2>8
<1> QED
  BY <1>5, <1>6

\* A call of free().
LEMMA FreeStep ==
  ASSUME HeapInv, Free
  PROVE  HeapInv' /\ A!Next
<1>1. PICK p \in DOMAIN held :
        /\ heap' = free(heap, BlockOf(p))
        /\ blk' = [q \in DOMAIN held \ {p} |-> blk[q]]
        /\ held' = [q \in DOMAIN held \ {p} |-> held[q]]
  BY DEF Free
<1>2. Sound(heap, Blocks) /\ BlockOf(p) \in Blocks
  BY HeldIs DEF HeapInv
<1>3. Sound(heap', Blocks \ {BlockOf(p)})
  BY <1>1, <1>2, FreeOK
<1>4. /\ DOMAIN held' = DOMAIN held \ {p} /\ DOMAIN blk' = DOMAIN held \ {p}
      /\ \A q \in DOMAIN held \ {p} : held'[q] = held[q] /\ blk'[q] = blk[q]
  BY <1>1
<1>5. Blocks' = Blocks \ {BlockOf(p)}
  <2>1. Blocks' = {[at |-> q - kAlign, size |-> blk'[q]] : q \in DOMAIN held \ {p}}
    BY <1>4 DEF Blocks, BlockOf
  <2>2. Blocks' = {BlockOf(q) : q \in DOMAIN held \ {p}}
    BY <1>4, <2>1 DEF BlockOf
  <2>3. \A q \in DOMAIN held \ {p} : BlockOf(q) # BlockOf(p)
    BY HeldApart
  <2> QED
    BY <2>2, <2>3 DEF Blocks
<1>6. Sound(heap', Blocks')
  BY <1>3, <1>5
<1>7. \A q \in DOMAIN held' :
        /\ q \in Nat /\ kAlign <= q /\ blk'[q] \in Nat
        /\ held'[q].align = kAlign /\ held'[q].bytes \in Nat /\ held'[q].bytes + kAlign <= blk'[q]
  BY <1>4 DEF HeapInv
<1>8. HeapInv'
  BY <1>4, <1>6, <1>7 DEF HeapInv
<1>9. A!Free
  BY <1>1 DEF A!Free
<1> QED
  BY <1>8, <1>9 DEF A!Next

\* A call of realloc(): the block stays or moves.
LEMMA ReallocStep ==
  ASSUME HeapInv, Modest, Realloc
  PROVE  HeapInv' /\ (A!Next \/ held' = held)
<1>1. PICK p \in DOMAIN held, n \in Sizes \ {0} : Return(realloc(heap, BlockOf(p), n), {p}, n)
  BY DEF Realloc
<1>2. n \in Nat \ {0} /\ n \in Nat /\ Fits(n) /\ Fits(1) /\ Sound(heap, Blocks)
  BY UserHeapAssumption DEF Modest, HeapInv
<1> DEFINE b == BlockOf(p)
           r == realloc(heap, b, n)
           C == Blocks \ {b}
           rest == [q \in DOMAIN held \ {p} |-> held[q]]
<1>3. b \in Blocks /\ b.at = p - kAlign /\ p \in Nat /\ p - kAlign \in Nat /\ kAlign <= p /\ kAlign \in Nat
  BY HeldIs, Constants
<1>4. C = {BlockOf(q) : q \in DOMAIN held \ {p}}
  <2>1. \A q \in DOMAIN held \ {p} : BlockOf(q) # BlockOf(p)
    BY HeldApart
  <2> QED
    BY <2>1 DEF Blocks
<1>5. \A q \in DOMAIN held \ {p} :
        /\ q \in Nat /\ blk[q] \in Nat /\ held[q].bytes \in Nat /\ kAlign <= q
        /\ held[q].bytes + kAlign <= blk[q] /\ At(q - kAlign, blk[q]) \in C
  <2> SUFFICES ASSUME NEW q \in DOMAIN held \ {p}
               PROVE  /\ q \in Nat /\ blk[q] \in Nat /\ held[q].bytes \in Nat /\ kAlign <= q
                      /\ held[q].bytes + kAlign <= blk[q] /\ At(q - kAlign, blk[q]) \in C
    OBVIOUS
  <2>1. BlockOf(q) \in C
    BY <1>4
  <2> HIDE DEF C
  <2> QED
    BY <2>1, HeldIs
<1> HIDE DEF b, C
<1>6. \/ r.ptr = Null /\ Sound(r.heap, Blocks)
      \/ Grew(r, Blocks, b, n + kAlign)
      \/ Went(r, Blocks, b, n + kAlign)
  BY <1>2, <1>3, ReallocOK
<1>7. Return(r, {p}, n)
  BY <1>1 DEF b
<1> HIDE DEF r
<1>8. CASE r.ptr = Null /\ Sound(r.heap, Blocks)
  BY <1>7, <1>8, RefusedOK
<1>9. CASE Grew(r, Blocks, b, n + kAlign)
  <2>1. /\ r.ptr = p /\ r.size \in Nat /\ n + kAlign <= r.size /\ r.ptr - kAlign = b.at
        /\ At(b.at, r.size) \notin C /\ Sound(r.heap, C \cup {At(b.at, r.size)})
    BY <1>3, <1>9 DEF Grew, Payload, C
  <2>2. r.ptr # Null
    BY <1>3, <2>1, Constants DEF Null
  <2>3. /\ HeapInv'
        /\ r.ptr \notin DOMAIN held \ {p}
        /\ DOMAIN held' = (DOMAIN held \ {p}) \cup {r.ptr}
        /\ held'[r.ptr].bytes = n /\ held'[r.ptr].align = kAlign
        /\ \A q \in DOMAIN held \ {p} : held'[q] = held[q]
    <3>1. At(r.ptr - kAlign, r.size) \notin C /\ Sound(r.heap, C \cup {At(r.ptr - kAlign, r.size)})
      BY <2>1
    <3> QED
      BY <1>2, <1>3, <1>4, <1>7, <2>1, <2>2, <3>1, ReturnOK
  <2> DEFINE d == At(p - kAlign, r.size)
  <2>4. Sound(r.heap, C \cup {d}) /\ d \in C \cup {d} /\ d \notin C
    BY <1>3, <2>1
  <2>5. /\ A!Multiple(p, kAlign) /\ kArenaVA <= p /\ p + n <= kArenaVA + kArenaBytes
        /\ \A q, k, l \in Nat :
             kAlign <= q /\ l + kAlign <= k /\ At(q - kAlign, k) \in C \cup {d}
               /\ At(q - kAlign, k) # d => q # p /\ A!Apart(p, n, q, l)
    BY <1>2, <1>3, <2>1, <2>4, Promised
  <2> HIDE DEF d
  <2>6. ASSUME NEW q \in DOMAIN held \ {p} PROVE q # p /\ A!Apart(p, n, q, rest[q].bytes)
    BY <1>5, <2>4, <2>5
  <2>7. A!Grantable(rest, p, n)
    BY <2>5, <2>6 DEF A!Grantable
  <2>8. A!Swap({p}, p)
    BY <2>1, <2>3, <2>5 DEF A!Swap
  <2>9. A!Resize
    BY <2>1, <2>3, <2>7, <2>8 DEF A!Resize
  <2> QED
    BY <2>3, <2>9 DEF A!Next
<1>10. CASE Went(r, Blocks, b, n + kAlign)
  <2>1. PICK s : /\ Given(s, Blocks, n + kAlign) /\ r.ptr = s.ptr /\ r.size = s.size
                 /\ Sound(r.heap, C \cup {At(r.ptr - kAlign, r.size)})
    BY <1>10 DEF Went, C
  <2>2. /\ r.ptr \in Nat /\ r.ptr # Null /\ kAlign <= r.ptr /\ r.size \in Nat /\ n + kAlign <= r.size
        /\ At(r.ptr - kAlign, r.size) \notin C
    BY <2>1 DEF Given, C
  <2>3. /\ HeapInv'
        /\ r.ptr \notin DOMAIN held \ {p}
        /\ DOMAIN held' = (DOMAIN held \ {p}) \cup {r.ptr}
        /\ held'[r.ptr].bytes = n /\ held'[r.ptr].align = kAlign
        /\ \A q \in DOMAIN held \ {p} : held'[q] = held[q]
    BY <1>2, <1>4, <1>7, <2>1, <2>2, ReturnOK
  <2>4. A!Grantable(held, r.ptr, n) /\ A!Multiple(r.ptr, kAlign)
    BY <1>2, <2>1, Grants
  <2>5. A!Swap({p}, r.ptr)
    BY <2>3, <2>4 DEF A!Swap
  <2>6. A!Move
    BY <2>3, <2>4, <2>5 DEF A!Move
  <2> QED
    BY <2>3, <2>6 DEF A!Next
<1> QED
  BY <1>6, <1>8, <1>9, <1>10

\* The first state.
LEMMA InitOK ==
  ASSUME Init
  PROVE  HeapInv /\ A!Init
<1>1. /\ heap = HeapOf(Null, Null, <<>>, kArenaVA)
      /\ blk = [p \in {} |-> 0] /\ held = [p \in {} |-> 0]
  BY DEF Init, HeapOf
<1>2. Blocks = {} /\ DOMAIN held = {} /\ DOMAIN blk = {}
  BY <1>1 DEF Blocks
<1>3. kArenaVA \in Nat \ {0} /\ kArenaBytes \in Nat /\ kMinBlock \in Nat \ {0}
  BY Constants
<1>4. Packed({} \cup {}, Null)
  BY <1>3 DEF Packed, Dense, Null
<1>5. Lists(<<>>, {})
  BY DEF Lists, IsInjective, Range
<1>6. OnGrid(Null) /\ OnGrid(kArenaVA) /\ Null \in Nat
  BY PageGrid DEF Null
<1>7. kArenaVA <= kArenaVA + kArenaBytes /\ {} \cap {} = {} /\ \A b \in {} : kMinBlock <= b.size
  BY <1>3
<1>8. Sound(HeapOf(Null, Null, <<>>, kArenaVA), {})
  BY <1>3, <1>4, <1>5, <1>6, <1>7, SoundFrom
<1>9. HeapInv
  BY <1>1, <1>2, <1>8 DEF HeapInv
<1> QED
  BY <1>1, <1>9 DEF A!Init

\* Every step keeps the invariant and is one of the allocator, or none.
LEMMA HeapStep ==
  ASSUME HeapInv, Modest, [Next]_vars
  PROVE  HeapInv' /\ [A!Next]_held
<1>1. CASE Next
  <2>1. CASE Malloc
    BY <2>1, MallocStep
  <2>2. CASE Calloc
    BY <2>2, CallocStep
  <2>3. CASE Free
    BY <2>3, FreeStep
  <2>4. CASE Realloc
    BY <2>4, ReallocStep
  <2> QED
    BY <1>1, <2>1, <2>2, <2>3, <2>4 DEF Next
<1>2. CASE UNCHANGED vars
  <2>1. heap' = heap /\ blk' = blk /\ held' = held
    BY <1>2 DEF vars
  <2>2. Blocks' = Blocks
    BY <2>1 DEF Blocks, BlockOf
  <2>3. Sound(heap', Blocks')
    BY <2>1, <2>2 DEF HeapInv
  <2> QED
    BY <2>1, <2>3 DEF HeapInv
<1> QED
  BY <1>1, <1>2

\* The invariant holds.
LEMMA HeapSound == ASSUME Modest PROVE Spec => []HeapInv
<1>1. Init => HeapInv
  BY InitOK
<1>2. HeapInv /\ [Next]_vars => HeapInv'
  BY HeapStep
<1> QED
  BY <1>1, <1>2, PTL DEF Spec

\* Whatever programs ask for that does not wrap, and in whatever order they free it:
\* every byte below the break is on the list once, with one program, or in the tail,
\* and less than a block is lost where carve() goes on to new pages.
THEOREM AccountedAlways == ASSUME Modest PROVE Spec => []Accounted
<1>1. ASSUME HeapInv PROVE Accounted
  <2> DEFINE S == Range(heap.g_free)
             t == At(heap.g_next, heap.g_end - heap.g_next)
  <2>1. Sound(heap, Blocks)
    BY <1>1 DEF HeapInv
  <2>2. /\ heap.g_next \in Nat /\ heap.g_end \in Nat /\ heap.brk \in Nat
        /\ Packed(S \cup Blocks, heap.g_next) /\ S \cap Blocks = {}
        /\ kArenaVA <= heap.brk /\ heap.brk <= kArenaVA + kArenaBytes
        /\ \/ heap.g_next = Null /\ heap.g_end = Null /\ heap.brk = kArenaVA
           \/ kArenaVA < heap.g_next /\ heap.g_next <= heap.g_end /\ heap.g_end = heap.brk
    BY <2>1, SoundIs
  <2>3. kArenaVA \in Nat \ {0} /\ kMinBlock \in Nat \ {0}
    BY Constants
  <2>4. heap.g_end - heap.g_next \in Nat
    BY <2>2 DEF Null
  <2>5. t.at = heap.g_next /\ t.size = heap.g_end - heap.g_next /\ Pieces = (S \cup Blocks) \cup {t}
    BY <2>2, <2>4, AtIs DEF Pieces, Blocks, At
  <2> HIDE DEF S, t
  <2>6. \A b \in S \cup Blocks : /\ b.at \in Nat /\ b.size \in Nat /\ b.size > 0 /\ kArenaVA <= b.at
                                 /\ b.at + b.size <= heap.g_next
    BY <2>2, BlockIs DEF Packed, Inside
  <2>7. IsInjective(heap.g_free) /\ Range(heap.g_free) \cap {BlockOf(p) : p \in DOMAIN held} = {}
    BY <2>1, <2>2 DEF Sound, S, Blocks
  <2>8. ASSUME NEW b \in Pieces, NEW c \in Pieces, b # c PROVE Bytes(b) \cap Bytes(c) = {}
    <3>1. Clear(b, c)
      <4>1. CASE b \in S \cup Blocks /\ c \in S \cup Blocks
        BY <2>2, <2>8, <4>1 DEF Packed
      <4>2. CASE b = t \/ c = t
        BY <2>2, <2>5, <2>6, <2>8, <4>2 DEF Clear
      <4> QED
        BY <2>5, <2>8, <4>1, <4>2
    <3>2. b.at \in Nat /\ b.size \in Nat /\ c.at \in Nat /\ c.size \in Nat
      BY <2>2, <2>4, <2>5, <2>6, <2>8
    <3> QED
      BY <3>1, <3>2 DEF Clear, Bytes
  <2>9. Covered \subseteq kArenaVA .. heap.brk - 1
    <3> SUFFICES ASSUME NEW b \in Pieces, NEW x \in Bytes(b) PROVE x \in kArenaVA .. heap.brk - 1
      BY DEF Covered
    <3>1. CASE b \in S \cup Blocks
      BY <2>2, <2>3, <2>6, <3>1 DEF Bytes, Null
    <3>2. CASE b = t
      BY <2>2, <2>3, <2>5, <3>2 DEF Bytes, Null
    <3> QED
      BY <2>5, <3>1, <3>2
  <2>10. \A b \in Pieces : \A x \in Nat : Holds(b, x) => x \in Covered
    <3> SUFFICES ASSUME NEW b \in Pieces, NEW x \in Nat, Holds(b, x) PROVE x \in Bytes(b)
      BY DEF Covered
    <3>1. b.at \in Nat /\ b.size \in Nat
      BY <2>2, <2>4, <2>5, <2>6
    <3> QED
      BY <3>1 DEF Holds, Bytes
  <2>11. ASSUME NEW a \in kArenaVA .. heap.brk - kMinBlock
         PROVE  a .. a + kMinBlock - 1 \cap Covered # {}
    <3> SUFFICES \E x \in a .. a + kMinBlock - 1 : x \in Covered
      OBVIOUS
    <3>1. a \in Nat /\ kArenaVA <= a /\ a + kMinBlock <= heap.brk
      BY <2>2, <2>3, <2>11
    <3>2. CASE a + kMinBlock <= heap.g_next
      <4>1. a \in kArenaVA .. heap.g_next - kMinBlock
        BY <2>2, <2>3, <3>1, <3>2
      <4>2. PICK b \in S \cup Blocks : \E x \in a .. a + kMinBlock - 1 : Holds(b, x)
        BY <2>2, <4>1 DEF Packed, Dense
      <4>3. PICK x \in a .. a + kMinBlock - 1 : Holds(b, x)
        BY <4>2
      <4>4. x \in Nat /\ b \in Pieces
        BY <2>3, <2>5, <3>1, <4>2, <4>3
      <4> QED
        BY <2>10, <4>3, <4>4
    <3>3. CASE heap.g_next < a + kMinBlock
      <4> DEFINE x == a + kMinBlock - 1
      <4>1. x \in Nat /\ x \in a .. a + kMinBlock - 1 /\ Holds(t, x) /\ t \in Pieces
        BY <2>2, <2>3, <2>5, <3>1, <3>3 DEF Holds, Null
      <4> HIDE DEF x
      <4> QED
        BY <2>10, <4>1
    <3> QED
      BY <2>2, <2>3, <3>1, <3>2, <3>3
  <2> QED
    BY <2>7, <2>8, <2>9, <2>11 DEF Accounted
<1> QED
  BY <1>1, HeapSound, PTL

\* malloc(), calloc(), realloc() and free() over sbrk() implement the allocator: what
\* programs hold is in the arena, aligned, as large as they asked for, and nobody
\* else's, also while realloc() copies or works in place.
THEOREM UserHeapIsAllocator == ASSUME Modest PROVE Spec => IsAllocator
<1>1. Init => A!Init
  BY InitOK
<1>2. HeapInv /\ [Next]_vars => [A!Next]_held
  BY HeapStep
<1> QED
  BY <1>1, <1>2, HeapSound, PTL DEF Spec, IsAllocator, A!Spec
=============================================================================
