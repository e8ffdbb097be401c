------------------------------ MODULE UserHeap ------------------------------
(***************************************************************************)
(* malloc and its family for programs, apps/alloc.cpp, on sbrk() of the    *)
(* kernel (task_sbrk).  A block that was given out is its address and the  *)
(* size in its header; the returned ones are a list threaded through them, *)
(* in the order of the list, which is not always that of the addresses.    *)
(* A size is a uint32_t and wraps at Word.  A program that moves the break *)
(* itself is left out.                                                     *)
(***************************************************************************)
EXTENDS Integers, FiniteSets, Sequences, SequencesExt

CONSTANTS
  kAlign,        \* alignment, and the size of a header
  kMinBlock,     \* the smallest block free() takes and release_tail() leaves
  kPage,         \* 4096 in carve()
  kArenaVA, kArenaBytes,
  Word,          \* 2^32
  Sizes          \* bound: what programs ask for

ASSUME UserHeapAssumption ==
  /\ {kAlign, kMinBlock, kPage, kArenaVA, kArenaBytes, Word} \subseteq Nat \ {0}
  /\ kMinBlock = 2 * kAlign /\ kPage % kAlign = 0 /\ kArenaVA % kPage = 0
  /\ kArenaVA + kArenaBytes < Word /\ Sizes \subseteq 0 .. Word - 1

VARIABLES
  heap,   \* g_next, g_end and g_free, and the break the kernel keeps
  blk,    \* the size in the header of each pointer given out
  held    \* the pointers programs hold: bytes asked for, alignment promised

vars == <<heap, blk, held>>

Null == 0
align_up(v, a) == (((v + a - 1) % Word) \div a) * a
Signed(w) == IF w >= Word \div 2 THEN w - Word ELSE w

\* A block for n bytes, header included.
Need(n) == align_up((n + kAlign) % Word, kAlign)

-----------------------------------------------------------------------------
(* The arena                                                               *)

\* The break moves inside the arena or not at all.
task_sbrk(brk, delta) ==
  IF brk + delta \in kArenaVA .. kArenaVA + kArenaBytes THEN brk + delta ELSE Null

\* Mutant: the tail stays where the next carve() takes it as well.
ReleaseTailTwice(h) ==
  IF h.g_end - h.g_next < kMinBlock THEN h
  ELSE [h EXCEPT !.g_free = <<[at |-> h.g_next, size |-> h.g_end - h.g_next]>> \o @]

release_tail(h) ==
  IF h.g_end - h.g_next < kMinBlock THEN h
  ELSE [h EXCEPT !.g_free = <<[at |-> h.g_next, size |-> h.g_end - h.g_next]>> \o @,
                 !.g_next = h.g_end]

Result(ptr, size, h) == [ptr |-> ptr, size |-> size, heap |-> h]
Payload(b) == b + kAlign

\* Take from what is left, or from a page more than needed.
carve(h, bytes) ==
  LET want == (align_up(bytes, kPage) + kPage) % Word
      got == task_sbrk(h.brk, Signed(want))
      grown == [h EXCEPT !.brk = got, !.g_next = (h.brk + bytes) % Word, !.g_end = got]
  IN IF h.g_end - h.g_next >= bytes
     THEN Result(Payload(h.g_next), bytes, [h EXCEPT !.g_next = @ + bytes])
     ELSE IF got = Null THEN Result(Null, 0, h)
     ELSE IF (got - h.brk) % Word >= bytes THEN Result(Payload(h.brk), bytes, grown)
     ELSE Result(Null, 0, [grown EXCEPT !.g_next = got])

-----------------------------------------------------------------------------
(* The calls                                                               *)

\* Block k of the list is cut, or taken whole if what is left has no room for a
\* header.
Taken(h, k, bytes) ==
  LET b == h.g_free[k]
      tail == [at |-> b.at + bytes, size |-> b.size - bytes]
  IN IF b.size >= bytes + kAlign
     THEN Result(Payload(b.at), bytes, [h EXCEPT !.g_free[k] = tail])
     ELSE Result(Payload(b.at), b.size, [h EXCEPT !.g_free = RemoveAt(@, k)])

\* The first block of the list that is large enough.
malloc(h, n) ==
  LET bytes == Need(IF n = 0 THEN 1 ELSE n)
      released == release_tail(h)
      k == SelectInSeq(released.g_free, LAMBDA b : b.size >= bytes)
  IN IF k = 0 THEN carve(released, bytes) ELSE Taken(released, k, bytes)

\* Mutant: the product wraps.
CallocWraps(h, n, size) == malloc(h, (n * size) % Word)

calloc(h, n, size) ==
  IF n # 0 /\ size > (Word - 1) \div n THEN Result(Null, 0, h)
  ELSE malloc(h, (n * size) % Word)

Joins(b, c) == b.at + b.size = c.at
Joined(b, c) == [at |-> b.at, size |-> b.size + c.size]

\* The walk stops at the first block behind b; b goes before it, merged with either
\* side.
free(h, b) ==
  LET k == SelectInSeq(h.g_free, LAMBDA c : c.at >= b.at)
      cut == IF k = 0 THEN Len(h.g_free) ELSE k - 1
      pre == SubSeq(h.g_free, 1, cut)
      post == SubSeq(h.g_free, cut + 1, Len(h.g_free))
      next == post # <<>> /\ Joins(b, Head(post))
      b1 == IF next THEN Joined(b, Head(post)) ELSE b
      post1 == IF next THEN Tail(post) ELSE post
  IN IF b.size < kMinBlock THEN h
     ELSE IF pre # <<>> /\ Joins(Last(pre), b)
     THEN [h EXCEPT !.g_free = Front(pre) \o <<Joined(Last(pre), b1)>> \o post1]
     ELSE [h EXCEPT !.g_free = pre \o <<b1>> \o post1]

\* Of a pointer and a size that are not null.  The last block carved may grow or
\* shrink where it is; all others are copied.
realloc(h, b, n) ==
  LET want == Need(n)
      fresh == malloc(h, n)
  IN IF b.at + b.size = h.g_next /\ b.at + want <= h.g_end
     THEN Result(Payload(b.at), want, [h EXCEPT !.g_next = b.at + want])
     ELSE IF fresh.ptr = Null THEN fresh
     ELSE [fresh EXCEPT !.heap = free(fresh.heap, b)]

-----------------------------------------------------------------------------
(* Programs                                                                *)

Init ==
  /\ heap = [g_next |-> Null, g_end |-> Null, g_free |-> <<>>, brk |-> kArenaVA]
  /\ blk = [p \in {} |-> 0]
  /\ held = [p \in {} |-> 0]

BlockOf(p) == [at |-> p - kAlign, size |-> blk[p]]

\* A program gives up the pointers in gone and gets r.ptr, if that is not null.
Return(r, gone, bytes) ==
  /\ heap' = r.heap
  /\ IF r.ptr = Null THEN UNCHANGED <<blk, held>>
     ELSE LET now == (DOMAIN held \ gone) \cup {r.ptr}
          IN /\ blk' = [p \in now |-> IF p = r.ptr THEN r.size ELSE blk[p]]
             /\ held' = [p \in now |-> IF p = r.ptr THEN [bytes |-> bytes, align |-> kAlign]
                                       ELSE held[p]]

Malloc == \E n \in Sizes : Return(malloc(heap, n), {}, n)

Calloc == \E n, size \in Sizes : Return(calloc(heap, n, size), {}, n * size)

Free ==
  \E p \in DOMAIN held :
    /\ heap' = free(heap, BlockOf(p))
    /\ blk' = [q \in DOMAIN held \ {p} |-> blk[q]]
    /\ held' = [q \in DOMAIN held \ {p} |-> held[q]]

Realloc ==
  \E p \in DOMAIN held, n \in Sizes \ {0} : Return(realloc(heap, BlockOf(p), n), {p}, n)

Next == Malloc \/ Calloc \/ Free \/ Realloc

Spec == Init /\ [][Next]_vars

-----------------------------------------------------------------------------
(* Properties                                                              *)

Pieces ==
  Range(heap.g_free) \cup {BlockOf(p) : p \in DOMAIN held}
    \cup {[at |-> heap.g_next, size |-> heap.g_end - heap.g_next]}
Bytes(b) == b.at .. b.at + b.size - 1
Covered == UNION {Bytes(b) : b \in Pieces}

\* Every byte below the break is in one place: a block of a program, a block of the
\* list, or the tail not carved yet.  Splits, merges and moves lose nothing, whatever
\* order the list is in; only less than a block may be left behind where carve()
\* goes on to new pages.
Accounted ==
  /\ IsInjective(heap.g_free)
  /\ Range(heap.g_free) \cap {BlockOf(p) : p \in DOMAIN held} = {}
  /\ \A b, c \in Pieces : b # c => Bytes(b) \cap Bytes(c) = {}
  /\ Covered \subseteq kArenaVA .. heap.brk - 1
  /\ \A a \in kArenaVA .. heap.brk - kMinBlock : a .. a + kMinBlock - 1 \cap Covered # {}

A == INSTANCE Allocator WITH lo <- kArenaVA, hi <- kArenaVA + kArenaBytes

\* Programs get what an allocator promises, as long as no size wraps: as much as they
\* asked for inside the arena, and nobody else's, also over realloc in place.
IsAllocator == A!Spec
=============================================================================
