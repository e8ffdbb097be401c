-------------------------------- MODULE Heap --------------------------------
(***************************************************************************)
(* The kernel heap, kernel/lib/heap.cpp: one list of blocks, used and free,*)
(* in address order.  A block is the address of its header; the payload    *)
(* follows.  The packed word of a header is its two parts, size and used;  *)
(* every linked block carries the magic, and nothing else is taken for one.*)
(* prev_size and the statistics are written and never read, so left out.   *)
(* A call is one step: preempt turns back in kernel code, but for a process*)
(* that a tick has just killed, which is not modelled here.                *)
(***************************************************************************)
EXTENDS Naturals

CONSTANTS
  kAlign,          \* alignment, and the size of a header
  kMinBlock,       \* the smallest block split leaves behind
  kPage,
  kSizeMax,
  Word,            \* 2^32 in the code: where a product of two size_t wraps
  g_start, g_end,  \* the arena heap_init found
  Sizes,           \* bound: the sizes callers ask for
  MaxPages         \* bound: the longest run of frames

ASSUME HeapAssumption ==
  /\ {kAlign, kMinBlock, kPage, kSizeMax, Word, g_start, g_end, MaxPages} \subseteq Nat
  /\ kAlign > 0 /\ kMinBlock = 2 * kAlign /\ kPage > 0
  /\ g_start > 0 /\ g_start + kMinBlock < g_end
  /\ kSizeMax + kAlign < Word
  /\ Sizes \subseteq Nat

ASSUME AlignAssumption ==
  \E s, e, p \in 0 .. g_end + kPage :
    g_start = s * kAlign /\ g_end = e * kAlign /\ kPage = p * kAlign

VARIABLES
  blk,   \* the linked headers, by address
  held   \* what callers were given: pointer -> bytes asked for, alignment promised

vars == <<blk, held>>

Null == 0
align_up(v, a) == ((v + a - 1) \div a) * a

-----------------------------------------------------------------------------
(* The block list                                                          *)

\* Cut b after `bytes': the rest becomes a free block behind it.
Cut(B, b, bytes) ==
  LET tail == b + bytes
      after == B[b].next
  IN [x \in DOMAIN B \cup {tail} |->
        IF x = tail THEN [size |-> B[b].size - bytes, used |-> FALSE, next |-> after, prev |-> b]
        ELSE IF x = b THEN [B[b] EXCEPT !.size = bytes, !.used = FALSE, !.next = tail]
        ELSE IF x = after THEN [B[x] EXCEPT !.prev = tail]
        ELSE B[x]]

split(B, b, bytes) ==
  IF B[b].size < bytes + kMinBlock THEN B ELSE Cut(B, b, bytes)

\* mark().
MarkUsed(B, b) == [B EXCEPT ![b].used = TRUE]
MarkFree(B, b) == [B EXCEPT ![b].used = FALSE]

\* Mutant: the block behind both still points back at the one that is gone.
AbsorbOneWay(B, b, c) ==
  [x \in DOMAIN B \ {c} |->
     IF x = b THEN [B[b] EXCEPT !.size = B[b].size + B[c].size, !.next = B[c].next]
     ELSE B[x]]

\* b swallows c, the block behind it.
Absorb(B, b, c) ==
  [x \in DOMAIN B \ {c} |->
     IF x = b THEN [B[b] EXCEPT !.size = B[b].size + B[c].size, !.next = B[c].next]
     ELSE IF x = B[c].next THEN [B[x] EXCEPT !.prev = b]
     ELSE B[x]]

\* The walks from g_head meet blocks in address order.
First(S) == IF S = {} THEN Null ELSE CHOOSE b \in S : \A c \in S : b <= c

\* Mutant: an exact fit is passed over.
FindFitStrict(B, bytes) == First({b \in DOMAIN B : ~B[b].used /\ B[b].size > bytes})

find_fit(B, bytes) == First({b \in DOMAIN B : ~B[b].used /\ B[b].size >= bytes})

-----------------------------------------------------------------------------
(* The calls: the pointer returned and the list left behind                *)

Failed(B) == [ptr |-> Null, blk |-> B]

\* The bytes a block needs for a request.
Need(size) == align_up(size + kAlign, kAlign)

kmalloc(B, size) ==
  LET bytes == Need(IF size = 0 THEN 1 ELSE size)
      b == find_fit(B, bytes)
  IN IF size + kAlign > kSizeMax \/ b = Null THEN Failed(B)
     ELSE [ptr |-> b + kAlign, blk |-> MarkUsed(split(B, b, bytes), b)]

\* Mutant: the product wraps.
KcallocWraps(B, n, size) == kmalloc(B, (n * size) % Word)

kcalloc(B, n, size) ==
  IF n # 0 /\ size > (Word - 1) \div n THEN Failed(B)
  ELSE kmalloc(B, (n * size) % Word)

\* ptr points behind the header of a block in use.
Ours(B, ptr) == ptr # Null /\ ptr - kAlign \in DOMAIN B /\ B[ptr - kAlign].used

\* The two merges of kfree: with the block behind b, and with the one before it.
MergeNext(B, b) ==
  LET n == B[b].next
  IN IF n # Null /\ ~B[n].used THEN Absorb(B, b, n) ELSE B

MergePrev(B, b) ==
  LET p == B[b].prev
  IN IF p # Null /\ ~B[p].used THEN Absorb(B, p, b) ELSE B

\* Mutant: nobody looks back.
KfreeForward(B, ptr) ==
  IF Ours(B, ptr) THEN LET b == ptr - kAlign IN MergeNext(MarkFree(B, b), b)
  ELSE B

kfree(B, ptr) ==
  IF Ours(B, ptr)
  THEN LET b == ptr - kAlign
       IN MergePrev(MergeNext(MarkFree(B, b), b), b)
  ELSE B

\* The last block may stay where it is, grown into what is behind it.
StaysPut(B, b, size) == B[b].next = Null /\ Need(size) <= g_end - b

krealloc(B, ptr, size) ==
  LET b == ptr - kAlign
      grown == IF Need(size) > B[b].size THEN Need(size) ELSE B[b].size
      fresh == kmalloc(B, size)
  IN IF size + kAlign > kSizeMax \/ ~Ours(B, ptr) THEN Failed(B)
     ELSE IF StaysPut(B, b, size)
     THEN [ptr |-> ptr,
           blk |-> MarkUsed(split([B EXCEPT ![b].size = grown], b, grown), b)]
     ELSE IF fresh.ptr = Null THEN Failed(B)
     ELSE [ptr |-> fresh.ptr, blk |-> kfree(fresh.blk, ptr)]

\* How far into b a frame's header goes, for the payload to start a page.
FrameCut(b) == align_up(b + kAlign, kPage) - kAlign - b

FrameFits(B, b, want) ==
  LET cut == FrameCut(b)
  IN /\ ~B[b].used
     /\ cut + want <= B[b].size
     /\ cut = 0 \/ cut >= kMinBlock

kframe_alloc_n(B, pages) ==
  LET want == pages * kPage + kAlign
      left == First({b \in DOMAIN B : FrameFits(B, b, want)})
      cut == FrameCut(left)
      right == left + cut
      carved == IF cut = 0 THEN B ELSE Cut(B, left, cut)
  IN IF pages = 0 \/ left = Null THEN Failed(B)
     ELSE [ptr |-> right + kAlign, blk |-> MarkUsed(split(carved, right, want), right)]

\* The largest request that would be met.
heap_largest_free ==
  LET usable == {blk[b].size - kAlign : b \in {c \in DOMAIN blk : ~blk[c].used}} \cup {0}
  IN CHOOSE u \in usable : \A v \in usable : v <= u

-----------------------------------------------------------------------------
(* Callers                                                                 *)

\* heap_init: one free block.
Init ==
  /\ blk = [b \in {g_start} |->
              [size |-> g_end - g_start, used |-> FALSE, next |-> Null, prev |-> Null]]
  /\ held = [p \in {} |-> 0]

\* A caller gives up the pointers in gone and gets r.ptr, if that is not null.
Return(r, gone, bytes, align) ==
  /\ blk' = r.blk
  /\ held' = IF r.ptr = Null THEN held
             ELSE [p \in (DOMAIN held \ gone) \cup {r.ptr} |->
                     IF p = r.ptr THEN [bytes |-> bytes, align |-> align] ELSE held[p]]

Malloc == \E size \in Sizes : Return(kmalloc(blk, size), {}, size, kAlign)

Calloc ==
  \E n, size \in Sizes : Return(kcalloc(blk, n, size), {}, n * size, kAlign)

Free ==
  \E p \in DOMAIN held :
    /\ blk' = kfree(blk, p)
    /\ held' = [q \in DOMAIN held \ {p} |-> held[q]]

\* Nobody resizes frames; krealloc of nothing is kmalloc, to nothing is kfree.
Realloc ==
  \E p \in DOMAIN held, size \in Sizes \ {0} :
    /\ held[p].align = kAlign
    /\ Return(krealloc(blk, p, size), {p}, size, kAlign)

FrameAlloc ==
  \E pages \in 0 .. MaxPages :
    Return(kframe_alloc_n(blk, pages), {}, pages * kPage, kPage)

Next == Malloc \/ Calloc \/ Free \/ Realloc \/ FrameAlloc

Spec == Init /\ [][Next]_vars

-----------------------------------------------------------------------------
(* Properties                                                              *)

Tiles(B) ==
  /\ g_start \in DOMAIN B
  /\ \A b \in DOMAIN B :
       LET end == b + B[b].size
       IN /\ g_start <= b /\ end <= g_end /\ B[b].size >= kMinBlock
          /\ IF B[b].next = Null THEN end = g_end
             ELSE B[b].next = end /\ end \in DOMAIN B /\ B[end].prev = b
          /\ IF B[b].prev = Null THEN b = g_start
             ELSE B[b].prev \in DOMAIN B /\ B[B[b].prev].next = b
  /\ \A b, c \in DOMAIN B : b < c => b + B[b].size <= c

\* The list is the arena, block by block: links agree with sizes and with each
\* other, nothing overlaps and no byte is lost, whatever split, the two cuts of
\* kframe_alloc_n and the two merges of kfree did to it.
Tiled == Tiles(blk)

Merged(B) ==
  \A b \in DOMAIN B : ~B[b].used /\ B[b].next # Null => B[B[b].next].used

\* kfree leaves no two free neighbours, and no allocation splits one into two
\* that stay free: once everything is given back the arena is one block again
\* (`nothing stranded', kernel.cpp).
Coalesced == Merged(blk)

\* heap_largest_free is what it says: kmalloc meets a request if and only if it
\* is no larger.
LargestFree ==
  \A size \in Sizes \ {0} :
    size + kAlign <= kSizeMax =>
      (kmalloc(blk, size).ptr # Null <=> size <= heap_largest_free)

A == INSTANCE Allocator WITH lo <- g_start, hi <- g_end

\* Callers get what an allocator promises: as many bytes as they asked for, at the
\* alignment of the call, overlapping nobody's, also over krealloc.
IsAllocator == A!Spec
=============================================================================
