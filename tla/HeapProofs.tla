----------------------------- MODULE HeapProofs -----------------------------
(***************************************************************************)
(* Theorems about Heap, for every arena, page size and set of requests.    *)
(***************************************************************************)
EXTENDS Heap, WellFoundedInduction, TLAPS

Header == [size : Nat, used : BOOLEAN, next : Nat, prev : Nat]

\* A list of headers that tiles the arena.
List(B) ==
  /\ DOMAIN B \subseteq Nat \ {Null}
  /\ B \in [DOMAIN B -> Header]
  /\ Tiles(B)

Used(B) == {b \in DOMAIN B : B[b].used}

-----------------------------------------------------------------------------
(* The operations on the list                                              *)

\* The links and sizes are all that Tiles is about.
LEMMA Relabel ==
  ASSUME NEW B, List(B), NEW M, DOMAIN M = DOMAIN B, M \in [DOMAIN B -> Header],
         \A x \in DOMAIN B : /\ M[x].size = B[x].size
                             /\ M[x].next = B[x].next
                             /\ M[x].prev = B[x].prev
  PROVE  List(M)
<1>1. Tiles(M)
  BY DEF List, Tiles
<1>2. QED BY <1>1 DEF List

\* Changing whether a block is in use moves nothing.
LEMMA UsedTiles ==
  ASSUME NEW B, List(B), NEW b \in DOMAIN B, NEW M, M = MarkUsed(B, b)
  PROVE  /\ List(M) /\ DOMAIN M = DOMAIN B /\ M[b].used
         /\ \A x \in DOMAIN B \ {b} : M[x].used <=> B[x].used
         /\ \A x \in DOMAIN B : M[x].size = B[x].size /\ M[x].next = B[x].next
<1>1. DOMAIN M = DOMAIN B /\ M \in [DOMAIN B -> Header] /\ M[b].used
  BY DEF MarkUsed, List, Header
<1>2. \A x \in DOMAIN B \ {b} : M[x].used <=> B[x].used
  BY DEF MarkUsed, List, Header
<1>3. \A x \in DOMAIN B : /\ M[x].size = B[x].size
                          /\ M[x].next = B[x].next
                          /\ M[x].prev = B[x].prev
  BY DEF MarkUsed, List, Header
<1>4. List(M)
  BY <1>1, <1>3, Relabel
<1>5. QED BY <1>1, <1>2, <1>3, <1>4

\* The same for the mark kfree makes.
LEMMA FreeTiles ==
  ASSUME NEW B, List(B), NEW b \in DOMAIN B, NEW M, M = MarkFree(B, b)
  PROVE  /\ List(M) /\ DOMAIN M = DOMAIN B /\ ~M[b].used
         /\ \A x \in DOMAIN B \ {b} : M[x].used <=> B[x].used
         /\ \A x \in DOMAIN B : M[x].size = B[x].size /\ M[x].next = B[x].next
<1>1. DOMAIN M = DOMAIN B /\ M \in [DOMAIN B -> Header] /\ ~M[b].used
  BY DEF MarkFree, List, Header
<1>2. \A x \in DOMAIN B \ {b} : M[x].used <=> B[x].used
  BY DEF MarkFree, List, Header
<1>3. \A x \in DOMAIN B : /\ M[x].size = B[x].size
                          /\ M[x].next = B[x].next
                          /\ M[x].prev = B[x].prev
  BY DEF MarkFree, List, Header
<1>4. List(M)
  BY <1>1, <1>3, Relabel
<1>5. QED BY <1>1, <1>2, <1>3, <1>4

\* A cut leaves two blocks where there was one.
LEMMA CutTiles ==
  ASSUME NEW B, List(B), NEW b \in DOMAIN B, NEW n \in Nat,
         n >= kMinBlock, n + kMinBlock <= B[b].size
  PROVE  /\ List(Cut(B, b, n))
         /\ b + n \notin DOMAIN B
         /\ DOMAIN Cut(B, b, n) = DOMAIN B \cup {b + n}
         /\ Cut(B, b, n)[b].size = n
         /\ Cut(B, b, n)[b].next = b + n
         /\ ~Cut(B, b, n)[b].used
         /\ Cut(B, b, n)[b + n].size = B[b].size - n
         /\ Cut(B, b, n)[b + n].next = B[b].next
         /\ ~Cut(B, b, n)[b + n].used
         /\ \A x \in DOMAIN B \ {b} : /\ Cut(B, b, n)[x].size = B[x].size
                                      /\ Cut(B, b, n)[x].used <=> B[x].used
                                      /\ Cut(B, b, n)[x].next = B[x].next
<1> DEFINE C == Cut(B, b, n)
           t == b + n
           after == B[b].next
<1>1. /\ b \in Nat /\ b # Null /\ B[b] \in Header
      /\ B[b].size \in Nat /\ after \in Nat
      /\ kMinBlock \in Nat /\ kMinBlock > 0
  BY HeapAssumption DEF List, Header
<1>2. t \in Nat /\ b < t /\ t < b + B[b].size
  BY <1>1
<1>3. t \notin DOMAIN B
  BY <1>1, <1>2, HeapAssumption DEF List, Tiles
<1>4. after # Null => after \in DOMAIN B /\ after = b + B[b].size
  BY <1>1 DEF List, Tiles
<1>5. DOMAIN C = DOMAIN B \cup {t}
  BY DEF Cut
<1>6. C[t] = [size |-> B[b].size - n, used |-> FALSE, next |-> after, prev |-> b]
  BY DEF Cut
<1>7. C[b] = [B[b] EXCEPT !.size = n, !.used = FALSE, !.next = t]
  BY <1>2 DEF Cut
<1>8. \A x \in DOMAIN B \ {b} :
        C[x] = IF x = after THEN [B[x] EXCEPT !.prev = t] ELSE B[x]
  BY <1>3 DEF Cut
<1>9. C \in [DOMAIN C -> Header]
  <2>1. C = [x \in DOMAIN C |-> C[x]]
    BY <1>5 DEF Cut
  <2>2. C[t] \in Header
    BY <1>1, <1>2, <1>6 DEF Header
  <2>3. C[b] \in Header
    BY <1>1, <1>2, <1>7 DEF Header
  <2>4. \A x \in DOMAIN B \ {b} : C[x] \in Header
    BY <1>8, <1>2 DEF List, Header
  <2> HIDE DEF C
  <2>5. QED BY <2>1, <2>2, <2>3, <2>4, <1>5
<1>10. /\ C[t].size = B[b].size - n /\ C[t].next = after /\ C[t].prev = b /\ ~C[t].used
       /\ C[b].size = n /\ C[b].next = t /\ C[b].prev = B[b].prev /\ ~C[b].used
  BY <1>1, <1>6, <1>7 DEF Header
<1>11. \A x \in DOMAIN B \ {b} : /\ C[x].size = B[x].size
                                 /\ C[x].used <=> B[x].used
                                 /\ C[x].next = B[x].next
                                 /\ C[x].prev = IF x = after THEN t ELSE B[x].prev
  <2> HIDE DEF C
  <2>1. \A x \in DOMAIN B : B[x] \in Header
    BY DEF List
  <2>2. QED BY <1>8, <2>1 DEF Header
<1> HIDE DEF C
<1>12. Tiles(C)
  <2>1. g_start \in DOMAIN C
    BY <1>5 DEF List, Tiles
  <2>2. \A x, y \in DOMAIN C : x < y => x + C[x].size <= y
    <3> SUFFICES ASSUME NEW x \in DOMAIN C, NEW y \in DOMAIN C, x < y
                 PROVE  x + C[x].size <= y
      OBVIOUS
    <3>1. \A p, q \in DOMAIN B : p < q => p + B[p].size <= q
      BY DEF List, Tiles
    <3>2. \A p \in DOMAIN B : p \in Nat /\ B[p].size \in Nat
      BY DEF List, Header
    <3>3. CASE x = t
      BY <1>1, <1>2, <1>5, <1>10, <3>1, <3>2, <3>3
    <3>4. CASE y = t /\ x \in DOMAIN B
      BY <1>1, <1>2, <1>5, <1>10, <1>11, <3>1, <3>2, <3>4
    <3>5. CASE x \in DOMAIN B /\ y \in DOMAIN B
      BY <1>1, <1>2, <1>5, <1>10, <1>11, <3>1, <3>2, <3>5
    <3>6. QED BY <1>5, <3>3, <3>4, <3>5
  <2>3. ASSUME NEW x \in DOMAIN C
        PROVE  /\ g_start <= x /\ x + C[x].size <= g_end
               /\ C[x].size >= kMinBlock
               /\ IF C[x].next = Null THEN x + C[x].size = g_end
                  ELSE /\ C[x].next = x + C[x].size
                       /\ x + C[x].size \in DOMAIN C
                       /\ C[x + C[x].size].prev = x
               /\ IF C[x].prev = Null THEN x = g_start
                  ELSE C[x].prev \in DOMAIN C /\ C[C[x].prev].next = x
    <3>1. \A p \in DOMAIN B :
            /\ p \in Nat /\ B[p].size \in Nat /\ B[p].size >= kMinBlock
            /\ g_start <= p /\ p + B[p].size <= g_end
            /\ IF B[p].next = Null THEN p + B[p].size = g_end
               ELSE /\ B[p].next = p + B[p].size
                    /\ p + B[p].size \in DOMAIN B
                    /\ B[p + B[p].size].prev = p
            /\ IF B[p].prev = Null THEN p = g_start
               ELSE B[p].prev \in DOMAIN B /\ B[B[p].prev].next = p
      BY DEF List, Tiles, Header
    <3>2. CASE x = t
      <4>1. C[x].size >= kMinBlock /\ x + C[x].size = b + B[b].size
        BY <1>1, <1>2, <1>10, <3>2
      <4>2. g_start <= x /\ x + C[x].size <= g_end
        BY <1>1, <1>2, <3>1, <3>2, <4>1, HeapAssumption
      <4>3. IF C[x].next = Null THEN x + C[x].size = g_end
            ELSE C[x].next = x + C[x].size /\ x + C[x].size \in DOMAIN B
        BY <1>4, <1>10, <3>1, <3>2, <4>1
      <4>4. after # Null => C[after].prev = x
        BY <1>1, <1>4, <1>11, <3>1, <3>2
      <4>5. C[x].prev = b /\ b \in DOMAIN C /\ C[b].next = x /\ b # Null
        BY <1>1, <1>5, <1>10, <3>2
      <4>6. QED BY <1>5, <1>10, <3>2, <4>1, <4>2, <4>3, <4>4, <4>5
    <3>3. CASE x = b
      <4>1. C[x].size >= kMinBlock
        BY <1>1, <1>10, <3>3
      <4>2. C[x].next = x + C[x].size /\ x + C[x].size \in DOMAIN C
        BY <1>5, <1>10, <3>3
      <4>3. C[x + C[x].size].prev = x
        BY <1>10, <3>3
      <4>4. C[x].next # Null
        BY <1>1, <1>2, <1>10, <3>3 DEF Null
      <4>5. IF C[x].prev = Null THEN x = g_start
            ELSE C[x].prev \in DOMAIN C /\ C[C[x].prev].next = x
        <5>1. B[b].prev # Null => B[b].prev \in DOMAIN B /\ B[B[b].prev].next = b
          BY <3>1
        <5>2. B[b].prev # b
          BY <1>1, <3>1, HeapAssumption DEF Null
        <5>3. QED BY <5>1, <5>2, <1>5, <1>10, <1>11, <3>1, <3>3
      <4>6. g_start <= x /\ x + C[x].size <= g_end
        BY <1>1, <1>2, <1>10, <3>1, <3>3, HeapAssumption
      <4>7. QED BY <4>1, <4>2, <4>3, <4>4, <4>5, <4>6
    <3>4. CASE x \in DOMAIN B \ {b}
      <4>1. C[x].size >= kMinBlock
        BY <1>11, <3>1, <3>4
      <4>2. IF C[x].next = Null THEN x + C[x].size = g_end
            ELSE C[x].next = x + C[x].size /\ x + C[x].size \in DOMAIN B
        BY <1>11, <3>1, <3>4
      <4>3. ASSUME C[x].next # Null PROVE C[x + C[x].size].prev = x
        <5>1. B[x + B[x].size].prev = x /\ x + B[x].size \in DOMAIN B
          BY <1>11, <3>1, <3>4, <4>3
        <5>2. x + B[x].size # after \/ after = Null
          BY <1>1, <1>4, <3>1, <3>4, <5>1
        <5>3. x + B[x].size # Null
          BY <5>1 DEF List
        <5>4. CASE x + B[x].size = b
          BY <1>10, <1>11, <3>4, <5>1, <5>4
        <5>5. CASE x + B[x].size # b
          BY <1>11, <3>4, <5>1, <5>2, <5>3, <5>5
        <5>6. QED BY <5>4, <5>5
      <4>4. IF C[x].prev = Null THEN x = g_start
            ELSE C[x].prev \in DOMAIN C /\ C[C[x].prev].next = x
        <5>1. CASE x = after
          <6>1. C[x].prev = t
            BY <1>11, <3>4, <5>1
          <6>2. t # Null /\ t \in DOMAIN C /\ C[t].next = x
            BY <1>1, <1>2, <1>5, <1>10, <5>1 DEF Null
          <6>3. QED BY <6>1, <6>2, Zenon
        <5>2. CASE x # after
          <6>1. C[x].prev = B[x].prev
            BY <1>11, <3>4, <5>2
          <6>2. B[x].prev # Null => B[x].prev \in DOMAIN B \ {b} /\ B[B[x].prev].next = x
            BY <3>1, <3>4, <5>2
          <6>3. QED BY <1>5, <1>11, <3>1, <3>4, <6>1, <6>2
        <5>3. QED BY <5>1, <5>2
      <4>5. g_start <= x /\ x + C[x].size <= g_end
        BY <1>11, <3>1, <3>4
      <4>6. QED BY <1>5, <4>1, <4>2, <4>3, <4>4, <4>5
    <3>5. QED BY <1>5, <3>2, <3>3, <3>4
  <2>4. QED BY <2>1, <2>2, <2>3 DEF Tiles
<1>13. List(C)
  <2>1. DOMAIN C \subseteq Nat \ {Null}
    BY <1>1, <1>2, <1>5 DEF List, Null
  <2>2. QED BY <2>1, <1>9, <1>12 DEF List
<1>14. QED
  BY <1>3, <1>5, <1>10, <1>11, <1>13 DEF C

\* What Tiles says of one block.
LEMMA TileOf ==
  ASSUME NEW B, List(B), NEW p \in DOMAIN B
  PROVE  /\ p \in Nat /\ p # Null /\ B[p] \in Header
         /\ B[p].size \in Nat /\ B[p].size >= kMinBlock /\ B[p].size > 0
         /\ g_start <= p /\ p + B[p].size <= g_end
         /\ B[p].used \in BOOLEAN /\ B[p].next \in Nat /\ B[p].prev \in Nat
         /\ IF B[p].next = Null THEN p + B[p].size = g_end
            ELSE /\ B[p].next = p + B[p].size
                 /\ p + B[p].size \in DOMAIN B
                 /\ B[p + B[p].size].prev = p
         /\ IF B[p].prev = Null THEN p = g_start
            ELSE B[p].prev \in DOMAIN B /\ B[B[p].prev].next = p
         /\ \A q \in DOMAIN B : p < q => p + B[p].size <= q
<1>1. B[p] \in Header /\ p \in Nat /\ p # Null
  BY DEF List
<1>2. /\ B[p].size \in Nat /\ B[p].used \in BOOLEAN
      /\ B[p].next \in Nat /\ B[p].prev \in Nat
  BY <1>1 DEF Header
<1>3. B[p].size >= kMinBlock
  BY DEF List, Tiles
<1>4. B[p].size > 0
  BY <1>2, <1>3, HeapAssumption
<1>5. QED BY <1>1, <1>2, <1>3, <1>4 DEF List, Tiles

\* Links stay on the list.
LEMMA NextIn ==
  ASSUME NEW B, List(B), NEW p \in DOMAIN B, B[p].next # Null
  PROVE  B[p].next \in DOMAIN B /\ B[p].next # p /\ B[B[p].next].prev = p
  BY TileOf

\* Swallowing the block behind leaves one block where there were two.
LEMMA AbsorbTiles ==
  ASSUME NEW B, List(B), NEW b \in DOMAIN B, NEW c, c = B[b].next, c # Null
  PROVE  /\ List(Absorb(B, b, c))
         /\ c \in DOMAIN B /\ c # b
         /\ DOMAIN Absorb(B, b, c) = DOMAIN B \ {c}
         /\ Absorb(B, b, c)[b].size = B[b].size + B[c].size
         /\ Absorb(B, b, c)[b].next = B[c].next
         /\ Absorb(B, b, c)[b].used <=> B[b].used
         /\ \A x \in DOMAIN B \ {b, c} : /\ Absorb(B, b, c)[x].size = B[x].size
                                         /\ Absorb(B, b, c)[x].used <=> B[x].used
                                         /\ Absorb(B, b, c)[x].next = B[x].next
<1> DEFINE C == Absorb(B, b, c)
           after == B[c].next
<1>1. /\ c \in DOMAIN B /\ c = b + B[b].size /\ B[c].prev = b
      /\ b \in Nat /\ c \in Nat /\ b < c
  BY TileOf
<1>2. after # Null => after \in DOMAIN B /\ after = c + B[c].size /\ after > c /\ B[after].prev = c
  BY <1>1, TileOf
<1>3. DOMAIN C = DOMAIN B \ {c}
  BY DEF Absorb
<1>4. C[b] = [B[b] EXCEPT !.size = B[b].size + B[c].size, !.next = after]
  BY <1>1 DEF Absorb
<1>5. \A x \in DOMAIN B \ {b, c} :
        C[x] = IF x = after THEN [B[x] EXCEPT !.prev = b] ELSE B[x]
  BY DEF Absorb
<1>6. /\ C[b].size = B[b].size + B[c].size /\ C[b].next = after
      /\ C[b].prev = B[b].prev /\ (C[b].used <=> B[b].used)
  BY <1>4, TileOf DEF Header
<1>7. \A x \in DOMAIN B \ {b, c} : /\ C[x].size = B[x].size
                                   /\ C[x].used <=> B[x].used
                                   /\ C[x].next = B[x].next
                                   /\ C[x].prev = IF x = after THEN b ELSE B[x].prev
  <2> HIDE DEF C
  <2>1. \A x \in DOMAIN B : B[x] \in Header
    BY TileOf
  <2>2. QED BY <1>5, <2>1 DEF Header
<1>8. C \in [DOMAIN C -> Header]
  <2>1. C = [x \in DOMAIN C |-> C[x]]
    BY <1>3 DEF Absorb
  <2> HIDE DEF C
  <2>2. C[b] \in Header
    <3>1. B[b].size + B[c].size \in Nat /\ after \in Nat /\ B[b] \in Header
      BY <1>1, TileOf
    <3>2. QED BY <1>4, <3>1 DEF Header
  <2>3. \A x \in DOMAIN B \ {b, c} : C[x] \in Header
    <3>1. \A x \in DOMAIN B : B[x] \in Header
      BY TileOf
    <3>2. \A r \in Header : [r EXCEPT !.prev = b] \in Header
      BY <1>1 DEF Header
    <3>3. QED BY <1>5, <3>1, <3>2
  <2>4. QED BY <2>1, <2>2, <2>3, <1>3
<1> HIDE DEF C
<1>9. g_start \in DOMAIN C
  <2>1. c # g_start
    BY <1>1, TileOf, HeapAssumption
  <2>2. QED BY <1>3, <2>1 DEF List, Tiles
<1>10. \A x, y \in DOMAIN C : x < y => x + C[x].size <= y
  <2> SUFFICES ASSUME NEW x \in DOMAIN C, NEW y \in DOMAIN C, x < y
               PROVE  x + C[x].size <= y
    OBVIOUS
  <2>1. x \in DOMAIN B /\ y \in DOMAIN B /\ x # c /\ y # c
    BY <1>3
  <2>2. CASE x = b
    <3>1. y \in Nat /\ b + B[b].size <= y
      BY <2>1, <2>2, TileOf
    <3>2. c < y
      BY <1>1, <2>1, <3>1
    <3>3. c + B[c].size <= y
      BY <1>1, <2>1, <3>2, TileOf
    <3>4. B[b].size \in Nat /\ B[c].size \in Nat
      BY <1>1, TileOf
    <3>5. QED BY <1>1, <1>6, <2>2, <3>1, <3>3, <3>4
  <2>3. CASE x # b
    BY <1>7, <2>1, <2>3, TileOf
  <2>4. QED BY <2>2, <2>3
<1>11. ASSUME NEW x \in DOMAIN C
       PROVE  /\ g_start <= x /\ x + C[x].size <= g_end
              /\ C[x].size >= kMinBlock
              /\ IF C[x].next = Null THEN x + C[x].size = g_end
                 ELSE /\ C[x].next = x + C[x].size
                      /\ x + C[x].size \in DOMAIN C
                      /\ C[x + C[x].size].prev = x
              /\ IF C[x].prev = Null THEN x = g_start
                 ELSE C[x].prev \in DOMAIN C /\ C[C[x].prev].next = x
  <2>1. x \in DOMAIN B /\ x # c
    BY <1>3
  <2>2. CASE x = b
    <3>1. x + C[x].size = c + B[c].size /\ C[x].size >= kMinBlock
      BY <1>1, <1>6, <2>2, TileOf, HeapAssumption
    <3>2. IF C[x].next = Null THEN x + C[x].size = g_end
          ELSE C[x].next = x + C[x].size /\ x + C[x].size \in DOMAIN C
      BY <1>1, <1>2, <1>3, <1>6, <2>2, <3>1, TileOf
    <3>3. after # Null => C[after].prev = b
      BY <1>1, <1>2, <1>7
    <3>4. B[b].prev # Null => B[b].prev \in DOMAIN B /\ B[B[b].prev].next = b
      BY TileOf
    <3>5. B[b].prev # Null => B[b].prev # b /\ B[b].prev # c
      BY <1>1, <1>2, <3>4, TileOf
    <3>6. IF C[x].prev = Null THEN x = g_start
          ELSE C[x].prev \in DOMAIN C /\ C[C[x].prev].next = x
      BY <1>3, <1>6, <1>7, <2>2, <3>4, <3>5, TileOf
    <3>7. g_start <= x /\ x + C[x].size <= g_end
      BY <1>1, <2>2, <3>1, TileOf
    <3>8. QED BY <1>6, <2>2, <3>1, <3>2, <3>3, <3>6, <3>7
  <2>3. CASE x # b
    <3>1. C[x].size = B[x].size /\ C[x].next = B[x].next
      BY <1>7, <2>1, <2>3
    <3>2. B[x].next # c
      BY <1>1, <2>1, <2>3, TileOf
    <3>3. IF C[x].next = Null THEN x + C[x].size = g_end
          ELSE C[x].next = x + C[x].size /\ x + C[x].size \in DOMAIN C
      BY <1>3, <2>1, <3>1, <3>2, TileOf
    <3>4. ASSUME C[x].next # Null PROVE C[C[x].next].prev = x
      <4>1. B[x].next \in DOMAIN B /\ B[B[x].next].prev = x
        BY <2>1, <3>1, <3>4, TileOf
      <4>2. B[x].next # after
        BY <1>1, <1>2, <2>1, <3>1, <3>4, <4>1
      <4>3. CASE B[x].next = b
        BY <1>6, <3>1, <4>1, <4>3
      <4>4. CASE B[x].next # b
        BY <1>7, <3>1, <3>2, <4>1, <4>2, <4>4
      <4>5. QED BY <4>3, <4>4
    <3>5. IF C[x].prev = Null THEN x = g_start
          ELSE C[x].prev \in DOMAIN C /\ C[C[x].prev].next = x
      <4>1. CASE x = after
        <5>1. C[x].prev = b
          BY <1>7, <2>1, <2>3, <4>1
        <5>2. b # Null /\ b \in DOMAIN C /\ C[b].next = x
          BY <1>1, <1>3, <1>6, <4>1, TileOf
        <5>3. QED BY <5>1, <5>2, Zenon
      <4>2. CASE x # after
        <5>1. C[x].prev = B[x].prev
          BY <1>7, <2>1, <2>3, <4>2
        <5>2. B[x].prev # Null => B[x].prev \in DOMAIN B /\ B[B[x].prev].next = x
          BY <2>1, TileOf
        <5>3. B[x].prev # Null => B[x].prev \in DOMAIN B \ {b, c}
          BY <2>1, <2>3, <4>2, <5>2
        <5>4. B[x].prev # Null => B[x].prev \in DOMAIN C /\ C[B[x].prev].next = x
          BY <1>3, <1>7, <5>2, <5>3
        <5>5. B[x].prev = Null => x = g_start
          BY <2>1, TileOf
        <5>6. QED BY <5>1, <5>4, <5>5
      <4>3. QED BY <4>1, <4>2
    <3>6. C[x].size >= kMinBlock /\ g_start <= x /\ x + C[x].size <= g_end
      BY <2>1, <3>1, TileOf
    <3>7. QED BY <3>3, <3>4, <3>5, <3>6
  <2>4. QED BY <2>2, <2>3
<1>12. List(C)
  <2>1. Tiles(C)
    BY <1>9, <1>10, <1>11 DEF Tiles
  <2>2. DOMAIN C \subseteq Nat \ {Null}
    BY <1>3 DEF List
  <2>3. QED BY <1>8, <2>1, <2>2 DEF List
<1>13. QED
  BY <1>1, <1>3, <1>6, <1>7, <1>12 DEF C

-----------------------------------------------------------------------------
(* Alignment                                                               *)

Grid == {q * kAlign : q \in Nat}
OnGrid(B) == \A b \in DOMAIN B : b \in Grid

\* align_up returns the next multiple.
LEMMA AlignUp ==
  ASSUME NEW v \in Nat, NEW a \in Nat \ {0}
  PROVE  /\ align_up(v, a) \in Nat
         /\ v <= align_up(v, a) /\ align_up(v, a) < v + a
         /\ \E q \in Nat : align_up(v, a) = q * a
<1>1. PICK q \in Nat : q = (v + a - 1) \div a
  OBVIOUS
<1>2. q * a <= v + a - 1 /\ v + a - 1 < q * a + a
  BY <1>1
<1>3. align_up(v, a) = q * a /\ q * a \in Nat
  BY <1>1 DEF align_up
<1>4. QED BY <1>2, <1>3

\* Headers move by multiples of kAlign.
LEMMA GridSum ==
  ASSUME NEW x \in Grid, NEW y \in Grid
  PROVE  x + y \in Grid /\ (y <= x => x - y \in Grid)
<1>1. PICK q \in Nat, r \in Nat : x = q * kAlign /\ y = r * kAlign
  BY DEF Grid
<1>2. kAlign \in Nat /\ kAlign > 0
  BY HeapAssumption
<1>3. x + y = (q + r) * kAlign /\ x - y = (q - r) * kAlign
  BY <1>1, <1>2
<1>4. y <= x => r <= q
  BY <1>1, <1>2
<1>5. q + r \in Nat /\ (r <= q => q - r \in Nat)
  OBVIOUS
<1>6. QED BY <1>3, <1>4, <1>5 DEF Grid

\* What is on the grid is aligned as kmalloc promises.
LEMMA GridAligned ==
  ASSUME NEW v \in Nat, NEW a \in Nat \ {0}, NEW q \in Nat, v = q * a
  PROVE  A!Multiple(v, a)
<1>1. q <= v
  <2>1. q * (a - 1) >= 0
    OBVIOUS
  <2>2. q * a = q + q * (a - 1)
    OBVIOUS
  <2>3. QED BY <2>1, <2>2
<1>2. q \in 0 .. v
  BY <1>1
<1>3. QED BY <1>2 DEF A!Multiple

\* A request becomes a block of the grid with room for its header.
LEMMA NeedFits ==
  ASSUME NEW n \in Nat, n > 0
  PROVE  Need(n) \in Grid /\ Need(n) \in Nat /\ n + kAlign <= Need(n) /\ kMinBlock <= Need(n)
<1>1. kAlign \in Nat \ {0} /\ n + kAlign \in Nat /\ kMinBlock = 2 * kAlign
  BY HeapAssumption
<1>2. PICK q \in Nat : Need(n) = q * kAlign
  BY <1>1, AlignUp DEF Need
<1>3. Need(n) \in Nat /\ n + kAlign <= Need(n)
  BY <1>1, AlignUp DEF Need
<1>4. q >= 2
  <2>1. CASE q = 0
    BY <1>1, <1>2, <1>3, <2>1
  <2>2. CASE q = 1
    BY <1>1, <1>2, <1>3, <2>2
  <2>3. QED BY <2>1, <2>2
<1>5. q * kAlign >= 2 * kAlign
  BY <1>1, <1>4
<1>6. QED BY <1>1, <1>2, <1>3, <1>5 DEF Grid

-----------------------------------------------------------------------------
(* The calls                                                               *)

Sound(B) == List(B) /\ Merged(B) /\ OnGrid(B)

\* Merged, but for what is before b.
MergedBehind(B, b) ==
  \A x \in DOMAIN B : ~B[x].used /\ B[x].next \notin {Null, b} => B[B[x].next].used

SameSizes(B, C, S) == \A x \in S : C[x].size = B[x].size

\* Taking the front of a free block, as kmalloc and kframe_alloc_n do.
LEMMA Take ==
  ASSUME NEW B, List(B), OnGrid(B), NEW b \in DOMAIN B, ~B[b].used, MergedBehind(B, b),
         NEW n \in Grid, n \in Nat, kMinBlock <= n, n <= B[b].size,
         NEW C, C = MarkUsed(split(B, b, n), b)
  PROVE  /\ Sound(C)
         /\ Used(C) = Used(B) \cup {b}
         /\ SameSizes(B, C, Used(B))
         /\ n <= C[b].size
<1>1. B[b].size \in Nat /\ kMinBlock \in Nat /\ b \in Nat /\ b \in Grid
  BY TileOf, HeapAssumption DEF OnGrid
<1>2. CASE B[b].size < n + kMinBlock
  <2>1. split(B, b, n) = B
    BY <1>2 DEF split
  <2>2. C = MarkUsed(B, b)
    BY <2>1
  <2>3. /\ List(C) /\ DOMAIN C = DOMAIN B /\ C[b].used
        /\ \A x \in DOMAIN B : C[x].size = B[x].size /\ C[x].next = B[x].next
        /\ \A x \in DOMAIN B \ {b} : C[x].used <=> B[x].used
    BY <2>2, UsedTiles
  <2>4. Merged(C)
    <3>1. SUFFICES ASSUME NEW x \in DOMAIN B, ~C[x].used, C[x].next # Null
                   PROVE  C[C[x].next].used
      BY <2>3 DEF Merged
    <3>2. C[x].next = B[x].next /\ B[x].next \in DOMAIN B
      BY <2>3, <3>1, NextIn
    <3>3. ~B[x].used
      BY <2>3, <3>1
    <3>4. B[x].next = b \/ B[B[x].next].used
      BY <2>3, <3>1, <3>2, <3>3 DEF MergedBehind
    <3>5. QED BY <2>3, <3>2, <3>4
  <2>5. OnGrid(C)
    BY <2>3 DEF OnGrid
  <2>6. Used(C) = Used(B) \cup {b} /\ SameSizes(B, C, Used(B)) /\ n <= C[b].size
    BY <2>3 DEF Used, SameSizes
  <2>7. QED BY <2>3, <2>4, <2>5, <2>6 DEF Sound
<1>3. CASE ~(B[b].size < n + kMinBlock)
  <2> DEFINE D == Cut(B, b, n)
             t == b + n
  <2>1. split(B, b, n) = D
    BY <1>3 DEF split
  <2>2. n + kMinBlock <= B[b].size
    BY <1>1, <1>3
  <2>3. /\ List(D) /\ t \notin DOMAIN B
        /\ DOMAIN D = DOMAIN B \cup {t}
        /\ D[b].size = n /\ D[b].next = t
        /\ D[t].next = B[b].next /\ ~D[t].used
        /\ \A x \in DOMAIN B \ {b} : /\ D[x].size = B[x].size
                                     /\ D[x].used <=> B[x].used
                                     /\ D[x].next = B[x].next
    BY <2>2, CutTiles
  <2> HIDE DEF D
  <2>4. C = MarkUsed(D, b) /\ b \in DOMAIN D
    BY <2>1, <2>3
  <2>5. /\ List(C) /\ DOMAIN C = DOMAIN D /\ C[b].used
        /\ \A x \in DOMAIN D : C[x].size = D[x].size /\ C[x].next = D[x].next
        /\ \A x \in DOMAIN D \ {b} : C[x].used <=> D[x].used
    BY <2>3, <2>4, UsedTiles
  <2>6. Merged(C)
    <3>1. SUFFICES ASSUME NEW x \in DOMAIN D, ~C[x].used, C[x].next # Null
                   PROVE  C[C[x].next].used
      BY <2>5 DEF Merged
    <3>2. x # b
      BY <2>5, <3>1
    <3>3. CASE x = t
      <4>1. C[x].next = B[b].next /\ B[b].next \in DOMAIN B
        BY <2>3, <2>5, <3>1, <3>3, NextIn
      <4>2. B[b].next # b
        BY <3>1, <4>1, NextIn
      <4>3. B[B[b].next].used
        BY <3>1, <4>1, <4>2 DEF MergedBehind
      <4>4. QED BY <2>3, <2>5, <4>1, <4>2, <4>3
    <3>4. CASE x \in DOMAIN B
      <4>0. ~B[x].used /\ C[x].next = B[x].next
        BY <2>3, <2>5, <3>1, <3>2, <3>4
      <4>1. ~B[x].used /\ C[x].next = B[x].next /\ B[x].next \in DOMAIN B
        BY <3>1, <3>4, <4>0, NextIn
      <4>2. CASE B[x].next = b
        BY <2>3, <2>5, <4>1, <4>2
      <4>3. CASE B[x].next # b
        <5>1. B[B[x].next].used
          BY <3>1, <3>4, <4>1, <4>3 DEF MergedBehind
        <5>2. QED BY <2>3, <2>5, <4>1, <4>3, <5>1
      <4>4. QED BY <4>2, <4>3
    <3>5. QED BY <2>3, <3>3, <3>4
  <2>7. OnGrid(C)
    <3>1. t \in Grid
      BY <1>1, GridSum
    <3>2. QED BY <2>3, <2>5, <3>1 DEF OnGrid
  <2>8. Used(C) = Used(B) \cup {b}
    <3>1. \A x \in DOMAIN B \ {b} : C[x].used <=> B[x].used
      BY <2>3, <2>5
    <3>2. t # b /\ ~C[t].used
      BY <2>3, <2>5
    <3>3. DOMAIN C = DOMAIN B \cup {t} /\ C[b].used
      BY <2>3, <2>5
    <3>4. QED BY <3>1, <3>2, <3>3 DEF Used
  <2>9. SameSizes(B, C, Used(B)) /\ n <= C[b].size
    <3>1. C[b].size = n
      BY <2>3, <2>5
    <3>2. \A x \in DOMAIN B \ {b} : C[x].size = B[x].size
      BY <2>3, <2>5
    <3>3. QED BY <1>1, <3>1, <3>2 DEF SameSizes, Used
  <2>10. QED BY <2>5, <2>6, <2>7, <2>8, <2>9 DEF Sound
<1>4. QED BY <1>2, <1>3

\* The merge with the block behind a freed one.
LEMMA MergeNextOK ==
  ASSUME NEW B, List(B), OnGrid(B), NEW b \in DOMAIN B, ~B[b].used,
         \A x \in DOMAIN B \ {b} :
           ~B[x].used /\ B[x].next \notin {Null, b} => B[B[x].next].used,
         NEW C, C = MergeNext(B, b)
  PROVE  /\ List(C) /\ OnGrid(C) /\ MergedBehind(C, b)
         /\ b \in DOMAIN C /\ ~C[b].used
         /\ Used(C) = Used(B)
         /\ SameSizes(B, C, Used(B))
<1> DEFINE n == B[b].next
<1>1. CASE n # Null /\ ~B[n].used
  <2>1. C = Absorb(B, b, n)
    BY <1>1 DEF MergeNext
  <2>2. /\ List(C) /\ n \in DOMAIN B /\ n # b
        /\ DOMAIN C = DOMAIN B \ {n}
        /\ C[b].next = B[n].next /\ (C[b].used <=> B[b].used)
        /\ \A x \in DOMAIN B \ {b, n} : /\ C[x].size = B[x].size
                                        /\ C[x].used <=> B[x].used
                                        /\ C[x].next = B[x].next
    BY <1>1, <2>1, AbsorbTiles
  <2>3. B[n].next # n /\ B[n].next # b
    BY <1>1, <2>2, TileOf
  <2>4. \A x \in DOMAIN B \ {b} : B[x].next # n
    BY <1>1, <2>2, TileOf
  <2>5. MergedBehind(C, b)
    <3>1. SUFFICES ASSUME NEW x \in DOMAIN C, ~C[x].used, C[x].next \notin {Null, b}
                   PROVE  C[C[x].next].used
      BY DEF MergedBehind
    <3>2. CASE x = b
      <4>1. B[n].next \in DOMAIN B /\ C[x].next = B[n].next
        BY <2>2, <3>1, <3>2, TileOf
      <4>2. B[B[n].next].used
        BY <1>1, <2>2, <3>1, <4>1
      <4>3. QED BY <2>2, <2>3, <4>1, <4>2
    <3>3. CASE x # b
      <4>1. x \in DOMAIN B \ {b, n} /\ C[x].next = B[x].next /\ ~B[x].used
        BY <2>2, <3>1, <3>3
      <4>2. B[x].next \in DOMAIN B \ {b, n}
        BY <2>4, <3>1, <4>1, TileOf
      <4>3. B[B[x].next].used
        BY <3>1, <4>1
      <4>4. QED BY <2>2, <4>1, <4>2, <4>3
    <3>4. QED BY <3>2, <3>3
  <2>6. OnGrid(C)
    BY <2>2 DEF OnGrid
  <2>7. Used(C) = Used(B) /\ SameSizes(B, C, Used(B))
    BY <1>1, <2>2 DEF Used, SameSizes
  <2>8. QED BY <2>2, <2>5, <2>6, <2>7
<1>2. CASE ~(n # Null /\ ~B[n].used)
  <2>1. C = B
    BY <1>2 DEF MergeNext
  <2>2. MergedBehind(B, b)
    BY <1>2 DEF MergedBehind
  <2>3. QED BY <2>1, <2>2 DEF SameSizes
<1>3. QED BY <1>1, <1>2

\* The merge with the block before a freed one.
LEMMA MergePrevOK ==
  ASSUME NEW B, List(B), OnGrid(B), NEW b \in DOMAIN B, ~B[b].used, MergedBehind(B, b),
         NEW C, C = MergePrev(B, b)
  PROVE  Sound(C) /\ Used(C) = Used(B) /\ SameSizes(B, C, Used(B))
<1> DEFINE p == B[b].prev
<1>1. CASE p # Null /\ ~B[p].used
  <2>1. C = Absorb(B, p, b)
    BY <1>1 DEF MergePrev
  <2>2. p \in DOMAIN B /\ b = B[p].next /\ b # Null
    BY <1>1, TileOf
  <2> HIDE DEF p
  <2>3. /\ List(C) /\ p # b
        /\ DOMAIN C = DOMAIN B \ {b}
        /\ C[p].next = B[b].next /\ (C[p].used <=> B[p].used)
        /\ \A x \in DOMAIN B \ {p, b} : /\ C[x].size = B[x].size
                                        /\ C[x].used <=> B[x].used
                                        /\ C[x].next = B[x].next
    BY <2>1, <2>2, AbsorbTiles
  <2>4. B[b].next # b /\ B[b].next # p
    BY <2>2, TileOf
  <2>5. \A x \in DOMAIN B \ {p} : B[x].next # b
    BY <2>2, TileOf
  <2>6. Merged(C)
    <3>1. SUFFICES ASSUME NEW x \in DOMAIN C, ~C[x].used, C[x].next # Null
                   PROVE  C[C[x].next].used
      BY DEF Merged
    <3>2. CASE x = p
      <4>1. B[b].next \in DOMAIN B /\ C[x].next = B[b].next
        BY <2>3, <3>1, <3>2, TileOf
      <4>2. B[B[b].next].used
        BY <2>4, <3>1, <4>1 DEF MergedBehind
      <4>3. QED BY <2>3, <2>4, <4>1, <4>2
    <3>3. CASE x # p
      <4>1. x \in DOMAIN B \ {p, b} /\ C[x].next = B[x].next /\ ~B[x].used
        BY <2>3, <3>1, <3>3
      <4>2. B[x].next \in DOMAIN B /\ B[x].next # b
        BY <2>5, <3>1, <4>1, TileOf
      <4>3. B[B[x].next].used
        BY <3>1, <4>1, <4>2 DEF MergedBehind
      <4>4. QED BY <1>1, <2>3, <4>1, <4>2, <4>3
    <3>4. QED BY <3>2, <3>3
  <2>7. OnGrid(C)
    BY <2>3 DEF OnGrid
  <2>8. Used(C) = Used(B) /\ SameSizes(B, C, Used(B))
    BY <1>1, <2>3 DEF Used, SameSizes
  <2>9. QED BY <2>3, <2>6, <2>7, <2>8 DEF Sound
<1>2. CASE ~(p # Null /\ ~B[p].used)
  <2>1. C = B
    BY <1>2 DEF MergePrev
  <2>2. Merged(B)
    <3>1. SUFFICES ASSUME NEW x \in DOMAIN B, ~B[x].used, B[x].next # Null
                   PROVE  B[B[x].next].used
      BY DEF Merged
    <3>2. B[x].next # b
      BY <1>2, <3>1, TileOf
    <3>3. QED BY <3>1, <3>2 DEF MergedBehind
  <2>3. QED BY <2>1, <2>2 DEF Sound, SameSizes
<1>3. QED BY <1>1, <1>2

\* The first block of a walk that finds one.
LEMMA FirstIn ==
  ASSUME NEW S, S \subseteq Nat, First(S) # Null
  PROVE  First(S) \in S
<1>1. S # {}
  BY DEF First
<1>2. IsWellFoundedOn(OpToRel(<, Nat), Nat)
  BY NatLessThanWellFounded
<1>3. PICK m \in S : \A y \in S : ~(<<y, m>> \in OpToRel(<, Nat))
  BY <1>1, <1>2, WFMin
<1>4. \A y \in S : m <= y
  <2>1. SUFFICES ASSUME NEW y \in S, ~(m <= y) PROVE FALSE
    OBVIOUS
  <2>2. y < m /\ <<y, m>> \in Nat \X Nat
    BY <2>1
  <2>3. <<y, m>> \in OpToRel(<, Nat)
    BY <2>2 DEF OpToRel
  <2>4. QED BY <1>3, <2>3
<1>5. QED BY <1>1, <1>4 DEF First

\* C is B with block b taken for n bytes, and nothing else taken or touched.
Gives(B, C, b, n) ==
  /\ Sound(C)
  /\ b \notin Used(B) /\ Used(C) = Used(B) \cup {b}
  /\ SameSizes(B, C, Used(B))
  /\ n + kAlign <= C[b].size

\* C is B with block b given back.
Releases(B, C, b) ==
  /\ Sound(C)
  /\ Used(C) = Used(B) \ {b}
  /\ SameSizes(B, C, Used(C))

\* kmalloc takes a free block that is large enough, or nothing.
LEMMA KmallocGives ==
  ASSUME NEW B, Sound(B), NEW n \in Nat, NEW r, r = kmalloc(B, n)
  PROVE  \/ r.ptr = Null /\ r.blk = B
         \/ /\ r.ptr # Null /\ r.ptr \in Nat /\ r.ptr - kAlign \in DOMAIN B
            /\ Gives(B, r.blk, r.ptr - kAlign, n)
<1> DEFINE m == IF n = 0 THEN 1 ELSE n
           bytes == Need(m)
           S == {b \in DOMAIN B : ~B[b].used /\ B[b].size >= bytes}
           b == First(S)
<1>1. CASE n + kAlign > kSizeMax \/ b = Null
  BY <1>1 DEF kmalloc, find_fit, Failed
<1>2. CASE ~(n + kAlign > kSizeMax \/ b = Null)
  <2>1. r.ptr = b + kAlign /\ r.blk = MarkUsed(split(B, b, bytes), b)
    BY <1>2 DEF kmalloc, find_fit
  <2>2. List(B) /\ OnGrid(B) /\ Merged(B)
    BY DEF Sound
  <2>3. S \subseteq Nat
    BY <2>2 DEF List
  <2>4. b \in S
    BY <1>2, <2>3, FirstIn
  <2>5. m \in Nat /\ m > 0 /\ n <= m
    OBVIOUS
  <2> HIDE DEF b, m
  <2>6. /\ bytes \in Grid /\ bytes \in Nat
        /\ m + kAlign <= bytes /\ kMinBlock <= bytes
    BY <2>5, NeedFits
  <2> HIDE DEF bytes
  <2>7. b \in DOMAIN B /\ ~B[b].used /\ bytes <= B[b].size /\ b \in Nat /\ b # Null
    BY <2>2, <2>4, <2>6, TileOf
  <2>8. MergedBehind(B, b)
    BY <2>2 DEF Merged, MergedBehind
  <2>9. /\ Sound(r.blk) /\ Used(r.blk) = Used(B) \cup {b}
        /\ SameSizes(B, r.blk, Used(B)) /\ bytes <= r.blk[b].size
    BY <2>1, <2>2, <2>6, <2>7, <2>8, Take
  <2>10. n + kAlign <= r.blk[b].size
    <3>1. b \in DOMAIN r.blk /\ List(r.blk)
      BY <2>9 DEF Used, Sound
    <3>2. r.blk[b].size \in Nat
      BY <3>1, TileOf
    <3>3. QED BY <2>5, <2>6, <2>9, <3>2, HeapAssumption
  <2>11. b \notin Used(B)
    BY <2>7 DEF Used
  <2>12. r.ptr # Null /\ r.ptr \in Nat /\ r.ptr - kAlign = b
    BY <2>1, <2>7, HeapAssumption DEF Null
  <2>13. QED BY <2>7, <2>9, <2>10, <2>11, <2>12 DEF Gives
<1>3. QED BY <1>1, <1>2

\* kcalloc asks kmalloc for the product, which does not wrap.
LEMMA KcallocGives ==
  ASSUME NEW B, Sound(B), NEW n \in Nat, NEW size \in Nat, NEW r, r = kcalloc(B, n, size)
  PROVE  \/ r.ptr = Null /\ r.blk = B
         \/ /\ r.ptr # Null /\ r.ptr \in Nat /\ r.ptr - kAlign \in DOMAIN B
            /\ Gives(B, r.blk, r.ptr - kAlign, n * size)
<1>1. CASE n # 0 /\ size > (Word - 1) \div n
  BY <1>1 DEF kcalloc, Failed
<1>2. CASE ~(n # 0 /\ size > (Word - 1) \div n)
  <2>1. Word \in Nat /\ Word > 0 /\ n * size \in Nat
    BY HeapAssumption
  <2>2. n * size < Word
    <3>1. CASE n = 0
      BY <2>1, <3>1
    <3>2. CASE n # 0
      <4>1. PICK q \in Nat : q = (Word - 1) \div n
        BY <2>1, <3>2
      <4>2. q * n <= Word - 1
        BY <2>1, <3>2, <4>1
      <4>3. size <= q
        BY <1>2, <3>2, <4>1
      <4>4. n * size <= q * n
        BY <4>3
      <4>5. QED BY <2>1, <4>2, <4>4
    <3>3. QED BY <3>1, <3>2
  <2>3. (n * size) % Word = n * size
    BY <2>1, <2>2
  <2>4. r = kmalloc(B, n * size)
    BY <1>2, <2>3 DEF kcalloc
  <2>5. QED BY <2>1, <2>4, KmallocGives
<1>3. QED BY <1>1, <1>2

\* kfree gives a block back and merges it with its neighbours.
LEMMA KfreeReleases ==
  ASSUME NEW B, Sound(B), NEW p \in Nat, Ours(B, p), NEW C, C = kfree(B, p)
  PROVE  Releases(B, C, p - kAlign)
<1> DEFINE b == p - kAlign
           F == MarkFree(B, b)
           D == MergeNext(F, b)
<1>1. b \in DOMAIN B /\ B[b].used /\ List(B) /\ Merged(B) /\ OnGrid(B)
  BY DEF Ours, Sound
<1>2. C = MergePrev(D, b)
  BY DEF kfree
<1> HIDE DEF b
<1>3. /\ List(F) /\ DOMAIN F = DOMAIN B /\ ~F[b].used
      /\ \A x \in DOMAIN B \ {b} : F[x].used <=> B[x].used
      /\ \A x \in DOMAIN B : F[x].size = B[x].size /\ F[x].next = B[x].next
  BY <1>1, FreeTiles
<1> HIDE DEF F
<1>4. \A x \in DOMAIN F \ {b} :
        ~F[x].used /\ F[x].next \notin {Null, b} => F[F[x].next].used
  <2>1. SUFFICES ASSUME NEW x \in DOMAIN B \ {b}, ~F[x].used, F[x].next \notin {Null, b}
                 PROVE  F[F[x].next].used
    BY <1>3
  <2>2. ~B[x].used /\ B[x].next \notin {Null, b} /\ F[x].next = B[x].next
    BY <1>3, <2>1
  <2>3. B[B[x].next].used /\ B[x].next \in DOMAIN B
    BY <1>1, <2>1, <2>2, NextIn DEF Merged
  <2>4. QED BY <1>3, <2>2, <2>3
<1>5. OnGrid(F) /\ b \in DOMAIN F
  BY <1>1, <1>3 DEF OnGrid
<1>6. /\ List(D) /\ OnGrid(D) /\ MergedBehind(D, b)
      /\ b \in DOMAIN D /\ ~D[b].used
      /\ Used(D) = Used(F) /\ SameSizes(F, D, Used(F))
  BY <1>3, <1>4, <1>5, MergeNextOK
<1> HIDE DEF D
<1>7. Sound(C) /\ Used(C) = Used(D) /\ SameSizes(D, C, Used(D))
  BY <1>2, <1>6, MergePrevOK
<1>8. Used(F) = Used(B) \ {b} /\ SameSizes(B, F, Used(F))
  BY <1>3 DEF Used, SameSizes
<1>9. QED BY <1>6, <1>7, <1>8 DEF Releases, SameSizes, b

\* Frames: the header goes right before a page, and the page is the pointer.
LEMMA KframeGives ==
  ASSUME NEW B, Sound(B), NEW pages \in Nat, NEW r, r = kframe_alloc_n(B, pages)
  PROVE  \/ r.ptr = Null /\ r.blk = B
         \/ /\ r.ptr # Null /\ r.ptr \in Nat
            /\ Gives(B, r.blk, r.ptr - kAlign, pages * kPage)
            /\ \E q \in Nat : r.ptr = q * kPage
<1> DEFINE want == pages * kPage + kAlign
           S == {b \in DOMAIN B : FrameFits(B, b, want)}
           left == First(S)
           cut == FrameCut(left)
           right == left + cut
           D == IF cut = 0 THEN B ELSE Cut(B, left, cut)
<1>1. CASE pages = 0 \/ left = Null
  BY <1>1 DEF kframe_alloc_n, Failed
<1>2. CASE ~(pages = 0 \/ left = Null)
  <2>1. r.ptr = right + kAlign /\ r.blk = MarkUsed(split(D, right, want), right)
    BY <1>2 DEF kframe_alloc_n
  <2>2. List(B) /\ OnGrid(B) /\ Merged(B)
    BY DEF Sound
  <2>3. S \subseteq Nat
    BY <2>2 DEF List
  <2>4. left \in S
    BY <1>2, <2>3, FirstIn
  <2> HIDE DEF left
  <2>5. /\ left \in DOMAIN B /\ left \in Nat /\ ~B[left].used /\ left # Null
        /\ B[left].size \in Nat
        /\ cut + want <= B[left].size
        /\ cut = 0 \/ cut >= kMinBlock
    BY <2>2, <2>4, TileOf DEF FrameFits
  <2>6. /\ kAlign \in Nat \ {0} /\ kPage \in Nat \ {0} /\ kMinBlock = 2 * kAlign
        /\ left + kAlign \in Nat
    BY <2>5, HeapAssumption
  <2>7. PICK q \in Nat : align_up(left + kAlign, kPage) = q * kPage
    BY <2>6, AlignUp
  <2>8. cut = q * kPage - kAlign - left /\ left + kAlign <= q * kPage /\ q * kPage \in Nat
    BY <2>6, <2>7, AlignUp DEF FrameCut
  <2>9. cut \in Nat /\ right + kAlign = q * kPage /\ right \in Nat
    BY <2>5, <2>6, <2>8
  <2>10. PICK g \in Nat : kPage = g * kAlign
    BY AlignAssumption, HeapAssumption
  <2>11. want \in Grid /\ want \in Nat /\ kMinBlock <= want
    <3>1. want = (pages * g + 1) * kAlign
      BY <2>6, <2>10
    <3>2. pages * g + 1 \in Nat
      OBVIOUS
    <3>3. g >= 1 /\ pages >= 1
      BY <1>2, <2>6, <2>10
    <3>4. pages * g >= 1
      BY <3>3
    <3>5. (pages * g + 1) * kAlign >= 2 * kAlign
      BY <2>6, <3>2, <3>4
    <3>6. want \in Grid
      BY <3>1, <3>2 DEF Grid
    <3>7. want \in Nat
      BY <2>6
    <3>8. QED BY <2>6, <3>1, <3>5, <3>6, <3>7
  <2>12. right \in Grid
    <3>1. q * kPage = (q * g) * kAlign /\ q * g \in Nat
      BY <2>6, <2>10
    <3>2. q * g >= 1
      <4>1. q * kPage >= 1
        BY <2>5, <2>6, <2>8
      <4>2. q * g = 0 => (q * g) * kAlign = 0
        BY <2>6
      <4>3. QED BY <3>1, <4>1, <4>2
    <3>3. right = (q * g - 1) * kAlign
      BY <2>6, <2>9, <3>1
    <3>4. QED BY <3>1, <3>2, <3>3 DEF Grid
  <2> HIDE DEF cut, want
  <2>13. /\ List(D) /\ OnGrid(D) /\ right \in DOMAIN D /\ ~D[right].used
         /\ MergedBehind(D, right) /\ want <= D[right].size
         /\ Used(D) = Used(B) /\ SameSizes(B, D, Used(B))
    <3>1. CASE cut = 0
      <4>1. D = B /\ right = left
        BY <2>5, <3>1
      <4>2. want <= B[left].size
        BY <2>5, <2>9, <2>11, <3>1
      <4>3. MergedBehind(B, left)
        BY <2>2 DEF Merged, MergedBehind
      <4>4. QED BY <2>2, <2>5, <4>1, <4>2, <4>3 DEF SameSizes
    <3>2. CASE cut # 0
      <4>1. D = Cut(B, left, cut) /\ cut >= kMinBlock /\ cut + kMinBlock <= B[left].size
        BY <2>5, <2>6, <2>9, <2>11, <3>2
      <4> HIDE DEF D
      <4>2. /\ List(D) /\ right \notin DOMAIN B
            /\ DOMAIN D = DOMAIN B \cup {right}
            /\ ~D[left].used /\ D[left].next = right
            /\ D[right].size = B[left].size - cut
            /\ D[right].next = B[left].next /\ ~D[right].used
            /\ \A x \in DOMAIN B \ {left} : /\ D[x].size = B[x].size
                                            /\ D[x].used <=> B[x].used
                                            /\ D[x].next = B[x].next
        <5> DEFINE K == Cut(B, left, cut)
        <5>0. /\ List(B) /\ left \in DOMAIN B /\ cut \in Nat
              /\ cut >= kMinBlock /\ cut + kMinBlock <= B[left].size
          BY <2>2, <2>5, <2>9, <4>1
        <5>1. /\ List(K) /\ right \notin DOMAIN B
              /\ DOMAIN K = DOMAIN B \cup {right}
              /\ ~K[left].used /\ K[left].next = right
              /\ K[right].size = B[left].size - cut
              /\ K[right].next = B[left].next /\ ~K[right].used
              /\ \A x \in DOMAIN B \ {left} : /\ K[x].size = B[x].size
                                              /\ K[x].used <=> B[x].used
                                              /\ K[x].next = B[x].next
          BY <5>0, CutTiles
        <5>2. D = K
          BY <4>1
        <5> HIDE DEF K
        <5>3. QED BY <5>1, <5>2
      <4> HIDE DEF right
      <4>3. want <= D[right].size
        BY <2>5, <2>9, <2>11, <4>2
      <4>4. OnGrid(D)
        BY <2>2, <2>12, <4>2 DEF OnGrid
      <4>5. Used(D) = Used(B) /\ SameSizes(B, D, Used(B))
        BY <2>5, <4>2 DEF Used, SameSizes
      <4>6. MergedBehind(D, right)
        <5>1. SUFFICES ASSUME NEW x \in DOMAIN D, ~D[x].used, D[x].next \notin {Null, right}
                       PROVE  D[D[x].next].used
          BY DEF MergedBehind
        <5>2. x # left
          BY <4>2, <5>1
        <5>3. CASE x = right
          <6>1. D[x].next = B[left].next /\ B[left].next \in DOMAIN B \ {left}
            BY <2>2, <2>5, <4>2, <5>1, <5>3, NextIn
          <6>2. B[B[left].next].used
            BY <2>2, <2>5, <5>1, <6>1 DEF Merged
          <6>3. QED BY <4>2, <6>1, <6>2
        <5>4. CASE x \in DOMAIN B \ {left}
          <6>1. D[x].next = B[x].next /\ ~B[x].used
            BY <4>2, <5>1, <5>4
          <6>2. B[B[x].next].used /\ B[x].next \in DOMAIN B
            BY <2>2, <5>1, <5>4, <6>1, NextIn DEF Merged
          <6>3. B[x].next # left
            BY <2>5, <6>2
          <6>4. QED BY <4>2, <6>1, <6>2, <6>3
        <5>5. QED BY <4>2, <5>2, <5>3, <5>4
      <4>7. QED BY <4>2, <4>3, <4>4, <4>5, <4>6
    <3>3. QED BY <3>1, <3>2
  <2> HIDE DEF D, right
  <2>14. /\ Sound(r.blk) /\ Used(r.blk) = Used(D) \cup {right}
         /\ SameSizes(D, r.blk, Used(D)) /\ want <= r.blk[right].size
    BY <2>1, <2>11, <2>13, Take
  <2>15. SameSizes(B, r.blk, Used(B)) /\ right \notin Used(B)
    BY <2>13, <2>14 DEF SameSizes, Used
  <2>16. r.ptr = q * kPage /\ r.ptr \in Nat /\ r.ptr - kAlign = right /\ r.ptr # Null
    BY <2>1, <2>6, <2>8, <2>9 DEF Null
  <2>17. Gives(B, r.blk, right, pages * kPage)
    BY <2>13, <2>14, <2>15 DEF Gives, want
  <2>18. QED BY <2>16, <2>17
<1>3. QED BY <1>1, <1>2

\* krealloc leaves the list alone, or takes a new block before it frees the old.
LEMMA KreallocMoves ==
  ASSUME NEW B, Sound(B), NEW p \in Nat, Ours(B, p), NEW n \in Nat, n > 0,
         NEW r, r = krealloc(B, p, n)
  PROVE  \/ r.ptr = Null /\ r.blk = B
         \/ r.ptr = p /\ r.blk = B /\ n + kAlign <= B[p - kAlign].size
         \/ /\ r.ptr # Null /\ r.ptr \in Nat /\ r.ptr - kAlign \in DOMAIN B
            /\ \E C : /\ Gives(B, C, r.ptr - kAlign, n)
                      /\ Releases(C, r.blk, p - kAlign)
<1> DEFINE b == p - kAlign
           grown == IF Need(n) > B[b].size THEN Need(n) ELSE B[b].size
           fresh == kmalloc(B, n)
<1>1. b \in DOMAIN B /\ B[b].used /\ List(B)
  BY DEF Ours, Sound
<1>2. CASE n + kAlign > kSizeMax
  BY <1>2 DEF krealloc, Failed
<1>3. CASE ~(n + kAlign > kSizeMax) /\ StaysPut(B, b, n)
  <2>1. r = [ptr |-> p, blk |-> MarkUsed(split([B EXCEPT ![b].size = grown], b, grown), b)]
    BY <1>3 DEF krealloc
  <2> HIDE DEF b
  <2>2. B[b].next = Null /\ Need(n) <= g_end - b
    BY <1>3 DEF StaysPut
  <2>3. B[b].size = g_end - b /\ B[b].size \in Nat
    BY <1>1, <2>2, TileOf, HeapAssumption
  <2>4. Need(n) \in Nat /\ n + kAlign <= Need(n)
    BY NeedFits
  <2>5. grown = B[b].size /\ n + kAlign <= B[b].size
    BY <2>2, <2>3, <2>4, HeapAssumption
  <2> HIDE DEF grown
  <2>6. [B EXCEPT ![b].size = grown] = B
    <3>1. B[b] \in Header
      BY <1>1 DEF List
    <3>2. [B[b] EXCEPT !.size = grown] = B[b]
      BY <2>5, <3>1 DEF Header
    <3>3. QED BY <1>1, <3>2 DEF List
  <2>7. split(B, b, grown) = B
    BY <2>3, <2>5, HeapAssumption DEF split
  <2>8. MarkUsed(B, b) = B
    <3>1. B[b] \in Header /\ B[b].used = TRUE
      BY <1>1 DEF List, Header
    <3>2. [B[b] EXCEPT !.used = TRUE] = B[b]
      BY <3>1 DEF Header
    <3>3. QED BY <1>1, <3>2 DEF List, MarkUsed
  <2>9. r = [ptr |-> p, blk |-> B]
    BY <2>1, <2>6, <2>7, <2>8
  <2>10. QED BY <2>5, <2>9 DEF b
<1>4. CASE ~(n + kAlign > kSizeMax) /\ ~StaysPut(B, b, n)
  <2>1. CASE fresh.ptr = Null
    BY <1>4, <2>1 DEF krealloc, Failed
  <2>2. CASE fresh.ptr # Null
    <3>1. r.ptr = fresh.ptr /\ r.blk = kfree(fresh.blk, p)
      BY <1>4, <2>2 DEF krealloc
    <3>2. /\ fresh.ptr \in Nat /\ fresh.ptr - kAlign \in DOMAIN B
          /\ Gives(B, fresh.blk, fresh.ptr - kAlign, n)
      BY <2>2, KmallocGives
    <3> HIDE DEF fresh
    <3>3. Sound(fresh.blk) /\ b \in Used(fresh.blk)
      BY <1>1, <3>2 DEF Gives, Used
    <3>4. Ours(fresh.blk, p)
      BY <3>3 DEF Ours, Used
    <3>5. Releases(fresh.blk, r.blk, p - kAlign)
      BY <3>1, <3>3, <3>4, KfreeReleases
    <3>6. QED BY <2>2, <3>1, <3>2, <3>5
  <2>3. QED BY <2>1, <2>2
<1>5. QED BY <1>2, <1>3, <1>4

-----------------------------------------------------------------------------
(* What callers hold                                                       *)

\* Callers hold the payloads of the blocks in use, and these have the room.
HeldOK(B, H) ==
  /\ DOMAIN H \subseteq Nat \ {Null}
  /\ \A p \in DOMAIN H : /\ p - kAlign \in Used(B)
                         /\ H[p].bytes \in Nat
                         /\ H[p].bytes + kAlign <= B[p - kAlign].size
  /\ \A b \in Used(B) : b + kAlign \in DOMAIN H

HeapInv == Sound(blk) /\ HeldOK(blk, held)

\* A new pointer is accounted for.
LEMMA HeldGives ==
  ASSUME NEW B, NEW H, HeldOK(B, H), NEW p \in Nat \ {Null}, NEW n \in Nat,
         NEW C, Gives(B, C, p - kAlign, n),
         NEW G, DOMAIN G = DOMAIN H \cup {p}, G[p].bytes = n,
         \A q \in DOMAIN H : q # p => G[q] = H[q]
  PROVE  HeldOK(C, G) /\ p \notin DOMAIN H
<1>1. p \notin DOMAIN H
  BY DEF HeldOK, Gives
<1>2. DOMAIN G \subseteq Nat \ {Null}
  BY DEF HeldOK
<1>3. \A q \in DOMAIN G : /\ q - kAlign \in Used(C)
                          /\ G[q].bytes \in Nat
                          /\ G[q].bytes + kAlign <= C[q - kAlign].size
  <2>1. SUFFICES ASSUME NEW q \in DOMAIN G
                 PROVE  /\ q - kAlign \in Used(C)
                        /\ G[q].bytes \in Nat
                        /\ G[q].bytes + kAlign <= C[q - kAlign].size
    OBVIOUS
  <2>2. CASE q = p
    BY <2>2 DEF Gives
  <2>3. CASE q # p
    <3>1. q \in DOMAIN H /\ G[q] = H[q] /\ q - kAlign \in Used(B)
      BY <2>1, <2>3 DEF HeldOK
    <3>2. C[q - kAlign].size = B[q - kAlign].size /\ q - kAlign \in Used(C)
      BY <3>1 DEF Gives, SameSizes
    <3>3. QED BY <3>1, <3>2 DEF HeldOK
  <2>4. QED BY <2>2, <2>3
<1>4. \A b \in Used(C) : b + kAlign \in DOMAIN G
  <2>1. SUFFICES ASSUME NEW b \in Used(C) PROVE b + kAlign \in DOMAIN G
    OBVIOUS
  <2>2. CASE b = p - kAlign
    BY <2>2, HeapAssumption
  <2>3. CASE b \in Used(B)
    BY <2>3 DEF HeldOK
  <2>4. QED BY <2>1, <2>2, <2>3 DEF Gives
<1>5. QED BY <1>1, <1>2, <1>3, <1>4 DEF HeldOK

\* A pointer given back is forgotten.
LEMMA HeldReleases ==
  ASSUME NEW B, NEW H, HeldOK(B, H), List(B), NEW p \in DOMAIN H,
         NEW C, Releases(B, C, p - kAlign),
         NEW G, DOMAIN G = DOMAIN H \ {p}, \A q \in DOMAIN G : G[q] = H[q]
  PROVE  HeldOK(C, G)
<1>1. DOMAIN G \subseteq Nat \ {Null}
  BY DEF HeldOK
<1>2. ASSUME NEW q \in DOMAIN G
      PROVE  /\ q - kAlign \in Used(C)
             /\ G[q].bytes \in Nat
             /\ G[q].bytes + kAlign <= C[q - kAlign].size
  <2>1. q \in DOMAIN H /\ G[q] = H[q] /\ q # p /\ q \in Nat /\ p \in Nat
    BY DEF HeldOK
  <2>2. q - kAlign # p - kAlign
    BY <2>1, HeapAssumption
  <2>3. q - kAlign \in Used(C)
    BY <2>1, <2>2 DEF HeldOK, Releases
  <2>4. C[q - kAlign].size = B[q - kAlign].size
    BY <2>3 DEF Releases, SameSizes
  <2>5. QED BY <2>1, <2>3, <2>4 DEF HeldOK
<1>3. ASSUME NEW b \in Used(C) PROVE b + kAlign \in DOMAIN G
  <2>1. b \in Used(B) /\ b # p - kAlign
    BY DEF Releases
  <2>2. b \in Nat /\ p \in Nat
    BY <2>1 DEF HeldOK, Used, List
  <2>3. b + kAlign # p
    BY <2>1, <2>2, HeapAssumption
  <2>4. QED BY <2>1, <2>3 DEF HeldOK
<1>4. QED BY <1>1, <1>2, <1>3 DEF HeldOK

\* Blocks do not overlap, so a payload inside one overlaps no other caller's.
LEMMA Roomy ==
  ASSUME NEW C, List(C), NEW p \in Nat, NEW n \in Nat,
         p - kAlign \in DOMAIN C, n + kAlign <= C[p - kAlign].size,
         NEW H, \A q \in DOMAIN H : /\ q \in Nat /\ q # p /\ q - kAlign \in DOMAIN C
                                    /\ H[q].bytes \in Nat
                                    /\ H[q].bytes + kAlign <= C[q - kAlign].size
  PROVE  A!Grantable(H, p, n)
<1> DEFINE b == p - kAlign
<1>1. kAlign \in Nat /\ kAlign > 0 /\ b \in DOMAIN C /\ n + kAlign <= C[b].size
  BY HeapAssumption
<1>2. /\ b \in Nat /\ C[b].size \in Nat /\ g_start <= b /\ b + C[b].size <= g_end
      /\ \A c \in DOMAIN C : b < c => b + C[b].size <= c
  BY <1>1, TileOf
<1>3. g_start <= p /\ p + n <= g_end
  BY <1>1, <1>2, HeapAssumption
<1>4. ASSUME NEW q \in DOMAIN H
      PROVE  q # p /\ A!Apart(p, n, q, H[q].bytes)
  <2> DEFINE c == q - kAlign
  <2>1. /\ q \in Nat /\ q # p /\ c \in DOMAIN C /\ H[q].bytes \in Nat
        /\ H[q].bytes + kAlign <= C[c].size
    OBVIOUS
  <2>2. /\ c \in Nat /\ C[c].size \in Nat
        /\ \A d \in DOMAIN C : c < d => c + C[c].size <= d
    BY <2>1, TileOf
  <2>3. b < c => p + n <= q
    BY <1>1, <1>2, <2>1, <2>2
  <2>4. c < b => q + H[q].bytes <= p
    BY <1>1, <1>2, <2>1, <2>2
  <2>5. b < c \/ c < b
    BY <1>1, <1>2, <2>1, <2>2
  <2>6. QED BY <2>1, <2>3, <2>4, <2>5 DEF A!Apart
<1>5. QED BY <1>3, <1>4 DEF A!Grantable

\* So what a call gives may be granted.
LEMMA GivesGrantable ==
  ASSUME NEW B, NEW H, HeldOK(B, H), NEW p \in Nat \ {Null}, NEW n \in Nat,
         NEW C, Gives(B, C, p - kAlign, n)
  PROVE  A!Grantable(H, p, n)
<1>1. List(C) /\ p - kAlign \in DOMAIN C /\ n + kAlign <= C[p - kAlign].size
  BY DEF Gives, Sound, Used
<1>2. ASSUME NEW q \in DOMAIN H
      PROVE  /\ q \in Nat /\ q # p /\ q - kAlign \in DOMAIN C
             /\ H[q].bytes \in Nat
             /\ H[q].bytes + kAlign <= C[q - kAlign].size
  <2>1. /\ q \in Nat /\ q - kAlign \in Used(B) /\ H[q].bytes \in Nat
        /\ H[q].bytes + kAlign <= B[q - kAlign].size
    BY DEF HeldOK
  <2>2. /\ q - kAlign # p - kAlign /\ q - kAlign \in DOMAIN C
        /\ C[q - kAlign].size = B[q - kAlign].size
    BY <2>1 DEF Gives, Used, SameSizes
  <2>3. QED BY <2>1, <2>2
<1>3. QED BY <1>1, <1>2, Roomy

\* A step that hands out a new pointer.
LEMMA GiveStep ==
  ASSUME HeapInv, NEW r, NEW n \in Nat, NEW a \in Nat \ {0},
         r.ptr \in Nat \ {Null}, Gives(blk, r.blk, r.ptr - kAlign, n),
         NEW q \in Nat, r.ptr = q * a,
         Return(r, {}, n, a)
  PROVE  HeapInv' /\ A!Alloc
<1> DEFINE p == r.ptr
<1>1. HeldOK(blk, held)
  BY DEF HeapInv
<1>2. /\ blk' = r.blk
      /\ held' = [x \in (DOMAIN held \ {}) \cup {p} |->
                    IF x = p THEN [bytes |-> n, align |-> a] ELSE held[x]]
  BY DEF Return
<1>3. /\ DOMAIN held' = DOMAIN held \cup {p}
      /\ held'[p] = [bytes |-> n, align |-> a]
      /\ \A x \in DOMAIN held : x # p => held'[x] = held[x]
  BY <1>2
<1>4. held'[p].bytes = n /\ held'[p].align = a
  BY <1>3
<1>5. HeldOK(blk', held') /\ p \notin DOMAIN held
  BY <1>1, <1>2, <1>3, <1>4, HeldGives
<1>6. Sound(blk')
  BY <1>2 DEF Gives
<1>7. A!Grantable(held, p, n)
  BY <1>1, GivesGrantable
<1>8. A!Multiple(p, a)
  BY GridAligned
<1>9. A!Swap({}, p)
  BY <1>3, <1>4, <1>5, <1>8 DEF A!Swap
<1>10. A!Alloc
  BY <1>3, <1>4, <1>7, <1>9 DEF A!Alloc
<1>11. HeapInv'
  BY <1>5, <1>6 DEF HeapInv
<1>12. QED BY <1>10, <1>11

\* Pointers to blocks of the list are aligned.
LEMMA PtrAligned ==
  ASSUME NEW B, Sound(B), NEW p \in Nat, p - kAlign \in DOMAIN B
  PROVE  \E q \in Nat : p = q * kAlign
<1>1. PICK q \in Nat : p - kAlign = q * kAlign
  BY DEF Sound, OnGrid, Grid
<1>2. p = (q + 1) * kAlign
  BY <1>1, HeapAssumption
<1>3. QED BY <1>2

-----------------------------------------------------------------------------
(* The theorems                                                            *)

\* Malloc, Calloc and FrameAlloc either fail, or hand out a new pointer.
LEMMA AllocStep ==
  ASSUME HeapInv, Malloc \/ Calloc \/ FrameAlloc
  PROVE  HeapInv' /\ (A!Alloc \/ held' = held)
<1>1. Sound(blk) /\ kAlign \in Nat \ {0} /\ kPage \in Nat \ {0}
  BY HeapAssumption DEF HeapInv
<1>2. ASSUME NEW r, NEW n, NEW a, Return(r, {}, n, a), r.ptr = Null, r.blk = blk
      PROVE  HeapInv' /\ held' = held
  BY <1>2 DEF HeapInv, Return
<1>3. CASE Malloc
  <2>1. PICK n \in Sizes : Return(kmalloc(blk, n), {}, n, kAlign)
    BY <1>3 DEF Malloc
  <2>2. PICK r : r = kmalloc(blk, n)
    OBVIOUS
  <2>3. n \in Nat /\ Return(r, {}, n, kAlign)
    BY <2>1, <2>2, HeapAssumption
  <2>4. CASE r.ptr = Null /\ r.blk = blk
    BY <1>2, <2>3, <2>4
  <2>5. CASE /\ r.ptr # Null /\ r.ptr \in Nat /\ r.ptr - kAlign \in DOMAIN blk
             /\ Gives(blk, r.blk, r.ptr - kAlign, n)
    <3>1. PICK q \in Nat : r.ptr = q * kAlign
      BY <1>1, <2>5, PtrAligned
    <3>2. QED BY <1>1, <2>3, <2>5, <3>1, GiveStep
  <2>6. QED BY <1>1, <2>2, <2>3, <2>4, <2>5, KmallocGives
<1>4. CASE Calloc
  <2>1. PICK n \in Sizes, size \in Sizes : Return(kcalloc(blk, n, size), {}, n * size, kAlign)
    BY <1>4 DEF Calloc
  <2>2. PICK r : r = kcalloc(blk, n, size)
    OBVIOUS
  <2>3. /\ n \in Nat /\ size \in Nat /\ n * size \in Nat
        /\ Return(r, {}, n * size, kAlign)
    BY <2>1, <2>2, HeapAssumption
  <2>4. CASE r.ptr = Null /\ r.blk = blk
    BY <1>2, <2>3, <2>4
  <2>5. CASE /\ r.ptr # Null /\ r.ptr \in Nat /\ r.ptr - kAlign \in DOMAIN blk
             /\ Gives(blk, r.blk, r.ptr - kAlign, n * size)
    <3>1. PICK q \in Nat : r.ptr = q * kAlign
      BY <1>1, <2>5, PtrAligned
    <3>2. QED BY <1>1, <2>3, <2>5, <3>1, GiveStep
  <2>6. QED BY <1>1, <2>2, <2>3, <2>4, <2>5, KcallocGives
<1>5. CASE FrameAlloc
  <2>1. PICK pages \in 0 .. MaxPages :
          Return(kframe_alloc_n(blk, pages), {}, pages * kPage, kPage)
    BY <1>5 DEF FrameAlloc
  <2>2. PICK r : r = kframe_alloc_n(blk, pages)
    OBVIOUS
  <2>3. /\ pages \in Nat /\ pages * kPage \in Nat
        /\ Return(r, {}, pages * kPage, kPage)
    BY <1>1, <2>1, <2>2, HeapAssumption
  <2>4. CASE r.ptr = Null /\ r.blk = blk
    BY <1>2, <2>3, <2>4
  <2>5. CASE /\ r.ptr # Null /\ r.ptr \in Nat
             /\ Gives(blk, r.blk, r.ptr - kAlign, pages * kPage)
             /\ \E q \in Nat : r.ptr = q * kPage
    <3>1. PICK q \in Nat : r.ptr = q * kPage
      BY <2>5
    <3>2. QED BY <1>1, <2>3, <2>5, <3>1, GiveStep
  <2>6. QED BY <1>1, <2>2, <2>3, <2>4, <2>5, KframeGives
<1>6. QED BY <1>3, <1>4, <1>5

\* What callers hold kfree accepts.
LEMMA HeldOurs ==
  ASSUME HeapInv, NEW p \in DOMAIN held
  PROVE  p \in Nat /\ Ours(blk, p)
  BY DEF HeapInv, HeldOK, Used, Ours

\* kfree takes one pointer back.
LEMMA FreeStep ==
  ASSUME HeapInv, Free
  PROVE  HeapInv' /\ A!Free
<1>1. PICK p \in DOMAIN held :
        blk' = kfree(blk, p) /\ held' = [q \in DOMAIN held \ {p} |-> held[q]]
  BY DEF Free
<1>2. Sound(blk) /\ List(blk) /\ HeldOK(blk, held)
  BY DEF HeapInv, Sound
<1>3. Releases(blk, blk', p - kAlign)
  BY <1>1, <1>2, HeldOurs, KfreeReleases
<1>4. DOMAIN held' = DOMAIN held \ {p} /\ \A q \in DOMAIN held' : held'[q] = held[q]
  BY <1>1
<1>5. HeldOK(blk', held')
  BY <1>2, <1>3, <1>4, HeldReleases
<1>6. HeapInv'
  BY <1>3, <1>5 DEF HeapInv, Releases
<1>7. QED BY <1>1, <1>6 DEF A!Free

\* krealloc fails, stays, or moves.
LEMMA ReallocStep ==
  ASSUME HeapInv, Realloc
  PROVE  HeapInv' /\ (A!Resize \/ A!Move \/ held' = held)
<1>1. PICK p \in DOMAIN held, n \in Sizes \ {0} :
        Return(krealloc(blk, p, n), {p}, n, kAlign)
  BY DEF Realloc
<1>2. PICK r : r = krealloc(blk, p, n)
  OBVIOUS
<1>3. /\ n \in Nat /\ n > 0 /\ Return(r, {p}, n, kAlign)
      /\ Sound(blk) /\ List(blk) /\ HeldOK(blk, held)
      /\ p \in Nat /\ p # Null /\ Ours(blk, p) /\ kAlign \in Nat \ {0}
  BY <1>1, <1>2, HeldOurs, HeapAssumption DEF HeapInv, Sound, HeldOK
<1>4. CASE r.ptr = Null /\ r.blk = blk
  BY <1>3, <1>4 DEF HeapInv, Return
<1>5. CASE r.ptr = p /\ r.blk = blk /\ n + kAlign <= blk[p - kAlign].size
  <2>1. /\ blk' = blk /\ DOMAIN held' = DOMAIN held
        /\ held'[p] = [bytes |-> n, align |-> kAlign]
        /\ \A x \in DOMAIN held \ {p} : held'[x] = held[x]
    BY <1>3, <1>5 DEF Return
  <2>2. held'[p].bytes = n /\ held'[p].align = kAlign
    BY <2>1
  <2>3. HeldOK(blk', held')
    BY <1>3, <1>5, <2>1, <2>2 DEF HeldOK
  <2>4. HeapInv'
    BY <1>3, <2>1, <2>3 DEF HeapInv
  <2>5. PICK q \in Nat : p = q * kAlign
    BY <1>3, PtrAligned DEF Ours
  <2>6. A!Multiple(p, kAlign)
    BY <1>3, <2>5, GridAligned
  <2>7. A!Swap({p}, p)
    BY <2>1, <2>2, <2>6 DEF A!Swap
  <2> DEFINE H == [x \in DOMAIN held \ {p} |-> held[x]]
  <2>8. ASSUME NEW x \in DOMAIN H
        PROVE  /\ x \in Nat /\ x # p /\ x - kAlign \in DOMAIN blk
               /\ H[x].bytes \in Nat
               /\ H[x].bytes + kAlign <= blk[x - kAlign].size
    BY <1>3, <2>8 DEF HeldOK, Used
  <2>9. A!Grantable(H, p, n)
    <3> HIDE DEF H
    <3>1. p - kAlign \in DOMAIN blk
      BY <1>3 DEF Ours
    <3>2. QED BY <1>3, <1>5, <2>8, <3>1, Roomy
  <2>10. A!Resize
    BY <2>2, <2>7, <2>9 DEF A!Resize
  <2>11. QED BY <2>4, <2>10
<1>6. CASE /\ r.ptr # Null /\ r.ptr \in Nat /\ r.ptr - kAlign \in DOMAIN blk
           /\ \E C : /\ Gives(blk, C, r.ptr - kAlign, n)
                     /\ Releases(C, r.blk, p - kAlign)
  <2>1. PICK C : Gives(blk, C, r.ptr - kAlign, n) /\ Releases(C, r.blk, p - kAlign)
    BY <1>6
  <2> DEFINE s == r.ptr
             H == [x \in DOMAIN held \cup {s} |->
                     IF x = s THEN [bytes |-> n, align |-> kAlign] ELSE held[x]]
  <2>2. /\ blk' = r.blk /\ DOMAIN held' = (DOMAIN held \ {p}) \cup {s}
        /\ held'[s] = [bytes |-> n, align |-> kAlign]
        /\ \A x \in DOMAIN held \ {p} : x # s => held'[x] = held[x]
    BY <1>3, <1>6 DEF Return
  <2>3. /\ DOMAIN H = DOMAIN held \cup {s} /\ H[s].bytes = n
        /\ H[s] = [bytes |-> n, align |-> kAlign]
        /\ \A x \in DOMAIN held : x # s => H[x] = held[x]
    OBVIOUS
  <2> HIDE DEF H
  <2>4. HeldOK(C, H) /\ s \notin DOMAIN held
    <3>1. s \in Nat \ {Null} /\ Gives(blk, C, s - kAlign, n)
      BY <1>6, <2>1
    <3> HIDE DEF s
    <3>2. QED BY <1>3, <2>3, <3>1, HeldGives
  <2>5. DOMAIN held' = DOMAIN H \ {p} /\ \A x \in DOMAIN held' : held'[x] = H[x]
    BY <2>2, <2>3, <2>4
  <2>6. List(C) /\ p \in DOMAIN H
    BY <2>1, <2>3 DEF Gives, Sound
  <2>7. HeldOK(blk', held')
    BY <2>1, <2>2, <2>4, <2>5, <2>6, HeldReleases
  <2>8. HeapInv'
    BY <2>1, <2>2, <2>7 DEF HeapInv, Releases
  <2>9. PICK q \in Nat : s = q * kAlign
    BY <1>3, <1>6, PtrAligned
  <2>10. A!Multiple(s, kAlign)
    BY <1>3, <1>6, <2>9, GridAligned
  <2>11. held'[s].bytes = n /\ held'[s].align = kAlign
    BY <2>2
  <2>12. A!Swap({p}, s)
    BY <2>2, <2>4, <2>10, <2>11 DEF A!Swap
  <2>13. A!Grantable(held, s, n)
    BY <1>3, <1>6, <2>1, GivesGrantable
  <2>14. A!Move
    BY <2>2, <2>11, <2>12, <2>13 DEF A!Move
  <2>15. QED BY <2>8, <2>14
<1>7. QED BY <1>2, <1>3, <1>4, <1>5, <1>6, KreallocMoves

\* heap_init leaves one free block.
LEMMA HeapInit == Init => HeapInv
<1>1. SUFFICES ASSUME Init PROVE HeapInv
  OBVIOUS
<1>2. /\ DOMAIN blk = {g_start}
      /\ blk[g_start] = [size |-> g_end - g_start, used |-> FALSE, next |-> Null, prev |-> Null]
      /\ DOMAIN held = {}
      /\ blk \in [DOMAIN blk -> {blk[g_start]}]
  BY <1>1 DEF Init
<1>3. /\ g_start \in Nat /\ g_start # Null /\ g_end - g_start \in Nat
      /\ g_end - g_start >= kMinBlock /\ g_end \in Nat
  BY HeapAssumption DEF Null
<1>4. /\ blk[g_start].size = g_end - g_start /\ ~blk[g_start].used
      /\ blk[g_start].next = Null /\ blk[g_start].prev = Null
      /\ blk[g_start] \in Header
  BY <1>2, <1>3 DEF Header, Null
<1>5. List(blk)
  <2>1. blk \in [DOMAIN blk -> Header]
    BY <1>2, <1>4
  <2>2. Tiles(blk)
    BY <1>2, <1>3, <1>4 DEF Tiles
  <2>3. QED BY <1>2, <1>3, <2>1, <2>2 DEF List
<1>6. Merged(blk)
  BY <1>2, <1>4 DEF Merged
<1>7. OnGrid(blk)
  <2>1. g_start \in Grid
    BY AlignAssumption, HeapAssumption DEF Grid
  <2>2. QED BY <1>2, <2>1 DEF OnGrid
<1>8. HeldOK(blk, held)
  BY <1>2, <1>4 DEF HeldOK, Used
<1>9. QED BY <1>5, <1>6, <1>7, <1>8 DEF HeapInv, Sound

\* Every call keeps the list sound, and is what an allocator may do.
LEMMA HeapStep ==
  ASSUME HeapInv, [Next]_vars
  PROVE  HeapInv' /\ [A!Next]_held
<1>1. CASE Malloc \/ Calloc \/ FrameAlloc
  BY <1>1, AllocStep DEF A!Next
<1>2. CASE Free
  BY <1>2, FreeStep DEF A!Next
<1>3. CASE Realloc
  BY <1>3, ReallocStep DEF A!Next
<1>4. CASE UNCHANGED vars
  BY <1>4 DEF vars, HeapInv
<1>5. QED BY <1>1, <1>2, <1>3, <1>4 DEF Next

\* The list stays sound for ever.
LEMMA HeapSound == Spec => []HeapInv
<1>1. HeapInv /\ [Next]_vars => HeapInv'
  BY HeapStep
<1>2. QED BY <1>1, HeapInit, PTL DEF Spec

\* The blocks of the kernel heap tile its arena, over any sequence of kmalloc,
\* kcalloc, krealloc, kfree and kframe_alloc_n.
THEOREM TiledAlways == Spec => []Tiled
<1>1. HeapInv => Tiled
  BY DEF HeapInv, Sound, List, Tiled
<1>2. QED BY <1>1, HeapSound, PTL

\* kfree merges whatever can be merged: no two neighbours are free.
THEOREM CoalescedAlways == Spec => []Coalesced
<1>1. HeapInv => Coalesced
  BY DEF HeapInv, Sound, Coalesced
<1>2. QED BY <1>1, HeapSound, PTL

\* When callers have given everything back the arena is one block again, as the
\* heap test of kernel.cpp expects.
Whole == DOMAIN held = {} => DOMAIN blk = {g_start}

\* Nothing is stranded: what callers do not hold is free, and free neighbours merge.
THEOREM NothingStranded == Spec => []Whole
<1>1. HeapInv => Whole
  <2>1. SUFFICES ASSUME HeapInv, DOMAIN held = {}, NEW b \in DOMAIN blk, b # g_start
                 PROVE  FALSE
    BY DEF Whole, HeapInv, Sound, List, Tiles
  <2>2. List(blk) /\ Merged(blk) /\ Used(blk) = {}
    BY <2>1 DEF HeapInv, Sound, HeldOK
  <2>3. blk[b].prev \in DOMAIN blk /\ blk[blk[b].prev].next = b /\ b # Null
    BY <2>1, <2>2, TileOf
  <2>4. blk[b].used
    BY <2>2, <2>3 DEF Merged, Used
  <2>5. QED BY <2>1, <2>2, <2>4 DEF Used
<1>2. QED BY <1>1, HeapSound, PTL

\* The kernel heap implements Allocator: its callers get disjoint, aligned memory
\* of at least the size they asked for.
THEOREM HeapIsAllocator == Spec => IsAllocator
<1>1. Init => A!Init
  BY DEF Init, A!Init
<1>2. HeapInv /\ [Next]_vars => [A!Next]_held
  BY HeapStep
<1>3. QED BY <1>1, <1>2, HeapSound, PTL DEF Spec, IsAllocator, A!Spec

-----------------------------------------------------------------------------
(* What heap_largest_free says                                             *)

\* Some natural numbers have a least one.
LEMMA Least ==
  ASSUME NEW S, S \subseteq Nat, S # {}
  PROVE  \E m \in S : \A y \in S : m <= y
<1>1. IsWellFoundedOn(OpToRel(<, Nat), Nat)
  BY NatLessThanWellFounded
<1>2. PICK m \in S : \A y \in S : ~(<<y, m>> \in OpToRel(<, Nat))
  BY <1>1, WFMin
<1>3. ASSUME NEW y \in S, ~(m <= y) PROVE FALSE
  <2>1. <<y, m>> \in OpToRel(<, Nat)
    BY <1>3 DEF OpToRel
  <2> QED
    BY <1>2, <2>1
<1> QED
  BY <1>3

\* Bounded, they have a greatest.
LEMMA Greatest ==
  ASSUME NEW S, NEW hi \in Nat, S \subseteq 0 .. hi, S # {}
  PROVE  \E m \in S : \A y \in S : y <= m
<1> DEFINE D == {hi - u : u \in S}
<1>1. D \subseteq Nat /\ D # {}
  <2>1. ASSUME NEW u \in S PROVE hi - u \in Nat
    <3>1. u \in 0 .. hi
      OBVIOUS
    <3> QED
      BY <3>1
  <2> QED
    BY <2>1
<1>2. PICK d \in D : \A e \in D : d <= e
  <2> HIDE DEF D
  <2> QED
    BY <1>1, Least
<1>3. PICK m \in S : d = hi - m
  OBVIOUS
<1>4. ASSUME NEW y \in S PROVE y <= m
  <2>1. hi - m <= hi - y
    BY <1>2, <1>3
  <2> QED
    BY <2>1
<1> QED
  BY <1>4

\* A block of the grid has room for a request with its header exactly if it has
\* room for what kmalloc rounds that up to.
LEMMA NeedLeast ==
  ASSUME NEW n \in Nat, n > 0, NEW s \in Grid
  PROVE  Need(n) <= s <=> n + kAlign <= s
<1>1. kAlign \in Nat /\ kAlign > 0 /\ n + kAlign \in Nat
  BY HeapAssumption
<1>2. PICK k \in Nat : s = k * kAlign
  BY DEF Grid
<1> DEFINE v == n + kAlign
<1>3. v \in Nat /\ kAlign \in Nat \ {0} /\ Need(n) = align_up(v, kAlign)
  BY <1>1 DEF Need
<1> HIDE DEF v
<1>4. PICK q \in Nat : Need(n) = q * kAlign
  BY <1>3, AlignUp
<1>5. Need(n) \in Nat /\ n + kAlign <= Need(n) /\ Need(n) < n + kAlign + kAlign
  <2>1. /\ align_up(v, kAlign) \in Nat
        /\ v <= align_up(v, kAlign) /\ align_up(v, kAlign) < v + kAlign
    BY <1>3, AlignUp
  <2> QED
    BY <1>3, <2>1 DEF v
<1>6. s \in Nat
  BY <1>1, <1>2
<1>7. ASSUME n + kAlign <= s PROVE Need(n) <= s
  <2>1. q * kAlign < k * kAlign + kAlign
    BY <1>1, <1>2, <1>4, <1>5, <1>6, <1>7
  <2>2. k * kAlign + kAlign = (k + 1) * kAlign
    BY <1>1
  <2>3. q < k + 1
    BY <1>1, <2>1, <2>2
  <2>4. q * kAlign <= k * kAlign
    BY <1>1, <2>3
  <2> QED
    BY <1>2, <1>4, <2>4
<1> QED
  BY <1>1, <1>5, <1>6, <1>7

\* Blocks lie between points of the grid, so their sizes are on it.
LEMMA SizeOnGrid ==
  ASSUME NEW B, Sound(B), NEW b \in DOMAIN B
  PROVE  B[b].size \in Grid
<1> DEFINE end == b + B[b].size
<1>1. b \in Nat /\ B[b].size \in Nat /\ b \in Grid
  BY TileOf DEF Sound, OnGrid
<1>2. end = g_end \/ end \in DOMAIN B
  BY DEF Sound, List, Tiles
<1>3. g_end \in Grid
  BY AlignAssumption, HeapAssumption DEF Grid
<1>4. end \in Grid
  BY <1>2, <1>3 DEF Sound, OnGrid
<1>5. b <= end /\ end - b = B[b].size
  BY <1>1
<1> HIDE DEF end
<1> QED
  BY <1>1, <1>4, <1>5, GridSum

\* kmalloc meets a request if and only if it is no larger than heap_largest_free:
\* the blocks' sizes are on kmalloc's grid, so rounding a request up costs nothing.
THEOREM LargestFreeAlways == Spec => []LargestFree
<1>1. ASSUME Sound(blk), NEW size \in Nat, size > 0, size + kAlign <= kSizeMax
      PROVE  kmalloc(blk, size).ptr # Null <=> size <= heap_largest_free
  <2> DEFINE room == {c \in DOMAIN blk : ~blk[c].used}
             usable == {blk[b].size - kAlign : b \in room} \cup {0}
             S == {b \in DOMAIN blk : ~blk[b].used /\ blk[b].size >= Need(size)}
  <2>1. /\ kAlign \in Nat /\ g_end \in Nat /\ kSizeMax \in Nat /\ g_start \in Nat
        /\ kMinBlock = 2 * kAlign
    BY HeapAssumption
  <2>2. ASSUME NEW b \in DOMAIN blk
        PROVE  /\ b \in Nat /\ b # Null /\ blk[b].size \in Nat /\ blk[b].size >= kMinBlock
               /\ b + blk[b].size <= g_end
    BY <1>1, TileOf DEF Sound, List, Tiles
  <2>3. usable \subseteq 0 .. g_end
    BY <2>1, <2>2
  <2>4. PICK top \in usable : \A v \in usable : v <= top
    <3>1. usable # {}
      OBVIOUS
    <3> HIDE DEF usable
    <3> QED
      BY <2>1, <2>3, <3>1, Greatest
  <2>5. /\ heap_largest_free \in usable
        /\ \A v \in usable : v <= heap_largest_free
    <3>1. heap_largest_free = CHOOSE u \in usable : \A v \in usable : v <= u
      BY DEF heap_largest_free
    <3> HIDE DEF usable
    <3> QED
      BY <2>4, <3>1
  <2>6. heap_largest_free \in Nat
    BY <2>3, <2>5
  <2>7. S # {} <=> \E b \in room : size + kAlign <= blk[b].size
    <3>1. ASSUME NEW b \in DOMAIN blk
          PROVE  blk[b].size >= Need(size) <=> size + kAlign <= blk[b].size
      <4>1. Need(size) \in Nat
        BY <1>1, NeedFits
      <4>2. Need(size) <= blk[b].size <=> size + kAlign <= blk[b].size
        BY <1>1, SizeOnGrid, NeedLeast
      <4> QED
        BY <2>2, <4>1, <4>2
    <3> QED
      BY <3>1
  <2>8. (\E b \in room : size + kAlign <= blk[b].size) <=> size <= heap_largest_free
    <3>1. ASSUME NEW b \in room, size + kAlign <= blk[b].size
          PROVE  size <= heap_largest_free
      <4>1. blk[b].size - kAlign <= heap_largest_free /\ blk[b].size \in Nat
        BY <2>2, <2>5
      <4> QED
        BY <2>1, <2>6, <3>1, <4>1
    <3>2. ASSUME size <= heap_largest_free
          PROVE  \E b \in room : size + kAlign <= blk[b].size
      <4>1. heap_largest_free # 0
        BY <1>1, <2>6, <3>2
      <4>2. PICK b \in room : heap_largest_free = blk[b].size - kAlign
        BY <2>5, <4>1
      <4>3. blk[b].size \in Nat
        BY <2>2
      <4>4. size + kAlign <= blk[b].size
        BY <2>1, <2>6, <3>2, <4>2, <4>3
      <4> QED
        BY <4>4
    <3> QED
      BY <3>1, <3>2
  <2>9. kmalloc(blk, size).ptr # Null <=> S # {}
    <3> DEFINE b == First(S)
    <3>1. S \subseteq Nat /\ Null \notin S
      BY <2>2
    <3>2. kmalloc(blk, size).ptr = IF b = Null THEN Null ELSE b + kAlign
      BY <1>1, <2>1 DEF kmalloc, find_fit, Failed
    <3> HIDE DEF S
    <3>3. S # {} => b \in S
      BY <3>1, Least DEF First
    <3>4. S = {} => b = Null
      BY DEF First
    <3>5. b # Null /\ b \in Nat => b + kAlign # Null
      BY <2>1 DEF Null
    <3> HIDE DEF b
    <3> QED
      BY <3>1, <3>2, <3>3, <3>4, <3>5
  <2> QED
    BY <2>7, <2>8, <2>9
<1>2. HeapInv => LargestFree
  <2> SUFFICES ASSUME HeapInv, NEW size \in Sizes \ {0}, size + kAlign <= kSizeMax
               PROVE  kmalloc(blk, size).ptr # Null <=> size <= heap_largest_free
    BY DEF LargestFree
  <2>1. size \in Nat /\ size > 0
    BY HeapAssumption
  <2> QED
    BY <1>1, <2>1 DEF HeapInv
<1> QED
  BY <1>2, HeapSound, PTL
=============================================================================
