----------------------------- MODULE TtyProofs -----------------------------
(***************************************************************************)
(* Theorems about Tty, for any number of processes and any size of the     *)
(* rings.                                                                  *)
(***************************************************************************)
EXTENDS Tty, FiniteSetTheorems, SequenceTheorems, TLAPS

-----------------------------------------------------------------------------
(* Induction, by the least number for which something fails, and functions *)
(* defined by recursion.                                                   *)

\* A set that holds 0, and with a number the next one, holds all up to L.
LEMMA UpTo ==
  ASSUME NEW L \in Nat, NEW S, 0 \in S, \A n \in 1 .. L : n - 1 \in S => n \in S
  PROVE  \A n \in 0 .. L : n \in S
<1> DEFINE B == {n \in 0 .. L : n \notin S}
<1> SUFFICES ASSUME B # {} PROVE FALSE
  OBVIOUS
<1>1. IsWellFoundedOn(OpToRel(<, Nat), Nat)
  BY NatLessThanWellFounded
<1>2. B \subseteq Nat
  OBVIOUS
<1>3. PICK m \in B : \A y \in B : ~(<<y, m>> \in OpToRel(<, Nat))
  BY <1>1, <1>2, WFMin
<1>4. m \in 0 .. L /\ m \notin S /\ m # 0
  OBVIOUS
<1>5. m \in 1 .. L /\ m - 1 \in 0 .. L
  BY <1>4
<1>6. m - 1 \notin S
  BY <1>4, <1>5
<1>7. m - 1 \in B
  BY <1>5, <1>6
<1>8. <<m - 1, m>> \in OpToRel(<, Nat)
  BY <1>5 DEF OpToRel
<1> QED
  BY <1>3, <1>7, <1>8

\* st[n] is the n-th step, a function on X; f is the sequence of values from a on.
Closed(L, X, st) == \A n \in 1 .. L, x \in X : st[n][x] \in X
Values(f, L, X, a, st) == f \in [0 .. L -> X] /\ f[0] = a /\ \A n \in 1 .. L : f[n] = st[n][f[n - 1]]

\* There is one.
LEMMA Steps ==
  ASSUME NEW L \in Nat, NEW X, NEW a \in X, NEW st, Closed(L, X, st)
  PROVE  \E f : Values(f, L, X, a, st)
<1> USE DEF Closed
<1> DEFINE Ok(f, l) == f[0] = a /\ \A n \in 1 .. l : f[n] = st[n][f[n - 1]]
           S == {l \in 0 .. L : \E f \in [0 .. l -> X] : Ok(f, l)}
<1>1. 0 \in S
  <2> DEFINE g == [n \in 0 .. 0 |-> a]
  <2>1. g \in [0 .. 0 -> X] /\ g[0] = a
    OBVIOUS
  <2> HIDE DEF g
  <2>2. Ok(g, 0)
    BY <2>1
  <2>3. \E f \in [0 .. 0 -> X] : Ok(f, 0)
    BY <2>1, <2>2
  <2> QED
    BY <2>3
<1>2. ASSUME NEW l \in 1 .. L, l - 1 \in S PROVE l \in S
  <2>1. PICK f \in [0 .. l - 1 -> X] : Ok(f, l - 1)
    BY <1>2
  <2> DEFINE g == [n \in 0 .. l |-> IF n = l THEN st[l][f[l - 1]] ELSE f[n]]
  <2>2. f[l - 1] \in X
    OBVIOUS
  <2>3. g \in [0 .. l -> X]
    BY <2>2
  <2>4. g[0] = a
    BY <2>1
  <2>5. ASSUME NEW n \in 1 .. l PROVE g[n] = st[n][g[n - 1]]
    <3>1. n \in 0 .. l /\ n - 1 \in 0 .. l /\ n - 1 # l
      OBVIOUS
    <3>2. g[n - 1] = f[n - 1]
      BY <3>1
    <3>3. CASE n = l
      BY <3>1, <3>2, <3>3
    <3>4. CASE n # l
      <4>1. n \in 1 .. l - 1
        BY <3>4
      <4> QED
        BY <2>1, <3>1, <3>2, <3>4, <4>1
    <3> QED
      BY <3>3, <3>4
  <2> HIDE DEF g
  <2>6. Ok(g, l)
    BY <2>4, <2>5
  <2> QED
    BY <2>3, <2>6
<1> HIDE DEF S
<1>3. L \in S
  <2>1. \A n \in 0 .. L : n \in S
    BY <1>1, <1>2, UpTo
  <2> QED
    BY <2>1
<1> QED
  BY <1>3 DEF S, Values

-----------------------------------------------------------------------------
(* Types of what is passed around.                                         *)

Kinds == {"none", "nul", "e0", "release", "ctrl", "noctrl", "up", "bs", "enter", "a", "c",
          "nl", "cr", "del", "eot", "intr"}
Bytes == [k : Kinds, id : Nat]
Keys == [ctrl : BOOLEAN, ext : BOOLEAN, key : Kinds]
Kbds == [ring : Seq(Bytes), ctrl : BOOLEAN, ext : BOOLEAN, seq : 0 .. 2]
Ttys == [buf : Seq(Bytes), eof : BOOLEAN, flags : Modes, owner : 0 .. kProcs]
States == {"ready", "running", "blocked"}
Tasks == [state : States, pc : Pcs, dev : {"none", "tty", "kbd"}, len : Nat, got : Seq(Bytes),
          canon : BOOLEAN, on : BOOLEAN, again : BOOLEAN, drained : BOOLEAN, hand : Bytes,
          wake_pending : BOOLEAN, sig_pending : BOOLEAN]

\* Bytes are made of a kind and a name.
LEMMA ByteFacts ==
  /\ NoByte \in Bytes /\ Nul \in Bytes
  /\ \A k \in Kinds, id \in Nat : Byte(k, id) \in Bytes
BY DEF NoByte, Nul, Byte, Bytes, Kinds

\* A scancode makes a key, or none.
LEMMA PollOne ==
  ASSUME NEW m, m.ctrl \in BOOLEAN, m.ext \in BOOLEAN, NEW s \in Kinds
  PROVE  poll(m, s) \in Keys
<1>1. KeyOf(s, m.ctrl, m.ext) \in Kinds
  <2>1. "none" \in Kinds /\ "up" \in Kinds /\ "del" \in Kinds /\ "intr" \in Kinds /\ "nl" \in Kinds
    BY DEF Kinds
  <2> QED
    BY <2>1, Zenon DEF KeyOf
<1>2. (IF m.ext THEN m.ctrl ELSE (m.ctrl /\ s # "noctrl") \/ s = "ctrl") \in BOOLEAN
  OBVIOUS
<1>3. (s = "e0") \in BOOLEAN
  OBVIOUS
<1> QED
  BY <1>1, <1>2, <1>3 DEF poll, Keys

\* The same of what the scancode before it made.
LEMMA PollKeys ==
  ASSUME NEW m \in Keys, NEW s \in Kinds
  PROVE  poll(m, s) \in Keys
<1>1. m.ctrl \in BOOLEAN /\ m.ext \in BOOLEAN
  BY DEF Keys
<1> QED
  BY <1>1, PollOne

\* The keys that a ring of scancodes makes, one after the other: there is such a
\* function.
LEMMA RingFun ==
  ASSUME NEW r \in Seq(Bytes), NEW a \in Keys
  PROVE  \E f : f = [n \in 0 .. Len(r) |-> IF n = 0 THEN a ELSE poll(f[n - 1], r[n].k)]
<1> DEFINE L == Len(r)
           st == [n \in 1 .. L |-> [x \in Keys |-> poll(x, r[n].k)]]
<1>1. L \in Nat /\ \A n \in 1 .. L : r[n].k \in Kinds
  <2>1. \A n \in 1 .. L : r[n] \in Bytes
    OBVIOUS
  <2> QED
    BY <2>1 DEF Bytes
<1>2. \A n \in 1 .. L, x \in Keys : poll(x, r[n].k) \in Keys
  BY <1>1, PollKeys
<1>3. \A n \in 1 .. L, x \in Keys : st[n][x] = poll(x, r[n].k)
  OBVIOUS
<1>4. Closed(L, Keys, st)
  BY <1>2, <1>3 DEF Closed
<1> HIDE DEF st
<1>5. PICK f : Values(f, L, Keys, a, st)
  BY <1>1, <1>4, Steps
<1>6. \A n \in 1 .. L : n - 1 \in 0 .. L /\ f[n - 1] \in Keys
  BY <1>1, <1>5 DEF Values
<1>7. \A n \in 0 .. L : f[n] = IF n = 0 THEN a ELSE poll(f[n - 1], r[n].k)
  <2> SUFFICES ASSUME NEW n \in 0 .. L PROVE f[n] = IF n = 0 THEN a ELSE poll(f[n - 1], r[n].k)
    OBVIOUS
  <2>1. CASE n = 0
    BY <1>5, <2>1 DEF Values
  <2>2. CASE n # 0
    <3>1. n \in 1 .. L
      BY <1>1, <2>2
    <3> QED
      BY <1>3, <1>5, <1>6, <2>2, <3>1 DEF Values
  <2> QED
    BY <2>1, <2>2
<1>8. f = [n \in 0 .. L |-> IF n = 0 THEN a ELSE poll(f[n - 1], r[n].k)]
  BY <1>5, <1>7 DEF Values
<1> QED
  BY <1>8

\* And all of them are keys.
LEMMA RingKeys ==
  ASSUME NEW r \in Seq(Bytes), NEW a \in Keys, NEW m,
         m = [n \in 0 .. Len(r) |-> IF n = 0 THEN a ELSE poll(m[n - 1], r[n].k)]
  PROVE  \A n \in 0 .. Len(r) : m[n] \in Keys
<1> DEFINE L == Len(r)
           S == {n \in 0 .. L : m[n] \in Keys}
<1>1. L \in Nat /\ \A n \in 1 .. L : r[n].k \in Kinds
  <2>1. \A n \in 1 .. L : r[n] \in Bytes
    OBVIOUS
  <2> QED
    BY <2>1 DEF Bytes
<1>2. \A n \in 0 .. L : m[n] = IF n = 0 THEN a ELSE poll(m[n - 1], r[n].k)
  OBVIOUS
<1> HIDE DEF L
<1>3. 0 \in S
  BY <1>1, <1>2
<1>4. ASSUME NEW n \in 1 .. L, n - 1 \in S PROVE n \in S
  <2>1. n \in 0 .. L /\ n # 0
    BY <1>1
  <2>2. m[n] = poll(m[n - 1], r[n].k)
    BY <1>2, <2>1
  <2>3. m[n] \in Keys
    BY <1>1, <1>4, <2>2, PollKeys
  <2> QED
    BY <2>1, <2>3
<1> HIDE DEF S
<1>5. \A n \in 0 .. L : n \in S
  BY <1>1, <1>3, <1>4, UpTo
<1> QED
  BY <1>5 DEF S, L

\* A part of a sequence of bytes.
LEMMA PartOf ==
  ASSUME NEW s \in Seq(Bytes), NEW m \in Nat \ {0}, NEW n \in Nat, n <= Len(s), m <= n + 1
  PROVE  SubSeq(s, m, n) \in Seq(Bytes) /\ Len(SubSeq(s, m, n)) = n - m + 1
<1>1. \A i \in m .. n : s[i] \in Bytes
  OBVIOUS
<1>2. SubSeq(s, m, n) \in Seq(Bytes) /\ Len(SubSeq(s, m, n)) = IF m <= n THEN n - m + 1 ELSE 0
  BY <1>1, SubSeqProperties
<1>3. n - m + 1 = IF m <= n THEN n - m + 1 ELSE 0
  OBVIOUS
<1> QED
  BY <1>2, <1>3

\* Min of a set of numbers is in it.
LEMMA MinIn ==
  ASSUME NEW S, S \subseteq Nat, S # {}
  PROVE  Min(S) \in S
<1>1. IsWellFoundedOn(OpToRel(<, Nat), Nat)
  BY NatLessThanWellFounded
<1>2. PICK m \in S : \A y \in S : ~(<<y, m>> \in OpToRel(<, Nat))
  BY <1>1, WFMin
<1>3. \A y \in S : m <= y
  <2> SUFFICES ASSUME NEW y \in S, ~(m <= y) PROVE FALSE
    OBVIOUS
  <2>1. <<y, m>> \in OpToRel(<, Nat)
    BY DEF OpToRel
  <2> QED
    BY <1>2, <2>1
<1> QED
  BY <1>3 DEF Min

\* Byte c was taken from the queue s, with all in front of it; e is what is left.
Cut(c, s, e) ==
  \E n \in 0 .. Len(s) :
    e = SubSeq(s, n + 1, Len(s)) /\ (c.id = 0 \/ (n > 0 /\ c.id = s[n].id))

\* A byte, and the keyboard that is left.
LEMMA Given ==
  ASSUME NEW c \in Bytes, NEW x \in Kbds, NEW s, Len(x.ring) <= Len(s), Cut(c, s, x.ring),
         NEW q, q = [c |-> c, kbd |-> x]
  PROVE  /\ q.c \in Bytes /\ q.kbd \in Kbds /\ Len(q.kbd.ring) <= Len(s)
         /\ Cut(q.c, s, q.kbd.ring)
<1>1. q.c = c /\ q.kbd = x
  OBVIOUS
<1> QED
  BY <1>1

\* poll_char() gives a byte of the ring, or one without a name, and the ring gets
\* no longer.
LEMMA PollChar ==
  ASSUME NEW k \in Kbds
  PROVE  /\ poll_char(k).c \in Bytes /\ poll_char(k).kbd \in Kbds
         /\ Len(poll_char(k).kbd.ring) <= Len(k.ring)
         /\ Cut(poll_char(k).c, k.ring, poll_char(k).kbd.ring)
<1> DEFINE a == [ctrl |-> k.ctrl, ext |-> k.ext, key |-> "none"]
           m == CHOOSE f : f = [n \in 0 .. Len(k.ring) |-> IF n = 0 THEN a ELSE poll(f[n - 1], k.ring[n].k)]
           keys == {n \in DOMAIN k.ring : m[n].key # "none"}
           n == IF keys = {} THEN Len(k.ring) ELSE Min(keys)
           rest == [ring |-> SubSeq(k.ring, n + 1, Len(k.ring)), ctrl |-> m[n].ctrl,
                    ext |-> m[n].ext, seq |-> 0]
<1>1. poll_char(k) = IF k.seq > 0 THEN [c |-> Nul, kbd |-> [k EXCEPT !.seq = @ - 1]]
                     ELSE IF keys = {} THEN [c |-> NoByte, kbd |-> rest]
                     ELSE IF m[n].key = "up" THEN [c |-> Nul, kbd |-> [rest EXCEPT !.seq = 2]]
                     ELSE [c |-> Byte(m[n].key, k.ring[n].id), kbd |-> rest]
  BY DEF poll_char
<1>2. k.ring \in Seq(Bytes) /\ k.seq \in 0 .. 2 /\ Len(k.ring) \in Nat
  BY DEF Kbds
<1>3. a \in Keys
  BY DEF Kbds, Keys, Kinds
<1> HIDE DEF a
<1>4. m = [j \in 0 .. Len(k.ring) |-> IF j = 0 THEN a ELSE poll(m[j - 1], k.ring[j].k)]
  BY <1>2, <1>3, RingFun
<1> HIDE DEF m
<1>5. \A j \in 0 .. Len(k.ring) : m[j] \in Keys
  BY <1>2, <1>3, <1>4, RingKeys
<1>6. n \in 0 .. Len(k.ring) /\ (keys # {} => n \in 1 .. Len(k.ring))
  <2>1. CASE keys = {}
    BY <1>2, <2>1
  <2>2. CASE keys # {}
    <3>1. keys \subseteq 1 .. Len(k.ring) /\ keys \subseteq Nat
      BY <1>2
    <3>2. Min(keys) \in keys
      BY <2>2, <3>1, MinIn
    <3> QED
      BY <1>2, <2>2, <3>1, <3>2
  <2> QED
    BY <2>1, <2>2
<1> HIDE DEF n, keys
<1> DEFINE r == SubSeq(k.ring, n + 1, Len(k.ring))
<1>7. r \in Seq(Bytes) /\ Len(r) <= Len(k.ring)
  <2>1. n + 1 \in Nat \ {0} /\ n + 1 <= Len(k.ring) + 1
    BY <1>2, <1>6
  <2>2. r \in Seq(Bytes) /\ Len(r) = Len(k.ring) - (n + 1) + 1
    BY <1>2, <2>1, PartOf
  <2> QED
    BY <1>2, <1>6, <2>2
<1>8. rest = [ring |-> r, ctrl |-> m[n].ctrl, ext |-> m[n].ext, seq |-> 0]
  OBVIOUS
<1> HIDE DEF r, rest
<1>9. rest \in Kbds /\ rest.ring = r
  BY <1>5, <1>6, <1>7, <1>8 DEF Kbds, Keys
<1>10. CASE k.seq > 0
  <2>1. poll_char(k) = [c |-> Nul, kbd |-> [k EXCEPT !.seq = @ - 1]]
    BY <1>1, <1>10
  <2>2. [k EXCEPT !.seq = @ - 1] \in Kbds /\ [k EXCEPT !.seq = @ - 1].ring = k.ring
    BY <1>2, <1>10 DEF Kbds
  <2> DEFINE x == [k EXCEPT !.seq = @ - 1]
             q == poll_char(k)
  <2>3. /\ x \in Kbds /\ Len(x.ring) <= Len(k.ring) /\ q = [c |-> Nul, kbd |-> x]
        /\ Cut(Nul, k.ring, x.ring)
    <3>1. k.ring = SubSeq(k.ring, 0 + 1, Len(k.ring)) /\ Nul.id = 0
      BY <1>2 DEF Nul, Byte
    <3>2. Cut(Nul, k.ring, k.ring)
      BY <1>2, <3>1 DEF Cut
    <3> QED
      BY <1>2, <2>1, <2>2, <3>2
  <2> HIDE DEF x, q
  <2>4. /\ q.c \in Bytes /\ q.kbd \in Kbds /\ Len(q.kbd.ring) <= Len(k.ring)
        /\ Cut(q.c, k.ring, q.kbd.ring)
    BY <1>2, <2>3, ByteFacts, Given
  <2> QED
    BY <2>4 DEF q
<1>11. CASE ~(k.seq > 0) /\ keys = {}
  <2>1. poll_char(k) = [c |-> NoByte, kbd |-> rest]
    BY <1>1, <1>11
  <2>2. NoByte.id = 0
    BY DEF NoByte, Byte
  <2>3. Cut(NoByte, k.ring, r)
    BY <1>6, <2>2 DEF Cut, r
  <2> QED
    BY <1>7, <1>9, <2>1, <2>3, ByteFacts
<1>12. CASE ~(k.seq > 0) /\ keys # {} /\ m[n].key = "up"
  <2>1. poll_char(k) = [c |-> Nul, kbd |-> [rest EXCEPT !.seq = 2]]
    BY <1>1, <1>12
  <2>2. [rest EXCEPT !.seq = 2] \in Kbds /\ [rest EXCEPT !.seq = 2].ring = r
    BY <1>9 DEF Kbds
  <2> DEFINE x == [rest EXCEPT !.seq = 2]
             q == poll_char(k)
  <2>3. /\ x \in Kbds /\ Len(x.ring) <= Len(k.ring) /\ q = [c |-> Nul, kbd |-> x]
        /\ Cut(Nul, k.ring, x.ring)
    <3>1. Nul.id = 0
      BY DEF Nul, Byte
    <3>2. Cut(Nul, k.ring, r)
      BY <1>6, <3>1 DEF Cut, r
    <3> QED
      BY <1>7, <2>1, <2>2, <3>2
  <2> HIDE DEF x, q
  <2>4. /\ q.c \in Bytes /\ q.kbd \in Kbds /\ Len(q.kbd.ring) <= Len(k.ring)
        /\ Cut(q.c, k.ring, q.kbd.ring)
    BY <1>2, <2>3, ByteFacts, Given
  <2> QED
    BY <2>4 DEF q
<1>13. CASE ~(k.seq > 0) /\ keys # {} /\ m[n].key # "up"
  <2>1. poll_char(k) = [c |-> Byte(m[n].key, k.ring[n].id), kbd |-> rest]
    BY <1>1, <1>13
  <2>2. m[n].key \in Kinds
    BY <1>5, <1>6 DEF Keys
  <2>3. k.ring[n].id \in Nat
    <3>1. n \in 1 .. Len(k.ring)
      BY <1>6, <1>13
    <3>2. k.ring[n] \in Bytes
      BY <1>2, <3>1
    <3> QED
      BY <3>2 DEF Bytes
  <2> DEFINE q == poll_char(k)
             c == Byte(m[n].key, k.ring[n].id)
  <2>4. c \in Bytes /\ Len(rest.ring) <= Len(k.ring) /\ q = [c |-> c, kbd |-> rest]
    BY <1>7, <1>9, <2>1, <2>2, <2>3, ByteFacts
  <2>6. Cut(c, k.ring, rest.ring)
    <3>1. n \in 1 .. Len(k.ring) /\ c.id = k.ring[n].id
      BY <1>6, <1>13 DEF Byte
    <3>2. n \in 0 .. Len(k.ring) /\ n > 0
      BY <1>2, <3>1
    <3> HIDE DEF c
    <3> QED
      BY <1>9, <3>1, <3>2 DEF Cut, r
  <2> HIDE DEF q, c
  <2>5. /\ q.c \in Bytes /\ q.kbd \in Kbds /\ Len(q.kbd.ring) <= Len(k.ring)
        /\ Cut(q.c, k.ring, q.kbd.ring)
    BY <1>2, <1>9, <2>4, <2>6, Given
  <2> QED
    BY <2>5 DEF q
<1> QED
  BY <1>10, <1>11, <1>12, <1>13

\* The first byte of a queue.
LEMMA HeadCut ==
  ASSUME NEW s \in Seq(Bytes), s # <<>>
  PROVE  Cut(Head(s), s, Tail(s))
<1>1. 1 \in 0 .. Len(s) /\ Head(s) = s[1] /\ Tail(s) = SubSeq(s, 1 + 1, Len(s))
  OBVIOUS
<1> QED
  BY <1>1 DEF Cut

\* tty_key(): a byte, and less of what there was.
LEMMA TtyKey ==
  ASSUME NEW k \in Kbds, NEW l \in Seq(Bytes)
  PROVE  LET r == tty_key(k, l) IN
         /\ r.c \in Bytes /\ r.kbd \in Kbds /\ r.line \in Seq(Bytes)
         /\ Len(r.kbd.ring) <= Len(k.ring)
         /\ \/ Cut(r.c, k.ring, r.kbd.ring) /\ r.line = l
            \/ Cut(NoByte, k.ring, r.kbd.ring) /\ Cut(r.c, l, r.line)
<1> DEFINE p == poll_char(k)
<1>1. /\ p.c \in Bytes /\ p.kbd \in Kbds /\ Len(p.kbd.ring) <= Len(k.ring)
      /\ Cut(p.c, k.ring, p.kbd.ring)
  BY PollChar
<1>2. tty_key(k, l) = IF p.c # NoByte \/ l = <<>> THEN [c |-> p.c, kbd |-> p.kbd, line |-> l]
                      ELSE [c |-> Head(l), kbd |-> p.kbd, line |-> Tail(l)]
  BY DEF tty_key
<1> HIDE DEF p
<1>3. CASE p.c # NoByte \/ l = <<>>
  BY <1>1, <1>2, <1>3
<1>4. CASE ~(p.c # NoByte \/ l = <<>>)
  <2>1. Head(l) \in Bytes /\ Tail(l) \in Seq(Bytes)
    BY <1>4
  <2>2. Cut(Head(l), l, Tail(l))
    BY <1>4, HeadCut
  <2> QED
    BY <1>1, <1>2, <1>4, <2>1, <2>2
<1> QED
  BY <1>3, <1>4

\* What the discipline makes of a byte: its buffer keeps its free slot.
Kept(t) == t \in Ttys /\ Len(t.buf) < kTtyBuf

\* tty_put() looks for room.
LEMMA TtyPut ==
  ASSUME NEW t, Kept(t), NEW c \in Bytes
  PROVE  Kept(tty_put(t, c))
<1>1. t \in Ttys /\ t.buf \in Seq(Bytes) /\ Len(t.buf) < kTtyBuf /\ Len(t.buf) \in Nat
  BY DEF Kept, Ttys
<1>2. CASE Len(t.buf) + 1 >= kTtyBuf
  BY <1>2 DEF tty_put
<1>3. CASE ~(Len(t.buf) + 1 >= kTtyBuf)
  <2> DEFINE b == Append(t.buf, c)
  <2>1. tty_put(t, c) = [t EXCEPT !.buf = b]
    BY <1>3 DEF tty_put
  <2>2. b \in Seq(Bytes) /\ Len(b) = Len(t.buf) + 1
    BY <1>1
  <2> HIDE DEF b
  <2>3. Len(b) < kTtyBuf
    BY <1>1, <1>3, <2>2, TtyAssumption
  <2>4. [t EXCEPT !.buf = b] \in Ttys /\ [t EXCEPT !.buf = b].buf = b
    BY <1>1, <2>2 DEF Ttys
  <2> QED
    BY <2>1, <2>3, <2>4 DEF Kept
<1> QED
  BY <1>2, <1>3

\* A buffer made shorter.
LEMMA Shorter ==
  ASSUME NEW t, Kept(t), NEW b \in Seq(Bytes), Len(b) <= Len(t.buf)
  PROVE  /\ Kept([t EXCEPT !.buf = b]) /\ [t EXCEPT !.buf = b].buf = b
         /\ [t EXCEPT !.buf = b].eof => t.eof
         /\ [t EXCEPT !.buf = b].flags = t.flags
<1>1. t \in Ttys /\ t.buf \in Seq(Bytes) /\ Len(t.buf) < kTtyBuf /\ Len(t.buf) \in Nat /\ Len(b) \in Nat
  BY DEF Kept, Ttys
<1>2. [t EXCEPT !.buf = b] \in Ttys /\ [t EXCEPT !.buf = b].buf = b /\ [t EXCEPT !.buf = b].flags = t.flags
  BY <1>1 DEF Ttys
<1>3. [t EXCEPT !.buf = b].eof => t.eof
  BY <1>1 DEF Ttys
<1>4. Len(b) < kTtyBuf
  BY <1>1, TtyAssumption
<1> QED
  BY <1>2, <1>3, <1>4 DEF Kept

\* tty_input() in every case.
LEMMA TtyInput ==
  ASSUME NEW t, Kept(t), NEW c \in Bytes
  PROVE  Kept(tty_input(t, c))
<1>1. t \in Ttys /\ t.buf \in Seq(Bytes) /\ Len(t.buf) < kTtyBuf /\ Len(t.buf) \in Nat
  BY DEF Kept, Ttys
<1>2. Kept(tty_drop(t))
  <2>1. <<>> \in Seq(Bytes) /\ Len(<<>>) <= Len(t.buf)
    BY <1>1
  <2> QED
    BY <2>1, Shorter DEF tty_drop
<1>3. Kept([t EXCEPT !.eof = TRUE])
  <2>1. [t EXCEPT !.eof = TRUE] \in Ttys /\ [t EXCEPT !.eof = TRUE].buf = t.buf
    BY <1>1 DEF Ttys
  <2> QED
    BY <1>1, <2>1 DEF Kept
<1>4. Kept(IF t.buf = <<>> THEN t ELSE [t EXCEPT !.buf = Front(@)])
  <2>1. CASE t.buf = <<>>
    BY <2>1
  <2>2. CASE t.buf # <<>>
    <3> DEFINE b == Front(t.buf)
    <3>1. Len(t.buf) - 1 \in Nat /\ 1 <= Len(t.buf) - 1 + 1 /\ Len(t.buf) - 1 <= Len(t.buf)
      BY <1>1, <2>2
    <3>2. b \in Seq(Bytes) /\ Len(b) = Len(t.buf) - 1 - 1 + 1
      BY <1>1, <3>1, PartOf DEF Front
    <3>3. Len(b) <= Len(t.buf)
      BY <1>1, <3>2
    <3> HIDE DEF b
    <3>4. Kept([t EXCEPT !.buf = b])
      BY <3>2, <3>3, Shorter
    <3> QED
      BY <2>2, <3>4 DEF b
  <2> QED
    BY <2>1, <2>2
<1>5. Kept(tty_put(t, [c EXCEPT !.k = "nl"]))
  <2>1. [c EXCEPT !.k = "nl"] \in Bytes
    BY DEF Bytes, Kinds
  <2> QED
    BY <2>1, TtyPut
<1>6. Kept(tty_put(t, c))
  BY TtyPut
<1> QED
  BY <1>2, <1>3, <1>4, <1>5, <1>6, Zenon DEF tty_input

-----------------------------------------------------------------------------
(* What waking processes does to them.                                     *)

\* A process that is woken keeps its place; a note is not lost.
Same(t, u) ==
  /\ u.pc = t.pc /\ u.dev = t.dev /\ u.len = t.len /\ u.got = t.got
  /\ u.on = t.on /\ u.again = t.again /\ u.drained = t.drained /\ u.hand = t.hand
  /\ t.wake_pending => u.wake_pending
Eased(t, u) == Same(t, u) /\ (u.state = t.state \/ (t.state = "blocked" /\ u.state = "ready"))
AllEased(T, U) == U \in [Procs -> Tasks] /\ \A p \in Procs : Eased(T[p], U[p])
Told(t, u) == u.state # "blocked" /\ (t.state # "blocked" => u.wake_pending)

\* Nothing may happen.
LEMMA EasedSame ==
  ASSUME NEW T \in [Procs -> Tasks]
  PROVE  AllEased(T, T)
BY DEF AllEased, Eased, Same

\* And twice.
LEMMA EasedTwice ==
  ASSUME NEW T, NEW U, NEW V, AllEased(T, U), AllEased(U, V)
  PROVE  AllEased(T, V)
<1>1. ASSUME NEW p \in Procs PROVE Eased(T[p], V[p])
  <2>1. Eased(T[p], U[p]) /\ Eased(U[p], V[p])
    BY DEF AllEased
  <2> QED
    BY <2>1 DEF Eased, Same
<1> QED
  BY <1>1 DEF AllEased

\* unblock() eases, and reaches whom it is for.
LEMMA Unblock ==
  ASSUME NEW T \in [Procs -> Tasks], NEW S
  PROVE  AllEased(T, unblock(T, S)) /\ \A p \in Procs : p \in S => Told(T[p], unblock(T, S)[p])
<1> DEFINE u(p) == IF p \notin S THEN T[p]
                   ELSE IF T[p].state = "blocked" THEN [T[p] EXCEPT !.state = "ready"]
                   ELSE [T[p] EXCEPT !.wake_pending = TRUE]
<1>1. ASSUME NEW p \in Procs
      PROVE  u(p) \in Tasks /\ Eased(T[p], u(p)) /\ (p \in S => Told(T[p], u(p)))
  <2>1. T[p] \in Tasks
    OBVIOUS
  <2> DEFINE t == T[p]
  <2> HIDE DEF t
  <2>2. t \in Tasks
    BY <2>1 DEF t
  <2>3. Eased(t, t)
    BY DEF Eased, Same
  <2>4. [t EXCEPT !.state = "ready"] \in Tasks
    BY <2>2 DEF Tasks, States
  <2>5. t.state = "blocked" => Eased(t, [t EXCEPT !.state = "ready"]) /\ Told(t, [t EXCEPT !.state = "ready"])
    BY <2>2 DEF Tasks, Eased, Same, Told
  <2>6. [t EXCEPT !.wake_pending = TRUE] \in Tasks
    BY <2>2 DEF Tasks
  <2>7. Eased(t, [t EXCEPT !.wake_pending = TRUE])
    BY <2>2 DEF Tasks, Eased, Same
  <2>8. t.state # "blocked" => Told(t, [t EXCEPT !.wake_pending = TRUE])
    BY <2>2 DEF Tasks, Told
  <2>9. u(p) = IF p \notin S THEN t ELSE IF t.state = "blocked" THEN [t EXCEPT !.state = "ready"]
                   ELSE [t EXCEPT !.wake_pending = TRUE]
    BY DEF t
  <2> HIDE DEF u
  <2>10. u(p) \in Tasks /\ Eased(t, u(p)) /\ (p \in S => Told(t, u(p)))
    BY <2>2, <2>3, <2>4, <2>5, <2>6, <2>7, <2>8, <2>9, Zenon
  <2> QED
    BY <2>10 DEF t
<1>2. unblock(T, S) = [p \in Procs |-> u(p)]
  BY DEF unblock
<1> HIDE DEF u
<1> DEFINE U == unblock(T, S)
<1>3. U = [p \in Procs |-> u(p)]
  BY <1>2
<1> HIDE DEF U
<1>4. U \in [Procs -> Tasks] /\ \A p \in Procs : U[p] = u(p)
  BY <1>1, <1>3
<1>5. ASSUME NEW p \in Procs PROVE Eased(T[p], U[p]) /\ (p \in S => Told(T[p], U[p]))
  BY <1>1, <1>4
<1>6. AllEased(T, U) /\ \A p \in Procs : p \in S => Told(T[p], U[p])
  BY <1>4, <1>5 DEF AllEased
<1> QED
  BY <1>6 DEF U

\* signal_task() eases.
LEMMA Signal ==
  ASSUME NEW T \in [Procs -> Tasks], NEW p \in Procs
  PROVE  AllEased(T, signal_task(T, p))
<1> DEFINE S == {q \in {p} : T[q].state = "blocked"}
           U == unblock(T, S)
           V == [U EXCEPT ![p].sig_pending = TRUE]
<1>1. signal_task(T, p) = V
  BY DEF signal_task
<1>2. AllEased(T, U)
  BY Unblock
<1> HIDE DEF U
<1>3. U \in [Procs -> Tasks]
  BY <1>2 DEF AllEased
<1>4. [U[p] EXCEPT !.sig_pending = TRUE] \in Tasks /\ Eased(U[p], [U[p] EXCEPT !.sig_pending = TRUE])
  <2>1. U[p] \in Tasks
    BY <1>3
  <2> DEFINE t == U[p]
  <2> HIDE DEF t
  <2>2. t \in Tasks
    BY <2>1 DEF t
  <2>3. [t EXCEPT !.sig_pending = TRUE] \in Tasks
    BY <2>2 DEF Tasks
  <2>4. Eased(t, [t EXCEPT !.sig_pending = TRUE])
    BY <2>2 DEF Tasks, Eased, Same
  <2> QED
    BY <2>3, <2>4 DEF t
<1> DEFINE w == [U[p] EXCEPT !.sig_pending = TRUE]
<1>5. V = [U EXCEPT ![p] = w]
  BY <1>3
<1>6. w \in Tasks /\ Eased(U[p], w)
  BY <1>4
<1> HIDE DEF w, V
<1>7. V \in [Procs -> Tasks] /\ \A q \in Procs : V[q] = IF q = p THEN w ELSE U[q]
  BY <1>3, <1>5, <1>6
<1>8. ASSUME NEW q \in Procs PROVE Eased(U[q], V[q])
  <2>1. CASE q = p
    BY <1>6, <1>7, <2>1
  <2>2. CASE q # p
    <3>1. V[q] = U[q]
      BY <1>7, <2>2
    <3> QED
      BY <3>1 DEF Eased, Same
  <2> QED
    BY <2>1, <2>2
<1>9. AllEased(U, V)
  BY <1>7, <1>8 DEF AllEased
<1> QED
  BY <1>1, <1>2, <1>9, EasedTwice

\* A Ctrl-C is for some process.
LEMMA IntrProc ==
  ASSUME NEW t \in Ttys, g_current \in Procs
  PROVE  IntrTo(t) \in Procs
<1>1. t.owner \in 0 .. kProcs
  BY DEF Ttys
<1> QED
  BY <1>1, TtyAssumption DEF IntrTo, Procs

-----------------------------------------------------------------------------
(* tty_drain() as a tick runs it.                                          *)

\* What it may have left of a keyboard k, a discipline t and processes T.
Left(k, t, T) ==
  {x \in [kbd : Kbds, line : Seq(Bytes), tty : Ttys, tasks : [Procs -> Tasks], got : BOOLEAN] :
     /\ Len(x.kbd.ring) <= Len(k.ring) /\ Kept(x.tty) /\ AllEased(T, x.tasks)
     /\ ~x.got => x.tty = t}

\* What there is to say of a member.
LEMMA LeftIs ==
  ASSUME NEW k, NEW t, NEW T, NEW x \in Left(k, t, T)
  PROVE  /\ x.kbd \in Kbds /\ x.line \in Seq(Bytes) /\ x.tty \in Ttys /\ x.tasks \in [Procs -> Tasks]
         /\ x.got \in BOOLEAN /\ Len(x.kbd.ring) <= Len(k.ring) /\ Kept(x.tty)
         /\ AllEased(T, x.tasks) /\ (~x.got => x.tty = t)
BY DEF Left

\* One byte.
Taking(x) ==
  LET r == tty_key(x.kbd, x.line)
  IN IF r.c = NoByte THEN [x EXCEPT !.kbd = r.kbd]
     ELSE [kbd |-> r.kbd, line |-> r.line, tty |-> tty_input(x.tty, r.c), got |-> TRUE,
           tasks |-> IF Interrupts(x.tty, r.c) THEN signal_task(x.tasks, IntrTo(x.tty))
                     ELSE x.tasks]

\* It leaves what it may.
LEMMA TakingLeft ==
  ASSUME NEW k \in Kbds, NEW t, NEW T \in [Procs -> Tasks], NEW x \in Left(k, t, T), g_current \in Procs
  PROVE  Taking(x) \in Left(k, t, T)
<1> DEFINE r == tty_key(x.kbd, x.line)
<1>1. /\ x.kbd \in Kbds /\ x.line \in Seq(Bytes) /\ x.tty \in Ttys /\ x.tasks \in [Procs -> Tasks]
      /\ x.got \in BOOLEAN /\ Len(x.kbd.ring) <= Len(k.ring) /\ Kept(x.tty)
      /\ AllEased(T, x.tasks) /\ (~x.got => x.tty = t)
  BY LeftIs
<1>2. /\ r.c \in Bytes /\ r.kbd \in Kbds /\ r.line \in Seq(Bytes)
      /\ Len(r.kbd.ring) <= Len(x.kbd.ring)
  BY <1>1, TtyKey
<1> DEFINE y == tty_input(x.tty, r.c)
           U == IF Interrupts(x.tty, r.c) THEN signal_task(x.tasks, IntrTo(x.tty)) ELSE x.tasks
<1>3. Taking(x) = IF r.c = NoByte THEN [x EXCEPT !.kbd = r.kbd]
                  ELSE [kbd |-> r.kbd, line |-> r.line, tty |-> y, got |-> TRUE, tasks |-> U]
  BY DEF Taking
<1>4. Len(r.kbd.ring) <= Len(k.ring)
  <2>1. k.ring \in Seq(Bytes) /\ x.kbd.ring \in Seq(Bytes) /\ r.kbd.ring \in Seq(Bytes)
    BY <1>1, <1>2 DEF Kbds
  <2> DEFINE a == Len(k.ring) 
             b == Len(x.kbd.ring) 
             c == Len(r.kbd.ring)
  <2>2. a \in Nat /\ b \in Nat /\ c \in Nat /\ b <= a /\ c <= b
    BY <1>1, <1>2, <2>1
  <2> HIDE DEF a, b, c
  <2>3. c <= a
    BY <2>2
  <2> QED
    BY <2>3 DEF a, c
<1>5. Kept(y) /\ y \in Ttys
  <2>1. Kept(y)
    BY <1>1, <1>2, TtyInput
  <2> QED
    BY <2>1 DEF Kept
<1>6. AllEased(T, U) /\ U \in [Procs -> Tasks]
  <2>1. AllEased(x.tasks, signal_task(x.tasks, IntrTo(x.tty)))
    BY <1>1, IntrProc, Signal
  <2>2. AllEased(T, signal_task(x.tasks, IntrTo(x.tty)))
    BY <1>1, <2>1, EasedTwice
  <2>3. AllEased(T, U)
    BY <1>1, <2>2, Zenon
  <2> QED
    BY <2>3 DEF AllEased
<1> HIDE DEF r, y, U
<1>7. CASE r.c = NoByte
  <2>1. Taking(x) = [x EXCEPT !.kbd = r.kbd]
    BY <1>3, <1>7
  <2>2. x \in [kbd : Kbds, line : Seq(Bytes), tty : Ttys, tasks : [Procs -> Tasks], got : BOOLEAN]
    BY DEF Left
  <2> DEFINE z == [x EXCEPT !.kbd = r.kbd]
  <2>3. /\ z \in [kbd : Kbds, line : Seq(Bytes), tty : Ttys, tasks : [Procs -> Tasks], got : BOOLEAN]
        /\ z.kbd = r.kbd /\ z.tty = x.tty /\ z.tasks = x.tasks
    BY <1>2, <2>2
  <2>4. z.got = x.got
    BY <2>2
  <2> HIDE DEF z
  <2>5. z \in Left(k, t, T)
    BY <1>1, <1>4, <2>3, <2>4 DEF Left
  <2> QED
    BY <2>1, <2>5 DEF z
<1>8. CASE r.c # NoByte
  <2> DEFINE z == [kbd |-> r.kbd, line |-> r.line, tty |-> y, got |-> TRUE, tasks |-> U]
  <2>1. Taking(x) = z
    BY <1>3, <1>8
  <2>2. /\ z \in [kbd : Kbds, line : Seq(Bytes), tty : Ttys, tasks : [Procs -> Tasks], got : BOOLEAN]
        /\ z.kbd = r.kbd /\ z.tty = y /\ z.tasks = U /\ z.got
    BY <1>2, <1>5, <1>6
  <2> HIDE DEF z
  <2>3. z \in Left(k, t, T)
    BY <1>4, <1>5, <1>6, <2>2 DEF Left
  <2> QED
    BY <2>1, <2>3
<1> QED
  BY <1>7, <1>8

\* Where it begins.
Full(k, l, t, T) == [kbd |-> k, line |-> l, tty |-> t, tasks |-> T, got |-> FALSE]

\* The whole of it stays where every byte stays.
LEMMA DrainedIn ==
  ASSUME NEW k \in Kbds, NEW l \in Seq(Bytes), NEW t, NEW T,
         NEW X, Full(k, l, t, T) \in X, \A x \in X : Taking(x) \in X
  PROVE  Drained(k, l, t, T) \in X
<1> DEFINE most == 3 * Len(k.ring) + k.seq + Len(l)
           a == Full(k, l, t, T)
           d == CHOOSE f : f = [n \in 0 .. most |-> IF n = 0 THEN a ELSE Taking(f[n - 1])]
           st == [n \in 1 .. most |-> [x \in X |-> Taking(x)]]
<1>1. Drained(k, l, t, T) = d[most]
  BY DEF Drained, Taking, Full
<1>2. most \in Nat
  <2>1. k.ring \in Seq(Bytes) /\ k.seq \in 0 .. 2
    BY DEF Kbds
  <2>2. Len(k.ring) \in Nat /\ Len(l) \in Nat
    BY <2>1
  <2> QED
    BY <2>1, <2>2
<1> HIDE DEF most
<1>3. a \in X
  OBVIOUS
<1> HIDE DEF a
<1>4. \A x \in X : Taking(x) \in X
  OBVIOUS
<1>5. \A n \in 1 .. most, x \in X : st[n][x] = Taking(x)
  OBVIOUS
<1>6. Closed(most, X, st)
  BY <1>4, <1>5 DEF Closed
<1> HIDE DEF st
<1>7. PICK f : Values(f, most, X, a, st)
  BY <1>2, <1>3, <1>6, Steps
<1>8. \A n \in 1 .. most : n - 1 \in 0 .. most /\ f[n - 1] \in X
  BY <1>2, <1>7 DEF Values
<1>9. \A n \in 0 .. most : f[n] = IF n = 0 THEN a ELSE Taking(f[n - 1])
  <2> SUFFICES ASSUME NEW n \in 0 .. most PROVE f[n] = IF n = 0 THEN a ELSE Taking(f[n - 1])
    OBVIOUS
  <2>1. CASE n = 0
    BY <1>7, <2>1 DEF Values
  <2>2. CASE n # 0
    <3>1. n \in 1 .. most
      BY <1>2, <2>2
    <3> QED
      BY <1>5, <1>7, <1>8, <2>2, <3>1 DEF Values
  <2> QED
    BY <2>1, <2>2
<1>10. f = [n \in 0 .. most |-> IF n = 0 THEN a ELSE Taking(f[n - 1])]
  BY <1>7, <1>9 DEF Values
<1>11. d = [n \in 0 .. most |-> IF n = 0 THEN a ELSE Taking(d[n - 1])]
  BY <1>10
<1> HIDE DEF d
<1>12. \A n \in 0 .. most : d[n] = IF n = 0 THEN a ELSE Taking(d[n - 1])
  BY <1>11
<1> DEFINE S == {n \in 0 .. most : d[n] \in X}
<1>13. 0 \in S
  BY <1>2, <1>3, <1>12
<1>14. ASSUME NEW n \in 1 .. most, n - 1 \in S PROVE n \in S
  <2>1. n \in 0 .. most /\ n # 0
    BY <1>2
  <2>2. d[n] = Taking(d[n - 1])
    BY <1>12, <2>1
  <2> QED
    BY <1>4, <1>14, <2>1, <2>2
<1> HIDE DEF S
<1>15. \A n \in 0 .. most : n \in S
  BY <1>2, <1>13, <1>14, UpTo
<1> QED
  BY <1>1, <1>2, <1>15 DEF S

\* It begins with nothing taken.
LEMMA FullLeft ==
  ASSUME NEW k \in Kbds, NEW l \in Seq(Bytes), NEW t, Kept(t), NEW T \in [Procs -> Tasks]
  PROVE  Full(k, l, t, T) \in Left(k, t, T)
<1> DEFINE a == Full(k, l, t, T)
<1>1. AllEased(T, T) /\ t \in Ttys
  BY EasedSame DEF Kept
<1>2. /\ a \in [kbd : Kbds, line : Seq(Bytes), tty : Ttys, tasks : [Procs -> Tasks], got : BOOLEAN]
      /\ a.kbd = k /\ a.tty = t /\ a.tasks = T
  BY <1>1 DEF Full
<1>3. Len(k.ring) <= Len(k.ring)
  <2>1. k.ring \in Seq(Bytes)
    BY DEF Kbds
  <2> QED
    BY <2>1
<1> HIDE DEF a
<1>4. a \in Left(k, t, T)
  BY <1>1, <1>2, <1>3 DEF Left
<1> QED
  BY <1>4 DEF a

\* It leaves what it may.
LEMMA DrainedLeft ==
  ASSUME NEW k \in Kbds, NEW l \in Seq(Bytes), NEW t, Kept(t), NEW T \in [Procs -> Tasks],
         g_current \in Procs
  PROVE  Drained(k, l, t, T) \in Left(k, t, T)
<1> DEFINE a == Full(k, l, t, T)
           X == Left(k, t, T)
<1>1. a \in X
  BY FullLeft
<1>2. \A x \in X : Taking(x) \in X
  BY TakingLeft
<1> HIDE DEF X
<1>3. Drained(k, l, t, T) \in X
  BY <1>1, <1>2, DrainedIn
<1> QED
  BY <1>3 DEF X

-----------------------------------------------------------------------------
(* The invariant.                                                          *)

In(p, W) == \E i \in Slots : W[i] = p
Quiet(y) == y.buf = <<>> /\ ~y.eof
Draining(t) == t.pc \in {"drain", "input"} /\ t.drained

\* Only the current process runs, and only it is inside a call and awake.
Sane(p, t, c) ==
  /\ t.state = "running" => p = c
  /\ t.pc # "user" => Len(t.got) <= t.len
  /\ t.state = "blocked" => t.pc = "asleep"
  /\ t.pc = "user" => ~t.on /\ t.got = <<>>
  /\ t.pc = "poll" => t.dev # "tty"
  /\ t.pc \notin {"user", "asleep"} => p = c /\ t.state = "running"
AllSane(T, c) == c \in Procs /\ T \in [Procs -> Tasks] /\ \A p \in Procs : Sane(p, T[p], c)

\* A process that waits is in g_wait or has been told; that its ring was empty is
\* still so, or it has been told.  Who does not wait is not in g_wait.
Claims(p, t, W, r) ==
  /\ t.pc \notin {"look", "block", "asleep"} => ~In(p, W)
  /\ t.pc = "look" => t.wake_pending \/ In(p, W)
  /\ t.pc = "block" => t.wake_pending \/ (In(p, W) /\ r = <<>>)
  /\ t.state = "blocked" => In(p, W) /\ r = <<>>

\* Nobody is in it twice.
Once(W) == \A i, j \in Slots : W[i] = W[j] /\ W[i] # 0 => i = j

\* On the way to its first sleep a reader of the terminal has interrupts off, and
\* what it saw of the discipline is still so; when it sleeps somebody who has
\* drained may be about to wake it.  Nobody sleeps while a poll() is half done: it
\* found a scancode in the ring.
Way(t, y) == t.dev = "tty" /\ ~t.on /\ t.pc \in {"key", "move", "wait", "look", "block"} => Quiet(y)
Sleep(t, T, y) ==
  /\ t.dev = "tty" /\ t.state = "blocked" /\ ~t.again => Quiet(y) \/ \E q \in Procs : Draining(T[q])
  /\ t.state = "blocked" => \A q \in Procs : T[q].pc # "move"

Room(T, W, r, y) ==
  /\ Once(W)
  /\ \A p \in Procs : Claims(p, T[p], W, r) /\ Way(T[p], y) /\ Sleep(T[p], T, y)

\* What was typed, and the discipline with who waits, have their types.
Keyed == kbd \in Kbds /\ Len(kbd.ring) < kBuf /\ line \in Seq(Bytes) /\ typed \in Nat
Ruled == Kept(g_tty) /\ g_wait \in [Slots -> 0 .. kProcs]
TtyInv == Keyed /\ Ruled /\ AllSane(g_tasks, g_current)
RoomInv == Room(g_tasks, g_wait, kbd.ring, g_tty)

-----------------------------------------------------------------------------
(* What waking and switching do to it.                                     *)

\* Waking changes nothing of Sane.
LEMMA EasedSane ==
  ASSUME NEW T, NEW U, NEW c, AllSane(T, c), AllEased(T, U)
  PROVE  AllSane(U, c)
<1>1. ASSUME NEW p \in Procs PROVE Sane(p, U[p], c)
  <2>1. Sane(p, T[p], c) /\ Eased(T[p], U[p])
    BY DEF AllSane, AllEased
  <2> QED
    BY <2>1 DEF Sane, Eased, Same
<1> QED
  BY <1>1 DEF AllSane, AllEased

\* A step of the current process.
LEMMA OwnSane ==
  ASSUME NEW T, NEW U, NEW c, AllSane(T, c), AllEased(T, U), NEW t \in Tasks, Sane(c, t, c)
  PROVE  AllSane([U EXCEPT ![c] = t], c)
<1> DEFINE V == [U EXCEPT ![c] = t]
<1>1. AllSane(U, c)
  BY EasedSane
<1>2. c \in Procs /\ U \in [Procs -> Tasks]
  BY <1>1 DEF AllSane
<1>3. V \in [Procs -> Tasks] /\ \A p \in Procs : V[p] = IF p = c THEN t ELSE U[p]
  BY <1>2
<1> HIDE DEF V
<1>4. ASSUME NEW p \in Procs PROVE Sane(p, V[p], c)
  <2>1. CASE p = c
    BY <1>3, <2>1
  <2>2. CASE p # c
    BY <1>1, <1>3, <2>2 DEF AllSane
  <2> QED
    BY <2>1, <2>2
<1>5. AllSane(V, c)
  BY <1>2, <1>3, <1>4 DEF AllSane
<1> QED
  BY <1>5 DEF V

\* When nobody is inside a call, the CPU may go to another.
Switched(T, U, n) ==
  /\ U \in [Procs -> Tasks]
  /\ \A p \in Procs : /\ T[p].pc \in {"user", "asleep"} /\ Same(T[p], U[p])
                      /\ U[p].state = "blocked" => T[p].state = "blocked"
                      /\ U[p].state = "running" => p = n

\* Sane after that.
LEMMA SwitchSane ==
  ASSUME NEW T, NEW U, NEW c, AllSane(T, c), NEW n \in Procs, Switched(T, U, n)
  PROVE  AllSane(U, n)
<1>1. ASSUME NEW p \in Procs PROVE Sane(p, U[p], n)
  <2>1. /\ Sane(p, T[p], c) /\ T[p].pc \in {"user", "asleep"} /\ Same(T[p], U[p])
        /\ U[p].state = "blocked" => T[p].state = "blocked"
        /\ U[p].state = "running" => p = n
    BY DEF AllSane, Switched
  <2> QED
    BY <2>1 DEF Sane, Same
<1> QED
  BY <1>1 DEF AllSane, Switched

\* And Room.
LEMMA SwitchRoom ==
  ASSUME NEW T, NEW U, NEW W, NEW r, NEW y, NEW n \in Procs, Switched(T, U, n), Room(T, W, r, y)
  PROVE  Room(U, W, r, y)
<1>1. ASSUME NEW p \in Procs PROVE Claims(p, U[p], W, r) /\ Way(U[p], y) /\ Sleep(U[p], U, y)
  <2>1. /\ T[p].pc \in {"user", "asleep"} /\ Same(T[p], U[p])
        /\ U[p].state = "blocked" => T[p].state = "blocked"
    BY DEF Switched
  <2>2. Claims(p, T[p], W, r) /\ Sleep(T[p], T, y)
    BY DEF Room
  <2>3. Claims(p, U[p], W, r)
    BY <2>1, <2>2 DEF Claims, Same
  <2>4. Way(U[p], y)
    BY <2>1 DEF Way, Same
  <2>5. \A q \in Procs : ~Draining(T[q])
    BY DEF Switched, Draining
  <2>6. ASSUME NEW q \in Procs PROVE U[q].pc # "move"
    <3>1. T[q].pc \in {"user", "asleep"} /\ Same(T[q], U[q])
      BY DEF Switched
    <3> QED
      BY <3>1 DEF Same
  <2>7. Sleep(U[p], U, y)
    BY <2>1, <2>2, <2>5, <2>6 DEF Sleep, Same
  <2> QED
    BY <2>3, <2>4, <2>7
<1> QED
  BY <1>1 DEF Room

\* Waking some, while the keyboard's ring gets no fuller.
LEMMA EasedRoom ==
  ASSUME NEW T, NEW U, NEW W, NEW r, NEW r2, NEW y, AllEased(T, U), Room(T, W, r, y),
         r = <<>> => r2 = <<>>
  PROVE  Room(U, W, r2, y)
<1>1. ASSUME NEW p \in Procs PROVE Claims(p, U[p], W, r2) /\ Way(U[p], y) /\ Sleep(U[p], U, y)
  <2>1. Eased(T[p], U[p])
    BY DEF AllEased
  <2>2. Claims(p, T[p], W, r) /\ Way(T[p], y) /\ Sleep(T[p], T, y)
    BY DEF Room
  <2>3. Claims(p, U[p], W, r2)
    BY <2>1, <2>2 DEF Claims, Eased, Same
  <2>4. Way(U[p], y)
    BY <2>1, <2>2 DEF Way, Eased, Same
  <2>5. ASSUME NEW q \in Procs PROVE (Draining(T[q]) => Draining(U[q])) /\ U[q].pc = T[q].pc
    <3>1. Eased(T[q], U[q])
      BY DEF AllEased
    <3> QED
      BY <3>1 DEF Draining, Eased, Same
  <2>6. Sleep(U[p], U, y)
    BY <2>1, <2>2, <2>5 DEF Sleep, Eased, Same
  <2> QED
    BY <2>3, <2>4, <2>6
<1> QED
  BY <1>1 DEF Room

\* Nobody is in a g_wait that was emptied.
LEMMA NobodyIn ==
  /\ Nobody \in [Slots -> 0 .. kProcs] /\ Once(Nobody)
  /\ \A p \in Procs : ~In(p, Nobody)
BY TtyAssumption DEF Nobody, Once, In, Procs

\* Waking all who are in g_wait, whatever else changes: nobody is asleep then.
LEMMA WokenRoom ==
  ASSUME NEW T, NEW U, NEW c, NEW V, NEW W, NEW r, NEW r2, NEW y, NEW y2,
         AllSane(T, c), AllEased(T, U), \A p \in Procs : In(p, W) => Told(T[p], U[p]),
         Room(T, W, r, y),
         \A p \in Procs : V[p] = U[p] \/ (p = c /\ V[p].state = "running" /\ V[p].pc \in {"take", "key"}),
         \A p \in Procs : Way(V[p], y2)
  PROVE  Room(V, Nobody, r2, y2)
<1>1. ASSUME NEW p \in Procs PROVE Claims(p, V[p], Nobody, r2) /\ Sleep(V[p], V, y2)
  <2>1. CASE V[p] = U[p]
    <3>1. /\ Sane(p, T[p], c) /\ Eased(T[p], U[p]) /\ (In(p, W) => Told(T[p], U[p]))
          /\ Claims(p, T[p], W, r)
      BY DEF AllSane, AllEased, Room
    <3>2. U[p].state # "blocked"
      BY <3>1 DEF Eased, Claims, Told
    <3>3. U[p].pc \in {"look", "block"} => U[p].wake_pending
      BY <3>1 DEF Eased, Same, Claims, Told, Sane
    <3>4. Claims(p, V[p], Nobody, r2)
      BY <2>1, <3>2, <3>3, NobodyIn DEF Claims
    <3>5. Sleep(V[p], V, y2)
      BY <2>1, <3>2 DEF Sleep
    <3> QED
      BY <3>4, <3>5
  <2>2. CASE V[p].state = "running" /\ V[p].pc \in {"take", "key"}
    <3>1. Claims(p, V[p], Nobody, r2)
      BY <2>2, NobodyIn DEF Claims
    <3>2. Sleep(V[p], V, y2)
      BY <2>2 DEF Sleep
    <3> QED
      BY <3>1, <3>2
  <2> QED
    BY <2>1, <2>2
<1> QED
  BY <1>1, NobodyIn DEF Room

\* What the current process leaves so that Room goes on to hold: who is in g_wait
\* otherwise, what it claims itself, and what sleepers may rely on, if there are any.
Fits(T, W, r, y, c, t, W2, r2, y2) ==
  /\ Once(W2) /\ \A p \in Procs : p # c => (In(p, W) <=> In(p, W2))
  /\ Claims(c, t, W2, r2) /\ Way(t, y2)
  /\ t.state = "blocked" /\ t.dev = "tty" /\ ~t.again => Quiet(y2)
  /\ t.pc = "move" => t.state = "running" /\ r # <<>>
  /\ T[c].pc # "move" /\ r = <<>> =>
       /\ r2 = <<>>
       /\ Draining(T[c]) => Draining(t)
       /\ (Quiet(y) => Quiet(y2)) \/ Draining(t)

\* A step of the current process.
LEMMA OwnRoom ==
  ASSUME NEW T, NEW U, NEW c, NEW t, NEW W, NEW W2, NEW r, NEW r2, NEW y, NEW y2,
         AllSane(T, c), AllEased(T, U), Room(T, W, r, y), Fits(T, W, r, y, c, t, W2, r2, y2)
  PROVE  Room([U EXCEPT ![c] = t], W2, r2, y2)
<1> DEFINE V == [U EXCEPT ![c] = t]
<1>1. c \in Procs /\ U \in [Procs -> Tasks] /\ T \in [Procs -> Tasks]
  BY DEF AllSane, AllEased
<1>2. \A p \in Procs : V[p] = IF p = c THEN t ELSE U[p]
  BY <1>1
<1> HIDE DEF V
<1>3. ASSUME NEW q \in Procs, Draining(T[q]) PROVE q = c
  BY <1>3 DEF AllSane, Sane, Draining
<1>4. ASSUME T[c].pc # "move", r = <<>>, Quiet(y) \/ \E q \in Procs : Draining(T[q])
      PROVE  Quiet(y2) \/ \E q \in Procs : Draining(V[q])
  <2>0. (Draining(T[c]) => Draining(t)) /\ ((Quiet(y) => Quiet(y2)) \/ Draining(t))
    BY <1>4 DEF Fits
  <2>1. CASE Draining(t)
    <3>1. Draining(V[c])
      BY <1>1, <1>2, <2>1
    <3> QED
      BY <1>1, <3>1
  <2>2. CASE ~Draining(t)
    <3>1. ~Draining(T[c])
      BY <2>0, <2>2
    <3>2. Quiet(y)
      BY <1>3, <1>4, <3>1
    <3> QED
      BY <2>0, <2>2, <3>2
  <2> QED
    BY <2>1, <2>2
<1>5. ASSUME NEW p \in Procs PROVE Claims(p, V[p], W2, r2) /\ Way(V[p], y2) /\ Sleep(V[p], V, y2)
  <2>1. CASE p = c
    <3>1. V[p] = t
      BY <1>2, <2>1
    <3>2. Claims(p, t, W2, r2) /\ Way(t, y2)
      BY <2>1 DEF Fits
    <3>3. ASSUME t.state = "blocked", NEW q \in Procs PROVE V[q].pc # "move"
      <4>1. CASE q = c
        BY <1>2, <3>3, <4>1 DEF Fits
      <4>2. CASE q # c
        <5>1. V[q] = U[q] /\ Sane(q, T[q], c) /\ Eased(T[q], U[q])
          BY <1>2, <4>2 DEF AllSane, AllEased
        <5> QED
          BY <4>2, <5>1 DEF Sane, Eased, Same
      <4> QED
        BY <4>1, <4>2
    <3>4. Sleep(t, V, y2)
      BY <3>3 DEF Sleep, Fits
    <3> QED
      BY <3>1, <3>2, <3>4
  <2>2. CASE p # c
    <3>1. V[p] = U[p]
      BY <1>2, <2>2
    <3>2. /\ Sane(p, T[p], c) /\ Eased(T[p], U[p])
          /\ Claims(p, T[p], W, r) /\ Sleep(T[p], T, y)
      BY DEF AllSane, AllEased, Room
    <3>3. In(p, W) <=> In(p, W2)
      BY <2>2 DEF Fits
    <3>4. U[p].pc \in {"user", "asleep"}
      BY <2>2, <3>2 DEF Sane, Eased, Same
    <3>5. U[p].state = "blocked" => T[p].state = "blocked"
      BY <3>2 DEF Eased
    <3>6. T[p].state = "blocked" => r = <<>> /\ In(p, W) /\ T[c].pc # "move"
      BY <1>1, <3>2 DEF Claims, Sleep
    <3>7. T[p].state = "blocked" => r2 = <<>>
      BY <3>6 DEF Fits
    <3>8. Claims(p, U[p], W2, r2)
      BY <3>2, <3>3, <3>4, <3>5, <3>6, <3>7 DEF Claims, Eased, Same
    <3>9. Way(U[p], y2)
      BY <3>4 DEF Way
    <3>10. ASSUME U[p].state = "blocked", NEW q \in Procs PROVE V[q].pc # "move"
      <4>1. T[q].pc # "move" /\ Eased(T[q], U[q])
        BY <3>2, <3>5, <3>10 DEF Sleep, AllEased
      <4>2. CASE q = c
        BY <1>2, <3>5, <3>6, <3>10, <4>2 DEF Fits
      <4>3. CASE q # c
        BY <1>2, <4>1, <4>3 DEF Eased, Same
      <4> QED
        BY <4>2, <4>3
    <3>11. Sleep(U[p], V, y2)
      BY <1>4, <3>2, <3>5, <3>6, <3>10 DEF Sleep, Eased, Same
    <3> QED
      BY <3>1, <3>8, <3>9, <3>11
  <2> QED
    BY <2>1, <2>2
<1>6. Once(W2)
  BY DEF Fits
<1>7. Room(V, W2, r2, y2)
  BY <1>5, <1>6 DEF Room
<1> QED
  BY <1>7 DEF V

-----------------------------------------------------------------------------
(* Steps of the current process.                                           *)

Stays == TtyInv' /\ (kWaitMax >= kProcs /\ RoomInv => RoomInv')

\* What is enough to know of one.
LEMMA Own ==
  ASSUME TtyInv, NEW U, AllEased(g_tasks, U), NEW t \in Tasks, Sane(g_current, t, g_current),
         g_tasks' = [U EXCEPT ![g_current] = t], g_current' = g_current, Keyed', Ruled',
         kWaitMax >= kProcs /\ RoomInv =>
           Fits(g_tasks, g_wait, kbd.ring, g_tty, g_current, t, g_wait', kbd'.ring, g_tty')
  PROVE  Stays
<1>1. AllSane(g_tasks, g_current)
  BY DEF TtyInv
<1> DEFINE V == [U EXCEPT ![g_current] = t]
<1>2. AllSane(V, g_current)
  BY <1>1, OwnSane
<1>3. ASSUME kWaitMax >= kProcs /\ RoomInv PROVE Room(V, g_wait', kbd'.ring, g_tty')
  <2>1. Room(g_tasks, g_wait, kbd.ring, g_tty)
    BY <1>3 DEF RoomInv
  <2>2. Fits(g_tasks, g_wait, kbd.ring, g_tty, g_current, t, g_wait', kbd'.ring, g_tty')
    BY <1>3
  <2> QED
    BY <1>1, <2>1, <2>2, OwnRoom
<1>4. g_tasks' = V
  OBVIOUS
<1> HIDE DEF V
<1>5. TtyInv'
  BY <1>2, <1>4 DEF TtyInv
<1>6. kWaitMax >= kProcs /\ RoomInv => RoomInv'
  BY <1>3, <1>4 DEF RoomInv
<1> QED
  BY <1>5, <1>6 DEF Stays

\* A step that has nothing to do with waiting.
LEMMA PlainFits ==
  ASSUME NEW T, NEW W, NEW r, NEW r2, NEW y, NEW y2, NEW c \in Procs, NEW t, Room(T, W, r, y),
         T[c].pc \notin {"look", "block", "asleep"}, t.pc \notin {"look", "block", "asleep", "move"},
         t.state = "running", r = <<>> => r2 = <<>>, Way(t, y2),
         Draining(T[c]) => Draining(t), (Quiet(y) => Quiet(y2)) \/ Draining(t)
  PROVE  Fits(T, W, r, y, c, t, W, r2, y2)
<1>1. Once(W) /\ Claims(c, T[c], W, r)
  BY DEF Room
<1>2. Claims(c, t, W, r2)
  BY <1>1 DEF Claims
<1> QED
  BY <1>1, <1>2 DEF Fits

\* The current process, when it is at some place of a call.
LEMMA Here ==
  ASSUME TtyInv, NEW x, At(x)
  PROVE  /\ Me \in Tasks /\ Me.state = "running" /\ Me.pc = x /\ Sane(g_current, Me, g_current)
         /\ g_current \in Procs /\ Me = g_tasks[g_current] /\ g_tasks \in [Procs -> Tasks]
         /\ AllEased(g_tasks, g_tasks)
<1>1. g_current \in Procs /\ g_tasks \in [Procs -> Tasks] /\ Sane(g_current, g_tasks[g_current], g_current)
  BY DEF TtyInv, AllSane
<1>2. AllEased(g_tasks, g_tasks)
  BY <1>1, EasedSame
<1> QED
  BY <1>1, <1>2 DEF At, Idle, Me

\* Its fields.
LEMMA TaskFields ==
  ASSUME NEW t \in Tasks
  PROVE  /\ t.state \in States /\ t.pc \in Pcs /\ t.dev \in {"none", "tty", "kbd"} /\ t.len \in Nat
         /\ t.got \in Seq(Bytes) /\ Len(t.got) \in Nat /\ t.on \in BOOLEAN /\ t.again \in BOOLEAN
         /\ t.drained \in BOOLEAN /\ t.hand \in Bytes /\ t.wake_pending \in BOOLEAN
<1>1. t.got \in Seq(Bytes)
  BY DEF Tasks
<1> QED
  BY <1>1 DEF Tasks

\* Such a step, all of it.
LEMMA Plain ==
  ASSUME TtyInv, NEW x, At(x), x \notin {"look", "block", "asleep"},
         NEW t \in Tasks, Sane(g_current, t, g_current), t.state = "running",
         t.pc \notin {"look", "block", "asleep", "move"}, Goto(t), g_current' = g_current, g_wait' = g_wait,
         Keyed', Kept(g_tty'), kbd.ring = <<>> => kbd'.ring = <<>>, Quiet(g_tty) => Quiet(g_tty'),
         Way(t, g_tty'), Draining(Me) => Draining(t)
  PROVE  Stays
<1>1. /\ Me.pc = x /\ g_current \in Procs /\ Me = g_tasks[g_current] /\ AllEased(g_tasks, g_tasks)
  BY Here
<1>2. Ruled'
  BY DEF TtyInv, Ruled
<1>3. ASSUME RoomInv
      PROVE  Fits(g_tasks, g_wait, kbd.ring, g_tty, g_current, t, g_wait', kbd'.ring, g_tty')
  <2>1. Room(g_tasks, g_wait, kbd.ring, g_tty)
    BY <1>3 DEF RoomInv
  <2>2. Fits(g_tasks, g_wait, kbd.ring, g_tty, g_current, t, g_wait, kbd'.ring, g_tty')
    BY <1>1, <2>1, PlainFits
  <2> QED
    BY <2>2
<1>4. g_tasks' = [g_tasks EXCEPT ![g_current] = t]
  BY DEF Goto
<1> QED
  BY <1>1, <1>2, <1>3, <1>4, Own

\* A process back in user mode.
Backed(t) == /\ t \in Tasks /\ t.state = "running" /\ t.pc = "user" /\ t.dev = "none"
             /\ \A c : Sane(c, t, c)

\* Return() makes one.
LEMMA Back ==
  ASSUME NEW w \in BOOLEAN
  PROVE  Backed([User EXCEPT !.state = "running", !.wake_pending = w])
<1>1. User \in Tasks
  <2>1. <<>> \in Seq(Bytes) /\ NoByte \in Bytes
    BY ByteFacts
  <2> QED
    BY <2>1 DEF User, Tasks, States, Pcs
<1> DEFINE t == [User EXCEPT !.state = "running", !.wake_pending = w]
<1>2. t \in Tasks
  BY <1>1 DEF Tasks, States
<1>3. t.state = "running" /\ t.pc = "user" /\ t.dev = "none" /\ ~t.on /\ t.got = <<>>
  BY DEF User
<1> HIDE DEF t
<1>4. Backed(t)
  BY <1>2, <1>3 DEF Backed, Sane
<1> QED
  BY <1>4 DEF t

\* A call that ends without having waited.
LEMMA Returns ==
  ASSUME TtyInv, NEW x \in {"user", "take", "poll"}, At(x), NEW b, Return(b),
         g_current' = g_current, g_wait' = g_wait,
         Keyed', Kept(g_tty'), kbd.ring = <<>> => kbd'.ring = <<>>, Quiet(g_tty) => Quiet(g_tty')
  PROVE  Stays
<1> DEFINE t == [User EXCEPT !.state = "running", !.wake_pending = Me.wake_pending]
<1>1. Me \in Tasks /\ Me.pc = x
  BY Here
<1>2. Backed(t)
  <2>1. Me.wake_pending \in BOOLEAN
    BY <1>1, TaskFields
  <2> QED
    BY <2>1, Back
<1>3. Goto(t)
  BY DEF Return
<1> HIDE DEF t
<1>4. /\ t \in Tasks /\ t.state = "running" /\ t.pc = "user" /\ Sane(g_current, t, g_current)
  BY <1>2 DEF Backed
<1>5. Way(t, g_tty') /\ ~Draining(Me)
  BY <1>1, <1>4 DEF Way, Draining
<1> QED
  BY <1>3, <1>4, <1>5, Plain

\* tty_key() leaves what it should.
LEMMA KeyTaken ==
  ASSUME TtyInv, kbd' = tty_key(kbd, line).kbd, line' = tty_key(kbd, line).line, typed' = typed
  PROVE  Keyed' /\ (kbd.ring = <<>> => kbd'.ring = <<>>) /\ tty_key(kbd, line).c \in Bytes
<1>1. kbd \in Kbds /\ line \in Seq(Bytes) /\ Len(kbd.ring) < kBuf /\ typed \in Nat
  BY DEF TtyInv, Keyed
<1> DEFINE r == tty_key(kbd, line)
<1>2. r.c \in Bytes /\ r.kbd \in Kbds /\ r.line \in Seq(Bytes) /\ Len(r.kbd.ring) <= Len(kbd.ring)
  BY <1>1, TtyKey
<1>3. kbd' = r.kbd /\ line' = r.line
  OBVIOUS
<1> HIDE DEF r
<1>4. kbd.ring \in Seq(Bytes) /\ kbd'.ring \in Seq(Bytes)
  BY <1>1, <1>2, <1>3 DEF Kbds
<1>5. Len(kbd'.ring) < kBuf
  <2>1. Len(kbd.ring) \in Nat /\ Len(kbd'.ring) \in Nat /\ Len(kbd'.ring) <= Len(kbd.ring) /\ kBuf \in Nat
    BY <1>2, <1>3, <1>4, TtyAssumption
  <2> QED
    BY <1>1, <2>1
<1>6. kbd.ring = <<>> => kbd'.ring = <<>>
  BY <1>2, <1>3, <1>4
<1> QED
  BY <1>1, <1>2, <1>3, <1>5, <1>6 DEF Keyed, r

\* read() begins.
LEMMA ReadStays ==
  ASSUME TtyInv, NEW dev \in {"tty", "kbd"}, NEW len \in Nat, Read(dev, len)
  PROVE  Stays
<1> DEFINE t == Me
           x == IF dev = "tty" THEN "take" ELSE "poll"
           u == [t EXCEPT !.pc = x, !.dev = dev, !.len = len, !.canon = Canon(g_tty)]
<1>1. At("user") /\ Goto(u) /\ UNCHANGED <<kbd, line, g_tty, g_wait, g_current, typed, seen>>
  BY DEF Read
<1>2. t \in Tasks /\ t.state = "running" /\ t.pc = "user" /\ Sane(g_current, t, g_current)
  BY <1>1, Here
<1>3. t.got = <<>> /\ x \in {"take", "poll"} /\ x \in Pcs /\ (x = "poll" => dev # "tty")
  BY <1>2 DEF Sane, Pcs
<1>4. Canon(g_tty) \in BOOLEAN
  BY DEF Canon
<1> DEFINE b == Canon(g_tty)
<1> HIDE DEF t, x, b
<1>5. u = [t EXCEPT !.pc = x, !.dev = dev, !.len = len, !.canon = b]
  BY DEF b
<1>6. b \in BOOLEAN
  BY <1>4 DEF b
<1> HIDE DEF u
<1>7. u \in Tasks /\ u.pc = x /\ u.state = "running" /\ u.got = <<>> /\ u.len = len /\ u.dev = dev
  BY <1>2, <1>3, <1>5, <1>6 DEF Tasks
<1>8. Sane(g_current, u, g_current) /\ u.pc \notin {"look", "block", "asleep", "move"}
  BY <1>3, <1>7 DEF Sane
<1>9. Way(u, g_tty')
  BY <1>3, <1>7 DEF Way
<1>10. ~Draining(Me)
  BY <1>2 DEF Draining, t
<1>11. Keyed' /\ Kept(g_tty')
  BY <1>1 DEF TtyInv, Keyed, Ruled
<1> QED
  BY <1>1, <1>7, <1>8, <1>9, <1>10, <1>11, Plain

\* Bytes taken from the discipline, and what is left of its buffer.
Without(y, b) == [y EXCEPT !.buf = SubSeq(@, Len(b) + 1, Len(@))]

\* tty_take(): no more than was asked.
LEMMA TakenIs ==
  ASSUME NEW y, Kept(y), NEW n \in Nat
  PROVE  /\ Taken(y, n) \in Seq(Bytes) /\ Len(Taken(y, n)) <= n
         /\ Kept(Without(y, Taken(y, n))) /\ (Quiet(y) => Quiet(Without(y, Taken(y, n))))
<1>1. y \in Ttys /\ y.buf \in Seq(Bytes) /\ Len(y.buf) \in Nat
  BY DEF Kept, Ttys
<1> DEFINE b == Taken(y, n)
           m == IF Len(y.buf) < n THEN Len(y.buf) ELSE n
<1>2. m \in Nat /\ m <= Len(y.buf) /\ m <= n
  BY <1>1
<1>3. b = IF y.eof THEN <<>> ELSE SubSeq(y.buf, 1, m)
  BY DEF Taken
<1> HIDE DEF b, m
<1>4. b \in Seq(Bytes) /\ Len(b) \in Nat /\ Len(b) <= Len(y.buf) /\ Len(b) <= n
  <2>1. CASE y.eof
    BY <1>1, <1>3, <2>1
  <2>2. CASE ~y.eof
    <3>1. 1 <= m + 1
      BY <1>2
    <3>2. SubSeq(y.buf, 1, m) \in Seq(Bytes) /\ Len(SubSeq(y.buf, 1, m)) = m - 1 + 1
      BY <1>1, <1>2, <3>1, PartOf
    <3>3. b \in Seq(Bytes) /\ Len(b) = m
      BY <1>2, <1>3, <2>2, <3>2
    <3> QED
      BY <1>2, <3>3
  <2> QED
    BY <2>1, <2>2
<1> DEFINE e == SubSeq(y.buf, Len(b) + 1, Len(y.buf))
<1>5. e \in Seq(Bytes) /\ Len(e) = Len(y.buf) - (Len(b) + 1) + 1
  <2>1. Len(b) + 1 \in Nat \ {0} /\ Len(b) + 1 <= Len(y.buf) + 1
    BY <1>1, <1>4
  <2> QED
    BY <1>1, <2>1, PartOf
<1>6. Without(y, b) = [y EXCEPT !.buf = e]
  BY DEF Without
<1> HIDE DEF e
<1>7. Len(e) <= Len(y.buf)
  BY <1>1, <1>4, <1>5
<1>8. /\ Kept([y EXCEPT !.buf = e]) /\ [y EXCEPT !.buf = e].buf = e
      /\ [y EXCEPT !.buf = e].eof => y.eof
  BY <1>5, <1>7, Shorter
<1>9. Kept(Without(y, b)) /\ Without(y, b).buf = e /\ (Without(y, b).eof => y.eof)
  BY <1>6, <1>8
<1>10. y.buf = <<>> => e = <<>>
  BY <1>5, <1>7
<1>11. Quiet(y) => Quiet(Without(y, b))
  BY <1>9, <1>10 DEF Quiet
<1> QED
  BY <1>4, <1>9, <1>11 DEF b

\* An end of file that was seen is gone.
LEMMA NoEof ==
  ASSUME NEW y, Kept(y)
  PROVE  Kept([y EXCEPT !.eof = FALSE]) /\ (Quiet(y) => Quiet([y EXCEPT !.eof = FALSE]))
<1> DEFINE z == [y EXCEPT !.eof = FALSE]
<1>1. z \in Ttys /\ z.buf = y.buf /\ ~z.eof
  BY DEF Kept, Ttys
<1> HIDE DEF z
<1>2. Kept(z) /\ (Quiet(y) => Quiet(z))
  BY <1>1 DEF Kept, Quiet
<1> QED
  BY <1>2 DEF z

\* One round of dev_tty_rd().
LEMMA TakeStays ==
  ASSUME TtyInv, Take
  PROVE  Stays
<1> DEFINE b == Taken(g_tty, Me.len - Len(Me.got))
           got == Me.got \o b
           rest == Without(g_tty, b)
           u == [Me EXCEPT !.pc = "drain", !.got = got]
<1>1. At("take") /\ UNCHANGED <<kbd, line, g_wait, g_current, typed>>
  BY DEF Take
<1>2. /\ (\E s : Return(s)) \/ Goto(u)
      /\ g_tty' = rest \/ g_tty' = [rest EXCEPT !.eof = FALSE]
  BY DEF Take, Without
<1>3. Me \in Tasks /\ Me.state = "running" /\ Me.pc = "take" /\ Sane(g_current, Me, g_current)
  BY <1>1, Here
<1>4. Kept(g_tty)
  BY DEF TtyInv, Ruled
<1>5. Me.got \in Seq(Bytes) /\ Me.len \in Nat /\ Len(Me.got) \in Nat /\ Len(Me.got) <= Me.len
  BY <1>3, TaskFields DEF Sane
<1>6. Me.len - Len(Me.got) \in Nat
  BY <1>5
<1>7. /\ b \in Seq(Bytes) /\ Len(b) <= Me.len - Len(Me.got)
      /\ Kept(rest) /\ (Quiet(g_tty) => Quiet(rest))
  BY <1>4, <1>6, TakenIs
<1>8. Kept([rest EXCEPT !.eof = FALSE]) /\ (Quiet(rest) => Quiet([rest EXCEPT !.eof = FALSE]))
  BY <1>7, NoEof
<1> HIDE DEF b, rest
<1>9. Kept(g_tty') /\ (Quiet(g_tty) => Quiet(g_tty'))
  BY <1>2, <1>7, <1>8
<1>10. got \in Seq(Bytes) /\ Len(got) = Len(Me.got) + Len(b)
  BY <1>5, <1>7
<1>11. Len(got) <= Me.len
  <2>1. Len(b) \in Nat
    BY <1>7
  <2> QED
    BY <1>5, <1>7, <1>10, <2>1
<1> HIDE DEF got
<1>12. Keyed' /\ (kbd.ring = <<>> => kbd'.ring = <<>>)
  BY <1>1 DEF TtyInv, Keyed
<1>13. CASE \E s : Return(s)
  <2>1. PICK s : Return(s)
    BY <1>13
  <2> QED
    BY <1>1, <1>9, <1>12, <2>1, Returns
<1>14. CASE Goto(u)
  <2>1. u \in Tasks /\ u.pc = "drain" /\ u.state = "running" /\ u.got = got /\ u.len = Me.len
    BY <1>3, <1>10 DEF Tasks, Pcs
  <2> HIDE DEF u
  <2>2. Sane(g_current, u, g_current) /\ u.pc \notin {"look", "block", "asleep", "move"}
    BY <1>11, <2>1 DEF Sane
  <2>3. Way(u, g_tty') /\ ~Draining(Me)
    BY <1>3, <2>1 DEF Way, Draining
  <2> QED
    BY <1>1, <1>9, <1>12, <1>14, <2>1, <2>2, <2>3, Plain
<1> QED
  BY <1>2, <1>13, <1>14

\* wake() reaches everybody in g_wait.
LEMMA Wake ==
  ASSUME NEW T \in [Procs -> Tasks], g_wait \in [Slots -> 0 .. kProcs]
  PROVE  AllEased(T, wake(T)) /\ \A p \in Procs : In(p, g_wait) => Told(T[p], wake(T)[p])
<1> DEFINE S == Range(g_wait) \ {0}
<1>1. ASSUME NEW p \in Procs, In(p, g_wait) PROVE p \in S
  <2>1. p # 0
    BY TtyAssumption DEF Procs
  <2> QED
    BY <1>1, <2>1 DEF In, Range
<1> HIDE DEF S
<1>2. AllEased(T, unblock(T, S)) /\ \A p \in Procs : p \in S => Told(T[p], unblock(T, S)[p])
  BY Unblock
<1>3. wake(T) = unblock(T, S)
  BY DEF wake, S
<1> QED
  BY <1>1, <1>2, <1>3

\* Two fields of one process.
LEMMA TwoFields ==
  ASSUME NEW U \in [Procs -> Tasks], NEW c \in Procs, NEW x
  PROVE  [U EXCEPT ![c].pc = x, ![c].drained = FALSE] = [U EXCEPT ![c] = [U[c] EXCEPT !.pc = x, !.drained = FALSE]]
<1>1. U[c] \in Tasks
  OBVIOUS
<1> QED
  BY <1>1 DEF Tasks

\* One more byte, or the end of tty_drain().
LEMMA DrainKeyStays ==
  ASSUME TtyInv, DrainKey
  PROVE  Stays
<1> DEFINE r == tty_key(kbd, line)
           c == g_current
<1>1. /\ At("drain") /\ kbd' = r.kbd /\ line' = r.line
      /\ g_tty' = g_tty /\ g_current' = g_current /\ typed' = typed
  BY DEF DrainKey
<1>2. Keyed' /\ (kbd.ring = <<>> => kbd'.ring = <<>>) /\ r.c \in Bytes
  BY <1>1, KeyTaken
<1>3. /\ Me \in Tasks /\ Me.state = "running" /\ Me.pc = "drain" /\ Sane(c, Me, c) /\ c \in Procs
      /\ Me = g_tasks[c] /\ g_tasks \in [Procs -> Tasks] /\ AllEased(g_tasks, g_tasks)
  BY <1>1, Here
<1>4. Kept(g_tty) /\ g_wait \in [Slots -> 0 .. kProcs] /\ AllSane(g_tasks, c)
  BY DEF TtyInv, Ruled
<1>5. Len(Me.got) <= Me.len
  BY <1>3 DEF Sane
<1>6. CASE r.c # NoByte
  <2> DEFINE t == Me
             u == [t EXCEPT !.pc = "input", !.hand = r.c]
  <2>1. Goto(u) /\ g_wait' = g_wait
    BY <1>6 DEF DrainKey
  <2>2. t \in Tasks /\ t.state = "running" /\ Len(t.got) <= t.len
    BY <1>3, <1>5
  <2> HIDE DEF t
  <2>3. u \in Tasks /\ u.pc = "input" /\ u.state = "running" /\ u.got = t.got /\ u.len = t.len /\ u.drained = t.drained
    BY <1>2, <2>2 DEF Tasks, Pcs
  <2> HIDE DEF u, r
  <2>4. Sane(c, u, c) /\ u.pc \notin {"look", "block", "asleep", "move"}
    BY <2>2, <2>3 DEF Sane
  <2>5. Way(u, g_tty')
    BY <2>3 DEF Way
  <2>6. Draining(Me) => Draining(u)
    BY <2>3 DEF Draining, t
  <2> QED
    BY <1>1, <1>2, <1>4, <2>1, <2>3, <2>4, <2>5, <2>6, Plain
<1>7. CASE r.c = NoByte
  <2> DEFINE x == IF Something(g_tty) THEN "take" ELSE "key"
             U == IF Me.drained THEN wake(g_tasks) ELSE g_tasks
             u == [U[c] EXCEPT !.pc = x, !.drained = FALSE]
  <2>1. g_tasks' = [U EXCEPT ![c].pc = x, ![c].drained = FALSE] /\ g_wait' = IF Me.drained THEN Nobody ELSE g_wait
    BY <1>7 DEF DrainKey
  <2>2. AllEased(g_tasks, wake(g_tasks)) /\ \A p \in Procs : In(p, g_wait) => Told(g_tasks[p], wake(g_tasks)[p])
    BY <1>3, <1>4, Wake
  <2>3. AllEased(g_tasks, U)
    BY <1>3, <2>2
  <2>4. x \in {"take", "key"} /\ x \in Pcs /\ (x = "key" => Quiet(g_tty))
    BY DEF Something, Quiet, Pcs
  <2>5. Me.drained => U = wake(g_tasks)
    OBVIOUS
  <2> HIDE DEF U, x
  <2>6. U \in [Procs -> Tasks] /\ Eased(Me, U[c])
    BY <1>3, <2>3 DEF AllEased
  <2>7. g_tasks' = [U EXCEPT ![c] = u]
    BY <1>3, <2>1, <2>6, TwoFields
  <2> DEFINE t == U[c]
  <2>8. t \in Tasks /\ t.state = "running" /\ Len(t.got) <= t.len
    BY <1>3, <1>5, <2>6 DEF Eased, Same
  <2>9. u = [t EXCEPT !.pc = x, !.drained = FALSE]
    OBVIOUS
  <2> HIDE DEF t, u
  <2>10. u \in Tasks /\ u.pc = x /\ u.state = "running" /\ u.got = t.got /\ u.len = t.len /\ u.drained = FALSE
    BY <2>4, <2>8, <2>9 DEF Tasks
  <2>11. Sane(c, u, c) /\ Way(u, g_tty) /\ u.pc \in {"take", "key"}
    BY <2>4, <2>8, <2>10 DEF Sane, Way
  <2>12. CASE Me.drained
    <3>1. AllSane(g_tasks', g_current')
      <4>1. AllSane([U EXCEPT ![c] = u], c)
        BY <1>4, <2>3, <2>10, <2>11, OwnSane
      <4> QED
        BY <1>1, <2>7, <4>1
    <3>2. Ruled'
      BY <1>1, <1>4, <2>1, <2>12, NobodyIn DEF Ruled
    <3>3. TtyInv'
      BY <1>2, <3>1, <3>2 DEF TtyInv
    <3>4. ASSUME RoomInv PROVE RoomInv'
      <4> DEFINE V == [U EXCEPT ![c] = u]
      <4>1. \A p \in Procs : V[p] = IF p = c THEN u ELSE U[p]
        BY <2>6
      <4> HIDE DEF V
      <4>2. \A p \in Procs : V[p] = U[p] \/ (p = c /\ V[p].state = "running" /\ V[p].pc \in {"take", "key"})
        BY <2>10, <2>11, <4>1
      <4>3. ASSUME NEW p \in Procs PROVE Way(V[p], g_tty)
        <5>1. CASE p = c
          BY <2>11, <4>1, <5>1
        <5>2. CASE p # c
          <6>1. V[p] = U[p] /\ Sane(p, g_tasks[p], c) /\ Eased(g_tasks[p], U[p])
            BY <1>4, <2>3, <4>1, <5>2 DEF AllSane, AllEased
          <6> QED
            BY <5>2, <6>1 DEF Sane, Eased, Same, Way
        <5> QED
          BY <5>1, <5>2
      <4>4. \A p \in Procs : In(p, g_wait) => Told(g_tasks[p], U[p])
        BY <2>2, <2>5, <2>12
      <4>5. Room(g_tasks, g_wait, kbd.ring, g_tty)
        BY <3>4 DEF RoomInv
      <4>6. Room(V, Nobody, kbd'.ring, g_tty)
        BY <1>4, <2>3, <4>2, <4>3, <4>4, <4>5, WokenRoom
      <4>7. g_tasks' = V /\ g_wait' = Nobody
        BY <2>1, <2>7, <2>12 DEF V
      <4> QED
        BY <1>1, <4>6, <4>7 DEF RoomInv
    <3> QED
      BY <3>3, <3>4 DEF Stays
  <2>13. CASE ~Me.drained
    <3>1. g_wait' = g_wait /\ Ruled'
      BY <1>1, <1>4, <2>1, <2>13 DEF Ruled
    <3>2. ~Draining(g_tasks[c]) /\ g_tasks[c].pc \notin {"look", "block", "asleep"}
      BY <1>3, <2>13 DEF Draining
    <3>3. ASSUME RoomInv
          PROVE  Fits(g_tasks, g_wait, kbd.ring, g_tty, c, u, g_wait', kbd'.ring, g_tty')
      <4>1. Room(g_tasks, g_wait, kbd.ring, g_tty)
        BY <3>3 DEF RoomInv
      <4>2. Fits(g_tasks, g_wait, kbd.ring, g_tty, c, u, g_wait, kbd'.ring, g_tty)
        BY <1>2, <1>3, <2>10, <2>11, <3>2, <4>1, PlainFits
      <4> QED
        BY <1>1, <3>1, <4>2
    <3> QED
      BY <1>1, <1>2, <2>3, <2>7, <2>10, <2>11, <3>1, <3>3, Own
  <2> QED
    BY <2>12, <2>13
<1> QED
  BY <1>6, <1>7

\* Three fields of one process.
LEMMA ThreeFields ==
  ASSUME NEW U \in [Procs -> Tasks], NEW c \in Procs
  PROVE  [U EXCEPT ![c].pc = "drain", ![c].hand = NoByte, ![c].drained = TRUE]
           = [U EXCEPT ![c] = [U[c] EXCEPT !.pc = "drain", !.hand = NoByte, !.drained = TRUE]]
<1>1. U[c] \in Tasks
  OBVIOUS
<1> QED
  BY <1>1 DEF Tasks

\* A byte goes from the reader's hand into the discipline.
LEMMA DrainInputStays ==
  ASSUME TtyInv, DrainInput
  PROVE  Stays
<1> DEFINE c == g_current
           U == IF Interrupts(g_tty, Me.hand) THEN signal_task(g_tasks, IntrTo(g_tty)) ELSE g_tasks
           t == U[c]
           u == [t EXCEPT !.pc = "drain", !.hand = NoByte, !.drained = TRUE]
<1>1. /\ At("input") /\ g_tty' = tty_input(g_tty, Me.hand)
      /\ g_tasks' = [U EXCEPT ![c].pc = "drain", ![c].hand = NoByte, ![c].drained = TRUE]
      /\ UNCHANGED <<kbd, line, g_wait, g_current, typed, seen>>
  BY DEF DrainInput
<1>2. /\ Me \in Tasks /\ Me.state = "running" /\ Me.pc = "input" /\ Sane(c, Me, c) /\ c \in Procs
      /\ Me = g_tasks[c] /\ g_tasks \in [Procs -> Tasks] /\ AllEased(g_tasks, g_tasks)
  BY <1>1, Here
<1>3. Kept(g_tty) /\ g_tty \in Ttys /\ g_wait \in [Slots -> 0 .. kProcs] /\ Me.hand \in Bytes
  BY <1>2, TaskFields DEF TtyInv, Ruled, Kept
<1>4. Kept(g_tty')
  BY <1>1, <1>3, TtyInput
<1>5. AllEased(g_tasks, U)
  <2>1. AllEased(g_tasks, signal_task(g_tasks, IntrTo(g_tty)))
    BY <1>2, <1>3, IntrProc, Signal
  <2> QED
    BY <1>2, <2>1, Zenon
<1> HIDE DEF U
<1>6. U \in [Procs -> Tasks] /\ Eased(Me, U[c])
  BY <1>2, <1>5 DEF AllEased
<1>7. g_tasks' = [U EXCEPT ![c] = u]
  BY <1>1, <1>2, <1>6, ThreeFields
<1>8. t \in Tasks /\ t.state = "running" /\ Len(t.got) <= t.len
  BY <1>2, <1>6 DEF Eased, Same, Sane
<1> HIDE DEF t
<1>9. u \in Tasks /\ u.pc = "drain" /\ u.state = "running" /\ u.got = t.got /\ u.len = t.len /\ u.drained = TRUE
  BY <1>8, ByteFacts DEF Tasks, Pcs
<1> HIDE DEF u
<1>10. Sane(c, u, c) /\ Way(u, g_tty') /\ Draining(u)
  BY <1>8, <1>9 DEF Sane, Way, Draining
<1>11. Keyed' /\ Ruled'
  BY <1>1, <1>3, <1>4 DEF TtyInv, Keyed, Ruled
<1>12. ASSUME RoomInv
       PROVE  Fits(g_tasks, g_wait, kbd.ring, g_tty, c, u, g_wait', kbd'.ring, g_tty')
  <2>1. Room(g_tasks, g_wait, kbd.ring, g_tty)
    BY <1>12 DEF RoomInv
  <2>2. g_tasks[c].pc \notin {"look", "block", "asleep"}
    BY <1>2
  <2>3. Fits(g_tasks, g_wait, kbd.ring, g_tty, c, u, g_wait, kbd.ring, g_tty')
    BY <1>2, <1>9, <1>10, <2>1, <2>2, PlainFits
  <2> QED
    BY <1>1, <2>3
<1> QED
  BY <1>1, <1>5, <1>7, <1>9, <1>10, <1>11, <1>12, Own

\* A process that goes on to another place of the same call, with the same bytes.
LEMMA Moved ==
  ASSUME NEW t \in Tasks, NEW c, t.state = "running", Len(t.got) <= t.len, NEW x \in Pcs, x \notin {"user", "poll"}
  PROVE  /\ [t EXCEPT !.pc = x] \in Tasks /\ [t EXCEPT !.pc = x].pc = x
         /\ [t EXCEPT !.pc = x].state = "running" /\ Sane(c, [t EXCEPT !.pc = x], c)
         /\ [t EXCEPT !.pc = x].dev = t.dev /\ [t EXCEPT !.pc = x].on = t.on
         /\ [t EXCEPT !.pc = x].wake_pending = t.wake_pending
         /\ [t EXCEPT !.pc = x].drained = t.drained
<1> DEFINE u == [t EXCEPT !.pc = x]
<1>1. /\ u \in Tasks /\ u.pc = x /\ u.state = t.state /\ u.got = t.got /\ u.len = t.len
      /\ u.dev = t.dev /\ u.on = t.on /\ u.wake_pending = t.wake_pending /\ u.drained = t.drained
  BY DEF Tasks
<1> HIDE DEF u
<1>2. Sane(c, u, c)
  BY <1>1 DEF Sane
<1>3. /\ u \in Tasks /\ u.pc = x /\ u.state = "running" /\ Sane(c, u, c)
      /\ u.dev = t.dev /\ u.on = t.on /\ u.wake_pending = t.wake_pending /\ u.drained = t.drained
  BY <1>1, <1>2
<1> QED
  BY <1>3 DEF u

\* tty_key(true).
LEMMA KeyOrWaitStays ==
  ASSUME TtyInv, KeyOrWait
  PROVE  Stays
<1> DEFINE r == tty_key(kbd, line)
           x == IF r.c # NoByte THEN "take" ELSE "wait"
           u == [Me EXCEPT !.pc = x]
<1>1. /\ At("key") /\ kbd' = r.kbd /\ line' = r.line /\ Goto(u)
      /\ g_tty' = g_tty /\ g_wait' = g_wait /\ g_current' = g_current /\ typed' = typed
  BY DEF KeyOrWait
<1>2. Keyed' /\ (kbd.ring = <<>> => kbd'.ring = <<>>)
  BY <1>1, KeyTaken
<1>3. /\ Me \in Tasks /\ Me.state = "running" /\ Me.pc = "key" /\ Sane(g_current, Me, g_current)
      /\ g_current \in Procs /\ Me = g_tasks[g_current]
  BY <1>1, Here
<1>4. x \in {"take", "wait"} /\ x \in Pcs
  BY DEF Pcs
<1> HIDE DEF r, x
<1>5. Len(Me.got) <= Me.len /\ x \notin {"user", "poll"} /\ Kept(g_tty)
  BY <1>3, <1>4 DEF Sane, TtyInv, Ruled
<1>6. /\ u \in Tasks /\ u.pc = x /\ u.state = "running" /\ Sane(g_current, u, g_current)
      /\ u.dev = Me.dev /\ u.on = Me.on
  BY <1>3, <1>4, <1>5, Moved
<1> HIDE DEF u
<1>7. Ruled'
  BY <1>1 DEF TtyInv, Ruled
<1>8. ASSUME RoomInv
      PROVE  Fits(g_tasks, g_wait, kbd.ring, g_tty, g_current, u, g_wait', kbd'.ring, g_tty')
  <2>1. Room(g_tasks, g_wait, kbd.ring, g_tty)
    BY <1>8 DEF RoomInv
  <2>2. Way(Me, g_tty)
    BY <1>3, <2>1 DEF Room
  <2>3. Way(u, g_tty)
    BY <1>3, <1>6, <2>2 DEF Way
  <2>4. ~Draining(g_tasks[g_current]) /\ g_tasks[g_current].pc \notin {"look", "block", "asleep"}
    BY <1>3 DEF Draining
  <2>5. Fits(g_tasks, g_wait, kbd.ring, g_tty, g_current, u, g_wait, kbd'.ring, g_tty)
    BY <1>2, <1>3, <1>4, <1>6, <2>1, <2>3, <2>4, PlainFits
  <2> QED
    BY <1>1, <2>5
<1>9. g_tasks' = [g_tasks EXCEPT ![g_current] = u] /\ AllEased(g_tasks, g_tasks)
  BY <1>1, Here DEF Goto
<1> QED
  BY <1>1, <1>2, <1>6, <1>7, <1>8, <1>9, Own

\* dev_kbd_rd().
LEMMA PollKeyStays ==
  ASSUME TtyInv, PollKey
  PROVE  Stays
<1> DEFINE h == Head(kbd.ring)
           m == poll([ctrl |-> kbd.ctrl, ext |-> kbd.ext], h.k)
           u == [Me EXCEPT !.pc = "wait"]
           k2 == [kbd EXCEPT !.ring = Tail(@), !.ctrl = m.ctrl, !.ext = m.ext]
<1>1. /\ At("poll") /\ UNCHANGED <<line, g_tty, g_wait, g_current, typed>>
      /\ \/ kbd.ring = <<>> /\ kbd' = kbd /\ Goto(u)
         \/ kbd.ring # <<>> /\ kbd' = k2 /\ (Goto(u) \/ \E b : Return(b))
  BY DEF PollKey
<1>2. /\ Me \in Tasks /\ Me.state = "running" /\ Me.pc = "poll" /\ Sane(g_current, Me, g_current)
      /\ g_current \in Procs /\ Me = g_tasks[g_current]
  BY <1>1, Here
<1>3. kbd \in Kbds /\ line \in Seq(Bytes) /\ Len(kbd.ring) < kBuf /\ typed \in Nat /\ kbd.ring \in Seq(Bytes)
  BY DEF TtyInv, Keyed, Kbds
<1>4. ASSUME kbd.ring # <<>> PROVE k2 \in Kbds /\ Len(k2.ring) < kBuf
  <2>1. h \in Bytes
    BY <1>3, <1>4
  <2>2. h.k \in Kinds
    BY <2>1 DEF Bytes
  <2> DEFINE z == [ctrl |-> kbd.ctrl, ext |-> kbd.ext]
  <2>3. z.ctrl \in BOOLEAN /\ z.ext \in BOOLEAN
    BY <1>3 DEF Kbds
  <2> HIDE DEF z
  <2>4. poll(z, h.k) \in Keys
    BY <2>2, <2>3, PollOne
  <2>5. m \in Keys
    BY <2>4 DEF z
  <2> DEFINE e == Tail(kbd.ring)
  <2>6. e \in Seq(Bytes) /\ Len(e) = Len(kbd.ring) - 1 /\ Len(kbd.ring) \in Nat
    BY <1>3, <1>4
  <2>7. m.ctrl \in BOOLEAN /\ m.ext \in BOOLEAN
    BY <2>5 DEF Keys
  <2> HIDE DEF m, e
  <2>8. k2 = [kbd EXCEPT !.ring = e, !.ctrl = m.ctrl, !.ext = m.ext]
    BY DEF e
  <2> HIDE DEF k2
  <2>9. k2 \in Kbds /\ k2.ring = e
    BY <1>3, <2>6, <2>7, <2>8 DEF Kbds
  <2>10. Len(e) < kBuf
    BY <1>3, <2>6, TtyAssumption
  <2> QED
    BY <2>9, <2>10
<1> HIDE DEF k2
<1>5. Keyed'
  BY <1>1, <1>3, <1>4 DEF Keyed
<1>6. Kept(g_tty') /\ g_tty' = g_tty /\ (kbd.ring = <<>> => kbd'.ring = <<>>)
  BY <1>1 DEF TtyInv, Ruled
<1>7. CASE \E b : Return(b)
  <2>1. PICK b : Return(b)
    BY <1>7
  <2> QED
    BY <1>1, <1>5, <1>6, <2>1, Returns
<1>8. CASE Goto(u)
  <2>1. Len(Me.got) <= Me.len /\ "wait" \in Pcs
    BY <1>2 DEF Sane, Pcs
  <2>2. /\ u \in Tasks /\ u.pc = "wait" /\ u.state = "running" /\ Sane(g_current, u, g_current)
        /\ u.dev = Me.dev
    BY <1>2, <2>1, Moved
  <2> HIDE DEF u
  <2>3. Way(u, g_tty') /\ ~Draining(Me)
    BY <1>2, <2>2 DEF Way, Draining, Sane
  <2> QED
    BY <1>1, <1>5, <1>6, <1>8, <2>2, <2>3, Plain
<1> QED
  BY <1>1, <1>7, <1>8

\* The slots of the ring are all there, and so is the scancode of a poll() half done.
PollInv ==
  /\ g_buf \in Seq(Bytes) /\ Len(g_buf) = kBuf
  /\ half.sc \in Bytes /\ half.at \in {"drain", "key", "poll"}

\* poll() reads a scancode: there is one, so nobody is asleep.
LEMMA PollReadStays ==
  ASSUME TtyInv, PollRead
  PROVE  Stays
<1> DEFINE c == g_current
           u == [Me EXCEPT !.pc = "move"]
<1>1. /\ ~Idle /\ Me.pc \in {"drain", "key", "poll"} /\ kbd.ring # <<>> /\ Me.on /\ Goto(u)
      /\ UNCHANGED <<kbd, line, g_tty, g_wait, g_current, typed, seen>>
  BY DEF PollRead, Interruptible
<1>2. At(Me.pc)
  BY <1>1 DEF At
<1>3. /\ Me \in Tasks /\ Me.state = "running" /\ Sane(c, Me, c) /\ c \in Procs
      /\ Me = g_tasks[c] /\ AllEased(g_tasks, g_tasks)
  BY <1>2, Here
<1>4. Len(Me.got) <= Me.len /\ "move" \in Pcs
  BY <1>1, <1>3 DEF Sane, Pcs
<1>5. /\ u \in Tasks /\ u.pc = "move" /\ u.state = "running" /\ Sane(c, u, c)
      /\ u.dev = Me.dev /\ u.on = Me.on
  BY <1>3, <1>4, Moved
<1> HIDE DEF u
<1>6. Keyed' /\ Ruled'
  BY <1>1 DEF TtyInv, Keyed, Ruled
<1>7. ASSUME RoomInv
      PROVE  Fits(g_tasks, g_wait, kbd.ring, g_tty, c, u, g_wait', kbd'.ring, g_tty')
  <2>1. Once(g_wait) /\ Claims(c, Me, g_wait, kbd.ring)
    BY <1>3, <1>7 DEF RoomInv, Room
  <2>2. Claims(c, u, g_wait, kbd.ring) /\ Way(u, g_tty)
    BY <1>1, <1>5, <2>1 DEF Claims, Way
  <2>3. Fits(g_tasks, g_wait, kbd.ring, g_tty, c, u, g_wait, kbd.ring, g_tty)
    BY <1>1, <1>5, <2>1, <2>2 DEF Fits
  <2> QED
    BY <1>1, <2>3
<1>8. g_tasks' = [g_tasks EXCEPT ![c] = u]
  BY <1>1 DEF Goto
<1> QED
  BY <1>1, <1>3, <1>5, <1>6, <1>7, <1>8, Own

\* A step out of poll(): whatever it leaves in the ring, nobody sleeps.
LEMMA PollLeft ==
  ASSUME TtyInv, At("move"), NEW t \in Tasks, Sane(g_current, t, g_current), t.state = "running",
         t.pc \notin {"look", "block", "asleep", "move"}, Goto(t), Keyed',
         UNCHANGED <<g_tty, g_wait, g_current>>,
         t.pc \in {"key", "wait"} => t.dev = Me.dev /\ t.on = Me.on
  PROVE  Stays
<1> DEFINE c == g_current
<1>1. /\ Me \in Tasks /\ Me.pc = "move" /\ c \in Procs /\ Me = g_tasks[c] /\ AllEased(g_tasks, g_tasks)
  BY Here
<1>2. Ruled'
  BY DEF TtyInv, Ruled
<1>3. ASSUME RoomInv
      PROVE  Fits(g_tasks, g_wait, kbd.ring, g_tty, c, t, g_wait', kbd'.ring, g_tty')
  <2>1. Once(g_wait) /\ Claims(c, Me, g_wait, kbd.ring) /\ Way(Me, g_tty)
    BY <1>1, <1>3 DEF RoomInv, Room
  <2>2. Claims(c, t, g_wait, kbd'.ring)
    BY <1>1, <2>1 DEF Claims
  <2>3. Way(t, g_tty)
    BY <1>1, <2>1 DEF Way
  <2>4. Fits(g_tasks, g_wait, kbd.ring, g_tty, c, t, g_wait, kbd'.ring, g_tty)
    BY <1>1, <2>1, <2>2, <2>3 DEF Fits
  <2> QED
    BY <2>4
<1>4. g_tasks' = [g_tasks EXCEPT ![c] = t]
  BY DEF Goto
<1> QED
  BY <1>1, <1>2, <1>3, <1>4, Own

\* What poll() makes of its scancode.
LEMMA PollMade ==
  ASSUME TtyInv, PollInv
  PROVE  poll([ctrl |-> kbd.ctrl, ext |-> kbd.ext], half.sc.k) \in Keys /\ half.sc.id \in Nat
<1>1. half.sc.k \in Kinds /\ half.sc.id \in Nat
  BY DEF PollInv, Bytes
<1> DEFINE z == [ctrl |-> kbd.ctrl, ext |-> kbd.ext]
<1>2. z.ctrl \in BOOLEAN /\ z.ext \in BOOLEAN
  BY DEF TtyInv, Keyed, Kbds
<1> HIDE DEF z
<1>3. poll(z, half.sc.k) \in Keys
  BY <1>1, <1>2, PollOne
<1> QED
  BY <1>1, <1>3 DEF z

\* poll() moves g_tail.
LEMMA PollMoveStays ==
  ASSUME TtyInv, PollInv, PollMove
  PROVE  Stays
<1> DEFINE m == poll([ctrl |-> kbd.ctrl, ext |-> kbd.ext], half.sc.k)
           b == IF m.key = "up" /\ half.at # "poll" THEN Nul ELSE Byte(m.key, half.sc.id)
           e == IF kbd.ring = <<>> THEN Tail(g_buf) ELSE Tail(kbd.ring)
           n == IF b = Nul THEN 2 ELSE kbd.seq
           x == IF half.at # "poll" /\ m.key = "none" THEN half.at
                ELSE CASE half.at = "poll" -> "wait"
                       [] half.at = "drain" -> "input"
                       [] half.at = "key" -> "take"
           hd == IF half.at = "drain" /\ m.key # "none" THEN b ELSE Me.hand
           u == [Me EXCEPT !.pc = x, !.hand = hd]
<1>1. /\ At("move") /\ UNCHANGED <<line, g_tty, g_wait, g_current, typed>>
      /\ kbd' = [ring |-> e, ctrl |-> m.ctrl, ext |-> m.ext, seq |-> n]
      /\ (\E bs : Return(bs)) \/ Goto(u)
  BY DEF PollMove
<1>2. /\ Me \in Tasks /\ Me.state = "running" /\ Me.pc = "move" /\ Sane(g_current, Me, g_current)
  BY <1>1, Here
<1>3. m \in Keys /\ half.sc.id \in Nat
  BY PollMade
<1>4. m.ctrl \in BOOLEAN /\ m.ext \in BOOLEAN /\ m.key \in Kinds
  BY <1>3 DEF Keys
<1> HIDE DEF m
<1>5. b \in Bytes
  BY <1>3, <1>4, ByteFacts
<1> HIDE DEF b
<1>6. e \in Seq(Bytes) /\ Len(e) < kBuf
  <2>1. /\ kbd.ring \in Seq(Bytes) /\ Len(kbd.ring) < kBuf /\ Len(kbd.ring) \in Nat
        /\ g_buf \in Seq(Bytes) /\ Len(g_buf) = kBuf /\ kBuf \in Nat \ {0}
    BY TtyAssumption DEF TtyInv, Keyed, Kbds, PollInv
  <2>2. ASSUME NEW s \in Seq(Bytes), Len(s) > 0, Len(s) <= kBuf
        PROVE  Tail(s) \in Seq(Bytes) /\ Len(Tail(s)) < kBuf
    BY <2>1, <2>2
  <2>3. CASE kbd.ring = <<>>
    BY <2>1, <2>2, <2>3
  <2>4. CASE kbd.ring # <<>>
    <3>1. Len(kbd.ring) > 0 /\ Len(kbd.ring) <= kBuf
      BY <2>1, <2>4
    <3> QED
      BY <2>1, <2>2, <2>4, <3>1
  <2> QED
    BY <2>3, <2>4
<1>7. n \in 0 .. 2
  BY DEF TtyInv, Keyed, Kbds
<1> HIDE DEF e, n
<1>8. Keyed'
  <2>1. kbd' \in Kbds /\ kbd'.ring = e
    BY <1>1, <1>4, <1>6, <1>7 DEF Kbds
  <2> QED
    BY <1>1, <1>6, <2>1 DEF Keyed, TtyInv
<1>9. CASE \E bs : Return(bs)
  <2> DEFINE t == [User EXCEPT !.state = "running", !.wake_pending = Me.wake_pending]
  <2>1. Me.wake_pending \in BOOLEAN
    BY <1>2, TaskFields
  <2>2. Backed(t) /\ Goto(t)
    BY <1>9, <2>1, Back DEF Return
  <2> HIDE DEF t
  <2>3. /\ t \in Tasks /\ t.state = "running" /\ t.pc = "user" /\ Sane(g_current, t, g_current)
    BY <2>2 DEF Backed
  <2> QED
    BY <1>1, <1>8, <2>2, <2>3, PollLeft
<1>10. CASE Goto(u)
  <2>1. x \in {"drain", "key", "wait", "input", "take"}
    BY DEF PollInv
  <2>2. hd \in Bytes
    BY <1>2, <1>5, TaskFields
  <2> HIDE DEF x, hd
  <2>3. /\ u \in Tasks /\ u.pc = x /\ u.state = "running" /\ u.got = Me.got /\ u.len = Me.len
        /\ u.dev = Me.dev /\ u.on = Me.on
    BY <1>2, <2>1, <2>2 DEF Tasks, Pcs
  <2> HIDE DEF u
  <2>4. Sane(g_current, u, g_current)
    BY <1>2, <2>1, <2>3 DEF Sane
  <2> QED
    BY <1>1, <1>8, <1>10, <2>1, <2>3, <2>4, PollLeft
<1> QED
  BY <1>1, <1>9, <1>10

-----------------------------------------------------------------------------
(* kbd::wait().                                                            *)

\* Out of g_wait, and out of nobody else's place.
LEMMA UnclaimStays ==
  ASSUME TtyInv, NEW x \in {"look", "block", "asleep"}, At(x), NEW w \in BOOLEAN, Unclaim(w),
         kbd' = kbd, line' = line, g_tty' = g_tty, g_current' = g_current, typed' = typed
  PROVE  Stays
<1> DEFINE c == g_current
           t == Me
           z == IF t.dev = "tty" THEN "take" ELSE "poll"
           u == [t EXCEPT !.pc = z, !.wake_pending = w]
           W2 == [i \in Slots |-> IF g_wait[i] = c THEN 0 ELSE g_wait[i]]
<1>1. g_wait' = W2 /\ Goto(u)
  BY DEF Unclaim
<1>2. /\ t \in Tasks /\ t.state = "running" /\ t.pc = x /\ Sane(c, t, c) /\ c \in Procs
      /\ t = g_tasks[c] /\ AllEased(g_tasks, g_tasks)
  BY Here
<1>3. z \in {"take", "poll"} /\ z \in Pcs /\ (z = "poll" => t.dev # "tty") /\ Len(t.got) <= t.len
  BY <1>2 DEF Pcs, Sane
<1>4. g_wait \in [Slots -> 0 .. kProcs] /\ Kept(g_tty)
  BY DEF TtyInv, Ruled
<1> HIDE DEF t, z
<1>5. /\ u \in Tasks /\ u.pc = z /\ u.state = "running" /\ u.dev = t.dev /\ u.got = t.got
      /\ u.len = t.len
  BY <1>2, <1>3 DEF Tasks
<1> HIDE DEF u
<1>6. Sane(c, u, c)
  BY <1>3, <1>5 DEF Sane
<1>7. W2 \in [Slots -> 0 .. kProcs] /\ \A i \in Slots : W2[i] = IF g_wait[i] = c THEN 0 ELSE g_wait[i]
  BY <1>4, TtyAssumption
<1> HIDE DEF W2
<1>8. ~In(c, W2) /\ \A p \in Procs : p # c => (In(p, g_wait) <=> In(p, W2))
  <2>1. \A p \in Procs : p # 0
    BY TtyAssumption DEF Procs
  <2>2. ~In(c, W2)
    BY <1>2, <1>7, <2>1 DEF In
  <2>3. ASSUME NEW p \in Procs, p # c PROVE In(p, g_wait) <=> In(p, W2)
    BY <1>7, <2>1, <2>3 DEF In
  <2> QED
    BY <2>2, <2>3
<1>9. ASSUME RoomInv
      PROVE  Fits(g_tasks, g_wait, kbd.ring, g_tty, c, u, g_wait', kbd'.ring, g_tty')
  <2>1. Once(g_wait)
    BY <1>9 DEF RoomInv, Room
  <2>2. Once(W2)
    BY <1>7, <2>1 DEF Once
  <2>3. Claims(c, u, W2, kbd.ring) /\ Way(u, g_tty) /\ ~Draining(g_tasks[c])
    BY <1>2, <1>3, <1>5, <1>8 DEF Claims, Way, Draining
  <2>4. Fits(g_tasks, g_wait, kbd.ring, g_tty, c, u, W2, kbd.ring, g_tty)
    BY <1>3, <1>5, <1>8, <2>2, <2>3 DEF Fits
  <2> QED
    BY <1>1, <2>4
<1>10. Keyed' /\ Ruled'
  BY <1>1, <1>4, <1>7 DEF TtyInv, Keyed, Ruled
<1>11. g_tasks' = [g_tasks EXCEPT ![c] = u]
  BY <1>1 DEF Goto
<1> QED
  BY <1>2, <1>5, <1>6, <1>9, <1>10, <1>11, Own

\* While there is a place for everybody, one who has none finds one.
LEMMA PlaceLeft ==
  ASSUME NEW W \in [Slots -> 0 .. kProcs], NEW c \in Procs, Once(W), ~In(c, W), kWaitMax >= kProcs
  PROVE  \E i \in Slots : W[i] = 0
<1> SUFFICES ASSUME \A i \in Slots : W[i] # 0 PROVE FALSE
  OBVIOUS
<1> DEFINE S == Procs \ {c}
<1>1. W \in [Slots -> S]
  <2>1. ASSUME NEW i \in Slots PROVE W[i] \in S
    <3>1. W[i] \in 0 .. kProcs /\ W[i] # 0 /\ W[i] # c
      BY DEF In
    <3> QED
      BY <3>1, TtyAssumption DEF Procs
  <2> QED
    BY <2>1
<1>2. IsFiniteSet(Slots) /\ Cardinality(Slots) = kWaitMax
  <2>1. IsFiniteSet(1 .. kWaitMax) /\ Cardinality(1 .. kWaitMax) = IF 1 > kWaitMax THEN 0 ELSE kWaitMax - 1 + 1
    BY TtyAssumption, FS_Interval
  <2> QED
    BY <2>1, TtyAssumption DEF Slots
<1>3. IsFiniteSet(Procs) /\ Cardinality(Procs) = kProcs
  <2>1. IsFiniteSet(1 .. kProcs) /\ Cardinality(1 .. kProcs) = IF 1 > kProcs THEN 0 ELSE kProcs - 1 + 1
    BY TtyAssumption, FS_Interval
  <2> QED
    BY <2>1, TtyAssumption DEF Procs
<1>4. IsFiniteSet(S) /\ Cardinality(S) = kProcs - 1
  BY <1>3, FS_RemoveElement
<1>5. Cardinality(S) < Cardinality(Slots)
  BY <1>2, <1>4, TtyAssumption
<1> HIDE DEF S
<1>6. \E i, j \in Slots : i # j /\ W[i] = W[j]
  BY <1>1, <1>2, <1>4, <1>5, FS_PigeonHole
<1> QED
  BY <1>6 DEF Once

\* A place in g_wait.
LEMMA WaitClaimStays ==
  ASSUME TtyInv, WaitClaim
  PROVE  Stays
<1> DEFINE c == g_current
           u == [Me EXCEPT !.pc = "look"]
           m == Min(FreeSlots)
<1>1. /\ At("wait") /\ Goto(u) /\ UNCHANGED <<kbd, line, g_tty, g_current, typed, seen>>
      /\ g_wait' = IF FreeSlots = {} THEN g_wait ELSE [g_wait EXCEPT ![m] = c]
  BY DEF WaitClaim
<1>2. /\ Me \in Tasks /\ Me.state = "running" /\ Me.pc = "wait" /\ Sane(c, Me, c) /\ c \in Procs
      /\ Me = g_tasks[c] /\ AllEased(g_tasks, g_tasks)
  BY <1>1, Here
<1>3. Len(Me.got) <= Me.len /\ "look" \in Pcs
  BY <1>2 DEF Sane, Pcs
<1>4. /\ u \in Tasks /\ u.pc = "look" /\ u.state = "running" /\ Sane(c, u, c)
      /\ u.dev = Me.dev /\ u.on = Me.on
  BY <1>2, <1>3, Moved
<1> HIDE DEF u
<1>5. g_wait \in [Slots -> 0 .. kProcs] /\ Kept(g_tty)
  BY DEF TtyInv, Ruled
<1>6. FreeSlots # {} => m \in Slots /\ g_wait[m] = 0
  <2> SUFFICES ASSUME FreeSlots # {} PROVE m \in FreeSlots
    BY DEF FreeSlots
  <2>1. FreeSlots \subseteq Nat
    BY DEF FreeSlots, Slots
  <2> QED
    BY <2>1, MinIn
<1> HIDE DEF m
<1>7. g_wait' \in [Slots -> 0 .. kProcs]
  <2>1. c \in 0 .. kProcs
    BY <1>2, TtyAssumption DEF Procs
  <2> QED
    BY <1>1, <1>5, <1>6, <2>1
<1>8. Keyed' /\ Ruled'
  BY <1>1, <1>5, <1>7 DEF TtyInv, Keyed, Ruled
<1>9. ASSUME kWaitMax >= kProcs /\ RoomInv
      PROVE  Fits(g_tasks, g_wait, kbd.ring, g_tty, c, u, g_wait', kbd'.ring, g_tty')
  <2>1. Once(g_wait) /\ Claims(c, Me, g_wait, kbd.ring) /\ Way(Me, g_tty)
    BY <1>2, <1>9 DEF RoomInv, Room
  <2>2. ~In(c, g_wait)
    BY <1>2, <2>1 DEF Claims
  <2>3. FreeSlots # {}
    BY <1>2, <1>5, <1>9, <2>1, <2>2, PlaceLeft DEF FreeSlots
  <2> DEFINE W2 == [g_wait EXCEPT ![m] = c]
  <2>4. m \in Slots /\ g_wait[m] = 0 /\ g_wait' = W2
    BY <1>1, <1>6, <2>3
  <2>5. \A i \in Slots : W2[i] = IF i = m THEN c ELSE g_wait[i]
    BY <1>5, <2>4
  <2> HIDE DEF W2
  <2>6. Once(W2) /\ In(c, W2)
    BY <2>1, <2>2, <2>4, <2>5 DEF Once, In
  <2>7. ASSUME NEW p \in Procs, p # c PROVE In(p, g_wait) <=> In(p, W2)
    <3>1. p # 0
      BY TtyAssumption DEF Procs
    <3> QED
      BY <2>4, <2>5, <2>7, <3>1 DEF In
  <2>8. Claims(c, u, W2, kbd.ring) /\ Way(u, g_tty) /\ ~Draining(g_tasks[c])
    BY <1>2, <1>4, <2>1, <2>6 DEF Claims, Way, Draining
  <2>9. Fits(g_tasks, g_wait, kbd.ring, g_tty, c, u, W2, kbd.ring, g_tty)
    BY <1>4, <2>6, <2>7, <2>8 DEF Fits
  <2> QED
    BY <1>1, <2>4, <2>9
<1>10. g_tasks' = [g_tasks EXCEPT ![c] = u]
  BY <1>1 DEF Goto
<1> QED
  BY <1>1, <1>2, <1>4, <1>8, <1>9, <1>10, Own

\* A look at the ring.
LEMMA WaitLookStays ==
  ASSUME TtyInv, WaitLook
  PROVE  Stays
<1> DEFINE c == g_current
           u == [Me EXCEPT !.pc = "block"]
<1>1. At("look") /\ UNCHANGED <<kbd, line, g_tty, g_current, typed, seen>>
  BY DEF WaitLook
<1>2. /\ Me \in Tasks /\ Me.state = "running" /\ Me.pc = "look" /\ Sane(c, Me, c) /\ c \in Procs
      /\ Me = g_tasks[c] /\ AllEased(g_tasks, g_tasks)
  BY <1>1, Here
<1>3. CASE kbd.ring # <<>>
  <2>1. Unclaim(Me.wake_pending) /\ Me.wake_pending \in BOOLEAN
    BY <1>2, <1>3, TaskFields DEF WaitLook
  <2> QED
    BY <1>1, <2>1, UnclaimStays
<1>4. CASE kbd.ring = <<>>
  <2>1. Goto(u) /\ g_wait' = g_wait
    BY <1>4 DEF WaitLook
  <2>2. Len(Me.got) <= Me.len /\ "block" \in Pcs
    BY <1>2 DEF Sane, Pcs
  <2>3. /\ u \in Tasks /\ u.pc = "block" /\ u.state = "running" /\ Sane(c, u, c)
        /\ u.dev = Me.dev /\ u.on = Me.on /\ u.wake_pending = Me.wake_pending
    BY <1>2, <2>2, Moved
  <2> HIDE DEF u
  <2>4. ASSUME RoomInv
        PROVE  Fits(g_tasks, g_wait, kbd.ring, g_tty, c, u, g_wait', kbd'.ring, g_tty')
    <3>1. Once(g_wait) /\ Claims(c, Me, g_wait, kbd.ring) /\ Way(Me, g_tty)
      BY <1>2, <2>4 DEF RoomInv, Room
    <3>2. Claims(c, u, g_wait, kbd.ring) /\ Way(u, g_tty) /\ ~Draining(g_tasks[c])
      BY <1>2, <1>4, <2>3, <3>1 DEF Claims, Way, Draining
    <3>3. Fits(g_tasks, g_wait, kbd.ring, g_tty, c, u, g_wait, kbd.ring, g_tty)
      BY <2>3, <3>1, <3>2 DEF Fits
    <3> QED
      BY <1>1, <2>1, <3>3
  <2>5. Keyed' /\ Ruled'
    BY <1>1, <2>1 DEF TtyInv, Keyed, Ruled
  <2>6. g_tasks' = [g_tasks EXCEPT ![c] = u]
    BY <2>1 DEF Goto
  <2> QED
    BY <1>1, <1>2, <2>3, <2>4, <2>5, <2>6, Own
<1> QED
  BY <1>3, <1>4

\* block().
LEMMA BlockStays ==
  ASSUME TtyInv, Block
  PROVE  Stays
<1> DEFINE c == g_current
           t == Me
           u == [t EXCEPT !.state = "blocked", !.pc = "asleep", !.on = TRUE, !.again = t.on]
<1>1. At("block") /\ UNCHANGED <<kbd, line, g_tty, g_current, typed, seen>>
  BY DEF Block
<1>2. /\ t \in Tasks /\ t.state = "running" /\ t.pc = "block" /\ Sane(c, t, c) /\ c \in Procs
      /\ t = g_tasks[c] /\ AllEased(g_tasks, g_tasks)
  BY <1>1, Here
<1>3. CASE t.wake_pending
  <2>1. Unclaim(FALSE)
    BY <1>3 DEF Block
  <2> QED
    BY <1>1, <2>1, UnclaimStays
<1>4. CASE ~t.wake_pending
  <2>1. Goto(u) /\ g_wait' = g_wait
    BY <1>4 DEF Block
  <2>2. Len(t.got) <= t.len
    BY <1>2 DEF Sane
  <2> HIDE DEF t
  <2>3. t.on \in BOOLEAN
    BY <1>2, TaskFields
  <2>4. /\ u \in Tasks /\ u.pc = "asleep" /\ u.state = "blocked"
        /\ u.dev = t.dev /\ u.on = TRUE /\ u.again = t.on /\ u.got = t.got /\ u.len = t.len
    BY <1>2, <2>3 DEF Tasks, States, Pcs
  <2> HIDE DEF u
  <2>5. Sane(c, u, c)
    BY <2>2, <2>4 DEF Sane
  <2>6. ASSUME RoomInv
        PROVE  Fits(g_tasks, g_wait, kbd.ring, g_tty, c, u, g_wait', kbd'.ring, g_tty')
    <3>1. Once(g_wait) /\ Claims(c, t, g_wait, kbd.ring) /\ Way(t, g_tty)
      BY <1>2, <2>6 DEF RoomInv, Room
    <3>2. Claims(c, u, g_wait, kbd.ring) /\ Way(u, g_tty) /\ ~Draining(g_tasks[c])
      BY <1>2, <1>4, <2>4, <3>1 DEF Claims, Way, Draining
    <3>3. u.state = "blocked" /\ u.dev = "tty" /\ ~u.again => Quiet(g_tty)
      BY <1>2, <2>4, <3>1 DEF Way
    <3>4. Fits(g_tasks, g_wait, kbd.ring, g_tty, c, u, g_wait, kbd.ring, g_tty)
      BY <2>4, <3>1, <3>2, <3>3 DEF Fits
    <3> QED
      BY <1>1, <2>1, <3>4
  <2>7. Keyed' /\ Ruled'
    BY <1>1, <2>1 DEF TtyInv, Keyed, Ruled
  <2>8. g_tasks' = [g_tasks EXCEPT ![c] = u]
    BY <2>1 DEF Goto
  <2> QED
    BY <1>1, <1>2, <2>4, <2>5, <2>6, <2>7, <2>8, Own
<1> QED
  BY <1>3, <1>4

\* After the sleep.
LEMMA AwakeStays ==
  ASSUME TtyInv, Awake
  PROVE  Stays
<1>1. At("asleep") /\ Unclaim(FALSE) /\ UNCHANGED <<kbd, line, g_tty, g_current, typed, seen>>
  BY DEF Awake
<1> QED
  BY <1>1, UnclaimStays

-----------------------------------------------------------------------------
(* The other calls, and interrupts.                                        *)

\* dev_console_rd().
LEMMA ReadConsoleStays ==
  ASSUME TtyInv, NEW len \in Nat, ReadConsole(len)
  PROVE  Stays
<1> DEFINE b == Taken(g_tty, len)
<1>1. /\ At("user") /\ g_tty' = Without(g_tty, b) /\ Return(b)
      /\ UNCHANGED <<kbd, line, g_wait, g_current, typed>>
  BY DEF ReadConsole, Without
<1>2. Kept(g_tty)
  BY DEF TtyInv, Ruled
<1>3. Kept(Without(g_tty, b)) /\ (Quiet(g_tty) => Quiet(Without(g_tty, b)))
  BY <1>2, TakenIs
<1> HIDE DEF b
<1>4. Kept(g_tty') /\ (Quiet(g_tty) => Quiet(g_tty'))
  BY <1>1, <1>3
<1>5. Keyed' /\ (kbd.ring = <<>> => kbd'.ring = <<>>)
  BY <1>1 DEF TtyInv, Keyed
<1> QED
  BY <1>1, <1>4, <1>5, Returns

\* dev_serial_rd().
LEMMA ReadSerialStays ==
  ASSUME TtyInv, ReadSerial
  PROVE  Stays
<1> DEFINE b == <<Head(line)>>
<1>1. /\ At("user") /\ line # <<>> /\ line' = Tail(line) /\ Return(b)
      /\ UNCHANGED <<kbd, g_tty, g_wait, g_current, typed>>
  BY DEF ReadSerial
<1> HIDE DEF b
<1>2. Kept(g_tty') /\ g_tty' = g_tty
  BY <1>1 DEF TtyInv, Ruled
<1>3. line \in Seq(Bytes) /\ kbd \in Kbds /\ Len(kbd.ring) < kBuf /\ typed \in Nat
  BY DEF TtyInv, Keyed
<1>4. line' \in Seq(Bytes)
  BY <1>1, <1>3
<1>5. Keyed' /\ (kbd.ring = <<>> => kbd'.ring = <<>>)
  BY <1>1, <1>3, <1>4 DEF Keyed
<1> QED
  BY <1>1, <1>2, <1>5, Returns

\* The discipline changes by itself, and stays quiet if it was.
LEMMA QuietStays ==
  ASSUME TtyInv, Kept(g_tty'), Quiet(g_tty) => Quiet(g_tty'),
         UNCHANGED <<kbd, g_wait, g_tasks, g_current>>, line' \in Seq(Bytes), typed' \in Nat
  PROVE  Stays
<1>1. TtyInv'
  <2>1. Keyed' /\ Ruled'
    BY DEF TtyInv, Keyed, Ruled
  <2>2. AllSane(g_tasks', g_current')
    BY DEF TtyInv
  <2> QED
    BY <2>1, <2>2 DEF TtyInv
<1>2. ASSUME RoomInv PROVE Room(g_tasks, g_wait, kbd.ring, g_tty')
  <2>1. Room(g_tasks, g_wait, kbd.ring, g_tty)
    BY <1>2 DEF RoomInv
  <2>2. ASSUME NEW p \in Procs
        PROVE  /\ Claims(p, g_tasks[p], g_wait, kbd.ring) /\ Way(g_tasks[p], g_tty')
               /\ Sleep(g_tasks[p], g_tasks, g_tty')
    <3>1. /\ Claims(p, g_tasks[p], g_wait, kbd.ring) /\ Way(g_tasks[p], g_tty)
          /\ Sleep(g_tasks[p], g_tasks, g_tty)
      BY <2>1 DEF Room
    <3> QED
      BY <3>1 DEF Way, Sleep
  <2>3. Once(g_wait)
    BY <2>1 DEF Room
  <2> QED
    BY <2>2, <2>3 DEF Room
<1>3. RoomInv => RoomInv'
  <2> SUFFICES ASSUME RoomInv PROVE Room(g_tasks', g_wait', kbd'.ring, g_tty')
    BY DEF RoomInv
  <2>1. Room(g_tasks, g_wait, kbd.ring, g_tty')
    BY <1>2
  <2> QED
    BY <2>1
<1> QED
  BY <1>1, <1>3 DEF Stays

\* ioctl() with new modes.
LEMMA SetFlagsStays ==
  ASSUME TtyInv, NEW f \in Modes, SetFlags(f)
  PROVE  Stays
<1>1. Kept(g_tty) /\ line \in Seq(Bytes) /\ typed \in Nat
  BY DEF TtyInv, Keyed, Ruled
<1> DEFINE e == <<>>
           y == [g_tty EXCEPT !.buf = e]
           z == [y EXCEPT !.flags = f]
<1>2. g_tty' = z /\ UNCHANGED <<kbd, line, g_wait, g_tasks, g_current, typed, seen>>
  BY DEF SetFlags, tty_drop
<1>3. e \in Seq(Bytes) /\ Len(e) <= Len(g_tty.buf)
  <2>1. g_tty.buf \in Seq(Bytes)
    BY <1>1 DEF Kept, Ttys
  <2> QED
    BY <2>1
<1>4. Kept(y) /\ y.buf = e /\ (y.eof => g_tty.eof)
  BY <1>1, <1>3, Shorter
<1> HIDE DEF y
<1>5. z \in Ttys /\ z.buf = y.buf
  BY <1>4 DEF Kept, Ttys
<1>6. z.eof => y.eof
  BY <1>4 DEF Kept, Ttys
<1> HIDE DEF z
<1>7. Kept(z) /\ (Quiet(g_tty) => Quiet(z))
  BY <1>4, <1>5, <1>6 DEF Kept, Quiet
<1>8. Kept(g_tty') /\ (Quiet(g_tty) => Quiet(g_tty'))
  BY <1>2, <1>7
<1> QED
  BY <1>1, <1>2, <1>8, QuietStays

\* ioctl() with a new owner.
LEMMA SetOwnerStays ==
  ASSUME TtyInv, NEW p \in Owners, SetOwner(p)
  PROVE  Stays
<1>1. Kept(g_tty) /\ line \in Seq(Bytes) /\ typed \in Nat
  BY DEF TtyInv, Keyed, Ruled
<1> DEFINE y == g_tty
           z == [y EXCEPT !.owner = p]
<1>2. g_tty' = z /\ UNCHANGED <<kbd, line, g_wait, g_tasks, g_current, typed, seen>>
  BY DEF SetOwner
<1>3. Kept(y) /\ p \in 0 .. kProcs
  BY <1>1, TtyAssumption
<1> HIDE DEF y
<1>4. z \in Ttys /\ z.buf = y.buf
  BY <1>3 DEF Kept, Ttys
<1>5. z.eof => y.eof
  BY <1>3 DEF Kept, Ttys
<1> HIDE DEF z
<1>6. Kept(z) /\ (Quiet(y) => Quiet(z))
  BY <1>3, <1>4, <1>5 DEF Kept, Quiet
<1>7. Kept(g_tty') /\ (Quiet(g_tty) => Quiet(g_tty'))
  BY <1>2, <1>6 DEF y
<1> QED
  BY <1>1, <1>2, <1>7, QuietStays

\* What is typed has a kind.
LEMMA TypedKinds == Scans \subseteq Kinds /\ Chars \subseteq Kinds
BY TtyAssumption DEF Kinds

\* A byte on the serial line.
LEMMA ReceiveStays ==
  ASSUME TtyInv, NEW k \in Chars, Receive(k)
  PROVE  Stays
<1>1. Kept(g_tty) /\ line \in Seq(Bytes) /\ typed \in Nat
  BY DEF TtyInv, Keyed, Ruled
<1> DEFINE b == Byte(k, typed + 1)
<1>2. line' = Append(line, b) /\ typed' = typed + 1 /\ UNCHANGED <<kbd, g_tty, g_wait, g_tasks, g_current, seen>>
  BY DEF Receive
<1>3. b \in Bytes
  <2>1. k \in Kinds /\ typed + 1 \in Nat
    BY <1>1, TypedKinds
  <2> QED
    BY <2>1, ByteFacts
<1> HIDE DEF b
<1>4. line' \in Seq(Bytes) /\ typed' \in Nat
  BY <1>1, <1>2, <1>3
<1>5. Kept(g_tty') /\ (Quiet(g_tty) => Quiet(g_tty'))
  BY <1>1, <1>2
<1> QED
  BY <1>2, <1>4, <1>5, QuietStays

\* The idle loop.
LEMMA DispatchStays ==
  ASSUME TtyInv, NEW p \in Procs, Dispatch(p)
  PROVE  Stays
<1> DEFINE T == g_tasks
           w == [T[p] EXCEPT !.state = "running"]
           U == [T EXCEPT ![p] = w]
<1>1. /\ Idle /\ T[p].state = "ready" /\ g_tasks' = U /\ g_current' = p
      /\ UNCHANGED <<kbd, line, g_tty, g_wait, typed, seen>>
  <2>1. T \in [Procs -> Tasks]
    BY DEF TtyInv, AllSane
  <2> QED
    BY <2>1 DEF Dispatch
<1>2. AllSane(T, g_current) /\ T \in [Procs -> Tasks] /\ g_current \in Procs
  BY DEF TtyInv, AllSane
<1>3. T[g_current].state # "running"
  BY <1>1 DEF Idle, Me
<1> HIDE DEF T
<1>4. w \in Tasks /\ Same(T[p], w) /\ w.state = "running"
  <2>1. T[p] \in Tasks
    BY <1>2
  <2> DEFINE t == T[p]
  <2>2. t \in Tasks
    BY <2>1
  <2> HIDE DEF t
  <2>3. [t EXCEPT !.state = "running"] \in Tasks /\ [t EXCEPT !.state = "running"].state = "running"
    BY <2>2 DEF Tasks, States
  <2>4. Same(t, [t EXCEPT !.state = "running"])
    BY <2>2 DEF Tasks, Same
  <2> QED
    BY <2>3, <2>4 DEF t
<1> HIDE DEF w
<1>5. U \in [Procs -> Tasks] /\ \A q \in Procs : U[q] = IF q = p THEN w ELSE T[q]
  BY <1>2, <1>4
<1> HIDE DEF U
<1>6. ASSUME NEW q \in Procs
      PROVE  /\ T[q].pc \in {"user", "asleep"} /\ Same(T[q], U[q])
             /\ U[q].state = "blocked" => T[q].state = "blocked"
             /\ U[q].state = "running" => q = p
  <2>1. Sane(q, T[q], g_current)
    BY <1>2 DEF AllSane
  <2>2. T[q].state # "running" /\ T[q].pc \in {"user", "asleep"}
    BY <1>3, <2>1 DEF Sane
  <2>3. CASE q = p
    BY <1>4, <1>5, <2>2, <2>3
  <2>4. CASE q # p
    <3>1. U[q] = T[q]
      BY <1>5, <2>4
    <3> QED
      BY <2>2, <3>1 DEF Same
  <2> QED
    BY <2>3, <2>4
<1>7. Switched(T, U, p)
  BY <1>5, <1>6 DEF Switched
<1>8. AllSane(U, p)
  BY <1>2, <1>7, SwitchSane
<1>9. TtyInv'
  BY <1>1, <1>8 DEF TtyInv, Keyed, Ruled
<1>10. RoomInv => RoomInv'
  <2> SUFFICES ASSUME Room(T, g_wait, kbd.ring, g_tty) PROVE RoomInv'
    BY DEF RoomInv, T
  <2>1. Room(U, g_wait, kbd.ring, g_tty)
    BY <1>7, SwitchRoom
  <2> QED
    BY <1>1, <2>1 DEF RoomInv
<1> QED
  BY <1>9, <1>10 DEF Stays

\* An interrupt finds nobody on the way to a first sleep.
LEMMA OpenWay ==
  ASSUME TtyInv, Open, NEW p \in Procs, NEW y
  PROVE  Way(g_tasks[p], y)
<1>1. Sane(p, g_tasks[p], g_current)
  BY DEF TtyInv, AllSane
<1>2. CASE g_tasks[p].pc \in {"user", "asleep"}
  BY <1>2 DEF Way
<1>3. CASE g_tasks[p].pc \notin {"user", "asleep"}
  <2>1. p = g_current /\ g_tasks[p].state = "running"
    BY <1>1, <1>3 DEF Sane
  <2>2. g_tasks[p].on
    BY <1>3, <2>1 DEF Open, Idle, Me
  <2> QED
    BY <2>2 DEF Way
<1> QED
  BY <1>2, <1>3

\* wake() in an interrupt, after others were eased: all of it.
LEMMA WakeInv ==
  ASSUME TtyInv, Open, NEW D, AllEased(g_tasks, D), NEW r2, NEW y2
  PROVE  /\ AllEased(g_tasks, wake(D)) /\ AllSane(wake(D), g_current)
         /\ RoomInv => Room(wake(D), Nobody, r2, y2)
<1> DEFINE U == wake(D)
<1>1. AllSane(g_tasks, g_current) /\ g_wait \in [Slots -> 0 .. kProcs] /\ D \in [Procs -> Tasks]
  BY DEF TtyInv, Ruled, AllEased
<1>2. AllEased(D, U) /\ \A p \in Procs : In(p, g_wait) => Told(D[p], U[p])
  BY <1>1, Wake
<1> HIDE DEF U
<1>3. AllEased(g_tasks, U)
  BY <1>2, EasedTwice
<1>4. AllSane(U, g_current)
  BY <1>1, <1>3, EasedSane
<1>5. ASSUME NEW p \in Procs PROVE (In(p, g_wait) => Told(g_tasks[p], U[p])) /\ Way(U[p], y2)
  <2>1. Eased(g_tasks[p], D[p]) /\ Eased(g_tasks[p], U[p]) /\ (In(p, g_wait) => Told(D[p], U[p]))
    BY <1>2, <1>3 DEF AllEased
  <2>2. In(p, g_wait) => Told(g_tasks[p], U[p])
    BY <2>1 DEF Eased, Told
  <2>3. Way(g_tasks[p], y2)
    BY OpenWay
  <2>4. Way(U[p], y2)
    BY <2>1, <2>3 DEF Eased, Same, Way
  <2> QED
    BY <2>2, <2>4
<1>6. ASSUME RoomInv PROVE Room(U, Nobody, r2, y2)
  <2>1. Room(g_tasks, g_wait, kbd.ring, g_tty)
    BY <1>6 DEF RoomInv
  <2>2. \A p \in Procs : In(p, g_wait) => Told(g_tasks[p], U[p])
    BY <1>5
  <2>3. \A p \in Procs : Way(U[p], y2)
    BY <1>5
  <2>4. \A p \in Procs : U[p] = U[p] \/ (p = g_current /\ U[p].state = "running" /\ U[p].pc \in {"take", "key"})
    OBVIOUS
  <2> QED
    BY <1>1, <1>3, <2>1, <2>2, <2>3, <2>4, WokenRoom
<1> QED
  BY <1>3, <1>4, <1>6 DEF U

\* irq_handler().
LEMMA KeyStays ==
  ASSUME TtyInv, NEW s \in Scans, Key(s)
  PROVE  Stays
<1> DEFINE b == Byte(s, typed + 1)
           e == Append(kbd.ring, b)
           U == wake(g_tasks)
<1>1. /\ Open /\ typed' = typed + 1
      /\ kbd' = IF Len(kbd.ring) + 1 >= kBuf THEN kbd ELSE [kbd EXCEPT !.ring = e]
      /\ g_tasks' = U /\ g_wait' = Nobody /\ UNCHANGED <<line, g_tty, g_current, seen>>
  BY DEF Key
<1>2. /\ kbd \in Kbds /\ Len(kbd.ring) < kBuf /\ line \in Seq(Bytes) /\ typed \in Nat
      /\ kbd.ring \in Seq(Bytes) /\ Kept(g_tty) /\ g_tasks \in [Procs -> Tasks]
  BY DEF TtyInv, Keyed, Ruled, Kbds, AllSane
<1>3. b \in Bytes
  <2>1. s \in Kinds /\ typed + 1 \in Nat
    BY <1>2, TypedKinds
  <2> QED
    BY <2>1, ByteFacts
<1> HIDE DEF b
<1>4. e \in Seq(Bytes) /\ Len(e) = Len(kbd.ring) + 1 /\ Len(kbd.ring) \in Nat
  BY <1>2, <1>3
<1> HIDE DEF e
<1>5. kbd' \in Kbds /\ Len(kbd'.ring) < kBuf
  <2>1. CASE Len(kbd.ring) + 1 >= kBuf
    BY <1>1, <1>2, <2>1
  <2>2. CASE ~(Len(kbd.ring) + 1 >= kBuf)
    <3>1. kbd' = [kbd EXCEPT !.ring = e]
      BY <1>1, <2>2
    <3>2. kbd' \in Kbds /\ kbd'.ring = e
      BY <1>2, <1>4, <3>1 DEF Kbds
    <3>3. Len(e) < kBuf
      BY <1>4, <2>2, TtyAssumption
    <3> QED
      BY <3>2, <3>3
  <2> QED
    BY <2>1, <2>2
<1>6. Keyed' /\ Ruled'
  BY <1>1, <1>2, <1>5, NobodyIn DEF Keyed, Ruled
<1>7. AllEased(g_tasks, g_tasks)
  BY <1>2, EasedSame
<1>8. AllSane(U, g_current) /\ (RoomInv => Room(U, Nobody, kbd'.ring, g_tty'))
  BY <1>1, <1>7, WakeInv
<1> HIDE DEF U
<1>9. TtyInv'
  BY <1>1, <1>6, <1>8 DEF TtyInv
<1>10. RoomInv => RoomInv'
  BY <1>1, <1>8 DEF RoomInv
<1> QED
  BY <1>9, <1>10 DEF Stays

\* preempt(): from a process in user mode to one that is ready.
LEMMA Preempt ==
  ASSUME NEW T, NEW c, AllSane(T, c), NEW p \in Procs, T[c].state = "running", T[c].pc = "user",
         T[p].state = "ready"
  PROVE  Switched(T, [T EXCEPT ![c].state = "ready", ![p].state = "running"], p)
<1>1. c \in Procs /\ T \in [Procs -> Tasks] /\ p # c
  BY DEF AllSane
<1> DEFINE v == [T[c] EXCEPT !.state = "ready"]
           w == [T[p] EXCEPT !.state = "running"]
           U == [T EXCEPT ![c] = v, ![p] = w]
<1>2. [T EXCEPT ![c].state = "ready", ![p].state = "running"] = U
  BY <1>1
<1>3. ASSUME NEW t \in Tasks, NEW s \in States
      PROVE  [t EXCEPT !.state = s] \in Tasks /\ Same(t, [t EXCEPT !.state = s]) /\ [t EXCEPT !.state = s].state = s
  <2>1. [t EXCEPT !.state = s] \in Tasks /\ [t EXCEPT !.state = s].state = s
    BY DEF Tasks
  <2>2. Same(t, [t EXCEPT !.state = s])
    BY DEF Tasks, Same
  <2> QED
    BY <2>1, <2>2
<1>4. T[c] \in Tasks /\ T[p] \in Tasks /\ "ready" \in States /\ "running" \in States
  BY <1>1 DEF States
<1>5. v \in Tasks /\ Same(T[c], v) /\ v.state = "ready" /\ w \in Tasks /\ Same(T[p], w) /\ w.state = "running"
  BY <1>3, <1>4
<1> HIDE DEF v, w
<1>6. U \in [Procs -> Tasks] /\ \A q \in Procs : U[q] = IF q = p THEN w ELSE IF q = c THEN v ELSE T[q]
  BY <1>1, <1>5
<1> HIDE DEF U
<1>7. ASSUME NEW q \in Procs
      PROVE  /\ T[q].pc \in {"user", "asleep"} /\ Same(T[q], U[q])
             /\ U[q].state = "blocked" => T[q].state = "blocked"
             /\ U[q].state = "running" => q = p
  <2>1. Sane(q, T[q], c)
    BY DEF AllSane
  <2>2. T[q].pc \in {"user", "asleep"} /\ (T[q].state = "running" => q = c)
    BY <2>1 DEF Sane
  <2>3. CASE q = p
    BY <1>5, <1>6, <2>2, <2>3
  <2>4. CASE q = c
    BY <1>1, <1>5, <1>6, <2>2, <2>4
  <2>5. CASE q # p /\ q # c
    <3>1. U[q] = T[q]
      BY <1>6, <2>5
    <3> QED
      BY <2>2, <2>5, <3>1 DEF Same
  <2> QED
    BY <2>3, <2>4, <2>5
<1>8. Switched(T, U, p)
  BY <1>6, <1>7 DEF Switched
<1> QED
  BY <1>2, <1>8

\* What may come over the line during a tick.
LEMMA LateBytes ==
  ASSUME typed \in Nat, NEW late \in {<<>>} \cup {<<Byte(k, typed + 1)>> : k \in Chars}
  PROVE  late \in Seq(Bytes) /\ Len(late) \in Nat
<1>1. CASE late = <<>>
  BY <1>1
<1>2. ASSUME NEW k \in Chars, late = <<Byte(k, typed + 1)>> PROVE late \in Seq(Bytes) /\ Len(late) \in Nat
  <2> DEFINE b == Byte(k, typed + 1)
  <2>1. k \in Kinds /\ typed + 1 \in Nat
    BY TypedKinds
  <2>2. b \in Bytes
    BY <2>1, ByteFacts
  <2>3. late = <<b>>
    BY <1>2
  <2> HIDE DEF b
  <2> QED
    BY <2>2, <2>3
<1> QED
  BY <1>1, <1>2

\* on_tick().
LEMMA TickStays ==
  ASSUME TtyInv, Tick
  PROVE  Stays
<1> DEFINE told == unblock(g_tasks, {p \in Procs : g_tasks[p].state = "blocked" /\ g_tasks[p].sig_pending})
           d == Drained(kbd, line, g_tty, told)
           c == g_current
<1>0. PICK D \in {d}, late \in {<<>>} \cup {<<Byte(k, typed + 1)>> : k \in Chars} :
        LET woken == D.got \/ late # <<>>
            T == IF woken THEN wake(D.tasks) ELSE D.tasks
        IN /\ Open /\ typed' = typed + Len(late)
           /\ kbd' = D.kbd /\ line' = D.line \o late /\ g_tty' = D.tty
           /\ g_wait' = IF woken THEN Nobody ELSE g_wait
           /\ \/ g_tasks' = T /\ UNCHANGED g_current
              \/ \E p \in Procs :
                   /\ ~Idle /\ Me.pc = "user" /\ T[p].state = "ready"
                   /\ g_tasks' = [T EXCEPT ![g_current].state = "ready", ![p].state = "running"]
                   /\ g_current' = p
  BY DEF Tick
<1> DEFINE woken == d.got \/ late # <<>>
           T == IF woken THEN wake(d.tasks) ELSE d.tasks
<1>1. /\ Open /\ typed' = typed + Len(late)
      /\ kbd' = d.kbd /\ line' = d.line \o late /\ g_tty' = d.tty
      /\ g_wait' = IF woken THEN Nobody ELSE g_wait
      /\ \/ g_tasks' = T /\ UNCHANGED g_current
         \/ \E p \in Procs :
              /\ ~Idle /\ Me.pc = "user" /\ T[p].state = "ready"
              /\ g_tasks' = [T EXCEPT ![g_current].state = "ready", ![p].state = "running"]
              /\ g_current' = p
  BY <1>0, Zenon
<1>2. /\ kbd \in Kbds /\ Len(kbd.ring) < kBuf /\ line \in Seq(Bytes) /\ typed \in Nat
      /\ kbd.ring \in Seq(Bytes) /\ Kept(g_tty) /\ g_wait \in [Slots -> 0 .. kProcs]
      /\ g_tasks \in [Procs -> Tasks] /\ c \in Procs /\ AllSane(g_tasks, c)
  BY DEF TtyInv, Keyed, Ruled, Kbds, AllSane
<1>3. AllEased(g_tasks, told)
  BY <1>2, Unblock
<1> HIDE DEF told
<1>4. told \in [Procs -> Tasks]
  BY <1>3 DEF AllEased
<1>5. d \in Left(kbd, g_tty, told)
  BY <1>2, <1>4, DrainedLeft
<1> HIDE DEF d
<1>6. /\ d.kbd \in Kbds /\ d.line \in Seq(Bytes) /\ d.tty \in Ttys /\ d.tasks \in [Procs -> Tasks]
      /\ d.got \in BOOLEAN /\ Len(d.kbd.ring) <= Len(kbd.ring) /\ Kept(d.tty)
      /\ AllEased(told, d.tasks) /\ (~d.got => d.tty = g_tty)
  BY <1>5, LeftIs
<1>7. AllEased(g_tasks, d.tasks)
  BY <1>3, <1>6, EasedTwice
<1>8. d.kbd.ring \in Seq(Bytes) /\ Len(d.kbd.ring) \in Nat /\ Len(kbd.ring) \in Nat
  <2>1. d.kbd.ring \in Seq(Bytes)
    BY <1>6 DEF Kbds
  <2> QED
    BY <1>2, <2>1
<1>9. Len(d.kbd.ring) < kBuf /\ (kbd.ring = <<>> => d.kbd.ring = <<>>)
  <2>1. kBuf \in Nat
    BY TtyAssumption
  <2>2. Len(d.kbd.ring) < kBuf
    BY <1>2, <1>6, <1>8, <2>1
  <2>3. kbd.ring = <<>> => d.kbd.ring = <<>>
    BY <1>6, <1>8
  <2> QED
    BY <2>2, <2>3
<1>10. Keyed' /\ Ruled'
  <2>1. late \in Seq(Bytes) /\ Len(late) \in Nat
    BY <1>2, LateBytes
  <2>2. line' \in Seq(Bytes) /\ typed' \in Nat
    BY <1>1, <1>2, <1>6, <2>1
  <2> QED
    BY <1>1, <1>2, <1>6, <1>9, <2>2, NobodyIn DEF Keyed, Ruled
<1> HIDE DEF woken
<1>11. /\ AllEased(g_tasks, T) /\ AllSane(T, c)
       /\ RoomInv => Room(T, g_wait', kbd'.ring, g_tty')
  <2>1. CASE woken
    <3>1. /\ AllEased(g_tasks, wake(d.tasks)) /\ AllSane(wake(d.tasks), c)
          /\ RoomInv => Room(wake(d.tasks), Nobody, kbd'.ring, g_tty')
      BY <1>1, <1>7, WakeInv
    <3> QED
      BY <1>1, <2>1, <3>1
  <2>2. CASE ~woken
    <3>1. T = d.tasks /\ g_wait' = g_wait /\ g_tty' = g_tty /\ kbd' = d.kbd
      BY <1>1, <1>6, <2>2 DEF woken
    <3> HIDE DEF T
    <3>2. AllEased(g_tasks, T) /\ AllSane(T, c)
      BY <1>2, <1>7, <3>1, EasedSane
    <3>3. ASSUME RoomInv PROVE Room(T, g_wait', kbd'.ring, g_tty')
      <4>1. Room(g_tasks, g_wait, kbd.ring, g_tty)
        BY <3>3 DEF RoomInv
      <4>2. Room(T, g_wait, d.kbd.ring, g_tty)
        BY <1>9, <3>2, <4>1, EasedRoom
      <4> QED
        BY <3>1, <4>2
    <3> QED
      BY <3>2, <3>3
  <2> QED
    BY <2>1, <2>2
<1> HIDE DEF T
<1>12. CASE g_tasks' = T /\ UNCHANGED g_current
  <2>1. TtyInv'
    BY <1>10, <1>11, <1>12 DEF TtyInv
  <2>2. RoomInv => RoomInv'
    BY <1>11, <1>12 DEF RoomInv
  <2> QED
    BY <2>1, <2>2 DEF Stays
<1>13. ASSUME NEW p \in Procs, ~Idle, Me.pc = "user", T[p].state = "ready",
              g_tasks' = [T EXCEPT ![g_current].state = "ready", ![p].state = "running"],
              g_current' = p
       PROVE  Stays
  <2>1. T[c].state = "running" /\ T[c].pc = "user"
    <3>1. Eased(g_tasks[c], T[c]) /\ g_tasks[c].state = "running" /\ g_tasks[c].pc = "user"
      BY <1>2, <1>11, <1>13 DEF AllEased, Idle, Me
    <3> QED
      BY <3>1 DEF Eased, Same
  <2> DEFINE V == [T EXCEPT ![c].state = "ready", ![p].state = "running"]
  <2>2. Switched(T, V, p)
    BY <1>11, <1>13, <2>1, Preempt
  <2>3. g_tasks' = V
    BY <1>13
  <2> HIDE DEF V
  <2>4. AllSane(V, p)
    BY <1>11, <2>2, SwitchSane
  <2>5. TtyInv'
    BY <1>10, <1>13, <2>3, <2>4 DEF TtyInv
  <2>6. ASSUME RoomInv PROVE RoomInv'
    <3>1. Room(T, g_wait', kbd'.ring, g_tty')
      BY <1>11, <2>6
    <3>2. Room(V, g_wait', kbd'.ring, g_tty')
      BY <2>2, <3>1, SwitchRoom
    <3> QED
      BY <2>3, <3>2 DEF RoomInv
  <2> QED
    BY <2>5, <2>6 DEF Stays
<1> QED
  BY <1>1, <1>12, <1>13

\* Only the interrupt and the two halves of poll() touch the slots of the ring or
\* what poll() has in hand; only its second half may tear.
LEMMA Untouched ==
  ASSUME [Next]_vars
  PROVE  ring' = ring \/ PollRead \/ PollMove \/ \E s \in Scans : Key(s)
<1>1. CASE UNCHANGED vars
  BY <1>1 DEF vars
<1>2. CASE Take \/ DrainKey \/ DrainInput \/ KeyOrWait \/ PollKey
  BY <1>2 DEF Take, DrainKey, DrainInput, KeyOrWait, PollKey
<1>3. CASE WaitClaim \/ WaitLook \/ Block \/ Awake
  BY <1>3 DEF WaitClaim, WaitLook, Block, Awake
<1>4. CASE Tick
  BY <1>4 DEF Tick
<1>5. CASE \/ \E k \in Chars : Receive(k)
           \/ \E p \in Procs : Dispatch(p)
           \/ \E p \in Owners : SetOwner(p)
           \/ \E f \in Modes : SetFlags(f)
  BY <1>5 DEF Receive, Dispatch, SetOwner, SetFlags
<1>6. CASE \/ \E len \in Lens : Read("tty", len) \/ ReadConsole(len)
           \/ Read("kbd", 1) \/ ReadSerial
  BY <1>6 DEF Read, ReadConsole, ReadSerial
<1> QED
  BY <1>1, <1>2, <1>3, <1>4, <1>5, <1>6 DEF Next, Step

\* What a step leaves of poll()'s own state.
LEMMA PollStays ==
  ASSUME TtyInv, PollInv, [Next]_vars
  PROVE  PollInv'
<1>1. ASSUME NEW s \in Scans, Key(s) PROVE PollInv'
  <2> DEFINE b == Byte(s, typed + 1)
             r == Tail(g_buf)
  <2>1. half' = half /\ (g_buf' = g_buf \/ g_buf' = Append(r, b))
    BY <1>1 DEF Key
  <2>2. b \in Bytes
    <3>1. s \in Kinds /\ typed + 1 \in Nat
      BY TypedKinds DEF TtyInv, Keyed
    <3> QED
      BY <3>1, ByteFacts
  <2> HIDE DEF b
  <2>3. r \in Seq(Bytes) /\ Len(r) = kBuf - 1 /\ kBuf \in Nat
    BY TtyAssumption DEF PollInv
  <2> HIDE DEF r
  <2>4. Append(r, b) \in Seq(Bytes) /\ Len(Append(r, b)) = kBuf
    BY <2>2, <2>3
  <2> QED
    BY <2>1, <2>4 DEF PollInv
<1>2. CASE PollRead
  <2>1. kbd.ring \in Seq(Bytes) /\ kbd.ring # <<>>
    BY <1>2 DEF TtyInv, Keyed, Kbds, PollRead, Interruptible
  <2>2. Head(kbd.ring) \in Bytes
    BY <2>1
  <2>3. /\ half' = [sc |-> Head(kbd.ring), at |-> Me.pc] /\ Me.pc \in {"drain", "key", "poll"}
        /\ g_buf' = g_buf
    BY <1>2 DEF PollRead
  <2> QED
    BY <2>2, <2>3 DEF PollInv
<1>3. CASE PollMove
  <2>1. half' = NoPoll /\ g_buf' = g_buf /\ NoByte \in Bytes
    BY <1>3, ByteFacts DEF PollMove
  <2> QED
    BY <2>1 DEF PollInv, NoPoll
<1>4. CASE UNCHANGED <<g_buf, half>>
  BY <1>4 DEF PollInv
<1>5. \/ UNCHANGED <<g_buf, half>> \/ PollRead \/ PollMove \/ \E s \in Scans : Key(s)
  BY Untouched DEF ring
<1> QED
  BY <1>1, <1>2, <1>3, <1>4, <1>5

-----------------------------------------------------------------------------
(* The theorems.                                                           *)

RoomyInv == TtyInv /\ PollInv /\ (kWaitMax >= kProcs => RoomInv)

\* It holds at first.
LEMMA InitInv ==
  ASSUME Init
  PROVE  RoomyInv
<1>1. Keyed
  <2>1. kbd = [ring |-> <<>>, ctrl |-> FALSE, ext |-> FALSE, seq |-> 0] /\ line = <<>> /\ typed = 0
    BY DEF Init
  <2>2. <<>> \in Seq(Bytes) /\ Len(<<>>) = 0
    OBVIOUS
  <2>3. kbd \in Kbds /\ kbd.ring = <<>>
    BY <2>1, <2>2 DEF Kbds
  <2> QED
    BY <2>1, <2>2, <2>3, TtyAssumption DEF Keyed
<1>2. Kept(g_tty)
  <2>1. PICK f \in Modes : g_tty = [buf |-> <<>>, eof |-> FALSE, flags |-> f, owner |-> 0]
    BY DEF Init
  <2>2. <<>> \in Seq(Bytes) /\ Len(<<>>) = 0 /\ 0 \in 0 .. kProcs
    BY TtyAssumption
  <2>3. g_tty \in Ttys /\ g_tty.buf = <<>>
    BY <2>1, <2>2 DEF Ttys
  <2> QED
    BY <2>2, <2>3, TtyAssumption DEF Kept
<1>3. Ruled /\ g_wait = Nobody
  BY <1>2, NobodyIn DEF Init, Ruled
<1>4. User \in Tasks /\ User.pc = "user" /\ ~User.on /\ User.got = <<>> /\ User.dev = "none"
  <2>1. <<>> \in Seq(Bytes) /\ NoByte \in Bytes
    BY ByteFacts
  <2> QED
    BY <2>1 DEF User, Tasks, States, Pcs
<1> DEFINE s(p) == IF p = 1 THEN "running" ELSE "ready"
           t(p) == [User EXCEPT !.state = s(p)]
<1>5. g_tasks = [p \in Procs |-> t(p)] /\ g_current = 1
  BY DEF Init
<1>6. ASSUME NEW p \in Procs
      PROVE  t(p) \in Tasks /\ t(p).pc = "user" /\ ~t(p).on /\ t(p).got = <<>> /\ t(p).state = s(p) /\ t(p).dev = "none"
  <2>1. s(p) \in States
    BY DEF States
  <2> HIDE DEF s
  <2>2. /\ [User EXCEPT !.state = s(p)] \in Tasks /\ [User EXCEPT !.state = s(p)].pc = User.pc
        /\ [User EXCEPT !.state = s(p)].got = User.got /\ [User EXCEPT !.state = s(p)].state = s(p)
        /\ [User EXCEPT !.state = s(p)].dev = User.dev
    BY <1>4, <2>1 DEF Tasks
  <2>3. [User EXCEPT !.state = s(p)].on = User.on
    BY <1>4 DEF Tasks
  <2> QED
    BY <1>4, <2>2, <2>3
<1> HIDE DEF t
<1>7. g_tasks \in [Procs -> Tasks] /\ \A p \in Procs : g_tasks[p] = t(p)
  BY <1>5, <1>6
<1>8. ASSUME NEW p \in Procs
      PROVE  /\ Sane(p, g_tasks[p], g_current) /\ g_tasks[p].pc = "user" /\ g_tasks[p].state # "blocked"
  BY <1>5, <1>6, <1>7 DEF Sane
<1>9. 1 \in Procs
  BY TtyAssumption DEF Procs
<1>10. TtyInv
  BY <1>1, <1>3, <1>5, <1>7, <1>8, <1>9 DEF TtyInv, AllSane
<1>11. ASSUME NEW p \in Procs
       PROVE  Claims(p, g_tasks[p], g_wait, kbd.ring) /\ Way(g_tasks[p], g_tty) /\ Sleep(g_tasks[p], g_tasks, g_tty)
  <2>1. g_tasks[p].pc = "user" /\ g_tasks[p].state # "blocked" /\ ~In(p, g_wait)
    BY <1>3, <1>8, NobodyIn
  <2> QED
    BY <2>1 DEF Claims, Way, Sleep
<1>12. RoomInv
  BY <1>3, <1>11, NobodyIn DEF RoomInv, Room
<1>13. PollInv
  <2> DEFINE b == Byte("release", 0)
  <2>1. b \in Bytes /\ NoByte \in Bytes
    BY ByteFacts DEF Kinds
  <2>2. g_buf = [n \in 1 .. kBuf |-> b] /\ half = NoPoll
    BY DEF Init
  <2> HIDE DEF b
  <2>3. g_buf \in Seq(Bytes) /\ Len(g_buf) = kBuf
    BY <2>1, <2>2, TtyAssumption
  <2> QED
    BY <2>1, <2>2, <2>3 DEF PollInv, NoPoll
<1> QED
  BY <1>10, <1>12, <1>13 DEF RoomyInv

\* And after every step.
LEMMA NextInv ==
  ASSUME RoomyInv, [Next]_vars
  PROVE  RoomyInv'
<1>1. TtyInv /\ PollInv
  BY DEF RoomyInv
<1>0. PollInv'
  BY <1>1, PollStays
<1>2. ASSUME Stays PROVE RoomyInv'
  BY <1>0, <1>2 DEF RoomyInv, Stays
<1>3. CASE UNCHANGED vars
  BY <1>0, <1>3 DEF vars, RoomyInv, TtyInv, Keyed, Ruled, RoomInv
<1>4. CASE Take
  BY <1>1, <1>2, <1>4, TakeStays
<1>5. CASE DrainKey
  BY <1>1, <1>2, <1>5, DrainKeyStays
<1>6. CASE DrainInput
  BY <1>1, <1>2, <1>6, DrainInputStays
<1>7. CASE KeyOrWait
  BY <1>1, <1>2, <1>7, KeyOrWaitStays
<1>8. CASE PollKey
  BY <1>1, <1>2, <1>8, PollKeyStays
<1>9. CASE WaitClaim
  BY <1>1, <1>2, <1>9, WaitClaimStays
<1>10. CASE WaitLook
  BY <1>1, <1>2, <1>10, WaitLookStays
<1>11. CASE Block
  BY <1>1, <1>2, <1>11, BlockStays
<1>12. CASE Awake
  BY <1>1, <1>2, <1>12, AwakeStays
<1>13. CASE Tick
  BY <1>1, <1>2, <1>13, TickStays
<1>14. CASE \E s \in Scans : Key(s)
  BY <1>1, <1>2, <1>14, KeyStays
<1>15. CASE \E k \in Chars : Receive(k)
  BY <1>1, <1>2, <1>15, ReceiveStays
<1>16. CASE \E p \in Procs : Dispatch(p)
  BY <1>1, <1>2, <1>16, DispatchStays
<1>21. CASE \E p \in Owners : SetOwner(p)
  BY <1>1, <1>2, <1>21, SetOwnerStays
<1>22. CASE PollRead
  BY <1>1, <1>2, <1>22, PollReadStays
<1>23. CASE PollMove
  BY <1>1, <1>2, <1>23, PollMoveStays
<1>17. CASE \E len \in Lens : Read("tty", len) \/ ReadConsole(len)
  <2>1. \A len \in Lens : len \in Nat
    BY TtyAssumption
  <2> QED
    BY <1>1, <1>2, <1>17, <2>1, ReadStays, ReadConsoleStays
<1>18. CASE Read("kbd", 1)
  BY <1>1, <1>2, <1>18, ReadStays
<1>19. CASE ReadSerial
  BY <1>1, <1>2, <1>19, ReadSerialStays
<1>20. CASE \E f \in Modes : SetFlags(f)
  BY <1>1, <1>2, <1>20, SetFlagsStays
<1> QED
  BY <1>3, <1>4, <1>5, <1>6, <1>7, <1>8, <1>9, <1>10, <1>11, <1>12, <1>13, <1>14, <1>15, <1>16,
     <1>17, <1>18, <1>19, <1>20, <1>21, <1>22, <1>23 DEF Next, Step

\* Processes, slots and modes keep their types, irq_handler() and tty_put() leave
\* one slot of their rings free, one process runs, and no read returns more than
\* was asked: for any number of processes and any size of the rings.
THEOREM TypeCorrect == Spec => []TypeOK
<1>1. Init => RoomyInv
  BY InitInv
<1>2. RoomyInv /\ [Next]_vars => RoomyInv'
  BY NextInv
<1>3. RoomyInv => TypeOK
  <2> SUFFICES ASSUME TtyInv PROVE TypeOK
    BY DEF RoomyInv
  <2>1. Len(kbd.ring) < kBuf /\ kbd.seq \in 0 .. 2
    BY DEF TtyInv, Keyed, Kbds
  <2>2. Len(g_tty.buf) < kTtyBuf /\ g_tty.flags \in Modes /\ g_tty.owner \in 0 .. kProcs
    BY DEF TtyInv, Ruled, Kept, Ttys
  <2>3. g_wait \in [Slots -> 0 .. kProcs] /\ g_current \in Procs
    BY DEF TtyInv, Ruled, AllSane
  <2>4. ASSUME NEW p \in Procs
        PROVE  /\ g_tasks[p].pc \in Pcs /\ g_tasks[p].state \in {"ready", "running", "blocked"}
               /\ g_tasks[p].state = "running" => p = g_current
               /\ g_tasks[p].pc # "user" => Len(g_tasks[p].got) <= g_tasks[p].len
    <3>1. g_tasks[p] \in Tasks /\ Sane(p, g_tasks[p], g_current)
      BY DEF TtyInv, AllSane
    <3> QED
      BY <3>1, TaskFields DEF Sane, States
  <2> QED
    BY <2>1, <2>2, <2>3, <2>4 DEF TypeOK
<1> QED
  BY <1>1, <1>2, <1>3, PTL DEF Spec

\* While there is a slot for every process, a process that block() put to sleep in
\* kbd::wait() is in g_wait, whoever else took itself out of it meanwhile.
THEOREM NobodyForgottenAlways == Spec => []NobodyForgotten
<1>1. Init => RoomyInv
  BY InitInv
<1>2. RoomyInv /\ [Next]_vars => RoomyInv'
  BY NextInv
<1>3. RoomyInv => NobodyForgotten
  <2> SUFFICES ASSUME RoomyInv, kWaitMax >= kProcs, NEW p \in Procs, g_tasks[p].state = "blocked"
               PROVE  p \in Range(g_wait)
    BY DEF NobodyForgotten
  <2>1. In(p, g_wait) /\ g_wait \in [Slots -> 0 .. kProcs]
    BY DEF RoomyInv, RoomInv, Room, Claims, TtyInv, Ruled
  <2> QED
    BY <2>1 DEF In, Range
<1> QED
  BY <1>1, <1>2, <1>3, PTL DEF Spec

\* While there is a slot for every process, nobody sleeps in kbd::wait() over a
\* scancode, whenever irq_handler() put it into the ring.
THEOREM NoSleepOverKeyAlways == ASSUME kWaitMax >= kProcs PROVE Spec => []NoSleepOverKey
<1>1. Init => RoomyInv
  BY InitInv
<1>2. RoomyInv /\ [Next]_vars => RoomyInv'
  BY NextInv
<1>3. RoomyInv => NoSleepOverKey
  BY DEF RoomyInv, RoomInv, Room, Claims, NoSleepOverKey
<1> QED
  BY <1>1, <1>2, <1>3, PTL DEF Spec

\* While there is a slot for every process, a reader of the terminal that sleeps for
\* the first time in its call does not sleep over bytes or an end of file that
\* tty_take() would give it, unless somebody in tty_drain() is about to wake it.
THEOREM NoSleepOnInputAlways == ASSUME kWaitMax >= kProcs PROVE Spec => []NoSleepOnInput
<1>1. Init => RoomyInv
  BY InitInv
<1>2. RoomyInv /\ [Next]_vars => RoomyInv'
  BY NextInv
<1>3. RoomyInv => NoSleepOnInput
  <2> SUFFICES ASSUME RoomyInv, NEW p \in Procs,
                      g_tasks[p].state = "blocked", g_tasks[p].dev = "tty", ~g_tasks[p].again,
                      \A q \in Procs : g_tasks[q].pc \notin {"drain", "input"}
               PROVE  g_tty.buf = <<>> /\ ~g_tty.eof
    BY DEF NoSleepOnInput
  <2>1. Sleep(g_tasks[p], g_tasks, g_tty)
    BY DEF RoomyInv, RoomInv, Room
  <2>2. \A q \in Procs : ~Draining(g_tasks[q])
    BY DEF Draining
  <2> QED
    BY <2>1, <2>2 DEF Sleep, Quiet
<1> QED
  BY <1>1, <1>2, <1>3, PTL DEF Spec

-----------------------------------------------------------------------------
(* Where the bytes are.                                                    *)

\* The names of the bytes of s; that each of them is there once.
Names(s) == {s[i].id : i \in 1 .. Len(s)} \ {0}
Single(s) == \A i, j \in 1 .. Len(s) : s[i].id = s[j].id /\ s[i].id # 0 => i = j

\* What a process holds: the bytes of a half-done read, and one in its hand.
Hand(t) == {t.hand.id} \ {0}
Mine(t) == Names(t.got) \cup Hand(t)
Neat(t) == Single(t.got) /\ Names(t.got) \cap Hand(t) = {}

\* The ring, the line, the buffer, what was given away, X, which is on its way
\* between two of them, and what processes hold: all of it apart, and typed.
Apart(R, L, B, S, X, W, n) ==
  /\ R \cup L \cup B \cup S \cup X \subseteq 1 .. n
  /\ R \cap L = {} /\ R \cap B = {} /\ R \cap S = {} /\ R \cap X = {}
  /\ L \cap B = {} /\ L \cap S = {} /\ L \cap X = {}
  /\ B \cap S = {} /\ B \cap X = {} /\ S \cap X = {}
  /\ \A p \in Procs : W[p] \subseteq 1 .. n /\ W[p] \cap (R \cup L \cup B \cup S \cup X) = {}
  /\ \A p, q \in Procs : p # q => W[p] \cap W[q] = {}

Holding(T) == [p \in Procs |-> Mine(T[p])]
Tidy(r, l, b, S, X, T, n) ==
  /\ Single(r) /\ Single(l) /\ Single(b) /\ \A p \in Procs : Neat(T[p])
  /\ Apart(Names(r), Names(l), Names(b), S \ {0}, X, Holding(T), n)

OnceInv == Tidy(kbd.ring, line, g_tty.buf, seen, {}, g_tasks, typed)

-----------------------------------------------------------------------------
(* What is done to one queue.                                              *)

\* A part of it.
LEMMA PartNames ==
  ASSUME NEW s \in Seq(Bytes), Single(s), NEW m \in Nat \ {0}, NEW n \in Nat, n <= Len(s), m <= n + 1
  PROVE  LET e == SubSeq(s, m, n) IN
         /\ Single(e) /\ Names(e) \subseteq Names(s)
         /\ \A i \in 1 .. Len(s) : i < m \/ n < i => s[i].id \notin Names(e)
<1> DEFINE e == SubSeq(s, m, n)
<1>1. Len(s) \in Nat /\ \A i \in m .. n : s[i] \in Bytes
  OBVIOUS
<1>2. Len(e) = (IF m <= n THEN n - m + 1 ELSE 0) /\ \A i \in 1 .. n - m + 1 : e[i] = s[m + i - 1]
  BY <1>1, SubSeqProperties
<1>3. Len(e) = n - m + 1
  BY <1>2
<1> HIDE DEF e
<1>4. \A i \in 1 .. Len(e) : m + i - 1 \in 1 .. Len(s) /\ m + i - 1 <= n /\ e[i] = s[m + i - 1]
  BY <1>1, <1>2, <1>3
<1>5. Single(e)
  <2> SUFFICES ASSUME NEW i \in 1 .. Len(e), NEW j \in 1 .. Len(e), e[i].id = e[j].id, e[i].id # 0
               PROVE  i = j
    BY DEF Single
  <2>1. m + i - 1 = m + j - 1
    <3> DEFINE x == m + i - 1
               y == m + j - 1
    <3>1. x \in 1 .. Len(s) /\ y \in 1 .. Len(s) /\ s[x].id = s[y].id /\ s[x].id # 0
      BY <1>4
    <3> HIDE DEF x, y
    <3>2. x = y
      BY <3>1 DEF Single
    <3> QED
      BY <3>2 DEF x, y
  <2> QED
    BY <2>1
<1>6. Names(e) \subseteq Names(s)
  BY <1>4 DEF Names
<1>7. ASSUME NEW i \in 1 .. Len(s), i < m \/ n < i, s[i].id \in Names(e) PROVE FALSE
  <2>1. PICK j \in 1 .. Len(e) : s[i].id = e[j].id /\ s[i].id # 0
    BY <1>7 DEF Names
  <2>2. m + j - 1 \in 1 .. Len(s) /\ m + j - 1 <= n /\ s[i].id = s[m + j - 1].id
    BY <1>4, <2>1
  <2>3. i = m + j - 1
    BY <2>1, <2>2 DEF Single
  <2> QED
    BY <1>1, <1>3, <1>7, <2>2, <2>3
<1> QED
  BY <1>5, <1>6, <1>7 DEF e

\* A byte taken from it is not in what is left.
LEMMA CutNames ==
  ASSUME NEW s \in Seq(Bytes), Single(s), NEW c, NEW e, Cut(c, s, e)
  PROVE  /\ Single(e) /\ Names(e) \subseteq Names(s)
         /\ {c.id} \ {0} \subseteq Names(s) /\ Names(e) \cap ({c.id} \ {0}) = {}
<1>1. PICK n \in 0 .. Len(s) : e = SubSeq(s, n + 1, Len(s)) /\ (c.id = 0 \/ (n > 0 /\ c.id = s[n].id))
  BY DEF Cut
<1>2. Len(s) \in Nat /\ n + 1 \in Nat \ {0} /\ n + 1 <= Len(s) + 1
  BY <1>1
<1>3. /\ Single(e) /\ Names(e) \subseteq Names(s)
      /\ \A i \in 1 .. Len(s) : i < n + 1 \/ Len(s) < i => s[i].id \notin Names(e)
  BY <1>1, <1>2, PartNames
<1>4. CASE c.id = 0
  BY <1>3, <1>4
<1>5. CASE n > 0 /\ c.id = s[n].id
  <2>1. n \in 1 .. Len(s) /\ n < n + 1
    BY <1>2, <1>5
  <2>2. c.id \notin Names(e)
    BY <1>3, <1>5, <2>1
  <2>3. {c.id} \ {0} \subseteq Names(s)
    BY <1>5, <2>1 DEF Names
  <2> QED
    BY <1>3, <2>2, <2>3
<1> QED
  BY <1>1, <1>4, <1>5

\* A byte more.
LEMMA AppendNames ==
  ASSUME NEW s \in Seq(Bytes), Single(s), NEW c \in Bytes, c.id \notin Names(s)
  PROVE  Single(Append(s, c)) /\ Names(Append(s, c)) \subseteq Names(s) \cup ({c.id} \ {0})
<1> DEFINE e == Append(s, c)
<1>1. /\ Len(s) \in Nat /\ Len(e) = Len(s) + 1 /\ e[Len(s) + 1] = c
      /\ \A i \in 1 .. Len(s) : e[i] = s[i]
  OBVIOUS
<1> HIDE DEF e
<1>2. \A i \in 1 .. Len(e) : i \in 1 .. Len(s) \/ i = Len(s) + 1
  BY <1>1
<1>3. \A i \in 1 .. Len(s) : s[i].id # 0 => s[i].id # c.id
  BY DEF Names
<1>4. Single(e)
  BY <1>1, <1>2, <1>3 DEF Single
<1>5. Names(e) \subseteq Names(s) \cup ({c.id} \ {0})
  BY <1>1, <1>2 DEF Names
<1> QED
  BY <1>4, <1>5 DEF e

\* Two queues into one.
LEMMA ConcatNames ==
  ASSUME NEW s \in Seq(Bytes), NEW t \in Seq(Bytes), Single(s), Single(t), Names(s) \cap Names(t) = {}
  PROVE  Single(s \o t) /\ Names(s \o t) \subseteq Names(s) \cup Names(t)
<1> DEFINE e == s \o t
<1>1. /\ Len(s) \in Nat /\ Len(t) \in Nat /\ Len(e) = Len(s) + Len(t)
      /\ \A i \in 1 .. Len(s) + Len(t) : e[i] = IF i <= Len(s) THEN s[i] ELSE t[i - Len(s)]
  BY ConcatProperties
<1> HIDE DEF e
<1>2. ASSUME NEW i \in 1 .. Len(e)
      PROVE  \/ i \in 1 .. Len(s) /\ e[i] = s[i]
             \/ ~(i <= Len(s)) /\ i - Len(s) \in 1 .. Len(t) /\ e[i] = t[i - Len(s)]
  BY <1>1
<1>3. \A i \in 1 .. Len(s), j \in 1 .. Len(t) : s[i].id # 0 => s[i].id # t[j].id
  BY DEF Names
<1>4. ASSUME NEW i \in 1 .. Len(e), NEW j \in 1 .. Len(e), e[i].id = e[j].id, e[i].id # 0
      PROVE  i = j
  <2>1. CASE i <= Len(s) /\ j <= Len(s)
    <3>1. i \in 1 .. Len(s) /\ j \in 1 .. Len(s) /\ s[i].id = s[j].id /\ s[i].id # 0
      BY <1>1, <1>4, <2>1
    <3> QED
      BY <3>1 DEF Single
  <2>2. CASE i <= Len(s) /\ ~(j <= Len(s))
    <3>1. i \in 1 .. Len(s) /\ e[i] = s[i] /\ j - Len(s) \in 1 .. Len(t) /\ e[j] = t[j - Len(s)]
      BY <1>1, <2>2
    <3> QED
      BY <1>3, <1>4, <3>1
  <2>3. CASE ~(i <= Len(s)) /\ j <= Len(s)
    <3>1. j \in 1 .. Len(s) /\ e[j] = s[j] /\ i - Len(s) \in 1 .. Len(t) /\ e[i] = t[i - Len(s)]
      BY <1>1, <2>3
    <3> QED
      BY <1>3, <1>4, <3>1
  <2>4. CASE ~(i <= Len(s)) /\ ~(j <= Len(s))
    <3> DEFINE x == i - Len(s)
               y == j - Len(s)
    <3>1. x \in 1 .. Len(t) /\ y \in 1 .. Len(t) /\ t[x].id = t[y].id /\ t[x].id # 0
      BY <1>1, <1>4, <2>4
    <3> HIDE DEF x, y
    <3>2. x = y
      BY <3>1 DEF Single
    <3> QED
      BY <1>1, <3>2 DEF x, y
  <2> QED
    BY <2>1, <2>2, <2>3, <2>4
<1>5. Single(e)
  BY <1>4 DEF Single
<1>6. Names(e) \subseteq Names(s) \cup Names(t)
  BY <1>2 DEF Names
<1> QED
  BY <1>5, <1>6 DEF e

-----------------------------------------------------------------------------
(* Bytes on their way.                                                     *)

\* From the ring.
LEMMA FromRing ==
  ASSUME NEW r, NEW l, NEW b, NEW S, NEW T, NEW n, NEW r2, NEW X, Tidy(r, l, b, S, {}, T, n),
         Single(r2), Names(r2) \subseteq Names(r), X \subseteq Names(r), Names(r2) \cap X = {}
  PROVE  Tidy(r2, l, b, S, X, T, n)
BY DEF Tidy, Apart

\* From the line.
LEMMA FromLine ==
  ASSUME NEW r, NEW l, NEW b, NEW S, NEW T, NEW n, NEW l2, NEW X, Tidy(r, l, b, S, {}, T, n),
         Single(l2), Names(l2) \subseteq Names(l), X \subseteq Names(l), Names(l2) \cap X = {}
  PROVE  Tidy(r, l2, b, S, X, T, n)
BY DEF Tidy, Apart

\* From the buffer.
LEMMA FromBuf ==
  ASSUME NEW r, NEW l, NEW b, NEW S, NEW T, NEW n, NEW b2, NEW X, Tidy(r, l, b, S, {}, T, n),
         Single(b2), Names(b2) \subseteq Names(b), X \subseteq Names(b), Names(b2) \cap X = {}
  PROVE  Tidy(r, l, b2, S, X, T, n)
BY DEF Tidy, Apart

\* Into the buffer, or nowhere.
LEMMA ToBuf ==
  ASSUME NEW r, NEW l, NEW b, NEW S, NEW T, NEW n, NEW b2, NEW X, Tidy(r, l, b, S, X, T, n),
         Single(b2), Names(b2) \subseteq Names(b) \cup X
  PROVE  Tidy(r, l, b2, S, {}, T, n)
BY DEF Tidy, Apart

\* To a process.
LEMMA ToSeen ==
  ASSUME NEW r, NEW l, NEW b, NEW S, NEW T, NEW n, NEW S2, NEW X, Tidy(r, l, b, S, X, T, n),
         S2 \ {0} \subseteq (S \ {0}) \cup X
  PROVE  Tidy(r, l, b, S2, {}, T, n)
BY DEF Tidy, Apart

\* Lost.
LEMMA ToNone ==
  ASSUME NEW r, NEW l, NEW b, NEW S, NEW T, NEW n, NEW X, Tidy(r, l, b, S, X, T, n)
  PROVE  Tidy(r, l, b, S, {}, T, n)
BY DEF Tidy, Apart

\* A process takes something over, or gives something away.
LEMMA Exchange ==
  ASSUME NEW r, NEW l, NEW b, NEW S, NEW T, NEW n, NEW X, Tidy(r, l, b, S, X, T, n),
         NEW U, NEW c \in Procs, NEW Y, Neat(U[c]), Mine(U[c]) \cup Y \subseteq Mine(T[c]) \cup X,
         Mine(U[c]) \cap Y = {},
         \A p \in Procs : p # c => U[p].got = T[p].got /\ U[p].hand = T[p].hand
  PROVE  Tidy(r, l, b, S, Y, U, n)
<1> DEFINE V == Holding(T)
           W == Holding(U)
<1>1. /\ \A p \in Procs : V[p] = Mine(T[p]) /\ W[p] = Mine(U[p])
  BY DEF Holding
<1>2. \A p \in Procs : p # c => Mine(U[p]) = Mine(T[p]) /\ (Neat(T[p]) => Neat(U[p]))
  BY DEF Mine, Neat, Hand
<1>3. \A p \in Procs : Neat(U[p])
  BY <1>2 DEF Tidy
<1>4. (\A p \in Procs : p # c => W[p] = V[p]) /\ W[c] \cup Y \subseteq V[c] \cup X /\ W[c] \cap Y = {}
  BY <1>1, <1>2
<1> HIDE DEF V, W
<1>5. Apart(Names(r), Names(l), Names(b), S \ {0}, X, V, n)
  BY DEF Tidy, V
<1>6. Apart(Names(r), Names(l), Names(b), S \ {0}, Y, W, n)
  BY <1>4, <1>5 DEF Apart
<1> QED
  BY <1>3, <1>6 DEF Tidy, W

\* Processes that are woken hold what they held.
LEMMA EasedTidy ==
  ASSUME NEW r, NEW l, NEW b, NEW S, NEW T, NEW n, NEW X, Tidy(r, l, b, S, X, T, n), NEW U,
         \A p \in Procs : U[p].got = T[p].got /\ U[p].hand = T[p].hand
  PROVE  Tidy(r, l, b, S, X, U, n)
<1>1. \A p \in Procs : Mine(U[p]) = Mine(T[p]) /\ (Neat(T[p]) => Neat(U[p]))
  BY DEF Mine, Neat, Hand
<1>2. Holding(U) = Holding(T)
  BY <1>1 DEF Holding
<1> QED
  BY <1>1, <1>2 DEF Tidy

\* A new byte.
LEMMA TypedTidy ==
  ASSUME NEW r, NEW l, NEW b, NEW S, NEW T, NEW n \in Nat, NEW r2, NEW l2, Tidy(r, l, b, S, {}, T, n),
         Single(r2), Single(l2),
         \/ Names(r2) \subseteq Names(r) \cup {n + 1} /\ l2 = l
         \/ Names(l2) \subseteq Names(l) \cup {n + 1} /\ r2 = r
  PROVE  Tidy(r2, l2, b, S, {}, T, n + 1)
<1>1. 1 .. n \subseteq 1 .. n + 1 /\ n + 1 \in 1 .. n + 1 /\ n + 1 \notin 1 .. n
  OBVIOUS
<1> DEFINE I == 1 .. n
           J == 1 .. n + 1
           x == n + 1
<1> HIDE DEF I, J, x
<1>2. I \subseteq J /\ x \in J /\ x \notin I
  BY <1>1 DEF I, J, x
<1>3. CASE Names(r2) \subseteq Names(r) \cup {x} /\ l2 = l
  BY <1>2, <1>3 DEF Tidy, Apart, I, J, x
<1>4. CASE Names(l2) \subseteq Names(l) \cup {x} /\ r2 = r
  BY <1>2, <1>4 DEF Tidy, Apart, I, J, x
<1> QED
  BY <1>3, <1>4 DEF x

\* tty_key(): the byte is on its way.
LEMMA KeyTidy ==
  ASSUME NEW k \in Kbds, NEW l \in Seq(Bytes), NEW b, NEW S, NEW T, NEW n,
         Tidy(k.ring, l, b, S, {}, T, n)
  PROVE  LET r == tty_key(k, l) IN Tidy(r.kbd.ring, r.line, b, S, {r.c.id} \ {0}, T, n)
<1> DEFINE r == tty_key(k, l)
<1>1. \/ Cut(r.c, k.ring, r.kbd.ring) /\ r.line = l
      \/ Cut(NoByte, k.ring, r.kbd.ring) /\ Cut(r.c, l, r.line)
  BY TtyKey
<1> HIDE DEF r
<1>2. k.ring \in Seq(Bytes) /\ Single(k.ring) /\ Single(l)
  BY DEF Kbds, Tidy
<1> DEFINE X == {r.c.id} \ {0}
<1>3. CASE Cut(r.c, k.ring, r.kbd.ring) /\ r.line = l
  <2>1. /\ Single(r.kbd.ring) /\ Names(r.kbd.ring) \subseteq Names(k.ring)
        /\ X \subseteq Names(k.ring) /\ Names(r.kbd.ring) \cap X = {}
    BY <1>2, <1>3, CutNames
  <2> HIDE DEF X
  <2>2. Tidy(r.kbd.ring, l, b, S, X, T, n)
    BY <2>1, FromRing
  <2> QED
    BY <1>3, <2>2 DEF X, r
<1>4. CASE Cut(NoByte, k.ring, r.kbd.ring) /\ Cut(r.c, l, r.line)
  <2>1. Single(r.kbd.ring) /\ Names(r.kbd.ring) \subseteq Names(k.ring)
    BY <1>2, <1>4, CutNames
  <2>2. Tidy(r.kbd.ring, l, b, S, {}, T, n)
    BY <2>1, FromRing
  <2>3. /\ Single(r.line) /\ Names(r.line) \subseteq Names(l)
        /\ X \subseteq Names(l) /\ Names(r.line) \cap X = {}
    BY <1>2, <1>4, CutNames
  <2> HIDE DEF X
  <2>4. Tidy(r.kbd.ring, r.line, b, S, X, T, n)
    BY <2>2, <2>3, FromLine
  <2> QED
    BY <2>4 DEF X, r
<1> QED
  BY <1>1, <1>3, <1>4

\* tty_put() of a byte that is not in the buffer.
LEMMA PutNames ==
  ASSUME NEW t, Kept(t), NEW c \in Bytes, Single(t.buf), c.id \notin Names(t.buf)
  PROVE  Single(tty_put(t, c).buf) /\ Names(tty_put(t, c).buf) \subseteq Names(t.buf) \cup ({c.id} \ {0})
<1>1. t \in Ttys /\ t.buf \in Seq(Bytes)
  BY DEF Kept, Ttys
<1> DEFINE b == Append(t.buf, c)
<1>2. Single(b) /\ Names(b) \subseteq Names(t.buf) \cup ({c.id} \ {0})
  BY <1>1, AppendNames
<1>3. tty_put(t, c) = IF Len(t.buf) + 1 >= kTtyBuf THEN t ELSE [t EXCEPT !.buf = b]
  BY DEF tty_put
<1> HIDE DEF b
<1>4. [t EXCEPT !.buf = b].buf = b
  BY <1>1 DEF Ttys
<1> QED
  BY <1>2, <1>3, <1>4

\* The buffer with the byte, or without it.
Input(t, b, c) == Single(b) /\ Names(b) \subseteq Names(t.buf) \cup ({c.id} \ {0})

\* tty_input() in every case.
LEMMA InputNames ==
  ASSUME NEW t, Kept(t), NEW c \in Bytes, Single(t.buf), c.id \notin Names(t.buf)
  PROVE  Input(t, tty_input(t, c).buf, c)
<1>1. t \in Ttys /\ t.buf \in Seq(Bytes) /\ Len(t.buf) \in Nat
  BY DEF Kept, Ttys
<1>2. Input(t, tty_drop(t).buf, c)
  <2>1. tty_drop(t).buf = <<>>
    BY <1>1 DEF tty_drop, Ttys
  <2>2. Single(<<>>) /\ Names(<<>>) = {}
    BY DEF Single, Names
  <2> QED
    BY <2>1, <2>2 DEF Input
<1>3. Input(t, t.buf, c)
  BY DEF Input
<1>4. Input(t, [t EXCEPT !.eof = TRUE].buf, c)
  <2>1. [t EXCEPT !.eof = TRUE].buf = t.buf
    BY <1>1 DEF Ttys
  <2> QED
    BY <1>3, <2>1
<1>5. ASSUME t.buf # <<>> PROVE Input(t, [t EXCEPT !.buf = Front(@)].buf, c)
  <2> DEFINE b == Front(t.buf)
  <2>1. Len(t.buf) - 1 \in Nat /\ 1 <= Len(t.buf) - 1 + 1 /\ Len(t.buf) - 1 <= Len(t.buf)
    BY <1>1, <1>5
  <2>2. Single(b) /\ Names(b) \subseteq Names(t.buf)
    BY <1>1, <2>1, PartNames DEF Front
  <2> HIDE DEF b
  <2>3. [t EXCEPT !.buf = b].buf = b
    BY <1>1 DEF Ttys
  <2>4. Input(t, [t EXCEPT !.buf = b].buf, c)
    BY <2>2, <2>3 DEF Input
  <2> QED
    BY <2>4 DEF b
<1>6. Input(t, (IF t.buf = <<>> THEN t ELSE [t EXCEPT !.buf = Front(@)]).buf, c)
  BY <1>3, <1>5, Zenon
<1>7. Input(t, tty_put(t, [c EXCEPT !.k = "nl"]).buf, c)
  <2> DEFINE d == [c EXCEPT !.k = "nl"]
  <2>1. d \in Bytes /\ d.id = c.id
    BY DEF Bytes, Kinds
  <2> HIDE DEF d
  <2>2. Single(tty_put(t, d).buf) /\ Names(tty_put(t, d).buf) \subseteq Names(t.buf) \cup ({d.id} \ {0})
    BY <2>1, PutNames
  <2>3. Input(t, tty_put(t, d).buf, c)
    BY <2>1, <2>2 DEF Input
  <2> QED
    BY <2>3 DEF d
<1>8. Input(t, tty_put(t, c).buf, c)
  BY PutNames DEF Input
<1> QED
  BY <1>2, <1>4, <1>6, <1>7, <1>8, Zenon DEF tty_input

\* Wherever it puts the byte.
LEMMA InputTidy ==
  ASSUME NEW t, Kept(t), NEW c \in Bytes, NEW r, NEW l, NEW S, NEW T, NEW n,
         Tidy(r, l, t.buf, S, {c.id} \ {0}, T, n)
  PROVE  Tidy(r, l, tty_input(t, c).buf, S, {}, T, n)
<1> DEFINE X == {c.id} \ {0}
<1>1. Single(t.buf) /\ Names(t.buf) \cap X = {}
  BY DEF Tidy, Apart
<1>2. c.id \notin Names(t.buf)
  BY <1>1 DEF Names
<1>3. Input(t, tty_input(t, c).buf, c)
  BY <1>1, <1>2, InputNames
<1>4. Single(tty_input(t, c).buf) /\ Names(tty_input(t, c).buf) \subseteq Names(t.buf) \cup X
  BY <1>3 DEF Input
<1> HIDE DEF X
<1>5. Tidy(r, l, t.buf, S, X, T, n)
  BY DEF X
<1> QED
  BY <1>4, <1>5, ToBuf

\* Processes that hold what they held.
Hold(T, U) == \A p \in Procs : U[p].got = T[p].got /\ U[p].hand = T[p].hand

\* Waking takes nothing away.
LEMMA EasedHold ==
  ASSUME NEW T, NEW U, AllEased(T, U)
  PROVE  Hold(T, U)
BY DEF AllEased, Eased, Same, Hold

\* tty_drain() as a tick runs it, one byte.
TidyLeft(x, S, n) == Tidy(x.kbd.ring, x.line, x.tty.buf, S, {}, x.tasks, n)

\* It stays tidy.
LEMMA TakingTidy ==
  ASSUME NEW k \in Kbds, NEW t, NEW T \in [Procs -> Tasks], NEW x \in Left(k, t, T),
         g_current \in Procs, NEW S, NEW n, TidyLeft(x, S, n)
  PROVE  TidyLeft(Taking(x), S, n)
<1> DEFINE r == tty_key(x.kbd, x.line)
<1>1. /\ x.kbd \in Kbds /\ x.line \in Seq(Bytes) /\ x.tty \in Ttys /\ x.tasks \in [Procs -> Tasks]
      /\ Kept(x.tty)
  BY LeftIs
<1>2. r.c \in Bytes
  BY <1>1, TtyKey
<1> DEFINE X == {r.c.id} \ {0}
<1>3. Tidy(r.kbd.ring, r.line, x.tty.buf, S, X, x.tasks, n)
  BY <1>1, KeyTidy DEF TidyLeft
<1> DEFINE y == tty_input(x.tty, r.c)
           U == IF Interrupts(x.tty, r.c) THEN signal_task(x.tasks, IntrTo(x.tty)) ELSE x.tasks
<1>4. Taking(x) = IF r.c = NoByte THEN [x EXCEPT !.kbd = r.kbd]
                  ELSE [kbd |-> r.kbd, line |-> r.line, tty |-> y, got |-> TRUE, tasks |-> U]
  BY DEF Taking
<1>5. Hold(x.tasks, U)
  <2>1. AllEased(x.tasks, signal_task(x.tasks, IntrTo(x.tty))) /\ AllEased(x.tasks, x.tasks)
    BY <1>1, IntrProc, Signal, EasedSame
  <2>2. AllEased(x.tasks, U)
    BY <2>1, Zenon
  <2> QED
    BY <2>2, EasedHold
<1>6. Tidy(r.kbd.ring, r.line, y.buf, S, {}, x.tasks, n)
  BY <1>1, <1>2, <1>3, InputTidy
<1>7. Tidy(r.kbd.ring, x.line, x.tty.buf, S, {}, x.tasks, n)
  <2>1. Cut(r.c, x.kbd.ring, r.kbd.ring) \/ Cut(NoByte, x.kbd.ring, r.kbd.ring)
    BY <1>1, TtyKey
  <2>2. x.kbd.ring \in Seq(Bytes) /\ Single(x.kbd.ring)
    BY <1>1 DEF Kbds, TidyLeft, Tidy
  <2>3. Single(r.kbd.ring) /\ Names(r.kbd.ring) \subseteq Names(x.kbd.ring)
    BY <2>1, <2>2, CutNames
  <2> QED
    BY <2>3, FromRing DEF TidyLeft
<1> HIDE DEF r, y, U, X
<1>8. CASE r.c = NoByte
  <2> DEFINE z == [x EXCEPT !.kbd = r.kbd]
  <2>1. Taking(x) = z
    BY <1>4, <1>8
  <2>2. x \in [kbd : Kbds, line : Seq(Bytes), tty : Ttys, tasks : [Procs -> Tasks], got : BOOLEAN]
    BY DEF Left
  <2>3. z.kbd = r.kbd /\ z.line = x.line /\ z.tty = x.tty /\ z.tasks = x.tasks
    BY <2>2
  <2> HIDE DEF z
  <2> QED
    BY <1>7, <2>1, <2>3 DEF TidyLeft
<1>9. CASE r.c # NoByte
  <2> DEFINE z == [kbd |-> r.kbd, line |-> r.line, tty |-> y, got |-> TRUE, tasks |-> U]
  <2>1. Taking(x) = z
    BY <1>4, <1>9
  <2>2. z.kbd = r.kbd /\ z.line = r.line /\ z.tty = y /\ z.tasks = U
    OBVIOUS
  <2> HIDE DEF z
  <2>3. Tidy(r.kbd.ring, r.line, y.buf, S, {}, U, n)
    BY <1>5, <1>6, EasedTidy DEF Hold
  <2> QED
    BY <2>1, <2>2, <2>3 DEF TidyLeft
<1> QED
  BY <1>8, <1>9

\* All of it.
LEMMA DrainedTidy ==
  ASSUME NEW k \in Kbds, NEW l \in Seq(Bytes), NEW t, Kept(t), NEW T \in [Procs -> Tasks],
         g_current \in Procs, NEW S, NEW n, Tidy(k.ring, l, t.buf, S, {}, T, n)
  PROVE  LET d == Drained(k, l, t, T) IN d \in Left(k, t, T) /\ TidyLeft(d, S, n)
<1> DEFINE a == Full(k, l, t, T)
           X == {x \in Left(k, t, T) : TidyLeft(x, S, n)}
<1>1. a.kbd = k /\ a.line = l /\ a.tty = t /\ a.tasks = T
  BY DEF Full
<1>2. TidyLeft(a, S, n)
  <2> HIDE DEF a
  <2> QED
    BY <1>1 DEF TidyLeft
<1>3. a \in Left(k, t, T)
  BY FullLeft
<1>4. ASSUME NEW x \in X PROVE Taking(x) \in X
  BY TakingLeft, TakingTidy
<1> HIDE DEF TidyLeft
<1>5. a \in X
  BY <1>2, <1>3
<1> HIDE DEF X
<1>6. Drained(k, l, t, T) \in X
  BY <1>4, <1>5, DrainedIn
<1> QED
  BY <1>6 DEF X

-----------------------------------------------------------------------------
(* Every step moves bytes.                                                 *)

\* The current process goes on with other bytes.
LEMMA GotoTidy ==
  ASSUME TtyInv, NEW r, NEW l, NEW b, NEW S, NEW X, NEW n, Tidy(r, l, b, S, X, g_tasks, n),
         NEW t, Goto(t), NEW Y, Neat(t), Mine(t) \cup Y \subseteq Mine(Me) \cup X, Mine(t) \cap Y = {}
  PROVE  Tidy(r, l, b, S, Y, g_tasks', n)
<1> DEFINE U == g_tasks'
           c == g_current
<1>1. c \in Procs /\ g_tasks \in [Procs -> Tasks]
  BY DEF TtyInv, AllSane
<1>2. U[c] = t /\ \A p \in Procs : p # c => U[p] = g_tasks[p]
  BY <1>1 DEF Goto
<1> HIDE DEF U
<1>3. Tidy(r, l, b, S, Y, U, n)
  BY <1>1, <1>2, Exchange DEF Me
<1> QED
  BY <1>3 DEF U

\* What Return() gives away.
LEMMA GivenNames ==
  ASSUME NEW s \in Seq(Bytes)
  PROVE  {b.id : b \in Range(s)} \ {0} = Names(s)
<1>1. DOMAIN s = 1 .. Len(s)
  OBVIOUS
<1> QED
  BY <1>1 DEF Range, Names

\* A call that ends: the process holds nothing any more.
LEMMA ReturnTidy ==
  ASSUME TtyInv, NEW r, NEW l, NEW b, NEW X, NEW n, Tidy(r, l, b, seen, X, g_tasks, n),
         NEW s \in Seq(Bytes), Return(s), Names(s) \subseteq Mine(Me) \cup X
  PROVE  Tidy(r, l, b, seen', {}, g_tasks', n)
<1> DEFINE t == [User EXCEPT !.state = "running", !.wake_pending = Me.wake_pending]
           Y == Names(s)
<1>1. Goto(t) /\ seen' = seen \cup {a.id : a \in Range(s)}
  BY DEF Return
<1>2. t.got = <<>> /\ t.hand.id = 0
  BY DEF User, NoByte, Byte
<1> HIDE DEF t
<1>3. Neat(t) /\ Mine(t) = {}
  BY <1>2 DEF Neat, Mine, Names, Single, Hand
<1> HIDE DEF Y
<1>4. Tidy(r, l, b, seen, Y, g_tasks', n)
  BY <1>1, <1>3, GotoTidy DEF Y
<1>5. seen' \ {0} \subseteq (seen \ {0}) \cup Y
  BY <1>1, GivenNames DEF Y
<1> QED
  BY <1>4, <1>5, ToSeen

\* Types of what the steps touch.
LEMMA Held ==
  ASSUME TtyInv
  PROVE  /\ kbd \in Kbds /\ kbd.ring \in Seq(Bytes) /\ line \in Seq(Bytes) /\ typed \in Nat
         /\ Kept(g_tty) /\ g_tty \in Ttys /\ g_tty.buf \in Seq(Bytes)
         /\ g_current \in Procs /\ g_tasks \in [Procs -> Tasks]
         /\ Me \in Tasks /\ Me = g_tasks[g_current]
         /\ Me.got \in Seq(Bytes) /\ Me.hand \in Bytes
<1>1. g_current \in Procs /\ g_tasks \in [Procs -> Tasks]
  BY DEF TtyInv, AllSane
<1>2. Me \in Tasks /\ Me = g_tasks[g_current]
  BY <1>1 DEF Me
<1>3. Me.got \in Seq(Bytes) /\ Me.hand \in Bytes
  BY <1>2, TaskFields
<1>4. kbd \in Kbds /\ line \in Seq(Bytes) /\ typed \in Nat /\ Kept(g_tty) /\ g_tty \in Ttys
  BY DEF TtyInv, Keyed, Ruled, Kept
<1>5. kbd.ring \in Seq(Bytes) /\ g_tty.buf \in Seq(Bytes)
  BY <1>4 DEF Kbds, Ttys
<1> QED
  BY <1>1, <1>2, <1>3, <1>4, <1>5

\* tty_take(): what it takes is on its way.
LEMMA TakenTidy ==
  ASSUME NEW y, Kept(y), NEW m \in Nat, NEW r, NEW l, NEW S, NEW T, NEW n,
         Tidy(r, l, y.buf, S, {}, T, n)
  PROVE  LET b == Taken(y, m) IN
         /\ b \in Seq(Bytes) /\ Single(b)
         /\ Tidy(r, l, Without(y, b).buf, S, Names(b), T, n)
<1> DEFINE b == Taken(y, m)
           k == IF Len(y.buf) < m THEN Len(y.buf) ELSE m
<1>1. y \in Ttys /\ y.buf \in Seq(Bytes) /\ Len(y.buf) \in Nat /\ Single(y.buf)
  BY DEF Kept, Ttys, Tidy
<1>2. b \in Seq(Bytes)
  BY TakenIs
<1>3. k \in Nat /\ k <= Len(y.buf) /\ 1 <= k + 1
  BY <1>1
<1>4. b = IF y.eof THEN <<>> ELSE SubSeq(y.buf, 1, k)
  BY DEF Taken
<1> HIDE DEF b, k
<1>5. /\ Len(b) \in Nat /\ Len(b) <= Len(y.buf) /\ Single(b) /\ Names(b) \subseteq Names(y.buf)
      /\ \A i \in 1 .. Len(b) : b[i] = y.buf[i]
  <2>1. CASE y.eof
    <3>1. b = <<>>
      BY <1>4, <2>1
    <3> QED
      BY <1>1, <3>1 DEF Single, Names
  <2>2. CASE ~y.eof
    <3>1. b = SubSeq(y.buf, 1, k)
      BY <1>4, <2>2
    <3>2. Single(b) /\ Names(b) \subseteq Names(y.buf)
      BY <1>1, <1>3, <3>1, PartNames
    <3>3. Len(b) = k /\ \A i \in 1 .. k : b[i] = y.buf[i]
      BY <1>1, <1>3, <3>1
    <3> QED
      BY <1>3, <3>2, <3>3
  <2> QED
    BY <2>1, <2>2
<1> DEFINE e == SubSeq(y.buf, Len(b) + 1, Len(y.buf))
<1>6. /\ Single(e) /\ Names(e) \subseteq Names(y.buf)
      /\ \A i \in 1 .. Len(y.buf) : i < Len(b) + 1 \/ Len(y.buf) < i => y.buf[i].id \notin Names(e)
  <2>1. Len(b) + 1 \in Nat \ {0} /\ Len(b) + 1 <= Len(y.buf) + 1
    BY <1>1, <1>5
  <2> QED
    BY <1>1, <2>1, PartNames
<1>7. Without(y, b).buf = e
  BY <1>1 DEF Without, Ttys
<1> HIDE DEF e
<1>8. Names(e) \cap Names(b) = {}
  <2> SUFFICES ASSUME NEW x \in Names(b), x \in Names(e) PROVE FALSE
    OBVIOUS
  <2>1. PICK i \in 1 .. Len(b) : x = b[i].id
    BY DEF Names
  <2>2. i \in 1 .. Len(y.buf) /\ i < Len(b) + 1 /\ x = y.buf[i].id
    BY <1>1, <1>5, <2>1
  <2> QED
    BY <1>6, <2>2
<1>9. Tidy(r, l, e, S, Names(b), T, n)
  BY <1>5, <1>6, <1>8, FromBuf
<1> QED
  BY <1>2, <1>5, <1>7, <1>9 DEF b

\* One round of dev_tty_rd().
LEMMA TakeTidy ==
  ASSUME TtyInv, OnceInv, Take
  PROVE  OnceInv'
<1> DEFINE b == Taken(g_tty, Me.len - Len(Me.got))
           got == Me.got \o b
           ends == {n \in DOMAIN got : got[n].k = "nl"}
           rest == Without(g_tty, b)
           u == [Me EXCEPT !.pc = "drain", !.got = got]
           X == Names(b)
<1>1. At("take") /\ UNCHANGED <<kbd, line, g_wait, g_current, typed>>
  BY DEF Take
<1>2. /\ \/ Return(got) \/ (ends # {} /\ Return(SubSeq(got, 1, Min(ends))))
         \/ Goto(u) /\ seen' = seen
      /\ g_tty' = rest \/ g_tty' = [rest EXCEPT !.eof = FALSE]
  BY DEF Take, Without
<1>3. /\ Kept(g_tty) /\ g_tty \in Ttys /\ Me \in Tasks /\ Me.got \in Seq(Bytes) /\ Len(Me.got) \in Nat
      /\ Me.len \in Nat /\ Len(Me.got) <= Me.len /\ g_current \in Procs /\ Me = g_tasks[g_current]
  BY <1>1, Held, Here, TaskFields DEF Sane
<1>4. Me.len - Len(Me.got) \in Nat
  BY <1>3
<1>5. b \in Seq(Bytes) /\ Single(b) /\ Tidy(kbd.ring, line, rest.buf, seen, X, g_tasks, typed)
  BY <1>3, <1>4, TakenTidy DEF OnceInv
<1>6. Kept(rest) /\ Kept(g_tty')
  BY <1>2, <1>3, <1>4, TakenIs, NoEof
<1> HIDE DEF b, rest
<1>7. g_tty'.buf = rest.buf
  <2>1. rest \in Ttys
    BY <1>6 DEF Kept
  <2>2. [rest EXCEPT !.eof = FALSE].buf = rest.buf
    BY <2>1 DEF Ttys
  <2> QED
    BY <1>2, <2>2
<1>8. Neat(Me) /\ Mine(Me) \cap X = {}
  <2>1. Holding(g_tasks)[g_current] = Mine(Me)
    BY <1>3 DEF Holding
  <2> QED
    BY <1>3, <1>5, <2>1 DEF Tidy, Apart
<1>9. got \in Seq(Bytes) /\ Single(got) /\ Names(got) \subseteq Names(Me.got) \cup X
  <2>1. Single(Me.got) /\ Names(Me.got) \cap Names(b) = {}
    BY <1>8 DEF Neat, Mine
  <2> QED
    BY <1>3, <1>5, <2>1, ConcatNames
<1>10. Names(got) \subseteq Mine(Me) \cup X
  BY <1>9 DEF Mine
<1> HIDE DEF got, X
<1>11. CASE Return(got)
  <2>1. Tidy(kbd.ring, line, rest.buf, seen', {}, g_tasks', typed)
    BY <1>5, <1>9, <1>10, <1>11, ReturnTidy
  <2> QED
    BY <1>1, <1>7, <2>1 DEF OnceInv
<1>12. CASE ends # {} /\ Return(SubSeq(got, 1, Min(ends)))
  <2> DEFINE m == Min(ends)
             s == SubSeq(got, 1, m)
  <2>1. ends \subseteq 1 .. Len(got) /\ ends \subseteq Nat /\ Len(got) \in Nat
    BY <1>9
  <2>2. m \in ends
    BY <1>12, <2>1, MinIn
  <2> HIDE DEF ends, m
  <2>3. m \in Nat /\ m <= Len(got) /\ 1 <= m + 1
    BY <2>1, <2>2
  <2>4. s \in Seq(Bytes) /\ Names(s) \subseteq Names(got)
    <3>1. s \in Seq(Bytes)
      BY <1>9, <2>3, PartOf
    <3>2. Names(s) \subseteq Names(got)
      BY <1>9, <2>3, PartNames
    <3> QED
      BY <3>1, <3>2
  <2>5. Return(s)
    BY <1>12 DEF m
  <2> HIDE DEF s
  <2>6. Tidy(kbd.ring, line, rest.buf, seen', {}, g_tasks', typed)
    BY <1>5, <1>10, <2>4, <2>5, ReturnTidy
  <2> QED
    BY <1>1, <1>7, <2>6 DEF OnceInv
<1>13. CASE Goto(u) /\ seen' = seen
  <2>1. u.got = got /\ u.hand = Me.hand
    BY <1>3 DEF Tasks
  <2> HIDE DEF u
  <2>2. Mine(u) \subseteq Mine(Me) \cup X /\ Neat(u)
    BY <1>8, <1>9, <2>1 DEF Mine, Neat, Hand
  <2>3. Tidy(kbd.ring, line, rest.buf, seen, {}, g_tasks', typed)
    BY <1>5, <1>13, <2>2, GotoTidy
  <2> QED
    BY <1>1, <1>7, <1>13, <2>3 DEF OnceInv
<1> QED
  BY <1>2, <1>11, <1>12, <1>13

\* One more byte, or the end of tty_drain().
LEMMA DrainKeyTidy ==
  ASSUME TtyInv, OnceInv, DrainKey
  PROVE  OnceInv'
<1> DEFINE r == tty_key(kbd, line)
           c == g_current
           X == {r.c.id} \ {0}
<1>1. /\ At("drain") /\ kbd' = r.kbd /\ line' = r.line
      /\ g_tty' = g_tty /\ g_current' = g_current /\ typed' = typed /\ seen' = seen
  BY DEF DrainKey
<1>2. /\ kbd \in Kbds /\ line \in Seq(Bytes) /\ Me \in Tasks /\ c \in Procs /\ g_tasks \in [Procs -> Tasks]
      /\ Me = g_tasks[c]
  BY Held
<1>3. Tidy(r.kbd.ring, r.line, g_tty.buf, seen, X, g_tasks, typed)
  BY <1>2, KeyTidy DEF OnceInv
<1>4. CASE r.c # NoByte
  <2> DEFINE u == [Me EXCEPT !.pc = "input", !.hand = r.c]
  <2>1. Goto(u)
    BY <1>4 DEF DrainKey
  <2>2. u.got = Me.got /\ u.hand = r.c
    BY <1>2 DEF Tasks
  <2>3. Neat(Me) /\ Mine(Me) \cap X = {}
    <3>1. Holding(g_tasks)[c] = Mine(Me)
      BY <1>2 DEF Holding
    <3> QED
      BY <1>2, <1>3, <3>1 DEF Tidy, Apart
  <2> HIDE DEF u, r
  <2>4. Neat(u) /\ Mine(u) \subseteq Mine(Me) \cup X
    BY <2>2, <2>3 DEF Neat, Mine, Hand
  <2> HIDE DEF X
  <2>5. Tidy(r.kbd.ring, r.line, g_tty.buf, seen, {}, g_tasks', typed)
    BY <1>3, <2>1, <2>4, GotoTidy
  <2> QED
    BY <1>1, <2>5 DEF OnceInv
<1>5. CASE r.c = NoByte
  <2> DEFINE U == IF Me.drained THEN wake(g_tasks) ELSE g_tasks
             x == IF Something(g_tty) THEN "take" ELSE "key"
  <2>1. g_tasks' = [U EXCEPT ![c].pc = x, ![c].drained = FALSE]
    BY <1>5 DEF DrainKey
  <2>2. Hold(g_tasks, U) /\ U \in [Procs -> Tasks]
    <3>1. g_wait \in [Slots -> 0 .. kProcs]
      BY DEF TtyInv, Ruled
    <3>2. AllEased(g_tasks, wake(g_tasks)) /\ AllEased(g_tasks, g_tasks)
      BY <1>2, <3>1, Wake, EasedSame
    <3>3. AllEased(g_tasks, U)
      BY <3>2, Zenon
    <3> QED
      BY <3>3, EasedHold DEF AllEased
  <2> HIDE DEF U, x
  <2>3. Hold(U, g_tasks')
    <3> DEFINE V == [U EXCEPT ![c].pc = x, ![c].drained = FALSE]
               w == [U[c] EXCEPT !.pc = x, !.drained = FALSE]
    <3>1. V = [U EXCEPT ![c] = w]
      BY <1>2, <2>2, TwoFields
    <3>2. U[c] \in Tasks
      BY <1>2, <2>2
    <3>3. w.got = U[c].got /\ w.hand = U[c].hand
      BY <3>2 DEF Tasks
    <3> HIDE DEF w
    <3>4. \A p \in Procs : V[p] = IF p = c THEN w ELSE U[p]
      BY <1>2, <2>2, <3>1
    <3> HIDE DEF V
    <3>5. Hold(U, V)
      BY <3>3, <3>4 DEF Hold
    <3> QED
      BY <2>1, <3>5 DEF V
  <2> HIDE DEF r, X
  <2>4. Hold(g_tasks, g_tasks')
    BY <2>2, <2>3 DEF Hold
  <2>5. Tidy(r.kbd.ring, r.line, g_tty.buf, seen, {}, g_tasks, typed)
    BY <1>3, ToNone
  <2>6. Tidy(r.kbd.ring, r.line, g_tty.buf, seen, {}, g_tasks', typed)
    BY <2>4, <2>5, EasedTidy DEF Hold
  <2> QED
    BY <1>1, <2>6 DEF OnceInv
<1> QED
  BY <1>4, <1>5

\* A byte goes from the reader's hand into the discipline.
LEMMA DrainInputTidy ==
  ASSUME TtyInv, OnceInv, DrainInput
  PROVE  OnceInv'
<1> DEFINE c == g_current
           h == Me.hand
           U == IF Interrupts(g_tty, h) THEN signal_task(g_tasks, IntrTo(g_tty)) ELSE g_tasks
           V == [U EXCEPT ![c].pc = "drain", ![c].hand = NoByte, ![c].drained = TRUE]
           X == {h.id} \ {0}
<1>1. /\ g_tty' = tty_input(g_tty, h) /\ g_tasks' = V
      /\ UNCHANGED <<kbd, line, g_wait, g_current, typed, seen>>
  BY DEF DrainInput
<1>2. /\ Kept(g_tty) /\ g_tty \in Ttys /\ c \in Procs /\ g_tasks \in [Procs -> Tasks]
      /\ Me = g_tasks[c] /\ h \in Bytes
  BY Held
<1>3. Hold(g_tasks, U) /\ U \in [Procs -> Tasks]
  <2>1. AllEased(g_tasks, signal_task(g_tasks, IntrTo(g_tty))) /\ AllEased(g_tasks, g_tasks)
    BY <1>2, IntrProc, Signal, EasedSame
  <2>2. AllEased(g_tasks, U)
    BY <2>1, Zenon
  <2> QED
    BY <2>2, EasedHold DEF AllEased
<1> HIDE DEF U
<1> DEFINE w == [U[c] EXCEPT !.pc = "drain", !.hand = NoByte, !.drained = TRUE]
<1>4. V = [U EXCEPT ![c] = w]
  BY <1>2, <1>3, ThreeFields
<1>5. w.got = Me.got /\ w.hand.id = 0
  <2>1. U[c] \in Tasks /\ U[c].got = Me.got
    BY <1>2, <1>3 DEF Hold
  <2>2. w.got = U[c].got /\ w.hand = NoByte
    BY <2>1 DEF Tasks
  <2> QED
    BY <2>1, <2>2 DEF NoByte, Byte
<1> HIDE DEF w
<1>6. V[c] = w /\ \A p \in Procs : p # c => V[p] = U[p]
  BY <1>2, <1>3, <1>4
<1>7. \A p \in Procs : p # c => V[p].got = g_tasks[p].got /\ V[p].hand = g_tasks[p].hand
  BY <1>3, <1>6 DEF Hold
<1> HIDE DEF V
<1>8. Neat(g_tasks[c])
  BY <1>2 DEF OnceInv, Tidy
<1>9. Neat(V[c]) /\ Mine(V[c]) \cup X \subseteq Mine(g_tasks[c]) \cup {} /\ Mine(V[c]) \cap X = {}
  BY <1>2, <1>5, <1>6, <1>8 DEF Neat, Mine, Hand
<1>10. Tidy(kbd.ring, line, g_tty.buf, seen, X, V, typed)
  <2>1. Tidy(kbd.ring, line, g_tty.buf, seen, {}, g_tasks, typed)
    BY DEF OnceInv
  <2> HIDE DEF X
  <2> QED
    BY <1>2, <1>7, <1>9, <2>1, Exchange
<1>11. Tidy(kbd.ring, line, tty_input(g_tty, h).buf, seen, {}, V, typed)
  BY <1>2, <1>10, InputTidy
<1> QED
  BY <1>1, <1>11 DEF OnceInv

\* A process that goes on with the bytes it has.
LEMMA Plainly ==
  ASSUME TtyInv, NEW t, Goto(t), t.got = Me.got, t.hand = Me.hand
  PROVE  Hold(g_tasks, g_tasks')
<1> DEFINE c == g_current
           V == g_tasks'
<1>1. c \in Procs /\ g_tasks \in [Procs -> Tasks] /\ Me = g_tasks[c]
  BY Held
<1>2. V[c] = t /\ \A p \in Procs : p # c => V[p] = g_tasks[p]
  BY <1>1 DEF Goto
<1> HIDE DEF V
<1>3. Hold(g_tasks, V)
  BY <1>1, <1>2 DEF Hold
<1> QED
  BY <1>3 DEF V

\* tty_key(true): the byte is lost.
LEMMA KeyOrWaitTidy ==
  ASSUME TtyInv, OnceInv, KeyOrWait
  PROVE  OnceInv'
<1> DEFINE r == tty_key(kbd, line)
           x == IF r.c # NoByte THEN "take" ELSE "wait"
           u == [Me EXCEPT !.pc = x]
           X == {r.c.id} \ {0}
<1>1. /\ kbd' = r.kbd /\ line' = r.line /\ Goto(u)
      /\ g_tty' = g_tty /\ typed' = typed /\ seen' = seen
  BY DEF KeyOrWait
<1>2. kbd \in Kbds /\ line \in Seq(Bytes) /\ Me \in Tasks
  BY Held
<1>3. Tidy(r.kbd.ring, r.line, g_tty.buf, seen, X, g_tasks, typed)
  BY <1>2, KeyTidy DEF OnceInv
<1> HIDE DEF r, X, x
<1>4. u.got = Me.got /\ u.hand = Me.hand
  BY <1>2 DEF Tasks
<1> HIDE DEF u
<1>5. Hold(g_tasks, g_tasks')
  BY <1>1, <1>4, Plainly
<1>6. Tidy(r.kbd.ring, r.line, g_tty.buf, seen, {}, g_tasks, typed)
  BY <1>3, ToNone
<1>7. Tidy(r.kbd.ring, r.line, g_tty.buf, seen, {}, g_tasks', typed)
  BY <1>5, <1>6, EasedTidy DEF Hold
<1> QED
  BY <1>1, <1>7 DEF OnceInv

\* dev_kbd_rd().
LEMMA PollKeyTidy ==
  ASSUME TtyInv, OnceInv, PollKey
  PROVE  OnceInv'
<1> DEFINE h == Head(kbd.ring)
           m == poll([ctrl |-> kbd.ctrl, ext |-> kbd.ext], h.k)
           u == [Me EXCEPT !.pc = "wait"]
           k2 == [kbd EXCEPT !.ring = Tail(@), !.ctrl = m.ctrl, !.ext = m.ext]
           d == Byte(m.key, h.id)
<1>1. /\ UNCHANGED <<line, g_tty, g_wait, g_current, typed>>
      /\ \/ kbd.ring = <<>> /\ kbd' = kbd /\ Goto(u) /\ seen' = seen
         \/ kbd.ring # <<>> /\ kbd' = k2 /\ ((Goto(u) /\ seen' = seen) \/ Return(<<d>>))
  BY DEF PollKey
<1>2. kbd \in Kbds /\ kbd.ring \in Seq(Bytes) /\ Me \in Tasks
  BY Held
<1>3. u.got = Me.got /\ u.hand = Me.hand
  BY <1>2 DEF Tasks
<1> HIDE DEF u
<1>4. Goto(u) => Hold(g_tasks, g_tasks')
  BY <1>3, Plainly
<1>5. CASE kbd.ring = <<>> /\ kbd' = kbd /\ Goto(u) /\ seen' = seen
  <2>1. Tidy(kbd.ring, line, g_tty.buf, seen, {}, g_tasks', typed)
    BY <1>4, <1>5, EasedTidy DEF OnceInv, Hold
  <2> QED
    BY <1>1, <1>5, <2>1 DEF OnceInv
<1>6. CASE kbd.ring # <<>> /\ kbd' = k2 /\ ((Goto(u) /\ seen' = seen) \/ Return(<<d>>))
  <2> DEFINE X == {h.id} \ {0}
             e == Tail(kbd.ring)
  <2>1. k2.ring = e
    BY <1>2 DEF Kbds
  <2>2. Single(kbd.ring)
    BY DEF OnceInv, Tidy
  <2>3. Cut(h, kbd.ring, e)
    BY <1>2, <1>6, HeadCut
  <2>4. Single(e) /\ Names(e) \subseteq Names(kbd.ring) /\ X \subseteq Names(kbd.ring) /\ Names(e) \cap X = {}
    BY <1>2, <2>2, <2>3, CutNames
  <2>5. h \in Bytes /\ h.k \in Kinds /\ h.id \in Nat
    <3>1. h \in Bytes
      BY <1>2, <1>6
    <3> QED
      BY <3>1 DEF Bytes
  <2>6. d \in Bytes /\ d.id = h.id
    <3> DEFINE z == [ctrl |-> kbd.ctrl, ext |-> kbd.ext]
    <3>1. z.ctrl \in BOOLEAN /\ z.ext \in BOOLEAN
      BY <1>2 DEF Kbds
    <3> HIDE DEF z
    <3>2. poll(z, h.k) \in Keys
      BY <2>5, <3>1, PollOne
    <3>3. m \in Keys
      BY <3>2 DEF z
    <3> HIDE DEF m
    <3>4. m.key \in Kinds
      BY <3>3 DEF Keys
    <3> QED
      BY <2>5, <3>4, ByteFacts DEF Byte
  <2> HIDE DEF X, e, d, k2
  <2>7. Tidy(e, line, g_tty.buf, seen, X, g_tasks, typed)
    BY <2>4, FromRing DEF OnceInv
  <2>8. CASE Goto(u) /\ seen' = seen
    <3>1. Tidy(e, line, g_tty.buf, seen, {}, g_tasks, typed)
      BY <2>7, ToNone
    <3>2. Tidy(e, line, g_tty.buf, seen, {}, g_tasks', typed)
      BY <1>4, <2>8, <3>1, EasedTidy DEF Hold
    <3> QED
      BY <1>1, <1>6, <2>1, <2>8, <3>2 DEF OnceInv
  <2>9. CASE Return(<<d>>)
    <3> DEFINE s == <<d>>
    <3>1. s \in Seq(Bytes) /\ Len(s) = 1 /\ s[1] = d
      BY <2>6
    <3> HIDE DEF s
    <3>2. Names(s) \subseteq Mine(Me) \cup X
      BY <2>6, <3>1 DEF Names, X
    <3>3. Tidy(e, line, g_tty.buf, seen', {}, g_tasks', typed)
      BY <2>7, <2>9, <3>1, <3>2, ReturnTidy DEF s
    <3> QED
      BY <1>1, <1>6, <2>1, <3>3 DEF OnceInv
  <2> QED
    BY <1>6, <2>8, <2>9
<1> QED
  BY <1>1, <1>5, <1>6

\* poll() moves g_tail past the scancode it read: that one is on its way.
LEMMA PollMoveTidy ==
  ASSUME TtyInv, PollInv, OnceInv, PollMove, ~torn'
  PROVE  OnceInv'
<1> DEFINE h == half.sc
           m == poll([ctrl |-> kbd.ctrl, ext |-> kbd.ext], h.k)
           b == IF m.key = "up" /\ half.at # "poll" THEN Nul ELSE Byte(m.key, h.id)
           x == IF half.at # "poll" /\ m.key = "none" THEN half.at
                ELSE CASE half.at = "poll" -> "wait"
                       [] half.at = "drain" -> "input"
                       [] half.at = "key" -> "take"
           hd == IF half.at = "drain" /\ m.key # "none" THEN b ELSE Me.hand
           u == [Me EXCEPT !.pc = x, !.hand = hd]
           e == Tail(kbd.ring)
           X == {h.id} \ {0}
<1>1. /\ UNCHANGED <<line, g_tty, g_wait, g_current, typed>>
      /\ kbd.ring # <<>> /\ Head(kbd.ring) = h /\ kbd'.ring = e
      /\ Return(<<b>>) \/ (Goto(u) /\ seen' = seen)
  BY DEF PollMove
<1>2. kbd \in Kbds /\ kbd.ring \in Seq(Bytes) /\ Me \in Tasks
  BY Held
<1>3. h.id \in Nat /\ m.key \in Kinds
  BY PollMade DEF Keys
<1> HIDE DEF m
<1>4. b \in Bytes /\ {b.id} \ {0} \subseteq X
  <2>1. Nul \in Bytes /\ Byte(m.key, h.id) \in Bytes
    BY <1>3, ByteFacts
  <2>2. Nul.id = 0 /\ Byte(m.key, h.id).id = h.id
    BY DEF Nul, Byte
  <2> QED
    BY <2>1, <2>2
<1> HIDE DEF b
<1>5. Single(kbd.ring)
  BY DEF OnceInv, Tidy
<1>6. Cut(h, kbd.ring, e)
  BY <1>1, <1>2, HeadCut
<1>7. Single(e) /\ Names(e) \subseteq Names(kbd.ring) /\ X \subseteq Names(kbd.ring) /\ Names(e) \cap X = {}
  BY <1>2, <1>5, <1>6, CutNames
<1> HIDE DEF X, e, h
<1>8. Tidy(e, line, g_tty.buf, seen, X, g_tasks, typed)
  BY <1>7, FromRing DEF OnceInv
<1>9. CASE Return(<<b>>)
  <2> DEFINE s == <<b>>
  <2>1. s \in Seq(Bytes) /\ Len(s) = 1 /\ s[1] = b
    BY <1>4
  <2> HIDE DEF s
  <2>2. Names(s) \subseteq Mine(Me) \cup X
    BY <1>4, <2>1 DEF Names
  <2>3. Tidy(e, line, g_tty.buf, seen', {}, g_tasks', typed)
    BY <1>8, <1>9, <2>1, <2>2, ReturnTidy DEF s
  <2> QED
    BY <1>1, <2>3 DEF OnceInv
<1>10. CASE Goto(u) /\ seen' = seen
  <2> HIDE DEF x
  <2>1. u.got = Me.got /\ u.hand = hd
    BY <1>2 DEF Tasks
  <2> HIDE DEF u
  <2>2. Neat(Me) /\ Mine(Me) \cap X = {}
    <3>1. Holding(g_tasks)[g_current] = Mine(Me) /\ Me = g_tasks[g_current] /\ g_current \in Procs
      BY Held DEF Holding
    <3> QED
      BY <1>8, <3>1 DEF Tidy, Apart
  <2>3. Hand(u) \subseteq Hand(Me) \/ Hand(u) \subseteq X
    BY <1>4, <2>1 DEF Hand
  <2>4. Neat(u) /\ Mine(u) \subseteq Mine(Me) \cup X
    BY <2>1, <2>2, <2>3 DEF Neat, Mine
  <2>5. Tidy(e, line, g_tty.buf, seen, {}, g_tasks', typed)
    BY <1>8, <1>10, <2>4, GotoTidy
  <2> QED
    BY <1>1, <1>10, <2>5 DEF OnceInv
<1> QED
  BY <1>1, <1>9, <1>10

\* dev_console_rd().
LEMMA ReadConsoleTidy ==
  ASSUME TtyInv, OnceInv, NEW len \in Nat, ReadConsole(len)
  PROVE  OnceInv'
<1> DEFINE b == Taken(g_tty, len)
           X == Names(b)
           rest == Without(g_tty, b)
<1>1. g_tty' = rest /\ Return(b) /\ UNCHANGED <<kbd, line, g_wait, g_current, typed>>
  BY DEF ReadConsole, Without
<1>2. Kept(g_tty)
  BY Held
<1>3. b \in Seq(Bytes) /\ Tidy(kbd.ring, line, rest.buf, seen, X, g_tasks, typed)
  BY <1>2, TakenTidy DEF OnceInv
<1> HIDE DEF b, rest
<1>4. Tidy(kbd.ring, line, rest.buf, seen', {}, g_tasks', typed)
  BY <1>1, <1>3, ReturnTidy
<1> QED
  BY <1>1, <1>4 DEF OnceInv

\* dev_serial_rd().
LEMMA ReadSerialTidy ==
  ASSUME TtyInv, OnceInv, ReadSerial
  PROVE  OnceInv'
<1> DEFINE h == Head(line)
           e == Tail(line)
           s == <<h>>
           X == {h.id} \ {0}
<1>1. line # <<>> /\ line' = e /\ Return(s) /\ UNCHANGED <<kbd, g_tty, g_wait, g_current, typed>>
  BY DEF ReadSerial
<1>2. line \in Seq(Bytes) /\ Single(line)
  BY Held DEF OnceInv, Tidy
<1>3. Cut(h, line, e) /\ h \in Bytes
  BY <1>1, <1>2, HeadCut
<1>4. Single(e) /\ Names(e) \subseteq Names(line) /\ X \subseteq Names(line) /\ Names(e) \cap X = {}
  BY <1>2, <1>3, CutNames
<1> HIDE DEF h, e
<1>5. s \in Seq(Bytes) /\ Len(s) = 1 /\ s[1] = h
  BY <1>3
<1> HIDE DEF s
<1>6. Names(s) \subseteq Mine(Me) \cup X
  BY <1>5 DEF Names
<1> HIDE DEF X
<1>7. Tidy(kbd.ring, e, g_tty.buf, seen, X, g_tasks, typed)
  BY <1>4, FromLine DEF OnceInv
<1>8. Tidy(kbd.ring, e, g_tty.buf, seen', {}, g_tasks', typed)
  BY <1>1, <1>5, <1>6, <1>7, ReturnTidy
<1> QED
  BY <1>1, <1>8 DEF OnceInv

\* A step that moves no bytes.
LEMMA StillTidy ==
  ASSUME OnceInv, Hold(g_tasks, g_tasks'), kbd' = kbd, line' = line, g_tty'.buf = g_tty.buf,
         typed' = typed, seen' = seen
  PROVE  OnceInv'
<1>1. Tidy(kbd.ring, line, g_tty.buf, seen, {}, g_tasks', typed)
  BY EasedTidy DEF OnceInv, Hold
<1> QED
  BY <1>1 DEF OnceInv

\* read() begins, poll() reads a scancode, and the steps of kbd::wait().
LEMMA WaitTidy ==
  ASSUME TtyInv, OnceInv,
         \/ \E dev \in {"tty", "kbd"} : \E len \in Nat : Read(dev, len)
         \/ WaitClaim \/ WaitLook \/ Block \/ Awake \/ PollRead
  PROVE  OnceInv'
<1>1. Me \in Tasks
  BY Held
<1>2. kbd' = kbd /\ line' = line /\ g_tty' = g_tty /\ typed' = typed /\ seen' = seen
  BY DEF Read, WaitClaim, WaitLook, Block, Awake, PollRead
<1>3. CASE \E dev \in {"tty", "kbd"} : \E len \in Nat : Read(dev, len)
  <2>1. PICK dev \in {"tty", "kbd"}, len \in Nat : Read(dev, len)
    BY <1>3
  <2> DEFINE t == [Me EXCEPT !.pc = IF dev = "tty" THEN "take" ELSE "poll", !.dev = dev, !.len = len,
                             !.canon = Canon(g_tty)]
  <2>2. Goto(t)
    BY <2>1 DEF Read
  <2>3. t.got = Me.got /\ t.hand = Me.hand
    BY <1>1 DEF Tasks
  <2> HIDE DEF t
  <2> QED
    BY <1>2, <2>2, <2>3, Plainly, StillTidy
<1>4. ASSUME NEW x, Goto([Me EXCEPT !.pc = x]) PROVE OnceInv'
  <2> DEFINE t == [Me EXCEPT !.pc = x]
  <2>1. t.got = Me.got /\ t.hand = Me.hand
    BY <1>1 DEF Tasks
  <2> HIDE DEF t
  <2>2. Goto(t)
    BY <1>4 DEF t
  <2> QED
    BY <1>2, <2>1, <2>2, Plainly, StillTidy
<1>5. ASSUME NEW w, Unclaim(w) PROVE OnceInv'
  <2> DEFINE t == [Me EXCEPT !.pc = IF Me.dev = "tty" THEN "take" ELSE "poll", !.wake_pending = w]
  <2>1. Goto(t)
    BY <1>5 DEF Unclaim
  <2>2. t.got = Me.got /\ t.hand = Me.hand
    BY <1>1 DEF Tasks
  <2> HIDE DEF t
  <2> QED
    BY <1>2, <2>1, <2>2, Plainly, StillTidy
<1>6. CASE WaitClaim
  BY <1>4, <1>6 DEF WaitClaim
<1>7. CASE WaitLook
  BY <1>4, <1>5, <1>7 DEF WaitLook
<1>8. CASE Block
  <2>1. CASE Me.wake_pending
    BY <1>5, <1>8, <2>1 DEF Block
  <2>2. CASE ~Me.wake_pending
    <3> DEFINE t == [Me EXCEPT !.state = "blocked", !.pc = "asleep", !.on = TRUE, !.again = Me.on]
    <3>1. Goto(t)
      BY <1>8, <2>2 DEF Block
    <3>2. t.got = Me.got /\ t.hand = Me.hand
      BY <1>1 DEF Tasks
    <3> HIDE DEF t
    <3> QED
      BY <1>2, <3>1, <3>2, Plainly, StillTidy
  <2> QED
    BY <2>1, <2>2
<1>9. CASE Awake
  BY <1>5, <1>9 DEF Awake
<1>10. CASE PollRead
  BY <1>4, <1>10 DEF PollRead
<1> QED
  BY <1>3, <1>6, <1>7, <1>8, <1>9, <1>10

\* The idle loop, and ioctl().
LEMMA UserTidy ==
  ASSUME TtyInv, OnceInv,
         \/ \E p \in Procs : Dispatch(p)
         \/ \E p \in Owners : SetOwner(p)
         \/ \E f \in Modes : SetFlags(f)
  PROVE  OnceInv'
<1>1. g_tty \in Ttys /\ g_tasks \in [Procs -> Tasks]
  BY Held
<1>2. Hold(g_tasks, g_tasks)
  BY DEF Hold
<1>3. CASE \E p \in Procs : Dispatch(p)
  <2>1. PICK p \in Procs : Dispatch(p)
    BY <1>3
  <2> DEFINE w == [g_tasks[p] EXCEPT !.state = "running"]
             V == g_tasks'
  <2>2. V = [g_tasks EXCEPT ![p] = w]
    BY <1>1, <2>1 DEF Dispatch
  <2>3. g_tasks[p] \in Tasks
    BY <1>1
  <2>4. w.got = g_tasks[p].got /\ w.hand = g_tasks[p].hand
    BY <2>3 DEF Tasks
  <2> HIDE DEF w, V
  <2>5. \A q \in Procs : V[q] = IF q = p THEN w ELSE g_tasks[q]
    BY <1>1, <2>2
  <2>6. Hold(g_tasks, V)
    BY <2>4, <2>5 DEF Hold
  <2> QED
    BY <2>1, <2>6, StillTidy DEF Dispatch, V
<1>4. CASE \E p \in Owners : SetOwner(p)
  <2>1. PICK p \in Owners : SetOwner(p)
    BY <1>4
  <2>2. g_tty'.buf = g_tty.buf
    BY <1>1, <2>1 DEF SetOwner, Ttys
  <2> QED
    BY <1>2, <2>1, <2>2, StillTidy DEF SetOwner
<1>5. CASE \E f \in Modes : SetFlags(f)
  <2>1. PICK f \in Modes : SetFlags(f)
    BY <1>5
  <2>2. g_tty'.buf = <<>>
    BY <1>1, <2>1 DEF SetFlags, Ttys, tty_drop
  <2>3. Single(<<>>) /\ Names(<<>>) = {}
    BY DEF Single, Names
  <2>4. Tidy(kbd.ring, line, <<>>, seen, {}, g_tasks, typed)
    BY <2>3, ToBuf DEF OnceInv
  <2> QED
    BY <2>1, <2>2, <2>4 DEF OnceInv, SetFlags
<1> QED
  BY <1>3, <1>4, <1>5

\* A new byte behind the others.
LEMMA NewNames ==
  ASSUME NEW s \in Seq(Bytes), Single(s), NEW n \in Nat, Names(s) \subseteq 1 .. n, NEW k \in Kinds
  PROVE  LET e == Append(s, Byte(k, n + 1)) IN Single(e) /\ Names(e) \subseteq Names(s) \cup {n + 1}
<1> DEFINE c == Byte(k, n + 1)
<1>1. c \in Bytes /\ c.id = n + 1
  BY ByteFacts DEF Byte
<1> HIDE DEF c
<1>2. c.id \notin Names(s)
  BY <1>1
<1>3. Single(Append(s, c)) /\ Names(Append(s, c)) \subseteq Names(s) \cup ({c.id} \ {0})
  BY <1>1, <1>2, AppendNames
<1>4. Single(Append(s, c)) /\ Names(Append(s, c)) \subseteq Names(s) \cup {n + 1}
  BY <1>1, <1>3
<1> QED
  BY <1>4 DEF c

\* irq_handler().
LEMMA TypeKeyTidy ==
  ASSUME TtyInv, OnceInv, NEW s \in Scans, Key(s)
  PROVE  OnceInv'
<1> DEFINE e == Append(kbd.ring, Byte(s, typed + 1))
<1>1. /\ typed' = typed + 1 /\ g_tasks' = wake(g_tasks) /\ UNCHANGED <<line, g_tty, g_current, seen>>
      /\ kbd' = kbd \/ kbd' = [kbd EXCEPT !.ring = e]
  BY DEF Key
<1>2. kbd \in Kbds /\ kbd.ring \in Seq(Bytes) /\ typed \in Nat /\ g_tasks \in [Procs -> Tasks]
  BY Held
<1>3. Single(kbd.ring) /\ Single(line) /\ Names(kbd.ring) \subseteq 1 .. typed
  BY DEF OnceInv, Tidy, Apart
<1>4. s \in Kinds
  BY TypedKinds
<1>5. Single(e) /\ Names(e) \subseteq Names(kbd.ring) \cup {typed + 1}
  BY <1>2, <1>3, <1>4, NewNames
<1> HIDE DEF e
<1>6. [kbd EXCEPT !.ring = e].ring = e
  BY <1>2 DEF Kbds
<1>7. Single(kbd'.ring) /\ Names(kbd'.ring) \subseteq Names(kbd.ring) \cup {typed + 1}
  BY <1>1, <1>3, <1>5, <1>6
<1>8. Tidy(kbd'.ring, line, g_tty.buf, seen, {}, g_tasks, typed + 1)
  BY <1>2, <1>3, <1>7, TypedTidy DEF OnceInv
<1>9. Hold(g_tasks, g_tasks')
  <2>1. g_wait \in [Slots -> 0 .. kProcs]
    BY DEF TtyInv, Ruled
  <2>2. AllEased(g_tasks, g_tasks')
    BY <1>1, <1>2, <2>1, Wake
  <2> QED
    BY <2>2, EasedHold
<1>10. Tidy(kbd'.ring, line, g_tty.buf, seen, {}, g_tasks', typed + 1)
  BY <1>8, <1>9, EasedTidy DEF Hold
<1> QED
  BY <1>1, <1>10 DEF OnceInv

\* A byte on the serial line.
LEMMA ReceiveTidy ==
  ASSUME TtyInv, OnceInv, NEW k \in Chars, Receive(k)
  PROVE  OnceInv'
<1> DEFINE e == Append(line, Byte(k, typed + 1))
<1>1. typed' = typed + 1 /\ line' = e /\ UNCHANGED <<kbd, g_tty, g_wait, g_tasks, g_current, seen>>
  BY DEF Receive
<1>2. line \in Seq(Bytes) /\ typed \in Nat
  BY Held
<1>3. Single(kbd.ring) /\ Single(line) /\ Names(line) \subseteq 1 .. typed
  BY DEF OnceInv, Tidy, Apart
<1>4. k \in Kinds
  BY TypedKinds
<1>5. Single(e) /\ Names(e) \subseteq Names(line) \cup {typed + 1}
  BY <1>2, <1>3, <1>4, NewNames
<1> HIDE DEF e
<1>6. Tidy(kbd.ring, e, g_tty.buf, seen, {}, g_tasks, typed + 1)
  BY <1>2, <1>3, <1>5, TypedTidy DEF OnceInv
<1> QED
  BY <1>1, <1>6 DEF OnceInv

\* on_tick().
LEMMA TickTidy ==
  ASSUME TtyInv, OnceInv, Tick
  PROVE  OnceInv'
<1> DEFINE told == unblock(g_tasks, {p \in Procs : g_tasks[p].state = "blocked" /\ g_tasks[p].sig_pending})
           d == Drained(kbd, line, g_tty, told)
           c == g_current
<1>0. PICK D \in {d}, late \in {<<>>} \cup {<<Byte(k, typed + 1)>> : k \in Chars} :
        LET T == IF D.got \/ late # <<>> THEN wake(D.tasks) ELSE D.tasks
        IN /\ kbd' = D.kbd /\ line' = D.line \o late /\ g_tty' = D.tty
           /\ typed' = typed + Len(late) /\ seen' = seen
           /\ \/ g_tasks' = T
              \/ \E p \in Procs : g_tasks' = [T EXCEPT ![c].state = "ready", ![p].state = "running"]
  BY DEF Tick
<1> DEFINE T == IF d.got \/ late # <<>> THEN wake(d.tasks) ELSE d.tasks
<1>1. /\ kbd' = d.kbd /\ line' = d.line \o late /\ g_tty' = d.tty
      /\ typed' = typed + Len(late) /\ seen' = seen
      /\ \/ g_tasks' = T
         \/ \E p \in Procs : g_tasks' = [T EXCEPT ![c].state = "ready", ![p].state = "running"]
  <2> HIDE DEF d, told, c
  <2>1. D = d
    OBVIOUS
  <2> QED
    BY <1>0, <2>1, Zenon
<1>2. /\ kbd \in Kbds /\ line \in Seq(Bytes) /\ Kept(g_tty) /\ g_tasks \in [Procs -> Tasks] /\ c \in Procs
      /\ g_wait \in [Slots -> 0 .. kProcs]
  BY Held DEF TtyInv, Ruled
<1>3. Hold(g_tasks, told) /\ told \in [Procs -> Tasks]
  <2>1. AllEased(g_tasks, told)
    BY <1>2, Unblock
  <2> QED
    BY <2>1, EasedHold DEF AllEased
<1> HIDE DEF told
<1>4. Tidy(kbd.ring, line, g_tty.buf, seen, {}, told, typed)
  BY <1>3, EasedTidy DEF OnceInv, Hold
<1>5. d \in Left(kbd, g_tty, told) /\ TidyLeft(d, seen, typed)
  BY <1>2, <1>3, <1>4, DrainedTidy
<1> HIDE DEF d
<1>6. d.tasks \in [Procs -> Tasks]
  BY <1>5, LeftIs
<1>7. Hold(d.tasks, T) /\ T \in [Procs -> Tasks]
  <2>1. AllEased(d.tasks, wake(d.tasks)) /\ AllEased(d.tasks, d.tasks)
    BY <1>2, <1>6, Wake, EasedSame
  <2>2. AllEased(d.tasks, T)
    BY <2>1, Zenon
  <2> QED
    BY <2>2, EasedHold DEF AllEased
<1> HIDE DEF T
<1>8. Tidy(d.kbd.ring, d.line, d.tty.buf, seen, {}, T, typed)
  BY <1>5, <1>7, EasedTidy DEF TidyLeft, Hold
<1>9. Hold(T, g_tasks')
  <2>1. CASE g_tasks' = T
    BY <2>1 DEF Hold
  <2>2. ASSUME NEW p \in Procs, g_tasks' = [T EXCEPT ![c].state = "ready", ![p].state = "running"]
        PROVE  Hold(T, g_tasks')
    <3> DEFINE V == [T EXCEPT ![c].state = "ready"]
               W == [V EXCEPT ![p].state = "running"]
               v == [T[c] EXCEPT !.state = "ready"]
               w == [V[p] EXCEPT !.state = "running"]
    <3>1. g_tasks' = W
      BY <2>2
    <3>2. V \in [Procs -> Tasks] /\ Hold(T, V)
      <4>1. T[c] \in Tasks
        BY <1>2, <1>7
      <4>2. v \in Tasks /\ v.got = T[c].got /\ v.hand = T[c].hand
        BY <4>1 DEF Tasks, States
      <4>3. V = [T EXCEPT ![c] = v]
        BY <1>2, <1>7
      <4> HIDE DEF v, V
      <4>4. V \in [Procs -> Tasks] /\ \A q \in Procs : V[q] = IF q = c THEN v ELSE T[q]
        BY <1>2, <1>7, <4>2, <4>3
      <4> QED
        BY <4>2, <4>4 DEF Hold
    <3> HIDE DEF V
    <3>3. Hold(V, W)
      <4>1. V[p] \in Tasks
        BY <3>2
      <4>2. w.got = V[p].got /\ w.hand = V[p].hand
        BY <4>1 DEF Tasks
      <4>3. W = [V EXCEPT ![p] = w]
        BY <3>2
      <4> HIDE DEF w, W
      <4>4. \A q \in Procs : W[q] = IF q = p THEN w ELSE V[q]
        BY <3>2, <4>3
      <4> QED
        BY <4>2, <4>4 DEF Hold
    <3> HIDE DEF W
    <3> QED
      BY <3>1, <3>2, <3>3 DEF Hold
  <2> QED
    BY <1>1, <2>1, <2>2
<1>10. Tidy(d.kbd.ring, d.line, d.tty.buf, seen, {}, g_tasks', typed)
  BY <1>8, <1>9, EasedTidy DEF Hold
<1>11. CASE late = <<>>
  <2>1. d.line \in Seq(Bytes) /\ typed \in Nat
    BY <1>5, LeftIs, Held
  <2>2. line' = d.line /\ typed' = typed
    BY <1>1, <1>11, <2>1
  <2> QED
    BY <1>1, <1>10, <2>2 DEF OnceInv
<1>12. ASSUME NEW k \in Chars, late = <<Byte(k, typed + 1)>> PROVE OnceInv'
  <2> DEFINE b == Byte(k, typed + 1)
             e == Append(d.line, b)
  <2>1. d.line \in Seq(Bytes) /\ typed \in Nat /\ k \in Kinds
    BY <1>5, LeftIs, Held, TypedKinds
  <2>2. late = <<b>> /\ b \in Bytes
    BY <1>12, <2>1, ByteFacts
  <2> HIDE DEF b
  <2>3. line' = e /\ typed' = typed + 1
    BY <1>1, <2>1, <2>2
  <2>4. Single(d.line) /\ Single(d.kbd.ring) /\ Names(d.line) \subseteq 1 .. typed
    BY <1>10 DEF Tidy, Apart
  <2>5. Single(e) /\ Names(e) \subseteq Names(d.line) \cup {typed + 1}
    BY <2>1, <2>4, NewNames DEF b
  <2> HIDE DEF e
  <2>6. Tidy(d.kbd.ring, e, d.tty.buf, seen, {}, g_tasks', typed + 1)
    BY <1>10, <2>1, <2>4, <2>5, TypedTidy
  <2> QED
    BY <1>1, <2>3, <2>6 DEF OnceInv
<1> QED
  BY <1>11, <1>12

\* At first there are no bytes.
LEMMA InitTidy ==
  ASSUME Init
  PROVE  OnceInv
<1>1. kbd.ring = <<>> /\ line = <<>> /\ g_tty.buf = <<>> /\ seen = {} /\ typed = 0
  BY DEF Init
<1>2. Single(<<>>) /\ Names(<<>>) = {}
  BY DEF Single, Names
<1>3. ASSUME NEW p \in Procs PROVE Neat(g_tasks[p]) /\ Mine(g_tasks[p]) = {}
  <2>1. g_tasks[p] = [User EXCEPT !.state = IF p = 1 THEN "running" ELSE "ready"]
    BY DEF Init
  <2>2. g_tasks[p].got = <<>> /\ g_tasks[p].hand = NoByte
    BY <2>1 DEF User
  <2>3. NoByte.id = 0
    BY DEF NoByte, Byte
  <2> QED
    BY <1>2, <2>2, <2>3 DEF Neat, Mine, Hand
<1>4. \A p \in Procs : Holding(g_tasks)[p] = {}
  BY <1>3 DEF Holding
<1>5. Apart({}, {}, {}, {} \ {0}, {}, Holding(g_tasks), 0)
  BY <1>4 DEF Apart
<1> QED
  BY <1>1, <1>2, <1>3, <1>5 DEF OnceInv, Tidy

\* And every step keeps them apart.
LEMMA NextTidy ==
  ASSUME TtyInv, PollInv, OnceInv, [Next]_vars, ~torn'
  PROVE  OnceInv'
<1>1. CASE UNCHANGED vars
  BY <1>1 DEF vars, OnceInv
<1>2. CASE Step
  BY <1>2, TakeTidy, DrainKeyTidy, DrainInputTidy, KeyOrWaitTidy, PollKeyTidy, PollMoveTidy, WaitTidy
     DEF Step
<1>3. CASE Tick
  BY <1>3, TickTidy
<1>4. CASE (\E s \in Scans : Key(s)) \/ \E k \in Chars : Receive(k)
  BY <1>4, TypeKeyTidy, ReceiveTidy
<1>5. CASE \/ \E p \in Procs : Dispatch(p)
           \/ \E p \in Owners : SetOwner(p)
           \/ \E f \in Modes : SetFlags(f)
  BY <1>5, UserTidy
<1>6. CASE \E len \in Lens : Read("tty", len) \/ ReadConsole(len)
  <2>1. PICK len \in Lens : Read("tty", len) \/ ReadConsole(len)
    BY <1>6
  <2>2. len \in Nat
    BY TtyAssumption
  <2> QED
    BY <2>1, <2>2, WaitTidy, ReadConsoleTidy
<1>7. CASE Read("kbd", 1)
  BY <1>7, WaitTidy
<1>8. CASE ReadSerial
  BY <1>8, ReadSerialTidy
<1> QED
  BY <1>1, <1>2, <1>3, <1>4, <1>5, <1>6, <1>7, <1>8 DEF Next

\* The places of ReadOnce, one by one.
LEMMA PlacesAre ==
  ASSUME TtyInv
  PROVE  /\ DOMAIN Places = 1 .. 3 + 2 * kProcs
         /\ \A i \in 1 .. 3 + 2 * kProcs :
              Places[i] = IF i = 1 THEN kbd.ring ELSE IF i = 2 THEN line ELSE IF i = 3 THEN g_tty.buf
                          ELSE IF i <= 3 + kProcs THEN g_tasks[i - 3].got
                          ELSE <<g_tasks[i - 3 - kProcs].hand>>
<1>1. /\ kbd.ring \in Seq(Bytes) /\ line \in Seq(Bytes) /\ g_tty.buf \in Seq(Bytes)
      /\ g_tasks \in [Procs -> Tasks]
  BY Held
<1>2. kProcs \in Nat
  BY TtyAssumption
<1> DEFINE A == <<kbd.ring, line, g_tty.buf>>
           F == [p \in Procs |-> g_tasks[p].got]
           G == [p \in Procs |-> <<g_tasks[p].hand>>]
           Q == Seq(Bytes)
<1>3. A \in Seq(Q) /\ Len(A) = 3 /\ A[1] = kbd.ring /\ A[2] = line /\ A[3] = g_tty.buf
  BY <1>1
<1>4. \A p \in Procs : g_tasks[p].got \in Q /\ <<g_tasks[p].hand>> \in Q
  <2> SUFFICES ASSUME NEW p \in Procs PROVE g_tasks[p].got \in Q /\ <<g_tasks[p].hand>> \in Q
    OBVIOUS
  <2>1. g_tasks[p] \in Tasks
    BY <1>1
  <2>2. g_tasks[p].got \in Q /\ g_tasks[p].hand \in Bytes
    BY <2>1, TaskFields
  <2> QED
    BY <2>2
<1>5. F \in Seq(Q) /\ Len(F) = kProcs /\ \A p \in 1 .. kProcs : F[p] = g_tasks[p].got
  <2>1. F \in [1 .. kProcs -> Q]
    BY <1>4 DEF Procs
  <2>2. DOMAIN F = 1 .. kProcs
    BY DEF Procs
  <2> QED
    BY <1>2, <2>1, <2>2 DEF Procs
<1>6. G \in Seq(Q) /\ Len(G) = kProcs /\ \A p \in 1 .. kProcs : G[p] = <<g_tasks[p].hand>>
  <2>1. G \in [1 .. kProcs -> Q]
    BY <1>4 DEF Procs
  <2>2. DOMAIN G = 1 .. kProcs
    BY DEF Procs
  <2> QED
    BY <1>2, <2>1, <2>2 DEF Procs
<1>7. Places = (A \o F) \o G
  BY DEF Places
<1> HIDE DEF A, F, G, Q
<1> DEFINE B == A \o F
<1>8. /\ B \in Seq(Q) /\ Len(B) = 3 + kProcs
      /\ \A i \in 1 .. 3 + kProcs : B[i] = IF i <= 3 THEN A[i] ELSE F[i - 3]
  <2>1. /\ B \in Seq(Q) /\ Len(B) = Len(A) + Len(F)
        /\ \A i \in 1 .. Len(A) + Len(F) : B[i] = IF i <= Len(A) THEN A[i] ELSE F[i - Len(A)]
    BY <1>3, <1>5, ConcatProperties
  <2> HIDE DEF B
  <2> QED
    BY <1>3, <1>5, <2>1
<1>9. Places = B \o G
  BY <1>7
<1> HIDE DEF B
<1>10. /\ Places \in Seq(Q) /\ Len(Places) = 3 + kProcs + kProcs
       /\ \A i \in 1 .. 3 + kProcs + kProcs :
            Places[i] = IF i <= 3 + kProcs THEN B[i] ELSE G[i - (3 + kProcs)]
  <2> DEFINE C == B \o G
  <2>1. /\ C \in Seq(Q) /\ Len(C) = Len(B) + Len(G)
        /\ \A i \in 1 .. Len(B) + Len(G) : C[i] = IF i <= Len(B) THEN B[i] ELSE G[i - Len(B)]
    BY <1>6, <1>8, ConcatProperties
  <2> HIDE DEF C
  <2>2. Places = C
    BY <1>9 DEF C
  <2> QED
    BY <1>6, <1>8, <2>1, <2>2
<1>11. DOMAIN Places = 1 .. 3 + 2 * kProcs
  BY <1>2, <1>10
<1>12. ASSUME NEW i \in 1 .. 3 + 2 * kProcs
       PROVE  Places[i] = IF i = 1 THEN kbd.ring ELSE IF i = 2 THEN line ELSE IF i = 3 THEN g_tty.buf
                          ELSE IF i <= 3 + kProcs THEN g_tasks[i - 3].got
                          ELSE <<g_tasks[i - 3 - kProcs].hand>>
  <2>1. CASE i <= 3
    <3>1. Places[i] = A[i] /\ (i = 1 \/ i = 2 \/ i = 3)
      BY <1>2, <1>8, <1>10, <2>1
    <3> QED
      BY <1>3, <3>1
  <2>2. CASE 3 < i /\ i <= 3 + kProcs
    <3>1. Places[i] = F[i - 3] /\ i - 3 \in 1 .. kProcs
      BY <1>2, <1>8, <1>10, <2>2
    <3> QED
      BY <1>5, <2>2, <3>1
  <2>3. CASE 3 + kProcs < i
    <3>1. Places[i] = G[i - (3 + kProcs)] /\ i - (3 + kProcs) \in 1 .. kProcs /\ i - (3 + kProcs) = i - 3 - kProcs
      BY <1>2, <1>10, <2>3
    <3>2. ~(i = 1) /\ ~(i = 2) /\ ~(i = 3) /\ ~(i <= 3 + kProcs)
      BY <1>2, <2>3
    <3> QED
      BY <1>6, <3>1, <3>2
  <2> QED
    BY <1>2, <2>1, <2>2, <2>3
<1> QED
  BY <1>11, <1>12

\* Places with no name in common.
LEMMA PlacesApart ==
  ASSUME TtyInv, OnceInv, NEW i \in DOMAIN Places
  PROVE  /\ Places[i] \in Seq(Bytes) /\ Single(Places[i]) /\ Names(Places[i]) \cap seen = {}
         /\ \A j \in DOMAIN Places : i # j => Names(Places[i]) \cap Names(Places[j]) = {}
<1> DEFINE R == Names(kbd.ring)
           L == Names(line)
           B == Names(g_tty.buf)
           W == Holding(g_tasks)
           k == kProcs
           N(j) == Names(Places[j])
<1>1. k \in Nat /\ g_tasks \in [1 .. k -> Tasks] /\ Procs = 1 .. k
  BY TtyAssumption, Held DEF Procs
<1>2. /\ Single(kbd.ring) /\ Single(line) /\ Single(g_tty.buf) /\ \A p \in 1 .. k : Neat(g_tasks[p])
      /\ Apart(R, L, B, seen \ {0}, {}, W, typed)
  BY <1>1 DEF OnceInv, Tidy
<1>3. \A p \in 1 .. k : W[p] = Names(g_tasks[p].got) \cup Hand(g_tasks[p])
  BY <1>1 DEF Holding, Mine
<1>4. ASSUME NEW p \in 1 .. k
      PROVE  /\ <<g_tasks[p].hand>> \in Seq(Bytes) /\ Single(<<g_tasks[p].hand>>)
             /\ Names(<<g_tasks[p].hand>>) = Hand(g_tasks[p]) /\ g_tasks[p].got \in Seq(Bytes)
  <2>1. g_tasks[p] \in Tasks
    BY <1>1
  <2>2. g_tasks[p].got \in Seq(Bytes) /\ g_tasks[p].hand \in Bytes
    BY <2>1, TaskFields
  <2> DEFINE s == <<g_tasks[p].hand>>
  <2>3. s \in Seq(Bytes) /\ Len(s) = 1 /\ s[1] = g_tasks[p].hand
    BY <2>2
  <2> HIDE DEF s
  <2>4. Single(s) /\ Names(s) = Hand(g_tasks[p])
    BY <2>3 DEF Single, Names, Hand
  <2> QED
    BY <2>2, <2>3, <2>4 DEF s
<1>5. ASSUME NEW j \in DOMAIN Places
      PROVE  /\ Places[j] \in Seq(Bytes) /\ Single(Places[j])
             /\ \/ j = 1 /\ N(j) = R
                \/ j = 2 /\ N(j) = L
                \/ j = 3 /\ N(j) = B
                \/ 3 < j /\ j <= 3 + k /\ j - 3 \in 1 .. k /\ N(j) = Names(g_tasks[j - 3].got)
                \/ 3 + k < j /\ j - 3 - k \in 1 .. k /\ N(j) = Hand(g_tasks[j - 3 - k])
  <2>1. j \in 1 .. 3 + 2 * k
    BY PlacesAre
  <2>2. kbd.ring \in Seq(Bytes) /\ line \in Seq(Bytes) /\ g_tty.buf \in Seq(Bytes)
    BY Held
  <2>3. CASE j = 1
    BY <1>2, <2>1, <2>2, <2>3, PlacesAre
  <2>4. CASE j = 2
    BY <1>2, <2>1, <2>2, <2>4, PlacesAre
  <2>5. CASE j = 3
    BY <1>2, <2>1, <2>2, <2>5, PlacesAre
  <2>6. CASE 3 < j /\ j <= 3 + k
    <3> DEFINE p == j - 3
    <3>1. Places[j] = g_tasks[p].got
      BY <2>1, <2>6, PlacesAre
    <3>2. p \in 1 .. k
      BY <1>1, <2>1, <2>6
    <3>3. Places[j] \in Seq(Bytes) /\ Single(Places[j]) /\ N(j) = Names(g_tasks[p].got)
      BY <1>2, <1>4, <3>1, <3>2 DEF Neat
    <3> QED
      BY <2>6, <3>2, <3>3
  <2>7. CASE 3 + k < j
    <3> DEFINE p == j - 3 - k
    <3>1. Places[j] = <<g_tasks[p].hand>>
      <4>1. ~(j = 1) /\ ~(j = 2) /\ ~(j = 3) /\ ~(j <= 3 + k)
        BY <1>1, <2>1, <2>7
      <4> QED
        BY <2>1, <4>1, PlacesAre
    <3>2. p \in 1 .. k
      BY <1>1, <2>1, <2>7
    <3>3. Places[j] \in Seq(Bytes) /\ Single(Places[j]) /\ N(j) = Hand(g_tasks[p])
      BY <1>4, <3>1, <3>2
    <3> QED
      BY <2>7, <3>2, <3>3
  <2> QED
    BY <1>1, <2>1, <2>3, <2>4, <2>5, <2>6, <2>7
<1>6. 0 \notin N(i)
  BY DEF Names
<1>7. N(i) \cap seen = {}
  <2> DEFINE S == seen \ {0}
  <2>0. R \cap S = {} /\ L \cap S = {} /\ B \cap S = {} /\ \A p \in 1 .. k : W[p] \cap S = {}
    BY <1>1, <1>2 DEF Apart
  <2> HIDE DEF R, L, B, W, S, N
  <2>a. \A p \in 1 .. k : Names(g_tasks[p].got) \cap S = {} /\ Hand(g_tasks[p]) \cap S = {}
    BY <1>3, <2>0
  <2> HIDE DEF k
  <2>1. N(i) \cap S = {}
    BY <1>5, <2>0, <2>a
  <2> QED
    BY <1>6, <2>1 DEF S
<1>8. ASSUME NEW j \in DOMAIN Places, i # j PROVE N(i) \cap N(j) = {}
  <2> DEFINE Z == R \cup L \cup B
             q(x) == IF x <= 3 + k THEN x - 3 ELSE x - 3 - k
  <2>1. \A p \in 1 .. k : Names(g_tasks[p].got) \cap Hand(g_tasks[p]) = {}
    BY <1>2 DEF Neat
  <2>2. i \in Int /\ j \in Int
    BY PlacesAre
  <2>3. \A x \in DOMAIN Places : 3 < x => q(x) \in 1 .. k /\ N(x) \subseteq W[q(x)]
    <3> SUFFICES ASSUME NEW x \in DOMAIN Places, 3 < x PROVE q(x) \in 1 .. k /\ N(x) \subseteq W[q(x)]
      OBVIOUS
    <3>1. x \in Int
      BY PlacesAre
    <3> HIDE DEF N, W, R, L, B, k
    <3>2. \/ x = 1 \/ x = 2 \/ x = 3
          \/ x <= 3 + k /\ x - 3 \in 1 .. k /\ N(x) = Names(g_tasks[x - 3].got)
          \/ 3 + k < x /\ x - 3 - k \in 1 .. k /\ N(x) = Hand(g_tasks[x - 3 - k])
      BY <1>5, Zenon
    <3>3. CASE x <= 3 + k /\ x - 3 \in 1 .. k /\ N(x) = Names(g_tasks[x - 3].got)
      BY <1>3, <3>3
    <3>4. CASE 3 + k < x /\ x - 3 - k \in 1 .. k /\ N(x) = Hand(g_tasks[x - 3 - k])
      <4>1. ~(x <= 3 + k)
        BY <1>1, <3>1, <3>4
      <4> QED
        BY <1>3, <3>4, <4>1
    <3> QED
      BY <3>1, <3>2, <3>3, <3>4
  <2> HIDE DEF R, L, B, W, k, N
  <2>4. \A p \in 1 .. k : W[p] \cap Z = {}
    BY <1>1, <1>2 DEF Apart
  <2>5. \A p, r \in 1 .. k : p # r => W[p] \cap W[r] = {}
    BY <1>1, <1>2 DEF Apart
  <2>6. R \cap L = {} /\ R \cap B = {} /\ L \cap B = {}
    BY <1>2 DEF Apart
  <2>7. \A x \in DOMAIN Places : ~(3 < x) => N(x) \subseteq Z
    <3> SUFFICES ASSUME NEW x \in DOMAIN Places, ~(3 < x) PROVE N(x) \subseteq Z
      OBVIOUS
    <3>1. x \in Int
      BY PlacesAre
    <3> QED
      BY <1>1, <1>5, <3>1
  <2>8. CASE ~(3 < i) /\ ~(3 < j)
    BY <1>1, <1>5, <1>8, <2>2, <2>6, <2>8
  <2>9. CASE ~(3 < i) /\ 3 < j
    BY <2>3, <2>4, <2>7, <2>9
  <2>10. CASE 3 < i /\ ~(3 < j)
    BY <2>3, <2>4, <2>7, <2>10
  <2>11. CASE 3 < i /\ 3 < j
    <3>1. CASE q(i) # q(j)
      BY <2>3, <2>5, <2>11, <3>1
    <3>2. CASE q(i) = q(j)
      <4>1. \/ i <= 3 + k /\ ~(j <= 3 + k)
            \/ ~(i <= 3 + k) /\ j <= 3 + k
        BY <1>1, <1>8, <2>2, <3>2
      <4>2. CASE i <= 3 + k /\ ~(j <= 3 + k)
        <5>1. N(i) = Names(g_tasks[q(i)].got) /\ N(j) = Hand(g_tasks[q(j)])
          BY <1>1, <1>5, <2>2, <2>11, <4>2
        <5> QED
          BY <2>1, <2>3, <2>11, <3>2, <5>1
      <4>3. CASE ~(i <= 3 + k) /\ j <= 3 + k
        <5>1. N(j) = Names(g_tasks[q(j)].got) /\ N(i) = Hand(g_tasks[q(i)])
          BY <1>1, <1>5, <2>2, <2>11, <4>3
        <5> QED
          BY <2>1, <2>3, <2>11, <3>2, <5>1
      <4> QED
        BY <4>1, <4>2, <4>3
    <3> QED
      BY <3>1, <3>2
  <2> QED
    BY <2>8, <2>9, <2>10, <2>11
<1> QED
  BY <1>5, <1>7, <1>8

\* Until a poll() moves g_tail past a scancode it has not read, whatever is typed on
\* the keyboard or comes over the serial line is read once at most: tty_key(),
\* tty_input(), tty_take() and the devices move a byte and never copy it, for any
\* number of processes and any size of the rings, with on_tick() draining between
\* any two steps of a reader that has slept.  In poll() such a tick may tear: the
\* code then does read a scancode twice, and the theorem says nothing from there on.
THEOREM ReadOnceAlways == Spec => []ReadOnce
<1> DEFINE Inv == RoomyInv /\ (torn \/ OnceInv)
<1>1. Init => Inv
  BY InitInv, InitTidy
<1>2. Inv /\ [Next]_vars => Inv'
  <2> SUFFICES ASSUME RoomyInv, torn \/ OnceInv, [Next]_vars, ~torn' PROVE OnceInv'
    BY NextInv
  <2>1. TtyInv /\ PollInv
    BY DEF RoomyInv
  <2>2. ~torn
    <3>1. torn' = torn \/ (torn' = (torn \/ kbd.ring = <<>> \/ Head(kbd.ring) # half.sc))
      BY Untouched DEF ring, PollRead, PollMove, Key
    <3> QED
      BY <3>1
  <2> QED
    BY <2>1, <2>2, NextTidy
<1>3. Inv => ReadOnce
  <2> SUFFICES ASSUME TtyInv, OnceInv, NEW i \in DOMAIN Places, NEW j \in DOMAIN Places,
                      NEW m \in DOMAIN Places[i], NEW n \in DOMAIN Places[j], Places[i][m].id # 0
               PROVE  /\ Places[i][m].id \notin seen
                      /\ Places[i][m].id = Places[j][n].id => i = j /\ m = n
    BY DEF ReadOnce, RoomyInv
  <2> DEFINE s == Places[i]
             t == Places[j]
  <2>1. /\ s \in Seq(Bytes) /\ t \in Seq(Bytes) /\ Single(s) /\ Names(s) \cap seen = {}
        /\ i # j => Names(s) \cap Names(t) = {}
    BY PlacesApart
  <2>2. m \in 1 .. Len(s) /\ n \in 1 .. Len(t) /\ s[m].id # 0
    BY <2>1
  <2>3. i = j => s = t
    OBVIOUS
  <2> HIDE DEF s, t
  <2>4. s[m].id \in Names(s) /\ (t[n].id # 0 => t[n].id \in Names(t))
    BY <2>2 DEF Names
  <2>5. s[m].id = t[n].id => i = j
    BY <2>1, <2>2, <2>4
  <2>6. s[m].id = t[n].id => m = n
    BY <2>1, <2>2, <2>3, <2>5 DEF Single
  <2> QED
    BY <2>1, <2>4, <2>5, <2>6 DEF s, t
<1> QED
  BY <1>1, <1>2, <1>3, PTL DEF Spec
=============================================================================
