------------------------------ MODULE PipeRing ------------------------------
(***************************************************************************)
(* The bytes of one pipe: the ring of pipebuf in kernel/vfs.cpp and the    *)
(* loops of pipe_rd and pipe_wr that move bytes through it.  Who waits for *)
(* whom is module Pipe; here a write puts in what fits before it would     *)
(* park, and a read that finds nothing does not happen.                    *)
(***************************************************************************)
EXTENDS Naturals, Sequences, PipeSizes

CONSTANTS
  Bytes,       \* the bytes that may be written
  NoByte       \* what the buffer holds before anything was written (0 in the code)

ASSUME RingAssumption == kPipeBytes \in Nat \ {0} /\ MaxLen \in Nat

VARIABLES
  buf,   \* the ring
  head,  \* where the next byte goes
  tail,  \* where the next one comes from
  n,     \* bytes in it
  out    \* the bytes the last read returned

ringVars == <<buf, head, tail, n, out>>

Cells == 0 .. kPipeBytes - 1

\* memset() in pipe().
RingInit ==
  /\ buf = [c \in Cells |-> NoByte]
  /\ head = 0 /\ tail = 0 /\ n = 0
  /\ out = << >>

Least(a, b) == IF a < b THEN a ELSE b

\* Mutant: a byte more than there is room for.
RoomPlusOne == kPipeBytes - n + 1

Room == kPipeBytes - n

\* Mutant: the byte goes in behind the cell head points at.
StoreBehind(s, put) ==
  [c \in Cells |-> LET k == (c + 1 + kPipeBytes - head) % kPipeBytes
                   IN IF k < put THEN s[k + 1] ELSE buf[c]]

\* The loop of pipe_wr over the first `put' bytes of s.
Store(s, put) ==
  [c \in Cells |-> LET k == (c + kPipeBytes - head) % kPipeBytes
                   IN IF k < put THEN s[k + 1] ELSE buf[c]]

RingWrite ==
  \E len \in 1 .. MaxLen : \E s \in [1 .. len -> Bytes] :
    LET put == Least(len, Room)
    IN /\ buf' = Store(s, put)
       /\ head' = (head + put) % kPipeBytes
       /\ n' = n + put
       /\ UNCHANGED <<tail, out>>

\* The loop of pipe_rd: what was asked for, or all there is.
RingRead ==
  \E len \in 0 .. MaxLen :
    LET got == Least(len, n)
    IN /\ n > 0
       /\ out' = [k \in 1 .. got |-> buf[(tail + k - 1) % kPipeBytes]]
       /\ tail' = (tail + got) % kPipeBytes
       /\ n' = n - got
       /\ UNCHANGED <<buf, head>>

RingNext == RingWrite \/ RingRead

RingSpec == RingInit /\ [][RingNext]_ringVars

-----------------------------------------------------------------------------
(* Properties                                                              *)

\* The three counters agree and never leave the ring: what pipe_wr fills is
\* exactly what pipe_rd has not taken.
RingOK ==
  /\ head \in Cells /\ tail \in Cells /\ n \in 0 .. kPipeBytes
  /\ head = (tail + n) % kPipeBytes

\* The unread bytes, oldest first.
Contents == [k \in 1 .. n |-> buf[(tail + k - 1) % kPipeBytes]]

F == INSTANCE Fifo WITH queue <- Contents

\* The ring is a bounded queue: around the wrap, on a full ring and an empty one,
\* pipe_rd hands out what pipe_wr took in, in order and once.
IsFifo == F!Spec
=============================================================================
