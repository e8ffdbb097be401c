-------------------------------- MODULE Fifo --------------------------------
(***************************************************************************)
(* What a pipe promises its two ends: a bounded queue of bytes.  What is   *)
(* written goes in at the back, what is read comes off the front, nothing  *)
(* is lost, repeated or reordered.                                         *)
(***************************************************************************)
EXTENDS Naturals, Sequences

CONSTANTS
  Bytes,       \* the bytes that may be written
  kPipeBytes   \* how many the pipe holds

VARIABLES
  queue,  \* the bytes written and not read yet
  out     \* the bytes the last read returned

Init == queue = << >> /\ out = << >>

\* A write appends bytes, as many as fit.
Put ==
  /\ \E k \in 0 .. kPipeBytes - Len(queue) : \E s \in [1 .. k -> Bytes] :
       queue' = queue \o s
  /\ UNCHANGED out

\* A read takes bytes off the front.
Take ==
  \E k \in 0 .. Len(queue) :
    /\ out' = SubSeq(queue, 1, k)
    /\ queue' = SubSeq(queue, k + 1, Len(queue))

Next == Put \/ Take

Spec == Init /\ [][Next]_<<queue, out>>
=============================================================================
