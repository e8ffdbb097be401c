----------------------------- MODULE Allocator -----------------------------
(***************************************************************************)
(* What an allocator promises its callers: memory inside its arena, as     *)
(* much as was asked for, aligned as promised, and nobody else's until it  *)
(* is given back.  Running out is allowed at any time.                     *)
(***************************************************************************)
EXTENDS Naturals

CONSTANTS lo, hi   \* the arena, hi excluded

VARIABLE held      \* the pointers callers hold: bytes asked for, alignment promised

Multiple(v, a) == \E q \in 0 .. v : v = q * a

Apart(p, n, q, m) == p + n <= q \/ q + m <= p

\* p may be handed out for n bytes while callers hold H.
Grantable(H, p, n) ==
  /\ lo <= p /\ p + n <= hi
  /\ \A q \in DOMAIN H : q # p /\ Apart(p, n, q, H[q].bytes)

Init == held = [p \in {} |-> 0]

\* The callers hold what they held, but for the pointers in gone, and p.
Swap(gone, p) ==
  /\ p \in DOMAIN held'
  /\ LET kept == DOMAIN held \ (gone \cup {p})
     IN /\ DOMAIN held' = kept \cup {p}
        /\ \A q \in kept : held'[q] = held[q]
  /\ Multiple(p, held'[p].align)

Alloc ==
  \E p \in DOMAIN held' : Swap({}, p) /\ Grantable(held, p, held'[p].bytes)

Free ==
  \E p \in DOMAIN held : held' = [q \in DOMAIN held \ {p} |-> held[q]]

\* p grows or shrinks where it is, at nobody's expense.
Resize ==
  \E p \in DOMAIN held :
    /\ Swap({p}, p)
    /\ Grantable([q \in DOMAIN held \ {p} |-> held[q]], p, held'[p].bytes)

\* p moves to q: both exist while the contents are copied.
Move ==
  \E p \in DOMAIN held : \E q \in DOMAIN held' :
    Swap({p}, q) /\ Grantable(held, q, held'[q].bytes)

Next == Alloc \/ Free \/ Resize \/ Move

Spec == Init /\ [][Next]_held
=============================================================================
