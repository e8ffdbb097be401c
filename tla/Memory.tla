------------------------------- MODULE Memory -------------------------------
(***************************************************************************)
(* What address spaces promise a process: memory of its own.  A fork gives *)
(* the child a copy of what the parent has at that moment; every other     *)
(* change of what a process reads (a store, a new image) is its own, and   *)
(* nobody else sees it.                                                    *)
(***************************************************************************)
CONSTANTS Proc, Region, Val, Nobody

VARIABLE view  \* what each process reads in each region, or Nobody

Init == \E p \in Proc, m \in [Region -> Val] :
          view = [q \in Proc |-> IF q = p THEN m ELSE Nobody]

Alive(p) == view[p] # Nobody

Others(p) == \A q \in Proc \ {p} : view'[q] = view[q]

Change(p) == Alive(p) /\ Others(p) /\ view'[p] \in [Region -> Val]

Fork(p, c) == Alive(p) /\ ~Alive(c) /\ Others(c) /\ view'[c] = view[p]

End(p) == Alive(p) /\ Others(p) /\ view'[p] = Nobody

Next == \E p \in Proc : Change(p) \/ End(p) \/ \E c \in Proc : Fork(p, c)

Spec == Init /\ [][Next]_view
=============================================================================
