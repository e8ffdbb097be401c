-------------------------------- MODULE Tree --------------------------------
(***************************************************************************)
(* What a file system promises: a tree of names.  Making, emptying and     *)
(* removing a name happen at once or not at all, also when the power goes; *)
(* a write is not atomic, but it changes one file only and never makes it  *)
(* shorter.                                                                *)
(***************************************************************************)
EXTENDS Naturals, Sequences, SequencesExt

CONSTANTS
  Paths,  \* sequences of names
  Val     \* what a byte may hold

Dir == [kind |-> "dir", data |-> <<>>]
File(s) == [kind |-> "file", data |-> s]

VARIABLE tree  \* the paths there are, and what is under each

There == DOMAIN tree
IsDir(p) == p = <<>> \/ (p \in There /\ tree[p].kind = "dir")
IsFile(p) == p \in There /\ tree[p].kind = "file"
Children(p) == {q \in There : Len(q) = Len(p) + 1 /\ IsPrefix(p, q)}

Set(p, n) == tree' = [q \in There \cup {p} |-> IF q = p THEN n ELSE tree[q]]

Init == tree = <<>>

Make(p, n) == p \notin There /\ IsDir(Front(p)) /\ Set(p, n)

Truncate(p) == IsFile(p) /\ Set(p, File(<<>>))

Delete(p) ==
  /\ p \in There /\ Children(p) = {}
  /\ tree' = [q \in There \ {p} |-> tree[q]]

Write(p) ==
  /\ IsFile(p) /\ DOMAIN tree' = There
  /\ \A q \in There \ {p} : tree'[q] = tree[q]
  /\ tree'[p].kind = "file" /\ Len(tree'[p].data) >= Len(tree[p].data)
  /\ Range(tree'[p].data) \subseteq Val

Next ==
  \E p \in Paths :
    Make(p, Dir) \/ Make(p, File(<<>>)) \/ Truncate(p) \/ Delete(p) \/ Write(p)

Spec == Init /\ [][Next]_tree
=============================================================================
