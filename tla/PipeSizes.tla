----------------------------- MODULE PipeSizes -----------------------------
(***************************************************************************)
(* What the two models of a pipe have in common: Pipe counts its bytes,    *)
(* PipeRing keeps them.                                                    *)
(***************************************************************************)
CONSTANTS
  kPipeBytes,  \* bytes a pipe holds, the size of its ring
  MaxLen       \* bound: the longest read or write asked for
=============================================================================
