----------------------------- MODULE MCIndexers -----------------------------
(***************************************************************************)
(* An instance of Indexers: two processes, with two indexers each.         *)
(***************************************************************************)
EXTENDS IndexersProps

CONSTANTS p1, p2

=============================================================================
