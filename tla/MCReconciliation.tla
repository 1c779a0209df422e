-------------------------- MODULE MCReconciliation --------------------------
(***************************************************************************)
(* Instances of Resolution.                                                *)
(***************************************************************************)
EXTENDS ResolutionProps, TLC

CONSTANTS e1, e2, p1, p2, r1

Exact   == [at |-> 1, debit |-> TRUE, diff |-> 0, late |-> FALSE]
Short   == [at |-> 2, debit |-> TRUE, diff |-> 1, late |-> FALSE]
Wrong   == [at |-> 2, debit |-> TRUE, diff |-> 2, late |-> FALSE]
Belated == [at |-> 3, debit |-> TRUE, diff |-> 0, late |-> TRUE]

Late      == [e \in Events |-> {Belated}]
OnTime    == [e \in Events |-> {Exact}]
\* Both can be short; the other notice of e2 is out of tolerance, and with the
\* first a double debit.
Differing == (e1 :> {Short}) @@ (e2 :> {Short, Wrong})
AtP1      == [r \in Runs |-> p1]

=============================================================================
