------------------------------ MODULE MCOutbox ------------------------------
(* Instances of the outbox for TLC. *)
EXTENDS OutboxProps

=============================================================================
