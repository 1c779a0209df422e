--------------------------- MODULE ReceiptDelivery --------------------------
(***************************************************************************)
(* What the outbox promises the rest of the backend, without rows, claims, *)
(* runs or transactions: an accepted receipt is recorded on the chain, and *)
(* reported delivered only once it is; what is reported delivered stays    *)
(* so.  A receipt may be parked (dead-lettered), and taken up again.       *)
(***************************************************************************)
CONSTANT Items

VARIABLES
  state,      \* how each receipt is reported
  recorded    \* the receipts on the chain

rdVars == <<state, recorded>>

Init ==
  /\ state = [i \in Items |-> "none"]
  /\ recorded = {}

Accept(i) ==
  /\ state[i] = "none"
  /\ state' = [state EXCEPT ![i] = "open"]
  /\ UNCHANGED recorded

Record(i) ==
  /\ state[i] # "none"
  /\ recorded' = recorded \cup {i}
  /\ UNCHANGED state

Deliver(i) ==
  /\ state[i] = "open" /\ i \in recorded
  /\ state' = [state EXCEPT ![i] = "delivered"]
  /\ UNCHANGED recorded

Park(i) ==
  /\ state[i] = "open"
  /\ state' = [state EXCEPT ![i] = "parked"]
  /\ UNCHANGED recorded

Unpark(i) ==
  /\ state[i] = "parked"
  /\ state' = [state EXCEPT ![i] = "open"]
  /\ UNCHANGED recorded

Next == \E i \in Items : Accept(i) \/ Record(i) \/ Deliver(i) \/ Park(i) \/ Unpark(i)

Spec == Init /\ [][Next]_rdVars

=============================================================================
