------------------------- MODULE CircuitBreakerProps -------------------------
(***************************************************************************)
(* What the circuit breaker promises to the service and to its callers.    *)
(***************************************************************************)
EXTENDS CircuitBreaker, FiniteSets

BreakerTypes ==
  /\ state \in {"CLOSED", "OPEN", "HALF_OPEN"}
  /\ consecutiveFailures \in Nat /\ tokens \in 0 .. TestRequests /\ faults \in Nat
  /\ openedAt \in {"null", "recent", "past"}
  /\ phase \in [Callers -> Phases]
  /\ tests \subseteq Callers

\* The counter tells the state: it is below the threshold exactly while the
\* breaker is closed.
CounterTellsState ==
  IF state = "CLOSED" THEN consecutiveFailures < Threshold ELSE consecutiveFailures = Threshold

\* A recovering service is spared: in one half-open period no more test calls
\* are under way than tokens were handed out, and none outside of one.
TestsBounded ==
  /\ \A c \in tests : phase[c] \in {"call", "hung"}
  /\ IsFiniteSet(tests) /\ Cardinality(tests) + tokens <= TestRequests
  /\ state # "HALF_OPEN" => tests = {}

BreakerInv == BreakerTypes /\ CounterTellsState /\ TestsBounded

\* Every token of the half-open period is gone, and each of its test calls has
\* ended in a permanent error or hangs: nobody is admitted any more.
Wedged ==
  /\ state = "HALF_OPEN" /\ tokens = 0
  /\ \A c \in tests : phase[c] = "hung"

\* When the service has recovered, the breaker closes for good, unless it is
\* wedged: a recovery goes wrong in no other way, however late the results come.
RecoversUnlessWedged == <>[](state = "CLOSED" \/ Wedged)

\* docs/CIRCUIT_BREAKER.md: a test call that succeeds closes the breaker, one
\* that fails opens it; a half-open period ends.
HalfOpenEnds == state = "HALF_OPEN" ~> state # "HALF_OPEN"

\* The half-open period whose test calls have all ended, none in success or in a
\* transient error: every call is refused from here on, and no timeout helps.
Refusing ==
  /\ state = "HALF_OPEN" /\ tokens = 0
  /\ \A c \in Callers : phase[c] \notin {"call", "hung"}

RefusesForGood == [][Refusing => Refusing']_breakerVars

=============================================================================
