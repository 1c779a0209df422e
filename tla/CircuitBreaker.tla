--------------------------- MODULE CircuitBreaker ---------------------------
(***************************************************************************)
(* The circuit breaker in front of the Soroban adapter of a process.       *)
(*                                                                         *)
(* A caller checks the state, checks it again and asks for admission, each *)
(* under the mutex and so one step; then it calls, outside the mutex, and  *)
(* records the result whenever it comes.  Recording is one step with the   *)
(* end of the call, which may last arbitrarily long.                       *)
(*                                                                         *)
(* The names differ from those of Indexers, whose polls are among the      *)
(* calls, so that one module can extend both.                              *)
(***************************************************************************)
EXTENDS Naturals

CONSTANTS
  Callers,        \* each makes one call after another
  Threshold,      \* config.failureThreshold
  TestRequests,   \* config.halfOpenTestRequests
  MaxFaults       \* bound: calls that fail or hang

ASSUME BreakerAssumption ==
  /\ Threshold \in Nat \ {0} /\ TestRequests \in Nat \ {0}
  /\ MaxFaults \in Nat

VARIABLES
  state,      \* "CLOSED", "OPEN" or "HALF_OPEN"
  consecutiveFailures,
  openedAt,   \* null; or recent; or past, the timeout period having elapsed
  tokens,     \* halfOpenTestRequestsRemaining
  phase,      \* where each caller is
  tests,      \* the callers under way as test calls of this half-open period
  faults

breakerVars == <<state, consecutiveFailures, openedAt, tokens, phase, tests, faults>>

Phases == {"idle", "check", "recheck", "ask", "call", "hung"}

BreakerInit ==
  /\ state = "CLOSED"
  /\ consecutiveFailures = 0
  /\ openedAt = "null"
  /\ tokens = TestRequests
  /\ phase = [c \in Callers |-> "idle"]
  /\ tests = {}
  /\ faults = 0

Enter(c, s) == phase' = [phase EXCEPT ![c] = s]

\* Time passes since the breaker opened.
TimeoutElapses ==
  /\ openedAt = "recent"
  /\ openedAt' = "past"
  /\ UNCHANGED <<state, consecutiveFailures, tokens, phase, tests, faults>>

-----------------------------------------------------------------------------
(* The transitions, with the mutex held.                                   *)

Open ==
  /\ state' = "OPEN"
  /\ openedAt' = "recent"
  /\ tokens' = TestRequests
  /\ tests' = {}

HalfOpen ==
  /\ state' = "HALF_OPEN"
  /\ tokens' = TestRequests
  /\ tests' = {}
  /\ UNCHANGED <<consecutiveFailures, openedAt>>

\* Mutant: the first success of a recovery only resets the counter.
CloseNot ==
  /\ consecutiveFailures' = 0
  /\ UNCHANGED <<state, openedAt, tests>>

Close ==
  /\ state' = "CLOSED"
  /\ consecutiveFailures' = 0
  /\ openedAt' = "null"
  /\ tests' = {}

-----------------------------------------------------------------------------

Call(c) ==
  /\ phase[c] = "idle"
  /\ Enter(c, "check")
  /\ UNCHANGED <<state, consecutiveFailures, openedAt, tokens, tests, faults>>

\* By the adapter, and again by shouldAllowCall.
CheckState(c) ==
  /\ phase[c] \in {"check", "recheck"}
  /\ Enter(c, IF phase[c] = "check" THEN "recheck" ELSE "ask")
  /\ IF state = "OPEN" /\ openedAt = "past"
       THEN HalfOpen
       ELSE UNCHANGED <<state, consecutiveFailures, openedAt, tokens, tests>>
  /\ UNCHANGED faults

\* Mutant: a test call does not use up its token.
AdmitFreely(c) ==
  /\ phase[c] = "ask"
  /\ state = "CLOSED" \/ (state = "HALF_OPEN" /\ tokens > 0)
  /\ Enter(c, "call")
  /\ tests' = IF state = "HALF_OPEN" THEN tests \cup {c} ELSE tests
  /\ UNCHANGED <<state, consecutiveFailures, openedAt, tokens, faults>>

\* A test call takes a token, which nothing but a transition gives back.
Admit(c) ==
  /\ phase[c] = "ask"
  /\ \/ state = "CLOSED" /\ UNCHANGED <<tokens, tests>>
     \/ /\ state = "HALF_OPEN" /\ tokens > 0
        /\ tokens' = tokens - 1
        /\ tests' = tests \cup {c}
  /\ Enter(c, "call")
  /\ UNCHANGED <<state, consecutiveFailures, openedAt, faults>>

\* CircuitBreakerOpenError.
Refuse(c) ==
  /\ phase[c] = "ask"
  /\ state = "OPEN" \/ (state = "HALF_OPEN" /\ tokens = 0)
  /\ Enter(c, "idle")
  /\ UNCHANGED <<state, consecutiveFailures, openedAt, tokens, tests, faults>>

\* Whatever state the call was admitted in.
RecordSuccess(c) ==
  /\ phase[c] \in {"call", "hung"}
  /\ Enter(c, "idle")
  /\ CASE state = "CLOSED"    -> consecutiveFailures' = 0 /\ UNCHANGED <<state, openedAt, tests>>
       [] state = "HALF_OPEN" -> Close
       [] OTHER               -> UNCHANGED <<state, consecutiveFailures, openedAt, tests>>
  /\ UNCHANGED <<tokens, faults>>

Fault ==
  /\ faults < MaxFaults
  /\ faults' = faults + 1

\* Every error but the HTTP statuses 400, 401 and 404.
RecordTransient(c) ==
  /\ phase[c] \in {"call", "hung"} /\ Fault
  /\ Enter(c, "idle")
  /\ CASE state = "CLOSED" ->
            /\ consecutiveFailures' = consecutiveFailures + 1
            /\ IF consecutiveFailures + 1 >= Threshold
                 THEN Open ELSE UNCHANGED <<state, openedAt, tokens, tests>>
       [] state = "HALF_OPEN" -> Open /\ UNCHANGED consecutiveFailures
       [] OTHER -> UNCHANGED <<state, consecutiveFailures, openedAt, tokens, tests>>

\* A permanent error is no verdict on the service, whatever the state.
RecordPermanent(c) ==
  /\ phase[c] \in {"call", "hung"} /\ Fault
  /\ Enter(c, "idle")
  /\ tests' = tests \ {c}
  /\ UNCHANGED <<state, consecutiveFailures, openedAt, tokens>>

\* A connection that never answers, or only when it pleases.
Hang(c) ==
  /\ phase[c] = "call" /\ Fault
  /\ Enter(c, "hung")
  /\ UNCHANGED <<state, consecutiveFailures, openedAt, tokens, tests>>

-----------------------------------------------------------------------------

BreakerNext ==
  \/ TimeoutElapses
  \/ \E c \in Callers :
       \/ Call(c) \/ CheckState(c) \/ Admit(c) \/ Refuse(c)
       \/ RecordSuccess(c) \/ RecordTransient(c) \/ RecordPermanent(c) \/ Hang(c)

BreakerSpec == BreakerInit /\ [][BreakerNext]_breakerVars

\* Callers come again and go on, calls that do not hang end, and time passes.
FairBreaker ==
  /\ BreakerSpec
  /\ WF_breakerVars(TimeoutElapses)
  /\ \A c \in Callers : /\ WF_breakerVars(Call(c) \/ CheckState(c) \/ Admit(c) \/ Refuse(c))
                        /\ WF_breakerVars(phase[c] = "call" /\ RecordSuccess(c))

=============================================================================
