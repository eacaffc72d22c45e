--------------------------- MODULE CircuitBreaker ---------------------------
(***************************************************************************)
(* The circuit breaker around the LLM provider calls                       *)
(* (backend/app/fleet/circuit_breaker.py).  One breaker object is shared   *)
(* by every worker thread and by the chat coroutine; each method body runs *)
(* under the breaker's lock, so allow(), record_success() and              *)
(* record_failure() are single steps, while the provider call between an   *)
(* allow() and its record is not: any number of calls admitted earlier may *)
(* still be in flight when the state changes.                              *)
(*                                                                         *)
(* Time enters the code only through "monotonic() - _opened_at >=          *)
(* cooldown_seconds", so the model keeps that difference, saturated at     *)
(* Cooldown.  The failure count enters only through ">=                    *)
(* failure_threshold" and is saturated at Threshold.                       *)
(***************************************************************************)
EXTENDS Integers, FiniteSets

CONSTANTS
  Callers,        \* threads and coroutines that call the provider
  Threshold,      \* llm_circuit_breaker_failure_threshold
  Cooldown        \* llm_circuit_breaker_cooldown_seconds, in clock ticks

ASSUME ThresholdAssumption == Threshold \in Nat \ {0}
ASSUME CooldownAssumption  == Cooldown \in Nat \ {0}

VARIABLES
  state,       \* _state
  failures,    \* min(_consecutive_failures, Threshold)
  elapsed,     \* min(monotonic() - _opened_at, Cooldown)
  inFlight,    \* callers between allow() = True and their record
  up,          \* whether calls to the provider succeed
  trials       \* history: the calls admitted since the breaker last opened

breakerVars == <<state, failures, elapsed, inFlight, up, trials>>

BreakerInit ==
  /\ state = "closed"
  /\ failures = 0
  /\ elapsed = Cooldown
  /\ inFlight = {}
  /\ up \in BOOLEAN
  /\ trials = {}

-----------------------------------------------------------------------------

ReadyToProbe == elapsed >= Cooldown

(* _open(): also restarts the cooldown when the breaker was open already. *)
Open ==
  /\ state' = "open"
  /\ elapsed' = 0
  /\ trials' = {}

(* Slip: allow() without its half-open branch, so every caller re-probes. *)
AllowUnlessOpen(c) ==
  /\ c \notin inFlight
  /\ state # "open"
  /\ inFlight' = inFlight \union {c}
  /\ trials' = trials \union {c}
  /\ UNCHANGED <<state, failures, elapsed, up>>

(* allow() = True from the closed state. *)
AllowClosed(c) ==
  /\ c \notin inFlight
  /\ state = "closed"
  /\ inFlight' = inFlight \union {c}
  /\ trials' = trials \union {c}
  /\ UNCHANGED <<state, failures, elapsed, up>>

(* allow() = True from the open state: the trial call.  In every other     *)
(* case allow() returns False and changes nothing.                         *)
AllowProbe(c) ==
  /\ c \notin inFlight
  /\ state = "open"
  /\ ReadyToProbe
  /\ state' = "half_open"
  /\ inFlight' = inFlight \union {c}
  /\ trials' = trials \union {c}
  /\ UNCHANGED <<failures, elapsed, up>>

(* Slip: record_success() that resets the count but leaves the state. *)
RecordSuccessKeepsState(c) ==
  /\ c \in inFlight
  /\ up
  /\ failures' = 0
  /\ inFlight' = inFlight \ {c}
  /\ UNCHANGED <<state, elapsed, up, trials>>

(* The call returned: record_success(). *)
RecordSuccess(c) ==
  /\ c \in inFlight
  /\ up
  /\ state' = "closed"
  /\ failures' = 0
  /\ inFlight' = inFlight \ {c}
  /\ UNCHANGED <<elapsed, up, trials>>

(* The call raised an Exception: record_failure(). *)
RecordFailure(c) ==
  /\ c \in inFlight
  /\ ~up
  /\ failures' = IF failures < Threshold THEN failures + 1 ELSE Threshold
  /\ inFlight' = inFlight \ {c}
  /\ IF state = "half_open" \/ failures' >= Threshold
       THEN Open
       ELSE UNCHANGED <<state, elapsed, trials>>
  /\ UNCHANGED up

Tick ==
  /\ elapsed < Cooldown
  /\ elapsed' = elapsed + 1
  /\ UNCHANGED <<state, failures, inFlight, up, trials>>

(* The provider goes down or comes back. *)
Toggle ==
  /\ up' = ~up
  /\ UNCHANGED <<state, failures, elapsed, inFlight, trials>>

Record(c) == RecordSuccess(c) \/ RecordFailure(c)

BreakerNext ==
  \/ \E c \in Callers :
       AllowClosed(c) \/ AllowProbe(c) \/ RecordSuccess(c) \/ RecordFailure(c)
  \/ Tick
  \/ Toggle

BreakerSpec == BreakerInit /\ [][BreakerNext]_breakerVars

(***************************************************************************)
(* Every call has a timeout (llm_call_timeout_seconds), so an admitted     *)
(* call ends; the clock runs; and some caller keeps asking while the       *)
(* breaker is open.  Nothing is assumed of the provider.                   *)
(***************************************************************************)
Fairness ==
  /\ \A c \in Callers : WF_breakerVars(Record(c))
  /\ WF_breakerVars(\E c \in Callers : AllowProbe(c))
  /\ WF_breakerVars(Tick)

FairBreakerSpec == BreakerSpec /\ Fairness

-----------------------------------------------------------------------------

(* The values each variable may take. *)
BreakerTypeOK ==
  /\ state \in {"closed", "open", "half_open"}
  /\ failures \in 0..Threshold
  /\ elapsed \in 0..Cooldown
  /\ inFlight \subseteq Callers
  /\ up \in BOOLEAN
  /\ trials \subseteq Callers

(***************************************************************************)
(* Once the breaker has opened, no call is admitted until the cooldown has *)
(* elapsed, and then exactly one: between an opening and the next change   *)
(* to closed or back to open a single trial call reaches the provider,     *)
(* however many calls admitted earlier report in the meantime.             *)
(***************************************************************************)
OneTrialPerOpening ==
  /\ state = "open" => trials = {}
  /\ state = "half_open" => Cardinality(trials) = 1 /\ elapsed = Cooldown

(***************************************************************************)
(* A closed breaker is one whose next failures are still counted: closed   *)
(* with the threshold already reached would admit calls during an outage.  *)
(***************************************************************************)
ClosedBelowThreshold == state = "closed" => failures < Threshold

(***************************************************************************)
(* A half-open breaker refuses every call, so it leaves that state only    *)
(* through a report: "a caller that gets True back MUST call               *)
(* record_success() or record_failure() exactly once afterward".  As long  *)
(* as it is half-open its own trial is still to report.                    *)
(***************************************************************************)
TrialInFlight == state = "half_open" => trials \subseteq inFlight

(***************************************************************************)
(* Recovery: if the provider stays up from some point on, the breaker ends *)
(* up closed and stays closed, without anyone resetting it.                *)
(***************************************************************************)
Recovers == <>[]up => <>[](state = "closed")
=============================================================================
