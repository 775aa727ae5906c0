--------------------------- MODULE CircuitBreaker ---------------------------
(***************************************************************************)
(* The circuit breaker every S3 call of the process goes through: closed,  *)
(* open after Threshold failures in a row, half-open with a few permits    *)
(* once reset_timeout has passed.  Its state is one atomic word, so each   *)
(* operation takes effect at its compare-and-swap, one step here.          *)
(*                                                                         *)
(* A caller asks allow(), sends its request, and records the outcome when  *)
(* the answer comes, which may be after the breaker has opened and reset;  *)
(* a task that is dropped while its request is out records nothing, and    *)
(* neither does a listing that finds nothing to delete.                    *)
(***************************************************************************)
EXTENDS Integers, FiniteSets

CONSTANTS
    Callers,
    Threshold,          \* failures in a row that open the circuit
    HalfOpenPermits

ASSUME CallersAssumption == IsFiniteSet(Callers)
ASSUME BreakerAssumption == Threshold \in Nat \ {0} /\ HalfOpenPermits \in Nat \ {0}

VARIABLES
    circuit, failures, permits,
    cooled,     \* reset_timeout has passed since the circuit opened
    sent,       \* the callers whose request is out
    probes,     \* those of them admitted in the present half-open period
    abandoned   \* calls of that period that will never record an outcome

stateWord == <<circuit, failures, permits, cooled>>
callVars == <<sent, probes, abandoned>>
breakerVars == <<stateWord, callVars>>

BreakerInit ==
    /\ circuit = "closed" /\ failures = 0 /\ permits = 0 /\ cooled = FALSE
    /\ sent = {} /\ probes = {} /\ abandoned = 0

Elapse ==
    /\ circuit = "open" /\ ~cooled
    /\ cooled' = TRUE
    /\ UNCHANGED <<circuit, failures, permits, callVars>>

\* MUTANT of ToHalfOpen: the caller that resets the circuit has its permit
\* taken here, and again when it retries.
ToHalfOpenOneShort ==
    /\ circuit = "open" /\ cooled
    /\ circuit' = "half_open" /\ permits' = HalfOpenPermits - 1 /\ failures' = 0
    /\ cooled' = FALSE
    /\ probes' = {} /\ abandoned' = 0
    /\ UNCHANGED sent

\* allow() of any caller, once the timeout has passed.
ToHalfOpen ==
    /\ circuit = "open" /\ cooled
    /\ circuit' = "half_open" /\ permits' = HalfOpenPermits /\ failures' = 0
    /\ cooled' = FALSE
    /\ probes' = {} /\ abandoned' = 0
    /\ UNCHANGED sent

\* allow() says Ok, and the request goes out.
Admit(c) ==
    /\ c \notin sent
    /\ circuit = "closed" \/ (circuit = "half_open" /\ permits > 0)
    /\ permits' = IF circuit = "half_open" THEN permits - 1 ELSE permits
    /\ sent' = sent \cup {c}
    /\ probes' = IF circuit = "half_open" THEN probes \cup {c} ELSE probes
    /\ UNCHANGED <<circuit, failures, cooled, abandoned>>

\* allow() says CircuitOpen; nothing changes.
Refuses == (circuit = "open" /\ ~cooled) \/ (circuit = "half_open" /\ permits = 0)

Returns(c) == sent' = sent \ {c} /\ probes' = probes \ {c}

\* The answer, or an error that shows S3 is reachable.  It is ignored while
\* the circuit is open.
RecordSuccess(c) ==
    /\ c \in sent /\ Returns(c)
    /\ IF circuit = "open"
       THEN UNCHANGED <<circuit, failures, permits>>
       ELSE circuit' = "closed" /\ failures' = 0 /\ permits' = 0
    /\ UNCHANGED <<cooled, abandoned>>

\* A connectivity error: record_failure_consecutive.
RecordFailure(c) ==
    /\ c \in sent /\ Returns(c)
    /\ IF circuit = "closed" /\ failures + 1 < Threshold
       THEN failures' = failures + 1 /\ UNCHANGED <<circuit, permits, cooled>>
       ELSE IF circuit = "open"
       THEN UNCHANGED stateWord
       ELSE circuit' = "open" /\ failures' = 0 /\ permits' = 0 /\ cooled' = FALSE
    /\ UNCHANGED abandoned

\* The caller's future is dropped (a timeout, a panic, a client that went away)
\* between allow() and the record, or the call ends without one.
Abandon(c) ==
    /\ c \in sent /\ Returns(c)
    /\ abandoned' = IF c \in probes /\ circuit = "half_open" THEN abandoned + 1 ELSE abandoned
    /\ UNCHANGED stateWord

BreakerNext ==
    \/ Elapse \/ ToHalfOpen
    \/ \E c \in Callers : Admit(c) \/ RecordSuccess(c) \/ RecordFailure(c) \/ Abandon(c)

BreakerSpec == BreakerInit /\ [][BreakerNext]_breakerVars

-----------------------------------------------------------------------------
BreakerTypeOK ==
    /\ circuit \in {"closed", "open", "half_open"}
    /\ failures \in 0 .. Threshold - 1 /\ permits \in 0 .. HalfOpenPermits
    /\ cooled \in BOOLEAN
    /\ sent \subseteq Callers /\ probes \subseteq sent
    /\ abandoned \in Nat

\* "Half-open permits": while the circuit is half-open every permit is free, out
\* with a probe, or lost with a call of this period that recorded no outcome.
\* Nothing else takes one: not a late answer, a refusal or a racing reset.
PermitsAccounted ==
    circuit = "half_open" => permits + Cardinality(probes) + abandoned = HalfOpenPermits

\* Nothing but an outcome leaves the half-open state: there is no timeout.  By
\* PermitsAccounted a permit is free or an outcome still to come, unless every
\* permit of the period went to a call that recorded none.  The code does not
\* prevent that, and then S3 stays refused until the process ends.
HalfOpenCanLeave ==
    circuit = "half_open" => permits > 0 \/ probes # {}
=============================================================================
