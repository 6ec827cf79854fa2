----------------------------- MODULE GuardedCall -----------------------------
(***************************************************************************)
(* Callers of an unreliable service behind the primitives of               *)
(* resilience/src/lib.rs.  A call is `retry(op)`, where `op` takes tokens  *)
(* from the rate limiter, acquires the circuit breaker, does its work under*)
(* with_timeout and tells the breaker how that went.  Callers share the    *)
(* limiter and the breaker, and run between each other's steps.            *)
(*                                                                         *)
(* A timer (the deadline, the sleep of a backoff) goes off at some moment  *)
(* after it was set; how long that takes by the clock is left open.        *)
(***************************************************************************)
EXTENDS CircuitBreaker, RateLimiter, RetryPolicy, FiniteSets

CONSTANTS
  Caller,        \* tasks that make guarded calls
  max_attempts,  \* the policy's limit, by caller
  Weight,        \* parts an operation may cost
  MaxCalls       \* bound: calls of a behaviour

ASSUME CallerAssumption ==
  max_attempts \in [Caller -> Nat] /\ Weight \subseteq Nat /\ MaxCalls \in Nat

VARIABLES
  task,     \* what each caller is doing
  granted,  \* parts the limiter granted until the end of each moment of real time
  calls     \* calls made so far

vars == <<clockVars, breaker, bucket, task, granted, calls>>

Idle == [at |-> "idle", attempt |-> 0, wait |-> 0, error |-> "none", admitted |-> "none"]

Init ==
  /\ ClockInit /\ BreakerInit /\ LimiterInit
  /\ task = [c \in Caller |-> Idle]
  /\ granted = [time \in 0..MaxTime |-> 0]
  /\ calls = 0

Goto(c, next) == task' = [task EXCEPT ![c] = next]

\* Mutated: the index of the next attempt.
Wait_Next(attempt) == backoff(attempt)

\* The sleep after the failure of an attempt, 1-based.
Wait(attempt) == backoff(attempt - 1)

\* retry: op returned an error.
Fails(c, error) ==
  LET attempt == task[c].attempt + 1
  IN  IF attempt >= max_attempts[c]
      THEN Goto(c, [Idle EXCEPT !.error = error])
      ELSE Goto(c, [task[c] EXCEPT !.at = "sleeping", !.attempt = attempt,
                                   !.wait = Wait(attempt), !.error = error])

Call(c) ==
  /\ task[c].at = "idle" /\ calls < MaxCalls
  /\ calls' = calls + 1
  /\ Goto(c, [Idle EXCEPT !.at = "limiter"])
  /\ UNCHANGED <<clockVars, breaker, bucket, granted>>

Limiter(c) ==
  /\ task[c].at = "limiter"
  /\ \E n \in Weight :
       /\ TryAcquire(n)
       /\ \/ /\ Enough(n)
             /\ granted' = [time \in 0..MaxTime |->
                              IF time < elapsed THEN granted[time] ELSE granted[time] + n]
             /\ Goto(c, [task[c] EXCEPT !.at = "breaker"])
          \/ /\ ~Enough(n)
             /\ Fails(c, "RateLimited")
             /\ UNCHANGED granted
  /\ UNCHANGED <<clockVars, breaker, calls>>

Breaker(c) ==
  /\ task[c].at = "breaker"
  /\ Acquire
  /\ \/ Acquired /\ Goto(c, [task[c] EXCEPT !.at = "working", !.admitted = state])
     \/ ~Acquired /\ Fails(c, "BreakerOpen")
  /\ UNCHANGED <<clockVars, bucket, granted, calls>>

Succeed(c) ==
  /\ task[c].at = "working"
  /\ OnSuccess
  /\ Goto(c, Idle)
  /\ UNCHANGED <<clockVars, bucket, granted, calls>>

WorkFails(c) ==
  /\ task[c].at = "working"
  /\ OnFailure
  /\ Fails(c, "failed")
  /\ UNCHANGED <<clockVars, bucket, granted, calls>>

\* Mutated: the work is awaited without a deadline.
Expire_Never(c) == task[c].at = "timed out" /\ UNCHANGED vars

\* with_timeout: the deadline is past and the work is dropped.
Expire(c) ==
  /\ task[c].at = "working"
  /\ OnFailure
  /\ Fails(c, "TimeoutError")
  /\ UNCHANGED <<clockVars, bucket, granted, calls>>

Wake(c) ==
  /\ task[c].at = "sleeping"
  /\ Goto(c, [task[c] EXCEPT !.at = "limiter", !.error = "none"])
  /\ UNCHANGED <<clockVars, breaker, bucket, granted, calls>>

Time == Advance /\ UNCHANGED <<breaker, bucket, task, granted, calls>>

\* The steps the runtime takes by itself; whether the work ever answers is not
\* among them.
Step(c) == Limiter(c) \/ Breaker(c) \/ Expire(c) \/ Wake(c)

Next ==
  \/ \E c \in Caller : Call(c) \/ Step(c) \/ Succeed(c) \/ WorkFails(c)
  \/ Time

Spec == Init /\ [][Next]_vars

\* The same, on a machine whose time of day may be set.
SettableSpec ==
  Init /\ [][Next \/ (SetTimeOfDay /\ UNCHANGED <<breaker, bucket, task, granted, calls>>)]_vars

\* The runtime polls every task that can go on and its timers go off.
FairSpec == Spec /\ \A c \in Caller : WF_vars(Step(c))

-------------------------------------------------------------------------------
(***************************************************************************)
(* Properties.                                                             *)
(***************************************************************************)
Waits == {0} \cup {Wait(n) : n \in UNION {1..max_attempts[c] : c \in Caller}}

TaskType ==
  [at       : {"idle", "limiter", "breaker", "working", "sleeping"},
   attempt  : Nat, wait : Waits,
   error    : {"none", "RateLimited", "BreakerOpen", "failed", "TimeoutError"},
   admitted : BreakerState \cup {"none"}]

\* The bucket never holds more than its capacity nor less than nothing, and a
\* call under way has failed fewer times than its policy allows.
TypeOK ==
  /\ elapsed \in 0..MaxTime /\ wall \in 0..MaxTime /\ settings \in 0..MaxSettings
  /\ breaker \in BreakerType /\ bucket \in BucketType
  /\ task \in [Caller -> TaskType]
  /\ \A c \in Caller : task[c].at # "idle" =>
       task[c].attempt = 0 \/ task[c].attempt < max_attempts[c]
  /\ granted \in [0..MaxTime -> Nat] /\ calls \in 0..MaxCalls

\* The breaker is closed as long as failures are few, whatever answers arrive in
\* whatever order, and half open only after a whole cooldown.
BreakerSound ==
  /\ breaker.state = "Closed" <=> breaker.failures < Threshold
  /\ breaker.state # "Closed" => breaker.opened_at <= wall
  /\ breaker.state = "HalfOpen" => wall - breaker.opened_at >= Cooldown

\* What the three states are for: calls are let through and refused as BreakerGate
\* has it, through late answers, deadlines and failed probes, so that HalfOpen
\* shows in nothing a caller can see.
Gate == INSTANCE BreakerGate WITH
  now     <- wall,
  streak  <- breaker.failures,
  tripped <- IF breaker.state = "Closed" THEN -1 ELSE breaker.opened_at,
  calling <- {c \in Caller : task[c].at = "working"},
  refused <- {c \in Caller : task[c].error = "BreakerOpen"},
  Never   <- -1

ImplementsGate == Gate!Spec

GrantedWithin(from, to) == granted[to] - IF from = 0 THEN 0 ELSE granted[from - 1]

\* "A bucket of `capacity` tokens refilling `refill_per_sec` per second": in any
\* stretch of real time callers together get at most a full bucket and what
\* flows in meanwhile, whatever was refused in between.
RateBounded ==
  \A from \in 0..elapsed : \A to \in from..elapsed :
    GrantedWithin(from, to) <= Capacity + (to - from) * Refill

\* The waits of a call start at base_delay or less, exceed neither max_delay nor,
\* below half of it, each other: "backoff_is_bounded_and_grows" (a test that
\* looks at the bound only).
WaitsGrow ==
  [][\A c \in Caller : (task[c].at # "sleeping" /\ task'[c].at = "sleeping") =>
       LET last == task[c].wait
           next == task'[c].wait
       IN  /\ next <= MaxDelay * BackoffUnit
           /\ last = 0 => next \in (BaseDelay * 1000)..(BaseDelay * BackoffUnit)
           /\ 2 * last < MaxDelay * BackoffUnit => next > last]_task

\* A guarded call returns, whatever the service does and the other callers make
\* of limiter and breaker: also with a policy of no attempts at all.
CallsReturn == \A c \in Caller : task[c].at # "idle" ~> task[c].at = "idle"

\* "A single probe is allowed to test recovery." (BreakerState::HalfOpen)
SingleProbe ==
  breaker.state = "HalfOpen" =>
    Cardinality({c \in Caller : task[c].at = "working"
                                  /\ task[c].admitted = "HalfOpen"}) <= 1

===============================================================================
