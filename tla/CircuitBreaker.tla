---------------------------- MODULE CircuitBreaker ----------------------------
(***************************************************************************)
(* CircuitBreaker (resilience/src/lib.rs).  Each method holds the mutex    *)
(* from its first read to its last write, so that it is one step, and      *)
(* reads the clock while it holds it.                                      *)
(***************************************************************************)
EXTENDS Clock

CONSTANTS
  Threshold,  \* consecutive failures that open the breaker
  Cooldown,   \* clock units it stays open
  U32Max      \* bound: failures in a row, the largest u32

ASSUME BreakerAssumption ==
  Threshold \in 1..U32Max /\ U32Max \in Nat /\ Cooldown \in Nat

VARIABLE breaker  \* BreakerInner

BreakerState == {"Closed", "Open", "HalfOpen"}

BreakerType == [state : BreakerState, failures : 0..U32Max, opened_at : 0..MaxTime]

BreakerInit == breaker = [state |-> "Closed", failures |-> 0, opened_at |-> 0]

\* state(): an open breaker whose cooldown is over is half open from now on.
state ==
  IF breaker.state = "Open" /\ Since(breaker.opened_at) >= Cooldown
  THEN "HalfOpen" ELSE breaker.state

\* acquire(), and what it answers.
Acquire == breaker' = [breaker EXCEPT !.state = state]
Acquired == state # "Open"

\* Mutated: the count of failures outlives the success.
OnSuccess_Counting == breaker' = [breaker EXCEPT !.state = "Closed"]

\* on_success(): whatever the state.
OnSuccess == breaker' = [breaker EXCEPT !.failures = 0, !.state = "Closed"]

\* Mutated: the cooldown starts with the first failure of a series, and is not
\* restarted by those that follow.
OnFailure_Once ==
  /\ breaker.failures < U32Max
  /\ breaker' =
       [state     |-> IF breaker.failures + 1 >= Threshold THEN "Open" ELSE breaker.state,
        failures  |-> breaker.failures + 1,
        opened_at |-> IF breaker.state = "Closed" THEN wall ELSE breaker.opened_at]

\* on_failure(): from the threshold on, each failure opens the breaker anew.  The
\* model ends where the u32 does.
OnFailure ==
  /\ breaker.failures < U32Max
  /\ breaker' =
       IF breaker.failures + 1 >= Threshold
       THEN [state |-> "Open", failures |-> breaker.failures + 1, opened_at |-> wall]
       ELSE [breaker EXCEPT !.failures = @ + 1]

===============================================================================
