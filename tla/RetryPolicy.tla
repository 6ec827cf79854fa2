----------------------------- MODULE RetryPolicy -----------------------------
(***************************************************************************)
(* RetryPolicy::backoff (resilience/src/lib.rs), in 2000ths of the unit of *)
(* the two delays, which makes every backoff a whole number.               *)
(***************************************************************************)
EXTENDS Integers

CONSTANTS
  BaseDelay,  \* base_delay
  MaxDelay    \* max_delay

ASSUME DelayAssumption == BaseDelay \in Nat /\ MaxDelay \in Nat

BackoffUnit == 2000

\* `1 << n`
shift[n \in 0..16] == IF n = 0 THEN 1 ELSE 2 * shift[n - 1]

\* `base.saturating_mul(1 << attempt.min(16)).min(max_delay)`
Exponential(attempt) ==
  LET exp == BaseDelay * shift[IF attempt < 16 THEN attempt ELSE 16]
  IN  IF exp < MaxDelay THEN exp ELSE MaxDelay

\* The jitter's numerator, (attempt * 2654435761) % 1000.
Seed(attempt) == (attempt * 761) % 1000

\* Half of it, and a part of the other half.
backoff(attempt) == Exponential(attempt) * (1000 + Seed(attempt))

===============================================================================
