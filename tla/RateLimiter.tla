----------------------------- MODULE RateLimiter -----------------------------
(***************************************************************************)
(* RateLimiter (resilience/src/lib.rs), a token bucket.  Its tokens are    *)
(* floating point numbers; here they are counted in parts small enough for *)
(* a clock unit to refill a whole number of them, and rounding is left out.*)
(***************************************************************************)
EXTENDS Clock

CONSTANTS
  Capacity,  \* parts the bucket holds
  Refill     \* parts that a clock unit adds

ASSUME LimiterAssumption == Capacity \in Nat /\ Refill \in Nat

VARIABLE bucket  \* BucketInner

BucketType == [tokens : 0..Capacity, last_refill : 0..MaxTime]

LimiterInit == bucket = [tokens |-> Capacity, last_refill |-> wall]

\* Mutated: the bucket has no bottom line, it fills for ever.
Refilled_Unbounded == bucket.tokens + Since(bucket.last_refill) * Refill

Refilled ==
  LET filled == bucket.tokens + Since(bucket.last_refill) * Refill
  IN  IF filled < Capacity THEN filled ELSE Capacity

Enough(n) == Refilled >= n

\* Mutated: a refused call returns before it has noted when it refilled.
TryAcquire_Forgetful(n) ==
  bucket' = IF Enough(n) THEN [tokens |-> Refilled - n, last_refill |-> wall]
            ELSE [bucket EXCEPT !.tokens = Refilled]

\* try_acquire_n(n): refill, note the time, then take n if there are as many.
TryAcquire(n) ==
  bucket' = [tokens |-> IF Enough(n) THEN Refilled - n ELSE Refilled,
             last_refill |-> wall]

===============================================================================
