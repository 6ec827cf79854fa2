-------------------------------- MODULE Clock --------------------------------
(***************************************************************************)
(* Time as the resilience crate sees it (resilience/src/lib.rs): `elapsed` *)
(* is real time, `wall` what SystemClock reads.  SystemClock reads the     *)
(* time of day, which follows real time until someone sets it.  The timers *)
(* of the runtime (sleep, timeout) follow neither: they are steps of their *)
(* own wherever they occur.                                                *)
(***************************************************************************)
EXTENDS Integers

CONSTANTS
  MaxTime,     \* bound: clock units of a behaviour
  MaxSettings  \* bound: times the time of day is set

ASSUME ClockAssumption == MaxTime \in Nat /\ MaxSettings \in Nat

VARIABLES elapsed, wall, settings

clockVars == <<elapsed, wall, settings>>

ClockInit == elapsed = 0 /\ wall = 0 /\ settings = 0

Advance ==
  /\ elapsed < MaxTime /\ wall < MaxTime
  /\ elapsed' = elapsed + 1
  /\ wall' = wall + 1
  /\ UNCHANGED settings

SetTimeOfDay ==
  /\ settings < MaxSettings
  /\ \E reading \in 0..MaxTime : wall' = reading
  /\ settings' = settings + 1
  /\ UNCHANGED elapsed

\* `now.saturating_sub(then)`
Since(then) == IF wall > then THEN wall - then ELSE 0

===============================================================================
