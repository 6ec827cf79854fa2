----------------------------- MODULE BreakerGate -----------------------------
(***************************************************************************)
(* What a circuit breaker promises its callers, with no state to speak of: *)
(* a call is let through unless the last Threshold answers were failures   *)
(* and the last of them is younger than the cooldown.  A success, whenever *)
(* it arrives, forgets the failures.                                       *)
(***************************************************************************)
EXTENDS Integers

CONSTANTS Caller, Threshold, Cooldown, Never

VARIABLES
  now,      \* the time
  streak,   \* failures since the last success
  tripped,  \* when the last failure that made the streak too long was recorded
  calling,  \* the callers whose calls are under way
  refused   \* the callers whose last attempt was refused

gateVars == <<now, streak, tripped, calling, refused>>

Init ==
  now = 0 /\ streak = 0 /\ tripped = Never /\ calling = {} /\ refused = {}

Admits == tripped = Never \/ now - tripped >= Cooldown

Admit(c) ==
  /\ Admits /\ c \notin calling
  /\ calling' = calling \cup {c}
  /\ UNCHANGED <<now, streak, tripped, refused>>

Refuse(c) ==
  /\ ~Admits /\ c \notin calling
  /\ refused' = refused \cup {c}
  /\ UNCHANGED <<now, streak, tripped, calling>>

\* A caller that was refused comes back, or leaves.
Return(c) ==
  /\ refused' = refused \ {c}
  /\ UNCHANGED <<now, streak, tripped, calling>>

Succeed(c) ==
  /\ c \in calling
  /\ calling' = calling \ {c}
  /\ streak' = 0 /\ tripped' = Never
  /\ UNCHANGED <<now, refused>>

Fail(c) ==
  /\ c \in calling
  /\ calling' = calling \ {c}
  /\ streak' = streak + 1
  /\ tripped' = IF streak' >= Threshold THEN now ELSE tripped
  /\ UNCHANGED <<now, refused>>

Pass == now' > now /\ UNCHANGED <<streak, tripped, calling, refused>>

Next ==
  \/ \E c \in Caller :
       Admit(c) \/ Refuse(c) \/ Return(c) \/ Succeed(c) \/ Fail(c)
  \/ Pass

Spec == Init /\ [][Next]_gateVars

===============================================================================
