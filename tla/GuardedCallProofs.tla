-------------------------- MODULE GuardedCallProofs --------------------------
(***************************************************************************)
(* Proofs about GuardedCall, for every set of callers, every policy, every *)
(* threshold, cooldown, capacity and rate.                                 *)
(***************************************************************************)
EXTENDS GuardedCall, Sums

\* The inductive invariant: the types, and what keeps the breaker's three fields
\* in step.
IInv == TypeOK /\ BreakerSound

USE ClockAssumption, BreakerAssumption, LimiterAssumption, CallerAssumption

\* Refilling never leaves the bucket's range.
LEMMA RefilledInRange ==
  ASSUME bucket \in BucketType, wall \in 0..MaxTime
  PROVE  Refilled \in 0..Capacity
<1>1. Since(bucket.last_refill) \in Nat
  BY DEF Since, BucketType
<1>2. Since(bucket.last_refill) * Refill \in Nat
  BY <1>1
<1>3. bucket.tokens \in 0..Capacity
  BY DEF BucketType
<1> QED
  BY <1>2, <1>3 DEF Refilled

\* try_acquire_n keeps the bucket in its range.
LEMMA TryAcquireType ==
  ASSUME bucket \in BucketType, wall \in 0..MaxTime, NEW n \in Weight, TryAcquire(n)
  PROVE  bucket' \in BucketType
<1>1. Refilled \in 0..Capacity
  BY RefilledInRange
<1>2. CASE Enough(n)
  BY <1>1, <1>2 DEF TryAcquire, Enough, BucketType
<1>3. CASE ~Enough(n)
  BY <1>1, <1>3 DEF TryAcquire, BucketType
<1> QED
  BY <1>2, <1>3

\* A failed attempt leads to another one that the policy allows, or to the end.
LEMMA FailsType ==
  ASSUME TypeOK, NEW c \in Caller, task[c].at # "idle",
         NEW error \in {"RateLimited", "BreakerOpen", "failed", "TimeoutError"},
         Fails(c, error)
  PROVE  /\ task' \in [Caller -> TaskType]
         /\ \A d \in Caller : task'[d].at # "idle" =>
              task'[d].attempt = 0 \/ task'[d].attempt < max_attempts[d]
<1> DEFINE attempt == task[c].attempt + 1
<1>1. task[c] \in TaskType /\ attempt \in Nat /\ attempt > 0 /\ max_attempts[c] \in Nat
  BY DEF TypeOK, TaskType
<1>2. CASE attempt >= max_attempts[c]
  <2>1. task' = [task EXCEPT ![c] = [Idle EXCEPT !.error = error]]
    BY <1>2 DEF Fails, Goto
  <2>2. [Idle EXCEPT !.error = error] \in TaskType
    BY DEF Idle, TaskType, Waits
  <2> QED
    BY <2>1, <2>2 DEF TypeOK, Idle
<1>3. CASE ~(attempt >= max_attempts[c])
  <2> DEFINE next == [task[c] EXCEPT !.at = "sleeping", !.attempt = attempt,
                                     !.wait = Wait(attempt), !.error = error]
  <2>1. task' = [task EXCEPT ![c] = next]
    BY <1>3 DEF Fails, Goto
  <2>2. attempt \in 1..max_attempts[c]
    BY <1>1, <1>3
  <2>3. Wait(attempt) \in Waits
    BY <2>2 DEF Waits
  <2>4. next \in TaskType
    BY <1>1, <2>3 DEF TaskType
  <2>5. next.attempt = attempt /\ attempt < max_attempts[c]
    BY <1>1, <1>3 DEF TaskType
  <2> HIDE DEF next, attempt
  <2> QED
    BY <2>1, <2>4, <2>5 DEF TypeOK
<1> QED
  BY <1>2, <1>3

\* Every method of the breaker keeps its fields in step while the clock does not
\* go back.
LEMMA AcquireSound ==
  ASSUME TypeOK, BreakerSound, Acquire, UNCHANGED wall
  PROVE  breaker' \in BreakerType /\ BreakerSound'
<1>1. /\ breaker \in BreakerType /\ wall \in 0..MaxTime
      /\ breaker.failures \in Nat /\ breaker.opened_at \in Nat /\ wall \in Nat
  BY DEF TypeOK, BreakerType
<1>2. /\ breaker' \in BreakerType
      /\ breaker'.state = state
      /\ breaker'.failures = breaker.failures /\ breaker'.opened_at = breaker.opened_at
  BY <1>1 DEF Acquire, state, BreakerType, BreakerState
<1>3. CASE state = breaker.state
  BY <1>1, <1>2, <1>3 DEF BreakerSound
<1>4. CASE state # breaker.state
  <2>1. breaker.state = "Open" /\ state = "HalfOpen" /\ Since(breaker.opened_at) >= Cooldown
    BY <1>4 DEF state
  <2>2. breaker.opened_at <= wall /\ ~(breaker.failures < Threshold)
    BY <2>1 DEF BreakerSound
  <2>3. wall - breaker.opened_at >= Cooldown
    BY <1>1, <2>1, <2>2 DEF Since
  <2> QED
    BY <1>2, <2>1, <2>2, <2>3 DEF BreakerSound
<1> QED
  BY <1>3, <1>4

\* A success closes the breaker and leaves it sound.
LEMMA OnSuccessSound ==
  ASSUME TypeOK, BreakerSound, OnSuccess, UNCHANGED wall
  PROVE  breaker' \in BreakerType /\ BreakerSound'
<1>1. breaker \in BreakerType
  BY DEF TypeOK
<1>2. breaker' = [state |-> "Closed", failures |-> 0, opened_at |-> breaker.opened_at]
  BY <1>1 DEF OnSuccess, BreakerType
<1>3. /\ breaker' \in BreakerType
      /\ breaker'.state = "Closed" /\ breaker'.failures = 0
  BY <1>1, <1>2 DEF BreakerType, BreakerState
<1> QED
  BY <1>3 DEF BreakerSound

\* A failure counts, opens the breaker at its threshold, and leaves it sound.
LEMMA OnFailureSound ==
  ASSUME TypeOK, BreakerSound, OnFailure, UNCHANGED wall
  PROVE  breaker' \in BreakerType /\ BreakerSound'
<1>1. /\ breaker \in BreakerType /\ wall \in 0..MaxTime
      /\ breaker.failures \in Nat /\ breaker.failures + 1 \in 0..U32Max
  BY DEF TypeOK, BreakerType, OnFailure
<1>2. CASE breaker.failures + 1 >= Threshold
  <2>1. breaker' = [state |-> "Open", failures |-> breaker.failures + 1, opened_at |-> wall]
    BY <1>2 DEF OnFailure
  <2> QED
    BY <1>1, <1>2, <2>1 DEF BreakerSound, BreakerType, BreakerState
<1>3. CASE ~(breaker.failures + 1 >= Threshold)
  <2>1. breaker' = [breaker EXCEPT !.failures = breaker.failures + 1]
    BY <1>3 DEF OnFailure
  <2>2. /\ breaker' \in BreakerType
        /\ breaker'.failures = breaker.failures + 1
        /\ breaker'.state = breaker.state
    BY <1>1, <2>1 DEF BreakerType
  <2>3. breaker.state = "Closed"
    BY <1>1, <1>3 DEF BreakerSound
  <2> QED
    BY <1>1, <1>3, <2>2, <2>3 DEF BreakerSound
<1> QED
  BY <1>2, <1>3

-------------------------------------------------------------------------------
\* Callers and primitives start well formed, the breaker closed.
LEMMA InitIInv == Init => IInv
<1> SUFFICES ASSUME Init PROVE IInv
  OBVIOUS
<1>1. Idle \in TaskType
  BY DEF Idle, TaskType, Waits
<1>2. TypeOK
  BY <1>1 DEF Init, ClockInit, BreakerInit, LimiterInit, TypeOK, BreakerType,
              BreakerState, BucketType, Idle
<1>3. BreakerSound
  BY DEF Init, ClockInit, BreakerInit, BreakerSound
<1> QED
  BY <1>2, <1>3 DEF IInv

\* A step of one caller's task that sets its place and at most its admission.
LEMMA MoveType ==
  ASSUME TypeOK, NEW c \in Caller, NEW next \in TaskType, Goto(c, next),
         \/ next.at = "idle" \/ next.attempt = 0
         \/ (task[c].at # "idle" /\ next.attempt = task[c].attempt)
  PROVE  /\ task' \in [Caller -> TaskType]
         /\ \A d \in Caller : task'[d].at # "idle" =>
              task'[d].attempt = 0 \/ task'[d].attempt < max_attempts[d]
BY DEF TypeOK, Goto

\* Every step keeps types and the soundness of the breaker.
LEMMA NextIInv == IInv /\ [Next]_vars => IInv'
<1> SUFFICES ASSUME IInv, [Next]_vars PROVE IInv'
  OBVIOUS
<1> USE DEF IInv
<1>1. ASSUME NEW c \in Caller, Call(c) PROVE IInv'
  <2>1. [Idle EXCEPT !.at = "limiter"] \in TaskType
    BY DEF Idle, TaskType, Waits
  <2>2. /\ task' \in [Caller -> TaskType]
        /\ \A d \in Caller : task'[d].at # "idle" =>
             task'[d].attempt = 0 \/ task'[d].attempt < max_attempts[d]
    BY <1>1, <2>1, MoveType DEF Call, Idle
  <2> QED
    BY <1>1, <2>2 DEF Call, TypeOK, BreakerSound, clockVars
<1>2. ASSUME NEW c \in Caller, Limiter(c) PROVE IInv'
  <2>1. PICK n \in Weight :
          /\ TryAcquire(n)
          /\ \/ /\ Enough(n)
                /\ granted' = [time \in 0..MaxTime |->
                                 IF time < elapsed THEN granted[time] ELSE granted[time] + n]
                /\ Goto(c, [task[c] EXCEPT !.at = "breaker"])
             \/ /\ ~Enough(n)
                /\ Fails(c, "RateLimited")
                /\ UNCHANGED granted
    BY <1>2 DEF Limiter
  <2>2. bucket' \in BucketType
    BY <2>1, TryAcquireType DEF TypeOK
  <2>3. granted' \in [0..MaxTime -> Nat]
    <3>1. granted \in [0..MaxTime -> Nat] /\ n \in Nat
      BY DEF TypeOK
    <3>2. \A time \in 0..MaxTime : granted[time] \in Nat /\ granted[time] + n \in Nat
      BY <3>1
    <3>3. \/ UNCHANGED granted
          \/ granted' = [time \in 0..MaxTime |->
                           IF time < elapsed THEN granted[time] ELSE granted[time] + n]
      BY <2>1, Zenon
    <3> QED
      BY <3>1, <3>2, <3>3
  <2>4. [task[c] EXCEPT !.at = "breaker"] \in TaskType
    BY DEF TypeOK, TaskType
  <2>5. /\ task' \in [Caller -> TaskType]
        /\ \A d \in Caller : task'[d].at # "idle" =>
             task'[d].attempt = 0 \/ task'[d].attempt < max_attempts[d]
    <3>1. CASE Goto(c, [task[c] EXCEPT !.at = "breaker"])
      BY <1>2, <2>4, <3>1, MoveType DEF Limiter, TypeOK, TaskType
    <3>2. CASE Fails(c, "RateLimited")
      BY <1>2, <3>2, FailsType DEF Limiter
    <3> QED
      BY <2>1, <3>1, <3>2
  <2> QED
    BY <1>2, <2>2, <2>3, <2>5 DEF Limiter, TypeOK, BreakerSound, clockVars
<1>3. ASSUME NEW c \in Caller, Breaker(c) PROVE IInv'
  <2>1. breaker' \in BreakerType /\ BreakerSound'
    BY <1>3, AcquireSound DEF Breaker, clockVars
  <2>2. /\ task' \in [Caller -> TaskType]
        /\ \A d \in Caller : task'[d].at # "idle" =>
             task'[d].attempt = 0 \/ task'[d].attempt < max_attempts[d]
    <3>1. CASE Goto(c, [task[c] EXCEPT !.at = "working", !.admitted = state])
      <4>1. state \in BreakerState
        BY DEF state, TypeOK, BreakerType, BreakerState
      <4>2. [task[c] EXCEPT !.at = "working", !.admitted = state] \in TaskType
        BY <4>1 DEF TypeOK, TaskType
      <4> QED
        BY <1>3, <3>1, <4>2, MoveType DEF Breaker, TypeOK, TaskType
    <3>2. CASE Fails(c, "BreakerOpen")
      BY <1>3, <3>2, FailsType DEF Breaker
    <3> QED
      BY <1>3, <3>1, <3>2 DEF Breaker
  <2> QED
    BY <1>3, <2>1, <2>2 DEF Breaker, TypeOK, clockVars
<1>4. ASSUME NEW c \in Caller, Succeed(c) PROVE IInv'
  <2>1. breaker' \in BreakerType /\ BreakerSound'
    BY <1>4, OnSuccessSound DEF Succeed, clockVars
  <2>2. Idle \in TaskType
    BY DEF Idle, TaskType, Waits
  <2>3. /\ task' \in [Caller -> TaskType]
        /\ \A d \in Caller : task'[d].at # "idle" =>
             task'[d].attempt = 0 \/ task'[d].attempt < max_attempts[d]
    BY <1>4, <2>2, MoveType DEF Succeed, Idle
  <2> QED
    BY <1>4, <2>1, <2>3 DEF Succeed, TypeOK, clockVars
<1>5. ASSUME NEW c \in Caller, WorkFails(c) \/ Expire(c) PROVE IInv'
  <2>1. breaker' \in BreakerType /\ BreakerSound'
    BY <1>5, OnFailureSound DEF WorkFails, Expire, clockVars
  <2>2. /\ task' \in [Caller -> TaskType]
        /\ \A d \in Caller : task'[d].at # "idle" =>
             task'[d].attempt = 0 \/ task'[d].attempt < max_attempts[d]
    BY <1>5, FailsType DEF WorkFails, Expire
  <2> QED
    BY <1>5, <2>1, <2>2 DEF WorkFails, Expire, TypeOK, clockVars
<1>6. ASSUME NEW c \in Caller, Wake(c) PROVE IInv'
  <2>1. [task[c] EXCEPT !.at = "limiter", !.error = "none"] \in TaskType
    BY DEF TypeOK, TaskType
  <2>2. /\ task' \in [Caller -> TaskType]
        /\ \A d \in Caller : task'[d].at # "idle" =>
             task'[d].attempt = 0 \/ task'[d].attempt < max_attempts[d]
    BY <1>6, <2>1, MoveType DEF Wake, TypeOK, TaskType
  <2> QED
    BY <1>6, <2>2 DEF Wake, TypeOK, BreakerSound, clockVars
<1>7. CASE Time
  BY <1>7 DEF Time, Advance, TypeOK, BreakerSound, BreakerType
<1>8. CASE UNCHANGED vars
  BY <1>8 DEF vars, clockVars, TypeOK, BreakerSound
<1> QED
  BY <1>1, <1>2, <1>3, <1>4, <1>5, <1>6, <1>7, <1>8 DEF Next, Step

\* Types and breaker invariant hold in every reachable state.
THEOREM Invariance == Spec => []IInv
<1> QED
  BY InitIInv, NextIInv, PTL DEF Spec

\* The bucket stays within its capacity and no call fails more often than its
\* policy allows, for any number of callers and any interleaving of theirs.
THEOREM TypeCorrect == Spec => []TypeOK
<1>1. IInv => TypeOK
  BY DEF IInv
<1> QED
  BY <1>1, Invariance, PTL

\* The breaker is closed exactly as long as failures are few, and half open only
\* after a whole cooldown.
THEOREM BreakerIsSound == Spec => []BreakerSound
<1>1. IInv => BreakerSound
  BY DEF IInv
<1> QED
  BY <1>1, Invariance, PTL

-------------------------------------------------------------------------------
(***************************************************************************)
(* GuardedCall implements BreakerGate.                                     *)
(***************************************************************************)
\* A caller that tries again has forgotten why it was refused.
Retrying == \A c \in Caller :
  task[c].at \in {"limiter", "breaker", "working"} => task[c].error # "BreakerOpen"

\* Nobody has been refused at first.
LEMMA InitRetrying == Init => Retrying
BY DEF Init, Retrying, Idle

\* An attempt that fails leaves its caller with the error and not at work, and the
\* other callers where they are.
LEMMA FailsRetrying ==
  ASSUME TypeOK, Retrying, NEW c \in Caller,
         NEW error \in {"RateLimited", "BreakerOpen", "failed", "TimeoutError"},
         Fails(c, error)
  PROVE  /\ Retrying'
         /\ task'[c].error = error /\ task'[c].at # "working"
         /\ \A d \in Caller : d # c => task'[d] = task[d]
<1>1. task \in [Caller -> TaskType] /\ task[c] \in TaskType
  BY DEF TypeOK
<1> DEFINE last  == [Idle EXCEPT !.error = error]
           again == [task[c] EXCEPT !.at = "sleeping", !.attempt = task[c].attempt + 1,
                                    !.wait = Wait(task[c].attempt + 1), !.error = error]
<1>a. last.error = error /\ last.at = "idle"
  BY DEF Idle
<1>b. again.error = error /\ again.at = "sleeping"
  BY <1>1 DEF TaskType
<1>c. task' = [task EXCEPT ![c] = last] \/ task' = [task EXCEPT ![c] = again]
  BY DEF Fails, Goto
<1> HIDE DEF last, again
<1>2. PICK next : next.error = error /\ next.at \in {"idle", "sleeping"}
                   /\ task' = [task EXCEPT ![c] = next]
  BY <1>a, <1>b, <1>c
<1>3. /\ \A d \in Caller : d # c => task'[d] = task[d]
      /\ task'[c] = next
  BY <1>1, <1>2
<1> QED
  BY <1>2, <1>3 DEF Retrying

\* Every step keeps callers that try again rid of an earlier refusal.
LEMMA NextRetrying == IInv /\ Retrying /\ [Next]_vars => Retrying'
<1> SUFFICES ASSUME TypeOK, Retrying, [Next]_vars PROVE Retrying'
  BY DEF IInv
<1>1. ASSUME NEW c \in Caller, Call(c) \/ Succeed(c) \/ Wake(c) PROVE Retrying'
  <2>1. task \in [Caller -> TaskType]
    BY DEF TypeOK
  <2>2. /\ \A d \in Caller : d # c => task'[d] = task[d]
        /\ task'[c].error = "none"
    <3>1. CASE Call(c)
      BY <2>1, <3>1 DEF Call, Goto, Idle
    <3>2. CASE Succeed(c)
      BY <2>1, <3>2 DEF Succeed, Goto, Idle
    <3>3. CASE Wake(c)
      <4>1. task' = [task EXCEPT ![c] = [task[c] EXCEPT !.at = "limiter", !.error = "none"]]
        BY <3>3 DEF Wake, Goto
      <4>2. task[c] \in TaskType
        BY <2>1
      <4> QED
        BY <2>1, <4>1, <4>2 DEF TaskType
    <3> QED
      BY <1>1, <3>1, <3>2, <3>3
  <2> QED
    BY <2>2 DEF Retrying
<1>2. ASSUME NEW c \in Caller, WorkFails(c) \/ Expire(c) PROVE Retrying'
  BY <1>2, FailsRetrying DEF WorkFails, Expire
<1>3. ASSUME NEW c \in Caller, Limiter(c) PROVE Retrying'
  <2>1. CASE Fails(c, "RateLimited")
    BY <2>1, FailsRetrying
  <2>2. CASE Goto(c, [task[c] EXCEPT !.at = "breaker"])
    BY <1>3, <2>2 DEF Limiter, Goto, Retrying, TypeOK, TaskType
  <2> QED
    BY <1>3, <2>1, <2>2 DEF Limiter
<1>4. ASSUME NEW c \in Caller, Breaker(c) PROVE Retrying'
  <2>1. CASE Fails(c, "BreakerOpen")
    BY <2>1, FailsRetrying
  <2>2. CASE Goto(c, [task[c] EXCEPT !.at = "working", !.admitted = state])
    BY <1>4, <2>2 DEF Breaker, Goto, Retrying, TypeOK, TaskType
  <2> QED
    BY <1>4, <2>1, <2>2 DEF Breaker
<1>5. CASE Time \/ UNCHANGED vars
  BY <1>5 DEF Time, vars, Retrying
<1> QED
  BY <1>1, <1>2, <1>3, <1>4, <1>5 DEF Next, Step

\* The mapping of BreakerGate's variables.
Calling == {c \in Caller : task[c].at = "working"}
Refused == {c \in Caller : task[c].error = "BreakerOpen"}
Tripped == IF breaker.state = "Closed" THEN -1 ELSE breaker.opened_at

\* The breaker starts as the gate does, closed.
LEMMA InitGate == Init => Gate!Init
BY DEF Init, ClockInit, BreakerInit, Idle, Gate!Init

\* Every step of the breaker is a step of the gate, or leaves it as it is.
LEMMA StepGate ==
  IInv /\ Retrying /\ IInv' /\ [Next]_vars => [Gate!Next]_Gate!gateVars
<1> SUFFICES ASSUME TypeOK, BreakerSound, TypeOK', BreakerSound', Retrying, [Next]_vars
             PROVE  Gate!Next \/ UNCHANGED Gate!gateVars
  BY DEF IInv
<1>0. /\ task \in [Caller -> TaskType] /\ task' \in [Caller -> TaskType]
      /\ breaker \in BreakerType /\ breaker' \in BreakerType
      /\ wall \in Nat /\ breaker.opened_at \in Nat /\ breaker.failures \in Nat
  <2>1. /\ task \in [Caller -> TaskType] /\ task' \in [Caller -> TaskType]
        /\ breaker \in BreakerType /\ breaker' \in BreakerType
        /\ wall \in 0..MaxTime
    BY Zenon DEF TypeOK
  <2>2. breaker.opened_at \in 0..MaxTime /\ breaker.failures \in 0..U32Max
    BY <2>1 DEF BreakerType
  <2> QED
    BY <2>1, <2>2
<1>1. ASSUME NEW c \in Caller, Call(c) \/ Wake(c)
      PROVE  Gate!Return(c)
  <2>1. /\ \A d \in Caller : d # c => task'[d] = task[d]
        /\ task'[c].error # "BreakerOpen" /\ task'[c].at # "working"
        /\ task[c].at # "working"
    <3>1. CASE Call(c)
      BY <1>0, <3>1 DEF Call, Goto, Idle
    <3>2. CASE Wake(c)
      <4>1. task' = [task EXCEPT ![c] = [task[c] EXCEPT !.at = "limiter", !.error = "none"]]
        BY <3>2 DEF Wake, Goto
      <4>2. task[c] \in TaskType /\ task[c].at = "sleeping"
        BY <1>0, <3>2 DEF Wake
      <4> QED
        BY <1>0, <4>1, <4>2 DEF TaskType
    <3> QED
      BY <1>1, <3>1, <3>2
  <2>2. Calling' = Calling /\ Refused' = Refused \ {c}
    BY <2>1 DEF Calling, Refused
  <2> QED
    BY <1>1, <2>2 DEF Gate!Return, Call, Wake, clockVars, Calling, Refused
<1>2. ASSUME NEW c \in Caller, Limiter(c)
      PROVE  Gate!Return(c)
  <2>1. /\ \A d \in Caller : d # c => task'[d] = task[d]
        /\ task'[c].error # "BreakerOpen" /\ task'[c].at # "working"
        /\ task[c].at # "working"
    <3>1. CASE Fails(c, "RateLimited")
      BY <1>2, <3>1, FailsRetrying DEF Limiter
    <3>2. CASE Goto(c, [task[c] EXCEPT !.at = "breaker"])
      <4>1. task[c].at = "limiter" /\ task[c].error # "BreakerOpen"
        BY <1>2 DEF Limiter, Retrying
      <4>2. task'[c].at = "breaker" /\ task'[c].error = task[c].error
        BY <1>0, <3>2 DEF Goto, TaskType
      <4>3. \A d \in Caller : d # c => task'[d] = task[d]
        BY <1>0, <3>2 DEF Goto
      <4> QED
        BY <4>1, <4>2, <4>3
    <3>3. Fails(c, "RateLimited") \/ Goto(c, [task[c] EXCEPT !.at = "breaker"])
      BY <1>2 DEF Limiter
    <3> QED
      BY <3>1, <3>2, <3>3
  <2>2. Calling' = Calling /\ Refused' = Refused \ {c}
    BY <2>1 DEF Calling, Refused
  <2> QED
    BY <1>2, <2>2 DEF Gate!Return, Limiter, clockVars, Calling, Refused
<1>3. ASSUME NEW c \in Caller, Breaker(c)
      PROVE  Gate!Admit(c) \/ Gate!Refuse(c)
  <2>1. /\ breaker'.failures = breaker.failures /\ Tripped' = Tripped
        /\ wall' = wall /\ breaker'.state = state
    BY <1>0, <1>3 DEF Breaker, Acquire, Tripped, state, BreakerType, clockVars
  <2>2. Acquired <=> (breaker.state = "Closed" \/ wall - breaker.opened_at >= Cooldown)
    BY <1>0, <1>3 DEF Acquired, state, BreakerSound, Since, BreakerType, BreakerState
  <2>3. CASE Acquired /\ Goto(c, [task[c] EXCEPT !.at = "working", !.admitted = state])
    <3>1. /\ \A d \in Caller : d # c => task'[d] = task[d]
          /\ task'[c].error = task[c].error /\ task'[c].at = "working"
          /\ task[c].at = "breaker"
      BY <1>0, <1>3, <2>3 DEF Breaker, Goto, TaskType
    <3>2. Calling' = Calling \cup {c} /\ Refused' = Refused /\ c \notin Calling
      BY <3>1 DEF Calling, Refused
    <3>3. Gate!Admits
      BY <1>0, <2>2, <2>3 DEF Gate!Admits
    <3> QED
      BY <2>1, <3>2, <3>3 DEF Gate!Admit, Calling, Refused, Tripped
  <2>4. CASE ~Acquired /\ Fails(c, "BreakerOpen")
    <3>1. /\ \A d \in Caller : d # c => task'[d] = task[d]
          /\ task'[c].error = "BreakerOpen" /\ task'[c].at # "working"
          /\ task[c].at = "breaker"
      BY <1>3, <2>4, FailsRetrying DEF Breaker
    <3>2. Calling' = Calling /\ Refused' = Refused \cup {c} /\ c \notin Calling
      BY <3>1 DEF Calling, Refused
    <3>3. ~Gate!Admits
      BY <1>0, <2>2, <2>4 DEF Gate!Admits
    <3> QED
      BY <2>1, <3>2, <3>3 DEF Gate!Refuse, Calling, Refused, Tripped
  <2> QED
    BY <1>3, <2>3, <2>4 DEF Breaker
<1>4. ASSUME NEW c \in Caller, Succeed(c)
      PROVE  Gate!Succeed(c)
  <2>1. breaker'.state = "Closed" /\ breaker'.failures = 0
    BY <1>0, <1>4 DEF Succeed, OnSuccess, BreakerType
  <2>2. /\ \A d \in Caller : d # c => task'[d] = task[d]
        /\ task'[c].error # "BreakerOpen" /\ task'[c].at # "working"
        /\ task[c].error # "BreakerOpen" /\ task[c].at = "working"
    BY <1>0, <1>4 DEF Succeed, Goto, Idle, Retrying
  <2>3. Calling' = Calling \ {c} /\ Refused' = Refused /\ c \in Calling
    BY <2>2 DEF Calling, Refused
  <2> QED
    BY <1>4, <2>1, <2>3 DEF Gate!Succeed, Succeed, clockVars, Calling, Refused
<1>5. ASSUME NEW c \in Caller, WorkFails(c) \/ Expire(c)
      PROVE  Gate!Fail(c)
  <2>1. /\ breaker'.failures = breaker.failures + 1
        /\ Tripped' = IF breaker.failures + 1 >= Threshold THEN wall ELSE Tripped
    <3>1. CASE breaker.failures + 1 >= Threshold
      BY <1>0, <1>5, <3>1 DEF WorkFails, Expire, OnFailure, Tripped
    <3>2. CASE ~(breaker.failures + 1 >= Threshold)
      BY <1>0, <1>5, <3>2 DEF WorkFails, Expire, OnFailure, Tripped, BreakerType
    <3> QED
      BY <3>1, <3>2
  <2>2. /\ \A d \in Caller : d # c => task'[d] = task[d]
        /\ task'[c].error # "BreakerOpen" /\ task'[c].at # "working"
        /\ task[c].error # "BreakerOpen" /\ task[c].at = "working"
    BY <1>5, FailsRetrying DEF WorkFails, Expire, Retrying
  <2>3. Calling' = Calling \ {c} /\ Refused' = Refused /\ c \in Calling
    BY <2>2 DEF Calling, Refused
  <2> QED
    BY <1>5, <2>1, <2>3 DEF Gate!Fail, WorkFails, Expire, clockVars, Calling, Refused, Tripped
<1>6. ASSUME Time PROVE Gate!Pass
  BY <1>0, <1>6 DEF Time, Advance, Gate!Pass
<1>7. CASE UNCHANGED vars
  BY <1>7 DEF vars, clockVars, Gate!gateVars
<1>8. ASSUME NEW c \in Caller, Call(c) \/ Step(c) \/ Succeed(c) \/ WorkFails(c)
      PROVE  Gate!Next
  <2>1. \/ Gate!Admit(c) \/ Gate!Refuse(c) \/ Gate!Return(c)
        \/ Gate!Succeed(c) \/ Gate!Fail(c)
    BY <1>1, <1>2, <1>3, <1>4, <1>5, <1>8 DEF Step
  <2> QED
    BY <2>1 DEF Gate!Next
<1>9. CASE Next
  BY <1>6, <1>8, <1>9 DEF Next, Gate!Next
<1> QED
  BY <1>7, <1>9

\* For any number of callers, any policy, threshold and cooldown, and whatever
\* order their answers come in, callers see the breaker that BreakerGate states.
THEOREM GateImplemented == Spec => ImplementsGate
<1>1. Spec => [](IInv /\ Retrying)
  <2>1. Init => IInv /\ Retrying
    BY InitIInv, InitRetrying
  <2>2. IInv /\ Retrying /\ [Next]_vars => (IInv /\ Retrying)'
    BY NextIInv, NextRetrying
  <2> QED
    BY <2>1, <2>2, PTL DEF Spec
<1>2. IInv /\ Retrying /\ [Next]_vars => [Gate!Next]_Gate!gateVars
  BY NextIInv, StepGate
<1> QED
  BY <1>1, <1>2, InitGate, PTL DEF Spec, ImplementsGate, Gate!Spec

-------------------------------------------------------------------------------
(***************************************************************************)
(* What callers get of the rate limiter.                                   *)
(***************************************************************************)
\* While nobody sets the time of day, the limiter's clock is real time.
ClockInv == wall = elapsed /\ bucket.last_refill <= wall

\* Nothing is granted ahead of time.
NothingAhead == \A time \in elapsed..MaxTime : granted[time] = granted[elapsed]

\* What was granted since a moment, with what could be taken now, is within the
\* bound that RateBounded sets.
BudgetKept ==
  \A from \in 0..elapsed :
    GrantedWithin(from, elapsed) + Refilled <= Capacity + (elapsed - from) * Refill

RateInv == ClockInv /\ NothingAhead /\ BudgetKept /\ RateBounded

\* What is granted in a stretch of time is a number.
LEMMA GrantedType ==
  TypeOK => \A from \in 0..MaxTime : \A to \in 0..MaxTime : GrantedWithin(from, to) \in Int
<1> SUFFICES ASSUME TypeOK, NEW from \in 0..MaxTime, NEW to \in 0..MaxTime
             PROVE  GrantedWithin(from, to) \in Int
  OBVIOUS
<1>1. granted[to] \in Nat /\ (from # 0 => granted[from - 1] \in Nat)
  BY DEF TypeOK
<1> QED
  BY <1>1 DEF GrantedWithin

\* Nothing is granted at first.
LEMMA InitRateInv == Init => RateInv
<1> SUFFICES ASSUME Init PROVE RateInv
  OBVIOUS
<1>1. /\ wall = 0 /\ elapsed = 0 /\ bucket = [tokens |-> Capacity, last_refill |-> 0]
      /\ granted = [time \in 0..MaxTime |-> 0]
  BY DEF Init, ClockInit, LimiterInit
<1>2. ClockInv /\ NothingAhead
  BY <1>1 DEF ClockInv, NothingAhead
<1>3. Refilled = Capacity
  BY <1>1 DEF Refilled, Since
<1>4. GrantedWithin(0, 0) = 0
  BY <1>1 DEF GrantedWithin
<1> QED
  BY <1>1, <1>2, <1>3, <1>4 DEF RateInv, BudgetKept, RateBounded

\* What the limiter can grant grows with the clock by no more than Refill a unit.
LEMMA RefilledBounds ==
  ASSUME TypeOK, ClockInv
  PROVE  /\ Refilled \in 0..Capacity
         /\ Refilled <= bucket.tokens + (wall - bucket.last_refill) * Refill
         /\ Refilled = bucket.tokens + (wall - bucket.last_refill) * Refill \/ Refilled = Capacity
<1>1. bucket \in BucketType /\ wall \in 0..MaxTime
  BY DEF TypeOK
<1>2. bucket.tokens \in 0..Capacity /\ bucket.last_refill \in Nat /\ wall \in Nat
  BY <1>1 DEF BucketType
<1>3. Since(bucket.last_refill) = wall - bucket.last_refill
  BY <1>2 DEF Since, ClockInv
<1>4. (wall - bucket.last_refill) * Refill \in Int
  BY <1>2
<1> QED
  BY <1>1, <1>2, <1>3, <1>4, RefilledInRange DEF Refilled

\* A refused call leaves what can be taken as it was, one that is granted takes its
\* tokens off.
LEMMA RateLimiterStep ==
  ASSUME TypeOK, RateInv, NEW c \in Caller, Limiter(c)
  PROVE  RateInv'
<1> DEFINE Granted(n) == [time \in 0..MaxTime |->
             IF time < elapsed THEN granted[time] ELSE granted[time] + n]
<1>1. PICK n \in Weight :
        /\ TryAcquire(n)
        /\ \/ Enough(n) /\ granted' = Granted(n)
           \/ ~Enough(n) /\ UNCHANGED granted
  BY DEF Limiter
<1>2. UNCHANGED <<elapsed, wall>>
  BY DEF Limiter, clockVars
<1>3. /\ Refilled \in 0..Capacity /\ wall \in Nat /\ elapsed \in 0..MaxTime /\ n \in Nat
      /\ granted \in [0..MaxTime -> Nat]
  BY RefilledBounds DEF RateInv, TypeOK
<1> DEFINE taken == IF Enough(n) THEN n ELSE 0
<1>4. taken \in Nat /\ taken <= Refilled
  BY <1>3 DEF Enough
<1>5. Refilled' = Refilled - taken /\ bucket'.last_refill = wall
  <2>1. bucket' = [tokens |-> Refilled - taken, last_refill |-> wall]
    BY <1>1, <1>3 DEF TryAcquire
  <2> QED
    BY <1>2, <1>3, <1>4, <2>1 DEF Refilled, Since
<1>6. \A time \in 0..MaxTime :
        granted'[time] = IF time < elapsed THEN granted[time] ELSE granted[time] + taken
  BY <1>1, <1>3
<1> HIDE DEF taken, Granted
<1> DEFINE After(from, to) == granted'[to] - IF from = 0 THEN 0 ELSE granted'[from - 1]
<1>7. ASSUME NEW from \in 0..elapsed
      PROVE  After(from, elapsed) = GrantedWithin(from, elapsed) + taken
  <2>1. granted'[elapsed] = granted[elapsed] + taken
    BY <1>3, <1>6
  <2>2. from # 0 => granted'[from - 1] = granted[from - 1] /\ granted[from - 1] \in Nat
    BY <1>3, <1>6
  <2>3. granted[elapsed] \in Nat
    BY <1>3
  <2> QED
    BY <1>2, <1>4, <2>1, <2>2, <2>3 DEF GrantedWithin
<1>8. ASSUME NEW to \in 0..elapsed, to # elapsed, NEW from \in 0..to
      PROVE  After(from, to) = GrantedWithin(from, to)
  <2>1. granted'[to] = granted[to]
    BY <1>3, <1>6, <1>8
  <2>2. from # 0 => granted'[from - 1] = granted[from - 1]
    BY <1>3, <1>6, <1>8
  <2> QED
    BY <1>2, <2>1, <2>2 DEF GrantedWithin
<1> HIDE DEF After
<1>9. ClockInv' /\ NothingAhead'
  <2>1. ClockInv'
    BY <1>2, <1>3, <1>5 DEF RateInv, ClockInv
  <2>2. NothingAhead'
    BY <1>2, <1>3, <1>6 DEF RateInv, NothingAhead
  <2> QED
    BY <2>1, <2>2
<1>10. BudgetKept'
  <2> SUFFICES ASSUME NEW from \in 0..elapsed
               PROVE  After(from, elapsed) + Refilled'
                        <= Capacity + (elapsed - from) * Refill
    BY <1>2 DEF BudgetKept, GrantedWithin, After
  <2>1. GrantedWithin(from, elapsed) + Refilled <= Capacity + (elapsed - from) * Refill
    BY DEF RateInv, BudgetKept
  <2>2. GrantedWithin(from, elapsed) \in Int
    <3>1. from \in 0..MaxTime /\ elapsed \in 0..MaxTime
      BY <1>3
    <3> QED
      BY <3>1, GrantedType, Zenon
  <2> QED
    BY <1>3, <1>4, <1>5, <1>7, <2>1, <2>2
<1>11. RateBounded'
  <2> SUFFICES ASSUME NEW to \in 0..elapsed, NEW from \in 0..to
               PROVE  After(from, to) <= Capacity + (to - from) * Refill
    BY <1>2, <1>3 DEF RateBounded, GrantedWithin, After
  <2>1. CASE to # elapsed
    BY <1>3, <1>8, <2>1 DEF RateInv, RateBounded
  <2>2. CASE to = elapsed
    <3>1. After(from, elapsed) + Refilled' <= Capacity + (elapsed - from) * Refill
      BY <1>2, <1>10, <2>2 DEF BudgetKept, GrantedWithin, After
    <3>2. GrantedWithin(from, elapsed) \in Int
      <4>1. from \in 0..MaxTime /\ elapsed \in 0..MaxTime
        BY <1>3, <2>2
      <4> QED
        BY <4>1, GrantedType, Zenon
    <3>3. (elapsed - from) * Refill \in Int
      BY <1>3
    <3> QED
      BY <1>3, <1>4, <1>5, <1>7, <2>2, <3>1, <3>2, <3>3
  <2> QED
    BY <2>1, <2>2
<1> QED
  BY <1>9, <1>10, <1>11 DEF RateInv

\* A unit of time adds as much to the bound as it can add to the bucket.
LEMMA RateTimeStep ==
  ASSUME TypeOK, TypeOK', RateInv, Time
  PROVE  RateInv'
<1>1. /\ elapsed' = elapsed + 1 /\ wall' = wall + 1 /\ bucket' = bucket /\ granted' = granted
      /\ elapsed < MaxTime
  BY DEF Time, Advance
<1>2. /\ wall \in 0..MaxTime /\ elapsed \in 0..MaxTime /\ bucket \in BucketType
      /\ granted \in [0..MaxTime -> Nat] /\ bucket.last_refill \in Nat
      /\ bucket.tokens \in Nat
  BY DEF TypeOK, BucketType
<1>3. ClockInv' /\ NothingAhead'
  BY <1>1, <1>2 DEF RateInv, ClockInv, NothingAhead
<1>4. granted[elapsed + 1] = granted[elapsed]
  BY <1>1, <1>2 DEF RateInv, NothingAhead
<1>5. \A from \in 0..elapsed : GrantedWithin(from, elapsed + 1) = GrantedWithin(from, elapsed)
  BY <1>4 DEF GrantedWithin
<1>6. Refilled' <= Refilled + Refill /\ Refilled \in 0..Capacity /\ Refilled' \in 0..Capacity
  <2> DEFINE inflow == (wall - bucket.last_refill) * Refill
  <2>1. inflow \in Int /\ (wall + 1 - bucket.last_refill) * Refill = inflow + Refill
    BY <1>2
  <2> HIDE DEF inflow
  <2>2. /\ Refilled \in 0..Capacity
        /\ Refilled = bucket.tokens + inflow \/ Refilled = Capacity
    BY RefilledBounds DEF RateInv, inflow
  <2>3. /\ Refilled' \in 0..Capacity
        /\ Refilled' <= bucket.tokens + inflow + Refill
    <3>0. bucket.last_refill <= wall
      BY DEF RateInv, ClockInv
    <3>1. Since(bucket.last_refill)' = wall + 1 - bucket.last_refill
      <4> DEFINE last == bucket.last_refill
      <4>1. last \in Nat /\ last <= wall /\ wall \in Nat
        BY <1>2, <3>0
      <4>2. Since(bucket.last_refill)' = IF wall + 1 > last THEN wall + 1 - last ELSE 0
        BY <1>1, <4>1 DEF Since
      <4> HIDE DEF last
      <4>3. Since(bucket.last_refill)' = wall + 1 - last
        BY <4>1, <4>2
      <4> QED
        BY <4>3 DEF last
    <3>2. bucket.tokens \in 0..Capacity
      BY <1>2 DEF BucketType
    <3>3. Refilled' = IF bucket.tokens + (inflow + Refill) < Capacity
                      THEN bucket.tokens + (inflow + Refill) ELSE Capacity
      BY <1>1, <2>1, <3>1 DEF Refilled, Since
    <3>4. inflow >= 0
      BY <1>2 DEF inflow, RateInv, ClockInv
    <3> QED
      BY <2>1, <3>2, <3>3, <3>4
  <2> QED
    BY <1>2, <2>1, <2>2, <2>3
<1>7. \A from \in 0..(elapsed + 1) :
        GrantedWithin(from, elapsed + 1) + Refilled' <= Capacity + (elapsed + 1 - from) * Refill
  <2> TAKE from \in 0..(elapsed + 1)
  <2>1. CASE from = elapsed + 1
    <3>1. GrantedWithin(elapsed + 1, elapsed + 1) = 0
      BY <1>1, <1>2, <1>4 DEF GrantedWithin
    <3> QED
      BY <1>2, <1>6, <2>1, <3>1
  <2>2. CASE from # elapsed + 1
    <3>1. from \in 0..elapsed /\ from \in 0..MaxTime
      BY <1>2, <2>2
    <3>2. GrantedWithin(from, elapsed) + Refilled <= Capacity + (elapsed - from) * Refill
      BY <3>1 DEF RateInv, BudgetKept
    <3>3. /\ (elapsed + 1 - from) * Refill = (elapsed - from) * Refill + Refill
          /\ (elapsed - from) * Refill \in Int
      BY <1>2, <3>1
    <3>4. GrantedWithin(from, elapsed) \in Int
      BY <1>2, <3>1, GrantedType, Zenon
    <3> QED
      BY <1>5, <1>6, <3>1, <3>2, <3>3, <3>4
  <2> QED
    BY <2>1, <2>2
<1>8. BudgetKept'
  <2> SUFFICES ASSUME NEW from \in 0..(elapsed + 1)
               PROVE  (granted[elapsed + 1] - IF from = 0 THEN 0 ELSE granted[from - 1]) + Refilled'
                        <= Capacity + (elapsed + 1 - from) * Refill
    BY <1>1, <1>2 DEF BudgetKept, GrantedWithin
  <2> QED
    BY <1>7 DEF GrantedWithin
<1>9. RateBounded'
  <2> SUFFICES ASSUME NEW to \in 0..(elapsed + 1), NEW from \in 0..to
               PROVE  GrantedWithin(from, to) <= Capacity + (to - from) * Refill
    BY <1>1, <1>2 DEF RateBounded, GrantedWithin
  <2>1. CASE to # elapsed + 1
    BY <1>2, <2>1 DEF RateInv, RateBounded
  <2>2. CASE to = elapsed + 1
    <3>1. GrantedWithin(from, elapsed + 1) + Refilled'
            <= Capacity + (elapsed + 1 - from) * Refill
      BY <1>7, <2>2
    <3>2. GrantedWithin(from, elapsed + 1) \in Int
      <4>1. from \in 0..MaxTime /\ elapsed + 1 \in 0..MaxTime
        BY <1>1, <1>2, <2>2
      <4> QED
        BY <4>1, GrantedType, Zenon
    <3>3. (elapsed + 1 - from) * Refill \in Int
      BY <1>2, <2>2
    <3> QED
      BY <1>2, <1>6, <2>2, <3>1, <3>2, <3>3
  <2> QED
    BY <2>1, <2>2
<1> QED
  BY <1>3, <1>8, <1>9 DEF RateInv

\* Every step keeps what is granted within the budget.
LEMMA NextRateInv == IInv /\ IInv' /\ RateInv /\ [Next]_vars => RateInv'
<1> SUFFICES ASSUME TypeOK, TypeOK', RateInv, [Next]_vars PROVE RateInv'
  BY DEF IInv
<1>1. ASSUME NEW c \in Caller, Limiter(c) PROVE RateInv'
  BY <1>1, RateLimiterStep
<1>2. CASE Time
  BY <1>2, RateTimeStep
<1>3. CASE UNCHANGED <<elapsed, wall, bucket, granted>>
  BY <1>3 DEF RateInv, ClockInv, NothingAhead, BudgetKept, RateBounded, GrantedWithin,
              Refilled, Since
<1>4. ASSUME NEW c \in Caller,
             Call(c) \/ Breaker(c) \/ Expire(c) \/ Wake(c) \/ Succeed(c) \/ WorkFails(c)
      PROVE  UNCHANGED <<elapsed, wall, bucket, granted>>
  BY <1>4 DEF Call, Breaker, Expire, Wake, Succeed, WorkFails, clockVars
<1>5. UNCHANGED vars => UNCHANGED <<elapsed, wall, bucket, granted>>
  BY DEF vars, clockVars
<1> QED
  BY <1>1, <1>2, <1>3, <1>4, <1>5 DEF Next, Step

\* Callers together get, in any stretch of real time, at most a full bucket and
\* what flows in meanwhile: for every capacity, rate and weight of operations, any
\* number of callers, and whatever is refused in between.
THEOREM RateIsBounded == Spec => []RateBounded
<1>1. Spec => [](IInv /\ RateInv)
  <2>1. Init => IInv /\ RateInv
    BY InitIInv, InitRateInv
  <2>2. IInv /\ RateInv /\ [Next]_vars => (IInv /\ RateInv)'
    BY NextIInv, NextRateInv
  <2> QED
    BY <2>1, <2>2, PTL DEF Spec
<1>2. RateInv => RateBounded
  BY DEF RateInv
<1> QED
  BY <1>1, <1>2, PTL

-------------------------------------------------------------------------------
(***************************************************************************)
(* The waits of a call.                                                    *)
(***************************************************************************)
\* `1 << n` is 1, and doubles with n.
LEMMA ShiftDoubles ==
  /\ shift[0] = 1
  /\ \A n \in 0..15 : shift[n + 1] = 2 * shift[n]
  /\ \A n \in 0..16 : shift[n] \in Nat /\ shift[n] >= 1
<1> DEFINE Eq(g, n) == g[n] = IF n = 0 THEN 1 ELSE 2 * g[n - 1]
           Good == {m \in Nat : \E g : /\ g = [n \in 0..16 |-> g[n]]
                                       /\ \A n \in 0..16 : n <= m => Eq(g, n)}
<1>1. 0 \in Good
  <2> DEFINE g == [n \in 0..16 |-> 1]
  <2>1. g = [n \in 0..16 |-> g[n]] /\ \A n \in 0..16 : n <= 0 => Eq(g, n)
    OBVIOUS
  <2> HIDE DEF g
  <2>2. \E f : f = [n \in 0..16 |-> f[n]] /\ \A n \in 0..16 : n <= 0 => Eq(f, n)
    BY <2>1, Zenon
  <2> HIDE DEF Eq
  <2> QED
    BY <2>2
<1>2. ASSUME NEW m \in Nat, m \in Good PROVE m + 1 \in Good
  <2>1. PICK g : \A n \in 0..16 : n <= m => Eq(g, n)
    BY <1>2
  <2> DEFINE h == [n \in 0..16 |-> IF n = 0 THEN 1 ELSE 2 * g[n - 1]]
  <2>2. h = [n \in 0..16 |-> h[n]]
    OBVIOUS
  <2>3. ASSUME NEW n \in 0..16, n <= m + 1 PROVE Eq(h, n)
    <3>1. CASE n = 0
      BY <3>1
    <3>2. CASE n # 0
      <4>1. n - 1 \in 0..16 /\ n - 1 <= m
        BY <2>3, <3>2
      <4>2. h[n - 1] = g[n - 1]
        BY <2>1, <4>1
      <4> QED
        BY <3>2, <4>2
    <3> QED
      BY <3>1, <3>2
  <2>4. \A n \in 0..16 : n <= m + 1 => Eq(h, n)
    BY <2>3
  <2> HIDE DEF h
  <2>5. \E f : f = [n \in 0..16 |-> f[n]] /\ \A n \in 0..16 : n <= m + 1 => Eq(f, n)
    BY <2>2, <2>4, Zenon
  <2>6. m + 1 \in Nat
    OBVIOUS
  <2> HIDE DEF Eq
  <2> QED
    BY <2>5, <2>6, Zenon
<1> HIDE DEF Good
<1>3. 16 \in Good
  BY <1>1, <1>2, NatInductionSet
<1>4. PICK f : f = [n \in 0..16 |-> f[n]] /\ \A n \in 0..16 : Eq(f, n)
  <2>1. PICK f : f = [n \in 0..16 |-> f[n]] /\ \A n \in 0..16 : n <= 16 => Eq(f, n)
    BY <1>3 DEF Good
  <2>2. \A n \in 0..16 : n <= 16
    OBVIOUS
  <2> QED
    BY <2>1, <2>2
<1>5. f = [n \in 0..16 |-> IF n = 0 THEN 1 ELSE 2 * f[n - 1]]
  BY <1>4
<1>6. shift = [n \in 0..16 |-> IF n = 0 THEN 1 ELSE 2 * shift[n - 1]]
  BY <1>5 DEF shift
<1> HIDE DEF shift
<1>7. \A n \in 0..16 : shift[n] = IF n = 0 THEN 1 ELSE 2 * shift[n - 1]
  BY <1>6
<1>8. \A n \in 0..15 : shift[n + 1] = 2 * shift[n]
  <2>1. \A n \in 0..15 : n + 1 \in 0..16 /\ n + 1 # 0 /\ (n + 1) - 1 = n
    OBVIOUS
  <2> QED
    BY <1>7, <2>1
<1>9. shift[0] = 1
  BY <1>7
<1> DEFINE Positive == {m \in Nat : m \in 0..16 => shift[m] \in Nat /\ shift[m] >= 1}
<1>10. 0 \in Positive
  BY <1>9
<1>11. ASSUME NEW m \in Nat, m \in Positive PROVE m + 1 \in Positive
  <2> SUFFICES ASSUME m + 1 \in 0..16 PROVE shift[m + 1] \in Nat /\ shift[m + 1] >= 1
    OBVIOUS
  <2>1. m \in 0..15
    OBVIOUS
  <2>2. shift[m] \in Nat /\ shift[m] >= 1 /\ shift[m + 1] = 2 * shift[m]
    BY <1>8, <1>11, <2>1
  <2> QED
    BY <2>2
<1> HIDE DEF Positive
<1>12. \A m \in 0..16 : m \in Positive
  BY <1>10, <1>11, NatInductionSet
<1> QED
  BY <1>8, <1>9, <1>12 DEF Positive

\* Products that the bounds below need.
LEMMA Products ==
  /\ \A a \in Nat, b \in Nat : a * b \in Nat
  /\ \A a \in Nat, b \in Nat : b >= 1 => a * b >= a
  /\ \A a \in Nat, b \in Nat : a * (2 * b) = 2 * (a * b)
  /\ \A a \in Nat, b \in 0..999 : a * (1000 + b) \in Nat /\ a * (1000 + b) >= 1000 * a
                                   /\ a * (1000 + b) <= 1999 * a
<1>1. \A a \in Nat, b \in Nat : a * b \in Nat
  BY Z3
<1>2. \A a \in Nat, b \in Nat : b >= 1 => a * b >= a
  BY Z3
<1>3. \A a \in Nat, b \in Nat : a * (2 * b) = 2 * (a * b)
  BY Z3
<1>4. ASSUME NEW a \in Nat, NEW b \in 0..999
      PROVE a * (1000 + b) \in Nat /\ a * (1000 + b) >= 1000 * a /\ a * (1000 + b) <= 1999 * a
  BY Z3
<1> QED
  BY <1>1, <1>2, <1>3, <1>4

\* The wait before the jitter: at least a part of the base delay, at most max_delay.
LEMMA ExponentialBounds ==
  ASSUME NEW a \in Nat
  PROVE  /\ Exponential(a) \in Nat /\ Exponential(a) <= MaxDelay
         /\ BaseDelay <= MaxDelay => Exponential(a) >= BaseDelay
         /\ BaseDelay <= MaxDelay => Exponential(0) = BaseDelay
<1> DEFINE n == IF a < 16 THEN a ELSE 16
           exp == BaseDelay * shift[n]
<1>1. n \in 0..16
  OBVIOUS
<1>2. exp \in Nat /\ exp >= BaseDelay
  BY <1>1, ShiftDoubles, Products, DelayAssumption
<1>3. Exponential(a) = IF exp < MaxDelay THEN exp ELSE MaxDelay
  BY DEF Exponential
<1> DEFINE first == BaseDelay * shift[0]
<1>4. first = BaseDelay
  BY ShiftDoubles, DelayAssumption
<1>5. Exponential(0) = IF first < MaxDelay THEN first ELSE MaxDelay
  BY DEF Exponential
<1> HIDE DEF exp, first
<1> QED
  BY <1>2, <1>3, <1>4, <1>5, DelayAssumption

\* It doubles, up to the sixteenth retry, until it reaches max_delay.
LEMMA ExponentialDoubles ==
  ASSUME NEW a \in 0..15, Exponential(a) < MaxDelay
  PROVE  Exponential(a + 1) \in {MaxDelay, 2 * Exponential(a)}
<1> DEFINE p == BaseDelay * shift[a]
           q == BaseDelay * shift[a + 1]
<1>1. q = 2 * p /\ p \in Nat
  BY ShiftDoubles, Products, DelayAssumption
<1>2. Exponential(a) = IF p < MaxDelay THEN p ELSE MaxDelay
  BY DEF Exponential
<1>3. Exponential(a + 1) = IF q < MaxDelay THEN q ELSE MaxDelay
  <2>1. (IF a + 1 < 16 THEN a + 1 ELSE 16) = a + 1
    OBVIOUS
  <2> QED
    BY <2>1 DEF Exponential
<1> HIDE DEF p, q
<1> QED
  BY <1>1, <1>2, <1>3, DelayAssumption

\* The jitter adds less than as much again.
LEMMA BackoffBounds ==
  ASSUME NEW a \in Nat
  PROVE  /\ backoff(a) \in Nat
         /\ backoff(a) >= 1000 * Exponential(a) /\ backoff(a) <= 1999 * Exponential(a)
<1>1. Seed(a) \in 0..999
  BY DEF Seed
<1>2. Exponential(a) \in Nat
  BY ExponentialBounds
<1> QED
  BY <1>1, <1>2, Products DEF backoff

\* Policies whose waits reach max_delay while the shift still grows, or that give
\* up before it stops to.
Growing ==
  /\ BaseDelay \in 1..MaxDelay
  /\ Exponential(16) = MaxDelay \/ \A c \in Caller : max_attempts[c] <= 18

\* A wait below half of max_delay is followed by a longer one.
LEMMA BackoffGrows ==
  ASSUME BaseDelay \in 1..MaxDelay, NEW a \in Nat,
         a <= 15 \/ Exponential(16) = MaxDelay, 2 * backoff(a) < MaxDelay * BackoffUnit
  PROVE  backoff(a + 1) > backoff(a)
<1> DEFINE e == Exponential(a)
           next == Exponential(a + 1)
<1>1. /\ e \in Nat /\ e >= 1 /\ next \in Nat /\ MaxDelay \in Nat
      /\ backoff(a) \in Nat /\ backoff(a) >= 1000 * e /\ backoff(a) <= 1999 * e
      /\ backoff(a + 1) \in Nat /\ backoff(a + 1) >= 1000 * next
  <2>1. a + 1 \in Nat
    OBVIOUS
  <2>2. e \in Nat /\ e >= BaseDelay /\ next \in Nat
    BY <2>1, ExponentialBounds, DelayAssumption
  <2> QED
    BY <2>1, <2>2, BackoffBounds, DelayAssumption
<1>2. backoff(a) < 1000 * MaxDelay
  BY <1>1 DEF BackoffUnit
<1>3. e < MaxDelay
  <2> HIDE DEF e
  <2> QED
    BY <1>1, <1>2
<1>4. a <= 15
  <2>1. ASSUME a >= 16, Exponential(16) = MaxDelay PROVE FALSE
    <3>1. Exponential(a) = Exponential(16)
      BY <2>1 DEF Exponential
    <3> QED
      BY <1>1, <1>3, <2>1, <3>1
  <2> QED
    BY <2>1
<1>5. next \in {MaxDelay, 2 * e}
  BY <1>3, <1>4, ExponentialDoubles
<1> HIDE DEF e, next
<1> QED
  BY <1>1, <1>2, <1>5

\* The wait of a call is that of its last failed attempt, none before the first.
WaitsKept ==
  \A c \in Caller : task[c].at # "idle" =>
    task[c].wait = IF task[c].attempt = 0 THEN 0 ELSE Wait(task[c].attempt)

\* A failure that is retried, seen from the caller's task.
LEMMA RetriedFailure ==
  ASSUME IInv, WaitsKept, NEW c \in Caller, task[c].at \notin {"idle", "sleeping"}, NEW error,
         Fails(c, error)
  PROVE  /\ \A d \in Caller : d # c => task'[d] = task[d]
         /\ \/ task'[c].at = "idle"
            \/ /\ task[c].attempt + 1 < max_attempts[c]
               /\ task'[c].attempt = task[c].attempt + 1
               /\ task'[c].wait = backoff(task[c].attempt)
<1> DEFINE attempt == task[c].attempt + 1
<1>1. task \in [Caller -> TaskType] /\ task[c] \in TaskType /\ max_attempts[c] \in Nat
      /\ task[c].attempt \in Nat
  BY DEF IInv, TypeOK, TaskType
<1>2. CASE attempt >= max_attempts[c]
  <2>1. task' = [task EXCEPT ![c] = [Idle EXCEPT !.error = error]]
    BY <1>2 DEF Fails, Goto
  <2> QED
    BY <1>1, <2>1 DEF Idle
<1>3. CASE ~(attempt >= max_attempts[c])
  <2> DEFINE next == [task[c] EXCEPT !.at = "sleeping", !.attempt = attempt,
                                     !.wait = Wait(attempt), !.error = error]
  <2>1. task' = [task EXCEPT ![c] = next]
    BY <1>3 DEF Fails, Goto
  <2>2. next.attempt = attempt /\ next.wait = Wait(attempt)
    BY <1>1 DEF TaskType
  <2>3. Wait(attempt) = backoff(task[c].attempt)
    <3>1. attempt - 1 = task[c].attempt
      BY <1>1
    <3> QED
      BY <3>1 DEF Wait
  <2> HIDE DEF next
  <2> QED
    BY <1>1, <1>3, <2>1, <2>2, <2>3
<1> QED
  BY <1>2, <1>3

\* What a step does to the waits: it starts or ends a call, moves a task with its
\* wait, or retries a failure.
LEMMA WaitSteps ==
  ASSUME IInv, WaitsKept, [Next]_vars, NEW c \in Caller
  PROVE  \/ task'[c].at = "idle"
         \/ /\ task'[c].wait = 0 /\ task'[c].attempt = 0 /\ task'[c].at = "limiter"
         \/ /\ task'[c].wait = task[c].wait /\ task'[c].attempt = task[c].attempt
            /\ task'[c].at = "sleeping" => task[c].at = "sleeping"
            /\ task[c].at # "idle"
         \/ /\ task[c].at \notin {"idle", "sleeping"}
            /\ task[c].attempt + 1 < max_attempts[c]
            /\ task'[c].attempt = task[c].attempt + 1
            /\ task'[c].wait = backoff(task[c].attempt)
<1>1. task \in [Caller -> TaskType] /\ task[c] \in TaskType
  BY DEF IInv, TypeOK
<1>2. ASSUME NEW d \in Caller, Call(d) PROVE task'[c] = task[c] \/ task'[c] = [Idle EXCEPT !.at = "limiter"]
  BY <1>1, <1>2 DEF Call, Goto
<1>3. ASSUME NEW d \in Caller, Succeed(d) PROVE task'[c] = task[c] \/ task'[c] = Idle
  BY <1>1, <1>3 DEF Succeed, Goto
<1>4. ASSUME NEW d \in Caller, NEW next \in TaskType, Goto(d, next), task[d].at # "idle",
             next.wait = task[d].wait, next.attempt = task[d].attempt, next.at # "sleeping"
      PROVE  task'[c] = task[c] \/ (/\ task'[c].wait = task[c].wait
                                    /\ task'[c].attempt = task[c].attempt
                                    /\ task'[c].at # "sleeping" /\ task[c].at # "idle")
  BY <1>1, <1>4 DEF Goto
<1>5. ASSUME NEW d \in Caller, NEW error, Fails(d, error), task[d].at \notin {"idle", "sleeping"}
      PROVE  \/ task'[c] = task[c]
             \/ task'[c].at = "idle"
             \/ /\ task[c].at \notin {"idle", "sleeping"}
                /\ task[c].attempt + 1 < max_attempts[c]
                /\ task'[c].attempt = task[c].attempt + 1
                /\ task'[c].wait = backoff(task[c].attempt)
  <2>1. CASE c = d
    BY <1>5, <2>1, RetriedFailure
  <2>2. CASE c # d
    BY <1>5, <2>2, RetriedFailure
  <2> QED
    BY <2>1, <2>2
<1>6. \A d \in Caller :
        /\ [task[d] EXCEPT !.at = "breaker"] \in TaskType
        /\ [task[d] EXCEPT !.at = "working", !.admitted = state] \in TaskType
        /\ [task[d] EXCEPT !.at = "limiter", !.error = "none"] \in TaskType
  <2>1. state \in BreakerState
    BY DEF state, IInv, TypeOK, BreakerType, BreakerState
  <2> QED
    BY <1>1, <2>1 DEF TaskType
<1> DEFINE Claimed ==
         \/ task'[c] = task[c]
         \/ task'[c].at = "idle"
         \/ /\ task'[c].wait = 0 /\ task'[c].attempt = 0 /\ task'[c].at = "limiter"
         \/ /\ task'[c].wait = task[c].wait /\ task'[c].attempt = task[c].attempt
            /\ task'[c].at # "sleeping" /\ task[c].at # "idle"
         \/ /\ task[c].at \notin {"idle", "sleeping"}
            /\ task[c].attempt + 1 < max_attempts[c]
            /\ task'[c].attempt = task[c].attempt + 1
            /\ task'[c].wait = backoff(task[c].attempt)
<1>7. ASSUME NEW d \in Caller, Call(d) \/ Succeed(d) PROVE Claimed
  BY <1>2, <1>3, <1>7 DEF Idle
<1>8. ASSUME NEW d \in Caller, NEW next \in TaskType, Goto(d, next),
             next \in {[task[d] EXCEPT !.at = "breaker"],
                       [task[d] EXCEPT !.at = "working", !.admitted = state],
                       [task[d] EXCEPT !.at = "limiter", !.error = "none"]},
             task[d].at # "idle"
      PROVE  Claimed
  <2>1. task[d] \in TaskType
    BY DEF IInv, TypeOK
  <2>2. next.wait = task[d].wait /\ next.attempt = task[d].attempt /\ next.at # "sleeping"
    BY <1>8, <2>1 DEF TaskType
  <2> QED
    BY <1>4, <1>8, <2>2
<1>9. ASSUME NEW d \in Caller, Limiter(d) PROVE Claimed
  <2>1. /\ task[d].at = "limiter"
        /\ \/ Goto(d, [task[d] EXCEPT !.at = "breaker"])
           \/ Fails(d, "RateLimited")
    BY <1>9 DEF Limiter
  <2> HIDE DEF Claimed
  <2>2. CASE Goto(d, [task[d] EXCEPT !.at = "breaker"])
    BY <1>6, <1>8, <2>1, <2>2
  <2>3. CASE Fails(d, "RateLimited")
    BY <1>5, <2>1, <2>3 DEF Claimed
  <2> QED
    BY <2>1, <2>2, <2>3
<1>10. ASSUME NEW d \in Caller, Breaker(d) PROVE Claimed
  <2>1. /\ task[d].at = "breaker"
        /\ \/ Goto(d, [task[d] EXCEPT !.at = "working", !.admitted = state])
           \/ Fails(d, "BreakerOpen")
    BY <1>10 DEF Breaker
  <2> HIDE DEF Claimed
  <2>2. CASE Goto(d, [task[d] EXCEPT !.at = "working", !.admitted = state])
    BY <1>6, <1>8, <2>1, <2>2
  <2>3. CASE Fails(d, "BreakerOpen")
    BY <1>5, <2>1, <2>3 DEF Claimed
  <2> QED
    BY <2>1, <2>2, <2>3
<1>11. ASSUME NEW d \in Caller, WorkFails(d) \/ Expire(d) PROVE Claimed
  <2>1. task[d].at = "working" /\ (Fails(d, "failed") \/ Fails(d, "TimeoutError"))
    BY <1>11 DEF WorkFails, Expire
  <2> QED
    BY <1>5, <2>1
<1>12. ASSUME NEW d \in Caller, Wake(d) PROVE Claimed
  <2>1. task[d].at = "sleeping" /\ Goto(d, [task[d] EXCEPT !.at = "limiter", !.error = "none"])
    BY <1>12 DEF Wake
  <2> HIDE DEF Claimed
  <2> QED
    BY <1>6, <1>8, <2>1
<1>13. CASE Time \/ UNCHANGED vars
  BY <1>13 DEF Time, vars
<1>14. Claimed
  <2> HIDE DEF Claimed
  <2>1. UNCHANGED task => Claimed
    BY DEF Claimed
  <2> QED
    BY <1>7, <1>9, <1>10, <1>11, <1>12, <1>13, <2>1 DEF Next, Step, Time, vars
<1> QED
  BY <1>14

\* At first nobody waits, and every step keeps the waits those of the attempts.
LEMMA WaitsInductive ==
  /\ Init => WaitsKept
  /\ IInv /\ WaitsKept /\ [Next]_vars => WaitsKept'
<1>1. Init => WaitsKept
  BY DEF Init, Idle, WaitsKept
<1>2. ASSUME IInv, WaitsKept, [Next]_vars, NEW c \in Caller, task'[c].at # "idle"
      PROVE  task'[c].wait = IF task'[c].attempt = 0 THEN 0 ELSE Wait(task'[c].attempt)
  <2>1. task[c].attempt \in Nat
    BY <1>2 DEF IInv, TypeOK, TaskType
  <2>2. (task[c].attempt + 1) - 1 = task[c].attempt /\ task[c].attempt + 1 # 0
    BY <2>1
  <2> QED
    BY <1>2, <2>2, WaitSteps DEF WaitsKept, Wait
<1> QED
  BY <1>1, <1>2 DEF WaitsKept

\* Whatever happens between them, the waits of a call start at the base delay or
\* less, are within max_delay, and grow as long as they are below half of it: for
\* every number of callers and every policy that is Growing.
THEOREM WaitsDoGrow ==
  ASSUME Growing
  PROVE  Spec => WaitsGrow
<1>1. ASSUME IInv, WaitsKept, [Next]_vars, NEW c \in Caller,
             task[c].at # "sleeping", task'[c].at = "sleeping"
      PROVE  /\ task'[c].wait <= MaxDelay * BackoffUnit
             /\ task[c].wait = 0 =>
                  task'[c].wait \in (BaseDelay * 1000)..(BaseDelay * BackoffUnit)
             /\ 2 * task[c].wait < MaxDelay * BackoffUnit => task'[c].wait > task[c].wait
  <2> DEFINE n == task[c].attempt
             last == task[c].wait
             next == task'[c].wait
  <2>1. /\ task[c].at # "idle" /\ n + 1 < max_attempts[c] /\ next = backoff(n)
        /\ n \in Nat /\ max_attempts[c] \in Nat
    <3>1. /\ task[c].at # "idle" /\ n + 1 < max_attempts[c] /\ next = backoff(n)
      BY <1>1, WaitSteps
    <3> QED
      BY <1>1, <3>1 DEF IInv, TypeOK, TaskType
  <2>2. /\ next \in Nat /\ next >= 1000 * Exponential(n) /\ next <= 1999 * Exponential(n)
        /\ Exponential(n) \in Nat /\ Exponential(n) <= MaxDelay /\ Exponential(n) >= BaseDelay
        /\ Exponential(0) = BaseDelay /\ BaseDelay \in Nat /\ BaseDelay >= 1 /\ MaxDelay \in Nat
    BY <2>1, BackoffBounds, ExponentialBounds, DelayAssumption DEF Growing
  <2>3. next <= MaxDelay * BackoffUnit
    <3> HIDE DEF next
    <3> QED
      BY <2>2 DEF BackoffUnit
  <2>4. CASE n = 0
    <3>1. last = 0
      BY <1>1, <2>1, <2>4 DEF WaitsKept
    <3>2. Exponential(n) = BaseDelay
      BY <2>2, <2>4
    <3> HIDE DEF next, last, n
    <3>3. next \in (BaseDelay * 1000)..(BaseDelay * BackoffUnit) /\ next > last
      BY <2>2, <3>1, <3>2 DEF BackoffUnit
    <3> QED
      BY <2>3, <3>3 DEF next, last
  <2>5. CASE n # 0
    <3>1. last = backoff(n - 1) /\ n - 1 \in Nat /\ (n - 1) + 1 = n
      BY <1>1, <2>1, <2>5 DEF WaitsKept, Wait
    <3>2. last \in Nat /\ last >= 1
      <4>1. /\ last >= 1000 * Exponential(n - 1) /\ Exponential(n - 1) >= BaseDelay
            /\ Exponential(n - 1) \in Nat /\ last \in Nat
        BY <2>2, <3>1, BackoffBounds, ExponentialBounds
      <4> HIDE DEF last
      <4> QED
        BY <2>2, <4>1
    <3>3. n - 1 <= 15 \/ Exponential(16) = MaxDelay
      BY <2>1 DEF Growing
    <3>4. 2 * last < MaxDelay * BackoffUnit => next > last
      BY <2>1, <3>1, <3>3, BackoffGrows DEF Growing
    <3> HIDE DEF next, last
    <3>5. last # 0
      BY <3>2
    <3> QED
      BY <2>3, <3>4, <3>5 DEF next, last
  <2> QED
    BY <2>4, <2>5
<1> DEFINE Grow == \A c \in Caller : (task[c].at # "sleeping" /\ task'[c].at = "sleeping") =>
              LET last == task[c].wait
                  next == task'[c].wait
              IN  /\ next <= MaxDelay * BackoffUnit
                  /\ last = 0 => next \in (BaseDelay * 1000)..(BaseDelay * BackoffUnit)
                  /\ 2 * last < MaxDelay * BackoffUnit => next > last
<1>2. ASSUME IInv, WaitsKept, [Next]_vars PROVE [Grow]_task
  BY <1>1, <1>2
<1>3. Init => IInv /\ WaitsKept
  BY InitIInv, WaitsInductive
<1>4. IInv /\ WaitsKept /\ [Next]_vars => (IInv /\ WaitsKept)'
  BY NextIInv, WaitsInductive
<1> HIDE DEF Grow
<1>5. Spec => [][Grow]_task
  BY <1>2, <1>3, <1>4, PTL DEF Spec
<1> QED
  BY <1>5 DEF WaitsGrow, Grow

===============================================================================
