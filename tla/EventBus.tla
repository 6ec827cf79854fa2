------------------------------- MODULE EventBus -------------------------------
(***************************************************************************)
(* BroadcastBus (infra/src/lib.rs): a ring of the last events, which every *)
(* subscriber reads at its own pace.  Who falls further behind than the    *)
(* ring reaches has lost the oldest of what it has yet to read; how much   *)
(* more it has lost makes no difference.                                   *)
(***************************************************************************)
EXTENDS Integers, SequencesExt

CONSTANTS
  Subscriber,  \* streams that may read the bus
  capacity     \* of the ring, as asked for

ASSUME BusAssumption == capacity \in Nat \ {0}

VARIABLES
  ring,   \* the last events
  behind  \* events each subscriber has yet to read, or Unsubscribed

Unsubscribed == -1

PowerOfTwo[n \in 0..capacity] == IF n = 0 THEN 1 ELSE 2 * PowerOfTwo[n - 1]

\* The channel rounds its capacity up to a power of two.
RingSize == Min({size \in {PowerOfTwo[n] : n \in 0..capacity} : size >= capacity})

BusInit == ring = << >> /\ behind = [s \in Subscriber |-> Unsubscribed]

\* The ring keeps what some subscriber has yet to read.
Keep(events) ==
  LET unread == Max({0} \cup {behind'[s] : s \in Subscriber})
  IN  ring' = SubSeq(events, Max({1, Len(events) - Min({unread, RingSize}) + 1}), Len(events))

\* publish(): what nobody listens to is dropped.
publish(event) ==
  /\ behind' = [s \in Subscriber |->
                   IF behind[s] \in 0..RingSize THEN behind[s] + 1 ELSE behind[s]]
  /\ Keep(Append(ring, event))

subscribe(s) ==
  behind[s] = Unsubscribed /\ behind' = [behind EXCEPT ![s] = 0] /\ UNCHANGED ring

unsubscribe(s) ==
  behind[s] # Unsubscribed /\ behind' = [behind EXCEPT ![s] = Unsubscribed] /\ Keep(ring)

\* The notice of lost events is filtered out of the stream, which goes on with
\* the oldest event there is.
Lag(s) ==
  behind[s] > RingSize /\ behind' = [behind EXCEPT ![s] = RingSize] /\ UNCHANGED ring

Received(s) == ring[Len(ring) - behind[s] + 1]
Receive(s) ==
  behind[s] \in 1..RingSize /\ behind' = [behind EXCEPT ![s] = @ - 1] /\ Keep(ring)

===============================================================================
