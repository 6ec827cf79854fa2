--------------------------------- MODULE Node ---------------------------------
(***************************************************************************)
(* One process of node/src: the identity service and its keeper, the bus   *)
(* its events go through and the subscribers of the API.                   *)
(*                                                                         *)
(* A subscriber is a client that notes, per issuer, the root that the last *)
(* event it received names.                                                *)
(***************************************************************************)
EXTENDS IdentityEngine, EventBus

VARIABLES
  view,  \* the roots each subscriber knows
  lost   \* the subscribers whose stream has skipped events

nodeVars == <<vars, ring, behind, view, lost>>

NoRoots == [i \in IssuerKey |-> Missing]

NodeInit ==
  /\ Init /\ BusInit
  /\ view = [s \in Subscriber |-> NoRoots]
  /\ lost = {}

\* A step of the service, which goes on to the bus when it is a publication.
Serve ==
  /\ Next
  /\ LET publishing == {t \in Caller \cup {Poller} :
                          task[t].at = "publish" /\ task'[t].at # "publish"}
     IN  IF publishing = {} THEN UNCHANGED <<ring, behind>>
         ELSE \A t \in publishing : publish(task[t].event)
  /\ UNCHANGED <<view, lost>>

\* The subscription attestation_events.
Subscribe(s) ==
  /\ subscribe(s)
  /\ UNCHANGED <<vars, view, lost>>

\* A client that is gone starts anew when it returns.
Disconnect(s) ==
  /\ unsubscribe(s)
  /\ view' = [view EXCEPT ![s] = NoRoots] /\ lost' = lost \ {s}
  /\ UNCHANGED vars

\* The stream passes over a notice of lost events, and hands on the others.
Follow(s) ==
  /\ \/ Lag(s) /\ lost' = lost \cup {s} /\ UNCHANGED view
     \/ /\ Receive(s)
        /\ UNCHANGED lost
        /\ view' = IF Received(s).event \in {"IssuerIndexed", "TreeBuilt"}
                   THEN [view EXCEPT ![s][Received(s).issuer] = Received(s).root]
                   ELSE view
  /\ UNCHANGED vars

NodeNext ==
  \/ Serve
  \/ \E s \in Subscriber : Subscribe(s) \/ Disconnect(s) \/ Follow(s)

NodeSpec == NodeInit /\ [][NodeNext]_nodeVars

-------------------------------------------------------------------------------
(***************************************************************************)
(* Properties.                                                             *)
(***************************************************************************)
Settled(i) ==
  /\ Resting(i)
  /\ \A t \in Caller \cup {Poller} :
       (task[t].at = "publish" /\ "issuer" \in DOMAIN task[t].event) => task[t].event.issuer # i

\* A subscriber whose stream has skipped nothing knows, once it has read all
\* there is and no call on the issuer is under way, the root of each issuer it has
\* heard of: no event is missing, stale or out of order.  No two tasks may write
\* the issuer, which is up to the clients: theirs would cross.
FeedCatchesUp ==
  \A s \in Subscriber, i \in IssuerKey :
    (behind[s] = 0 /\ s \notin lost /\ view[s][i] # Missing /\ Settled(i)) =>
      issuers[i] # Missing /\ view[s][i] = issuers[i].merkle_root

===============================================================================
