------------------------------ MODULE NodeProofs ------------------------------
(***************************************************************************)
(* Proofs about Node: the service is one of IdentityEngine, and what comes *)
(* out of the bus is what the stores hold, for every capacity of the ring  *)
(* and every number of subscribers.                                        *)
(***************************************************************************)
EXTENDS Node, IdentityEngineProofs, SequenceTheorems

USE KeyAssumption, BoundAssumption, BusAssumption

\* The bus, the stores and the tasks of a node step are those of the service.
LEMMA ServiceSteps ==
  /\ NodeInit => Init
  /\ [NodeNext]_nodeVars => [Next]_vars
BY DEF NodeInit, NodeNext, Serve, Subscribe, Disconnect, Follow, nodeVars

\* A node's service is the service by itself: what is proved of Spec holds of it,
\* the bus and its subscribers never hold it up or change what it does.
THEOREM NodeServes == NodeSpec => Spec
BY ServiceSteps, PTL DEF NodeSpec, Spec

-------------------------------------------------------------------------------
(***************************************************************************)
(* The ring.                                                               *)
(***************************************************************************)
\* The greatest element of a set of numbers that has one and is bounded.
LEMMA MaxIsGreatest ==
  ASSUME NEW B \in Nat, NEW T \in SUBSET ((-1)..B), 0 \in T
  PROVE  Max(T) \in T /\ Max(T) \in Nat /\ \A x \in T : x <= Max(T)
<1> DEFINE Below == {B - x : x \in T}
<1>1. Below \in SUBSET Nat /\ Below # {}
  OBVIOUS
<1>2. PICK n \in Below : \A m \in Below : n <= m
  BY <1>1, Smallest
<1>3. PICK x \in T : n = B - x
  OBVIOUS
<1>4. \A y \in T : x >= y
  <2> SUFFICES ASSUME NEW y \in T PROVE x >= y
    OBVIOUS
  <2>1. n <= B - y
    BY <1>2
  <2> QED
    BY <1>3, <2>1
<1>5. Max(T) \in T /\ \A y \in T : Max(T) >= y
  BY <1>4 DEF Max
<1> DEFINE greatest == Max(T)
<1>6. greatest \in (-1)..B /\ greatest >= 0
  BY <1>5
<1> HIDE DEF greatest
<1>7. greatest \in Nat /\ \A t \in T : t \in Int
  BY <1>6
<1>8. \A t \in T : t <= greatest
  <2>1. \A t \in T : greatest >= t
    BY <1>5 DEF greatest
  <2> QED
    BY <1>7, <2>1
<1> QED
  BY <1>5, <1>7, <1>8 DEF greatest

\* The lesser and the greater of two numbers.
LEMMA OfTwo ==
  ASSUME NEW a \in Int, NEW b \in Int
  PROVE  /\ Min({a, b}) = IF a <= b THEN a ELSE b
         /\ Max({a, b}) = IF a <= b THEN b ELSE a
<1>1. \E x \in {a, b} : \A y \in {a, b} : x <= y
  OBVIOUS
<1>2. \E x \in {a, b} : \A y \in {a, b} : x >= y
  OBVIOUS
<1>3. Min({a, b}) \in {a, b} /\ Min({a, b}) <= a /\ Min({a, b}) <= b
  BY <1>1 DEF Min
<1>4. Max({a, b}) \in {a, b} /\ Max({a, b}) >= a /\ Max({a, b}) >= b
  BY <1>2 DEF Max
<1> QED
  BY <1>3, <1>4

\* The powers of two outgrow their exponents.
LEMMA PowersGrow == \A n \in 0..capacity : PowerOfTwo[n] \in Nat /\ PowerOfTwo[n] >= n + 1
<1> DEFINE Eq(g, n) == g[n] = IF n = 0 THEN 1 ELSE 2 * g[n - 1]
           Good == {m \in Nat : \E g : /\ g = [n \in 0..capacity |-> g[n]]
                                       /\ \A n \in 0..capacity : n <= m => Eq(g, n)}
<1>1. 0 \in Good
  <2> DEFINE g == [n \in 0..capacity |-> 1]
  <2>1. g = [n \in 0..capacity |-> g[n]] /\ \A n \in 0..capacity : n <= 0 => Eq(g, n)
    OBVIOUS
  <2> HIDE DEF g
  <2>2. \E f : f = [n \in 0..capacity |-> f[n]] /\ \A n \in 0..capacity : n <= 0 => Eq(f, n)
    BY <2>1, Zenon
  <2> HIDE DEF Eq
  <2> QED
    BY <2>2
<1>2. ASSUME NEW m \in Nat, m \in Good PROVE m + 1 \in Good
  <2>1. PICK g : \A n \in 0..capacity : n <= m => Eq(g, n)
    BY <1>2
  <2> DEFINE h == [n \in 0..capacity |-> IF n = 0 THEN 1 ELSE 2 * g[n - 1]]
  <2>2. h = [n \in 0..capacity |-> h[n]]
    OBVIOUS
  <2>3. ASSUME NEW n \in 0..capacity, n <= m + 1 PROVE Eq(h, n)
    <3>1. CASE n = 0
      BY <3>1
    <3>2. CASE n # 0
      <4>1. n - 1 \in 0..capacity /\ n - 1 <= m
        BY <2>3, <3>2
      <4>2. h[n - 1] = g[n - 1]
        BY <2>1, <4>1
      <4> QED
        BY <3>2, <4>2
    <3> QED
      BY <3>1, <3>2
  <2>4. \A n \in 0..capacity : n <= m + 1 => Eq(h, n)
    BY <2>3
  <2> HIDE DEF h
  <2>5. \E f : f = [n \in 0..capacity |-> f[n]] /\ \A n \in 0..capacity : n <= m + 1 => Eq(f, n)
    BY <2>2, <2>4, Zenon
  <2>6. m + 1 \in Nat
    OBVIOUS
  <2> HIDE DEF Eq
  <2> QED
    BY <2>5, <2>6, Zenon
<1> HIDE DEF Good
<1>3. capacity \in Good
  BY <1>1, <1>2, NatInductionSet
<1>4. PICK f : f = [n \in 0..capacity |-> f[n]] /\ \A n \in 0..capacity : Eq(f, n)
  <2>1. PICK f : f = [n \in 0..capacity |-> f[n]] /\ \A n \in 0..capacity : n <= capacity => Eq(f, n)
    BY <1>3 DEF Good
  <2>2. \A n \in 0..capacity : n <= capacity
    OBVIOUS
  <2> QED
    BY <2>1, <2>2
<1>5. f = [n \in 0..capacity |-> IF n = 0 THEN 1 ELSE 2 * f[n - 1]]
  BY <1>4
<1>6. PowerOfTwo = [n \in 0..capacity |-> IF n = 0 THEN 1 ELSE 2 * PowerOfTwo[n - 1]]
  BY <1>5 DEF PowerOfTwo
<1>7. \A n \in 0..capacity : PowerOfTwo[n] = IF n = 0 THEN 1 ELSE 2 * PowerOfTwo[n - 1]
  BY <1>6
<1> DEFINE Grows == {n \in Nat : n \in 0..capacity => PowerOfTwo[n] \in Nat /\ PowerOfTwo[n] >= n + 1}
<1>8. 0 \in Grows
  BY <1>7
<1>9. ASSUME NEW n \in Nat, n \in Grows PROVE n + 1 \in Grows
  <2> SUFFICES ASSUME n + 1 \in 0..capacity
               PROVE  PowerOfTwo[n + 1] \in Nat /\ PowerOfTwo[n + 1] >= (n + 1) + 1
    OBVIOUS
  <2>1. n \in 0..capacity /\ n + 1 # 0 /\ (n + 1) - 1 = n
    OBVIOUS
  <2>2. PowerOfTwo[n] \in Nat /\ PowerOfTwo[n] >= n + 1
    BY <1>9, <2>1
  <2>3. PowerOfTwo[n + 1] = 2 * PowerOfTwo[n]
    BY <1>7, <2>1
  <2> QED
    BY <2>2, <2>3
<1> HIDE DEF Grows
<1>10. \A n \in 0..capacity : n \in Grows
  BY <1>8, <1>9, NatInductionSet
<1> QED
  BY <1>10 DEF Grows

\* The ring holds at least what was asked for.
LEMMA RingSizeNat == RingSize \in Nat /\ RingSize >= capacity
<1> DEFINE Sizes == {size \in {PowerOfTwo[n] : n \in 0..capacity} : size >= capacity}
<1>1. capacity \in 0..capacity
  OBVIOUS
<1>2. PowerOfTwo[capacity] \in Sizes
  BY <1>1, PowersGrow
<1>3. Sizes \in SUBSET Nat
  BY PowersGrow
<1>4. \E x \in Sizes : \A y \in Sizes : x <= y
  <2> HIDE DEF Sizes
  <2> QED
    BY <1>2, <1>3, Smallest
<1>5. RingSize \in Sizes
  <2>1. RingSize = CHOOSE x \in Sizes : \A y \in Sizes : x <= y
    BY DEF RingSize, Min
  <2> HIDE DEF Sizes
  <2> QED
    BY <1>4, <2>1
<1> QED
  BY <1>3, <1>5

\* The event that is the n-th from the end of some, the newest being the first.
Newest(events, n) == events[Len(events) - n + 1]

\* How far back a subscriber that has b events to read can read.
Reach(b) == IF b > RingSize THEN RingSize ELSE b

IsSequence(events) == \E S : events \in Seq(S)

\* What is in the ring reaches back as far as the subscribers can.
RingKept ==
  /\ IsSequence(ring)
  /\ behind \in [Subscriber -> (-1)..(RingSize + 1)]
  /\ \A s \in Subscriber : Reach(behind[s]) <= Len(ring)

\* What the ring keeps of some events is their end, and nobody loses an event to it
\* that the ring is long enough for.
LEMMA KeepNewest ==
  ASSUME NEW events, IsSequence(events), Keep(events),
         behind' \in [Subscriber -> (-1)..(RingSize + 1)],
         \A s \in Subscriber : Reach(behind'[s]) <= Len(events)
  PROVE  /\ RingKept'
         /\ Len(ring') \in Nat /\ Len(ring') <= Len(events)
         /\ \A n \in 1..Len(ring') : Newest(ring', n) = Newest(events, n)
<1> DEFINE Unread == {0} \cup {behind'[s] : s \in Subscriber}
           unread == Max(Unread)
           u == Min({unread, RingSize})
           len == Len(events)
           from == Max({1, len - u + 1})
<1>1. PICK S : events \in Seq(S)
  BY DEF IsSequence
<1>2. len \in Nat /\ RingSize \in Nat /\ RingSize + 1 \in Nat
  BY <1>1, RingSizeNat
<1>3. unread \in Nat /\ \A s \in Subscriber : behind'[s] <= unread
  <2>1. Unread \in SUBSET ((-1)..(RingSize + 1)) /\ 0 \in Unread
    BY <1>2
  <2>2. \A s \in Subscriber : behind'[s] \in Unread
    OBVIOUS
  <2> HIDE DEF Unread
  <2> QED
    BY <1>2, <2>1, <2>2, MaxIsGreatest
<1>4. ring' = SubSeq(events, from, len)
  BY DEF Keep
<1> HIDE DEF unread, len
<1>5. u = (IF unread <= RingSize THEN unread ELSE RingSize) /\ u \in Nat
  BY <1>2, <1>3, OfTwo
<1> HIDE DEF u
<1>6. from = (IF 1 <= len - u + 1 THEN len - u + 1 ELSE 1) /\ from \in Int
  <2> DEFINE start == len - u + 1
  <2>1. start \in Int
    BY <1>2, <1>5
  <2> HIDE DEF start
  <2>2. Max({1, start}) = IF 1 <= start THEN start ELSE 1
    <3>1. 1 \in Int
      OBVIOUS
    <3> QED
      BY <2>1, <3>1, OfTwo, Zenon
  <2>3. from = Max({1, start})
    BY DEF from, start
  <2>4. from = (IF 1 <= start THEN start ELSE 1) /\ from \in Int
    BY <2>1, <2>2, <2>3
  <2> QED
    BY <2>4 DEF start
<1> HIDE DEF from
<1>7. \A i \in from..len : events[i] \in S
  <2>1. \A i \in 1..len : events[i] \in S
    BY <1>1 DEF len
  <2> QED
    BY <1>2, <1>5, <1>6, <2>1
<1>8. /\ ring' \in Seq(S) /\ Len(ring') = (IF from <= len THEN len - from + 1 ELSE 0)
      /\ \A i \in 1..(len - from + 1) : ring'[i] = events[from + i - 1]
  BY <1>2, <1>4, <1>6, <1>7, SubSeqProperties
<1>9. Len(ring') = IF u <= len THEN u ELSE len
  <2> DEFINE kept == Len(ring')
  <2>1. kept = (IF from <= len THEN len - from + 1 ELSE 0)
    BY <1>8
  <2> HIDE DEF kept
  <2>2. kept = IF u <= len THEN u ELSE len
    BY <1>2, <1>5, <1>6, <2>1
  <2> QED
    BY <2>2 DEF kept
<1>10. ASSUME NEW n \in 1..Len(ring') PROVE Newest(ring', n) = Newest(events, n)
  <2> DEFINE kept == Len(ring')
  <2>1. kept \in Nat /\ n \in 1..kept /\ kept = (IF u <= len THEN u ELSE len)
    BY <1>2, <1>5, <1>9
  <2> HIDE DEF kept
  <2>2. /\ kept - n + 1 \in 1..(len - from + 1)
        /\ from + (kept - n + 1) - 1 = len - n + 1
    BY <1>2, <1>5, <1>6, <2>1
  <2>3. ring'[kept - n + 1] = events[len - n + 1]
    BY <1>8, <2>2
  <2> QED
    BY <2>3 DEF Newest, kept, len
<1>11. ASSUME NEW s \in Subscriber PROVE Reach(behind'[s]) <= Len(ring')
  <2> DEFINE kept == Len(ring')
             b == behind'[s]
             reach == Reach(b)
  <2>1. b \in Int /\ b <= unread /\ reach <= len /\ reach = (IF b > RingSize THEN RingSize ELSE b)
    BY <1>3 DEF Reach, len
  <2>2. kept = (IF u <= len THEN u ELSE len)
    BY <1>9
  <2> HIDE DEF kept, b, reach
  <2>3. reach <= kept
    BY <1>2, <1>3, <1>5, <2>1, <2>2
  <2> QED
    BY <2>3 DEF kept, reach, b
<1>12. Len(ring') \in Nat /\ Len(ring') <= len
  <2> DEFINE kept == Len(ring')
  <2>1. kept = (IF u <= len THEN u ELSE len)
    BY <1>9
  <2> HIDE DEF kept
  <2>2. kept \in Nat /\ kept <= len
    BY <1>2, <1>5, <2>1
  <2> QED
    BY <2>2 DEF kept
<1>13. RingKept'
  <2>1. IsSequence(ring)'
    BY <1>8 DEF IsSequence
  <2>2. (\A s \in Subscriber : Reach(behind[s]) <= Len(ring))'
    BY <1>11 DEF Reach
  <2> QED
    BY <2>1, <2>2 DEF RingKept
<1> QED
  BY <1>10, <1>12, <1>13 DEF len

-------------------------------------------------------------------------------
(***************************************************************************)
(* What a step of the service publishes.                                   *)
(***************************************************************************)
\* An event that names the root of issuer i.
NamesRoot(e, i) == e.event \in {"IssuerIndexed", "TreeBuilt"} /\ e.issuer = i

\* The event of a write of i is yet to be published.
Announced(i) == \E t \in Task : task[t].at = "publish" /\ NamesRoot(task[t].event, i)

\* Such an event is the writer's, and what it says is what the store holds.
AnnouncedRoots ==
  \A t \in Task, i \in IssuerKey :
    (task[t].at = "publish" /\ NamesRoot(task[t].event, i)) =>
      /\ issuers[i] # Missing /\ issuers[i].merkle_root = task[t].event.root
      /\ "issuer" \in DOMAIN task[t].event
      /\ i \in SourceIssuer <=> t = Poller
      /\ t # Poller => Writes(t, i)

\* A task that writes an issuer is the only one to.
LEMMA OnlyWriter ==
  ASSUME OneWriter, IInv, WritersApart, NEW t \in Task,
         task[t].at \in {"ingest_issuer", "write_root"}
  PROVE  /\ task[t].issuer \in IssuerKey
         /\ task[t].issuer \in SourceIssuer <=> t = Poller
         /\ t # Poller => Writes(t, task[t].issuer)
         /\ \A c \in Caller : Writes(c, task[t].issuer) => c = t
<1>1. CASE t = Poller
  BY <1>1 DEF IInv, TasksTyped, PollerTask, Item, OneWriter, ClientsKeepApart
<1>2. CASE t \in Caller
  BY <1>2, WritesAlone DEF Writing
<1> QED
  BY <1>1, <1>2 DEF Task

\* A write and the event made of it.
LEMMA WriteAnnounces ==
  ASSUME OneWriter, IInv, WritersApart, AnnouncedRoots, NEW t \in Task,
         task[t].at \in {"ingest_issuer", "write_root"},
         NEW stored, stored # Missing, NEW e, NEW result,
         NamesRoot(e, task[t].issuer), e.root = stored.merkle_root, "issuer" \in DOMAIN e,
         issuers' = [issuers EXCEPT ![task[t].issuer] = stored],
         Goto(t, Publishing(e, result))
  PROVE  AnnouncedRoots' /\ \A i \in IssuerKey : issuers'[i] # issuers[i] => Announced(i)'
<1> DEFINE j == task[t].issuer
<1>1. /\ j \in IssuerKey /\ (j \in SourceIssuer <=> t = Poller)
      /\ t # Poller => Writes(t, j)
      /\ \A c \in Caller : Writes(c, j) => c = t
  BY OnlyWriter
<1>2. /\ task'[t] = Publishing(e, result)
      /\ \A u \in Task : u # t => task'[u] = task[u]
  BY GotoTask DEF IInv, TasksTyped
<1>3. /\ task'[t].at = "publish" /\ task'[t].event = e
  BY <1>2 DEF Publishing
<1>4. /\ issuers'[j] = stored
      /\ \A i \in IssuerKey : i # j => issuers'[i] = issuers[i]
  BY <1>1 DEF IInv, StoresTyped
<1>5. ASSUME NEW u \in Task, NEW i \in IssuerKey,
             task'[u].at = "publish", NamesRoot(task'[u].event, i)
      PROVE  /\ issuers'[i] # Missing /\ issuers'[i].merkle_root = task'[u].event.root
             /\ "issuer" \in DOMAIN task'[u].event
             /\ i \in SourceIssuer <=> u = Poller
             /\ u # Poller => Writes(u, i)
  <2>1. CASE u = t
    <3>1. i = j
      BY <1>3, <1>5, <2>1 DEF NamesRoot
    <3> QED
      BY <1>1, <1>3, <1>4, <2>1, <3>1
  <2>2. CASE u # t
    <3>1. task'[u] = task[u]
      BY <1>2, <2>2
    <3>2. (i \in SourceIssuer <=> u = Poller) /\ (u # Poller => Writes(u, i))
      BY <1>5, <3>1 DEF AnnouncedRoots
    <3>3. i # j
      BY <1>1, <2>2, <3>2 DEF Task
    <3> QED
      BY <1>4, <1>5, <3>1, <3>3 DEF AnnouncedRoots
  <2> QED
    BY <2>1, <2>2
<1>6. ASSUME NEW i \in IssuerKey, i = j PROVE Announced(i)'
  BY <1>3, <1>6 DEF Announced, NamesRoot, Task
<1> QED
  <2>1. AnnouncedRoots'
    BY <1>5 DEF AnnouncedRoots, NamesRoot, Task
  <2>2. \A i \in IssuerKey : issuers'[i] # issuers[i] => i = j
    BY <1>4
  <2> QED
    BY <1>6, <2>1, <2>2

\* A step of a task that neither writes an issuer nor publishes an event of one.
LEMMA QuietMove ==
  ASSUME IInv, AnnouncedRoots, NEW t \in Task, NEW next, Goto(t, next), UNCHANGED issuers,
         \A i \in IssuerKey : ~(next.at = "publish" /\ NamesRoot(next.event, i))
  PROVE  AnnouncedRoots' /\ \A i \in IssuerKey : issuers'[i] # issuers[i] => Announced(i)'
<1>1. /\ task'[t] = next
      /\ \A u \in Task : u # t => task'[u] = task[u]
  BY GotoTask DEF IInv, TasksTyped
<1> QED
  BY <1>1 DEF AnnouncedRoots

\* Stores and events to be published agree, and an issuer that changes has its
\* event to come.
LEMMA ServiceAnnounces ==
  ASSUME OneWriter, IInv, WritersApart, AnnouncedRoots, Next
  PROVE  AnnouncedRoots' /\ \A i \in IssuerKey : issuers'[i] # issuers[i] => Announced(i)'
<1> DEFINE Done == AnnouncedRoots' /\ \A i \in IssuerKey : issuers'[i] # issuers[i] => Announced(i)'
<1> HIDE DEF Done
<1>0. /\ Caller \subseteq Task /\ Poller \in Task
      /\ \A i \in IssuerKey : ~(Idle.at = "publish" /\ NamesRoot(Idle.event, i))
  BY DEF Task, Idle
<1>1. ASSUME NEW t \in Task, ingest_issuer(t) PROVE Done
  <2> DEFINE i == task[t].issuer
             view_ == task[t].view
             e == IssuerIndexed(i, view_)
  <2>1. /\ task[t].at = "ingest_issuer" /\ issuers' = [issuers EXCEPT ![i] = view_]
        /\ Goto(t, Publishing(e, [result |-> "ok"]))
    BY <1>1 DEF ingest_issuer, UpsertIssuer
  <2>2. NamesRoot(e, i) /\ e.root = view_.merkle_root /\ "issuer" \in DOMAIN e
    BY DEF NamesRoot, IssuerIndexed
  <2>3. view_ # Missing
    BY <2>1, MissingAssumption DEF IInv, TasksTyped, PollerTask, Item, ClientTask, Task
  <2> HIDE DEF e, view_
  <2> QED
    BY <2>1, <2>2, <2>3, WriteAnnounces DEF Done
<1>2. ASSUME NEW t \in Task, BuildTreeUpsert(t) PROVE Done
  <2> DEFINE i == task[t].issuer
             built == root(from_leaves(task[t].leaves))
             view_ == [task[t].view EXCEPT !.merkle_root = built]
             e == TreeBuilt(i, built, task[t].leaves)
  <2>1. /\ task[t].at = "write_root" /\ issuers' = [issuers EXCEPT ![i] = view_]
        /\ Goto(t, Publishing(e, [result |-> "ok"]))
    BY <1>2 DEF BuildTreeUpsert, UpsertIssuer
  <2>2. task[t].view \in IssuerView /\ task[t].leaves \in LeafSet
    BY <2>1 DEF IInv, TasksTyped, PollerTask, Item, ClientTask, Task
  <2>3. built \in Roots
    BY <2>2, RootTyped
  <2> HIDE DEF built
  <2>4. view_ \in IssuerView /\ view_.merkle_root = built
    BY <2>2, <2>3 DEF IssuerView
  <2>5. NamesRoot(e, i) /\ e.root = built /\ "issuer" \in DOMAIN e
    BY DEF NamesRoot, TreeBuilt
  <2>6. view_ # Missing
    BY <2>4, MissingAssumption
  <2> HIDE DEF e, view_
  <2> QED
    BY <2>1, <2>4, <2>5, <2>6, WriteAnnounces DEF Done
<1>3. ASSUME NEW t \in Task, ingest_identity(t) PROVE Done
  <2> DEFINE e == IdentityIndexed(task[t].identity, task[t].view)
  <2>1. Goto(t, Publishing(e, [result |-> "ok"])) /\ UNCHANGED issuers
    BY <1>3 DEF ingest_identity
  <2>2. \A i \in IssuerKey : ~NamesRoot(Publishing(e, [result |-> "ok"]).event, i)
    BY DEF NamesRoot, IdentityIndexed, Publishing
  <2> HIDE DEF e
  <2> QED
    BY <2>1, <2>2, QuietMove DEF Done
<1>4. ASSUME NEW t \in Task, VerifyProof(t) PROVE Done
  <2> DEFINE valid == mirror_verify(task[t].proof, issuers[task[t].issuer].merkle_root)
             e == [event |-> "ProofVerified", issuer |-> task[t].issuer, valid |-> valid]
             next == Publishing(e, [result |-> "verified", valid |-> valid])
  <2>1. (Goto(t, next) \/ Goto(t, Idle)) /\ UNCHANGED issuers
    BY <1>4 DEF VerifyProof
  <2>2. \A i \in IssuerKey : ~NamesRoot(next.event, i)
    BY DEF NamesRoot, Publishing
  <2> HIDE DEF next
  <2> QED
    BY <1>0, <2>1, <2>2, QuietMove DEF Done
<1>5. ASSUME NEW t \in Task, BuildTreeRead(t) \/ BuildTreePutLeaves(t) PROVE Done
  <2> DEFINE next1 == Building(t, "put_leaves", issuers[task[t].issuer])
             next2 == Building(t, "write_root", task[t].view)
  <2>1. (Goto(t, next1) \/ Goto(t, next2) \/ Goto(t, Idle)) /\ UNCHANGED issuers
    BY <1>5 DEF BuildTreeRead, BuildTreePutLeaves
  <2>2. next1.at # "publish" /\ next2.at # "publish"
    BY DEF Building
  <2> HIDE DEF next1, next2
  <2> QED
    BY <1>0, <2>1, <2>2, QuietMove DEF Done
<1>6. ASSUME NEW t \in Task, Publish(t) \/ Prove(t) PROVE Done
  <2>1. Goto(t, Idle) /\ UNCHANGED issuers
    BY <1>6 DEF Publish, Prove
  <2> QED
    BY <1>0, <2>1, QuietMove DEF Done
<1>7. ASSUME NEW c \in Caller, Request(c) PROVE Done
  <2>1. PICK next : Goto(c, next) /\ next.at # "publish" /\ UNCHANGED issuers
    <3>1. \A call \in Call[c] : call.at # "publish"
      BY CallAssumption
    <3>2. CASE \E call \in Call[c] : Goto(c, call)
      BY <1>7, <3>1, <3>2 DEF Request
    <3>3. CASE Goto(c, [at |-> "verify_proof", issuer |-> reply[c].issuer,
                        proof |-> reply[c].proof])
      BY <1>7, <3>3 DEF Request
    <3> QED
      BY <1>7, <3>2, <3>3 DEF Request
  <2> QED
    BY <1>0, <2>1, QuietMove DEF Done
<1>8. CASE PollIdentities \/ PollIssuers \/ PollFails
  <2>1. (Goto(Poller, Idle) \/ Goto(Poller, [at |-> "poll_issuers"])) /\ UNCHANGED issuers
    BY <1>8 DEF PollIdentities, PollIssuers, PollFails
  <2> QED
    BY <1>0, <2>1, QuietMove DEF Done
<1>9. CASE IngestNext
  <2>1. PICK item \in todo : Goto(Poller, item) /\ UNCHANGED issuers
    BY <1>9 DEF IngestNext
  <2>2. item.at # "publish"
    BY DEF IInv, TasksTyped, Item
  <2> QED
    BY <1>0, <2>1, <2>2, QuietMove DEF Done
<1>10. CASE ClaimOnChain \/ PublishRootOnChain
  <2>1. UNCHANGED <<task, issuers>>
    BY <1>10 DEF ClaimOnChain, PublishRootOnChain
  <2> QED
    BY <2>1 DEF Done, AnnouncedRoots
<1> QED
  BY <1>1, <1>2, <1>3, <1>4, <1>5, <1>6, <1>7, <1>8, <1>9, <1>10 DEF Next, Step, Task, Done

\* A task with an event to publish does nothing else, and keeps the others waiting
\* for nothing.
LEMMA PublishersStay ==
  ASSUME IInv, Next, NEW u \in Task, task[u].at = "publish"
  PROVE  task'[u] = task[u] \/ (Publish(u) /\ task'[u] = Idle)
<1>1. ASSUME NEW t \in Task, NEW next, Goto(t, next), task[t].at # "publish"
      PROVE  task'[u] = task[u]
  BY <1>1, GotoTask DEF IInv, TasksTyped
<1>2. ASSUME NEW t \in Task, Publish(t)
      PROVE  task'[u] = task[u] \/ (Publish(u) /\ task'[u] = Idle)
  <2>1. Goto(t, Idle)
    BY <1>2 DEF Publish
  <2>2. task'[t] = Idle /\ \A v \in Task : v # t => task'[v] = task[v]
    BY <2>1, GotoTask DEF IInv, TasksTyped
  <2> QED
    BY <1>2, <2>2
<1>3. ASSUME NEW t \in Task, Step(t), ~Publish(t) PROVE task'[u] = task[u]
  <2>1. \E next : Goto(t, next)
    BY <1>3 DEF Step, ingest_issuer, ingest_identity, BuildTreeRead, BuildTreePutLeaves,
         BuildTreeUpsert, Prove, VerifyProof
  <2>2. task[t].at # "publish"
    BY <1>3 DEF Step, ingest_issuer, ingest_identity, BuildTreeRead, BuildTreePutLeaves,
         BuildTreeUpsert, Prove, VerifyProof
  <2> QED
    BY <1>1, <2>1, <2>2
<1>4. ASSUME NEW c \in Caller, Request(c) PROVE task'[u] = task[u]
  BY <1>1, <1>4 DEF Request, Task
<1>5. CASE PollIdentities \/ PollIssuers \/ PollFails \/ IngestNext
  BY <1>1, <1>5 DEF PollIdentities, PollIssuers, PollFails, IngestNext, Task
<1>6. CASE ClaimOnChain \/ PublishRootOnChain
  BY <1>6 DEF ClaimOnChain, PublishRootOnChain
<1> QED
  BY <1>2, <1>3, <1>4, <1>5, <1>6 DEF Next, Task


-------------------------------------------------------------------------------
(***************************************************************************)
(* What subscribers know.                                                  *)
(***************************************************************************)
\* The last root of issuer i that s has heard of or is yet to read is the one the
\* store holds.
Knows(s, i) ==
  \/ \E n \in 1..behind[s] :
       /\ NamesRoot(Newest(ring, n), i)
       /\ \A m \in 1..(n - 1) : ~NamesRoot(Newest(ring, m), i)
       /\ issuers[i] # Missing /\ issuers[i].merkle_root = Newest(ring, n).root
  \/ /\ \A n \in 1..behind[s] : ~NamesRoot(Newest(ring, n), i)
     /\ view[s][i] # Missing =>
          issuers[i] # Missing /\ issuers[i].merkle_root = view[s][i]

\* Subscribers note roots by issuer, and those who left have none.
ViewsKept ==
  /\ DOMAIN view = Subscriber
  /\ \A s \in Subscriber : DOMAIN view[s] = IssuerKey
  /\ \A s \in Subscriber : behind[s] = Unsubscribed => view[s] = NoRoots

FeedKept ==
  \A s \in Subscriber, i \in IssuerKey :
    (behind[s] \in 0..RingSize /\ s \notin lost /\ ~Announced(i)) => Knows(s, i)

ServiceInv == IInv /\ WritersApart /\ AnnouncedRoots
FeedInv == ServiceInv /\ RingKept /\ ViewsKept /\ FeedKept

\* The service and the bus start empty.
LEMMA InitFeedInv == NodeInit => FeedInv
<1> SUFFICES ASSUME NodeInit PROVE FeedInv
  OBVIOUS
<1>1. Init
  BY DEF NodeInit
<1>2. IInv /\ WritersApart
  BY <1>1, InitIInv, InitWritersApart
<1>3. AnnouncedRoots
  BY <1>1 DEF Init, AnnouncedRoots, Task, Idle
<1>4. RingKept
  <2>1. IsSequence(<< >>)
    <3>1. << >> \in Seq({})
      OBVIOUS
    <3> QED
      BY <3>1 DEF IsSequence
  <2> QED
    BY <2>1, RingSizeNat DEF NodeInit, BusInit, RingKept, Reach, Unsubscribed
<1>5. ViewsKept /\ FeedKept
  BY DEF NodeInit, BusInit, ViewsKept, FeedKept, NoRoots, Unsubscribed
<1> QED
  BY <1>2, <1>3, <1>4, <1>5 DEF FeedInv, ServiceInv

\* Knowing depends on the events a subscriber has yet to read, the store and the
\* roots it has noted: while they are the same, so is what it knows.
LEMMA KnowsStays ==
  ASSUME NEW s \in Subscriber, NEW i \in IssuerKey, Knows(s, i), behind[s] \in Nat,
         behind'[s] = behind[s],
         \A n \in 1..behind[s] : Newest(ring', n) = Newest(ring, n),
         issuers'[i] = issuers[i], view'[s] = view[s]
  PROVE  Knows(s, i)'
<1>1. \A n \in 1..behind[s] : \A m \in 1..(n - 1) : m \in 1..behind[s]
  OBVIOUS
<1> QED
  BY <1>1 DEF Knows, NamesRoot, Newest

\* With one event more to read, it is that event that counts if it names the root.
LEMMA KnowsMore ==
  ASSUME NEW s \in Subscriber, NEW i \in IssuerKey, behind[s] \in Nat,
         behind'[s] = behind[s] + 1,
         \A n \in 1..behind[s] : Newest(ring', n + 1) = Newest(ring, n),
         NamesRoot(Newest(ring', 1), i) =>
           issuers[i] # Missing /\ issuers[i].merkle_root = Newest(ring', 1).root,
         ~NamesRoot(Newest(ring', 1), i) => Knows(s, i),
         issuers'[i] = issuers[i], view'[s] = view[s]
  PROVE  Knows(s, i)'
<1> DEFINE b == behind[s]
           new(n) == Newest(ring', n)
           old(n) == Newest(ring, n)
<1>1. b \in Nat /\ \A n \in 1..b : new(n + 1) = old(n)
  OBVIOUS
<1>2. (\/ \E n \in 1..(b + 1) :
            /\ NamesRoot(new(n), i)
            /\ \A m \in 1..(n - 1) : ~NamesRoot(new(m), i)
            /\ issuers[i] # Missing /\ issuers[i].merkle_root = new(n).root
       \/ /\ \A n \in 1..(b + 1) : ~NamesRoot(new(n), i)
          /\ view[s][i] # Missing =>
               issuers[i] # Missing /\ issuers[i].merkle_root = view[s][i])
      => Knows(s, i)'
  BY DEF Knows, NamesRoot, Newest
<1>3. CASE NamesRoot(new(1), i)
  <2>1. 1 \in 1..(b + 1) /\ \A m \in 1..(1 - 1) : ~NamesRoot(new(m), i)
    BY <1>1
  <2>2. issuers[i] # Missing /\ issuers[i].merkle_root = new(1).root
    BY <1>3
  <2> HIDE DEF b, new
  <2> QED
    BY <1>2, <1>3, <2>1, <2>2
<1>4. CASE ~NamesRoot(new(1), i)
  <2>1. Knows(s, i)
    BY <1>4
  <2>2. \A n \in 1..(b + 1) : n # 1 => n - 1 \in 1..b /\ new(n) = old(n - 1)
    <3> HIDE DEF b, new, old
    <3> SUFFICES ASSUME NEW n \in 1..(b + 1), n # 1
                 PROVE  n - 1 \in 1..b /\ new(n) = old(n - 1)
      OBVIOUS
    <3>1. n - 1 \in 1..b /\ (n - 1) + 1 = n
      BY <1>1
    <3> QED
      BY <1>1, <3>1
  <2>3. CASE \E n \in 1..b :
               /\ NamesRoot(old(n), i)
               /\ \A m \in 1..(n - 1) : ~NamesRoot(old(m), i)
               /\ issuers[i] # Missing /\ issuers[i].merkle_root = old(n).root
    <3>1. PICK n \in 1..b :
               /\ NamesRoot(old(n), i)
               /\ \A m \in 1..(n - 1) : ~NamesRoot(old(m), i)
               /\ issuers[i] # Missing /\ issuers[i].merkle_root = old(n).root
      BY <2>3
    <3> HIDE DEF b, new, old
    <3>2. n + 1 \in 1..(b + 1) /\ new(n + 1) = old(n)
      BY <1>1
    <3>3. ASSUME NEW m \in 1..((n + 1) - 1) PROVE ~NamesRoot(new(m), i)
      <4>1. CASE m = 1
        BY <1>4, <4>1
      <4>2. CASE m # 1
        <5>1. m - 1 \in 1..(n - 1) /\ m \in 1..(b + 1)
          BY <1>1, <4>2
        <5> QED
          BY <2>2, <3>1, <4>2, <5>1
      <4> QED
        BY <4>1, <4>2
    <3> QED
      BY <1>2, <3>1, <3>2, <3>3
  <2>4. CASE /\ \A n \in 1..b : ~NamesRoot(old(n), i)
             /\ view[s][i] # Missing =>
                  issuers[i] # Missing /\ issuers[i].merkle_root = view[s][i]
    <3> HIDE DEF b, new, old
    <3>1. \A n \in 1..(b + 1) : ~NamesRoot(new(n), i)
      BY <1>4, <2>2, <2>4
    <3> QED
      BY <1>2, <2>4, <3>1
  <2> QED
    BY <2>1, <2>3, <2>4 DEF Knows
<1> QED
  BY <1>3, <1>4

\* With its oldest event read, and noted if it names the root.
LEMMA KnowsLess ==
  ASSUME NEW s \in Subscriber, NEW i \in IssuerKey, Knows(s, i), behind[s] \in Nat,
         behind[s] # 0, behind'[s] = behind[s] - 1,
         \A n \in 1..(behind[s] - 1) : Newest(ring', n) = Newest(ring, n),
         issuers'[i] = issuers[i],
         view'[s][i] = IF NamesRoot(Newest(ring, behind[s]), i)
                       THEN Newest(ring, behind[s]).root ELSE view[s][i]
  PROVE  Knows(s, i)'
<1> DEFINE b == behind[s]
           new(n) == Newest(ring', n)
           old(n) == Newest(ring, n)
<1>1. /\ b \in Nat /\ b # 0 /\ \A n \in 1..(b - 1) : new(n) = old(n)
      /\ view'[s][i] = IF NamesRoot(old(b), i) THEN old(b).root ELSE view[s][i]
  OBVIOUS
<1>2. (\/ \E n \in 1..(b - 1) :
            /\ NamesRoot(new(n), i)
            /\ \A m \in 1..(n - 1) : ~NamesRoot(new(m), i)
            /\ issuers[i] # Missing /\ issuers[i].merkle_root = new(n).root
       \/ /\ \A n \in 1..(b - 1) : ~NamesRoot(new(n), i)
          /\ view'[s][i] # Missing =>
               issuers[i] # Missing /\ issuers[i].merkle_root = view'[s][i])
      => Knows(s, i)'
  BY DEF Knows, NamesRoot, Newest
<1>3. CASE \E n \in 1..b :
             /\ NamesRoot(old(n), i)
             /\ \A m \in 1..(n - 1) : ~NamesRoot(old(m), i)
             /\ issuers[i] # Missing /\ issuers[i].merkle_root = old(n).root
  <2>1. PICK n \in 1..b :
             /\ NamesRoot(old(n), i)
             /\ \A m \in 1..(n - 1) : ~NamesRoot(old(m), i)
             /\ issuers[i] # Missing /\ issuers[i].merkle_root = old(n).root
    BY <1>3
  <2> HIDE DEF b, new, old
  <2>2. CASE n = b
    <3>1. \A m \in 1..(b - 1) : ~NamesRoot(new(m), i)
      BY <1>1, <2>1, <2>2
    <3>2. issuers[i] # Missing /\ issuers[i].merkle_root = view'[s][i]
      BY <1>1, <2>1, <2>2
    <3> QED
      BY <1>2, <3>1, <3>2
  <2>3. CASE n # b
    <3>1. n \in 1..(b - 1) /\ \A m \in 1..(n - 1) : m \in 1..(b - 1)
      BY <1>1, <2>3
    <3>2. NamesRoot(new(n), i) /\ \A m \in 1..(n - 1) : ~NamesRoot(new(m), i)
      BY <1>1, <2>1, <3>1
    <3>3. issuers[i] # Missing /\ issuers[i].merkle_root = new(n).root
      BY <1>1, <2>1, <3>1
    <3> QED
      BY <1>2, <3>1, <3>2, <3>3
  <2> QED
    BY <2>2, <2>3
<1>4. CASE /\ \A n \in 1..b : ~NamesRoot(old(n), i)
           /\ view[s][i] # Missing =>
                issuers[i] # Missing /\ issuers[i].merkle_root = view[s][i]
  <2> HIDE DEF b, new, old
  <2>1. b \in 1..b /\ \A n \in 1..(b - 1) : n \in 1..b
    BY <1>1
  <2>2. view'[s][i] = view[s][i]
    BY <1>1, <1>4, <2>1
  <2>3. \A n \in 1..(b - 1) : ~NamesRoot(new(n), i)
    BY <1>1, <1>4, <2>1
  <2> QED
    BY <1>2, <1>4, <2>2, <2>3
<1> QED
  BY <1>3, <1>4 DEF Knows


-------------------------------------------------------------------------------
(***************************************************************************)
(* The steps of a node.                                                    *)
(***************************************************************************)
\* The service's part of the invariant does not depend on the bus.
LEMMA ServiceInvStep ==
  ASSUME OneWriter, ServiceInv, [Next]_vars
  PROVE  ServiceInv'
<1>1. IInv' /\ WritersApart'
  BY NextInv, NextWritersApart DEF ServiceInv, OneWriter
<1>2. AnnouncedRoots'
  <2>1. CASE Next
    BY <2>1, ServiceAnnounces DEF ServiceInv
  <2>2. CASE UNCHANGED vars
    BY <2>2 DEF vars, ServiceInv, AnnouncedRoots, NamesRoot, Task
  <2> QED
    BY <2>1, <2>2
<1> QED
  BY <1>1, <1>2 DEF ServiceInv

\* How far each subscriber can read, once an event has been appended.
LEMMA ReachAppended ==
  ASSUME RingKept, NEW e, publish(e)
  PROVE  /\ IsSequence(Append(ring, e)) /\ Len(Append(ring, e)) = Len(ring) + 1
         /\ Len(ring) \in Nat
         /\ behind' \in [Subscriber -> (-1)..(RingSize + 1)]
         /\ \A s \in Subscriber : Reach(behind'[s]) <= Len(ring) + 1
         /\ Newest(Append(ring, e), 1) = e
         /\ \A n \in 1..Len(ring) : Newest(Append(ring, e), n + 1) = Newest(ring, n)
<1>1. PICK S : ring \in Seq(S)
  BY DEF RingKept, IsSequence
<1>2. ring \in Seq(S \cup {e}) /\ e \in S \cup {e}
  <2>1. \A n \in 1..Len(ring) : ring[n] \in S \cup {e}
    BY <1>1
  <2>2. ring = [n \in 1..Len(ring) |-> ring[n]] /\ Len(ring) \in Nat
    BY <1>1
  <2> QED
    BY <2>1, <2>2
<1>3. /\ Append(ring, e) \in Seq(S \cup {e})
      /\ Len(Append(ring, e)) = Len(ring) + 1
      /\ \A n \in 1..Len(ring) : Append(ring, e)[n] = ring[n]
      /\ Append(ring, e)[Len(ring) + 1] = e
  BY <1>2, AppendProperties
<1>4. Len(ring) \in Nat
  BY <1>1
<1>5. behind' \in [Subscriber -> (-1)..(RingSize + 1)]
  BY RingSizeNat DEF publish, RingKept
<1>6. ASSUME NEW s \in Subscriber PROVE Reach(behind'[s]) <= Len(ring) + 1
  <2> DEFINE b == behind[s]
             c == behind'[s]
             len == Len(ring)
  <2>1. /\ b \in Int /\ (IF b > RingSize THEN RingSize ELSE b) <= len
        /\ c = (IF b \in 0..RingSize THEN b + 1 ELSE b) /\ len \in Nat /\ RingSize \in Nat
    BY <1>4, RingSizeNat DEF RingKept, Reach, publish
  <2> HIDE DEF b, c, len
  <2>2. (IF c > RingSize THEN RingSize ELSE c) <= len + 1
    BY <2>1
  <2> QED
    BY <2>2 DEF Reach, c, len
<1>7. Newest(Append(ring, e), 1) = e
  BY <1>3, <1>4 DEF Newest
<1>8. ASSUME NEW n \in 1..Len(ring)
      PROVE  Newest(Append(ring, e), n + 1) = Newest(ring, n)
  <2> DEFINE len == Len(ring)
             longer == Append(ring, e)
  <2>1. /\ len \in Nat /\ Len(longer) = len + 1 /\ n \in 1..len
        /\ \A m \in 1..len : longer[m] = ring[m]
    BY <1>3, <1>4
  <2> HIDE DEF len, longer
  <2>2. len - n + 1 \in 1..len /\ (len + 1) - (n + 1) + 1 = len - n + 1
    BY <2>1
  <2>3. longer[Len(longer) - (n + 1) + 1] = ring[len - n + 1]
    BY <2>1, <2>2
  <2> QED
    BY <2>3 DEF Newest, len, longer
<1> QED
  BY <1>3, <1>4, <1>5, <1>6, <1>7, <1>8 DEF IsSequence

\* An event on its way is not announced once it is published, and all others are.
LEMMA PublishedOrStill ==
  ASSUME IInv, Next, NEW i \in IssuerKey, ~Announced(i)',
         NEW t \in Task, task[t].at = "publish", NamesRoot(task[t].event, i)
  PROVE  Publish(t) /\ task'[t] = Idle
<1>1. task'[t] # task[t]
  BY DEF Announced, NamesRoot, Task
<1> QED
  BY <1>1, PublishersStay

\* A publication.
LEMMA PublicationFeeds ==
  ASSUME OneWriter, FeedInv, Next, UNCHANGED <<view, lost>>,
         NEW t \in Task, Publish(t), publish(task[t].event)
  PROVE  RingKept' /\ FeedKept'
<1> DEFINE e == task[t].event
           events == Append(ring, e)
<1>0. IInv /\ WritersApart /\ AnnouncedRoots /\ RingKept /\ ViewsKept /\ FeedKept
  BY DEF FeedInv, ServiceInv
<1>1. /\ IsSequence(events) /\ Len(events) = Len(ring) + 1 /\ Len(ring) \in Nat
      /\ behind' \in [Subscriber -> (-1)..(RingSize + 1)]
      /\ \A s \in Subscriber : Reach(behind'[s]) <= Len(events)
      /\ Newest(events, 1) = e
      /\ \A n \in 1..Len(ring) : Newest(events, n + 1) = Newest(ring, n)
  BY <1>0, ReachAppended
<1>2. Keep(events)
  BY DEF publish
<1>3. /\ task[t].at = "publish" /\ UNCHANGED issuers
      /\ task'[t] = Idle /\ \A u \in Task : u # t => task'[u] = task[u]
  BY <1>0, GotoTask DEF Publish, IInv, TasksTyped
<1> HIDE DEF events
<1>4. /\ RingKept' /\ Len(ring') \in Nat
      /\ \A n \in 1..Len(ring') : Newest(ring', n) = Newest(events, n)
  BY <1>1, <1>2, KeepNewest
<1> HIDE DEF e
<1>5. ASSUME NEW s \in Subscriber, NEW i \in IssuerKey,
             behind'[s] \in 0..RingSize, s \notin lost', ~Announced(i)'
      PROVE  Knows(s, i)'
  <2>1. behind'[s] <= Len(ring')
    <3>1. (\A u \in Subscriber : Reach(behind[u]) <= Len(ring))'
      BY <1>4 DEF RingKept
    <3>2. ~(behind'[s] > RingSize)
      BY <1>5, RingSizeNat
    <3> QED
      BY <3>1, <3>2 DEF Reach
  <2>2. behind[s] \in 0..RingSize /\ behind'[s] = behind[s] + 1
    <3>1. behind[s] \in (-1)..(RingSize + 1)
          /\ behind'[s] = IF behind[s] \in 0..RingSize THEN behind[s] + 1 ELSE behind[s]
      BY <1>0 DEF publish, RingKept
    <3> QED
      BY <1>5, <3>1, RingSizeNat
  <2>3. behind[s] <= Len(ring)
    BY <1>0, <2>2, RingSizeNat DEF RingKept, Reach
  <2>4. ASSUME NEW n \in 1..behind[s] PROVE Newest(ring', n + 1) = Newest(ring, n)
    <3>1. n + 1 \in 1..Len(ring') /\ n \in 1..Len(ring)
      BY <1>1, <1>4, <2>1, <2>2, <2>3, RingSizeNat
    <3> QED
      BY <1>1, <1>4, <3>1
  <2>5. Newest(ring', 1) = e
    <3>1. 1 \in 1..Len(ring')
      BY <1>4, <2>1, <2>2, RingSizeNat
    <3> QED
      BY <1>1, <1>4, <3>1
  <2>6. NamesRoot(e, i) => issuers[i] # Missing /\ issuers[i].merkle_root = e.root
    BY <1>0, <1>3 DEF AnnouncedRoots, e
  <2>7. ASSUME ~NamesRoot(e, i) PROVE Knows(s, i)
    <3>1. ~Announced(i)
      <4>1. ASSUME NEW u \in Task, task[u].at = "publish", NamesRoot(task[u].event, i)
            PROVE  FALSE
        <5>1. Publish(u) /\ task'[u] = Idle
          BY <1>0, <1>5, <4>1, PublishedOrStill
        <5>2. u # t
          BY <2>7, <4>1 DEF e
        <5>3. task'[u] = task[u]
          BY <1>3, <5>2
        <5> QED
          BY <4>1, <5>1, <5>3 DEF Idle
      <4> QED
        BY <4>1 DEF Announced
    <3> QED
      BY <1>0, <1>5, <2>2, <3>1 DEF FeedKept
  <2>8. behind[s] \in Nat
    BY <2>2, RingSizeNat
  <2> QED
    BY <1>3, <2>2, <2>4, <2>5, <2>6, <2>7, <2>8, KnowsMore
<1>6. FeedKept'
  BY <1>5 DEF FeedKept
<1> QED
  BY <1>4, <1>6

\* A step of the service that publishes nothing.
LEMMA SilenceFeeds ==
  ASSUME OneWriter, FeedInv, Next, UNCHANGED <<ring, behind, view, lost>>,
         \A t \in Task : ~(task[t].at = "publish" /\ task'[t].at # "publish")
  PROVE  RingKept' /\ FeedKept'
<1>0. IInv /\ WritersApart /\ AnnouncedRoots /\ RingKept /\ ViewsKept /\ FeedKept
  BY DEF FeedInv, ServiceInv
<1>1. RingKept'
  BY <1>0 DEF RingKept, IsSequence, Reach
<1>2. ASSUME NEW s \in Subscriber, NEW i \in IssuerKey,
             behind'[s] \in 0..RingSize, s \notin lost', ~Announced(i)'
      PROVE  Knows(s, i)'
  <2>1. ~Announced(i)
    <3>1. ASSUME NEW u \in Task, task[u].at = "publish", NamesRoot(task[u].event, i)
          PROVE  FALSE
      <4>1. task'[u] = Idle
        BY <1>0, <1>2, <3>1, PublishedOrStill
      <4> QED
        BY <3>1, <4>1 DEF Idle
    <3> QED
      BY <3>1 DEF Announced
  <2>2. issuers'[i] = issuers[i]
    BY <1>0, <1>2, ServiceAnnounces
  <2>3. Knows(s, i) /\ behind[s] \in Nat
    BY <1>0, <1>2, <2>1, RingSizeNat DEF FeedKept
  <2> QED
    BY <2>2, <2>3, KnowsStays
<1>3. FeedKept'
  BY <1>2 DEF FeedKept
<1> QED
  BY <1>1, <1>3

\* The service's steps.
LEMMA ServeFeeds ==
  ASSUME OneWriter, FeedInv, Serve
  PROVE  FeedInv'
<1> DEFINE publishing == {t \in Caller \cup {Poller} :
                            task[t].at = "publish" /\ task'[t].at # "publish"}
<1>1. /\ Next /\ UNCHANGED <<view, lost>>
      /\ publishing = {} => UNCHANGED <<ring, behind>>
      /\ \A t \in publishing : publish(task[t].event)
  BY DEF Serve
<1>2. ServiceInv'
  BY <1>1, ServiceInvStep DEF FeedInv
<1>3. RingKept' /\ FeedKept'
  <2>1. CASE publishing = {}
    BY <1>1, <2>1, SilenceFeeds DEF Task
  <2>2. CASE publishing # {}
    <3>1. PICK t \in Task : task[t].at = "publish" /\ task'[t].at # "publish"
      BY <2>2 DEF Task
    <3>2. Publish(t)
      <4>1. IInv /\ task'[t] # task[t]
        BY <3>1 DEF FeedInv, ServiceInv
      <4> QED
        BY <1>1, <3>1, <4>1, PublishersStay
    <3>3. publish(task[t].event)
      BY <1>1, <3>1 DEF Task
    <3> QED
      BY <1>1, <3>2, <3>3, PublicationFeeds
  <2> QED
    BY <2>1, <2>2
<1>4. ViewsKept'
  <2>1. \A s \in Subscriber : behind'[s] = Unsubscribed => behind[s] = Unsubscribed
    <3>1. CASE publishing = {}
      BY <1>1, <3>1
    <3>2. CASE publishing # {}
      <4>1. PICK t \in publishing : publish(task[t].event)
        BY <1>1, <3>2
      <4> HIDE DEF publishing
      <4>2. \A s \in Subscriber :
              behind'[s] = IF behind[s] \in 0..RingSize THEN behind[s] + 1 ELSE behind[s]
        BY <4>1 DEF publish
      <4> QED
        BY <4>2, RingSizeNat DEF Unsubscribed
    <3> QED
      BY <3>1, <3>2
  <2> QED
    BY <1>1, <2>1 DEF ViewsKept, FeedInv, NoRoots
<1> QED
  BY <1>2, <1>3, <1>4 DEF FeedInv


\* While the service rests, its part of the invariant stays.
LEMMA ServiceRests ==
  ASSUME OneWriter, ServiceInv, UNCHANGED vars
  PROVE  /\ ServiceInv' /\ UNCHANGED issuers
         /\ \A i \in IssuerKey : Announced(i)' = Announced(i)
<1>1. ServiceInv'
  BY ServiceInvStep
<1>2. task' = task /\ issuers' = issuers
  BY DEF vars
<1> QED
  BY <1>1, <1>2 DEF Announced, NamesRoot, Task

\* Subscribers that a step leaves alone know what they knew.
LEMMA OthersKnow ==
  ASSUME OneWriter, FeedInv, UNCHANGED vars, NEW s \in Subscriber, NEW i \in IssuerKey,
         behind'[s] = behind[s], view'[s] = view[s], s \in lost <=> s \in lost',
         RingKept', \A n \in 1..Len(ring') : Newest(ring', n) = Newest(ring, n),
         Len(ring') \in Nat,
         behind'[s] \in 0..RingSize, s \notin lost', ~Announced(i)'
  PROVE  Knows(s, i)'
<1>1. ~Announced(i) /\ issuers'[i] = issuers[i]
  BY ServiceRests DEF FeedInv
<1>2. Knows(s, i) /\ behind[s] \in Nat
  BY <1>1, RingSizeNat DEF FeedInv, FeedKept
<1>3. behind[s] <= Len(ring')
  <2>1. (\A u \in Subscriber : Reach(behind[u]) <= Len(ring))'
    BY DEF RingKept
  <2>2. ~(behind'[s] > RingSize)
    BY RingSizeNat
  <2> QED
    BY <2>1, <2>2 DEF Reach
<1>4. \A n \in 1..behind[s] : n \in 1..Len(ring')
  BY <1>2, <1>3
<1> QED
  BY <1>1, <1>2, <1>4, KnowsStays

\* A ring that does not change keeps everything, as long as nobody falls back.
LEMMA RingStays ==
  ASSUME RingKept, UNCHANGED ring, behind' \in [Subscriber -> (-1)..(RingSize + 1)],
         \A s \in Subscriber : Reach(behind'[s]) <= Len(ring)
  PROVE  /\ RingKept' /\ Len(ring') \in Nat
         /\ \A n \in 1..Len(ring') : Newest(ring', n) = Newest(ring, n)
<1>1. Len(ring) \in Nat
  BY DEF RingKept, IsSequence
<1> QED
  BY <1>1 DEF RingKept, IsSequence, Reach

\* A subscriber that comes, or goes, knows nothing.
LEMMA SubscriptionFeeds ==
  ASSUME OneWriter, FeedInv, NEW s \in Subscriber, Subscribe(s) \/ Disconnect(s)
  PROVE  FeedInv'
<1>0. /\ RingKept /\ ViewsKept /\ FeedKept /\ ServiceInv /\ UNCHANGED vars
      /\ DOMAIN behind = Subscriber
  BY DEF FeedInv, Subscribe, Disconnect, RingKept
<1>1. /\ behind'[s] \in {-1, 0} /\ behind' \in [Subscriber -> (-1)..(RingSize + 1)]
      /\ \A u \in Subscriber : u # s => behind'[u] = behind[u]
  BY <1>0, RingSizeNat DEF Subscribe, Disconnect, subscribe, unsubscribe, Unsubscribed, RingKept
<1>2. \A u \in Subscriber : Reach(behind'[u]) <= Len(ring)
  <2>1. ASSUME NEW u \in Subscriber PROVE Reach(behind'[u]) <= Len(ring)
    <3>1. Len(ring) \in Nat
      BY <1>0 DEF RingKept, IsSequence
    <3>2. CASE u = s
      <4>1. Reach(behind'[u]) <= 0 /\ Reach(behind'[u]) \in Int
        BY <1>1, <3>2, RingSizeNat DEF Reach
      <4> QED
        BY <3>1, <4>1
    <3>3. CASE u # s
      BY <1>0, <1>1, <3>3 DEF RingKept
    <3> QED
      BY <3>2, <3>3
  <2> QED
    BY <2>1
<1>3. IsSequence(ring)
  BY <1>0 DEF RingKept
<1>4. /\ RingKept' /\ Len(ring') \in Nat
      /\ \A n \in 1..Len(ring') : Newest(ring', n) = Newest(ring, n)
  <2>1. CASE Subscribe(s)
    BY <1>0, <1>1, <1>2, <2>1, RingStays DEF Subscribe, subscribe
  <2>2. CASE Disconnect(s)
    <3>1. Keep(ring)
      BY <2>2 DEF Disconnect, unsubscribe
    <3> QED
      BY <1>1, <1>2, <1>3, <3>1, KeepNewest
  <2> QED
    BY <2>1, <2>2
<1>5. /\ DOMAIN view' = Subscriber /\ view'[s] = NoRoots
      /\ \A u \in Subscriber : u # s => view'[u] = view[u]
      /\ \A u \in Subscriber : u # s => (u \in lost <=> u \in lost')
  <2>1. CASE Subscribe(s)
    BY <1>0, <2>1 DEF Subscribe, subscribe, ViewsKept
  <2>2. CASE Disconnect(s)
    BY <1>0, <2>2 DEF Disconnect, ViewsKept
  <2> QED
    BY <2>1, <2>2
<1>6. ViewsKept'
  BY <1>0, <1>1, <1>5 DEF ViewsKept, NoRoots
<1>7. ASSUME NEW u \in Subscriber, NEW i \in IssuerKey,
             behind'[u] \in 0..RingSize, u \notin lost', ~Announced(i)'
      PROVE  Knows(u, i)'
  <2>1. CASE u = s
    <3>1. behind'[u] = 0 /\ view'[u][i] = Missing
      BY <1>1, <1>5, <1>7, <2>1 DEF NoRoots
    <3> QED
      BY <3>1 DEF Knows
  <2>2. CASE u # s
    BY <1>0, <1>1, <1>4, <1>5, <1>7, <2>2, OthersKnow
  <2> QED
    BY <2>1, <2>2
<1>8. FeedKept'
  BY <1>7 DEF FeedKept
<1> QED
  BY <1>0, <1>4, <1>6, <1>8, ServiceRests DEF FeedInv

\* A stream that passes over lost events is lost from then on.
LEMMA LagFeeds ==
  ASSUME OneWriter, FeedInv, NEW s \in Subscriber, Lag(s), lost' = lost \cup {s},
         UNCHANGED <<view, vars>>
  PROVE  FeedInv'
<1>0. /\ RingKept /\ ViewsKept /\ FeedKept /\ ServiceInv
      /\ DOMAIN behind = Subscriber
  BY DEF FeedInv, RingKept
<1>1. /\ behind'[s] = RingSize /\ behind[s] > RingSize
      /\ behind' \in [Subscriber -> (-1)..(RingSize + 1)]
      /\ \A u \in Subscriber : u # s => behind'[u] = behind[u]
  BY <1>0, RingSizeNat DEF Lag, RingKept
<1>2. \A u \in Subscriber : Reach(behind'[u]) <= Len(ring)
  <2>1. \A u \in Subscriber : Reach(behind'[u]) = Reach(behind[u])
    BY <1>1, RingSizeNat DEF Reach
  <2> QED
    BY <1>0, <2>1 DEF RingKept
<1>3. /\ RingKept' /\ Len(ring') \in Nat
      /\ \A n \in 1..Len(ring') : Newest(ring', n) = Newest(ring, n)
  BY <1>0, <1>1, <1>2, RingStays DEF Lag
<1>4. ViewsKept'
  BY <1>0, <1>1, RingSizeNat DEF ViewsKept, NoRoots, Unsubscribed
<1>5. ASSUME NEW u \in Subscriber, NEW i \in IssuerKey,
             behind'[u] \in 0..RingSize, u \notin lost', ~Announced(i)'
      PROVE  Knows(u, i)'
  <2>1. u # s /\ (u \in lost <=> u \in lost')
    BY <1>5
  <2> QED
    BY <1>1, <1>3, <1>5, <2>1, OthersKnow
<1>6. FeedKept'
  BY <1>5 DEF FeedKept
<1> QED
  BY <1>0, <1>3, <1>4, <1>6, ServiceRests DEF FeedInv

\* What a subscriber reads is its oldest event, and it notes the root it names.
LEMMA ReceiveFeeds ==
  ASSUME OneWriter, FeedInv, NEW s \in Subscriber, Receive(s), UNCHANGED <<lost, vars>>,
         view' = IF Received(s).event \in {"IssuerIndexed", "TreeBuilt"}
                 THEN [view EXCEPT ![s][Received(s).issuer] = Received(s).root]
                 ELSE view
  PROVE  FeedInv'
<1> DEFINE e == Received(s)
<1>0. /\ RingKept /\ ViewsKept /\ FeedKept /\ ServiceInv
      /\ DOMAIN behind = Subscriber
  BY DEF FeedInv, RingKept
<1>1. /\ behind[s] \in 1..RingSize /\ behind'[s] = behind[s] - 1
      /\ behind' \in [Subscriber -> (-1)..(RingSize + 1)]
      /\ \A u \in Subscriber : u # s => behind'[u] = behind[u]
  BY <1>0, RingSizeNat DEF Receive, RingKept
<1>2. \A u \in Subscriber : Reach(behind'[u]) <= Len(ring)
  <2>1. ASSUME NEW u \in Subscriber PROVE Reach(behind'[u]) <= Len(ring)
    <3>1. Len(ring) \in Nat /\ Reach(behind[u]) <= Len(ring)
      BY <1>0 DEF RingKept, IsSequence
    <3>2. Reach(behind'[u]) <= Reach(behind[u]) /\ Reach(behind'[u]) \in Int
          /\ Reach(behind[u]) \in Int
      <4>1. behind[u] \in Int
        BY <1>0 DEF RingKept
      <4>2. behind'[u] = behind[u] \/ (u = s /\ behind'[u] = behind[u] - 1 /\ behind[u] <= RingSize)
        BY <1>1, RingSizeNat
      <4> QED
        BY <4>1, <4>2, RingSizeNat DEF Reach
    <3> QED
      BY <3>1, <3>2
  <2> QED
    BY <2>1
<1>3. IsSequence(ring) /\ Keep(ring)
  BY <1>0 DEF RingKept, Receive
<1>4. /\ RingKept' /\ Len(ring') \in Nat
      /\ \A n \in 1..Len(ring') : Newest(ring', n) = Newest(ring, n)
  BY <1>1, <1>2, <1>3, KeepNewest
<1>5. /\ DOMAIN view' = Subscriber /\ DOMAIN view'[s] = IssuerKey
      /\ \A u \in Subscriber : u # s => view'[u] = view[u]
      /\ \A i \in IssuerKey :
           view'[s][i] = IF NamesRoot(e, i) THEN e.root ELSE view[s][i]
  <2>1. DOMAIN view = Subscriber /\ DOMAIN view[s] = IssuerKey
    BY <1>0 DEF ViewsKept
  <2> HIDE DEF e
  <2>2. CASE e.event \in {"IssuerIndexed", "TreeBuilt"}
    <3>1. view' = [view EXCEPT ![s][e.issuer] = e.root]
      BY <2>2 DEF e
    <3>2. view'[s] = [view[s] EXCEPT ![e.issuer] = e.root]
      BY <2>1, <3>1
    <3>3. \A i \in IssuerKey : view'[s][i] = IF i = e.issuer THEN e.root ELSE view[s][i]
      BY <2>1, <3>2
    <3> QED
      BY <2>1, <2>2, <3>1, <3>2, <3>3 DEF NamesRoot
  <2>3. CASE e.event \notin {"IssuerIndexed", "TreeBuilt"}
    BY <2>1, <2>3 DEF NamesRoot, e
  <2> QED
    BY <2>2, <2>3
<1>6. ViewsKept'
  <2>1. behind'[s] # Unsubscribed
    BY <1>1, RingSizeNat DEF Unsubscribed
  <2>2. ASSUME NEW u \in Subscriber
        PROVE  DOMAIN view'[u] = IssuerKey /\ (behind'[u] = Unsubscribed => view'[u] = NoRoots)
    BY <1>0, <1>1, <1>5, <2>1 DEF ViewsKept
  <2> QED
    BY <1>5, <2>2 DEF ViewsKept, NoRoots
<1>7. ASSUME NEW u \in Subscriber, NEW i \in IssuerKey,
             behind'[u] \in 0..RingSize, u \notin lost', ~Announced(i)'
      PROVE  Knows(u, i)'
  <2>1. CASE u = s
    <3>1. ~Announced(i) /\ issuers'[i] = issuers[i]
      BY <1>0, <1>7, ServiceRests
    <3>2. Knows(s, i)
      BY <1>0, <1>1, <1>7, <2>1, <3>1, RingSizeNat DEF FeedKept
    <3>3. behind'[s] <= Len(ring')
      <4>1. (\A v \in Subscriber : Reach(behind[v]) <= Len(ring))'
        BY <1>4 DEF RingKept
      <4>2. ~(behind'[s] > RingSize)
        BY <1>7, <2>1, RingSizeNat
      <4> QED
        BY <4>1, <4>2 DEF Reach
    <3>4. \A n \in 1..(behind[s] - 1) : Newest(ring', n) = Newest(ring, n)
      <4>1. \A n \in 1..(behind[s] - 1) : n \in 1..Len(ring')
        BY <1>1, <1>4, <3>3, RingSizeNat
      <4> QED
        BY <1>4, <4>1
    <3>5. e = Newest(ring, behind[s])
      BY DEF Received, Newest
    <3>6. behind[s] \in Nat /\ behind[s] # 0
      BY <1>1, RingSizeNat
    <3> HIDE DEF e
    <3>7. view'[s][i] = IF NamesRoot(Newest(ring, behind[s]), i)
                        THEN Newest(ring, behind[s]).root ELSE view[s][i]
      BY <1>5, <3>5
    <3>8. Knows(s, i)'
      BY <1>1, <3>1, <3>2, <3>4, <3>6, <3>7, KnowsLess
    <3> QED
      BY <2>1, <3>8
  <2>2. CASE u # s
    BY <1>0, <1>1, <1>4, <1>5, <1>7, <2>2, OthersKnow
  <2> QED
    BY <2>1, <2>2
<1>8. FeedKept'
  BY <1>7 DEF FeedKept
<1> QED
  BY <1>0, <1>4, <1>6, <1>8, ServiceRests DEF FeedInv

\* A node at rest.
LEMMA StutterFeeds ==
  ASSUME OneWriter, FeedInv, UNCHANGED nodeVars
  PROVE  FeedInv'
<1>1. UNCHANGED <<ring, behind, view, lost>> /\ UNCHANGED vars
  BY DEF nodeVars
<1>2. ServiceInv' /\ UNCHANGED issuers /\ \A i \in IssuerKey : Announced(i)' = Announced(i)
  BY <1>1, ServiceRests DEF FeedInv
<1>3. RingKept' /\ ViewsKept'
  BY <1>1 DEF FeedInv, RingKept, IsSequence, Reach, ViewsKept, NoRoots
<1>4. ASSUME NEW s \in Subscriber, NEW i \in IssuerKey,
             behind'[s] \in 0..RingSize, s \notin lost', ~Announced(i)'
      PROVE  Knows(s, i)'
  <2>1. Knows(s, i)
    BY <1>1, <1>2, <1>4 DEF FeedInv, FeedKept
  <2> QED
    BY <1>1, <1>2, <2>1 DEF Knows, NamesRoot, Newest
<1>5. FeedKept'
  BY <1>4 DEF FeedKept
<1> QED
  BY <1>2, <1>3, <1>5 DEF FeedInv

\* Every step of a node keeps stores, events and subscribers together.
LEMMA NextFeedInv == OneWriter /\ FeedInv /\ [NodeNext]_nodeVars => FeedInv'
<1> SUFFICES ASSUME OneWriter, FeedInv, [NodeNext]_nodeVars PROVE FeedInv'
  OBVIOUS
<1>1. ASSUME NEW s \in Subscriber, Follow(s) PROVE FeedInv'
  <2>1. CASE Lag(s) /\ lost' = lost \cup {s} /\ UNCHANGED view
    BY <1>1, <2>1, LagFeeds DEF Follow
  <2>2. CASE Receive(s) /\ ~(Lag(s) /\ lost' = lost \cup {s} /\ UNCHANGED view)
    BY <1>1, <2>2, ReceiveFeeds DEF Follow
  <2> QED
    BY <1>1, <2>1, <2>2 DEF Follow
<1> QED
  BY <1>1, ServeFeeds, SubscriptionFeeds, StutterFeeds DEF NodeNext

\* Where no two tasks write an issuer (OneWriter), a subscriber whose stream has skipped
\* nothing knows, once it has read all there is, the root of each settled issuer
\* it has heard of: for every capacity of the bus, any number of clients and of
\* subscribers that come and go, and however far they fall behind in between.
THEOREM FeedsCatchUp ==
  ASSUME OneWriter
  PROVE  NodeSpec => []FeedCatchesUp
<1>1. ASSUME FeedInv, NEW s \in Subscriber, NEW i \in IssuerKey,
             behind[s] = 0, s \notin lost, view[s][i] # Missing, Settled(i)
      PROVE  issuers[i] # Missing /\ view[s][i] = issuers[i].merkle_root
  <2>1. ~Announced(i)
    <3>1. ASSUME NEW t \in Task, task[t].at = "publish", NamesRoot(task[t].event, i)
          PROVE  FALSE
      BY <1>1, <3>1 DEF FeedInv, ServiceInv, AnnouncedRoots, Settled, Task, NamesRoot
    <3> QED
      BY <3>1 DEF Announced
  <2>2. Knows(s, i)
    BY <1>1, <2>1, RingSizeNat DEF FeedInv, FeedKept
  <2>3. 1..behind[s] = {}
    BY <1>1
  <2> QED
    BY <1>1, <2>2, <2>3 DEF Knows
<1>2. FeedInv => FeedCatchesUp
  BY <1>1 DEF FeedCatchesUp
<1>3. OneWriter /\ FeedInv /\ [NodeNext]_nodeVars => FeedInv'
  BY NextFeedInv
<1> QED
  BY <1>2, <1>3, InitFeedInv, PTL DEF NodeSpec

===============================================================================
