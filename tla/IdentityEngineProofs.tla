------------------------- MODULE IdentityEngineProofs -------------------------
(***************************************************************************)
(* Proofs about IdentityEngine, for every set of clients, issuers,         *)
(* identities, calls and leaves: types, stored trees and their roots, and  *)
(* what the keeper mirrors.                                                *)
(***************************************************************************)
EXTENDS IdentityEngine, Sums

USE KeyAssumption, BoundAssumption

Task == Caller \cup {Poller}

\* What a client's task may be doing, and with which copies.
ClientTask(s) ==
  \/ s.at = "idle"
  \/ s.at = "publish" /\ s.result.result # "proof"
  \/ s.at \in {"prove", "verify_proof"} /\ s.issuer \in IssuerKey
  \/ s.at = "build_tree" /\ s.issuer \in IssuerKey /\ s.leaves \in LeafSet
  \/ /\ s.at \in {"put_leaves", "write_root"} /\ s.issuer \in IssuerKey
     /\ s.leaves \in LeafSet /\ s.view \in IssuerView
  \/ s.at = "ingest_issuer" /\ s.issuer \in IssuerKey /\ s.view \in IssuerView

\* A snapshot the keeper has yet to ingest.
Item(s) ==
  \/ s.at = "ingest_identity" /\ s.identity \in IdentityKey /\ s.view \in IdentityView
  \/ s.at = "ingest_issuer" /\ s.issuer \in SourceIssuer /\ s.view \in IssuerView

PollerTask(s) == s.at \in {"idle", "publish", "poll_issuers"} \/ Item(s)

StoresTyped ==
  /\ identities \in [IdentityKey -> IdentityView \cup {Missing}]
  /\ issuers \in [IssuerKey -> IssuerView \cup {Missing}]
  /\ trees \in [IssuerKey -> LeafSet \cup {Missing}]
  /\ calls \in 0..MaxCalls /\ failures \in 0..MaxFailures

TasksTyped ==
  /\ DOMAIN task = Task /\ DOMAIN reply = Caller
  /\ \A c \in Caller : ClientTask(task[c])
  /\ PollerTask(task[Poller])
  /\ \A item \in todo : Item(item)

ChainTyped ==
  /\ chain \in [claims : [IdentityKey -> IdentityView],
                counts : [SourceIssuer -> 0..MaxClaims],
                roots  : [SourceIssuer -> Roots]]
  /\ \A d \in IdentityKey, i \in SourceIssuer : chain.claims[d][i] <= chain.counts[i]

\* The issuer of a tree, of one about to be stored and of a proof handed out is
\* known to the mirror, and stays so.
IssuersKnown ==
  /\ \A i \in IssuerKey : trees[i] # Missing => issuers[i] # Missing
  /\ \A c \in Caller :
       /\ task[c].at \in {"put_leaves", "write_root"} => issuers[task[c].issuer] # Missing
       /\ reply[c].result = "proof" =>
            reply[c].issuer \in IssuerKey /\ issuers[reply[c].issuer] # Missing

IInv == StoresTyped /\ TasksTyped /\ ChainTyped /\ IssuersKnown

-------------------------------------------------------------------------------
\* A task that moves leaves the others where they are.
LEMMA GotoTask ==
  ASSUME DOMAIN task = Task, NEW t \in Task, NEW s, Goto(t, s)
  PROVE  /\ DOMAIN task' = Task
         /\ task'[t] = s
         /\ \A u \in Task : u # t => task'[u] = task[u]
BY DEF Goto

\* An answer changes nothing but the reply of the client it is for.
LEMMA AnswerReply ==
  ASSUME DOMAIN reply = Caller, NEW t \in Task, NEW result, Answer(t, result)
  PROVE  /\ DOMAIN reply' = Caller
         /\ \A c \in Caller : reply'[c] = IF c = t THEN result ELSE reply[c]
BY DEF Answer

\* The root of a tree is one.
LEMMA RootTyped ==
  ASSUME NEW leaf_set \in LeafSet
  PROVE  root(from_leaves(leaf_set)) \in Roots
BY DEF Roots

\* What the API ingests is an issuer.
LEMMA NewIssuerTyped == NewIssuer \in IssuerView
BY DEF NewIssuer, IssuerView, Roots

\* The empty service is well formed.
LEMMA InitIInv == Init => IInv
<1> SUFFICES ASSUME Init PROVE IInv
  OBVIOUS
<1>1. StoresTyped
  BY DEF Init, StoresTyped
<1>2. TasksTyped
  BY DEF Init, TasksTyped, Task, Idle, ClientTask, PollerTask
<1>3. ChainTyped
  <2>1. ZeroDigest \in Roots
    BY DEF Roots
  <2> QED
    BY <2>1 DEF Init, ChainTyped, IdentityView
<1>4. IssuersKnown
  BY DEF Init, IssuersKnown, Idle, NoReply
<1> QED
  BY <1>1, <1>2, <1>3, <1>4 DEF IInv

\* Types are part of the invariant.
LEMMA InvTypeOK == IInv => TypeOK
BY DEF IInv, StoresTyped, TasksTyped, TypeOK, ClientTask, PollerTask, Item, Task

\* A step that leaves one task in a state of its kind.
LEMMA TaskStep ==
  ASSUME TasksTyped, NEW t \in Task, NEW s, Goto(t, s),
         t \in Caller => ClientTask(s), t = Poller => PollerTask(s),
         DOMAIN reply' = Caller, \A item \in todo' : Item(item)
  PROVE  TasksTyped'
<1>1. /\ DOMAIN task' = Task
      /\ task'[t] = s
      /\ \A u \in Task : u # t => task'[u] = task[u]
  BY GotoTask DEF TasksTyped
<1>2. \A c \in Caller : c \in Task /\ ((task'[c] = s /\ c = t) \/ task'[c] = task[c])
  BY <1>1 DEF Task
<1>3. Poller \in Task /\ ((task'[Poller] = s /\ t = Poller) \/ task'[Poller] = task[Poller])
  BY <1>1 DEF Task
<1>4. ASSUME NEW c \in Caller PROVE ClientTask(task'[c])
  BY <1>2, Zenon DEF TasksTyped
<1>5. PollerTask(task'[Poller])
  BY <1>3, Zenon DEF TasksTyped
<1> QED
  BY <1>1, <1>4, <1>5, Zenon DEF TasksTyped

\* The end of a call: its event and its answer.
LEMMA PublishInv ==
  ASSUME IInv, NEW t \in Task, Publish(t)
  PROVE  IInv'
<1>0. /\ task[t].at = "publish" /\ Answer(t, task[t].result) /\ Goto(t, Idle)
      /\ UNCHANGED <<chain, identities, issuers, trees, todo, calls, failures>>
  BY DEF Publish
<1>1. DOMAIN reply' = Caller
      /\ \A c \in Caller : reply'[c] = IF c = t THEN task[t].result ELSE reply[c]
  BY <1>0, AnswerReply DEF IInv, TasksTyped
<1>2. ClientTask(Idle) /\ PollerTask(Idle)
  BY DEF Idle, ClientTask, PollerTask
<1>3. TasksTyped'
  BY <1>0, <1>1, <1>2, TaskStep DEF IInv, TasksTyped
<1>4. t \in Caller => task[t].result.result # "proof"
  BY <1>0 DEF IInv, TasksTyped, ClientTask
<1>5. \A c \in Caller : task'[c] = task[c] \/ task'[c] = Idle
  BY <1>0, GotoTask DEF IInv, TasksTyped, Task
<1>6. IssuersKnown'
  BY <1>0, <1>1, <1>4, <1>5 DEF IInv, IssuersKnown, Idle
<1>7. StoresTyped' /\ ChainTyped'
  BY <1>0 DEF IInv, StoresTyped, ChainTyped
<1> QED
  BY <1>3, <1>6, <1>7 DEF IInv

\* An issuer is stored, and known from then on.
LEMMA IngestIssuerInv ==
  ASSUME IInv, NEW t \in Task, ingest_issuer(t)
  PROVE  IInv'
<1> DEFINE i == task[t].issuer
           view == task[t].view
           next == Publishing(IssuerIndexed(i, view), [result |-> "ok"])
<1>0. /\ task[t].at = "ingest_issuer" /\ Goto(t, next)
      /\ issuers' = [issuers EXCEPT ![i] = view]
      /\ UNCHANGED <<chain, identities, trees, reply, todo, calls, failures>>
  BY DEF ingest_issuer, UpsertIssuer
<1>1. i \in IssuerKey /\ view \in IssuerView
  BY <1>0 DEF IInv, TasksTyped, ClientTask, PollerTask, Item, Task
<1>2. ClientTask(next) /\ PollerTask(next) /\ next.at = "publish"
  BY DEF Publishing, ClientTask, PollerTask
<1> HIDE DEF i, view, next
<1>3. TasksTyped'
  BY <1>0, <1>2, TaskStep DEF IInv, TasksTyped
<1>4. StoresTyped' /\ ChainTyped'
  BY <1>0, <1>1 DEF IInv, StoresTyped, ChainTyped
<1>5. \A j \in IssuerKey : issuers[j] # Missing => issuers'[j] # Missing
  BY <1>0, <1>1, MissingAssumption DEF IInv, StoresTyped
<1>6. \A c \in Caller : task'[c] = task[c] \/ task'[c] = next
  BY <1>0, GotoTask DEF IInv, TasksTyped, Task
<1>7. \A c \in Caller : task[c].at \in {"put_leaves", "write_root"} => task[c].issuer \in IssuerKey
  BY DEF IInv, TasksTyped, ClientTask
<1>8. IssuersKnown'
  BY <1>0, <1>2, <1>5, <1>6, <1>7 DEF IInv, IssuersKnown
<1> QED
  BY <1>3, <1>4, <1>8 DEF IInv

\* An identity is stored.
LEMMA IngestIdentityInv ==
  ASSUME IInv, NEW t \in Task, ingest_identity(t)
  PROVE  IInv'
<1> DEFINE d == task[t].identity
           view == task[t].view
           next == Publishing(IdentityIndexed(d, view), [result |-> "ok"])
<1>0. /\ task[t].at = "ingest_identity" /\ Goto(t, next)
      /\ identities' = [identities EXCEPT ![d] = view]
      /\ UNCHANGED <<chain, issuers, trees, reply, todo, calls, failures>>
  BY DEF ingest_identity
<1>1. d \in IdentityKey /\ view \in IdentityView
  BY <1>0 DEF IInv, TasksTyped, ClientTask, PollerTask, Item, Task
<1>2. ClientTask(next) /\ PollerTask(next) /\ next.at = "publish"
  BY DEF Publishing, ClientTask, PollerTask
<1> HIDE DEF d, view, next
<1>3. TasksTyped'
  BY <1>0, <1>2, TaskStep DEF IInv, TasksTyped
<1>4. StoresTyped' /\ ChainTyped'
  BY <1>0, <1>1 DEF IInv, StoresTyped, ChainTyped
<1>5. \A c \in Caller : task'[c] = task[c] \/ task'[c] = next
  BY <1>0, GotoTask DEF IInv, TasksTyped, Task
<1>6. IssuersKnown'
  BY <1>0, <1>2, <1>5 DEF IInv, IssuersKnown
<1> QED
  BY <1>3, <1>4, <1>6 DEF IInv

\* The poller makes none of the clients' calls.
LEMMA ClientOnly ==
  ASSUME IInv, NEW t \in Task,
         task[t].at \in {"build_tree", "put_leaves", "write_root", "prove", "verify_proof"}
  PROVE  t \in Caller
BY DEF IInv, TasksTyped, PollerTask, Item, Task

\* A build goes on with the issuer it read, or ends as not found.
LEMMA BuildTreeReadInv ==
  ASSUME IInv, NEW t \in Task, BuildTreeRead(t)
  PROVE  IInv'
<1> DEFINE i == task[t].issuer
           next == Building(t, "put_leaves", issuers[i])
           unknown == [result |-> "not_found"]
<1>0. /\ task[t].at = "build_tree"
      /\ UNCHANGED <<chain, identities, issuers, trees, todo, calls, failures>>
      /\ \/ issuers[i] # Missing /\ Goto(t, next) /\ UNCHANGED reply
         \/ issuers[i] = Missing /\ Answer(t, unknown) /\ Goto(t, Idle)
  BY DEF BuildTreeRead
<1>1. t \in Caller /\ i \in IssuerKey /\ task[t].leaves \in LeafSet
  BY <1>0, ClientOnly DEF IInv, TasksTyped, ClientTask
<1>2. StoresTyped' /\ ChainTyped'
  BY <1>0 DEF IInv, StoresTyped, ChainTyped
<1>3. CASE issuers[i] # Missing /\ Goto(t, next) /\ UNCHANGED reply
  <2>1. ClientTask(next) /\ next.issuer = i
    BY <1>1, <1>3 DEF Building, ClientTask, IInv, StoresTyped
  <2> HIDE DEF next, i
  <2>2. TasksTyped'
    BY <1>0, <1>1, <1>3, <2>1, TaskStep DEF IInv, TasksTyped, Task
  <2>3. \A c \in Caller : task'[c] = task[c] \/ task'[c] = next
    BY <1>1, <1>3, GotoTask DEF IInv, TasksTyped, Task
  <2>4. IssuersKnown'
    BY <1>0, <1>3, <2>1, <2>3 DEF IInv, IssuersKnown
  <2> QED
    BY <1>2, <2>2, <2>4 DEF IInv
<1>4. CASE issuers[i] = Missing /\ Answer(t, unknown) /\ Goto(t, Idle)
  <2>1. ClientTask(Idle) /\ unknown.result # "proof"
    BY DEF ClientTask, Idle
  <2>2. DOMAIN reply' = Caller
        /\ \A c \in Caller : reply'[c] = IF c = t THEN unknown ELSE reply[c]
    BY <1>1, <1>4, AnswerReply DEF IInv, TasksTyped, Task
  <2> HIDE DEF unknown, i
  <2>3. TasksTyped'
    BY <1>0, <1>1, <1>4, <2>1, <2>2, TaskStep DEF IInv, TasksTyped, Task
  <2>4. \A c \in Caller : task'[c] = task[c] \/ task'[c] = Idle
    BY <1>1, <1>4, GotoTask DEF IInv, TasksTyped, Task
  <2>5. IssuersKnown'
    BY <1>0, <2>1, <2>2, <2>4 DEF IInv, IssuersKnown, Idle
  <2> QED
    BY <1>2, <2>3, <2>5 DEF IInv
<1> QED
  BY <1>0, <1>3, <1>4

\* The leaves stored are those of an issuer that is known.
LEMMA BuildTreePutLeavesInv ==
  ASSUME IInv, NEW t \in Task, BuildTreePutLeaves(t)
  PROVE  IInv'
<1> DEFINE i == task[t].issuer
           leaf_set == task[t].leaves
           next == Building(t, "write_root", task[t].view)
<1>0. /\ task[t].at = "put_leaves" /\ Goto(t, next)
      /\ trees' = [trees EXCEPT ![i] = leaf_set]
      /\ UNCHANGED <<chain, identities, issuers, reply, todo, calls, failures>>
  BY DEF BuildTreePutLeaves
<1>1. t \in Caller /\ i \in IssuerKey /\ leaf_set \in LeafSet /\ task[t].view \in IssuerView
  BY <1>0, ClientOnly DEF IInv, TasksTyped, ClientTask
<1>2. ClientTask(next) /\ next.issuer = i
  BY <1>1 DEF Building, ClientTask
<1>3. issuers[i] # Missing
  BY <1>0, <1>1 DEF IInv, IssuersKnown
<1> HIDE DEF next, i, leaf_set
<1>4. TasksTyped'
  BY <1>0, <1>1, <1>2, TaskStep DEF IInv, TasksTyped, Task
<1>5. StoresTyped' /\ ChainTyped'
  BY <1>0, <1>1 DEF IInv, StoresTyped, ChainTyped
<1>6. \A c \in Caller : task'[c] = task[c] \/ task'[c] = next
  BY <1>0, <1>1, GotoTask DEF IInv, TasksTyped, Task
<1>7. \A j \in IssuerKey : trees'[j] # Missing => trees[j] # Missing \/ j = i
  BY <1>0, <1>1 DEF IInv, StoresTyped
<1>8. IssuersKnown'
  BY <1>0, <1>2, <1>3, <1>6, <1>7 DEF IInv, IssuersKnown
<1> QED
  BY <1>4, <1>5, <1>8 DEF IInv

\* The issuer is stored with the root of the leaves of this call.
LEMMA BuildTreeUpsertInv ==
  ASSUME IInv, NEW t \in Task, BuildTreeUpsert(t)
  PROVE  IInv'
<1> DEFINE i == task[t].issuer
           built == root(from_leaves(task[t].leaves))
           view == [task[t].view EXCEPT !.merkle_root = built]
           next == Publishing(TreeBuilt(i, built, task[t].leaves), [result |-> "ok"])
<1>0. /\ task[t].at = "write_root" /\ Goto(t, next)
      /\ issuers' = [issuers EXCEPT ![i] = view]
      /\ UNCHANGED <<chain, identities, trees, reply, todo, calls, failures>>
  BY DEF BuildTreeUpsert, UpsertIssuer
<1>1. t \in Caller /\ i \in IssuerKey /\ task[t].leaves \in LeafSet /\ task[t].view \in IssuerView
  BY <1>0, ClientOnly DEF IInv, TasksTyped, ClientTask
<1>2. view \in IssuerView
  <2>1. built \in Roots
    BY <1>1, RootTyped
  <2> HIDE DEF built
  <2> QED
    BY <1>1, <2>1 DEF IssuerView
<1>3. ClientTask(next) /\ next.at = "publish"
  BY DEF Publishing, ClientTask
<1> HIDE DEF i, view, next
<1>4. TasksTyped'
  BY <1>0, <1>1, <1>3, TaskStep DEF IInv, TasksTyped, Task
<1>5. StoresTyped' /\ ChainTyped'
  BY <1>0, <1>1, <1>2 DEF IInv, StoresTyped, ChainTyped
<1>6. \A j \in IssuerKey : issuers[j] # Missing => issuers'[j] # Missing
  BY <1>0, <1>1, <1>2, MissingAssumption DEF IInv, StoresTyped
<1>7. \A c \in Caller : task'[c] = task[c] \/ task'[c] = next
  BY <1>0, <1>1, GotoTask DEF IInv, TasksTyped, Task
<1>8. \A c \in Caller : task[c].at \in {"put_leaves", "write_root"} => task[c].issuer \in IssuerKey
  BY DEF IInv, TasksTyped, ClientTask
<1>9. IssuersKnown'
  BY <1>0, <1>3, <1>6, <1>7, <1>8 DEF IInv, IssuersKnown
<1> QED
  BY <1>4, <1>5, <1>9 DEF IInv

\* A proof, or the error that there is none.
LEMMA ProveInv ==
  ASSUME IInv, NEW t \in Task, Prove(t)
  PROVE  IInv'
<1> DEFINE i == task[t].issuer
           answer == IF trees[i] = Missing THEN [result |-> "not_found"]
                     ELSE Proved(i, task[t].index)
<1>0. /\ task[t].at = "prove" /\ Answer(t, answer) /\ Goto(t, Idle)
      /\ UNCHANGED <<chain, identities, issuers, trees, todo, calls, failures>>
  BY DEF Prove
<1>1. t \in Caller /\ i \in IssuerKey
  BY <1>0, ClientOnly DEF IInv, TasksTyped, ClientTask
<1>2. answer.result = "proof" => answer.issuer = i /\ trees[i] # Missing
  BY DEF Proved
<1>3. ClientTask(Idle)
  BY DEF ClientTask, Idle
<1> HIDE DEF i, answer
<1>4. DOMAIN reply' = Caller
      /\ \A c \in Caller : reply'[c] = IF c = t THEN answer ELSE reply[c]
  BY <1>0, AnswerReply DEF IInv, TasksTyped
<1>5. TasksTyped'
  BY <1>0, <1>1, <1>3, <1>4, TaskStep DEF IInv, TasksTyped
<1>6. StoresTyped' /\ ChainTyped'
  BY <1>0 DEF IInv, StoresTyped, ChainTyped
<1>7. \A c \in Caller : task'[c] = task[c] \/ task'[c] = Idle
  BY <1>0, <1>1, GotoTask DEF IInv, TasksTyped, Task
<1>8. IssuersKnown'
  BY <1>0, <1>1, <1>2, <1>4, <1>7 DEF IInv, IssuersKnown, Idle
<1> QED
  BY <1>5, <1>6, <1>8 DEF IInv

\* A verdict, or the error that there is no issuer.
LEMMA VerifyProofInv ==
  ASSUME IInv, NEW t \in Task, VerifyProof(t)
  PROVE  IInv'
<1> DEFINE i == task[t].issuer
           valid == mirror_verify(task[t].proof, issuers[i].merkle_root)
           next == Publishing([event |-> "ProofVerified", issuer |-> i, valid |-> valid],
                              [result |-> "verified", valid |-> valid])
           unknown == [result |-> "not_found"]
<1>0. /\ task[t].at = "verify_proof"
      /\ UNCHANGED <<chain, identities, issuers, trees, todo, calls, failures>>
      /\ \/ Goto(t, next) /\ UNCHANGED reply
         \/ Answer(t, unknown) /\ Goto(t, Idle)
  BY DEF VerifyProof
<1>1. t \in Caller
  BY <1>0, ClientOnly
<1>2. StoresTyped' /\ ChainTyped'
  BY <1>0 DEF IInv, StoresTyped, ChainTyped
<1>3. ClientTask(next) /\ next.at = "publish" /\ ClientTask(Idle) /\ unknown.result # "proof"
  BY DEF Publishing, ClientTask, Idle
<1> HIDE DEF next, unknown
<1>4. DOMAIN reply' = Caller
      /\ \A c \in Caller : reply'[c] = reply[c] \/ reply'[c] = unknown
  <2>1. CASE UNCHANGED reply
    BY <2>1 DEF IInv, TasksTyped
  <2>2. CASE Answer(t, unknown)
    BY <1>1, <2>2, AnswerReply DEF IInv, TasksTyped, Task
  <2> QED
    BY <1>0, <2>1, <2>2
<1>5. TasksTyped'
  BY <1>0, <1>1, <1>3, <1>4, TaskStep DEF IInv, TasksTyped
<1>6. \A c \in Caller : task'[c] = task[c] \/ task'[c] = Idle \/ task'[c] = next
  BY <1>0, <1>1, GotoTask DEF IInv, TasksTyped, Task
<1>7. IssuersKnown'
  BY <1>0, <1>3, <1>4, <1>6 DEF IInv, IssuersKnown, Idle
<1> QED
  BY <1>2, <1>5, <1>7 DEF IInv

\* A client starts a call.
LEMMA RequestInv ==
  ASSUME IInv, NEW c \in Caller, Request(c)
  PROVE  IInv'
<1>0. /\ calls' = calls + 1 /\ calls < MaxCalls
      /\ UNCHANGED <<chain, identities, issuers, trees, reply, todo, failures>>
  BY DEF Request
<1>1. PICK next : /\ Goto(c, next) /\ ClientTask(next)
                  /\ next.at \in {"build_tree", "ingest_issuer", "prove", "verify_proof"}
  <2>1. CASE \E call \in Call[c] : Goto(c, call)
    <3>1. PICK call \in Call[c] : Goto(c, call)
      BY <2>1
    <3>2. /\ ClientTask(call)
          /\ call.at \in {"build_tree", "ingest_issuer", "prove", "verify_proof"}
      BY CallAssumption, NewIssuerTyped DEF ClientTask
    <3> QED
      BY <3>1, <3>2
  <2>2. CASE /\ reply[c].result = "proof"
             /\ Goto(c, [at |-> "verify_proof", issuer |-> reply[c].issuer,
                         proof |-> reply[c].proof])
    <3> DEFINE next == [at |-> "verify_proof", issuer |-> reply[c].issuer,
                        proof |-> reply[c].proof]
    <3>1. next.at = "verify_proof" /\ next.issuer \in IssuerKey
      BY <2>2 DEF IInv, IssuersKnown
    <3> HIDE DEF next
    <3>2. ClientTask(next)
      BY <3>1 DEF ClientTask
    <3> QED
      BY <2>2, <3>1, <3>2 DEF next
  <2> QED
    BY <2>1, <2>2 DEF Request
<1>2. TasksTyped'
  BY <1>0, <1>1, TaskStep DEF IInv, TasksTyped, Task
<1>3. StoresTyped' /\ ChainTyped'
  BY <1>0 DEF IInv, StoresTyped, ChainTyped
<1>4. \A d \in Caller : task'[d] = task[d] \/ task'[d] = next
  BY <1>1, GotoTask DEF IInv, TasksTyped, Task
<1>5. IssuersKnown'
  BY <1>0, <1>1, <1>4 DEF IInv, IssuersKnown
<1> QED
  BY <1>2, <1>3, <1>5 DEF IInv

\* The keeper reads the chain, takes the next snapshot, or fails.
LEMMA KeeperInv ==
  ASSUME IInv, PollIdentities \/ PollIssuers \/ IngestNext \/ PollFails
  PROVE  IInv'
<1>0. /\ UNCHANGED <<chain, identities, issuers, trees, reply, calls>>
      /\ failures' = failures \/ (failures < MaxFailures /\ failures' = failures + 1)
  BY DEF PollIdentities, PollIssuers, IngestNext, PollFails
<1>1. PICK next : /\ Goto(Poller, next) /\ PollerTask(next)
                  /\ \A item \in todo' : Item(item)
  <2>1. CASE PollIdentities
    <3> DEFINE next == [at |-> "poll_issuers"]
    <3>1. Goto(Poller, next) /\ PollerTask(next)
      BY <2>1 DEF PollIdentities, PollerTask
    <3>2. ASSUME NEW item \in todo' PROVE Item(item)
      <4>1. PICK d \in IdentityKey :
              item = [at |-> "ingest_identity", identity |-> d, view |-> chain.claims[d]]
        BY <2>1 DEF PollIdentities
      <4>2. chain.claims[d] \in IdentityView
        BY DEF IInv, ChainTyped
      <4> QED
        BY <4>1, <4>2 DEF Item
    <3> QED
      BY <3>1, <3>2
  <2>2. CASE PollIssuers
    <3>1. Goto(Poller, Idle) /\ PollerTask(Idle)
      BY <2>2 DEF PollIssuers, PollerTask, Idle
    <3>2. ASSUME NEW item \in todo' PROVE Item(item)
      <4>1. CASE item \in todo
        BY <4>1 DEF IInv, TasksTyped
      <4>2. CASE item \notin todo
        <5>1. PICK i \in SourceIssuer :
                item = [at |-> "ingest_issuer", issuer |-> i, view |-> IssuerViewOf(i)]
          BY <2>2, <4>2 DEF PollIssuers
        <5>2. IssuerViewOf(i) \in IssuerView
          BY DEF IInv, ChainTyped, IssuerViewOf, IssuerView
        <5> QED
          BY <5>1, <5>2 DEF Item
      <4> QED
        BY <4>1, <4>2
    <3> QED
      BY <3>1, <3>2
  <2>3. CASE IngestNext
    <3>1. PICK item \in todo : Goto(Poller, item) /\ todo' = todo \ {item}
      BY <2>3 DEF IngestNext
    <3>2. PollerTask(item)
      BY DEF IInv, TasksTyped, PollerTask
    <3> QED
      BY <3>1, <3>2 DEF IInv, TasksTyped
  <2>4. CASE PollFails
    <3>1. Goto(Poller, Idle) /\ PollerTask(Idle) /\ todo' = {}
      BY <2>4 DEF PollFails, PollerTask, Idle
    <3> QED
      BY <3>1
  <2> QED
    BY <2>1, <2>2, <2>3, <2>4
<1>2. TasksTyped'
  BY <1>0, <1>1, TaskStep DEF IInv, TasksTyped, Task
<1>3. StoresTyped' /\ ChainTyped'
  BY <1>0 DEF IInv, StoresTyped, ChainTyped
<1>4. \A c \in Caller : task'[c] = task[c]
  BY <1>1, GotoTask DEF IInv, TasksTyped, Task
<1>5. IssuersKnown'
  BY <1>0, <1>4 DEF IInv, IssuersKnown
<1> QED
  BY <1>2, <1>3, <1>5 DEF IInv

\* The chain moves on by a claim.
LEMMA ClaimInv ==
  ASSUME IInv, ClaimOnChain
  PROVE  IInv'
<1>0. UNCHANGED <<identities, issuers, trees, task, reply, todo, calls, failures>>
  BY DEF ClaimOnChain
<1>1. PICK d \in IdentityKey, i \in SourceIssuer :
        /\ chain.counts[i] < MaxClaims
        /\ chain' = [chain EXCEPT !.claims[d][i] = @ + 1, !.counts[i] = @ + 1]
  BY DEF ClaimOnChain
<1>2. ChainTyped'
  <2>1. /\ chain.claims \in [IdentityKey -> IdentityView]
        /\ chain.counts \in [SourceIssuer -> 0..MaxClaims]
        /\ \A e \in IdentityKey, j \in SourceIssuer :
             chain.claims[e][j] \in 0..MaxClaims /\ chain.claims[e][j] <= chain.counts[j]
    BY DEF IInv, ChainTyped, IdentityView
  <2>2. /\ chain'.claims = [chain.claims EXCEPT ![d] = [chain.claims[d] EXCEPT ![i] = chain.claims[d][i] + 1]]
        /\ chain'.counts = [chain.counts EXCEPT ![i] = chain.counts[i] + 1]
        /\ chain'.roots = chain.roots
    BY <1>1 DEF IInv, ChainTyped
  <2>3. chain'.counts \in [SourceIssuer -> 0..MaxClaims]
    BY <1>1, <2>1, <2>2
  <2>4. [chain.claims[d] EXCEPT ![i] = chain.claims[d][i] + 1] \in IdentityView
    BY <1>1, <2>1 DEF IdentityView
  <2>5. chain'.claims \in [IdentityKey -> IdentityView]
    BY <2>1, <2>2, <2>4
  <2>6. \A e \in IdentityKey, j \in SourceIssuer : chain'.claims[e][j] <= chain'.counts[j]
    BY <2>1, <2>2 DEF IdentityView
  <2>7. chain' = [claims |-> chain'.claims, counts |-> chain'.counts, roots |-> chain'.roots]
    BY <1>1 DEF IInv, ChainTyped
  <2> QED
    BY <2>2, <2>3, <2>5, <2>6, <2>7 DEF IInv, ChainTyped
<1>3. StoresTyped' /\ TasksTyped' /\ IssuersKnown'
  BY <1>0 DEF IInv, StoresTyped, TasksTyped, IssuersKnown
<1> QED
  BY <1>2, <1>3 DEF IInv

\* The chain moves on by a root.
LEMMA PublishRootInv ==
  ASSUME IInv, PublishRootOnChain
  PROVE  IInv'
<1>0. UNCHANGED <<identities, issuers, trees, task, reply, todo, calls, failures>>
  BY DEF PublishRootOnChain
<1>1. PICK i \in SourceIssuer, leaf_set \in LeafSet :
        chain' = [chain EXCEPT !.roots[i] = root(from_leaves(leaf_set))]
  BY DEF PublishRootOnChain
<1>2. ChainTyped'
  <2> DEFINE built == root(from_leaves(leaf_set))
  <2>1. built \in Roots
    BY RootTyped
  <2> HIDE DEF built
  <2> QED
    BY <1>1, <2>1 DEF IInv, ChainTyped, built
<1>3. StoresTyped' /\ TasksTyped' /\ IssuersKnown'
  BY <1>0 DEF IInv, StoresTyped, TasksTyped, IssuersKnown
<1> QED
  BY <1>2, <1>3 DEF IInv

\* Every step keeps the service well formed.
LEMMA NextInv == IInv /\ [Next]_vars => IInv'
<1> SUFFICES ASSUME IInv, [Next]_vars PROVE IInv'
  OBVIOUS
<1>1. ASSUME NEW t \in Task, Step(t) PROVE IInv'
  BY <1>1, PublishInv, IngestIssuerInv, IngestIdentityInv, BuildTreeReadInv,
     BuildTreePutLeavesInv, BuildTreeUpsertInv, ProveInv, VerifyProofInv DEF Step
<1>2. ASSUME NEW c \in Caller, Request(c) PROVE IInv'
  BY <1>2, RequestInv
<1>3. CASE PollIdentities \/ PollIssuers \/ IngestNext \/ PollFails
  BY <1>3, KeeperInv
<1>4. CASE ClaimOnChain \/ PublishRootOnChain
  BY <1>4, ClaimInv, PublishRootInv
<1>5. CASE UNCHANGED vars
  BY <1>5 DEF vars, IInv, StoresTyped, TasksTyped, ChainTyped, IssuersKnown
<1> QED
  BY <1>1, <1>2, <1>3, <1>4, <1>5 DEF Next, Task

\* The types, and that trees and proofs are of issuers the mirror knows, hold in
\* every reachable state.
THEOREM Invariance == Spec => []IInv
<1> QED
  BY InitIInv, NextInv, PTL DEF Spec

\* The stores and the copies tasks carry hold views, whatever the clients call in
\* whatever order and wherever the polls fail.
THEOREM TypeCorrect == Spec => []TypeOK
<1> QED
  BY Invariance, InvTypeOK, PTL

\* Whoever is given a proof can have it verified: its issuer is known, and no
\* interleaving of builds, ingests and polls makes it unknown again.
THEOREM ProofsHaveIssuers == Spec => []TreesHaveIssuers
<1>1. IInv => TreesHaveIssuers
  BY DEF IInv, IssuersKnown, TreesHaveIssuers
<1> QED
  BY <1>1, Invariance, PTL

-------------------------------------------------------------------------------
(***************************************************************************)
(* What holds of issuers that one task writes.                             *)
(***************************************************************************)
\* The issuers that the calls of a client write.
Writes(c, i) ==
  \E call \in Call[c] : call.at \in {"build_tree", "ingest_issuer"} /\ call.issuer = i

\* No client writes an issuer that the keeper mirrors.
ClientsKeepApart == \A c \in Caller, i \in SourceIssuer : ~Writes(c, i)

Writing == {"build_tree", "put_leaves", "write_root", "ingest_issuer"}

\* Clients at work keep apart as well, and an issuer one introduces is new.
WritersApart ==
  \A c \in Caller :
    /\ task[c].at \in Writing =>
         Writes(c, task[c].issuer) /\ task[c].issuer \notin SourceIssuer
    /\ task[c].at = "ingest_issuer" => task[c].view = NewIssuer

\* What becomes of a client's task in a step.
LEMMA ClientMoves ==
  ASSUME IInv, [Next]_vars, NEW c \in Caller
  PROVE  \/ task'[c] = task[c]
         \/ task'[c].at \in {"idle", "publish", "verify_proof"}
         \/ task'[c] \in Call[c]
         \/ /\ \/ task[c].at = "build_tree" /\ task'[c].at = "put_leaves"
               \/ task[c].at = "put_leaves" /\ task'[c].at = "write_root"
            /\ task'[c].issuer = task[c].issuer /\ task'[c].leaves = task[c].leaves
<1>0. DOMAIN task = Task /\ c \in Task /\ c # Poller
  BY DEF IInv, TasksTyped, Task
<1>1. ASSUME NEW t \in Task, t # c, NEW s, Goto(t, s) PROVE task'[c] = task[c]
  BY <1>0, <1>1, GotoTask
<1>2. ASSUME NEW s, Goto(c, s) PROVE task'[c] = s
  BY <1>0, <1>2, GotoTask
<1>3. ASSUME NEW d \in Caller, Request(d)
      PROVE  task'[c] = task[c] \/ task'[c].at = "verify_proof" \/ task'[c] \in Call[c]
  BY <1>1, <1>2, <1>3 DEF Request, Task
<1>4. CASE PollIdentities \/ PollIssuers \/ IngestNext \/ PollFails
  BY <1>0, <1>1, <1>4 DEF PollIdentities, PollIssuers, IngestNext, PollFails, Task
<1>5. CASE ClaimOnChain \/ PublishRootOnChain \/ UNCHANGED vars
  BY <1>5 DEF ClaimOnChain, PublishRootOnChain, vars
<1>6. ASSUME Step(c)
      PROVE  \/ task'[c].at \in {"idle", "publish"}
             \/ /\ \/ task[c].at = "build_tree" /\ task'[c].at = "put_leaves"
                   \/ task[c].at = "put_leaves" /\ task'[c].at = "write_root"
                /\ task'[c].issuer = task[c].issuer /\ task'[c].leaves = task[c].leaves
  <2>1. CASE BuildTreeRead(c)
    BY <1>2, <2>1 DEF BuildTreeRead, Building, Idle
  <2>2. CASE BuildTreePutLeaves(c)
    BY <1>2, <2>2 DEF BuildTreePutLeaves, Building
  <2>3. ASSUME NEW event, NEW result, Goto(c, Idle) \/ Goto(c, Publishing(event, result))
        PROVE  task'[c].at \in {"idle", "publish"}
    BY <1>2, <2>3 DEF Idle, Publishing
  <2>4. CASE Publish(c) \/ Prove(c)
    BY <2>3, <2>4 DEF Publish, Prove
  <2>5. CASE ingest_issuer(c) \/ ingest_identity(c)
    BY <2>3, <2>5 DEF ingest_issuer, ingest_identity
  <2>6. CASE BuildTreeUpsert(c)
    BY <2>3, <2>6 DEF BuildTreeUpsert
  <2>7. CASE VerifyProof(c)
    BY <2>3, <2>7 DEF VerifyProof
  <2> QED
    BY <1>6, <2>1, <2>2, <2>4, <2>5, <2>6, <2>7 DEF Step
<1>7. ASSUME NEW t \in Task, t # c, Step(t) PROVE task'[c] = task[c]
  BY <1>1, <1>7 DEF Step, Publish, Prove, ingest_issuer, ingest_identity, BuildTreeRead,
     BuildTreePutLeaves, BuildTreeUpsert, VerifyProof
<1> QED
  BY <1>3, <1>4, <1>5, <1>6, <1>7 DEF Next, Task

\* No client writes at first.
LEMMA InitWritersApart == Init => WritersApart
BY DEF Init, WritersApart, Writing, Idle

\* Clients that keep to their own issuers go on doing so.
LEMMA NextWritersApart ==
  ASSUME ClientsKeepApart, IInv, WritersApart, [Next]_vars
  PROVE  WritersApart'
<1> SUFFICES ASSUME NEW c \in Caller
             PROVE  /\ task'[c].at \in Writing =>
                         Writes(c, task'[c].issuer) /\ task'[c].issuer \notin SourceIssuer
                    /\ task'[c].at = "ingest_issuer" => task'[c].view = NewIssuer
  BY DEF WritersApart
<1>1. CASE task'[c] \in Call[c]
  <2>1. /\ task'[c].at \in Writing => task'[c].at \in {"build_tree", "ingest_issuer"}
        /\ task'[c].at = "ingest_issuer" => task'[c].view = NewIssuer
    BY <1>1, CallAssumption DEF Writing
  <2> QED
    BY <1>1, <2>1 DEF ClientsKeepApart, Writes
<1>2. CASE task'[c].at \in {"idle", "publish", "verify_proof"}
  BY <1>2 DEF Writing
<1>3. CASE task'[c] = task[c]
  BY <1>3 DEF WritersApart
<1>4. CASE /\ \/ task[c].at = "build_tree" /\ task'[c].at = "put_leaves"
              \/ task[c].at = "put_leaves" /\ task'[c].at = "write_root"
           /\ task'[c].issuer = task[c].issuer
  BY <1>4 DEF WritersApart, Writing
<1> QED
  BY <1>1, <1>2, <1>3, <1>4, ClientMoves

\* A tree changes only as its leaves are put, an issuer only as it is written.
LEMMA TreeMoves ==
  ASSUME [Next]_vars
  PROVE  trees' = trees \/ \E t \in Task : BuildTreePutLeaves(t)
BY DEF Next, Step, Task, Request, Publish, ingest_issuer, ingest_identity, BuildTreeRead,
  BuildTreeUpsert, Prove, VerifyProof, PollIdentities, PollIssuers, IngestNext, PollFails,
  ClaimOnChain, PublishRootOnChain, vars

\* Issuers are written by these two steps.
LEMMA IssuerMoves ==
  ASSUME [Next]_vars
  PROVE  issuers' = issuers \/ \E t \in Task : ingest_issuer(t) \/ BuildTreeUpsert(t)
BY DEF Next, Step, Task, Request, Publish, ingest_identity, BuildTreeRead,
  BuildTreePutLeaves, Prove, VerifyProof, PollIdentities, PollIssuers, IngestNext, PollFails,
  ClaimOnChain, PublishRootOnChain, vars

\* A build gets to the write of its root by storing its leaves, and past it by
\* writing the root.
LEMMA RootWriter ==
  ASSUME IInv, [Next]_vars, NEW c \in Caller
  PROVE  /\ task'[c].at = "write_root" => task'[c] = task[c] \/ BuildTreePutLeaves(c)
         /\ task[c].at = "write_root" => task'[c] = task[c] \/ BuildTreeUpsert(c)
<1>0. DOMAIN task = Task /\ c \in Task /\ c # Poller
  BY DEF IInv, TasksTyped, Task
<1>1. CASE Step(c)
  <2>1. task[c].at = "write_root" => BuildTreeUpsert(c)
    BY <1>1 DEF Step, Publish, Prove, ingest_issuer, ingest_identity, BuildTreeRead,
       BuildTreePutLeaves, VerifyProof
  <2>2. CASE BuildTreePutLeaves(c)
    BY <2>2 DEF BuildTreePutLeaves
  <2>3. ASSUME NEW s, Goto(c, s), s.at # "write_root" PROVE task'[c].at # "write_root"
    BY <1>0, <2>3, GotoTask
  <2>4. CASE BuildTreeRead(c)
    BY <2>3, <2>4 DEF BuildTreeRead, Building, Idle
  <2>5. ASSUME NEW event, NEW result, Goto(c, Idle) \/ Goto(c, Publishing(event, result))
        PROVE  task'[c].at # "write_root"
    BY <2>3, <2>5 DEF Idle, Publishing
  <2>6. CASE Publish(c) \/ Prove(c) \/ ingest_issuer(c) \/ ingest_identity(c)
    BY <2>5, <2>6 DEF Publish, Prove, ingest_issuer, ingest_identity
  <2>7. CASE BuildTreeUpsert(c)
    BY <2>5, <2>7 DEF BuildTreeUpsert
  <2>8. CASE VerifyProof(c)
    BY <2>5, <2>8 DEF VerifyProof
  <2> QED
    BY <1>1, <2>1, <2>2, <2>4, <2>6, <2>7, <2>8 DEF Step
<1>2. CASE Request(c)
  <2>1. task[c].at = "idle"
    BY <1>2 DEF Request
  <2>2. PICK next : Goto(c, next) /\ next.at # "write_root"
    BY <1>2, CallAssumption DEF Request
  <2> QED
    BY <1>0, <2>1, <2>2, GotoTask
<1>3. ASSUME NEW t \in Task, t # c, NEW s, Goto(t, s) PROVE task'[c] = task[c]
  BY <1>0, <1>3, GotoTask
<1>4. ASSUME NEW t \in Task, t # c, Step(t) PROVE task'[c] = task[c]
  BY <1>3, <1>4 DEF Step, Publish, Prove, ingest_issuer, ingest_identity, BuildTreeRead,
     BuildTreePutLeaves, BuildTreeUpsert, VerifyProof
<1>5. ASSUME NEW d \in Caller, d # c, Request(d) PROVE task'[c] = task[c]
  BY <1>3, <1>5 DEF Request, Task
<1>6. CASE PollIdentities \/ PollIssuers \/ IngestNext \/ PollFails
  BY <1>0, <1>3, <1>6 DEF PollIdentities, PollIssuers, IngestNext, PollFails, Task
<1>7. CASE ClaimOnChain \/ PublishRootOnChain \/ UNCHANGED vars
  BY <1>7 DEF ClaimOnChain, PublishRootOnChain, vars
<1> QED
  BY <1>1, <1>2, <1>4, <1>5, <1>6, <1>7 DEF Next, Task

\* No two clients write an issuer, nor a client one of the keeper's.
OneWriter ==
  /\ ClientsKeepApart
  /\ \A c, d \in Caller, i \in IssuerKey : (Writes(c, i) /\ Writes(d, i)) => c = d

\* Whoever else is at work on an issuer that a client is writing writes it not.
LEMMA WritesAlone ==
  ASSUME OneWriter, IInv, WritersApart, NEW t \in Caller, task[t].at \in Writing
  PROVE  /\ task[t].issuer \in IssuerKey /\ task[t].issuer \notin SourceIssuer
         /\ Writes(t, task[t].issuer)
         /\ \A c \in Caller : c # t =>
              /\ ~Writes(c, task[t].issuer)
              /\ task[c].at \in Writing => task[c].issuer # task[t].issuer
<1>1. task[t].issuer \in IssuerKey
  BY DEF IInv, TasksTyped, ClientTask, Writing
<1>2. Writes(t, task[t].issuer) /\ task[t].issuer \notin SourceIssuer
  BY DEF WritersApart
<1>3. ASSUME NEW c \in Caller, c # t
      PROVE  /\ ~Writes(c, task[t].issuer)
             /\ task[c].at \in Writing => task[c].issuer # task[t].issuer
  <2>1. ~Writes(c, task[t].issuer)
    BY <1>1, <1>2, <1>3 DEF OneWriter
  <2>2. task[c].at \in Writing => Writes(c, task[c].issuer)
    BY DEF WritersApart
  <2>3. ASSUME task[c].at \in Writing, task[c].issuer = task[t].issuer PROVE FALSE
    BY <2>1, <2>2, <2>3
  <2> QED
    BY <2>1, <2>3
<1> QED
  BY <1>1, <1>2, <1>3

\* Between put_leaves and the write of the root the tree is ahead of the issuer;
\* at all other times the issuer's root is the tree's, or zero.
TreesMatch ==
  /\ \A i \in SourceIssuer : trees[i] = Missing
  /\ \A c \in Caller : task[c].at = "write_root" => trees[task[c].issuer] = task[c].leaves
  /\ \A i \in IssuerKey :
       /\ trees[i] # Missing
       /\ \A c \in Caller : task[c].at = "write_root" => task[c].issuer # i
       => issuers[i].merkle_root \in {ZeroDigest, root(from_leaves(trees[i]))}

\* There are no trees at first.
LEMMA InitTreesMatch == Init => TreesMatch
BY DEF Init, TreesMatch, Idle

\* Once its leaves are stored, the writer is under way until the root is.
LEMMA PutLeavesTreesMatch ==
  ASSUME OneWriter, IInv, WritersApart, TreesMatch, NEW t \in Task, BuildTreePutLeaves(t)
  PROVE  TreesMatch'
<1> DEFINE i == task[t].issuer
<1>0. /\ task[t].at = "put_leaves" /\ Goto(t, Building(t, "write_root", task[t].view))
      /\ trees' = [trees EXCEPT ![i] = task[t].leaves] /\ UNCHANGED issuers
  BY DEF BuildTreePutLeaves
<1>1. t \in Caller
  BY <1>0, ClientOnly DEF IInv, TasksTyped
<1>2. /\ i \in IssuerKey /\ i \notin SourceIssuer
      /\ \A c \in Caller : (c # t /\ task[c].at = "write_root") => task[c].issuer # i
  BY <1>0, <1>1, WritesAlone DEF Writing
<1>3. /\ task'[t].at = "write_root" /\ task'[t].issuer = i /\ task'[t].leaves = task[t].leaves
      /\ \A c \in Caller : c # t => task'[c] = task[c]
  BY <1>0, GotoTask DEF IInv, TasksTyped, Building, Task
<1>4. trees'[i] = task[t].leaves /\ \A j \in IssuerKey : j # i => trees'[j] = trees[j]
  BY <1>0, <1>2 DEF IInv, StoresTyped
<1>5. \A c \in Caller : task[c].at = "write_root" =>
        task[c].issuer \in IssuerKey /\ trees[task[c].issuer] = task[c].leaves
  BY DEF TreesMatch, IInv, TasksTyped, ClientTask
<1> HIDE DEF i
<1>6. \A c \in Caller : task'[c].at = "write_root" => trees'[task'[c].issuer] = task'[c].leaves
  BY <1>2, <1>3, <1>4, <1>5
<1>7. \A j \in IssuerKey :
        (/\ trees'[j] # Missing
         /\ \A c \in Caller : task'[c].at = "write_root" => task'[c].issuer # j)
        => issuers'[j].merkle_root \in {ZeroDigest, root(from_leaves(trees'[j]))}
  <2> SUFFICES ASSUME NEW j \in IssuerKey, trees'[j] # Missing,
                      \A c \in Caller : task'[c].at = "write_root" => task'[c].issuer # j
               PROVE  issuers'[j].merkle_root \in {ZeroDigest, root(from_leaves(trees'[j]))}
    OBVIOUS
  <2>1. j # i /\ trees'[j] = trees[j] /\ issuers' = issuers
    BY <1>0, <1>1, <1>3, <1>4
  <2>2. \A c \in Caller : task[c].at = "write_root" => task[c].issuer # j
    BY <1>0, <1>3
  <2> QED
    BY <2>1, <2>2 DEF TreesMatch
<1>8. \A j \in SourceIssuer : trees'[j] = Missing
  BY <1>2, <1>4 DEF TreesMatch
<1> QED
  BY <1>6, <1>7, <1>8 DEF TreesMatch

\* The root written is that of the leaves stored.
LEMMA UpsertTreesMatch ==
  ASSUME OneWriter, IInv, WritersApart, TreesMatch, NEW t \in Task, BuildTreeUpsert(t)
  PROVE  TreesMatch'
<1> DEFINE i == task[t].issuer
           built == root(from_leaves(task[t].leaves))
           view == [task[t].view EXCEPT !.merkle_root = built]
           next == Publishing(TreeBuilt(i, built, task[t].leaves), [result |-> "ok"])
<1>0. /\ task[t].at = "write_root" /\ Goto(t, next)
      /\ issuers' = [issuers EXCEPT ![i] = view] /\ UNCHANGED trees
  BY DEF BuildTreeUpsert, UpsertIssuer
<1>1. /\ t \in Caller /\ i \in IssuerKey /\ task[t].view \in IssuerView
      /\ \A c \in Caller : (c # t /\ task[c].at = "write_root") => task[c].issuer # i
  BY <1>0, ClientOnly, WritesAlone DEF IInv, TasksTyped, ClientTask, Writing
<1>2. trees[i] = task[t].leaves
  BY <1>0, <1>1 DEF TreesMatch
<1>3. view.merkle_root = built
  BY <1>1 DEF IssuerView
<1>4. next.at = "publish"
  BY DEF Publishing
<1>5. root(from_leaves(trees[i])) = built
  BY <1>2
<1> HIDE DEF i, built, view, next
<1>6. /\ issuers'[i].merkle_root = root(from_leaves(trees[i]))
      /\ \A j \in IssuerKey : j # i => issuers'[j] = issuers[j]
  BY <1>0, <1>1, <1>3, <1>5 DEF IInv, StoresTyped
<1>7. task'[t].at = "publish" /\ \A c \in Caller : c # t => task'[c] = task[c]
  BY <1>0, <1>1, <1>4, GotoTask DEF IInv, TasksTyped, Task
<1>8. task[t].issuer = i
  BY DEF i
<1>9. \A c \in Caller : task'[c].at = "write_root" => trees'[task'[c].issuer] = task'[c].leaves
  BY <1>0, <1>7 DEF TreesMatch
<1>10. ASSUME NEW j \in IssuerKey, trees'[j] # Missing,
              \A c \in Caller : task'[c].at = "write_root" => task'[c].issuer # j
       PROVE  issuers'[j].merkle_root \in {ZeroDigest, root(from_leaves(trees'[j]))}
  <2>1. CASE j = i
    BY <1>0, <1>6, <2>1
  <2>2. CASE j # i
    <3>1. \A c \in Caller : task[c].at = "write_root" => task[c].issuer # j
      BY <1>7, <1>8, <1>10, <2>2
    <3> QED
      BY <1>0, <1>6, <1>10, <2>2, <3>1 DEF TreesMatch
  <2> QED
    BY <2>1, <2>2
<1> QED
  BY <1>0, <1>9, <1>10 DEF TreesMatch

\* A new issuer has no tree, and the keeper writes other issuers.
LEMMA IngestTreesMatch ==
  ASSUME OneWriter, IInv, WritersApart, TreesMatch, NEW t \in Task, ingest_issuer(t)
  PROVE  TreesMatch'
<1> DEFINE i == task[t].issuer
           view == task[t].view
           next == Publishing(IssuerIndexed(i, view), [result |-> "ok"])
<1>0. /\ task[t].at = "ingest_issuer" /\ Goto(t, next)
      /\ issuers' = [issuers EXCEPT ![i] = view] /\ UNCHANGED trees
  BY DEF ingest_issuer, UpsertIssuer
<1>1. next.at = "publish"
  BY DEF Publishing
<1>2. i \in IssuerKey /\ (trees[i] # Missing => view.merkle_root = ZeroDigest)
  <2>1. CASE t \in Caller
    BY <1>0, <2>1 DEF IInv, TasksTyped, ClientTask, WritersApart, NewIssuer
  <2>2. CASE t = Poller
    BY <1>0, <2>2 DEF IInv, TasksTyped, PollerTask, Item, TreesMatch
  <2> QED
    BY <2>1, <2>2 DEF Task
<1> HIDE DEF i, view, next
<1>3. /\ issuers'[i] = view
      /\ \A j \in IssuerKey : j # i => issuers'[j] = issuers[j]
  BY <1>0, <1>2 DEF IInv, StoresTyped
<1>4. \A c \in Caller : task'[c] = task[c] \/ (task'[c] = next /\ task[c].at = "ingest_issuer")
  BY <1>0, GotoTask DEF IInv, TasksTyped, Task
<1> QED
  BY <1>0, <1>1, <1>2, <1>3, <1>4 DEF TreesMatch

\* Every step keeps leaves and root together.
LEMMA NextTreesMatch ==
  ASSUME OneWriter, IInv, WritersApart, TreesMatch, [Next]_vars
  PROVE  TreesMatch'
<1>1. CASE \E t \in Task : BuildTreePutLeaves(t)
  BY <1>1, PutLeavesTreesMatch
<1>2. CASE \E t \in Task : ingest_issuer(t) \/ BuildTreeUpsert(t)
  BY <1>2, IngestTreesMatch, UpsertTreesMatch
<1>3. CASE /\ ~ \E t \in Task : BuildTreePutLeaves(t)
           /\ ~ \E t \in Task : ingest_issuer(t) \/ BuildTreeUpsert(t)
  <2>1. trees' = trees /\ issuers' = issuers
    BY <1>3, TreeMoves, IssuerMoves
  <2>2. ASSUME NEW c \in Caller, task[c].at = "write_root" \/ task'[c].at = "write_root"
        PROVE  task'[c] = task[c]
    <3>1. ~BuildTreePutLeaves(c) /\ ~BuildTreeUpsert(c)
      BY <1>3 DEF Task
    <3> QED
      BY <2>2, <3>1, RootWriter
  <2> QED
    BY <2>1, <2>2 DEF TreesMatch
<1> QED
  BY <1>1, <1>2, <1>3

\* For any leaves, calls and polls: where no two tasks write an issuer, and while no
\* call on it is under way, its root is that of the leaves stored for it, or
\* zero.  The hypothesis is needed: two clients of one issuer, or a client and the
\* keeper, leave a tree under a root that is not its own.
THEOREM RootsAreOfTrees ==
  ASSUME OneWriter
  PROVE  Spec => []TreeMatchesRoot
<1>1. Init => IInv /\ WritersApart /\ TreesMatch
  BY InitIInv, InitWritersApart, InitTreesMatch
<1>2. IInv /\ WritersApart /\ TreesMatch /\ [Next]_vars => (IInv /\ WritersApart /\ TreesMatch)'
  BY NextInv, NextWritersApart, NextTreesMatch DEF OneWriter
<1>3. IInv /\ TreesMatch => TreeMatchesRoot
  BY DEF TreesMatch, TreeMatchesRoot, Resting
<1> QED
  BY <1>1, <1>2, <1>3, PTL DEF Spec

-------------------------------------------------------------------------------
(***************************************************************************)
(* What the keeper mirrors: identities only advance, and the counts of the *)
(* issuers cover them, though the two are read from the chain one after the*)
(* other and ingested one by one.                                          *)
(***************************************************************************)
\* The snapshots not yet ingested, the one being ingested included.
Waiting == todo \cup {task[Poller]}

IsIdentity(s) == s.at = "ingest_identity"
IsIssuer(s) == s.at = "ingest_issuer"

\* The mirror of an identity trails the snapshots of it, of which there is one,
\* and they trail the chain.
SnapshotsInOrder ==
  /\ \A d \in IdentityKey, i \in SourceIssuer :
       identities[d] # Missing => identities[d][i] <= chain.claims[d][i]
  /\ \A s \in Waiting : IsIdentity(s) =>
       \A i \in SourceIssuer :
         /\ s.view[i] <= chain.claims[s.identity][i]
         /\ identities[s.identity] # Missing => identities[s.identity][i] <= s.view[i]
  /\ \A s, u \in Waiting :
       (IsIdentity(s) /\ IsIdentity(u) /\ s.identity = u.identity) => s.view = u.view

\* The attestations of issuer i that the mirror of an identity holds.
Held(d, i) == IF identities[d] = Missing THEN 0 ELSE identities[d][i]

ChainOf(i) == [d \in IdentityKey |-> chain.claims[d][i]]

\* n covers the attestations of i that are mirrored and those about to be.
Covers(n, i) ==
  \E most \in [IdentityKey -> Nat] :
    /\ SumFunction(most) <= n
    /\ \A d \in IdentityKey : Held(d, i) <= most[d]
    /\ \A s \in Waiting : IsIdentity(s) => s.view[i] <= most[s.identity]

\* Identities are ingested before issuers, and only in a cycle that has read both.
CycleInOrder ==
  /\ IsIssuer(task[Poller]) => \A s \in todo : ~IsIdentity(s)
  /\ task[Poller].at = "poll_issuers" => \A s \in todo : ~IsIssuer(s)
  /\ (task[Poller].at # "poll_issuers" /\ \E s \in Waiting : IsIdentity(s)) =>
       \A i \in SourceIssuer : \E s \in todo : IsIssuer(s) /\ s.issuer = i

CountsInOrder ==
  /\ \A i \in SourceIssuer : chain.counts[i] = SumFunction(ChainOf(i))
  /\ \A s \in Waiting : IsIssuer(s) => Covers(s.view.attestation_count, s.issuer)
  /\ \A i \in SourceIssuer :
       (issuers[i] # Missing /\ \A s \in Waiting : IsIssuer(s) => s.issuer # i) =>
         SumFunction([d \in IdentityKey |-> Held(d, i)]) <= issuers[i].attestation_count


-------------------------------------------------------------------------------
\* What a client does leaves the keeper, the mirror of the identities and, as
\* clients keep apart, the issuers it mirrors.
LEMMA ClientFrame ==
  ASSUME IInv, NEW c \in Caller, Step(c) \/ Request(c)
  PROVE  /\ UNCHANGED <<chain, identities, todo, task[Poller]>>
         /\ WritersApart => \A i \in SourceIssuer : issuers'[i] = issuers[i]
<1>0. DOMAIN task = Task /\ c # Poller /\ Poller \in Task /\ c \in Task
  BY DEF IInv, TasksTyped, Task
<1>1. ASSUME NEW s, Goto(c, s) PROVE task'[Poller] = task[Poller]
  BY <1>0, <1>1, GotoTask
<1>2. ~ingest_identity(c)
  BY DEF IInv, TasksTyped, ClientTask, ingest_identity
<1>3. UNCHANGED <<chain, identities, todo, task[Poller]>>
  BY <1>1, <1>2 DEF Step, Request, Publish, ingest_issuer, BuildTreeRead, BuildTreePutLeaves,
     BuildTreeUpsert, Prove, VerifyProof
<1>4. ASSUME WritersApart, NEW i \in SourceIssuer PROVE issuers'[i] = issuers[i]
  <2>1. ASSUME NEW view, UpsertIssuer(task[c].issuer, view), task[c].at \in Writing
        PROVE  issuers'[i] = issuers[i]
    BY <1>4, <2>1 DEF UpsertIssuer, WritersApart, IInv, StoresTyped
  <2>2. CASE ingest_issuer(c)
    BY <2>1, <2>2 DEF ingest_issuer, Writing
  <2>3. CASE BuildTreeUpsert(c)
    BY <2>1, <2>3 DEF BuildTreeUpsert, Writing
  <2>4. CASE issuers' = issuers
    BY <2>4
  <2> QED
    BY <1>2, <2>2, <2>3, <2>4 DEF Step, Request, Publish, BuildTreeRead, BuildTreePutLeaves,
       Prove, VerifyProof
<1> QED
  BY <1>3, <1>4

\* The keeper's own steps on the engine.
LEMMA PollerSteps ==
  ASSUME IInv, Step(Poller)
  PROVE  Publish(Poller) \/ ingest_issuer(Poller) \/ ingest_identity(Poller)
BY DEF IInv, TasksTyped, PollerTask, Item, Step, BuildTreeRead, BuildTreePutLeaves,
   BuildTreeUpsert, Prove, VerifyProof

\* The keeper goes on to a state that is no snapshot, or to one it had to do.
LEMMA PollerGoto ==
  ASSUME IInv, NEW s, Goto(Poller, s)
  PROVE  task'[Poller] = s /\ Waiting' = todo' \cup {s}
BY GotoTask DEF IInv, TasksTyped, Task, Waiting

\* A publication is not a snapshot.
LEMMA PublishingIsNoSnapshot ==
  ASSUME NEW event, NEW result
  PROVE  /\ ~IsIdentity(Publishing(event, result)) /\ ~IsIssuer(Publishing(event, result))
         /\ Publishing(event, result).at = "publish"
BY DEF IsIdentity, IsIssuer, Publishing

\* Publications and the polls that add no identity leave those waiting, and no
\* others.
LEMMA WaitingShrinks ==
  ASSUME IInv,
         \/ Publish(Poller) \/ ingest_issuer(Poller) \/ PollIssuers \/ IngestNext \/ PollFails
  PROVE  /\ UNCHANGED <<chain, identities>>
         /\ \A s \in Waiting' : IsIdentity(s) => s \in Waiting
<1>1. CASE Publish(Poller) \/ PollFails
  <2>1. Goto(Poller, Idle) /\ todo' \subseteq todo /\ UNCHANGED <<chain, identities>>
    BY <1>1 DEF Publish, PollFails
  <2> QED
    BY <2>1, PollerGoto DEF Waiting, IsIdentity, Idle
<1>2. CASE ingest_issuer(Poller)
  <2>1. PICK event, result : Goto(Poller, Publishing(event, result))
    BY <1>2 DEF ingest_issuer
  <2>2. UNCHANGED <<chain, identities, todo>>
    BY <1>2 DEF ingest_issuer
  <2> QED
    BY <2>1, <2>2, PollerGoto, PublishingIsNoSnapshot DEF Waiting
<1>3. CASE PollIssuers
  <2>1. /\ Goto(Poller, Idle) /\ UNCHANGED <<chain, identities>>
        /\ \A s \in todo' : s \in todo \/ s.at = "ingest_issuer"
    BY <1>3 DEF PollIssuers
  <2> QED
    BY <2>1, PollerGoto DEF Waiting, IsIdentity, Idle
<1>4. CASE IngestNext
  <2>1. PICK item \in todo : Goto(Poller, item) /\ todo' = todo \ {item}
    BY <1>4 DEF IngestNext
  <2>2. UNCHANGED <<chain, identities>>
    BY <1>4 DEF IngestNext
  <2> QED
    BY <2>1, <2>2, PollerGoto DEF Waiting
<1> QED
  BY <1>1, <1>2, <1>3, <1>4

-------------------------------------------------------------------------------
\* Nothing is mirrored or waiting at first.
LEMMA InitSnapshots == Init => SnapshotsInOrder
<1> SUFFICES ASSUME Init PROVE SnapshotsInOrder
  OBVIOUS
<1>1. \A s \in Waiting : ~IsIdentity(s)
  BY DEF Init, Waiting, IsIdentity, Idle
<1>2. \A d \in IdentityKey : identities[d] = Missing
  BY DEF Init
<1> QED
  BY <1>1, <1>2 DEF SnapshotsInOrder

\* Snapshots that are gone do not matter.
LEMMA SnapshotsShrink ==
  ASSUME SnapshotsInOrder, UNCHANGED <<chain, identities>>,
         \A s \in Waiting' : IsIdentity(s) => s \in Waiting
  PROVE  SnapshotsInOrder'
BY DEF SnapshotsInOrder

\* The snapshot being ingested is the only one of its identity.
LEMMA SnapshotsIngest ==
  ASSUME IInv, SnapshotsInOrder, ingest_identity(Poller)
  PROVE  /\ SnapshotsInOrder'
         /\ UNCHANGED chain
         /\ \A d \in IdentityKey : identities'[d] # identities[d] =>
              \A i \in SourceIssuer :
                /\ identities'[d][i] <= chain.claims[d][i]
                /\ identities[d] # Missing => identities[d][i] <= identities'[d][i]
<1> DEFINE item == task[Poller]
           d == item.identity
<1>0. PICK event, result : Goto(Poller, Publishing(event, result))
  BY DEF ingest_identity
<1>1. /\ item.at = "ingest_identity"
      /\ identities' = [identities EXCEPT ![d] = item.view]
      /\ UNCHANGED <<chain, todo>>
  BY DEF ingest_identity
<1>2. item \in Waiting /\ IsIdentity(item)
  BY <1>1 DEF Waiting, IsIdentity
<1>3. \A s \in Waiting' : IsIdentity(s) => s \in Waiting
  BY <1>0, <1>1, PollerGoto, PublishingIsNoSnapshot DEF Waiting
<1>4. d \in IdentityKey /\ item.view \in IdentityView
  BY <1>1 DEF IInv, TasksTyped, PollerTask, Item
<1>5. identities'[d] = item.view /\ \A e \in IdentityKey : e # d => identities'[e] = identities[e]
  BY <1>1, <1>4 DEF IInv, StoresTyped
<1> HIDE DEF item, d
<1>6. \A i \in SourceIssuer :
        /\ item.view[i] <= chain.claims[d][i]
        /\ identities[d] # Missing => identities[d][i] <= item.view[i]
  BY <1>2 DEF SnapshotsInOrder, d
<1>7. \A i \in SourceIssuer : item.view[i] \in Nat
  BY <1>4 DEF IdentityView
<1>8. \A e \in IdentityKey, i \in SourceIssuer :
        identities'[e] # Missing => identities'[e][i] <= chain.claims[e][i]
  BY <1>5, <1>6 DEF SnapshotsInOrder
<1>9. ASSUME NEW s \in Waiting', IsIdentity(s), NEW i \in SourceIssuer
      PROVE  /\ s.view[i] <= chain.claims[s.identity][i]
             /\ identities'[s.identity] # Missing => identities'[s.identity][i] <= s.view[i]
  <2>1. s \in Waiting
    BY <1>3, <1>9
  <2>2. s.identity \in IdentityKey
    BY <1>9, <2>1 DEF IInv, TasksTyped, PollerTask, Item, IsIdentity, Waiting
  <2>3. CASE s.identity = d
    <3>1. s.view = item.view
      BY <1>2, <1>9, <2>1, <2>3 DEF SnapshotsInOrder, d
    <3> QED
      BY <1>5, <1>6, <1>7, <2>3, <3>1
  <2>4. CASE s.identity # d
    BY <1>5, <1>9, <2>1, <2>2, <2>4 DEF SnapshotsInOrder
  <2> QED
    BY <2>3, <2>4
<1>10. SnapshotsInOrder'
  BY <1>1, <1>3, <1>8, <1>9 DEF SnapshotsInOrder
<1> QED
  BY <1>1, <1>5, <1>6, <1>10

\* The snapshots of a poll are those of the chain as it is.
LEMMA SnapshotsPoll ==
  ASSUME IInv, SnapshotsInOrder, PollIdentities
  PROVE  SnapshotsInOrder'
<1>0. /\ Goto(Poller, [at |-> "poll_issuers"]) /\ UNCHANGED <<chain, identities>>
      /\ todo' = {[at |-> "ingest_identity", identity |-> d, view |-> chain.claims[d]] :
                    d \in IdentityKey}
  BY DEF PollIdentities
<1>1. ASSUME NEW s \in Waiting', IsIdentity(s)
      PROVE  s.identity \in IdentityKey /\ s.view = chain.claims[s.identity]
  <2>1. s \in todo'
    BY <1>0, <1>1, PollerGoto DEF IsIdentity
  <2> QED
    BY <1>0, <2>1
<1>2. \A d \in IdentityKey, i \in SourceIssuer : chain.claims[d][i] \in Nat
  BY DEF IInv, ChainTyped, IdentityView
<1> QED
  BY <1>0, <1>1, <1>2 DEF SnapshotsInOrder

\* The chain moves past the snapshots, which then trail it.
LEMMA SnapshotsClaim ==
  ASSUME IInv, SnapshotsInOrder, ClaimOnChain
  PROVE  SnapshotsInOrder'
<1>0. UNCHANGED <<identities, todo, task>> /\ Waiting' = Waiting
  BY DEF ClaimOnChain, Waiting
<1>1. \A d \in IdentityKey, i \in SourceIssuer :
        /\ chain.claims[d][i] \in Nat /\ chain'.claims[d][i] \in Nat
        /\ chain.claims[d][i] <= chain'.claims[d][i]
  <2>1. PICK d \in IdentityKey, i \in SourceIssuer :
          chain' = [chain EXCEPT !.claims[d][i] = @ + 1, !.counts[i] = @ + 1]
    BY DEF ClaimOnChain
  <2>2. /\ chain.claims \in [IdentityKey -> IdentityView]
        /\ chain'.claims = [chain.claims EXCEPT ![d] = [chain.claims[d] EXCEPT ![i] = chain.claims[d][i] + 1]]
    BY <2>1 DEF IInv, ChainTyped
  <2> QED
    BY <2>2 DEF IdentityView
<1>2. \A s \in Waiting : IsIdentity(s) => s.identity \in IdentityKey /\ s.view \in IdentityView
  BY DEF IInv, TasksTyped, PollerTask, Item, IsIdentity, Waiting
<1>3. \A d \in IdentityKey, i \in SourceIssuer : identities[d] # Missing => identities[d][i] \in Nat
  BY DEF IInv, StoresTyped, IdentityView
<1>4. \A d \in IdentityKey, i \in SourceIssuer :
        identities'[d] # Missing => identities'[d][i] <= chain'.claims[d][i]
  BY <1>0, <1>1, <1>3 DEF SnapshotsInOrder
<1>5. ASSUME NEW s \in Waiting, IsIdentity(s), NEW i \in SourceIssuer
      PROVE  s.view[i] <= chain'.claims[s.identity][i]
  <2>1. s.identity \in IdentityKey /\ s.view[i] \in Nat
    BY <1>2, <1>5 DEF IdentityView
  <2>2. s.view[i] <= chain.claims[s.identity][i]
    BY <1>5 DEF SnapshotsInOrder
  <2> QED
    BY <1>1, <2>1, <2>2
<1> QED
  BY <1>0, <1>4, <1>5 DEF SnapshotsInOrder

\* Every step that is not the keeper's.
LEMMA OthersKeepSnapshots ==
  ASSUME UNCHANGED <<identities, todo, task[Poller]>>, chain'.claims = chain.claims,
         SnapshotsInOrder
  PROVE  SnapshotsInOrder'
<1>1. Waiting' = Waiting
  BY DEF Waiting
<1> QED
  BY <1>1 DEF SnapshotsInOrder

\* Every step keeps the snapshots between mirror and chain.
LEMMA NextSnapshots ==
  ASSUME IInv, SnapshotsInOrder, [Next]_vars
  PROVE  SnapshotsInOrder'
<1>1. ASSUME NEW c \in Caller, Step(c) \/ Request(c) PROVE SnapshotsInOrder'
  BY <1>1, ClientFrame, OthersKeepSnapshots
<1>2. CASE Step(Poller) \/ PollIssuers \/ IngestNext \/ PollFails
  BY <1>2, PollerSteps, WaitingShrinks, SnapshotsShrink, SnapshotsIngest
<1>3. CASE PollIdentities
  BY <1>3, SnapshotsPoll
<1>4. CASE ClaimOnChain
  BY <1>4, SnapshotsClaim
<1>5. CASE PublishRootOnChain
  <2>1. chain'.claims = chain.claims /\ UNCHANGED <<identities, todo, task>>
    BY <1>5 DEF PublishRootOnChain, IInv, ChainTyped
  <2> QED
    BY <2>1, OthersKeepSnapshots
<1>6. CASE UNCHANGED vars
  BY <1>6, OthersKeepSnapshots DEF vars
<1> QED
  BY <1>1, <1>2, <1>3, <1>4, <1>5, <1>6 DEF Next

\* The mirror of an identity never goes back and never ahead of the chain, for any
\* interleaving of the keeper's cycles with claims and with failures: a cycle
\* starts when the last one has ingested all it read, so that no stale snapshot is
\* left to be written over a newer one.
THEOREM MirrorAdvances == Spec => IdentitiesAdvance
<1> DEFINE Advance == \A d \in IdentityKey : identities'[d] # identities[d] =>
             \A i \in SourceIssuer :
               /\ identities'[d][i] <= chain.claims[d][i]
               /\ identities[d] # Missing => identities[d][i] <= identities'[d][i]
<1>1. ASSUME IInv, SnapshotsInOrder, [Next]_vars PROVE [Advance]_identities
  <2>1. ASSUME NEW c \in Caller, Step(c) \/ Request(c) PROVE identities' = identities
    BY <1>1, <2>1, ClientFrame
  <2>2. CASE PollIssuers \/ IngestNext \/ PollFails
    BY <1>1, <2>2, WaitingShrinks
  <2>3. CASE Step(Poller)
    <3>1. CASE ingest_identity(Poller)
      BY <1>1, <3>1, SnapshotsIngest
    <3> QED
      BY <1>1, <2>3, <3>1, PollerSteps, WaitingShrinks
  <2>4. CASE PollIdentities \/ ClaimOnChain \/ PublishRootOnChain \/ UNCHANGED vars
    BY <2>4 DEF PollIdentities, ClaimOnChain, PublishRootOnChain, vars
  <2> QED
    BY <1>1, <2>1, <2>2, <2>3, <2>4 DEF Next
<1>2. Init => IInv /\ SnapshotsInOrder
  BY InitIInv, InitSnapshots
<1>3. IInv /\ SnapshotsInOrder /\ [Next]_vars => (IInv /\ SnapshotsInOrder)'
  BY NextInv, NextSnapshots
<1> HIDE DEF Advance
<1>4. Spec => [][Advance]_identities
  BY <1>1, <1>2, <1>3, PTL DEF Spec
<1> QED
  BY <1>4 DEF IdentitiesAdvance, Advance

-------------------------------------------------------------------------------
\* No poll is under way at first.
LEMMA InitCycle == Init => CycleInOrder
BY DEF Init, CycleInOrder, Waiting, IsIdentity, IsIssuer, Idle

\* Every step keeps the order of a cycle.
LEMMA NextCycle ==
  ASSUME IInv, CycleInOrder, [Next]_vars
  PROVE  CycleInOrder'
<1>1. CASE UNCHANGED <<todo, task[Poller]>>
  BY <1>1 DEF CycleInOrder, Waiting
<1>2. ASSUME NEW s, Goto(Poller, s), ~IsIdentity(s), ~IsIssuer(s), s.at # "poll_issuers",
             todo' = todo, task[Poller].at # "poll_issuers"
      PROVE  CycleInOrder'
  <2>1. task'[Poller] = s /\ Waiting' = todo' \cup {s}
    BY <1>2, PollerGoto
  <2> QED
    BY <1>2, <2>1 DEF CycleInOrder, Waiting
<1>3. CASE Publish(Poller)
  <2>1. Goto(Poller, Idle) /\ todo' = todo /\ task[Poller].at = "publish"
    BY <1>3 DEF Publish
  <2> QED
    BY <1>2, <2>1 DEF Idle, IsIdentity, IsIssuer
<1>4. CASE ingest_issuer(Poller) \/ ingest_identity(Poller)
  <2>1. PICK event, result : Goto(Poller, Publishing(event, result))
    BY <1>4 DEF ingest_issuer, ingest_identity
  <2>2. todo' = todo /\ task[Poller].at # "poll_issuers"
    BY <1>4 DEF ingest_issuer, ingest_identity
  <2> QED
    BY <1>2, <2>1, <2>2, PublishingIsNoSnapshot
<1>5. CASE PollIdentities
  <2>1. Goto(Poller, [at |-> "poll_issuers"]) /\ \A s \in todo' : s.at = "ingest_identity"
    BY <1>5 DEF PollIdentities
  <2> QED
    BY <2>1, PollerGoto DEF CycleInOrder, IsIssuer
<1>6. CASE PollIssuers
  <2>1. ASSUME NEW i \in SourceIssuer
        PROVE  \E s \in todo' : IsIssuer(s) /\ s.issuer = i
    <3> DEFINE item == [at |-> "ingest_issuer", issuer |-> i, view |-> IssuerViewOf(i)]
    <3>1. item \in todo' /\ IsIssuer(item) /\ item.issuer = i
      BY <1>6 DEF PollIssuers, IsIssuer
    <3> QED
      BY <3>1
  <2>2. Goto(Poller, Idle)
    BY <1>6 DEF PollIssuers
  <2> QED
    BY <2>1, <2>2, PollerGoto DEF CycleInOrder, IsIssuer, Idle
<1>7. CASE IngestNext
  <2>1. PICK item \in todo :
          /\ item.at = "ingest_issuer" => \A other \in todo : other.at # "ingest_identity"
          /\ Goto(Poller, item) /\ todo' = todo \ {item}
    BY <1>7 DEF IngestNext
  <2>2. task[Poller].at = "idle"
    BY <1>7 DEF IngestNext
  <2>3. task'[Poller] = item /\ Waiting' = todo
    BY <2>1, PollerGoto
  <2>4. item.at \in {"ingest_identity", "ingest_issuer"}
    BY <2>1 DEF IInv, TasksTyped, Item
  <2>5. CASE item.at = "ingest_issuer"
    <3>1. \A s \in todo : ~IsIdentity(s)
      BY <2>1, <2>5 DEF IsIdentity
    <3> QED
      BY <2>1, <2>3, <2>5, <3>1 DEF CycleInOrder
  <2>6. CASE item.at = "ingest_identity"
    <3>1. \A i \in SourceIssuer : \E s \in todo : IsIssuer(s) /\ s.issuer = i
      BY <2>2, <2>6 DEF CycleInOrder, IsIdentity, Waiting
    <3>2. \A i \in SourceIssuer : \E s \in todo' : IsIssuer(s) /\ s.issuer = i
      BY <2>1, <2>6, <3>1 DEF IsIssuer
    <3> QED
      BY <2>3, <2>6, <3>2 DEF CycleInOrder, IsIssuer
  <2> QED
    BY <2>4, <2>5, <2>6
<1>8. CASE PollFails
  <2>1. Goto(Poller, Idle) /\ todo' = {}
    BY <1>8 DEF PollFails
  <2> QED
    BY <2>1, PollerGoto DEF CycleInOrder, IsIdentity, IsIssuer, Idle
<1>9. CASE ClaimOnChain \/ PublishRootOnChain \/ UNCHANGED vars
  BY <1>1, <1>9 DEF ClaimOnChain, PublishRootOnChain, vars
<1>10. ASSUME NEW c \in Caller, Step(c) \/ Request(c) PROVE CycleInOrder'
  BY <1>1, <1>10, ClientFrame
<1> QED
  BY <1>3, <1>4, <1>5, <1>6, <1>7, <1>8, <1>9, <1>10, PollerSteps DEF Next

-------------------------------------------------------------------------------
\* An identity holds a number of attestations.
LEMMA HeldNat ==
  ASSUME IInv, NEW d \in IdentityKey, NEW i \in SourceIssuer
  PROVE  Held(d, i) \in Nat
BY DEF Held, IInv, StoresTyped, IdentityView

\* The sums over identities are of natural numbers.
LEMMA ChainOfTyped ==
  ASSUME IInv, NEW i \in SourceIssuer
  PROVE  ChainOf(i) \in [IdentityKey -> Nat]
BY DEF ChainOf, IInv, ChainTyped, IdentityView

\* Whatever covers the attestations is at least their sum.
LEMMA CoveredSum ==
  ASSUME IInv, NEW i \in SourceIssuer, NEW n \in Nat, Covers(n, i)
  PROVE  SumFunction([d \in IdentityKey |-> Held(d, i)]) <= n
<1> DEFINE held == [d \in IdentityKey |-> Held(d, i)]
<1>1. PICK most \in [IdentityKey -> Nat] :
        SumFunction(most) <= n /\ \A d \in IdentityKey : Held(d, i) <= most[d]
  BY DEF Covers
<1>2. held \in [IdentityKey -> Nat] /\ \A d \in IdentityKey : held[d] <= most[d]
  BY <1>1, HeldNat
<1> HIDE DEF held
<1>3. SumFunction(held) <= SumFunction(most)
  BY <1>1, <1>2, SumMonotone
<1>4. SumFunction(held) \in Nat /\ SumFunction(most) \in Nat
  BY <1>1, <1>2, SumNat
<1>5. SumFunction(held) <= n
  BY <1>1, <1>3, <1>4
<1> QED
  BY <1>5 DEF held

\* A count goes on to cover what it covers while snapshots are only ingested or
\* dropped.
LEMMA CoversKept ==
  ASSUME IInv, NEW n, NEW i \in SourceIssuer, Covers(n, i),
         \A s \in Waiting' : IsIdentity(s) => s \in Waiting,
         identities' = identities \/ ingest_identity(Poller)
  PROVE  Covers(n, i)'
<1>1. PICK most \in [IdentityKey -> Nat] :
        /\ SumFunction(most) <= n
        /\ \A d \in IdentityKey : Held(d, i) <= most[d]
        /\ \A s \in Waiting : IsIdentity(s) => s.view[i] <= most[s.identity]
  BY DEF Covers
<1>2. ASSUME NEW d \in IdentityKey
      PROVE  (IF identities'[d] = Missing THEN 0 ELSE identities'[d][i]) <= most[d]
  <2>1. CASE identities'[d] = identities[d]
    BY <1>1, <2>1 DEF Held
  <2>2. CASE identities'[d] # identities[d]
    <3>1. /\ IsIdentity(task[Poller])
          /\ identities' = [identities EXCEPT ![task[Poller].identity] = task[Poller].view]
      BY <2>2 DEF ingest_identity, IsIdentity
    <3>2. task[Poller].view[i] <= most[task[Poller].identity]
      BY <1>1, <3>1 DEF Waiting
    <3>3. task[Poller].identity = d /\ identities'[d] = task[Poller].view
      BY <2>2, <3>1 DEF IInv, StoresTyped
    <3>4. most[d] \in Nat
      OBVIOUS
    <3> QED
      BY <3>2, <3>3, <3>4
  <2> QED
    BY <2>1, <2>2
<1>3. \A s \in Waiting' : IsIdentity(s) => s.view[i] <= most[s.identity]
  BY <1>1
<1> QED
  BY <1>1, <1>2, <1>3 DEF Covers, Held

\* Counts waiting to be ingested go on covering the identities.
LEMMA CoversStay ==
  ASSUME IInv, CountsInOrder,
         \A s \in Waiting' : (IsIdentity(s) \/ IsIssuer(s)) => s \in Waiting,
         identities' = identities \/ ingest_identity(Poller)
  PROVE  \A s \in Waiting' : IsIssuer(s) => Covers(s.view.attestation_count, s.issuer)'
<1> SUFFICES ASSUME NEW s \in Waiting', IsIssuer(s)
             PROVE  Covers(s.view.attestation_count, s.issuer)'
  OBVIOUS
<1>1. s \in Waiting /\ Covers(s.view.attestation_count, s.issuer)
  BY DEF CountsInOrder
<1>2. s.issuer \in SourceIssuer
  BY <1>1 DEF IInv, TasksTyped, PollerTask, Item, IsIssuer, Waiting
<1>3. \A u \in Waiting' : IsIdentity(u) => u \in Waiting
  OBVIOUS
<1> QED
  BY <1>1, <1>2, <1>3, CoversKept

\* With nothing mirrored, every count covers it.
LEMMA InitCounts == Init => CountsInOrder
<1> SUFFICES ASSUME Init PROVE CountsInOrder
  OBVIOUS
<1>1. ASSUME NEW i \in SourceIssuer PROVE chain.counts[i] = SumFunction(ChainOf(i))
  <2>1. ChainOf(i) = [d \in IdentityKey |-> 0] /\ chain.counts[i] = 0
    BY DEF Init, ChainOf
  <2> QED
    BY <2>1, SumZero
<1>2. \A s \in Waiting : ~IsIssuer(s)
  BY DEF Init, Waiting, IsIssuer, Idle
<1>3. \A i \in SourceIssuer : issuers[i] = Missing
  BY DEF Init
<1> QED
  BY <1>1, <1>2, <1>3 DEF CountsInOrder

\* Steps away from the mirror and the chain do not matter.
LEMMA OthersKeepCounts ==
  ASSUME CountsInOrder, UNCHANGED <<identities, todo, task[Poller]>>,
         chain'.claims = chain.claims, chain'.counts = chain.counts,
         \A i \in SourceIssuer : issuers'[i] = issuers[i]
  PROVE  CountsInOrder'
<1>1. Waiting' = Waiting
  BY DEF Waiting
<1>2. \A i \in SourceIssuer : chain'.counts[i] = SumFunction(ChainOf(i)')
  BY DEF CountsInOrder, ChainOf
<1>3. \A s \in Waiting' : IsIssuer(s) => Covers(s.view.attestation_count, s.issuer)'
  BY <1>1 DEF CountsInOrder, Covers, Held
<1>4. ASSUME NEW i \in SourceIssuer, issuers'[i] # Missing,
             \A s \in Waiting' : IsIssuer(s) => s.issuer # i
      PROVE  SumFunction([d \in IdentityKey |-> Held(d, i)'])  <= issuers'[i].attestation_count
  BY <1>1, <1>4 DEF CountsInOrder, Held
<1> QED
  BY <1>2, <1>3, <1>4 DEF CountsInOrder

\* A claim raises the sum of its issuer and its count alike.
LEMMA ClaimCounts ==
  ASSUME IInv, CountsInOrder, ClaimOnChain
  PROVE  CountsInOrder'
<1>0. UNCHANGED <<identities, issuers, todo, task>> /\ Waiting' = Waiting
  BY DEF ClaimOnChain, Waiting
<1>1. PICK d \in IdentityKey, i \in SourceIssuer :
        chain' = [chain EXCEPT !.claims[d][i] = @ + 1, !.counts[i] = @ + 1]
  BY DEF ClaimOnChain
<1>2. /\ chain.claims \in [IdentityKey -> IdentityView]
      /\ chain.counts \in [SourceIssuer -> 0..MaxClaims]
      /\ chain'.claims = [chain.claims EXCEPT ![d] = [chain.claims[d] EXCEPT ![i] = chain.claims[d][i] + 1]]
      /\ chain'.counts = [chain.counts EXCEPT ![i] = chain.counts[i] + 1]
  BY <1>1 DEF IInv, ChainTyped
<1>3. ASSUME NEW j \in SourceIssuer PROVE chain'.counts[j] = SumFunction(ChainOf(j)')
  <2>1. CASE j = i
    <3>1. ChainOf(j)' = [ChainOf(j) EXCEPT ![d] = @ + 1]
      <4>1. \A e \in IdentityKey :
              chain'.claims[e][j] = IF e = d THEN chain.claims[e][j] + 1 ELSE chain.claims[e][j]
        BY <1>2, <2>1 DEF IdentityView
      <4> QED
        BY <4>1 DEF ChainOf
    <3>2. chain'.counts[j] = chain.counts[j] + 1
      BY <1>2, <2>1
    <3>3. SumFunction([ChainOf(j) EXCEPT ![d] = @ + 1]) = SumFunction(ChainOf(j)) + 1
      BY ChainOfTyped, SumRaise
    <3> QED
      BY <3>1, <3>2, <3>3 DEF CountsInOrder
  <2>2. CASE j # i
    <3>1. ChainOf(j)' = ChainOf(j) /\ chain'.counts[j] = chain.counts[j]
      BY <1>2, <2>2 DEF ChainOf, IdentityView
    <3> QED
      BY <3>1 DEF CountsInOrder
  <2> QED
    BY <2>1, <2>2
<1>4. \A s \in Waiting' : IsIssuer(s) => Covers(s.view.attestation_count, s.issuer)'
  BY <1>0 DEF CountsInOrder, Covers, Held
<1>5. ASSUME NEW j \in SourceIssuer, issuers'[j] # Missing,
             \A s \in Waiting' : IsIssuer(s) => s.issuer # j
      PROVE  SumFunction([e \in IdentityKey |-> Held(e, j)'])  <= issuers'[j].attestation_count
  BY <1>0, <1>5 DEF CountsInOrder, Held
<1> QED
  BY <1>3, <1>4, <1>5 DEF CountsInOrder

\* Steps of the keeper that write no store and read no issuer.
LEMMA QuietKeeperCounts ==
  ASSUME IInv, CycleInOrder, CountsInOrder,
         Publish(Poller) \/ PollIdentities \/ IngestNext \/ PollFails
  PROVE  CountsInOrder'
<1>0. UNCHANGED <<chain, identities, issuers>>
  BY DEF Publish, PollIdentities, IngestNext, PollFails
<1>1. \/ \A s \in Waiting' \cup Waiting : ~IsIssuer(s)
      \/ /\ \A s \in Waiting' : (IsIdentity(s) \/ IsIssuer(s)) => s \in Waiting
         /\ \A s \in Waiting : IsIssuer(s) => s \in Waiting'
  <2>1. CASE Publish(Poller)
    <3>1. Goto(Poller, Idle) /\ todo' = todo /\ task[Poller].at = "publish"
      BY <2>1 DEF Publish
    <3> QED
      BY <3>1, PollerGoto DEF Waiting, IsIdentity, IsIssuer, Idle
  <2>2. CASE PollIdentities
    <3>1. /\ Goto(Poller, [at |-> "poll_issuers"]) /\ \A s \in todo' : s.at = "ingest_identity"
          /\ todo = {} /\ task[Poller].at = "idle"
      BY <2>2 DEF PollIdentities
    <3> QED
      BY <3>1, PollerGoto DEF Waiting, IsIssuer
  <2>3. CASE IngestNext
    <3>1. PICK item \in todo : Goto(Poller, item) /\ todo' = todo \ {item}
      BY <2>3 DEF IngestNext
    <3>2. task[Poller].at = "idle"
      BY <2>3 DEF IngestNext
    <3> QED
      BY <3>1, <3>2, PollerGoto DEF Waiting, IsIssuer, IsIdentity
  <2>4. CASE PollFails
    <3>1. /\ Goto(Poller, Idle) /\ todo' = {}
          /\ task[Poller].at = "poll_issuers" \/ (task[Poller].at = "idle" /\ todo = {})
      BY <2>4 DEF PollFails
    <3> QED
      BY <3>1, PollerGoto DEF Waiting, IsIssuer, Idle, CycleInOrder
  <2> QED
    BY <2>1, <2>2, <2>3, <2>4
<1>2. \A i \in SourceIssuer : chain'.counts[i] = SumFunction(ChainOf(i)')
  BY <1>0 DEF CountsInOrder, ChainOf
<1>3. \A s \in Waiting' : IsIssuer(s) => Covers(s.view.attestation_count, s.issuer)'
  <2>1. CASE \A s \in Waiting' : (IsIdentity(s) \/ IsIssuer(s)) => s \in Waiting
    BY <1>0, <2>1, CoversStay
  <2> QED
    BY <1>1, <2>1
<1>4. ASSUME NEW i \in SourceIssuer, issuers'[i] # Missing,
             \A s \in Waiting' : IsIssuer(s) => s.issuer # i
      PROVE  SumFunction([d \in IdentityKey |-> Held(d, i)'])  <= issuers'[i].attestation_count
  <2>1. \A s \in Waiting : IsIssuer(s) => s.issuer # i
    BY <1>1, <1>4
  <2> QED
    BY <1>0, <1>4, <2>1 DEF CountsInOrder, Held
<1> QED
  BY <1>2, <1>3, <1>4 DEF CountsInOrder

\* The issuers are read after the identities, so that their counts cover these.
LEMMA PollIssuersCounts ==
  ASSUME IInv, SnapshotsInOrder, CycleInOrder, CountsInOrder, PollIssuers
  PROVE  CountsInOrder'
<1>0. /\ Goto(Poller, Idle) /\ task[Poller].at = "poll_issuers"
      /\ UNCHANGED <<chain, identities, issuers>>
      /\ todo' = todo \cup
           {[at |-> "ingest_issuer", issuer |-> i, view |-> IssuerViewOf(i)] : i \in SourceIssuer}
  BY DEF PollIssuers
<1>1. \A s \in Waiting' : IsIdentity(s) => s \in Waiting
  BY WaitingShrinks
<1>2. \A i \in SourceIssuer : chain'.counts[i] = SumFunction(ChainOf(i)')
  BY <1>0 DEF CountsInOrder, ChainOf
<1>3. ASSUME NEW s \in Waiting', IsIssuer(s)
      PROVE  Covers(s.view.attestation_count, s.issuer)'
  <2>1. s \in todo' /\ s \notin todo
    BY <1>0, <1>3, PollerGoto DEF IsIssuer, Idle, CycleInOrder
  <2>2. PICK i \in SourceIssuer :
          s = [at |-> "ingest_issuer", issuer |-> i, view |-> IssuerViewOf(i)]
    BY <1>0, <2>1
  <2>3. s.view.attestation_count = chain.counts[i] /\ s.issuer = i
    BY <2>2 DEF IssuerViewOf
  <2> DEFINE most == ChainOf(i)
  <2>4. most \in [IdentityKey -> Nat] /\ SumFunction(most) = chain.counts[i]
    BY ChainOfTyped DEF CountsInOrder
  <2>5. chain.counts[i] \in Nat
    BY DEF IInv, ChainTyped
  <2>6. \A d \in IdentityKey : most[d] = chain.claims[d][i] /\ most[d] \in Nat
    BY <2>4 DEF ChainOf
  <2>7. \A d \in IdentityKey :
          (IF identities'[d] = Missing THEN 0 ELSE identities'[d][i]) <= most[d]
    BY <1>0, <2>6 DEF SnapshotsInOrder
  <2>8. \A u \in Waiting' : IsIdentity(u) => u.view[i] <= most[u.identity]
    <3>1. \A u \in Waiting : IsIdentity(u) => u.identity \in IdentityKey
      BY DEF IInv, TasksTyped, PollerTask, Item, IsIdentity, Waiting
    <3> QED
      BY <1>1, <2>6, <3>1 DEF SnapshotsInOrder
  <2> HIDE DEF most
  <2>9. SumFunction(most) <= chain.counts[i]
    BY <2>4, <2>5
  <2> QED
    BY <2>3, <2>4, <2>7, <2>8, <2>9 DEF Covers, Held
<1>4. ASSUME NEW i \in SourceIssuer
      PROVE  \E s \in Waiting' : IsIssuer(s) /\ s.issuer = i
  <2> DEFINE item == [at |-> "ingest_issuer", issuer |-> i, view |-> IssuerViewOf(i)]
  <2>1. item \in todo' /\ IsIssuer(item) /\ item.issuer = i
    BY <1>0 DEF IsIssuer
  <2> QED
    BY <2>1 DEF Waiting
<1> QED
  BY <1>2, <1>3, <1>4 DEF CountsInOrder

\* While an identity is ingested, the issuers are all still to be.
LEMMA IngestIdentityCounts ==
  ASSUME IInv, CycleInOrder, CountsInOrder, ingest_identity(Poller)
  PROVE  CountsInOrder'
<1>0. /\ UNCHANGED <<chain, issuers, todo>> /\ task[Poller].at = "ingest_identity"
  BY DEF ingest_identity
<1>1. PICK event, result : Goto(Poller, Publishing(event, result))
  BY DEF ingest_identity
<1>2. \A s \in Waiting' : (IsIdentity(s) \/ IsIssuer(s)) => s \in Waiting
  BY <1>0, <1>1, PollerGoto, PublishingIsNoSnapshot DEF Waiting
<1>3. \A s \in Waiting' : IsIssuer(s) => Covers(s.view.attestation_count, s.issuer)'
  BY <1>2, CoversStay
<1>4. \A i \in SourceIssuer : \E s \in Waiting' : IsIssuer(s) /\ s.issuer = i
  BY <1>0 DEF CycleInOrder, Waiting, IsIdentity
<1>5. \A i \in SourceIssuer : chain'.counts[i] = SumFunction(ChainOf(i)')
  BY <1>0 DEF CountsInOrder, ChainOf
<1> QED
  BY <1>3, <1>4, <1>5 DEF CountsInOrder

\* A count that is ingested covers what is mirrored.
LEMMA IngestIssuerCounts ==
  ASSUME IInv, CountsInOrder, ingest_issuer(Poller)
  PROVE  CountsInOrder'
<1> DEFINE item == task[Poller]
           n == item.view.attestation_count
<1>0. /\ UNCHANGED <<chain, identities, todo>> /\ item.at = "ingest_issuer"
      /\ issuers' = [issuers EXCEPT ![item.issuer] = item.view]
  BY DEF ingest_issuer, UpsertIssuer
<1>1. PICK event, result : Goto(Poller, Publishing(event, result))
  BY DEF ingest_issuer
<1>2. /\ \A s \in Waiting' : (IsIdentity(s) \/ IsIssuer(s)) => s \in Waiting
      /\ \A s \in Waiting : IsIssuer(s) => s \in Waiting' \/ s = item
  BY <1>0, <1>1, PollerGoto, PublishingIsNoSnapshot DEF Waiting
<1>3. \A s \in Waiting' : IsIssuer(s) => Covers(s.view.attestation_count, s.issuer)'
  BY <1>0, <1>2, CoversStay
<1>4. item.issuer \in SourceIssuer /\ item.view \in IssuerView
  BY <1>0 DEF IInv, TasksTyped, PollerTask, Item
<1>5. Covers(n, item.issuer) /\ n \in Nat
  BY <1>0, <1>4 DEF CountsInOrder, Waiting, IsIssuer, IssuerView
<1>6. issuers'[item.issuer] = item.view
      /\ \A i \in SourceIssuer : i # item.issuer => issuers'[i] = issuers[i]
  BY <1>0, <1>4 DEF IInv, StoresTyped
<1>7. SumFunction([d \in IdentityKey |-> Held(d, item.issuer)]) <= n
  BY <1>4, <1>5, CoveredSum
<1> HIDE DEF item
<1>8. ASSUME NEW i \in SourceIssuer, issuers'[i] # Missing,
             \A s \in Waiting' : IsIssuer(s) => s.issuer # i
      PROVE  SumFunction([d \in IdentityKey |-> Held(d, i)'])  <= issuers'[i].attestation_count
  <2>1. CASE i = item.issuer
    BY <1>0, <1>6, <1>7, <2>1 DEF Held
  <2>2. CASE i # item.issuer
    <3>1. \A s \in Waiting : IsIssuer(s) => s.issuer # i
      BY <1>2, <1>8, <2>2
    <3> QED
      BY <1>0, <1>6, <1>8, <2>2, <3>1 DEF CountsInOrder, Held
  <2> QED
    BY <2>1, <2>2
<1>9. \A i \in SourceIssuer : chain'.counts[i] = SumFunction(ChainOf(i)')
  BY <1>0 DEF CountsInOrder, ChainOf
<1> QED
  BY <1>3, <1>8, <1>9 DEF CountsInOrder

\* Every step keeps the counts covering the identities.
LEMMA NextCounts ==
  ASSUME IInv, WritersApart, SnapshotsInOrder, CycleInOrder, CountsInOrder, [Next]_vars
  PROVE  CountsInOrder'
<1>1. ASSUME NEW c \in Caller, Step(c) \/ Request(c) PROVE CountsInOrder'
  BY <1>1, ClientFrame, OthersKeepCounts
<1>2. CASE Step(Poller)
  BY <1>2, PollerSteps, QuietKeeperCounts, IngestIdentityCounts, IngestIssuerCounts
<1>3. CASE PollIdentities \/ IngestNext \/ PollFails
  BY <1>3, QuietKeeperCounts
<1>4. CASE PollIssuers
  BY <1>4, PollIssuersCounts
<1>5. CASE ClaimOnChain
  BY <1>5, ClaimCounts
<1>6. CASE PublishRootOnChain
  <2>1. /\ chain'.claims = chain.claims /\ chain'.counts = chain.counts
        /\ UNCHANGED <<identities, todo, task, issuers>>
    BY <1>6 DEF PublishRootOnChain, IInv, ChainTyped
  <2> QED
    BY <2>1, OthersKeepCounts
<1>7. CASE UNCHANGED vars
  BY <1>7, OthersKeepCounts DEF vars
<1> QED
  BY <1>1, <1>2, <1>3, <1>4, <1>5, <1>6, <1>7 DEF Next

\* Between polls the mirrored count of an issuer covers the attestations of it that
\* mirrored identities hold, for any number of identities and of claims made while
\* a cycle reads and ingests: the identities are read before the issuers and
\* ingested before them, and a cycle that fails ingests nothing.  The hypothesis is
\* needed: a client that introduces the issuer anew resets its count.
THEOREM CountsCover ==
  ASSUME ClientsKeepApart
  PROVE  Spec => []CountsCoverClaims
<1> DEFINE Inv == IInv /\ WritersApart /\ SnapshotsInOrder /\ CycleInOrder /\ CountsInOrder
<1>1. Init => Inv
  BY InitIInv, InitWritersApart, InitSnapshots, InitCycle, InitCounts
<1>2. Inv /\ [Next]_vars => Inv'
  BY NextInv, NextWritersApart, NextSnapshots, NextCycle, NextCounts
<1>3. Inv => CountsCoverClaims
  <2> SUFFICES ASSUME Inv, task[Poller].at = "idle", todo = {},
                      NEW i \in SourceIssuer, issuers[i] # Missing
               PROVE  SumFunction([d \in IdentityKey |-> Held(d, i)]) <= issuers[i].attestation_count
    BY DEF CountsCoverClaims, Held
  <2>1. \A s \in Waiting : ~IsIssuer(s)
    BY DEF Waiting, IsIssuer
  <2> QED
    BY <2>1 DEF CountsInOrder
<1> QED
  BY <1>1, <1>2, <1>3, PTL DEF Spec

===============================================================================
