---------------------------- MODULE IdentityEngine ----------------------------
(***************************************************************************)
(* The off-chain identity service: IdentityEngine (core/src/engine.rs) over*)
(* its three in-memory stores (infra/src/lib.rs), the GraphQL calls that   *)
(* drive it (api/src/lib.rs) and the keeper that polls the chain into it   *)
(* (node/src/keeper.rs).                                                   *)
(*                                                                         *)
(* Each store call is atomic, and between two of them other worker threads *)
(* of the runtime run theirs: a task is what an engine call still has to   *)
(* do.  The chain is a ledger that only grows and moves each claim into an *)
(* identity and an issuer at once.                                         *)
(*                                                                         *)
(* An identity is mirrored as its number of attestations per issuer, an    *)
(* issuer as its root and count; their other fields are copied along.      *)
(***************************************************************************)
EXTENDS MerkleTree

CONSTANTS
  IdentityKey,    \* addresses of identities
  IssuerKey,      \* addresses of issuers
  SourceIssuer,   \* the issuers the data source reports
  LeafSet,        \* the sequences of leaves issuers build trees from
  Caller,         \* clients of the API
  Call,           \* the calls each of them makes
  MaxCalls,       \* bound: calls made in a behaviour
  MaxClaims,      \* bound: claims made on chain of each issuer
  MaxFailures,    \* bound: polls that fail
  Poller,         \* the keeper's polling task
  Missing         \* what a store holds under an unused key

\* What the stores hold: an issuer's root and count, an identity's number of
\* attestations per issuer.
Roots == {ZeroDigest} \cup {root(from_leaves(leaf_set)) : leaf_set \in LeafSet}
IssuerView == [merkle_root : Roots, attestation_count : 0..MaxClaims]
IdentityView == [SourceIssuer -> 0..MaxClaims]

\* An issuer as the mutation ingestIssuer introduces it.
NewIssuer == [merkle_root |-> ZeroDigest, attestation_count |-> 0]

ASSUME KeyAssumption ==
  SourceIssuer \subseteq IssuerKey /\ IsFiniteSet(IdentityKey) /\ Poller \notin Caller

ASSUME BoundAssumption == MaxCalls \in Nat /\ MaxClaims \in Nat /\ MaxFailures \in Nat

ASSUME MissingAssumption ==
  Missing \notin IssuerView /\ Missing \notin IdentityView /\ Missing \notin LeafSet

\* The API has no call that ingests an identity.
ASSUME CallAssumption == \A c \in Caller : \A call \in Call[c] :
  \/ call \in [at : {"build_tree"}, issuer : IssuerKey, leaves : LeafSet]
  \/ call \in [at : {"ingest_issuer"}, issuer : IssuerKey, view : {NewIssuer}]
  \/ call \in [at : {"prove"}, issuer : IssuerKey, index : Nat]
  \/ call.at = "verify_proof" /\ call.issuer \in IssuerKey

VARIABLES
  chain,       \* what the data source would report
  identities,  \* InMemoryIdentityStore
  issuers,     \* InMemoryIssuerStore
  trees,       \* InMemoryTreeStore
  task,        \* what each caller and the poller is doing
  reply,       \* what the last call of each caller returned
  todo,        \* the snapshots the current poll has yet to ingest
  calls,       \* calls made so far
  failures     \* polls failed so far

vars == <<chain, identities, issuers, trees, task, reply, todo, calls, failures>>

Idle == [at |-> "idle"]
NoReply == [result |-> "none"]

\* Views of the chain, as the data source builds them.
IssuerViewOf(i) ==
  [merkle_root |-> chain.roots[i], attestation_count |-> chain.counts[i]]

\* What a task publishes once its write is done.
TreeBuilt(i, merkle_root, leaf_set) ==
  [event |-> "TreeBuilt", issuer |-> i, root |-> merkle_root, leaf_count |-> Len(leaf_set)]
IssuerIndexed(i, view) ==
  [event |-> "IssuerIndexed", issuer |-> i, root |-> view.merkle_root]
IdentityIndexed(d, view) ==
  [event |-> "IdentityIndexed", identity |-> d,
   attestations |-> SumFunction(view)]

Init ==
  /\ chain = [claims |-> [d \in IdentityKey |-> [i \in SourceIssuer |-> 0]],
              counts |-> [i \in SourceIssuer |-> 0],
              roots  |-> [i \in SourceIssuer |-> ZeroDigest]]
  /\ identities = [d \in IdentityKey |-> Missing]
  /\ issuers = [i \in IssuerKey |-> Missing]
  /\ trees = [i \in IssuerKey |-> Missing]
  /\ task = [t \in Caller \cup {Poller} |-> Idle]
  /\ reply = [c \in Caller |-> NoReply]
  /\ todo = {}
  /\ calls = 0
  /\ failures = 0

-------------------------------------------------------------------------------
(***************************************************************************)
(* Steps shared by the calls.                                              *)
(***************************************************************************)
Goto(t, state) == task' = [task EXCEPT ![t] = state]

Publishing(event, result) == [at |-> "publish", event |-> event, result |-> result]

Answer(t, result) ==
  reply' = IF t \in Caller THEN [reply EXCEPT ![t] = result] ELSE reply

\* build_tree once it has read `view`, on its way to the store named `at`.
Building(t, at, view) ==
  [at |-> at, issuer |-> task[t].issuer, leaves |-> task[t].leaves, view |-> view]

UpsertIssuer(i, view) == issuers' = [issuers EXCEPT ![i] = view]

Publish(t) ==
  /\ task[t].at = "publish"
  /\ Answer(t, task[t].result)
  /\ Goto(t, Idle)
  /\ UNCHANGED <<chain, identities, issuers, trees, todo, calls, failures>>

ingest_issuer(t) ==
  /\ task[t].at = "ingest_issuer"
  /\ UpsertIssuer(task[t].issuer, task[t].view)
  /\ Goto(t, Publishing(IssuerIndexed(task[t].issuer, task[t].view), [result |-> "ok"]))
  /\ UNCHANGED <<chain, identities, trees, reply, todo, calls, failures>>

ingest_identity(t) ==
  /\ task[t].at = "ingest_identity"
  /\ identities' = [identities EXCEPT ![task[t].identity] = task[t].view]
  /\ Goto(t, Publishing(IdentityIndexed(task[t].identity, task[t].view), [result |-> "ok"]))
  /\ UNCHANGED <<chain, issuers, trees, reply, todo, calls, failures>>

-------------------------------------------------------------------------------
(***************************************************************************)
(* The calls of the API.                                                   *)
(***************************************************************************)

\* A client's request reaches the engine: one of its calls, or the verification
\* of the proof it was last given.
Request(c) ==
  /\ task[c].at = "idle"
  /\ calls < MaxCalls
  /\ calls' = calls + 1
  /\ \/ \E call \in Call[c] : Goto(c, call)
     \/ /\ reply[c].result = "proof"
        /\ Goto(c, [at |-> "verify_proof", issuer |-> reply[c].issuer,
                    proof |-> reply[c].proof])
  /\ UNCHANGED <<chain, identities, issuers, trees, reply, todo, failures>>

\* Mutated: a missing issuer is not an error.
BuildTreeRead_Unchecked(t) ==
  /\ task[t].at = "build_tree"
  /\ Goto(t, Building(t, "put_leaves", issuers[task[t].issuer]))
  /\ UNCHANGED <<chain, identities, issuers, trees, reply, todo, calls, failures>>

\* Mutated: a missing issuer is created when its root is written.
BuildTreeRead_Blind(t) ==
  /\ task[t].at = "build_tree"
  /\ Goto(t, Building(t, "put_leaves", NewIssuer))
  /\ UNCHANGED <<chain, identities, issuers, trees, reply, todo, calls, failures>>

\* build_tree: read the issuer, store the leaves, write the issuer back with the
\* new root, publish.
BuildTreeRead(t) ==
  /\ task[t].at = "build_tree"
  /\ \/ /\ issuers[task[t].issuer] # Missing
        /\ Goto(t, Building(t, "put_leaves", issuers[task[t].issuer]))
        /\ UNCHANGED reply
     \/ /\ issuers[task[t].issuer] = Missing
        /\ Answer(t, [result |-> "not_found"])
        /\ Goto(t, Idle)
  /\ UNCHANGED <<chain, identities, issuers, trees, todo, calls, failures>>

\* Mutated: `entry().or_insert`, which keeps the leaves of an earlier build.
BuildTreePutLeaves_Once(t) ==
  /\ task[t].at = "put_leaves"
  /\ trees' = [trees EXCEPT ![task[t].issuer] = IF @ = Missing THEN task[t].leaves ELSE @]
  /\ Goto(t, Building(t, "write_root", task[t].view))
  /\ UNCHANGED <<chain, identities, issuers, reply, todo, calls, failures>>

BuildTreePutLeaves(t) ==
  /\ task[t].at = "put_leaves"
  /\ trees' = [trees EXCEPT ![task[t].issuer] = task[t].leaves]
  /\ Goto(t, Building(t, "write_root", task[t].view))
  /\ UNCHANGED <<chain, identities, issuers, reply, todo, calls, failures>>

\* Mutated: the event is made of the view that was read, before the new root is set.
BuildTreeUpsert_StaleEvent(t) ==
  /\ task[t].at = "write_root"
  /\ LET i == task[t].issuer
         built == root(from_leaves(task[t].leaves))
     IN  /\ UpsertIssuer(i, [task[t].view EXCEPT !.merkle_root = built])
         /\ Goto(t, Publishing(TreeBuilt(i, task[t].view.merkle_root, task[t].leaves),
                               [result |-> "ok"]))
  /\ UNCHANGED <<chain, identities, trees, reply, todo, calls, failures>>

BuildTreeUpsert(t) ==
  /\ task[t].at = "write_root"
  /\ LET i == task[t].issuer
         built == root(from_leaves(task[t].leaves))
     IN  /\ UpsertIssuer(i, [task[t].view EXCEPT !.merkle_root = built])
         /\ Goto(t, Publishing(TreeBuilt(i, built, task[t].leaves), [result |-> "ok"]))
  /\ UNCHANGED <<chain, identities, trees, reply, todo, calls, failures>>

\* The tree of no leaves counts one, so that index 0 of it passes the range test
\* and the handler indexes an empty vector.
Proved(i, index) ==
  LET tree == from_leaves(trees[i])
  IN  IF index >= leaf_count(tree) THEN [result |-> "out_of_range"]
      ELSE IF index >= Len(trees[i]) THEN [result |-> "panic"]
      ELSE [result |-> "proof", issuer |-> i, proof |-> proof(tree, index)]

\* prove: one read, then no await.
Prove(t) ==
  /\ task[t].at = "prove"
  /\ Answer(t, IF trees[task[t].issuer] = Missing THEN [result |-> "not_found"]
               ELSE Proved(task[t].issuer, task[t].index))
  /\ Goto(t, Idle)
  /\ UNCHANGED <<chain, identities, issuers, trees, todo, calls, failures>>

VerifyProof(t) ==
  /\ task[t].at = "verify_proof"
  /\ \/ /\ issuers[task[t].issuer] # Missing
        /\ LET valid == mirror_verify(task[t].proof, issuers[task[t].issuer].merkle_root)
           IN  Goto(t, Publishing([event |-> "ProofVerified", issuer |-> task[t].issuer,
                                   valid |-> valid],
                                  [result |-> "verified", valid |-> valid]))
        /\ UNCHANGED reply
     \/ /\ issuers[task[t].issuer] = Missing
        /\ Answer(t, [result |-> "not_found"])
        /\ Goto(t, Idle)
  /\ UNCHANGED <<chain, identities, issuers, trees, todo, calls, failures>>

-------------------------------------------------------------------------------
(***************************************************************************)
(* The keeper.  poll_once takes a snapshot of the identities, then one of  *)
(* the issuers, then ingests all of the first before any of the second.    *)
(***************************************************************************)
\* Mutated: a tick starts a cycle while the last one is still ingesting.
PollIdentities_Overlapping ==
  /\ task[Poller].at = "idle"
  /\ todo' = todo \cup {[at |-> "ingest_identity", identity |-> d, view |-> chain.claims[d]] :
                          d \in IdentityKey}
  /\ Goto(Poller, [at |-> "poll_issuers"])
  /\ UNCHANGED <<chain, identities, issuers, trees, reply, calls, failures>>

PollIdentities ==
  /\ task[Poller].at = "idle" /\ todo = {}
  /\ todo' = {[at |-> "ingest_identity", identity |-> d, view |-> chain.claims[d]] :
                d \in IdentityKey}
  /\ Goto(Poller, [at |-> "poll_issuers"])
  /\ UNCHANGED <<chain, identities, issuers, trees, reply, calls, failures>>

PollIssuers ==
  /\ task[Poller].at = "poll_issuers"
  /\ todo' = todo \cup
       {[at |-> "ingest_issuer", issuer |-> i, view |-> IssuerViewOf(i)] : i \in SourceIssuer}
  /\ Goto(Poller, Idle)
  /\ UNCHANGED <<chain, identities, issuers, trees, reply, calls, failures>>

IngestNext ==
  /\ task[Poller].at = "idle"
  /\ \E item \in todo :
       /\ item.at = "ingest_issuer" => \A other \in todo : other.at # "ingest_identity"
       /\ Goto(Poller, item)
       /\ todo' = todo \ {item}
  /\ UNCHANGED <<chain, identities, issuers, trees, reply, calls, failures>>

\* Mutated: the loop ends with the first cycle that fails.
PollFails_Ending ==
  /\ task[Poller].at = "poll_issuers" \/ (task[Poller].at = "idle" /\ todo = {})
  /\ failures < MaxFailures
  /\ failures' = failures + 1
  /\ todo' = {}
  /\ Goto(Poller, [at |-> "stopped"])
  /\ UNCHANGED <<chain, identities, issuers, trees, reply, calls>>

\* Mutated: the identities of a cycle whose issuers cannot be read are ingested.
PollFails_Ingesting ==
  /\ task[Poller].at = "poll_issuers" \/ (task[Poller].at = "idle" /\ todo = {})
  /\ failures < MaxFailures
  /\ failures' = failures + 1
  /\ Goto(Poller, Idle)
  /\ UNCHANGED <<chain, identities, issuers, trees, reply, todo, calls>>

\* The data source fails and the cycle with it; the loop goes on to the next tick.
PollFails ==
  /\ task[Poller].at = "poll_issuers" \/ (task[Poller].at = "idle" /\ todo = {})
  /\ failures < MaxFailures
  /\ failures' = failures + 1
  /\ todo' = {}
  /\ Goto(Poller, Idle)
  /\ UNCHANGED <<chain, identities, issuers, trees, reply, calls>>

-------------------------------------------------------------------------------
(***************************************************************************)
(* The chain: a claim raises an identity's attestations and its issuer's   *)
(* count in one transaction; an issuer publishes a root.                   *)
(***************************************************************************)
ClaimOnChain ==
  /\ \E d \in IdentityKey, i \in SourceIssuer :
       /\ chain.counts[i] < MaxClaims
       /\ chain' = [chain EXCEPT !.claims[d][i] = @ + 1, !.counts[i] = @ + 1]
  /\ UNCHANGED <<identities, issuers, trees, task, reply, todo, calls, failures>>

PublishRootOnChain ==
  /\ \E i \in SourceIssuer, leaf_set \in LeafSet :
       /\ chain.roots[i] = ZeroDigest
       /\ chain' = [chain EXCEPT !.roots[i] = root(from_leaves(leaf_set))]
  /\ UNCHANGED <<identities, issuers, trees, task, reply, todo, calls, failures>>

-------------------------------------------------------------------------------
Step(t) ==
  \/ Publish(t) \/ ingest_issuer(t) \/ ingest_identity(t)
  \/ BuildTreeRead(t) \/ BuildTreePutLeaves(t) \/ BuildTreeUpsert(t)
  \/ Prove(t) \/ VerifyProof(t)

Next ==
  \/ \E c \in Caller : Request(c)
  \/ \E t \in Caller \cup {Poller} : Step(t)
  \/ PollIdentities \/ PollIssuers \/ IngestNext \/ PollFails
  \/ ClaimOnChain \/ PublishRootOnChain

Spec == Init /\ [][Next]_vars

\* The runtime polls every task that can go on, and the keeper's interval ticks
\* for ever; nothing makes a client call or the chain move.
Fairness ==
  /\ \A t \in Caller \cup {Poller} : WF_vars(Step(t))
  /\ WF_vars(PollIdentities) /\ WF_vars(PollIssuers) /\ WF_vars(IngestNext)

FairSpec == Spec /\ Fairness

-------------------------------------------------------------------------------
(***************************************************************************)
(* Properties.                                                             *)
(***************************************************************************)
\* The stores and the copies tasks carry hold views, never something else.
TypeOK ==
  /\ identities \in [IdentityKey -> IdentityView \cup {Missing}]
  /\ issuers \in [IssuerKey -> IssuerView \cup {Missing}]
  /\ trees \in [IssuerKey -> LeafSet \cup {Missing}]
  /\ \A t \in Caller \cup {Poller} :
       task[t].at \in {"put_leaves", "write_root", "ingest_issuer"} =>
         task[t].issuer \in IssuerKey /\ task[t].view \in IssuerView
  /\ calls \in 0..MaxCalls /\ failures \in 0..MaxFailures

\* Leaves are only stored for an issuer the mirror knows, so that whoever is given
\* a proof can have it verified: no answer of prove leads to "not found".
TreesHaveIssuers ==
  /\ \A i \in IssuerKey : trees[i] # Missing => issuers[i] # Missing
  /\ \A c \in Caller : reply[c].result = "proof" => issuers[reply[c].issuer] # Missing

\* The mirror of an identity never loses an attestation it has shown, and never
\* shows one the chain does not have.
IdentitiesAdvance ==
  [][\A d \in IdentityKey : identities'[d] # identities[d] =>
       \A i \in SourceIssuer :
         /\ identities'[d][i] <= chain.claims[d][i]
         /\ identities[d] # Missing => identities[d][i] <= identities'[d][i]]_identities

Resting(i) ==
  \A t \in Caller \cup {Poller} :
    task[t].at \in {"build_tree", "put_leaves", "write_root", "ingest_issuer"} =>
      task[t].issuer # i

\* With no call under way on an issuer, its root is that of the leaves stored for
\* it, so that prove's proofs verify as the engine's test has it (engine.rs:316-321),
\* or the zero root that ingest_issuer gives it anew.
TreeMatchesRoot ==
  \A i \in IssuerKey : (trees[i] # Missing /\ Resting(i)) =>
    issuers[i].merkle_root \in {ZeroDigest, root(from_leaves(trees[i]))}

\* With no call under way on an issuer that has a tree, every proof of its leaves
\* verifies against its root: "verifyProof checks it against the issuer root"
\* (the Postman collection, of an issuer that the keeper polls).
ServedProofsVerify ==
  \A i \in IssuerKey : (trees[i] # Missing /\ Resting(i)) =>
    LET tree == from_leaves(trees[i])
    IN  \A index \in 0..(Len(trees[i]) - 1) :
          mirror_verify(proof(tree, index), issuers[i].merkle_root)

\* Between polls, the mirrored count of an issuer covers the attestations the
\* mirrored identities hold of it, though the two were read at different times.
CountsCoverClaims ==
  (task[Poller].at = "idle" /\ todo = {}) =>
    \A i \in SourceIssuer : issuers[i] # Missing =>
      issuers[i].attestation_count >=
        SumFunction([d \in IdentityKey |->
                       IF identities[d] = Missing THEN 0 ELSE identities[d][i]])

Mirrored ==
  /\ \A d \in IdentityKey : identities[d] = chain.claims[d]
  /\ \A i \in SourceIssuer : issuers[i] = IssuerViewOf(i)

\* Once clients stop writing and the chain rests, the mirror becomes the chain and
\* stays so, whatever stale copies build_tree wrote back and whichever polls failed.
MirrorConverges == <>[]Mirrored

\* "No unwrap/panic on runtime paths" (README.md:268).
NoPanic == \A c \in Caller : reply[c].result # "panic"

===============================================================================
