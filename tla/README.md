# TLA+ models and proofs of PassKeyAuth

A verification development kept beside the code: TLA+ modules that model the
on-chain program, the off-chain identity service and its resilience primitives,
TLC configurations that check them on small instances, and TLAPS proofs, for
every instance, of every safety property a passing run checks. `PROJECT.json` holds the machine-readable part: which lines each
definition stands for, what each run checks, the mutated definitions that show
each property to be falsifiable, the findings and the hazards.

All paths are relative to the repository.

## 1. Inventory

### The parts and how they interact

```
  client ──transaction──▶ Solana runtime ──▶ passkeyauth program   PassKeyAuth
                              │  precompile        │ merkle.rs      Merkle
                              ▼                    ▼
                          Identity / Issuer / Nullifier accounts
                                     ▲ polled
  client ──GraphQL──▶ api ──▶ IdentityEngine ◀── keeper            IdentityEngine
                                │    │   core/merkle.rs            MerkleTree
                                ▼    ▼
                      three stores   BroadcastBus ──▶ subscribers   EventBus, Node

  retry( limiter ▶ breaker ▶ with_timeout(work) )   resilience     GuardedCall
```

| Part | State it keeps | Operations | What makes it correct |
|---|---|---|---|
| Identity program (`programs/passkeyauth/src/{lib,state}.rs`) | `Identity`, `Issuer`, `Nullifier` accounts | six instructions | tables compact and within capacity; an issuer's count = attestations = burned nullifiers; nothing removed; only owners write; a verified passkey was proven |
| Passkey engine (`passkey.rs`) | none | `extract_embedded` | returns what the precompile verified, reads within the data |
| Merkle engine (`merkle.rs`) | none | `verify` | accepts members and nothing else |
| Core Merkle tree (`core/src/merkle.rs`) | levels | `from_leaves`, `root`, `proof`, `verify` | each leaf has a proof both sides accept; a root binds its leaves |
| `IdentityEngine` (`core/src/engine.rs`) | none but its ports | `ingest_*`, `build_tree`, `prove`, `verify_proof`, snapshots | leaves and root agree; a tree has an issuer; no panic |
| In-memory stores (`infra/src/lib.rs`) | three DashMaps | get, insert | atomic per key |
| `BroadcastBus` | ring buffer, receivers | `publish`, `subscribe` | order kept per receiver; the oldest lost at capacity |
| Keeper (`node/src/keeper.rs`) | a loop position | `poll_once`, `scan_once` | the mirror never goes back and converges to the chain |
| API (`api/src/lib.rs`) | none | 3 mutations, queries, 1 subscription | each is one engine call |
| Node (`node/src/{lib,main,startup,config}.rs`) | tasks | start, serve, shut down | stops its tasks |
| Resilience (`resilience/src/lib.rs`) | breaker state, bucket | `retry`, `with_timeout`, `acquire`, `on_*`, `try_acquire` | calls refused exactly while they should be; grants bounded in any stretch of time; waits grow; calls return. Used by no other crate |
| Types (`types/src/lib.rs`) | none | views, hex | round trip |

### What is hard

* **Several instructions in one transaction.** The runtime executes them in order
  and undoes them all when one fails. A claim creates its nullifier account
  before its proof is even looked at, and `verify_passkey` believes a precompile
  instruction that may not have run yet. Both are right only because of the
  rollback; no unit test of a handler sees it.
* **Two stores, two writes.** `build_tree` writes the leaves and then the root.
  The node runs on a multi-threaded runtime, so other calls run in between.
* **Two writers of one record.** The keeper overwrites an issuer with what the
  chain shows, `build_tree` with a copy it read earlier.
* **Snapshots taken at two times.** The keeper reads identities, then issuers.
* **Odd sizes and zero.** Trees of odd size pair a node with itself, the tree of
  no leaves has one.
* **Limits.** Fixed tables, three checked counters, a depth limit on one side
  only.
* **Two readers of one layout.** The precompile and the program parse the same
  bytes by themselves; the program must go on with what the precompile verified.
* **Late answers.** A call that the breaker let through answers after the
  breaker opened, closed or opened again; its deadline may come first.
* **Time.** The resilience crate reads the time of day, which can be set.
* **Slow readers.** A subscriber that falls behind the ring loses events and is
  not told.

`PROJECT.json` lists 37 hazards at their lines, with the properties that cover
them or, for two, the reason why none does.

## 2. Modules

| Module | What it is | State |
|---|---|---|
| `Merkle` | `merkle.rs`: the membership check, with an ideal hash (a pair is its own hash) | none |
| `MerkleTree` | `core/src/merkle.rs`: tree, proofs, mirror of the check | none |
| `EligibleSet` | an issuer's growing set, composing the two | `leaves` |
| `PassKeyAuth` | the program under the runtime | `identities`, `issuers`, `nullifiers`, `committed`, `tx` |
| `IdentityEngine` | engine, stores, API calls and keeper over a moving chain | see below |
| `IdentityLedger` | abstract: a ledger that whole transactions change | `ledger`, `submitted` |
| `LedgerRefinement` | `PassKeyAuth` read as `IdentityLedger` | |
| `Precompile` | `passkey.rs` and the precompile over the same bytes | `data`, `edits` |
| `EventBus` | `BroadcastBus`: the ring and its readers | `ring`, `behind` |
| `Node` | composes `IdentityEngine` and `EventBus`, with subscribers | adds `view`, `lost` |
| `Clock` | real time and the time of day | `elapsed`, `wall`, `settings` |
| `CircuitBreaker`, `RateLimiter`, `RetryPolicy` | the primitives of `resilience/src/lib.rs` | `breaker`; `bucket`; none |
| `BreakerGate` | abstract: which calls a breaker lets through | see below |
| `GuardedCall` | composes clock and primitives, with callers | adds `task`, `granted`, `calls` |
| `MCPassKeyAuth`, `MCEligibleSet`, `MCIdentityEngine`, `MCNode`, `MCPrecompile`, `MCGuardedCall` | values for TLC | |
| `PassKeyAuthProofs` | types, compact tables, the ledger's balance, append-only, owners write, schemas agree, verified means possession, events account for the ledger | |
| `LedgerRefinementProofs` | the program implements `IdentityLedger` | |
| `EligibleSetProofs` | trees, proofs and roots of any size | |
| `IdentityEngineProofs` | types, trees have issuers and roots, what the keeper mirrors | |
| `NodeProofs` | the node runs the service; what subscribers know | |
| `PrecompileProofs` | the parser against the precompile, byte by byte | |
| `GuardedCallProofs` | types, sound breaker, gate implemented, rate, waits | |
| `Sums` | lemmas on finite sets of numbers, recursive functions and sums | |

### PassKeyAuth

An account is a record in a function from the wallet in its seeds, `NoAccount`
where none exists. `identities`, `issuers` and `nullifiers` are the accounts as the running
transaction sees them; `committed` is a copy made at the last boundary, used by
`Rollback` and by the properties. `tx` holds the instructions, the position of
the next one, whether one failed, and the events logged.

One action per handler (`CreateIdentity`, `AddPasskey`, `VerifyPasskey`,
`RegisterIssuer`, `UpdateRoot`, `ClaimAttestation`), each with its success and its
failure; account constraints (`seeds`, `has_one`, `init`) are part of the guard.
`ClaimAttestation` has three outcomes, because the nullifier is created by the
constraints and exists when the handler fails. The runtime is external:
`Begin`, `Secp256r1` (the precompile as an instruction that succeeds or fails),
`OutOfBudget` (a transaction may fail before any instruction), `Commit`,
`Rollback`.

A precompile instruction is its signatures, each with the key and message at
its offsets, whether all its instruction indices refer to itself (`embedded`) and
whether the precompile accepts it (`valid`). What `extract_embedded` computes from
the bytes is kept here, the byte positions are in `Precompile`. Left out: labels,
timestamps, bumps, rent, and the reason of a failure.

### IdentityLedger and LedgerRefinement

The abstract ledger knows neither slots nor counts nor running views: a
transaction is submitted, and then committed as a whole or discarded. `Course`
is the ledger after each number of its instructions; it may commit if each is
`Allowed` where it stands, and then leaves the last ledger of the course. `LedgerRefinement` reads a table up to its count, drops the counts and
maps `committed` to the ledger and `tx.ixs` to what is submitted: `Commit` is the
abstract commit, `Rollback` the discard, and all handlers stutter.

### Precompile

The data of a precompile instruction is a sequence of bytes. `extract_embedded` is
translated with its `get` of ranges, its `read_u16`s and its early returns; the
precompile resolves offsets and instruction indices of every signature. Clients
build data as the parser's tests do (`Blob`), then up to `MaxEdits` numbers are
changed, the count is changed or the data cut short.

### MerkleTree and EligibleSet

A tree is its sequence of levels. `Levels` is the recursive function of the levels
above the leaves and `from_leaves` takes them up to the first that holds a single
node; `Ancestors` halves an index level by level, and `proof` reads siblings and
direction bits off it. `index_bits` is the set of the positions of the bits that are set: a test
of a bit is a membership, and the shift that wraps at the width of the word is a remainder.
`Climb` is the loop of both `compute_root`s. `EligibleSet` appends one commitment at a time, so
every sequence up to the bound is a state; the properties look at its tree.

### IdentityEngine

Each engine call is a task that takes one step per store call or publication:
`build_tree` is `BuildTreeRead`, `BuildTreePutLeaves`, `BuildTreeUpsert`,
`Publish`. `prove` reads once and is one step. A DashMap get or insert is atomic. The
in-memory store calls never suspend, so the interleavings are those of worker
threads, and a request timeout cannot cancel a call between two of them.

`poll_once` is `PollIdentities`, `PollIssuers`, then `IngestNext` per item, identities
first. Items of one kind are ingested in any order, the order of the data
source's list being its own. `PollFails` may replace either read.

The chain is what the data source reports: a ledger that grows
(`ClaimOnChain`, `PublishRootOnChain`), which is what `LedgerBalanced` and
`AppendOnly` prove of the program; the simulator's constant snapshot is the case
of a chain that rests. An identity is mirrored as its number of attestations per
issuer, an issuer as its root and count: the fields in which copies can be told
apart.

### EventBus and Node

`ring` holds the last events as far as some subscriber has yet to read them, and
`behind[s]` how many that is for `s`, one more than the ring holds standing for all larger
numbers. `publish`, `subscribe` and `unsubscribe` are the channel's operations; `Lag` is the
notice of lost events that `filter_map(Result::ok)` drops, after which the stream goes on
with the oldest event there is. Buffers of `tokio::sync::broadcast` have a power of
two of slots (`PowerOfTwo`, `RingSize`).

`Node` is `assemble`: `Serve` takes a step of `IdentityEngine` and hands what it
publishes to the bus. A subscriber notes the root that the last event it
received names, per issuer. `lost` remembers whose stream skipped events; no code
keeps it, since the code does not let a subscriber know.

### The resilience primitives and GuardedCall

`breaker` and `bucket` are the structs behind the two mutexes. Each method locks
once and is one step; `acquire` calls `state()` and looks at what it returned, with
nothing else in between, so that it is one step too. Time is counted in clock
units; `elapsed` is real, `wall` what `SystemClock` reads. Timers of the
runtime go off at any moment after they were set. Tokens are counted in parts of
which a clock unit refills a whole number; the backoff is in 2000ths of its unit,
so that halving and jitter are exact, and `shift` is `1 << n` for the amounts that `min(16)` leaves. Left out: rounding of floating point numbers,
the length of timers, a failure count beyond u32 (`OnFailure` ends the model there;
a debug build would panic).

No crate calls the primitives. `GuardedCall` is a caller written as the crate's
documentation (`lib.rs:3-6`, `README.md:207-208`) has it: `retry` around an operation that
takes tokens, acquires the breaker, works under `with_timeout` and reports how
it went. `Step` is what happens by itself; `Succeed` and `WorkFails` are the answers of
the service, which may never come.

`BreakerGate` is a breaker without states: a call is let through unless the last
`Threshold` answers were failures and the last of them is younger than the
cooldown. The refinement mapping reads `streak` from the failure count, `tripped` from
`opened_at` unless the breaker is closed, `calling` and `refused` from the tasks. That it
holds means that `HalfOpen` is visible to no caller: which is finding 5.

## 3. Runs

| Run | Configuration | Shows |
|---|---|---|
| `passkeyauth` | `MCPassKeyAuth.cfg` | all properties of the program and that it implements `IdentityLedger`, about 470 000 states |
| `eligible_set` | `MCEligibleSet.cfg` | trees, proofs and the two verifiers, 127 sets of up to six leaves over two commitments |
| `deep_tree` | `DeepTree.cfg` | **violation**: the service accepts proofs the program finds too deep |
| `shared_issuer` | `SharedIssuer.cfg` | two clients and the keeper on one issuer, with liveness |
| `node` | `Node.cfg` | a client that writes, one that verifies, the keeper and a subscriber: leaves and root agree, counts cover claims, the subscriber ends with the service's roots; about 5 800 000 states, two minutes with two workers |
| `concurrent_builds` | `ConcurrentBuilds.cfg` | **violation**: two builds leave one's leaves under the other's root |
| `polled_issuer` | `PolledIssuer.cfg` | **violation**: a poll overwrites a built root; proofs stop verifying |
| `empty_tree` | `EmptyTree.cfg` | **violation**: proof 0 of an empty tree panics |
| `precompile` | `Precompile.cfg` | two parsers of one layout, 216 000 data |
| `guarded_call` | `GuardedCall.cfg` | two callers behind limiter, breaker, deadline and retry, with liveness and the gate; about 340 000 states |
| `single_probe` | `SingleProbe.cfg` | **violation**: a half-open breaker admits more than one probe |
| `wall_clock` | `WallClock.cfg` | **violation**: with the time of day set, the limiter grants too much |

### Properties of the program (`PassKeyAuth`)

* `TablesCompact`: live entries are the first ones, counts are their number.
* `LedgerBalanced`: attestations naming an issuer, its count and the nullifiers
  burned for it are equally many, across accounts of different owners.
* `AttestationsKeepSchema`: an attestation carries its issuer's schema.
* `VerifiedMeansPossession`: each `PassKeyVerified` of a transaction about to
  commit is backed by a signature the precompile accepted, by that key, over the
  message whose hash is logged, wherever in the transaction it stands.
* `EventsAccountForLedger`: the log of a running transaction is its effect on accounts,
  credentials, counts and roots; of several roots logged for an issuer the last counts.
* `AppendOnly`, `OnlyOwnersWrite`: what a commit may never do.
* `ImplementsLedger`: what is committed changes by whole transactions, as their
  instructions say, one after the other.
* `ParsersAgree` (`Precompile`): whatever numbers the data holds, if the precompile can
  read it and the program extracts from it, key and message are those of the
  first signature the precompile verified. `EmbeddedExtracts`: nothing embedded is
  refused, messages at the very end of the data included.

### Properties of the off-chain service

* `ProofsVerify`, `AcceptedProofsNameLeaves`, `MirrorAgrees`, `RootBindsLeaves`.
  A proof whose directions are those of no position may still name a leaf: in trees with
  an odd level a leaf can be reached over the copy of a node, and from six leaves on the
  copies are of whole subtrees, so that such a leaf need not be the last one. What the
  directions of a position name is the leaf that stands there, in every tree.
* `TreesHaveIssuers`, `TreeMatchesRoot`, `IdentitiesAdvance`,
  `CountsCoverClaims`, and under fairness `MirrorConverges`.
* `ServedProofsVerify`, `NoPanic`, `MirrorIsOnChainAccurate`: stated by the
  documentation and violated.
* `FeedCatchesUp` (`Node`): a subscriber whose stream skipped nothing knows, once it
  has read all, the root of each issuer it has heard of. Two conditions are
  part of it because the code does not hold without them: the stream lost no
  event, and no call on the issuer is under way (`Settled`). A third is on the clients of
  the run: no two of them write one issuer, or events could cross as roots do in
  `concurrent_builds`.

### Properties of the resilience primitives (`GuardedCall`)

* `BreakerSound`: the three fields stay in step through answers that arrive late
  and in any order; `HalfOpen` only after a whole cooldown.
* `ImplementsGate`: see above.
* `RateBounded`: in any stretch of real time callers together are granted at most
  a full bucket and what flows in; what is refused in between neither
  loses nor gains tokens.
* `WaitsGrow`: the first wait is of the base delay, waits grow below half the
  limit and never exceed it.
* `CallsReturn`: a call returns even when the work never answers, other callers
  keep the breaker open or the bucket empty, or the policy allows no attempts.
* `SingleProbe`: stated by the documentation and violated.

### Bounds

| Bound | Value | Why it is enough |
|---|---|---|
| wallets, credentials | 2, 2 and the zero key | an owner and another; each may also be an issuer |
| `MAX_PASSKEYS`, `MAX_ATTESTATIONS` | 2 (4 in the code) | empty, partly filled and full tables |
| `U64Max` | 3 | an issuer's count overflows, which two wallets with two slots can reach |
| `MAX_MERKLE_DEPTH` | 1 for `passkeyauth` (20) | accepted, wrong and too long proofs |
| `MAX_TX_INSTRUCTIONS` | 3 (16) | a precompile just inside and one beyond the scan |
| transactions | about 40 | each handler with each of its outcomes, alone and after others; TLC explores their every order, and a budget failure before any instruction |
| nullifiers | 4 | enough to fill both tables |
| `MaxLeaves` | 6 | sizes 1, 2, 3 (odd), 4 (full), 5 (odd on two levels), 6 (even, and odd one level up: a whole subtree is copied) |
| `MaxForgedLeaves` | 6 | all proofs over a tree's nodes are enumerated up to this size; two commitments, one of them zero, make sets with and without repetitions |
| `MaxCalls`, `MaxClaims`, `MaxFailures` | 2-4, 0-1, 0-1 | two overlapping calls, or an ingest and two builds; a claim between the two snapshots; a failing poll |
| `capacity` (bus) | 2 (1024 in the code) | a build publishes after an ingest has; the keeper alone overruns the ring in two polls |
| `Radix` | 7 (256) | a u16 reaches 48, a little past the data of one or two signatures, as 65535 is past a transaction; key and signature have 2 bytes (33, 64) |
| `MaxEdits` | 2 | an index and an offset wrong together |
| `MaxTime`, `MaxSettings` | 3-5, 0-1 | a cooldown of 2 ends and starts again; the clock is set once |
| `Threshold`, `Cooldown` | 2, 2 | a failure below the threshold, at it and past it |
| `Capacity`, `Refill`, `Weight` | 4, 1, 2 (8, 2, 2 for `single_probe`) | two grants empty the bucket, one unit refills half a grant |
| `max_attempts` | 0 and 3 | a policy of none, and one whose waits meet `MaxDelay` |
| `MaxCalls` (`GuardedCall`) | 4-5 | each caller calls again after failures of both |
| `U32Max` | 1 000 000 | never met in a run; the proofs hold for any |

Deadlock checking is off for `EligibleSet` (the set stops growing at its
bound), for `Precompile` (edits end) and for `GuardedCall` (its callers may stop
calling, and the model's time ends). In every other run the system must always
be able to go on.

### Fairness

`IdentityEngine` assumes weak fairness of each task's next step, which the runtime
gives every task that can run, and of the keeper's poll, whose interval ticks
for ever and whose loop goes on after a failed cycle. Nothing is assumed of
clients or of the chain: `MirrorConverges` holds because both are bounded, that is,
once they rest. `PassKeyAuth` and `Node` need no fairness; their properties are safety.

`GuardedCall` assumes weak fairness of each caller's `Step`: the runtime polls a
task that can go on, a deadline passes and a sleep ends. Nothing is assumed of
the service: `CallsReturn` may not rest on `Succeed` or `WorkFails`.

### Findings

1. **`build_tree` is not atomic** (`core/src/engine.rs:126-128`): crossing builds
   leave leaves and root of different sets, and `prove` serves proofs that
   `verify_proof` rejects.
2. **A built root lasts until the next poll** (`node/src/keeper.rs:34`): for an
   issuer the data source reports, among them the one of the Postman collection.
3. **`prove` panics on an empty tree** (`core/src/engine.rs:154`).
4. **No depth limit off-chain** (`core/src/merkle.rs:39`): a set of more than 2^20
   leaves has proofs the program never accepts.
5. **Half-open admits everyone** (`resilience/src/lib.rs:209`): "A single probe is
   allowed to test recovery" (line 155), and each caller until the first answer is.
6. **The clock is the time of day** (`resilience/src/lib.rs:30`): documented as
   monotonic (lines 17-19). Set forward, the limiter refills at once; set
   back, a cooldown lasts longer by as much.

## 4. Proofs

### The program

These theorems are about `PassKeyAuth!Spec` for every value of its constants:
any finite set of wallets, any tables, any transactions, of any length. They
assume what the module's ASSUMEs state: the capacities fit a u8
(`CapacityAssumption`), transactions are sequences of instructions
(`TransactionAssumption`), the zero key and schema are values
(`ZeroAssumption`), wallets are finitely many, the default key is not a wallet and no account
equals `NoAccount` (`AccountAssumption`). TLC evaluates each of them.

| Theorem | States | Inductive invariant |
|---|---|---|
| `TypeCorrect` | `[]TypeOK` | `TypeInv`: `TypeOK` and `TablesCompact`. Types alone are not inductive: that `passkey_count + 1` fits needs a free slot to mean that the count is below the capacity |
| `Compactness` | `[]TablesCompact` | the same; `free_slot` returns the count itself |
| `LedgerBalance` | `[]LedgerBalanced` | `LedgerInv` adds that finitely many nullifiers are burned; a claim adds one element to each of two finite sets whose sizes equal the count |
| `LedgerAppendOnly` | `AppendOnly` | `HistoryInv`: while a transaction runs, its view keeps all of `committed` and has changed only what its signers own; between transactions the two are equal |
| `OwnersWrite` | `OnlyOwnersWrite` | `HistoryInv` |
| `SchemaAgreement` | `[]AttestationsKeepSchema` | the property itself, inductive under `TypeInv`: a claim copies the schema of an issuer that exists, and no step changes the schema of one |
| `Possession` | `[]VerifiedMeansPossession` | `PossessionInv`: precompiles already passed were accepted, and each logged verification matches the first precompile in scan range, executed or not. When all instructions are done the two meet |
| `EventsAccount` | `[]EventsAccountForLedger` | `EventsInv`: `HistoryInv`, the four parts, and that roots are logged of issuers that exist. A step that raises a count adds one position to a finite set of positions of the log |

`TypeInvariance` and `HistoryInvariance` state the invariants themselves. Lemmas about the
tables (what `free_slot` returns, that adding keeps a table compact) come first, then
one step per action.

`LedgerRefinementProofs` proves `Implementation`, that is `Spec => ImplementsLedger`. A
transaction of the program takes many steps and one of the ledger, so the invariant
`CourseInv` says where between the two it is: while no instruction has failed, the
accounts in view, mapped, are the ledger after the instructions executed so far
(`OnCourse`), each of which was allowed where it stood, provided the precompile
instructions of the transaction accept. `verify_passkey` may have looked at one that is still
to run; at `Commit` all have run, and the proviso is met. The mapping is applied to
whole views (`Shown`), and each handler has a lemma that its effect, mapped, is
the effect of its instruction.

### Trees and proofs

The theorems of `EligibleSetProofs` hold for any commitments and sets of any size.
`DepthAssumption` says that the depth limit is not above the width of the direction word
(20 and 64 in the code).

| Theorem | States | Argument |
|---|---|---|
| `ProofsAreAccepted` | `[]ProofsVerify` | a tree's levels halve until one is a single node (`TreeShape`); an index stays inside its level (`AncestorsInside`), a node and its sibling are the two halves of their parent (`AncestorChildren`), so the climb meets the tree's node at each level |
| `MirrorAgreement` | `[]MirrorAgrees` | up to the word's width the wrapped shift is the shift (`MirrorSame`, for any siblings at all) |
| `RootsBind` | `[]RootBindsLeaves` | sets of one size have trees of one shape (`SameShape`) and a level determines the one below (`NextLevelInjective`) |
| `AcceptedNamesLeaf` | `[]AcceptedProofsNameLeaves` | from the root downwards every node of an accepted climb is one of the tree's (`AcceptedProof`, for any siblings at all) |

The invariant of the specification is only that leaves are commitments; what these
theorems rest on is the operators' lemmas.

### The parser

`PrecompileProofs`, for any radix from 1 on, any lengths (`FormatAssumption`) and any data
clients make. The invariant `IsBytes` says that data is a sequence of numbers; under it
`get`, `read_u16` and `base` return what the precompile's `Part` and `Offset` read (`SameNumber`,
`SameOffset`, `SamePart`), and `KeyIsVerified` and `EmbeddedIsRead` follow, for data that no
client makes as well.

### The identity service

`IdentityEngineProofs` is about `IdentityEngine!Spec` under that module's ASSUMEs (keys and
bounds, `Missing` is no view, calls are those of the API), for any clients, calls, leaves,
issuers and finitely many identities.

| Theorem | States | Inductive invariant |
|---|---|---|
| `TypeCorrect`, `ProofsHaveIssuers` | `[]TypeOK`, `[]TreesHaveIssuers` | `IInv`: stores, tasks and chain are typed, and a task that is past its read of an issuer carries one that is known. A task's copy is typed only because what it was copied from is |
| `RootsAreOfTrees` | `OneWriter` ⟹ `[]TreeMatchesRoot` | `TreesMatch`: the root agrees with the leaves except between `put_leaves` and the write of the root, where the task carries the leaves of the root it will write |
| `MirrorAdvances` | `IdentitiesAdvance` | `SnapshotsInOrder`: the mirror trails the snapshots waiting to be ingested and these trail the chain, with one snapshot per identity |
| `CountsCover` | `ClientsKeepApart` ⟹ `[]CountsCoverClaims` | `CycleInOrder` (identities go first, and a cycle that has read identities and ingests them has read all issuers) and `CountsInOrder`: a snapshot's count covers, identity by identity, the larger of what is mirrored and what is about to be |

`ClientsKeepApart` is that no client builds or ingests an issuer that the keeper mirrors,
`OneWriter` that moreover no two clients do so for one issuer. They are about the calls
clients make (`Call[c]`), and the code demands neither, but needs them: without the first a
client's `ingestIssuer` sets the count back to zero, and the runs `polled_issuer` and
`concurrent_builds` show what happens to roots without either. The configuration of the run
`node` satisfies both, with a client that writes and one that verifies. `TypeCorrect`, `ProofsHaveIssuers` and `MirrorAdvances` have
no hypothesis.

`NodeProofs` first proves `NodeServes`, `NodeSpec => Spec`: bus and subscribers never alter
the service, so that all of the above holds of the node. `FeedsCatchUp`, under `OneWriter`, is
`[]FeedCatchesUp` with the invariant `FeedInv`: the ring holds the last events up to
what the slowest reader within its reach has yet to read (`RingKept`); a task that is about to
publish a root carries the one in the store (`AnnouncedRoots`), which is where one writer is
needed; and if nobody is about to publish of an issuer, the last root of it that a
subscriber is yet to read, or failing that the one it has noted, is the store's (`Knows`).

### The resilience primitives

The theorems of `GuardedCallProofs` are about `GuardedCall!Spec`, with any callers and
policies, any threshold from 1 on, any cooldown, capacity and rate. They assume
`ClockAssumption`, `BreakerAssumption`, `LimiterAssumption` and `CallerAssumption`, and a
clock that is not set.

| Theorem | States | Argument |
|---|---|---|
| `Invariance` | `[]IInv` | `IInv` is `TypeOK` and `BreakerSound`: each needs the other, the count's range to compare it and the state to know that it is below the threshold. One lemma per method |
| `TypeCorrect`, `BreakerIsSound` | `[]TypeOK`, `[]BreakerSound` | parts of `IInv` |
| `GateImplemented` | `ImplementsGate` | under `IInv` and `Retrying` (a caller whose last error is `BreakerOpen` is idle or asleep), each step of a caller is a step of the gate or leaves its five variables alone; `Admits` is `state # "Open"` read through the mapping |
| `RateIsBounded` | `[]RateBounded` | `RateInv`, whose `BudgetKept` adds what could be taken now to what was granted since a moment: a refused call moves nothing between the two, a granted one moves its tokens, and time adds at most what flows in |
| `WaitsDoGrow` | `Growing` ⟹ `WaitsGrow` | `WaitsKept`: a call's wait is that of its last failed attempt. Below the limit the exponential doubles, which outweighs any jitter |

`Growing` says that the base delay is not zero nor above the limit, and that the exponential
reaches the limit by attempt 16 or the policy makes at most 18 attempts. The code
shifts by `attempt.min(16)` (`resilience/src/lib.rs:113`): past that only the jitter changes, and
with a limit above some 130 000 times the base a later wait may be shorter, although the
documentation has `min(max, base * 2^attempt)` (line 107). The default policy (3 attempts, 50 ms, 2 s) is
far from it.

### Induction over data

The provers cannot instantiate the library's induction theorems. Where a proof needs what a
recursive function computes (`Climb`, `Levels`, `Ancestors`, `Course`, `shift`, `PowerOfTwo`, sums,
the concatenation of a client's data), it forms the set of the numbers for which the
claim holds, shows that it has 0 and is closed under successor, and cites `Sums!NatInductionSet`,
which follows from the least element of a set of naturals. That the function exists and
satisfies its equation is shown the same way. No module with a theorem has a RECURSIVE
operator. `tlapm <module>.tla` checks each of the eight modules from nothing.

### Only model-checked

Liveness under fairness, `MirrorConverges` and `CallsReturn`, is beyond the prover. So is what
the violation runs show, by its nature. Every other property of a passing run is a theorem,
under the hypotheses named above.

## 5. Plan

In the order of importance.

1. `Merkle`, `PassKeyAuth`, its run, and the theorems about it. **Done.**
2. `MerkleTree`, `EligibleSet`. **Done.**
3. `IdentityEngine` with its stores, API calls and keeper. **Done.**
4. The resilience primitives, their composition, the abstract gate and the
   theorems about them. **Done.**
5. `EventBus` and its composition with `IdentityEngine`. **Done** (`Node`).
6. `Precompile`. **Done.**
7. `IdentityLedger`, and the proof that the program implements it. **Done.**
8. Proofs for `EligibleSet`, `Precompile`, `IdentityEngine` and `Node`. **Done.**
9. Proofs for `GuardedCall`: rate and waits; for `PassKeyAuth`: the events. **Done.**
10. To come: the fields of views that are now copied along; a model of how holders
    derive nullifiers, for the one hazard of the program that no property covers; the
    read-only snapshots and statistics of the engine, if a property of two reads is
    worth stating.

## 6. Not modelled

* Scanner, snapshots, statistics: they read and set gauges.
* GraphQL parsing, limits, hex conversion, HTTP routes, telemetry: no state.
* Hash collisions and signatures: the hash is injective and never equals a
  commitment, the precompile's verdict is an input.
* That one leaf is claimed once: the program marks the nullifier it is given as
  spent and relates it to nothing else, so the statement belongs to the client
  that derives it.
* Faults of stores other than the in-memory ones; nothing is persisted, and a restart is
  the initial state.
* The request timeout and the abort of the keepers at shutdown. Both cut a
  task where it waits, and neither the stores' methods nor `publish` ever wait: a
  call of the engine over them runs to its end once it is polled.
* A direction shift of 64 or more (`core/src/merkle.rs:27`): only a proof that no tree
  of the service has is that long, and no text says what `verify` should answer.
* Monitoring, Docker, CI, Postman, benches.
