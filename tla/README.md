# Jejak: specifications and proofs

Jejak finances receivables. A supplier's claim on a marketplace settlement is
evaluated and attested by an oracle, its payout is put under control, tokens
(JCLAIM) are issued against it, a facility funds it in stable units (JUSD), the
settlement repays the position through a waterfall, and what is left is redeemed
and closed, or resolved as a loss. The rules that hold money live in six Soroban
contracts (`contracts/soroban`, Rust); an API (`apps/api`, TypeScript) drives
them, follows their events into PostgreSQL and serves a console
(`apps/web`); a Python service (`apps/risk-service`) scores the data.

This directory holds TLA+ modules translated from that code, the TLC instances
that check them, and TLAPS proofs about them. `PROJECT.json` names, for every
definition, the lines it stands for.

## 1. Inventory

### Contracts

| component | state | operations | interacts with |
|---|---|---|---|
| eligibility registry | attestations, claim of each key, revocations, oracles | `register_attestation`, `revoke_attestation`, `set_oracle`, `is_active` | read by the lifecycle |
| claim lifecycle | one `OnchainClaim` per key, role grants | `create_claim`, `confirm_control`, `transition`, `pause`, `resume`, `set_role` | reads the registry; moved by every other contract |
| asset controller | issuance per claim, holder, frozen and authorised flags, pausers, breaker | `authorize_holder`, `issue`, `redeem`, `freeze`, `clawback`, `clawback_claim`, `close_claim` | moves the lifecycle (Issued, Redeemed, Closed); JCLAIM token |
| facility | facility records, positions, replay keys, escrow balance | `configure_facility`, `fund`, `record_repayment`, `apply_repayment`, `consume_first_loss`, `finalize_shortfall`, `release_unused_first_loss`, `reconcile_closed_loss` | reads issuance and claim; moves to Funded; JUSD token |
| servicing waterfall | processed hashes, servicers, breaker | `execute`, `calculate` | five calls into facility, lifecycle and token per settlement |
| resolution manager | one resolution per claim, used evidence | `open`, `record_recovery`, `close`, `authorize_resolver` | moves the lifecycle (Resolution, Closed, ClosedWithLoss) |

Hard behaviours: the callers are independent key holders, so calls interleave
in any order; a contract's authority over a claim is spread over three role
tables which change independently; attestations and control run out while a
claim waits; a claim can be paused between any two steps; positions share one
escrow and one limit; hashes and evidence may be presented again; and several
entry points do part of what another one does (`transition`, `apply_repayment`,
the generic `clawback`, a second `configure_facility`). What does *not* happen
is a half-done call: a Soroban transaction commits all of its effects, in every
contract it calls, or none.

### API, console and risk service

| component | state | operations | hard behaviour |
|---|---|---|---|
| ingestion | ingestion runs, marketplace events | one file, one transaction | two files with the same orders at a time |
| reconciliation | settlement snapshots and their successors | cut a snapshot at a boundary | ingestions that commit between the boundary and the snapshot |
| claims, mutation unit | claims, offers, idempotency records | create, offer, accept | two commands read before either writes; a repeated key |
| risk module, `risk-worker.ts`, risk service | operations with leases, evaluations | evaluate, commit, register, activate | a slow worker beside the one that took its lease over; a crash after any step; the answer of the registry lost |
| JCC module | attestation envelope, its submissions | issue, revoke, refresh | calls that read the row before a revocation and write after it |
| control module | evidence, decisions | submit, decide, pause, verify with the partner | a decision taken on an older version |
| anchor, issuer, control partners | idempotency record, operation, receipt | call, retry, find, commit | overlapping calls under one key, a partner that forgets when the process restarts |
| issuer and facility modules | submissions, saga steps | issue, fund, compensate, resume | failure after any of three systems was changed |
| settlement module | events, idempotency records, runs, submissions | ingest, execute the waterfall | a crash around the submission; a second key for the same settlement |
| chain module, `chain-indexer.ts` | checkpoints, event log, projection, submission status | index, reconcile | cycles overlap, read events again, fail half-way; the RPC forgets |
| happy finalizer | none of its own | redeem, release, close, promote | four transactions per claim retried by a timer |
| resolution module | cases | open, recoveries, close | the chain executes, the row is written later, the indexer judges both |
| evidence module | objects in a bucket, signed intents, the row they lead to | upload intent, finalize, clean-up | bucket and database share no transaction; files under one key come and go |
| demo, invitations | tenants, spikes; invitations, grants | reset, session, spike; invite, accept, revoke | checks before the lock; stale sessions |
| console (`apps/web`) | what a tab has seen | record a settlement, run the waterfall | stale views, resubmission under a kept or a new key |

Processes of the API run at the same time (the API itself, the indexer, the
RISK worker, several requests each), share PostgreSQL at READ COMMITTED, and may
end between any two statements that are not in one transaction. That is the
grain of the models: one action per transaction or network call.

### What makes them correct

* Registry: one attestation per key; a dead attestation stays dead.
* Lifecycle: forward only, whatever is paused in between; terminal is final.
* Asset controller: tokens accounted claim by claim.
* Facility: a claim is financed at most once; each position accounts for its
  principal; escrow and aggregate agree with the positions; limits hold.
* Waterfall: what comes in goes out, first loss before senior loss.
* Resolution: its verdict and the lifecycle's agree.
* Evaluation: a claim is ELIGIBLE only with an attestation that is registered
  and indexed, and the trusted evaluation never changes.
* Credential: its row says what the registry holds, and revoked is final.
* Partners: what a key was answered it is always answered.
* Issue and funding: the seller is paid only for what the same saga funded.
* Settlement: one event per claim is stored; what is recorded of a run is what
  the chain executed; a key settles at most once.
* Chain module: no event is skipped, each is counted once, every submission is
  concluded; the projection is what the events say.
* Closing: the database calls a claim closed only when the ledger closed it so.
* Evidence: a row refers to bytes that were announced and uploaded, and its file
  is kept; a file nobody finalizes is removed.
* Together: a claim's stage, its position, its tokens and its resolution tell
  one story, and no credit is without cash.

## 2. The modules

    EligibilityRegistry <- ClaimLifecycle <- AssetController <- Facility <- ServicingWaterfall
                                    ^------------------------------------- ResolutionManager
    JejakProtocol = all six; ClaimFinancing = what they promise of one claim

    ChainIndex <- SettlementExecution          a funded claim, its settlements, the index
    RiskEvaluation, ClaimClosing               the two workers          (MCWorkers)
    PartnerCalls, ClaimCommands, MarketplaceLedger, ChainIntake,
    Invitations, DemoSandbox, JccLifecycle, SettlementDesk              (MCRequests)
    IssuanceFunding, EvidenceVault, EligibilityRegistry                 (MCStores)
    SettlementExecution + ChainIntake                                   (MCProgress)

An arrow is EXTENDS. Among the contracts an outer contract's action uses the
operators of the inner one inside its own step, because the calls commit
together. Each contract module declares the storage of one contract as VARIABLES
named after the `DataKey` they hold, one action per public call, and groups of
actions that `JejakProtocol` composes. `EntryPoints` names the groups of calls
the key holders of an instance use; guards never depend on it, so leaving a
group out only asks what the contracts guarantee when nobody makes those calls.

The modules of the API each take the tables one component owns and the processes
that work on them. Two that share tables are one module or extend one another
(`SettlementExecution` extends `ChainIndex`; `IssuanceFunding` and
`ClaimClosing` carry the part of the indexer that judges *their* submissions).

| module | models | state | abstracted |
|---|---|---|---|
| `EligibilityRegistry` | `eligibility-registry` | `attestations`, `revoked`, `oracles`, ledger time `now` | metadata of the attestation |
| `ClaimLifecycle` | `claim-lifecycle` | `claims`, `roles` | `state_version`, which only counts |
| `AssetController` | `asset-controller`, the JCLAIM token | issuance and holder per claim, balances, flags | asset codes |
| `Facility` | `facility`, the JUSD token | `facilities`, `positions`, replay keys, `cash` on five accounts | several treasury and seller accounts |
| `ServicingWaterfall` | `servicing-waterfall` | processed hashes, servicers, breaker | `calculate`, which stores nothing |
| `ResolutionManager` | `resolution-manager` | one record per claim, used evidence | |
| `ClaimFinancing` | the abstract life of a claim | `phase`, `owed`, `credited`, `lost` | everything else |
| `ChainIndex` | `modules/chain`: index and reconcile over settlements | `indexed`, `projection`, `claim`, `submissions`, `workers`; of the chain `position`, `ledger`, `inflight` | other expectations |
| `SettlementExecution` | `modules/settlement`: executeWaterfall, journal, submitter | `requests`, `records`, `runs`, `results` | ingestion |
| `ChainIntake` | the intake of all six contracts' events | `emitted`, `stored`, `checkpoints`, `cycles`, `tip`, `oldest` | fields of an event beyond what its decoder asks; a page is a set of event ids |
| `RiskEvaluation` | `modules/risk`, `risk-worker.ts`, the JCC calls of the worker | `analysis`, `operations`, `evaluations`, `attestations`, `journal`, `registry` | features and the model: a choice of answers |
| `JccLifecycle` | `modules/jcc` | `jcc` row, `submissions`, `registered`, `revoked`, `inFlight`, `custodians` | signature: an envelope is its issuedAt |
| `PartnerCalls` | `modules/anchor`, `issuer`, `control`: the three orchestrators | `sandbox`, `keyRecord`, `partnerOp`, `committed`, `attached`, `callers` | payload of a receipt: its life and status |
| `IssuanceFunding` | issue, fund saga, control commands, their verdicts | `row`, `evidence`, `issues`, `sagas`, `subs`, `onchain`, `handlers` | amounts |
| `ClaimCommands` | `modules/claims` over the mutation unit | `streamClaims`, `offers`, `keys`, `bodies`, `clients` | terms of an offer |
| `ClaimClosing` | happy finalizer, `modules/resolution`, their verdicts | `closingRow`, `caseRow`, `chainClaim`, `closeSubs`, processes | amounts other than recovery and loss |
| `MarketplaceLedger` | `modules/ingestion`, `modules/reconciliation` | `runs`, `events`, `snapshots`, `ingestors` | three totals are one; the rows of a file are a set of positions, taken in order |
| `EvidenceVault` | `modules/evidence`, the row `modules/control` writes from it | `bucket`, `deposits`, `intents`, `references`, `finalizers`, `cleaners` | a content is bytes, which stand for their size and hash, and a type; `Lookalikes` are bytes of one size |
| `Invitations` | invitations and memberships | `invitations`, `grants`, `visitors` | tokens: a request comes from who it says |
| `DemoSandbox` | `modules/demo` | `tenants`, `spikes`, `tabs` | signing keys |
| `SettlementDesk` | settlement ingestion, its route, the console's forms | `settlements`, `settlementKeys`, `connections`, `desks` | payload: the time it carries |

Signatures are modelled by the set of addresses (`Actors`) that may make a
call. Time-to-live extension of storage, events that nothing reads, and
`upgrade` are left out. Amounts are mathematical integers: the contracts use
checked `i128` arithmetic, which fails the whole call instead of wrapping, and
the amounts are far below the limit.

How the processes are cut into steps, where it is not obvious:

* **Settlement execution.** Load, prepare, submit and record are steps; the
  result hash covers the position that was loaded, so the command stands for its
  hash. `markSubmitted` reads and inserts without a lock: two steps. Simulation
  and sending are one step; what is in flight is included or expires later,
  whether or not the request is still there.
* **Intake.** One RPC page, one database transaction that stores it, and the
  load of a checkpoint are steps; a cycle visits the contracts in turn and any
  await of it may throw. What a decoder accepts is compared with what the
  contract declares: wire name, number of topics, fields.
* **RISK worker.** Claiming the work, calling the service, committing the trusted
  evaluation, signing, registering, the journal's three writes and activation
  are steps. A lease may lapse at any time, as the clock is not modelled.
* **Partner calls.** Attempt, its record, the look for what the partner did, and
  the commit are steps. The deterministic sandboxes keep their decisions in
  memory: `restart` forgets them and may change the scenario, as a new deployment
  can.
* **Funding saga.** Each saga step is one call and one commit; the handler reads
  the facts of the claim first and may act on them after they changed. The resume
  of a saga begins, records the reconciliation and executes again, as three steps.
  The indexer, too, completes a saga when it reconciles its funding
  (`markReconciled`: step SUCCEEDED, status COMPLETED, answer stored): later
  calls are answered from the record, but a handler that is still on its way goes on
  with the steps it has loaded.
* **Credential.** Prepare, insert, read, publish and write are steps of each call;
  a transaction may execute after its sender was told nothing. Nobody calls
  `revokeAttestation` and `refreshExpiry` through a route today: the model gives
  them the callers the service was written for.
* **Evidence.** The look for an absent key, the signing of an intent, the upload,
  the row, the metadata, the bytes, the removal of a mismatch and the write of
  the row are steps; a clean-up lists a page, then asks and removes object by
  object. Size and type of an object come with its metadata, the stream gives
  size and hash only. A signed URL outlives its proof. Nothing in the source constructs these
  services but tests and a verification script: the model gives them the callers
  their ports allow, and `createDownloadIntent` changes no state.
* **Demo, invitations, console.** A check that precedes the transaction is a step
  of its own.

The operators marked `slip:` in a comment are plausible mistakes in the operator
that follows them; `PROJECT.json` names the property each one breaks.

## 3. The runs

The runs of the contracts check safety: a contract has no scheduler, so no
fairness is assumed of it. `CHECK_DEADLOCK FALSE` is set where a behaviour
really ends: a claim's life, bounded hashes, keys and requests that run out.
`SettlementOverlap` and `SettledTwice` check for deadlock: their cycles go on.

| run | question | bounds |
|---|---|---|
| `JejakDirect` | Accounting and no double financing with direct transitions and repayments, a second `configure_facility` and the generic clawback | 1 claim of 2 units, first loss 0 or 1, settlements 1 and 3, due 1, 2 hashes, 1 piece of evidence |
| `JejakIncident` | Stage and position tell one story under pauses, freezes, clawbacks, breakers and expiry; the contracts implement `ClaimFinancing` | 1 claim of 2 units, time 0..1, settlements 1 and 5, due 1, 2 hashes, 2 pieces of evidence |
| `JejakTwoClaims` | Two claims under one limit of 3 share escrow, treasury and the holder of their tokens, who is frozen and clawed back: what belongs to one is never taken for the other | claims of 1 or 2 units, first loss 0 or 1, settlements 1 to 3, due 1, 2 hashes |
| `JejakGrants` | Roles, servicers, operators, resolvers, pausers, oracles come and go: does a call refused inside leave a trace outside? | 1 claim, one key holding every role at first, 1 hash, 2 pieces of evidence |
| `SettlementOverlap` | Is what the API records and projects what the chain did? | 2 requests, 2 index cycles, 2 keys, 2 events of 2 units, principal 4, first loss 1, due 1, 2 calls |
| `Progress` | Does every submission leave the pending state, and is every event stored? | 1 request, 1 cycle of each kind, 2 keys; every contract, two of them in one cycle, 3 ledgers, 2 events, 1 failing await |
| `Workers` | RISK evaluation and closing, each with overlapping processes | 2 workers, 2 attempts, 2 faults; 2 finalizers, 2 resolvers, 2 keys, loss 1, recovery up to 1, 1 mishap |
| `Requests` | Eight components whose requests or cycles overlap | two of each process, two or three keys, one or two faults: `Requests.cfg` |
| `Stores` | Is what a row says true of the ledger or the bucket it cannot lock? Does a dead attestation stay dead? | 2 handlers, 1 issue key, 2 sagas of one request each and any resumptions, beside control commands (row version below 2) or with 1 incident; 1 evidence, 2 bytes of one size, 2 finalizations, 1 clean-up, page of 1, 2 intents, 2 uploads, time 0..2, 1 failing removal, with 2 types under one key or 2 versions of one type; 2 oracles, 2 claims, 2 attestations |
| `SettledTwice`, `RegistrationLost`, `IssueNeverReconciles` | statements of the documents the code does not keep | the smallest instance that shows it |

`MCRequests`, `MCWorkers` and `MCStores` put components that share no row into one run. A
behaviour is about one of them, its `subject`, chosen in the initial state; the
others rest. The reachable states are the union of those of the components, not
their product, and nothing is lost since no component reads another's state.
`Stores` has five subjects: funding beside commands, funding with an incident,
files of two types, files of two versions, and the registry. Resumptions are not
counted among the requests, so both sagas can be carried to their payouts. In
`MCProgress` the settlement side and the intake side are chosen the same way.

Why these bounds suffice for the cases meant: a principal of 2 with a first
loss of 1 and settlements of 1, 3 and 5 reaches under-payment, exact payment,
over-payment, partial repayment before a final settlement, loss fully and partly
covered. Two hashes allow a replay of each kind and two settlements of one claim.
One tick of the clock separates "alive" from "expired". Two claims with a limit
of one and a half make them compete. In the API two processes give every overlap
of a read with another's write, two keys a retry under the same and under another
key, and every fault may fall at every step. `MaxFaults = 2` lets a lease lapse
and a process crash in one behaviour; three ledgers with a page of one event give
a page that ends inside a ledger, a ledger still being closed, and one the RPC
forgets; the third file of `MCFiles` contradicts the first two and itself.
`MaxRowVersion = 4` lets a credential be issued, activated, expired and revoked.
Every mutant in `PROJECT.json` is refuted inside these bounds.

Fairness:

* `Progress`: `runChainIndexerLoop` catches the failure of a cycle, sleeps and
  starts another, so each cycle takes steps for ever (weak fairness). A call to
  the RPC node or the database that is repeated again and again succeeds again
  and again (strong fairness of each kind of step); otherwise a cycle could fail
  at the same call each time. Nothing is assumed of requests or of inclusion by
  the network. The intake bounds its failures by `MaxAborts` instead.
* `Workers`: the RISK worker and the finalizer run in loops with a timer (weak
  fairness of their steps); what was sent and not lost is included and indexed;
  a lease that is not renewed runs out, also after the faults are used up. The
  number of faults is bounded, so they end.
* `Requests`: only for `CallIsAnswered`, that a request that was received is
  served to its end, and that a client whose call was not answered repeats it.
* `RegistrationLost` uses the fairness of `RiskEvaluation`.

### What the properties say

Contracts: `PositionAccounting`, `EscrowBacksFirstLoss`, `FundedIsNeverFundable`,
`LifecycleMatchesPosition`, `FirstLossBeforeSeniorLoss`, `SupplyMatchesIssuance`,
`AggregateMatchesPositions`, `CreditIsCash`, `ResolutionMatchesLifecycle`,
`NeverReactivated`, `TerminalIsFinal` and the refinement
`ImplementsClaimFinancing`.

API: `EligibleIsAttested` (evaluation), `RowFollowsRegistry` and
`RevokedIsFinal` (credential), `AnswerIsFinal` and `ControlledIsVerified`
(partners), `OneActive` (commands), `PayoutIsFunded` and `AnsweredIssueIsRecorded`
(issue and funding), `SnapshotAddsUp` (ledger), `NothingSkipped` (intake),
`OneSettlementPerClaim` (desk), `RecordedWasExecuted`, `ExecutedAsPrepared`,
`ProjectionMatchesLedger`, `FeesCountedOnce`, `KeySettlesOnce` (settlement),
`TerminalIsOnChain` and `CaseMatchesLedger` (closing), `InvitedOnly`, `OneSpike`.
`PayoutIsFunded` says of every saga whose funding or payout counts as succeeded,
also when the indexer completed it, that its own transaction funded the claim.
`EvidenceWasVerified` (a row refers to a content that was announced under its key;
its bytes were uploaded there, and its type was given there to an upload of the
same size) and `FreshIsKept` (a file stays for good if everybody means the same
content by its key and no upload under it was old when its row was written) say
what the evidence module does keep; its documents say more, see below. The pauses
that the comment of `FundedIsNeverFundable` speaks of are not in `JejakDirect`,
which is about direct transitions; the theorem has them.
Liveness: `SubmissionsSettle`, `EventsAreStored`, `AnalysisEnds`, `RepaidCloses`,
`CallIsAnswered`.

Each stands in its module under a comment that states it. The type invariants
of all modules are proved (section 4).

### Findings

* `EventSettlesOnce`: "ambiguous/lost RPC responses are never blindly resubmitted
  and recover only through canonical result_hash lookup" (`be-tracker.txt:294`),
  "duplicates safe" (`jejak-master-implementation-brief.md:1599`).
  `prepareWaterfall` finds an earlier run of the event only once `markSubmitted`
  has recorded it, and a result hash covers the position, which the lost run has
  changed: a second key executes the event again.
* `RegistrationRecovered`: "A lost response must call recovery lookup before any
  resubmit" (`docs/handoffs/person-1-session-1-risk-jcc.md:127`). The lookup of
  `stellar-registry-submitter.ts` answers null whatever the chain holds; the
  registration is sent again, refused as a duplicate, and so at every attempt:
  the claim stays ANALYZED.
* `IssuedIsReconciled`: "issue, wait for reconciliation, fund"
  (`docs/handoffs/person-1-session-1-happy-flow.md:23`). The read of an
  `asset.issued` event leaves the approved principal undefined, the expectation
  of an issue carries it, so every issue is judged AMOUNT_MISMATCH and its claim
  is paused.

### Other divergences, without a run

Reading the code for the models showed more; these are not checked by a run.

* `fund` checks the attestation but not `control_expires_at` (brief :1647 asks for
  a controlled claim); `execute` accepts negative dues (brief :1449 forbids
  negative allocations); the fee caps that "protect allocation arithmetic"
  (`docs/security/soroban-testnet-review.md:13`) are stored and read nowhere.
* `configure_facility` on open positions resets the aggregate, so
  `AggregateMatchesPositions` needs that entry point left out; `record_repayment`
  uses the all-zero hash and succeeds once in the life of the contract; a default
  without any recovery cannot pass the waterfall, which refuses a settlement of
  zero; a claim whose tokens are gone before Repaid cannot reach Redeemed.
* Settlement: the payload hash covers the recomputed allocation, so the retry of an
  ambiguous run is refused before the lookup (`be-tracker.txt:294`); two keys may
  record a submission each for one transaction and add its fee twice (`:297`).
  From the console a command under a key kept over an update of the claim is
  answered IDEMPOTENCY_CONFLICT, and the tab never learns the event it needs for
  the waterfall. Its text promises that the command identity is preserved, but the
  payload carries the claim's `updatedAt`.
* Chain: `recordFinding` turns a submission another cycle reconciled into a
  mismatch; a late verdict on an opened or updated case reopens a closed row; a
  later reconciliation un-pauses a claim that a mismatch paused.
* Funding: nothing calls `resumeAfterChainReconciliation` ("internal worker
  boundary", `funding-saga.ts:121`), while the indexer completes a saga whose
  funding it has reconciled: its caller is answered COMPLETED from then on and
  no anchor payout was made. `ensurePreconditions` looks for positions that are
  ACTIVE, PENDING or PAUSED (`postgres-saga-repository.ts:53`); they are
  inserted as FUNDED, so it finds none. A compensation may end ambiguous
  (`be-tracker.txt:262`).
* Claims: an offer that expired still blocks the next one; accepting looks at the
  offer, not at the claim's state; the replay of an offer's key
  (`openapi/components/parameters.yaml:27`) is answered from the current rows.
* Reconciliation: a snapshot that continues one with a later boundary counts
  events twice (`SnapshotAddsUp` is about chains that go on, `GoesOn`), and a
  snapshot cannot be reproduced when a run that was open at its boundary commits.
* JCC: the route issues at the time of the call, so its retry is a conflict once an
  envelope is stored; a worker's repeated issue puts an EXPIRED row back to ACTIVE;
  a revocation whose answer was lost is never entered in the row.
* Evidence: the clean-up "removes objects older than the configured threshold
  that have not been finalized"
  (`2026-07-15-jejak-evidence-storage-observability-design.md:167`; a test
  "retains finalized objects",
  `apps/api/test/evidence-application.test.ts:112`), but it asks whether a file
  is finalized and removes it in a later call, so a row written in between loses
  its file. The configuration allows the age of abandoned files to lie below the
  finalization deadline; where it lies above, a request has to last longer than
  the difference. This is why `FreshIsKept` asks that the uploads were younger
  than that when the row was written. A finalization takes the type from the
  metadata (`finalize-evidence.ts:71`, `supabase-evidence-storage.ts:116-124`)
  and the hash from a later read: if the object is removed and put again in
  between, the row has the bytes of one upload and the type of another, and the
  bucket never held what it refers to. "Cleanup is paginated" (same document,
  :175): each run lists the first page and drops the cursor, so once that page
  holds only finalized files nothing behind it is ever removed. Two requests
  that finalize two versions of one evidence overwrite each other's reference,
  the older one may be the later; of two intents for one key the one that
  mismatches removes what the other verified.
* Control: a decision is taken under the version the gateway reads at that moment,
  not under the one on the screen. Invitations: an expired invitation stays PENDING
  and the unique index refuses a new one. Risk: the service never answers
  INELIGIBLE though the interface allows it; `markFailed` and `markCompleted` do
  not look at the operation's status.

## 4. What is proved

TLAPS proves the following for every value of the constants; the runs show the
same formulas on small instances. Every safety invariant, every action property
and the refinement that a passing run checks is stated by a theorem, and so is
the type invariant of every specification.

| proofs about | module | theorems |
|---|---|---|
| the registry and the six contracts | `JejakProtocol_proofs` | types, keys, accounting, no double financing, terminal states |
| sums over claims | `JejakAccounts_proofs` | escrow, cash, token supply, aggregate |
| stage, position and resolution | `JejakCoherence_proofs` | the three agreements and the refinement |
| settlements and the index | `SettlementExecution_proofs` | journal, chain, projection, fees, keys |
| intake of events | `ChainIntake_proofs` | nothing is skipped |
| risk, funding, closing | `ClaimPath_proofs` | attestation, payout, issue, end of a claim |
| the components of `MCRequests`, evidence | `Requests_proofs` | one part per component |
| finite sums | `SumLemmas` | lemmas only |

Assumptions used: the named ASSUMEs of the modules (amounts are naturals,
principals positive, wiring within the roles, bounds natural, special values
distinct from ordinary ones, `Claims` and `Keys` finite: a claim key has 32
bytes and an idempotency key at most 255 characters). TLC evaluates each in a
run.

### Sums

`SumFunctionOnSet` is a fold, defined by recursion over subsets. The provers
cannot instantiate an induction theorem, but a strict order on the subsets of a
finite set is well-founded, and that is a statement about sets: `SumLemmas`
takes a smallest counterexample (`SmallestBad`) wherever one would argue by
induction. It shows that the recursive function exists, is unique, does not
depend on the element that is taken first, and hence what a sum becomes when
one term changes or one element is added. `EscrowBacksFirstLoss`,
`CreditIsCash`, `SupplyMatchesIssuance`, `AggregateMatchesPositions`,
`FeesCountedOnce` and `SnapshotAddsUp` rest on it.

### The contracts

* `TypeCorrect`. `TypeOK` is inductive as it stands. Balances and positions are
  naturals, so it also says that no account, escrow or position is overdrawn;
  the token's own refusal to overdraw, `amount <= outstanding` in
  `apply_repayment` and `first_loss <= FirstLossAvailable` carry it.
* `PositionsAccounted`. The argument goes by what can happen to one position -
  opened, credited (`CreditedAccounted`), first loss consumed, written off - and
  in the waterfall the credit is at most what is outstanding and contains the
  first loss consumed (`AllocationType`).
* `NoDoubleFinancing`. The invariant speaks of the *stage*, the state a pause
  remembers, which makes it inductive: no transition, resume or compensation
  leads from a stage past Issued back.
* `ClosedClaimsStay`, `AllocationConserves`, `OneAttestationPerKey`,
  `InactiveForEver`: from types and guards.
* `EscrowIsBacked`, for all entry points; `NoCreditWithoutCash`, without the
  entry point of hand-entered repayments and with dues that are not negative;
  `SupplyIsAccounted`, without the generic clawback, which is not booked to a
  claim; `AggregateIsAccounted`, without a second `configure_facility`. Each
  hypothesis names calls of a key holder that do break the property, and is the
  one its run makes. `Unopened` (a position nobody funded is zero) and
  `Uncreated` are the strengthenings; the step lemmas say of each call which
  accounts it moves and by how much.
* `ResolutionAgrees` and `FirstLossStandsFirst` (without direct transitions),
  `LifecycleAgrees` and `ClaimsAreFinanced` (and without hand-entered
  repayments). A direct transition may declare a shortfall nobody suffered.
  `ActiveWhileSettling` and `SettlingOwesRest` say what holds of a position
  between two calls of a settlement's life. `ClaimsAreFinanced` goes step by
  step: a lifecycle move is an `Advance`, `fund` is `Finance`, a call of
  `execute` is `Credit`, `Settle` or `DeclareShort` according to its outcome, the
  end of a resolution closes, and every other call is a stutter.

### Settlements, index and intake

`SettlementTypeCorrect`, and four invariants about what is on its way to the
ledger: a transaction carries the command that its idempotency key's record
keeps, and a command is in the ledger once (`KeysKept`); the position is what the
ledger leads to, and what is in flight was computed for the position it will land
on or is refused by it (`PreparedForPosition`); a call belongs to one request, and
its transactions carry that request's command (`CallsIdentify`); a request that
has found a transaction has found one of its own command (`RequestsLocated`).
From these follow `KeysSettleOnce`, `ExecutedAsComputed` and
`RecordsWereExecuted`: the result hash covers the position, and a position that
was left never comes back, so an inclusion under the hash is the execution of
that command. `ProjectionFollowsLedger`: a cycle adds each contract's share from
its own cursor, read and written under the lock of one transaction.
`FeesAreCountedOnce`: whoever marks a submission reconciled finds it pending.

`IntakeTypeCorrect`, `NothingIsSkipped`: `IntakeInv` says that below every
checkpoint all events are stored (`Taken`) and no event is still to come
(`Closed`), and of each cycle in flight that what it has read, up to its cursor or
the page in its hand, is stored or in that page (`ReadUpTo`, `CycleStands`). Stored
events are only added, so an older checkpoint that overwrites a newer one repeats
work but hides nothing.

### A claim's path

* `EligibleWasAttested`, `TrustStands`: `RiskInv` relates what each worker holds
  to the rows (`WorkerFits`); the trusted row is written once because its insert
  meets the unique key, and the workers that lose it continue with what is there.
* `PayoutsAreFunded`, `AnswersAreRecorded`: `FundingInv` says of each saga that
  once its funding or its payout succeeded, by its own handlers, a resumption or
  the indexer, the ledger is funded by its key (`StepsFit`), and of each handler
  what it may rely on where it is: the issue on the ledger, its record, the
  funding by its own key (`HandlerFits`); the ledger never leaves Funded, so
  facts a handler read before an incident still hold where it needs them. The
  proof did not go through for the first form of `NextStep`, a CASE whose guards
  overlapped, so that TLA+ left open which step a saga takes; the code is a
  chain of returns, and the module now is one.
* `EndsAreOnChain`, `CaseFollowsLedger`: the steps separate what
  the chain keeps (`ChainKeeps`: tokens and escrow that are gone stay gone,
  recoveries only grow, and an end is final) from what the store keeps
  (`StoreKeeps`: claim and case change only together with the claim's version), so
  what a command looked up stands as long as the version it will be written under
  stands.

### Requests

Each component's invariant says what a request remembers of the rows it has
read.

* Partners (`AnswersStay`, `ControlIsVerified`): a terminal failure needs a
  partner that is `Doomed`, which refuses or has decided what no caller accepts;
  a receipt needs one that decided acceptably. In one life of the sandbox these
  exclude each other, a restart ends every call, and a call that begins after the
  answer does not reach the partner.
* Credential (`RowIsTrue`, `RevocationStays`): a call read a version not newer
  than the row's, and with the row's version it holds the row itself
  (`CallRemembers`); what it found out of the registry only grows (`CallKnows`).
* Commands (`OneOfEach`): an insert meets the partial unique index, an answered
  key has the outcome in the rows. Offers ask only for claims there are.
* Desk (`SettledOnce`): the external id is made from the claim, so two commands
  meet in one row; a completed key names the event that is stored.
* Invitations (`MembersWereInvited`): the status of an invitation that was
  validated before the transaction is looked at again under its lock, and an
  accepted one stays accepted.
* Demo (`SpikedOnce`): a tenant with a spike has left the version the spike was
  injected at, and no version comes back.
* Ledger (`SnapshotsAddUp`): events are only added; the ingestion of a file holds
  the only claim to it; a snapshot includes what its predecessor left, along a
  chain whose boundaries go on (`WentOn`).
* Evidence (`EvidenceIsVerified`, `FreshStays`): intents and uploads are only
  added and time only passes, so a content that was once not agreed on, or an
  upload that was once old, stays so (`DoubtStays`). A finalization whose metadata
  fitted knows an upload of the type, one whose bytes fitted an upload of these;
  one about to remove a mismatch has seen two contents for its key
  (`FinalizerKnows`). A clean-up about to remove a file knows an upload that was old
  when its run began, and that a row which refers to the key was written since then
  (`CleanerKnows`, `NotBefore`). Neither can meet a file that `FreshIsKept` is
  about. What is in the bucket was put there (`BucketLogged`).

### Only model-checked

Liveness under fairness (`SubmissionsSettle`, `EventsAreStored`, `AnalysisEnds`,
`RepaidCloses`, `CallIsAnswered`): the provers have no rules for fairness or
ENABLED. The statements of the violation runs are false and have no theorem.

## 5. Not modelled

* Code that is wired nowhere: `FinalizationService`, `orchestrate-evaluation`
  with its committer, `ExternalReferenceStellarSubmitter`, `recordExpectation`
  and `claimOutboxBatch`.
* Read model, workspace queries, API composition, token verification, the database
  schema for itself, generated clients and types, infrastructure and scripts: no
  protocol state. Where a constraint of the schema decides a race it is part of the
  statement that meets it.
* The estimator of the risk service: floating-point features; its answer is a
  choice.
* In-memory adapters that only tests construct.

## 6. Plan

Every safety property of the passing runs is proved. What is left:

1. Properties of histories the runs do not ask for yet: a settlement run, an
   issue or a saga never leaves a final status (action properties over the
   journal), and a claim's row moves only along the lifecycle's edges.
2. Abstract specifications for the settlement path (a settlement is executed at
   most once per key and then recorded) and for a partner call (an idempotent
   call), with the detailed modules shown to implement them step by step.
3. The versions of one evidence: an order in which their finalizations may
   replace each other, should the code come to promise one.
4. Common lemmas: several parts of `Requests_proofs` argue that a row written
   under a compared version is the row that was read; one lemma can say it.
