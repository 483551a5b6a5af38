--------------------- MODULE SettlementExecution_proofs ---------------------
(***************************************************************************)
(* Theorems about SettlementExecution, for every set of keys, events,      *)
(* requests and workers, every amount, principal, first loss and fee, and  *)
(* any number of calls.                                                    *)
(***************************************************************************)
EXTENDS SettlementExecution, SumLemmas

(* The steps of a request, those of an indexer's cycle, and the statuses   *)
(* of an operation that a key prepared.                                    *)
RequestSteps ==
  {"idle", "prepare", "conflict", "lookup", "submitting", "submit", "unavailable", "rejected",
   "await", "lost", "existing", "insert"}

CycleSteps == {"idle", "index", "list", "next", "readWaterfall", "conclude"}

RunStatuses ==
  {"PREPARED", "SUBMITTING", "SUBMITTING_AMBIGUOUS", "FAILED_PROTOCOL", "PENDING_RECONCILIATION"}

Entry == [id : Nat, key : Keys, cmd : Command, after : Positions]

RequestState ==
  [pc : RequestSteps, id : Nat, key : Keys \cup {None}, cmd : Command \cup {None}, version : Nat,
   seen : RunStatuses \cup {None}, tx : Nat]

CycleState ==
  [pc : CycleSteps, snapshot : Nat, next : 1..3, todo : SUBSET Keys, key : Keys \cup {None},
   matches : BOOLEAN]

ChainTyped ==
  /\ position \in Positions
  /\ ledger \in Seq(Entry)
  /\ inflight \subseteq Transactions

IndexTyped ==
  /\ indexed \in [ContractNames -> Nat]
  /\ \A contract \in ContractNames : indexed[contract] <= Len(ledger)
  /\ workers \in [Workers -> CycleState]
  /\ \A w \in Workers : workers[w].snapshot <= Len(ledger)

(* A worker has on its list, and in hand, only keys with a submission.     *)
Submitted(k) == k \in Keys /\ submissions[k] # None

HoldsSubmitted(v) ==
  /\ \A k \in v.todo : Submitted(k)
  /\ v.pc \in {"readWaterfall", "conclude"} => Submitted(v.key)

RowsTyped ==
  /\ submissions \in [Keys -> Submission \cup {None}]
  /\ \A k \in Keys : submissions[k] # None => submissions[k].tx \in 1..Len(ledger)
  /\ \A w \in Workers : HoldsSubmitted(workers[w])

JournalTyped ==
  /\ records \in [Keys -> IdempotencyRecord \cup {None}]
  /\ runs \in [Keys -> RunStatuses \cup {None}]
  /\ results \in [Events -> Keys \cup {None}]

RequestsTyped ==
  /\ calls \in Nat
  /\ requests \in [Requests -> RequestState]
  /\ \A q \in Requests : requests[q].pc # "idle" =>
       /\ requests[q].key \in Keys /\ requests[q].cmd \in Command
       /\ requests[q].id \in 1..calls
  /\ \A q \in Requests : requests[q].pc \in {"existing", "insert"} =>
       requests[q].tx \in 1..Len(ledger)

ProjectionTyped ==
  projection \in [state : {"FUNDED", "SETTLING", "REPAID", "SHORTFALL"},
                 outstanding : 0..Principal, consumed : 0..FirstLoss, fees : Nat]

ClaimTyped ==
  claim \in [state : {"FUNDED", "SETTLING", "REPAID", "SHORTFALL", "PAUSED"}, version : Nat]

(* Past its preparation a request has its key's record, with its command.  *)
PreparedSteps == RequestSteps \ {"idle", "prepare", "conflict"}

Kept(k, cmd) == records[k] # None /\ records[k].cmd = cmd
KeptAfter(k, cmd) == records'[k] # None /\ records'[k].cmd = cmd

RequestsKept ==
  \A q \in Requests : requests[q].pc \in PreparedSteps => Kept(requests[q].key, requests[q].cmd)

-----------------------------------------------------------------------------
(* Which steps change what.                                                *)

LEMMA CycleKeepsChain == \A w \in Workers : Cycle(w) => UNCHANGED chainVars
BY DEF Cycle, chainVars, BeginIndex, commitEvents, CycleFails, listPendingExpectations,
  EventMissing, readClaimState, readWaterfallState, markReconciled, markReconciledTooLate,
  recordFinding, EndCycle

(* Of the steps of a request only submit reaches the chain.                *)
LEMMA RequestKeepsChain ==
  \A q \in Requests : Request(q) => UNCHANGED chainVars \/ submit(q)
BY ZenonT(60) DEF Request, chainVars,
  loadWaterfallPosition, ReplayRun, ReplayEvent, PrepareRun, RefuseRun, findByResultHash,
  MarkStatus, markSubmitting, markPrepared, markFailed, markAmbiguous, Answered, NoAnswer,
  existingRun, markSubmitted, Crash

(* Every step leaves the chain alone, submits to it, or lands or expires a *)
(* transaction in flight.                                                  *)
LEMMA ChainSteps ==
  ASSUME [Next]_vars
  PROVE  \/ UNCHANGED chainVars
         \/ \E q \in Requests : submit(q)
         \/ \E tx \in inflight : (Land(tx) \/ Expire(tx)) /\ UNCHANGED requestVars
BY CycleKeepsChain, RequestKeepsChain DEF Next, Network, vars, chainVars

(* No request touches the projection or an indexer's cycle.                *)
LEMMA RequestKeepsCycles ==
  \A q \in Requests : Request(q) => UNCHANGED <<indexed, projection, workers>>
BY ZenonT(60) DEF Request, apiVars, submit,
  loadWaterfallPosition, ReplayRun, ReplayEvent, PrepareRun, RefuseRun, findByResultHash,
  MarkStatus, markSubmitting, markPrepared, markFailed, markAmbiguous, Answered, NoAnswer,
  existingRun, markSubmitted, Crash

(* Every step leaves the indexer alone or is a step of one cycle.          *)
LEMMA CycleMoves ==
  ASSUME [Next]_vars
  PROVE  \/ UNCHANGED <<indexed, projection, workers>>
         \/ \E w \in Workers : Cycle(w) /\ UNCHANGED requestVars
BY RequestKeepsCycles DEF Next, Network, vars, apiVars, Land, Expire

(* Of the steps of a request only markSubmitted inserts a submission.      *)
LEMMA RequestKeepsSubmissions ==
  \A q \in Requests : Request(q) => UNCHANGED submissions \/ markSubmitted(q)
BY ZenonT(60) DEF Request, apiVars, submit,
  loadWaterfallPosition, ReplayRun, ReplayEvent, PrepareRun, RefuseRun, findByResultHash,
  MarkStatus, markSubmitting, markPrepared, markFailed, markAmbiguous, Answered, NoAnswer,
  existingRun, Crash

(* Of the steps of a cycle only its conclusion writes to a submission.     *)
LEMMA CycleKeepsSubmissions ==
  \A w \in Workers : Cycle(w) =>
    \/ UNCHANGED submissions
    \/ \E status \in {"RECONCILED", "MISMATCH"} :
         workers[w].pc = "conclude" /\ Conclude(workers[w].key, status)
BY DEF Cycle, BeginIndex, commitEvents, CycleFails, listPendingExpectations,
  EventMissing, readClaimState, readWaterfallState, markReconciled, markReconciledTooLate,
  recordFinding, EndCycle

(* Every step leaves the submissions alone, inserts one or concludes one.  *)
LEMMA SubmissionSteps ==
  ASSUME [Next]_vars
  PROVE  \/ UNCHANGED submissions
         \/ \E q \in Requests : markSubmitted(q)
         \/ \E w \in Workers, status \in {"RECONCILED", "MISMATCH"} :
              workers[w].pc = "conclude" /\ Conclude(workers[w].key, status)
BY RequestKeepsSubmissions, CycleKeepsSubmissions DEF Next, Network, vars, apiVars, Land, Expire

(* Every step leaves the requests alone or is a step of one of them.       *)
LEMMA OneRequestMoves ==
  ASSUME [Next]_vars
  PROVE  UNCHANGED requestVars \/ \E q \in Requests : Request(q)
BY DEF Next, vars

-----------------------------------------------------------------------------
(* The chain: its types, and what including a transaction does.            *)

LEMMA OrderOfContracts ==
  /\ DOMAIN ContractOrder = 1..3 /\ Len(ContractOrder) = 3
  /\ \A i \in 1..3 : ContractOrder[i] \in ContractNames
  /\ ContractNames = {"claim_lifecycle", "facility", "servicing_waterfall"}
BY DEF ContractOrder, ContractNames

(* What a division of a settlement's amount can amount to.                 *)
LEMMA Allocated ==
  ASSUME NEW cmd \in Command, NEW p, p.outstanding \in Nat, p.consumed \in 0..FirstLoss
  PROVE  LET a == calculateWaterfall(cmd, p) IN
           /\ a.servicing \in Nat
           /\ a.principal \in 0..p.outstanding
           /\ a.firstLoss \in 0..(FirstLoss - p.consumed)
           /\ a.principal + a.firstLoss <= p.outstanding
<1> DEFINE settlement == Amount[cmd.event]
           servicing  == Lesser(settlement, cmd.due)
           principal  == Lesser(settlement - servicing, p.outstanding)
           gap        == p.outstanding - principal
           firstLoss  == Lesser(gap, FirstLoss - p.consumed)
<1>1. settlement \in Nat /\ cmd.due \in Nat /\ FirstLoss \in Nat
  BY ChainAssumption DEF Command
<1>2. servicing \in Nat /\ servicing <= settlement
  <2> HIDE DEF settlement
  <2>. QED BY <1>1 DEF Lesser
<1>3. principal \in Nat /\ principal <= p.outstanding
  <2> HIDE DEF settlement, servicing
  <2>. QED BY <1>1, <1>2 DEF Lesser
<1>4. firstLoss \in Nat /\ firstLoss <= FirstLoss - p.consumed /\ firstLoss <= gap
  <2> HIDE DEF principal
  <2>. QED BY <1>1, <1>3 DEF Lesser
<1>5. LET a == calculateWaterfall(cmd, p) IN
        a.servicing = servicing /\ a.principal = principal /\ a.firstLoss = firstLoss
  BY DEF calculateWaterfall
<1> HIDE DEF settlement, servicing, principal, firstLoss
<1>6. principal + firstLoss <= p.outstanding
  BY <1>3, <1>4
<1>. QED
  BY <1>1, <1>2, <1>3, <1>4, <1>5, <1>6

(* A settlement leads from one position to another.                        *)
LEMMA AfterType ==
  ASSUME position \in Positions, NEW cmd \in Command
  PROVE  After(cmd) \in Positions
<1> DEFINE a == calculateWaterfall(cmd, position)
           left == position.outstanding - a.principal - a.firstLoss
<1>1. /\ position.outstanding \in 0..Principal /\ position.consumed \in 0..FirstLoss
      /\ Principal \in Nat /\ FirstLoss \in Nat
  BY ChainAssumption DEF Positions
<1>2. /\ a.principal \in 0..position.outstanding
      /\ a.firstLoss \in 0..(FirstLoss - position.consumed)
      /\ a.principal + a.firstLoss <= position.outstanding
  BY <1>1, Allocated
<1> HIDE DEF a
<1>3. left \in 0..Principal /\ position.consumed + a.firstLoss \in 0..FirstLoss
  BY <1>1, <1>2
<1> HIDE DEF left
<1>4. 0 \in 0..Principal
  BY <1>1
<1>. QED
  BY <1>3, <1>4 DEF After, Positions, a, left

(* The chain is well-typed at the start.                                   *)
LEMMA ChainTypeInit == Init => ChainTyped
BY ChainAssumption DEF Init, ChainInit, ChainTyped, Positions, Funded, Entry

(* A step keeps the chain well-typed.                                      *)
LEMMA ChainTypeStep ==
  ASSUME ChainTyped, RequestsTyped, [Next]_vars
  PROVE  ChainTyped'
<1> USE DEF ChainTyped
<1>1. CASE UNCHANGED chainVars
  BY <1>1 DEF chainVars
<1>2. ASSUME NEW q \in Requests, submit(q)
      PROVE  ChainTyped'
  <2>1. requests[q].key \in Keys /\ requests[q].cmd \in Command /\ requests[q].id \in Nat
    BY <1>2 DEF submit, RequestsTyped, RequestState
  <2>. QED
    BY <1>2, <2>1 DEF submit, Transactions
<1>3. ASSUME NEW tx \in inflight, Land(tx)
      PROVE  ChainTyped'
  <2>1. tx.id \in Nat /\ tx.key \in Keys /\ tx.cmd \in Command
    BY DEF Transactions
  <2>2. After(tx.cmd) \in Positions
    BY <2>1, AfterType
  <2>3. [id |-> tx.id, key |-> tx.key, cmd |-> tx.cmd, after |-> After(tx.cmd)] \in Entry
    BY <2>1, <2>2 DEF Entry
  <2>. QED
    BY <1>3, <2>2, <2>3 DEF Land
<1>4. ASSUME NEW tx \in inflight, Expire(tx)
      PROVE  ChainTyped'
  BY <1>4 DEF Expire
<1>. QED
  BY <1>1, <1>2, <1>3, <1>4, ChainSteps

(* The ledger only grows, by one entry at most.                            *)
LEMMA LedgerStep ==
  ASSUME ChainTyped, RequestsTyped, [Next]_vars
  PROVE  /\ Len(ledger) \in Nat /\ Len(ledger') \in Nat /\ Len(ledger) <= Len(ledger')
         /\ \A i \in 1..Len(ledger) : ledger'[i] = ledger[i]
         /\ \A i \in 0..Len(ledger) : Upto(i)' = Upto(i)
<1>0. Len(ledger) \in Nat
  BY DEF ChainTyped
<1>1. ledger' = ledger \/ \E e \in Entry : ledger' = Append(ledger, e)
  <2>1. ASSUME NEW tx \in inflight, Land(tx)
        PROVE  ledger' = ledger \/ \E e \in Entry : ledger' = Append(ledger, e)
    <3>1. tx.id \in Nat /\ tx.key \in Keys /\ tx.cmd \in Command
      BY DEF Transactions, ChainTyped
    <3>2. After(tx.cmd) \in Positions
      BY <3>1, AfterType DEF ChainTyped
    <3>. QED
      BY <2>1, <3>1, <3>2 DEF Land, Entry
  <2>. QED
    BY <2>1, ChainSteps DEF chainVars, submit, Expire
<1>2. /\ Len(ledger') \in Nat /\ Len(ledger) <= Len(ledger')
      /\ \A i \in 1..Len(ledger) : ledger'[i] = ledger[i]
  BY <1>0, <1>1 DEF ChainTyped
<1>. QED
  BY <1>0, <1>2 DEF Upto

-----------------------------------------------------------------------------
(* The types of what the API keeps.                                        *)

LEMMA IndexTypeInit == Init => IndexTyped
BY OrderOfContracts DEF Init, ChainInit, IndexTyped, CycleState, CycleSteps, IdleWorker

(* A worker between two cycles is in a cycle's state.                      *)
LEMMA IdleIsCycleState == IdleWorker \in CycleState /\ IdleWorker.snapshot = 0
BY DEF IdleWorker, CycleState, CycleSteps

(* A step keeps the indexer well-typed, its cursors and snapshots within   *)
(* the ledger.                                                             *)
LEMMA IndexTypeStep ==
  ASSUME ChainTyped, RequestsTyped, IndexTyped, [Next]_vars
  PROVE  IndexTyped'
<1>0. Len(ledger) \in Nat /\ Len(ledger') \in Nat /\ Len(ledger) <= Len(ledger')
  BY LedgerStep
<1>1. CASE UNCHANGED <<indexed, projection, workers>>
  <2>1. \A contract \in ContractNames : indexed'[contract] <= Len(ledger')
    BY <1>0, <1>1 DEF IndexTyped
  <2>2. \A w \in Workers : workers[w].snapshot \in Nat
    BY DEF IndexTyped, CycleState
  <2>3. \A w \in Workers : workers'[w].snapshot <= Len(ledger')
    BY <1>0, <1>1, <2>2 DEF IndexTyped
  <2>. QED
    BY <1>1, <2>1, <2>3 DEF IndexTyped
<1>2. ASSUME NEW w \in Workers, Cycle(w), ledger' = ledger
      PROVE  IndexTyped'
  <2> USE DEF IndexTyped
  <2>0. /\ workers[w] \in CycleState /\ workers[w].snapshot <= Len(ledger)
        /\ workers[w].snapshot \in Nat /\ workers[w].next \in 1..3
    BY DEF CycleState
  <2>1. ASSUME NEW snapshot \in 0..Len(ledger), BeginIndex(w, snapshot)
        PROVE  IndexTyped'
    <3>0. snapshot \in Nat
      BY <1>0
    <3>1. [IdleWorker EXCEPT !.pc = "index", !.snapshot = snapshot] \in CycleState
      BY <3>0, IdleIsCycleState DEF CycleState, CycleSteps
    <3>2. [IdleWorker EXCEPT !.pc = "index", !.snapshot = snapshot].snapshot = snapshot
      BY IdleIsCycleState DEF CycleState
    <3>. QED
      BY <1>0, <1>2, <2>1, <3>1, <3>2 DEF BeginIndex
  <2>2. CASE commitEvents(w)
    <3>1. indexed' \in [ContractNames -> Nat]
      BY <2>0, <2>2, OrderOfContracts DEF commitEvents
    <3>2. \A contract \in ContractNames : indexed'[contract] <= Len(ledger)
      BY <2>0, <2>2, OrderOfContracts DEF commitEvents
    <3>3. \E v \in CycleState : workers' = [workers EXCEPT ![w] = v] /\ v.snapshot <= Len(ledger)
      <4>0. workers' = [workers EXCEPT ![w] =
               IF workers[w].next < 3 THEN [workers[w] EXCEPT !.next = @ + 1]
               ELSE [IdleWorker EXCEPT !.pc = "list"]]
        <5>1. NextContract(w)
          BY <2>2 DEF commitEvents
        <5>2. workers' = [workers EXCEPT ![w] =
                 IF workers[w].next < Len(ContractOrder) THEN [workers[w] EXCEPT !.next = @ + 1]
                 ELSE [IdleWorker EXCEPT !.pc = "list"]]
          BY <5>1 DEF NextContract
        <5>. QED
          BY <5>2, OrderOfContracts
      <4>1. CASE workers[w].next < 3
        <5> DEFINE v == [workers[w] EXCEPT !.next = @ + 1]
        <5>1. v \in CycleState /\ v.snapshot = workers[w].snapshot
          BY <2>0, <4>1 DEF CycleState
        <5>. QED
          BY <2>0, <4>0, <4>1, <5>1
      <4>2. CASE ~ (workers[w].next < 3)
        <5> DEFINE v == [IdleWorker EXCEPT !.pc = "list"]
        <5>1. v \in CycleState /\ v.snapshot = 0
          BY IdleIsCycleState DEF CycleState, CycleSteps
        <5>2. workers' = [workers EXCEPT ![w] = v]
          BY <4>0, <4>2
        <5> HIDE DEF v
        <5>3. v.snapshot <= Len(ledger)
          BY <1>0, <5>1
        <5>. QED
          BY <5>1, <5>2, <5>3, Zenon
      <4>. QED
        BY <4>1, <4>2
    <3>. QED
      BY <1>2, <3>1, <3>2, <3>3
  <2>3. ASSUME UNCHANGED indexed,
               \E v \in CycleState : workers' = [workers EXCEPT ![w] = v] /\ v.snapshot <= Len(ledger)
        PROVE  IndexTyped'
    BY <1>2, <2>3
  <2>4. ASSUME NEW todo \in SUBSET Keys, NEW pc \in CycleSteps, NEW k \in Keys \cup {None},
               NEW matches \in BOOLEAN, UNCHANGED indexed,
               \/ workers' = [workers EXCEPT ![w] = [@ EXCEPT !.pc = pc, !.todo = todo]]
               \/ workers' = [workers EXCEPT ![w].todo = todo]
               \/ workers' = [workers EXCEPT ![w] =
                    [workers[w] EXCEPT !.pc = pc, !.key = k, !.todo = todo, !.matches = matches]]
               \/ workers' = [workers EXCEPT ![w] = [@ EXCEPT !.pc = pc, !.matches = matches]]
               \/ workers' = [workers EXCEPT ![w] =
                    [@ EXCEPT !.pc = pc, !.key = k, !.matches = matches]]
        PROVE  IndexTyped'
    <3>1. PICK v : /\ workers' = [workers EXCEPT ![w] = v]
                   /\ \/ v = [workers[w] EXCEPT !.pc = pc, !.todo = todo]
                      \/ v = [workers[w] EXCEPT !.todo = todo]
                      \/ v = [workers[w] EXCEPT !.pc = pc, !.key = k, !.todo = todo,
                                                !.matches = matches]
                      \/ v = [workers[w] EXCEPT !.pc = pc, !.matches = matches]
                      \/ v = [workers[w] EXCEPT !.pc = pc, !.key = k, !.matches = matches]
      BY <2>4
    <3>2. v \in CycleState /\ v.snapshot = workers[w].snapshot
      BY <2>0, <3>1 DEF CycleState
    <3>. QED
      BY <2>0, <2>3, <2>4, <3>1, <3>2
  <2>5. CASE CycleFails(w) \/ EndCycle(w)
    BY <1>0, <2>3, <2>5, IdleIsCycleState DEF CycleFails, EndCycle
  <2>6. CASE listPendingExpectations(w)
    <3>1. {k \in Keys : Pending(k)} \in SUBSET Keys /\ "next" \in CycleSteps
      BY DEF CycleSteps
    <3>. QED
      BY <2>4, <2>6, <3>1 DEF listPendingExpectations
  <2>7. ASSUME NEW k \in Keys, EventMissing(w, k) \/ readClaimState(w, k)
        PROVE  IndexTyped'
    <3>1. workers[w].todo \ {k} \in SUBSET Keys /\ {"conclude", "readWaterfall"} \subseteq CycleSteps
      BY <2>0 DEF CycleState, CycleSteps
    <3>2. ASSUME NEW pc \in CycleSteps, NEW matches \in BOOLEAN, Compared(w, k, pc, matches)
          PROVE  \E v \in CycleState :
                   workers' = [workers EXCEPT ![w] = v] /\ v.snapshot <= Len(ledger)
      <4> DEFINE v == [workers[w] EXCEPT !.pc = pc, !.key = k, !.todo = @ \ {k}, !.matches = matches]
      <4>1. v \in CycleState /\ v.snapshot = workers[w].snapshot
        BY <2>0, <3>1 DEF CycleState
      <4>2. workers' = [workers EXCEPT ![w] = v]
        BY <3>2 DEF Compared
      <4>. QED
        BY <2>0, <4>1, <4>2
    <3>3. ASSUME Skipped(w, k)
          PROVE  \E v \in CycleState :
                   workers' = [workers EXCEPT ![w] = v] /\ v.snapshot <= Len(ledger)
      <4> DEFINE v == [workers[w] EXCEPT !.todo = workers[w].todo \ {k}]
      <4>1. v \in CycleState /\ v.snapshot = workers[w].snapshot
        BY <2>0, <3>1 DEF CycleState
      <4>2. workers' = [workers EXCEPT ![w] = v]
        BY <3>3 DEF Skipped
      <4>. QED
        BY <2>0, <4>1, <4>2
    <3>4. CASE EventMissing(w, k)
      BY <2>3, <3>1, <3>2, <3>3, <3>4 DEF EventMissing
    <3>5. CASE readClaimState(w, k)
      <4> DEFINE m == /\ ledger[submissions[k].tx].cmd = submissions[k].cmd
                      /\ position.state = expectedClaimState(submissions[k].cmd)
      <4>1. m \in BOOLEAN
        OBVIOUS
      <4>2. Compared(w, k, "readWaterfall", m) /\ UNCHANGED indexed
        BY <3>5 DEF readClaimState
      <4> HIDE DEF m
      <4>. QED
        BY <2>3, <3>1, <3>2, <4>1, <4>2
    <3>. QED
      BY <2>7, <3>4, <3>5
  <2>8. CASE readWaterfallState(w)
    <3>1. "conclude" \in CycleSteps
      BY DEF CycleSteps
    <3>2. (workers[w].matches /\ ledger[Len(ledger)].cmd = submissions[workers[w].key].cmd) \in BOOLEAN
      OBVIOUS
    <3>. QED
      BY <2>4, <2>8, <3>1, <3>2 DEF readWaterfallState
  <2>9. ASSUME Concluded(w), UNCHANGED indexed
        PROVE  IndexTyped'
    <3>1. "next" \in CycleSteps
      BY DEF CycleSteps
    <3>. QED
      BY <2>4, <2>9, <3>1 DEF Concluded
  <2>10. CASE markReconciled(w) \/ recordFinding(w)
    BY <2>9, <2>10 DEF markReconciled, recordFinding
  <2>11. CASE markReconciledTooLate(w)
    BY <1>0, <2>3, <2>9, <2>11, IdleIsCycleState DEF markReconciledTooLate
  <2>. QED
    BY <1>2, <2>1, <2>2, <2>5, <2>6, <2>7, <2>8, <2>10, <2>11 DEF Cycle
<1>3. \A w \in Workers : Cycle(w) => ledger' = ledger
  BY CycleKeepsChain DEF chainVars
<1>. QED
  BY <1>1, <1>2, <1>3, CycleMoves

(* There are no submissions at the start.                                  *)
LEMMA RowsTypeInit == Init => RowsTyped
BY DEF Init, ChainInit, RowsTyped, HoldsSubmitted, IdleWorker

(* A submission is never withdrawn, and keeps its command and transaction. *)
LEMMA SubmissionsStay ==
  ASSUME ChainTyped, RequestsTyped, RowsTyped, [Next]_vars
  PROVE  /\ submissions' \in [Keys -> Submission \cup {None}]
         /\ \A k \in Keys : submissions'[k] # None => submissions'[k].tx \in 1..Len(ledger)
         /\ \A k \in Keys : submissions[k] # None =>
              /\ submissions'[k] # None
              /\ submissions'[k].cmd = submissions[k].cmd /\ submissions'[k].tx = submissions[k].tx
<1> USE DEF RowsTyped
<1>1. CASE UNCHANGED submissions
  BY <1>1
<1>2. ASSUME NEW q \in Requests, markSubmitted(q)
      PROVE  /\ submissions' \in [Keys -> Submission \cup {None}]
             /\ \A k \in Keys : submissions'[k] # None => submissions'[k].tx \in 1..Len(ledger)
             /\ \A k \in Keys : submissions[k] # None => submissions'[k] = submissions[k]
  <2> DEFINE r == requests[q]
             row == [cmd |-> r.cmd, tx |-> r.tx, status |-> "PENDING"]
  <2>1. r.key \in Keys /\ r.cmd \in Command /\ r.tx \in 1..Len(ledger)
    BY <1>2 DEF markSubmitted, RequestsTyped
  <2>2. row \in Submission /\ row.tx = r.tx
    BY <2>1 DEF Submission, ChainTyped
  <2>3. \/ submissions' = submissions
        \/ submissions[r.key] = None /\ submissions' = [submissions EXCEPT ![r.key] = row]
    BY <1>2 DEF markSubmitted
  <2> HIDE DEF r, row
  <2>. QED
    BY <2>1, <2>2, <2>3
<1>3. ASSUME NEW w \in Workers, NEW status \in {"RECONCILED", "MISMATCH"},
             workers[w].pc = "conclude", Conclude(workers[w].key, status)
      PROVE  /\ submissions' \in [Keys -> Submission \cup {None}]
             /\ \A k \in Keys : submissions'[k] # None => submissions'[k].tx \in 1..Len(ledger)
             /\ \A k \in Keys : submissions[k] # None =>
                  /\ submissions'[k] # None
                  /\ submissions'[k].cmd = submissions[k].cmd
                  /\ submissions'[k].tx = submissions[k].tx
  <2> DEFINE k0 == workers[w].key
             row == [submissions[k0] EXCEPT !.status = status]
  <2>1. k0 \in Keys /\ submissions[k0] # None
    BY <1>3 DEF HoldsSubmitted, Submitted
  <2>2. /\ row \in Submission
        /\ row.cmd = submissions[k0].cmd /\ row.tx = submissions[k0].tx
    BY <2>1 DEF Submission
  <2>3. submissions' = [submissions EXCEPT ![k0] = row]
    BY <1>3 DEF Conclude
  <2>4. row # None
    BY <2>2, NoSubmissionAssumption
  <2> HIDE DEF k0, row
  <2>. QED
    BY <2>1, <2>2, <2>3, <2>4
<1>. QED
  BY <1>1, <1>2, <1>3, SubmissionSteps

(* A step keeps the submissions well-typed, each naming a transaction in   *)
(* the ledger.                                                             *)
LEMMA RowsTypeStep ==
  ASSUME ChainTyped, RequestsTyped, IndexTyped, RowsTyped, [Next]_vars
  PROVE  RowsTyped'
<1>0. Len(ledger) \in Nat /\ Len(ledger') \in Nat /\ Len(ledger) <= Len(ledger')
  BY LedgerStep
<1>1. /\ submissions' \in [Keys -> Submission \cup {None}]
      /\ \A k \in Keys : submissions'[k] # None => submissions'[k].tx \in 1..Len(ledger')
  BY <1>0, SubmissionsStay
<1>2. \A k \in Keys : submissions[k] # None => submissions'[k] # None
  BY SubmissionsStay
<1>3. \A v \in Workers : HoldsSubmitted(workers'[v])
  <2>1. CASE UNCHANGED workers
    BY <2>1 DEF RowsTyped
  <2>2. ASSUME NEW w \in Workers, Cycle(w)
        PROVE  \E v : workers' = [workers EXCEPT ![w] = v] /\ HoldsSubmitted(v)
    <3>0. HoldsSubmitted(workers[w]) /\ workers[w] \in CycleState
      BY DEF RowsTyped, IndexTyped
    <3> USE DEF HoldsSubmitted
    <3>1. CASE workers' = [workers EXCEPT ![w] = IdleWorker]
      <4>1. HoldsSubmitted(IdleWorker)
        BY DEF IdleWorker
      <4>. QED
        BY <3>1, <4>1
    <3>2. ASSUME NEW snapshot, BeginIndex(w, snapshot)
          PROVE  \E v : workers' = [workers EXCEPT ![w] = v] /\ HoldsSubmitted(v)
      <4> DEFINE v == [IdleWorker EXCEPT !.pc = "index", !.snapshot = snapshot]
      <4>1. HoldsSubmitted(v)
        BY DEF IdleWorker
      <4>. QED
        BY <3>2, <4>1 DEF BeginIndex
    <3>3. CASE commitEvents(w)
      <4>1. workers[w].pc = "index" /\ NextContract(w)
        BY <3>3 DEF commitEvents
      <4>2. CASE workers[w].next < Len(ContractOrder)
        <5> DEFINE v == [workers[w] EXCEPT !.next = @ + 1]
        <5>1. HoldsSubmitted(v)
          BY <3>0, <4>1 DEF CycleState
        <5>2. workers' = [workers EXCEPT ![w] = v]
          BY <4>1, <4>2 DEF NextContract
        <5>. QED
          BY <5>1, <5>2
      <4>3. CASE ~ (workers[w].next < Len(ContractOrder))
        <5> DEFINE v == [IdleWorker EXCEPT !.pc = "list"]
        <5>1. HoldsSubmitted(v)
          BY DEF IdleWorker
        <5>2. workers' = [workers EXCEPT ![w] = v]
          BY <4>1, <4>3 DEF NextContract
        <5>. QED
          BY <5>1, <5>2
      <4>. QED
        BY <4>2, <4>3
    <3>4. CASE listPendingExpectations(w)
      <4> DEFINE v == [workers[w] EXCEPT !.pc = "next", !.todo = {k \in Keys : Pending(k)}]
      <4>1. HoldsSubmitted(v)
        BY <3>0 DEF CycleState, Pending, Submitted
      <4>2. workers' = [workers EXCEPT ![w] = v]
        BY <3>4 DEF listPendingExpectations
      <4>. QED
        BY <4>1, <4>2
    <3>5. ASSUME NEW k \in Keys, EventMissing(w, k) \/ readClaimState(w, k)
          PROVE  \E v : workers' = [workers EXCEPT ![w] = v] /\ HoldsSubmitted(v)
      <4>1. Submitted(k) /\ workers[w].pc = "next"
        BY <3>0, <3>5 DEF EventMissing, readClaimState
      <4>2. ASSUME NEW pc, NEW matches, Compared(w, k, pc, matches)
            PROVE  \E v : workers' = [workers EXCEPT ![w] = v] /\ HoldsSubmitted(v)
        <5> DEFINE v == [workers[w] EXCEPT !.pc = pc, !.key = k, !.todo = @ \ {k},
                                           !.matches = matches]
        <5>1. HoldsSubmitted(v)
          BY <3>0, <4>1 DEF CycleState
        <5>2. workers' = [workers EXCEPT ![w] = v]
          BY <4>2 DEF Compared
        <5>. QED
          BY <5>1, <5>2
      <4>3. CASE Skipped(w, k)
        <5> DEFINE v == [workers[w] EXCEPT !.todo = workers[w].todo \ {k}]
        <5>1. HoldsSubmitted(v)
          BY <3>0, <4>1 DEF CycleState
        <5>2. workers' = [workers EXCEPT ![w] = v]
          BY <4>3 DEF Skipped
        <5>. QED
          BY <5>1, <5>2
      <4>4. CASE EventMissing(w, k)
        BY <4>2, <4>3, <4>4 DEF EventMissing
      <4>5. CASE readClaimState(w, k)
        <5> DEFINE m == /\ ledger[submissions[k].tx].cmd = submissions[k].cmd
                        /\ position.state = expectedClaimState(submissions[k].cmd)
        <5>1. Compared(w, k, "readWaterfall", m)
          BY <4>5 DEF readClaimState
        <5> HIDE DEF m
        <5>. QED
          BY <4>2, <5>1
      <4>. QED
        BY <3>5, <4>4, <4>5
    <3>6. CASE readWaterfallState(w)
      <4> DEFINE m == workers[w].matches /\ ledger[Len(ledger)].cmd = submissions[workers[w].key].cmd
                 v == [workers[w] EXCEPT !.pc = "conclude", !.matches = m]
      <4>1. workers' = [workers EXCEPT ![w] = v] /\ workers[w].pc = "readWaterfall"
        BY <3>6 DEF readWaterfallState
      <4> HIDE DEF m
      <4>2. HoldsSubmitted(v)
        BY <3>0, <4>1 DEF CycleState
      <4>. QED
        BY <4>1, <4>2
    <3>7. CASE Concluded(w)
      <4> DEFINE v == [workers[w] EXCEPT !.pc = "next", !.key = None, !.matches = FALSE]
      <4>1. HoldsSubmitted(v)
        BY <3>0 DEF CycleState
      <4>2. workers' = [workers EXCEPT ![w] = v]
        BY <3>7 DEF Concluded
      <4>. QED
        BY <4>1, <4>2
    <3>. QED
      BY <2>2, <3>1, <3>2, <3>3, <3>4, <3>5, <3>6, <3>7
      DEF Cycle, CycleFails, EndCycle, markReconciled, markReconciledTooLate, recordFinding
  <2>3. ASSUME NEW w \in Workers, NEW v, workers' = [workers EXCEPT ![w] = v], HoldsSubmitted(v)
        PROVE  \A u \in Workers : HoldsSubmitted(workers'[u])
    BY <2>3 DEF RowsTyped, IndexTyped
  <2>. QED
    BY <2>1, <2>2, <2>3, CycleMoves
<1>4. \A v : HoldsSubmitted(v) => HoldsSubmitted(v)'
  BY <1>2 DEF HoldsSubmitted, Submitted
<1>. QED
  BY <1>1, <1>3, <1>4 DEF RowsTyped

-----------------------------------------------------------------------------
(* The types of the requests and of what they keep.                        *)

LEMMA JournalTypeInit == Init => JournalTyped
BY DEF Init, JournalTyped

(* Only these steps write the idempotency records.                         *)
LEMMA RecordSteps ==
  ASSUME [Next]_vars
  PROVE  \/ UNCHANGED records
         \/ \E q \in Requests : ReplayEvent(q) \/ PrepareRun(q) \/ markSubmitted(q)
BY OneRequestMoves
DEF Request, requestVars, journalVars, loadWaterfallPosition, ReplayRun, RefuseRun,
  findByResultHash, MarkStatus, markSubmitting, submit, markPrepared, markFailed, markAmbiguous,
  Answered, NoAnswer, existingRun, Crash

(* A record is never removed, and keeps its command.                       *)
LEMMA RecordsStay ==
  ASSUME RequestsTyped, JournalTyped, RequestsKept, [Next]_vars
  PROVE  /\ records' \in [Keys -> IdempotencyRecord \cup {None}]
         /\ \A k, cmd : k \in Keys /\ Kept(k, cmd) => KeptAfter(k, cmd)
<1> USE DEF Kept, KeptAfter
<1>1. CASE UNCHANGED records
  BY <1>1 DEF JournalTyped
<1>2. ASSUME NEW q \in Requests, ReplayEvent(q) \/ PrepareRun(q)
      PROVE  /\ records' \in [Keys -> IdempotencyRecord \cup {None}]
             /\ \A k, cmd : k \in Keys /\ Kept(k, cmd) => KeptAfter(k, cmd)
  <2>1. requests[q].key \in Keys /\ requests[q].cmd \in Command /\ records[requests[q].key] = None
    BY <1>2 DEF ReplayEvent, PrepareRun, RequestsTyped
  <2>2. \A b \in BOOLEAN : [cmd |-> requests[q].cmd, answered |-> b] \in IdempotencyRecord
    BY <2>1 DEF IdempotencyRecord
  <2>3. \/ records' = records
        \/ records' = [records EXCEPT ![requests[q].key] = [cmd |-> requests[q].cmd, answered |-> TRUE]]
        \/ records' = [records EXCEPT ![requests[q].key] = [cmd |-> requests[q].cmd, answered |-> FALSE]]
    BY <1>2 DEF ReplayEvent, PrepareRun
  <2>. QED
    BY <2>1, <2>2, <2>3, ZenonT(60) DEF JournalTyped
<1>3. ASSUME NEW q \in Requests, markSubmitted(q)
      PROVE  /\ records' \in [Keys -> IdempotencyRecord \cup {None}]
             /\ \A k, cmd : k \in Keys /\ Kept(k, cmd) => KeptAfter(k, cmd)
  <2> DEFINE k0 == requests[q].key
             row == [records[k0] EXCEPT !.answered = TRUE]
  <2>1. k0 \in Keys /\ records[k0] # None
    BY <1>3 DEF markSubmitted, RequestsTyped, RequestsKept, PreparedSteps, RequestSteps
  <2>2. row \in IdempotencyRecord /\ row.cmd = records[k0].cmd
    BY <2>1 DEF IdempotencyRecord, JournalTyped
  <2>3. records' = records \/ records' = [records EXCEPT ![k0] = row]
    BY <1>3 DEF markSubmitted, journalVars
  <2>4. row # None
    BY <2>2, NoRecordAssumption
  <2> HIDE DEF row, k0
  <2>. QED
    BY <2>1, <2>2, <2>3, <2>4 DEF JournalTyped
<1>. QED
  BY <1>1, <1>2, <1>3, RecordSteps

(* A step keeps the idempotency records well-typed.                        *)
LEMMA JournalTypeStep ==
  ASSUME RequestsTyped, JournalTyped, RequestsKept, [Next]_vars
  PROVE  JournalTyped'
<1>1. records' \in [Keys -> IdempotencyRecord \cup {None}]
  BY RecordsStay
<1>2. runs' \in [Keys -> RunStatuses \cup {None}]
  <2>1. ASSUME NEW q \in Requests, NEW status \in RunStatuses,
               runs' = [runs EXCEPT ![requests[q].key] = status]
        PROVE  runs' \in [Keys -> RunStatuses \cup {None}]
    BY <2>1 DEF JournalTyped
  <2>2. ASSUME NEW q \in Requests, Request(q)
        PROVE  runs' = runs \/ \E status \in RunStatuses :
                 runs' = [runs EXCEPT ![requests[q].key] = status]
    BY <2>2
    DEF Request, journalVars, loadWaterfallPosition, ReplayRun, ReplayEvent, PrepareRun,
      RefuseRun, findByResultHash, MarkStatus, markSubmitting, submit, markPrepared, markFailed,
      markAmbiguous, Answered, NoAnswer, existingRun, markSubmitted, Crash, RunStatuses
  <2>. QED
    BY <2>1, <2>2, OneRequestMoves DEF JournalTyped, requestVars, journalVars
<1>3. results' \in [Events -> Keys \cup {None}]
  <2>1. ASSUME NEW q \in Requests, markSubmitted(q)
        PROVE  results' \in [Events -> Keys \cup {None}]
    <3> DEFINE e == requests[q].cmd.event
               k == IF results[e] = None THEN requests[q].key ELSE results[e]
    <3>1. requests[q].key \in Keys /\ e \in Events
      BY <2>1 DEF markSubmitted, RequestsTyped, Command
    <3>2. k \in Keys \cup {None}
      BY <3>1 DEF JournalTyped
    <3>3. results' = results \/ results' = [results EXCEPT ![e] = k]
      BY <2>1 DEF markSubmitted, journalVars
    <3> HIDE DEF e, k
    <3>. QED
      BY <3>1, <3>2, <3>3 DEF JournalTyped
  <2>2. ASSUME NEW q \in Requests, Request(q), ~ markSubmitted(q)
        PROVE  results' = results
    BY <2>2
    DEF Request, journalVars, loadWaterfallPosition, ReplayRun, ReplayEvent, PrepareRun,
      RefuseRun, findByResultHash, MarkStatus, markSubmitting, submit, markPrepared, markFailed,
      markAmbiguous, Answered, NoAnswer, existingRun, Crash
  <2>. QED
    BY <2>1, <2>2, OneRequestMoves DEF JournalTyped, requestVars, journalVars
<1>. QED
  BY <1>1, <1>2, <1>3 DEF JournalTyped

-----------------------------------------------------------------------------
(* Where a step takes a request: v is what it becomes.                     *)

IsCalled(v) ==
  /\ v.pc = "prepare" /\ v.id = calls + 1 /\ v.key \in Keys /\ v.cmd \in Command
  /\ v \in RequestState

GoesOn(r, v) == \E pc \in PreparedSteps \ {"lookup", "existing", "await"} :
  /\ r.pc \in PreparedSteps
  /\ pc = "insert" => r.pc = "existing"
  /\ v = [r EXCEPT !.pc = pc]

IsPrepared(r, v) == \E status \in RunStatuses \cup {None} :
  /\ r.pc = "prepare" /\ KeptAfter(r.key, r.cmd)
  /\ v = [r EXCEPT !.pc = "lookup", !.seen = status]

IsLocated(r, v) == \E i \in 1..Len(ledger) :
  /\ \/ r.pc = "lookup" /\ ledger[i].cmd = r.cmd
     \/ r.pc = "await" /\ ledger[i].id = r.id
  /\ v = [r EXCEPT !.pc = "existing", !.tx = i]

RequestMove(r, v) ==
  \/ IsCalled(v) /\ r.pc \in {"idle", "conflict"} /\ calls' = calls + 1
  \/ /\ UNCHANGED calls
     /\ \/ v = IdleRequest
        \/ r.pc = "prepare" /\ v = [r EXCEPT !.pc = "conflict"]
        \/ r.pc = "submit" /\ v = [r EXCEPT !.pc = "await"]
        \/ IsPrepared(r, v) \/ IsLocated(r, v) \/ GoesOn(r, v)

(* A step of a request moves that request alone, along one of the listed   *)
(* moves.                                                                  *)
LEMMA RequestMoves ==
  ASSUME ChainTyped, IndexTyped, RequestsTyped, JournalTyped, ProjectionTyped, ClaimTyped,
         NEW q \in Requests, Request(q)
  PROVE  \E v : requests' = [requests EXCEPT ![q] = v] /\ RequestMove(requests[q], v)
<1> DEFINE r == requests[q]
           Goal == \E v : requests' = [requests EXCEPT ![q] = v] /\ RequestMove(r, v)
<1>0. r.pc # "idle" => r.key \in Keys /\ r.cmd \in Command
  BY DEF RequestsTyped
<1>1. ASSUME NEW k \in Keys, NEW e \in Events, NEW final \in BOOLEAN, NEW due \in ServicingDues,
             loadWaterfallPosition(q, k, e, final, due)
      PROVE  Goal
  <2> DEFINE cmd == [event |-> e, final |-> final, due |-> due,
                     outstanding |-> projection.outstanding, consumed |-> projection.consumed]
             v == [IdleRequest EXCEPT
                     !.pc = "prepare", !.id = calls + 1, !.key = k, !.version = claim.version,
                     !.cmd = cmd]
  <2>1. cmd \in Command
    BY DEF ProjectionTyped, Command
  <2>2. /\ r.pc \in {"idle", "conflict"} /\ calls' = calls + 1
        /\ requests' = [requests EXCEPT ![q] = v]
    BY <1>1 DEF loadWaterfallPosition
  <2> HIDE DEF cmd
  <2>3. calls + 1 \in Nat /\ claim.version \in Nat
    BY DEF RequestsTyped, ClaimTyped
  <2>4. v \in RequestState
    BY <2>1, <2>3 DEF IdleRequest, RequestState, RequestSteps
  <2>5. v.pc = "prepare" /\ v.id = calls + 1 /\ v.key = k /\ v.cmd = cmd
    BY DEF IdleRequest
  <2> HIDE DEF v
  <2>6. IsCalled(v)
    BY <2>1, <2>4, <2>5 DEF IsCalled
  <2>. QED
    BY <2>2, <2>6 DEF RequestMove
<1>3. CASE Leave(q) /\ UNCHANGED calls
  <2>1. RequestMove(r, IdleRequest)
    BY <1>3 DEF RequestMove
  <2>. QED
    BY <1>3, <2>1 DEF Leave
<1>4. ASSUME r.pc = "prepare", Enter(q, "conflict"), UNCHANGED calls
      PROVE  Goal
  <2>1. RequestMove(r, [r EXCEPT !.pc = "conflict"])
    BY <1>4 DEF RequestMove
  <2>. QED
    BY <1>4, <2>1 DEF Enter
<1>5. ASSUME NEW pc \in PreparedSteps \ {"lookup", "existing", "await"}, r.pc \in PreparedSteps,
             pc = "insert" => r.pc = "existing", Enter(q, pc), UNCHANGED calls
      PROVE  Goal
  <2> DEFINE v == [r EXCEPT !.pc = pc]
  <2>1. GoesOn(r, v)
    BY <1>5 DEF GoesOn
  <2>2. requests' = [requests EXCEPT ![q] = v]
    BY <1>5 DEF Enter
  <2> HIDE DEF v
  <2>. QED
    BY <1>5, <2>1, <2>2 DEF RequestMove
<1>6. ASSUME r.pc = "prepare", NEW status \in RunStatuses \cup {None}, KeptAfter(r.key, r.cmd),
             requests' = [requests EXCEPT ![q] = [r EXCEPT !.pc = "lookup", !.seen = status]],
             UNCHANGED calls
      PROVE  Goal
  <2> DEFINE v == [r EXCEPT !.pc = "lookup", !.seen = status]
  <2>1. IsPrepared(r, v)
    BY <1>6 DEF IsPrepared
  <2> HIDE DEF v
  <2>2. RequestMove(r, v)
    BY <1>6, <2>1 DEF RequestMove
  <2>. QED
    BY <1>6, <2>2 DEF v
<1>7. ASSUME NEW i \in 1..Len(ledger), UNCHANGED calls,
             \/ r.pc = "lookup" /\ ledger[i].cmd = r.cmd
             \/ r.pc = "await" /\ ledger[i].id = r.id,
             requests' = [requests EXCEPT ![q] = [r EXCEPT !.pc = "existing", !.tx = i]]
      PROVE  Goal
  <2> DEFINE v == [r EXCEPT !.pc = "existing", !.tx = i]
  <2>1. IsLocated(r, v)
    BY <1>7 DEF IsLocated
  <2> HIDE DEF v
  <2>2. RequestMove(r, v)
    BY <1>7, <2>1 DEF RequestMove
  <2>. QED
    BY <1>7, <2>2 DEF v
<1>8. CASE ReplayRun(q)
  <2>1. CASE records[r.key].cmd # r.cmd
    BY <1>4, <1>8, <2>1 DEF ReplayRun
  <2>2. CASE records[r.key].cmd = r.cmd /\ Leave(q)
    BY <1>3, <1>8, <2>2 DEF ReplayRun
  <2>3. ASSUME records[r.key].cmd = r.cmd, ~ Leave(q)
        PROVE  Goal
    <3>1. /\ r.pc = "prepare" /\ records[r.key] # None /\ UNCHANGED <<records, calls>>
          /\ requests' = [requests EXCEPT ![q] = [r EXCEPT !.pc = "lookup", !.seen = runs[r.key]]]
      BY <1>8, <2>3 DEF ReplayRun, journalVars
    <3>2. runs[r.key] \in RunStatuses \cup {None}
      BY <1>0, <3>1 DEF JournalTyped
    <3>3. KeptAfter(r.key, r.cmd)
      BY <2>3, <3>1 DEF KeptAfter
    <3>. QED
      BY <1>6, <3>1, <3>2, <3>3
  <2>. QED
    BY <2>1, <2>2, <2>3
<1>9. CASE ReplayEvent(q)
  BY <1>3, <1>4, <1>9 DEF ReplayEvent
<1>10. CASE PrepareRun(q)
  <2>1. /\ r.pc = "prepare" /\ UNCHANGED calls
        /\ records' = [records EXCEPT ![r.key] = [cmd |-> r.cmd, answered |-> FALSE]]
        /\ requests' = [requests EXCEPT ![q] = [r EXCEPT !.pc = "lookup", !.seen = "PREPARED"]]
    BY <1>10 DEF PrepareRun
  <2>2. KeptAfter(r.key, r.cmd)
    <3>1. [cmd |-> r.cmd, answered |-> FALSE] # None
      <4>1. [cmd |-> r.cmd, answered |-> FALSE] \in IdempotencyRecord
        BY <1>0, <2>1 DEF IdempotencyRecord
      <4>. QED
        BY <4>1, NoRecordAssumption
    <3>. QED
      BY <1>0, <2>1, <3>1 DEF KeptAfter, JournalTyped
  <2>. QED
    BY <1>6, <2>1, <2>2 DEF RunStatuses
<1>11. CASE RefuseRun(q) \/ Crash(q)
  BY <1>3, <1>11 DEF RefuseRun, Crash
<1>12. CASE findByResultHash(q)
  <2>1. r.pc = "lookup" /\ UNCHANGED calls
    BY <1>12 DEF findByResultHash
  <2>2. ASSUME NEW i \in CanonicalEvents(r.cmd),
               requests' = [requests EXCEPT ![q] = [r EXCEPT !.pc = "existing", !.tx = i]]
        PROVE  Goal
    <3>1. i \in 1..Len(ledger) /\ ledger[i].cmd = r.cmd
      <4>1. indexed["servicing_waterfall"] \in Nat /\ indexed["servicing_waterfall"] <= Len(ledger)
        BY OrderOfContracts DEF IndexTyped
      <4>. QED
        BY <2>2, <4>1 DEF CanonicalEvents, ChainTyped
    <3>. QED
      BY <1>7, <2>1, <2>2, <3>1
  <2>3. CASE Leave(q)
    BY <1>3, <2>1, <2>3
  <2>4. CASE Enter(q, "submitting")
    BY <1>5, <2>1, <2>4 DEF PreparedSteps, RequestSteps
  <2>. QED
    BY <1>12, <2>2, <2>3, <2>4 DEF findByResultHash
<1>13. ASSUME NEW pc, NEW status, NEW next,
              <<pc, next>> \in {<<"submitting", "submit">>, <<"unavailable", "idle">>,
                               <<"rejected", "idle">>, <<"lost", "idle">>},
              MarkStatus(q, pc, status, next)
      PROVE  Goal
  BY <1>3, <1>5, <1>13 DEF MarkStatus, PreparedSteps, RequestSteps
<1>14. CASE markSubmitting(q) \/ markPrepared(q) \/ markFailed(q) \/ markAmbiguous(q)
  BY <1>13, <1>14 DEF markSubmitting, markPrepared, markFailed, markAmbiguous
<1>15. CASE submit(q)
  <2>1. r.pc = "submit" /\ UNCHANGED calls
    BY <1>15 DEF submit
  <2>2. CASE Enter(q, "await")
    <3> DEFINE v == [r EXCEPT !.pc = "await"]
    <3>1. RequestMove(r, v)
      BY <2>1 DEF RequestMove
    <3>. QED
      BY <2>2, <3>1 DEF Enter
  <2>3. CASE Enter(q, "unavailable") \/ Enter(q, "rejected")
    BY <1>5, <2>1, <2>3 DEF PreparedSteps, RequestSteps
  <2>. QED
    BY <1>15, <2>2, <2>3 DEF submit
<1>16. ASSUME NEW i \in DOMAIN ledger, Answered(q, i)
       PROVE  Goal
  <2>1. i \in 1..Len(ledger)
    BY DEF ChainTyped
  <2>. QED
    BY <1>7, <1>16, <2>1 DEF Answered
<1>17. CASE NoAnswer(q)
  BY <1>5, <1>17 DEF NoAnswer, PreparedSteps, RequestSteps
<1>18. CASE existingRun(q)
  BY <1>3, <1>5, <1>18 DEF existingRun, PreparedSteps, RequestSteps
<1>19. CASE markSubmitted(q)
  BY <1>3, <1>19 DEF markSubmitted
<1>. QED
  BY <1>1, <1>8, <1>9, <1>10, <1>11, <1>12, <1>14, <1>15, <1>16, <1>17, <1>18, <1>19 DEF Request

(* Every request is idle at the start.                                     *)
LEMMA RequestsTypeInit == Init => RequestsTyped /\ RequestsKept
BY DEF Init, RequestsTyped, RequestsKept, PreparedSteps, RequestState, RequestSteps, IdleRequest

(* Every step leaves the requests alone or moves one of them along a       *)
(* listed move.                                                            *)
LEMMA RequestsStep ==
  ASSUME ChainTyped, IndexTyped, RequestsTyped, JournalTyped, ProjectionTyped, ClaimTyped, RequestsKept,
         [Next]_vars
  PROVE  \/ UNCHANGED <<requests, calls>>
         \/ \E q \in Requests : \E v :
              requests' = [requests EXCEPT ![q] = v] /\ RequestMove(requests[q], v)
BY RequestMoves, OneRequestMoves DEF requestVars

(* A step keeps the requests well-typed, each with the command its key was *)
(* reserved for.                                                           *)
LEMMA RequestsTypeStep ==
  ASSUME ChainTyped, IndexTyped, RequestsTyped, JournalTyped, ProjectionTyped, ClaimTyped, RequestsKept,
         [Next]_vars
  PROVE  RequestsTyped' /\ RequestsKept'
<1>0. Len(ledger) \in Nat /\ Len(ledger') \in Nat /\ Len(ledger) <= Len(ledger')
  BY LedgerStep
<1>1. \A k, cmd : k \in Keys /\ Kept(k, cmd) => KeptAfter(k, cmd)
  BY RecordsStay
<1>2. calls \in Nat /\ calls' \in Nat /\ calls <= calls'
  BY RequestsStep DEF RequestMove, RequestsTyped
<1> DEFINE Named(v) == v.pc # "idle" =>
             v.key \in Keys /\ v.cmd \in Command /\ v.id \in Nat /\ 1 <= v.id /\ v.id <= calls'
           Placed(v) == v.pc \in {"existing", "insert"} => v.tx \in 1..Len(ledger)
           Recalled(v) == v.pc \in PreparedSteps => KeptAfter(v.key, v.cmd)
           Fits(v) == v \in RequestState /\ Named(v) /\ Placed(v) /\ Recalled(v)
<1>3. ASSUME NEW q \in Requests
      PROVE  Fits(requests[q])
  <2>1. requests[q] \in RequestState /\ Placed(requests[q])
    BY DEF RequestsTyped
  <2>2. Named(requests[q])
    BY <1>2 DEF RequestsTyped
  <2>3. requests[q].pc \in PreparedSteps => requests[q].key \in Keys
    BY DEF RequestsTyped, PreparedSteps
  <2>4. Recalled(requests[q])
    BY <1>1, <2>3 DEF RequestsKept
  <2>. QED
    BY <2>1, <2>2, <2>4
<1>4. ASSUME NEW q \in Requests, NEW v, RequestMove(requests[q], v)
      PROVE  Fits(v)
  <2> DEFINE r == requests[q]
  <2>0. Fits(r)
    BY <1>3
  <2>1. RequestMove(r, v)
    BY <1>4
  <2> HIDE DEF r
  <2>2. CASE IsCalled(v) /\ calls' = calls + 1
    <3>1. v.pc = "prepare" /\ v.id = calls + 1 /\ v.key \in Keys /\ v.cmd \in Command /\ v \in RequestState
      BY <2>2 DEF IsCalled
    <3>2. Named(v)
      BY <1>2, <2>2, <3>1
    <3>. QED
      BY <3>1, <3>2 DEF PreparedSteps
  <2>3. CASE v = IdleRequest
    <3>1. v.pc = "idle" /\ v \in RequestState
      BY <2>3 DEF IdleRequest, RequestState, RequestSteps
    <3>. QED
      BY <3>1 DEF PreparedSteps
  <2>4. ASSUME NEW pc \in RequestSteps, r.pc # "idle",
               v \in RequestState, v.pc = pc, v.id = r.id, v.key = r.key, v.cmd = r.cmd,
               pc \in {"existing", "insert"} => v.tx \in 1..Len(ledger),
               pc \in PreparedSteps => r.pc \in PreparedSteps \/ KeptAfter(r.key, r.cmd)
        PROVE  Fits(v)
    <3>1. Named(v) /\ Placed(v)
      BY <2>0, <2>4
    <3>2. Recalled(v)
      BY <2>0, <2>4
    <3>. QED
      BY <2>4, <3>1, <3>2
  <2>5. CASE r.pc = "prepare" /\ v = [r EXCEPT !.pc = "conflict"]
    <3>1. v \in RequestState /\ v.pc = "conflict" /\ v.id = r.id /\ v.key = r.key /\ v.cmd = r.cmd
      BY <2>0, <2>5 DEF RequestState, RequestSteps
    <3>. QED
      BY <2>4, <2>5, <3>1 DEF RequestSteps, PreparedSteps
  <2>6. CASE r.pc = "submit" /\ v = [r EXCEPT !.pc = "await"]
    <3>1. v \in RequestState /\ v.pc = "await" /\ v.id = r.id /\ v.key = r.key /\ v.cmd = r.cmd
      BY <2>0, <2>6 DEF RequestState, RequestSteps
    <3>. QED
      BY <2>4, <2>6, <3>1 DEF RequestSteps, PreparedSteps
  <2>7. CASE IsPrepared(r, v)
    <3>1. PICK status \in RunStatuses \cup {None} :
             /\ r.pc = "prepare" /\ KeptAfter(r.key, r.cmd)
             /\ v = [r EXCEPT !.pc = "lookup", !.seen = status]
      BY <2>7 DEF IsPrepared
    <3>2. v \in RequestState /\ v.pc = "lookup" /\ v.id = r.id /\ v.key = r.key /\ v.cmd = r.cmd
      BY <2>0, <3>1 DEF RequestState, RequestSteps
    <3>. QED
      BY <2>4, <3>1, <3>2 DEF RequestSteps
  <2>8. CASE IsLocated(r, v)
    <3>1. PICK i \in 1..Len(ledger) :
             r.pc \in {"lookup", "await"} /\ v = [r EXCEPT !.pc = "existing", !.tx = i]
      BY <2>8 DEF IsLocated
    <3>2. i \in Nat
      BY <1>0
    <3>3. /\ v \in RequestState /\ v.pc = "existing" /\ v.id = r.id /\ v.key = r.key /\ v.cmd = r.cmd
          /\ v.tx = i
      BY <2>0, <3>1, <3>2 DEF RequestState, RequestSteps
    <3>. QED
      BY <2>4, <3>1, <3>3 DEF RequestSteps, PreparedSteps
  <2>9. CASE GoesOn(r, v)
    <3>1. PICK pc \in PreparedSteps \ {"lookup", "existing", "await"} :
             /\ r.pc \in PreparedSteps
             /\ pc = "insert" => r.pc = "existing"
             /\ v = [r EXCEPT !.pc = pc]
      BY <2>9 DEF GoesOn
    <3>2. /\ v \in RequestState /\ v.pc = pc /\ v.id = r.id /\ v.key = r.key /\ v.cmd = r.cmd
          /\ v.tx = r.tx
      BY <2>0, <3>1 DEF RequestState, PreparedSteps
    <3>. QED
      BY <2>0, <2>4, <3>1, <3>2 DEF RequestSteps, PreparedSteps
  <2>. QED
    BY <2>1, <2>2, <2>3, <2>5, <2>6, <2>7, <2>8, <2>9 DEF RequestMove
<1>5. \A q \in Requests : Fits(requests'[q])
  <2> HIDE DEF Fits
  <2>. QED
    BY <1>3, <1>4, RequestsStep DEF RequestsTyped
<1>6. requests' \in [Requests -> RequestState]
  <2>1. \E f : requests' = requests \/ \E q \in Requests : \E v : requests' = [requests EXCEPT ![q] = v]
    BY RequestsStep
  <2>. QED
    BY <1>5, <2>1 DEF RequestsTyped
<1>. QED
  <2>1. RequestsTyped'
    BY <1>0, <1>2, <1>5, <1>6 DEF RequestsTyped
  <2>2. RequestsKept'
    BY <1>5 DEF RequestsKept, Kept, KeptAfter
  <2>. QED
    BY <2>1, <2>2

-----------------------------------------------------------------------------
(* The projection: its type, and that it agrees with the ledger.           *)

LEMMA ProjectionSteps ==
  ASSUME [Next]_vars
  PROVE  \/ UNCHANGED <<indexed, projection>>
         \/ \E w \in Workers : ledger' = ledger /\ commitEvents(w)
         \/ \E w \in Workers : ledger' = ledger /\ markReconciled(w)
BY CycleMoves, CycleKeepsChain
DEF chainVars, Cycle, BeginIndex, CycleFails, listPendingExpectations, EventMissing,
  readClaimState, readWaterfallState, markReconciledTooLate, recordFinding, EndCycle

(* Every prefix of the ledger leads to a position.                         *)
LEMMA UptoType ==
  ASSUME ChainTyped, NEW n \in 0..Len(ledger)
  PROVE  Upto(n) \in Positions
<1>1. Funded \in Positions
  BY ChainAssumption DEF Funded, Positions
<1>2. ASSUME n # 0 PROVE ledger[n].after \in Positions
  <2>1. n \in 1..Len(ledger) /\ ledger \in Seq(Entry)
    BY <1>2 DEF ChainTyped
  <2>2. ledger[n] \in Entry
    BY <2>1
  <2>. QED
    BY <2>2 DEF Entry
<1>. QED
  BY <1>1, <1>2 DEF Upto

(* The projection starts at the empty ledger.                              *)
LEMMA ProjectionInit == Init => ProjectionTyped /\ ProjectionMatchesLedger
<1> SUFFICES ASSUME Init PROVE ProjectionTyped /\ ProjectionMatchesLedger
  OBVIOUS
<1>1. ProjectionTyped
  BY ChainAssumption DEF Init, ChainInit, ProjectionTyped
<1>2. \A contract \in ContractNames : Upto(indexed[contract]) = Funded
  BY DEF Init, ChainInit, Upto
<1>. QED
  BY <1>1, <1>2, OrderOfContracts DEF Init, ChainInit, ProjectionMatchesLedger, Funded

(* A step keeps the projection at the position its cursors' prefix of the  *)
(* ledger leads to.                                                        *)
LEMMA ProjectionStep ==
  ASSUME ChainTyped, RequestsTyped, IndexTyped, RowsTyped, ProjectionTyped,
         ProjectionMatchesLedger, [Next]_vars
  PROVE  ProjectionTyped' /\ ProjectionMatchesLedger'
<1>0. \A contract \in ContractNames : indexed[contract] \in 0..Len(ledger)
  BY DEF IndexTyped, ChainTyped
<1>1. CASE UNCHANGED <<indexed, projection>>
  <2>1. \A contract \in ContractNames : Upto(indexed[contract])' = Upto(indexed[contract])
    BY <1>0, <1>1, LedgerStep DEF Upto
  <2>. QED
    BY <1>1, <2>1, OrderOfContracts DEF ProjectionTyped, ProjectionMatchesLedger
<1>2. ASSUME NEW w \in Workers, ledger' = ledger, commitEvents(w)
      PROVE  ProjectionTyped' /\ ProjectionMatchesLedger'
  <2> DEFINE contract == ContractOrder[workers[w].next]
             n == workers[w].snapshot
             from == indexed[contract]
  <2>1. contract \in ContractNames /\ n \in 0..Len(ledger) /\ from \in 0..Len(ledger)
    BY <1>0, OrderOfContracts DEF IndexTyped, CycleState
  <2>2. \A i : Upto(i)' = IF i' = 0 THEN Funded ELSE ledger[i'].after
    BY <1>2 DEF Upto
  <2>3. Upto(n) \in Positions /\ Upto(from) \in Positions
    BY <2>1, UptoType
  <2>4. CASE ~ (n > from)
    <3>1. UNCHANGED <<indexed, projection>>
      BY <1>2, <2>4 DEF commitEvents, FirstNew
    <3>. QED
      BY <1>1, <3>1
  <2>5. CASE n > from
    <3>1. /\ indexed' = [indexed EXCEPT ![contract] = n]
          /\ projection' = Projected(contract, from, n)
      BY <1>2, <2>5 DEF commitEvents, FirstNew
    <3> HIDE DEF contract, n
    <3>2. /\ indexed'[contract] = n
          /\ \A other \in ContractNames : other # contract => indexed'[other] = indexed[other]
      BY <2>1, <3>1 DEF IndexTyped
    <3>3. \A other \in ContractNames : Upto(indexed[other])' =
            IF other = contract THEN Upto(n) ELSE Upto(indexed[other])
      BY <1>2, <3>2 DEF Upto
    <3> HIDE DEF from
    <3>4. CASE contract = "claim_lifecycle"
      <4>1. projection' = [projection EXCEPT !.state = Upto(n).state]
        BY <3>1, <3>4 DEF Projected
      <4>2. Upto(n).state \in {"FUNDED", "SETTLING", "REPAID", "SHORTFALL"}
        BY <2>3 DEF Positions
      <4>. QED
        BY <3>3, <3>4, <4>1, <4>2, OrderOfContracts DEF ProjectionTyped, ProjectionMatchesLedger
    <3>5. CASE contract = "facility"
      <4>1. projection' = [projection EXCEPT !.outstanding =
                            projection.outstanding - (Upto(from).outstanding - Upto(n).outstanding)]
        BY <3>1, <3>5 DEF Projected
      <4>2. /\ projection.outstanding = Upto(from).outstanding
            /\ Upto(from).outstanding \in Int
            /\ Upto(n).outstanding \in 0..Principal /\ Upto(n).outstanding \in Int
        BY <2>3, <3>5, ChainAssumption DEF ProjectionMatchesLedger, from, Positions
      <4>3. projection.outstanding - (Upto(from).outstanding - Upto(n).outstanding)
              = Upto(n).outstanding
        BY <4>2
      <4>. QED
        BY <3>3, <3>5, <4>1, <4>2, <4>3, OrderOfContracts DEF ProjectionTyped, ProjectionMatchesLedger
    <3>6. CASE contract = "servicing_waterfall"
      <4>1. projection' = [projection EXCEPT !.consumed =
                            projection.consumed + (Upto(n).consumed - Upto(from).consumed)]
        BY <3>1, <3>6 DEF Projected
      <4>2. /\ projection.consumed = Upto(from).consumed
            /\ Upto(from).consumed \in Int
            /\ Upto(n).consumed \in 0..FirstLoss /\ Upto(n).consumed \in Int
        BY <2>3, <3>6, ChainAssumption DEF ProjectionMatchesLedger, from, Positions
      <4>3. projection.consumed + (Upto(n).consumed - Upto(from).consumed) = Upto(n).consumed
        BY <4>2
      <4>. QED
        BY <3>3, <3>6, <4>1, <4>2, <4>3, OrderOfContracts DEF ProjectionTyped, ProjectionMatchesLedger
    <3>. QED
      BY <2>1, <3>4, <3>5, <3>6, OrderOfContracts
  <2>. QED
    BY <2>4, <2>5
<1>3. ASSUME NEW w \in Workers, ledger' = ledger, markReconciled(w)
      PROVE  ProjectionTyped' /\ ProjectionMatchesLedger'
  <2> DEFINE cmd == submissions[workers[w].key].cmd
             fees == projection.fees + calculateWaterfall(cmd, cmd).servicing
  <2>1. projection' = [projection EXCEPT !.fees = fees] /\ indexed' = indexed
    BY <1>3 DEF markReconciled
  <2>2. cmd \in Command
    BY <1>3 DEF markReconciled, RowsTyped, HoldsSubmitted, Submitted, Submission
  <2>3. calculateWaterfall(cmd, cmd).servicing \in Nat
    <3>1. cmd.outstanding \in Nat /\ cmd.consumed \in 0..FirstLoss
      BY <2>2, ChainAssumption DEF Command
    <3>. QED
      BY <2>2, <3>1, Allocated
  <2>4. fees \in Nat
    BY <2>3 DEF ProjectionTyped
  <2> HIDE DEF fees
  <2>5. ProjectionTyped'
    BY <2>1, <2>4 DEF ProjectionTyped
  <2>6. \A contract \in ContractNames : Upto(indexed[contract])' = Upto(indexed[contract])
    BY <1>3, <2>1 DEF Upto
  <2>. QED
    BY <2>1, <2>5, <2>6, OrderOfContracts DEF ProjectionTyped, ProjectionMatchesLedger
<1>. QED
  BY <1>1, <1>2, <1>3, ProjectionSteps

(* The claim's status is well-typed at the start.                          *)
LEMMA ClaimInit == Init => ClaimTyped
BY DEF Init, ChainInit, ClaimTyped

(* A step keeps the claim's status well-typed.                             *)
LEMMA ClaimStep ==
  ASSUME ClaimTyped, [Next]_vars
  PROVE  ClaimTyped'
<1>1. ASSUME NEW q \in Requests, Request(q)
      PROVE  ClaimTyped'
  <2>1. claim' = claim \/ claim' = [claim EXCEPT !.version = @ + 1]
    BY <1>1
    DEF Request, apiVars, loadWaterfallPosition, ReplayRun, ReplayEvent, PrepareRun,
      RefuseRun, findByResultHash, MarkStatus, markSubmitting, submit, markPrepared, markFailed,
      markAmbiguous, Answered, NoAnswer, existingRun, markSubmitted, Crash
  <2>. QED
    BY <2>1 DEF ClaimTyped
<1>2. ASSUME NEW w \in Workers, Cycle(w)
      PROVE  ClaimTyped'
  <2>1. claim' = claim \/ \E state \in {"FUNDED", "SETTLING", "REPAID", "SHORTFALL", "PAUSED"} : ClaimSet(state)
    BY <1>2
    DEF Cycle, BeginIndex, commitEvents, CycleFails, listPendingExpectations, EventMissing,
      readClaimState, readWaterfallState, markReconciled, markReconciledTooLate, recordFinding,
      EndCycle, expectedClaimState
  <2>. QED
    BY <2>1 DEF ClaimSet, ClaimTyped
<1>3. CASE UNCHANGED claim
  BY <1>3 DEF ClaimTyped
<1>. QED
  BY <1>1, <1>2, <1>3 DEF Next, Network, Land, Expire, vars, apiVars

-----------------------------------------------------------------------------
(* Type correctness, and the projection.                                   *)

Typed ==
  /\ ChainTyped /\ IndexTyped /\ RowsTyped /\ JournalTyped /\ RequestsTyped /\ RequestsKept
  /\ ProjectionTyped /\ ClaimTyped /\ ProjectionMatchesLedger

(* The inductive type invariant holds at the start.                        *)
LEMMA TypedInit == Init => Typed
BY ChainTypeInit, IndexTypeInit, RowsTypeInit, JournalTypeInit, RequestsTypeInit, ProjectionInit,
   ClaimInit DEF Typed

(* A step keeps the inductive type invariant.                              *)
LEMMA TypedStep == Typed /\ [Next]_vars => Typed'
BY ChainTypeStep, IndexTypeStep, RowsTypeStep, JournalTypeStep, RequestsTypeStep, ProjectionStep,
   ClaimStep DEF Typed

(* The inductive type invariant holds always.                              *)
LEMMA AlwaysTyped == Spec => []Typed
BY TypedInit, TypedStep, PTL DEF Spec

(* The variables keep their types: whatever the cycles and requests do, no *)
(* amount of the projection or of the chain leaves its range.              *)
THEOREM SettlementTypeCorrect == Spec => []SettlementTypeOK
<1>1. Typed => SettlementTypeOK
  <2> SUFFICES ASSUME Typed PROVE SettlementTypeOK
    OBVIOUS
  <2>1. {p.state : p \in Positions} = {"FUNDED", "SETTLING", "REPAID", "SHORTFALL"}
    <3>1. \A state \in {"FUNDED", "SETTLING", "REPAID", "SHORTFALL"} :
            [state |-> state, outstanding |-> 0, consumed |-> 0] \in Positions
      BY ChainAssumption DEF Positions
    <3>. QED
      BY <3>1 DEF Positions
  <2>2. indexed \in [ContractNames -> 0..Len(ledger)]
    BY DEF Typed, IndexTyped, ChainTyped
  <2>3. \A k \in Keys : submissions[k] # None =>
          submissions[k] \in Submission /\ submissions[k].tx \in DOMAIN ledger
    BY DEF Typed, RowsTyped, ChainTyped
  <2>4. position \in Positions /\ inflight \subseteq Transactions
        /\ ledger \in Seq([id : Nat, key : Keys, cmd : Command, after : Positions])
    BY DEF Typed, ChainTyped, Entry
  <2>5. /\ projection.state \in {"FUNDED", "SETTLING", "REPAID", "SHORTFALL"}
        /\ projection.outstanding \in 0..Principal /\ projection.consumed \in 0..FirstLoss
        /\ projection.fees \in Nat
        /\ claim.state \in {"FUNDED", "SETTLING", "REPAID", "SHORTFALL", "PAUSED"}
        /\ claim.version \in Nat
        /\ results \in [Events -> Keys \cup {None}]
    BY DEF Typed, ProjectionTyped, ClaimTyped, JournalTyped
  <2>. QED
    BY <2>1, <2>2, <2>3, <2>4, <2>5 DEF SettlementTypeOK
<1>. QED
  BY <1>1, AlwaysTyped, PTL

(* Each contract's share of the projection is what the chain was after the *)
(* last settlement indexed from that contract, for any number of cycles    *)
(* that overlap, repeat each other's work and fail half-way.               *)
THEOREM ProjectionFollowsLedger == Spec => []ProjectionMatchesLedger
BY AlwaysTyped, PTL DEF Typed

-----------------------------------------------------------------------------
(* What a key stands for on the chain.                                     *)

KeysKept ==
  /\ \A tx \in inflight : Kept(tx.key, tx.cmd)
  /\ \A i \in 1..Len(ledger) : Kept(ledger[i].key, ledger[i].cmd)
  /\ \A i, j \in 1..Len(ledger) : ledger[i].cmd = ledger[j].cmd => i = j

(* A step keeps every key with at most one entry of the ledger that is not *)
(* in conflict with its record.                                            *)
LEMMA KeysKeptStep ==
  ASSUME Typed, KeysKept, [Next]_vars
  PROVE  KeysKept'
<1>0. Len(ledger) \in Nat /\ ledger \in Seq(Entry) /\ inflight \subseteq Transactions
  BY DEF Typed, ChainTyped
<1>1. \A k, cmd : k \in Keys /\ Kept(k, cmd) => KeptAfter(k, cmd)
  BY RecordsStay DEF Typed
<1>2. /\ \A tx \in inflight : KeptAfter(tx.key, tx.cmd)
      /\ \A i \in 1..Len(ledger) : KeptAfter(ledger[i].key, ledger[i].cmd)
  <2>1. \A tx \in inflight : tx.key \in Keys
    BY <1>0 DEF Transactions
  <2>2. \A i \in 1..Len(ledger) : ledger[i] \in Entry
    BY <1>0
  <2>3. \A i \in 1..Len(ledger) : ledger[i].key \in Keys
    BY <2>2 DEF Entry
  <2>. QED
    BY <1>1, <2>1, <2>3 DEF KeysKept
<1>3. ASSUME inflight' \subseteq inflight, ledger' = ledger
      PROVE  KeysKept'
  BY <1>2, <1>3 DEF KeysKept, Kept, KeptAfter
<1>4. ASSUME NEW q \in Requests, submit(q)
      PROVE  KeysKept'
  <2> DEFINE tx == [id |-> requests[q].id, key |-> requests[q].key, cmd |-> requests[q].cmd]
  <2>1. requests[q].pc = "submit" /\ ledger' = ledger /\ records' = records
        /\ (inflight' = inflight \/ inflight' = inflight \cup {tx})
    BY <1>4 DEF submit, journalVars
  <2>2. KeptAfter(tx.key, tx.cmd)
    BY <2>1 DEF Typed, RequestsKept, PreparedSteps, RequestSteps, Kept, KeptAfter
  <2> HIDE DEF tx
  <2>. QED
    BY <1>2, <2>1, <2>2 DEF KeysKept, Kept, KeptAfter
<1>5. ASSUME NEW tx \in inflight, Land(tx), Accepts(tx.cmd)
      PROVE  KeysKept'
  <2> DEFINE entry == [id |-> tx.id, key |-> tx.key, cmd |-> tx.cmd, after |-> After(tx.cmd)]
  <2>1. inflight' = {} /\ ledger' = Append(ledger, entry)
    BY <1>5 DEF Land
  <2>2. KeptAfter(entry.key, entry.cmd)
    BY <1>2
  <2>3. \A i \in 1..Len(ledger) : ledger[i].cmd # entry.cmd
    BY <1>0, <1>5 DEF Accepts, ExecutedCommands
  <2> HIDE DEF entry
  <2>4. /\ Len(ledger') = Len(ledger) + 1 /\ ledger'[Len(ledger) + 1] = entry
        /\ \A i \in 1..Len(ledger) : ledger'[i] = ledger[i]
    BY <1>0, <2>1
  <2>5. \A i \in 1..Len(ledger') : i \in 1..Len(ledger) \/ i = Len(ledger) + 1
    BY <1>0, <2>4
  <2>. QED
    BY <1>2, <2>1, <2>2, <2>3, <2>4, <2>5 DEF KeysKept, Kept, KeptAfter
<1>6. ASSUME NEW tx \in inflight, Land(tx), ~ Accepts(tx.cmd)
      PROVE  KeysKept'
  BY <1>3, <1>6 DEF Land
<1>7. ASSUME NEW tx \in inflight, Expire(tx)
      PROVE  KeysKept'
  BY <1>3, <1>7 DEF Expire
<1>8. CASE UNCHANGED chainVars
  BY <1>3, <1>8 DEF chainVars
<1>. QED
  BY <1>4, <1>5, <1>6, <1>7, <1>8, ChainSteps

(* A key settles at most once, however often and with whatever content it  *)
(* is used, and its idempotency record is the record of what it settled.   *)
THEOREM KeysSettleOnce == Spec => []KeySettlesOnce
<1>1. Init => KeysKept
  BY DEF Init, ChainInit, KeysKept
<1>2. Typed /\ KeysKept /\ [Next]_vars => KeysKept'
  BY KeysKeptStep
<1>3. Typed /\ KeysKept => KeySettlesOnce
  BY DEF Typed, ChainTyped, KeysKept, Kept, KeySettlesOnce
<1>. QED
  BY <1>1, <1>2, <1>3, AlwaysTyped, PTL DEF Spec

-----------------------------------------------------------------------------
(* What is in flight was simulated on the position it will land on.        *)

PreparedForPosition ==
  /\ position = Upto(Len(ledger))
  /\ \A tx \in inflight : calculateWaterfall(tx.cmd, position) = calculateWaterfall(tx.cmd, tx.cmd)
  /\ \A i \in 1..Len(ledger) :
       calculateWaterfall(ledger[i].cmd, Upto(i - 1)) = calculateWaterfall(ledger[i].cmd, ledger[i].cmd)

(* A step keeps every command that may still land prepared for the         *)
(* position it will find, or refused by it.                                *)
LEMMA PreparedStep ==
  ASSUME Typed, PreparedForPosition, [Next]_vars
  PROVE  PreparedForPosition'
<1>0. Len(ledger) \in Nat /\ ledger \in Seq(Entry)
  BY DEF Typed, ChainTyped
<1>1. ASSUME inflight' \subseteq inflight, ledger' = ledger, position' = position
      PROVE  PreparedForPosition'
  <2>1. (position = Upto(Len(ledger)))'
    BY <1>1 DEF PreparedForPosition, Upto
  <2>2. (\A tx \in inflight :
           calculateWaterfall(tx.cmd, position) = calculateWaterfall(tx.cmd, tx.cmd))'
    BY <1>1 DEF PreparedForPosition
  <2>3. (\A i \in 1..Len(ledger) :
           calculateWaterfall(ledger[i].cmd, Upto(i - 1))
             = calculateWaterfall(ledger[i].cmd, ledger[i].cmd))'
    BY <1>1 DEF PreparedForPosition, Upto
  <2>. QED
    BY <2>1, <2>2, <2>3 DEF PreparedForPosition
<1>2. ASSUME NEW q \in Requests, submit(q)
      PROVE  PreparedForPosition'
  <2> DEFINE tx == [id |-> requests[q].id, key |-> requests[q].key, cmd |-> requests[q].cmd]
  <2>1. /\ ledger' = ledger /\ position' = position
        /\ \/ inflight' = inflight
           \/ SimulationMatches(tx.cmd) /\ inflight' = inflight \cup {tx}
    BY <1>2 DEF submit
  <2>2. SimulationMatches(tx.cmd) =>
          calculateWaterfall(tx.cmd, position) = calculateWaterfall(tx.cmd, tx.cmd)
    BY DEF SimulationMatches
  <2> HIDE DEF tx
  <2>3. \A sent \in inflight' :
          calculateWaterfall(sent.cmd, position) = calculateWaterfall(sent.cmd, sent.cmd)
    BY <2>1, <2>2 DEF PreparedForPosition
  <2>4. (position = Upto(Len(ledger)))'
    BY <2>1 DEF PreparedForPosition, Upto
  <2>5. (\A i \in 1..Len(ledger) :
           calculateWaterfall(ledger[i].cmd, Upto(i - 1))
             = calculateWaterfall(ledger[i].cmd, ledger[i].cmd))'
    BY <2>1 DEF PreparedForPosition, Upto
  <2>. QED
    BY <2>1, <2>3, <2>4, <2>5 DEF PreparedForPosition
<1>3. ASSUME NEW tx \in inflight, Land(tx), Accepts(tx.cmd)
      PROVE  PreparedForPosition'
  <2> DEFINE entry == [id |-> tx.id, key |-> tx.key, cmd |-> tx.cmd, after |-> After(tx.cmd)]
             n == Len(ledger)
  <2>1. inflight' = {} /\ ledger' = Append(ledger, entry) /\ position' = entry.after
    BY <1>3 DEF Land
  <2>2. calculateWaterfall(entry.cmd, Upto(n)) = calculateWaterfall(entry.cmd, entry.cmd)
    BY DEF PreparedForPosition
  <2> HIDE DEF entry
  <2>3. /\ Len(ledger') = n + 1 /\ ledger'[n + 1] = entry
        /\ \A i \in 1..n : ledger'[i] = ledger[i]
    BY <1>0, <2>1
  <2> DEFINE UptoAfter(i) == IF i = 0 THEN Funded ELSE ledger'[i].after
  <2>4. \A i \in 1..(n + 1) : UptoAfter(i - 1) = Upto(i - 1)
    BY <1>0, <2>3 DEF Upto
  <2>5. \A i \in 1..(n + 1) :
          calculateWaterfall(ledger'[i].cmd, UptoAfter(i - 1)) = calculateWaterfall(ledger'[i].cmd, ledger'[i].cmd)
    <3> HIDE DEF UptoAfter
    <3>1. \A i \in 1..n :
            calculateWaterfall(ledger'[i].cmd, UptoAfter(i - 1)) = calculateWaterfall(ledger'[i].cmd, ledger'[i].cmd)
      BY <1>0, <2>3, <2>4 DEF PreparedForPosition
    <3>2. calculateWaterfall(ledger'[n + 1].cmd, UptoAfter(n)) = calculateWaterfall(ledger'[n + 1].cmd, ledger'[n + 1].cmd)
      BY <1>0, <2>2, <2>3, <2>4
    <3>3. \A i \in 1..(n + 1) : i \in 1..n \/ (i = n + 1 /\ i - 1 = n)
      BY <1>0
    <3>4. ASSUME NEW i \in 1..(n + 1)
          PROVE  calculateWaterfall(ledger'[i].cmd, UptoAfter(i - 1)) = calculateWaterfall(ledger'[i].cmd, ledger'[i].cmd)
      <4>1. CASE i \in 1..n
        BY <3>1, <4>1
      <4>2. CASE i = n + 1 /\ i - 1 = n
        BY <3>2, <4>2
      <4>. QED
        BY <3>3, <4>1, <4>2
    <3>. QED
      BY <3>4
  <2>6. position' = UptoAfter(n + 1)
    BY <1>0, <2>1, <2>3
  <2>7. (position = Upto(Len(ledger)))'
    BY <2>3, <2>6 DEF Upto
  <2>8. (\A sent \in inflight :
           calculateWaterfall(sent.cmd, position) = calculateWaterfall(sent.cmd, sent.cmd))'
    BY <2>1
  <2>9. (\A i \in 1..Len(ledger) :
           calculateWaterfall(ledger[i].cmd, Upto(i - 1))
             = calculateWaterfall(ledger[i].cmd, ledger[i].cmd))'
    BY <2>3, <2>5 DEF Upto
  <2>. QED
    BY <2>7, <2>8, <2>9 DEF PreparedForPosition
<1>4. ASSUME NEW tx \in inflight, Land(tx), ~ Accepts(tx.cmd)
      PROVE  PreparedForPosition'
  BY <1>1, <1>4 DEF Land
<1>5. ASSUME NEW tx \in inflight, Expire(tx)
      PROVE  PreparedForPosition'
  BY <1>1, <1>5 DEF Expire
<1>6. CASE UNCHANGED chainVars
  BY <1>1, <1>6 DEF chainVars
<1>. QED
  BY <1>2, <1>3, <1>4, <1>5, <1>6, ChainSteps

(* The chain divides a settlement the way the API computed it, whatever    *)
(* happened to the position between the load and the inclusion.            *)
THEOREM ExecutedAsComputed == Spec => []ExecutedAsPrepared
<1>1. Init => PreparedForPosition
  BY DEF Init, ChainInit, PreparedForPosition, Upto
<1>2. Typed /\ PreparedForPosition /\ [Next]_vars => PreparedForPosition'
  BY PreparedStep
<1>3. Typed /\ PreparedForPosition => ExecutedAsPrepared
  BY DEF Typed, ChainTyped, PreparedForPosition, ExecutedAsPrepared
<1>. QED
  BY <1>1, <1>2, <1>3, AlwaysTyped, PTL DEF Spec

-----------------------------------------------------------------------------
(* A call's transaction is found again by the call's own identity.         *)

(* Entry or transaction x is that of every request with its identity.      *)
OfItsCall(x) ==
  /\ x.id <= calls
  /\ \A q \in Requests : requests[q].pc # "idle" /\ requests[q].id = x.id => requests[q].cmd = x.cmd

CallsIdentify ==
  /\ \A q, u \in Requests :
       requests[q].pc # "idle" /\ requests[u].pc # "idle" /\ requests[q].id = requests[u].id => q = u
  /\ \A tx \in inflight : OfItsCall(tx)
  /\ \A i \in 1..Len(ledger) : OfItsCall(ledger[i])

(* A request that has found its transaction holds one of its own command.  *)
RequestsLocated ==
  \A q \in Requests : requests[q].pc \in {"existing", "insert"} =>
    ledger[requests[q].tx].cmd = requests[q].cmd

(* What a move leaves of a request's identity.                             *)
LEMMA MoveKeepsCall ==
  ASSUME NEW r \in RequestState, NEW v, RequestMove(r, v)
  PROVE  \/ IsCalled(v) /\ calls' = calls + 1
         \/ v.pc = "idle" /\ calls' = calls
         \/ v.id = r.id /\ v.cmd = r.cmd /\ r.pc # "idle" /\ calls' = calls
<1>1. CASE IsCalled(v) /\ calls' = calls + 1
  BY <1>1
<1>2. CASE v = IdleRequest /\ calls' = calls
  BY <1>2 DEF IdleRequest
<1>3. ASSUME r.pc # "idle", calls' = calls, NEW pc, NEW seen, NEW tx,
             \/ v = [r EXCEPT !.pc = pc] \/ v = [r EXCEPT !.pc = pc, !.seen = seen]
             \/ v = [r EXCEPT !.pc = pc, !.tx = tx]
      PROVE  v.id = r.id /\ v.cmd = r.cmd /\ r.pc # "idle" /\ calls' = calls
  BY <1>3 DEF RequestState
<1>4. CASE IsPrepared(r, v) /\ calls' = calls
  BY <1>3, <1>4 DEF IsPrepared
<1>5. CASE IsLocated(r, v) /\ calls' = calls
  BY <1>3, <1>5 DEF IsLocated
<1>6. CASE GoesOn(r, v) /\ calls' = calls
  BY <1>3, <1>6 DEF GoesOn, PreparedSteps
<1>7. CASE r.pc \in {"prepare", "submit"} /\ calls' = calls
           /\ \E pc : v = [r EXCEPT !.pc = pc]
  BY <1>3, <1>7
<1>. QED
  BY <1>1, <1>2, <1>4, <1>5, <1>6, <1>7 DEF RequestMove

(* A step gives a new call a number no other call has.                     *)
LEMMA CallsStep ==
  ASSUME Typed, CallsIdentify, [Next]_vars
  PROVE  CallsIdentify'
<1>0. /\ Len(ledger) \in Nat /\ ledger \in Seq(Entry) /\ inflight \subseteq Transactions
      /\ calls \in Nat /\ requests \in [Requests -> RequestState]
  BY DEF Typed, ChainTyped, RequestsTyped
<1>1. \A i \in 1..Len(ledger) : ledger[i].id \in Nat
  <2>1. \A i \in 1..Len(ledger) : ledger[i] \in Entry
    BY <1>0
  <2>. QED
    BY <2>1 DEF Entry
<1>2. \A tx \in inflight : tx.id \in Nat
  BY <1>0 DEF Transactions
<1>3. \A q \in Requests : requests[q].pc # "idle" => requests[q].id \in Nat /\ requests[q].id <= calls
  BY <1>0 DEF Typed, RequestsTyped
<1> DEFINE OfItsCallAfter(x) ==
             /\ x.id <= calls'
             /\ \A q \in Requests : requests'[q].pc # "idle" /\ requests'[q].id = x.id =>
                  requests'[q].cmd = x.cmd
           Distinct == \A q, u \in Requests :
             requests'[q].pc # "idle" /\ requests'[u].pc # "idle" /\ requests'[q].id = requests'[u].id
               => q = u
           Carried == \A x : x.id \in Nat /\ OfItsCall(x) => OfItsCallAfter(x)
<1>4. Distinct /\ Carried
  <2>1. CASE UNCHANGED <<requests, calls>>
    BY <2>1 DEF CallsIdentify, OfItsCall
  <2>2. ASSUME NEW q \in Requests, NEW v, requests' = [requests EXCEPT ![q] = v],
               RequestMove(requests[q], v)
        PROVE  Distinct /\ Carried
    <3> DEFINE r == requests[q]
    <3>1. /\ requests'[q] = v
          /\ \A u \in Requests : u # q => requests'[u] = requests[u]
      BY <1>0, <2>2
    <3>2. CASE IsCalled(v) /\ calls' = calls + 1
      BY <1>0, <1>3, <3>1, <3>2 DEF CallsIdentify, OfItsCall, IsCalled
    <3>3. CASE v.pc = "idle" /\ calls' = calls
      BY <1>0, <3>1, <3>3 DEF CallsIdentify, OfItsCall
    <3>4. CASE v.id = r.id /\ v.cmd = r.cmd /\ r.pc # "idle" /\ calls' = calls
      BY <1>0, <3>1, <3>4 DEF CallsIdentify, OfItsCall
    <3>. QED
      BY <1>0, <2>2, <3>2, <3>3, <3>4, MoveKeepsCall
  <2>. QED
    BY <2>1, <2>2, RequestsStep DEF Typed
<1>5. \A tx \in inflight' : OfItsCallAfter(tx)
  <2>1. \A tx \in inflight : OfItsCallAfter(tx)
    BY <1>2, <1>4 DEF CallsIdentify
  <2>2. ASSUME NEW q \in Requests, submit(q)
        PROVE  \A tx \in inflight' : OfItsCallAfter(tx)
    <3> DEFINE new == [id |-> requests[q].id, key |-> requests[q].key, cmd |-> requests[q].cmd]
    <3>1. requests[q].pc = "submit" /\ (inflight' = inflight \/ inflight' = inflight \cup {new})
      BY <2>2 DEF submit
    <3>2. OfItsCall(new)
      BY <1>3, <3>1 DEF OfItsCall, CallsIdentify
    <3>3. new.id \in Nat
      BY <1>3, <3>1
    <3> HIDE DEF new
    <3>. QED
      BY <1>4, <2>1, <3>1, <3>2, <3>3
  <2>3. CASE inflight' \subseteq inflight
    BY <2>1, <2>3
  <2>. QED
    BY <2>2, <2>3, ChainSteps DEF chainVars, Land, Expire
<1>6. \A i \in 1..Len(ledger') : OfItsCallAfter(ledger'[i])
  <2>1. \A i \in 1..Len(ledger) : OfItsCallAfter(ledger[i])
    BY <1>1, <1>4 DEF CallsIdentify
  <2>2. CASE ledger' = ledger
    BY <2>1, <2>2
  <2>3. ASSUME NEW tx \in inflight, Land(tx), Accepts(tx.cmd)
        PROVE  \A i \in 1..Len(ledger') : OfItsCallAfter(ledger'[i])
    <3> DEFINE entry == [id |-> tx.id, key |-> tx.key, cmd |-> tx.cmd, after |-> After(tx.cmd)]
    <3>1. OfItsCallAfter(tx)
      BY <1>2, <1>4 DEF CallsIdentify
    <3>2. OfItsCallAfter(entry)
      BY <3>1
    <3>3. ledger' = Append(ledger, entry)
      BY <2>3 DEF Land
    <3> HIDE DEF entry, OfItsCallAfter
    <3>4. /\ Len(ledger') = Len(ledger) + 1 /\ ledger'[Len(ledger) + 1] = entry
          /\ \A i \in 1..Len(ledger) : ledger'[i] = ledger[i]
      BY <1>0, <3>3
    <3>5. \A i \in 1..Len(ledger') : i \in 1..Len(ledger) \/ i = Len(ledger) + 1
      BY <1>0, <3>4
    <3>. QED
      BY <2>1, <3>2, <3>4, <3>5
  <2>. QED
    BY <2>2, <2>3, ChainSteps DEF chainVars, Land, Expire, submit
<1>. QED
  BY <1>4, <1>5, <1>6 DEF CallsIdentify, OfItsCall

(* A step keeps what a request has located in the ledger in its place.     *)
LEMMA LocatedStep ==
  ASSUME Typed, CallsIdentify, RequestsLocated, [Next]_vars
  PROVE  RequestsLocated'
<1>0. requests \in [Requests -> RequestState]
  BY DEF Typed, RequestsTyped
<1>1. \A i \in 1..Len(ledger) : ledger'[i] = ledger[i]
  BY LedgerStep DEF Typed
<1> DEFINE Right(v) == v.pc \in {"existing", "insert"} => ledger'[v.tx].cmd = v.cmd
<1>2. \A q \in Requests : Right(requests[q])
  BY <1>1 DEF Typed, RequestsTyped, RequestsLocated
<1>3. ASSUME NEW q \in Requests, NEW v, RequestMove(requests[q], v)
      PROVE  Right(v)
  <2> DEFINE r == requests[q]
  <2>0. Right(r) /\ r \in RequestState /\ RequestMove(r, v)
    BY <1>0, <1>2, <1>3
  <2>1. r.pc = "await" => \A i \in 1..Len(ledger) : ledger[i].id = r.id => ledger[i].cmd = r.cmd
    BY DEF CallsIdentify, OfItsCall
  <2> HIDE DEF r
  <2>2. CASE IsLocated(r, v)
    <3>1. PICK i \in 1..Len(ledger) :
             ledger[i].cmd = r.cmd /\ v = [r EXCEPT !.pc = "existing", !.tx = i]
      BY <2>1, <2>2 DEF IsLocated
    <3>2. v.tx = i /\ v.cmd = r.cmd
      BY <2>0, <3>1 DEF RequestState
    <3>. QED
      BY <1>1, <3>1, <3>2
  <2>3. CASE GoesOn(r, v)
    <3>1. PICK pc : /\ pc # "existing" /\ (pc = "insert" => r.pc = "existing")
                    /\ v = [r EXCEPT !.pc = pc]
      BY <2>3 DEF GoesOn
    <3>2. v.pc = pc /\ v.tx = r.tx /\ v.cmd = r.cmd
      BY <2>0, <3>1 DEF RequestState
    <3>. QED
      BY <2>0, <3>1, <3>2
  <2>4. CASE v.pc \notin {"existing", "insert"}
    BY <2>4
  <2>5. CASE IsCalled(v) \/ v = IdleRequest \/ IsPrepared(r, v)
             \/ v = [r EXCEPT !.pc = "conflict"] \/ v = [r EXCEPT !.pc = "await"]
    <3>1. v.pc \in {"prepare", "idle", "lookup", "conflict", "await"}
      <4>1. CASE IsCalled(v) \/ v = IdleRequest
        BY <4>1 DEF IsCalled, IdleRequest
      <4>2. CASE IsPrepared(r, v)
        BY <2>0, <4>2 DEF IsPrepared, RequestState
      <4>3. CASE v = [r EXCEPT !.pc = "conflict"] \/ v = [r EXCEPT !.pc = "await"]
        BY <2>0, <4>3 DEF RequestState
      <4>. QED
        BY <2>5, <4>1, <4>2, <4>3
    <3>. QED
      BY <3>1
  <2>. QED
    BY <2>0, <2>2, <2>3, <2>5 DEF RequestMove
<1>4. \A q \in Requests : Right(requests'[q])
  <2> HIDE DEF Right
  <2>. QED
    BY <1>0, <1>2, <1>3, RequestsStep DEF Typed
<1>. QED
  BY <1>4 DEF RequestsLocated

(* A step records only what was executed.                                  *)
LEMMA RecordedStep ==
  ASSUME Typed, RequestsLocated, RecordedWasExecuted, [Next]_vars
  PROVE  RecordedWasExecuted'
<1>0. \A i \in 1..Len(ledger) : ledger'[i] = ledger[i]
  BY LedgerStep DEF Typed
<1>1. \A k \in Keys : submissions[k] # None =>
        /\ submissions'[k] # None
        /\ submissions'[k].cmd = submissions[k].cmd /\ submissions'[k].tx = submissions[k].tx
  BY SubmissionsStay DEF Typed
<1>2. /\ submissions \in [Keys -> Submission \cup {None}]
      /\ \A k \in Keys : submissions[k] # None => submissions[k].tx \in 1..Len(ledger)
      /\ results \in [Events -> Keys \cup {None}]
  BY DEF Typed, RowsTyped, JournalTyped
<1>3. ASSUME NEW q \in Requests, markSubmitted(q), submissions[requests[q].key] = None
      PROVE  RecordedWasExecuted'
  <2> DEFINE r == requests[q]
             row == [cmd |-> r.cmd, tx |-> r.tx, status |-> "PENDING"]
             e == r.cmd.event
  <2>1. /\ r.key \in Keys /\ r.cmd \in Command /\ e \in Events /\ r.tx \in 1..Len(ledger)
        /\ ledger[r.tx].cmd = r.cmd
    BY <1>3 DEF markSubmitted, Typed, RequestsTyped, RequestsLocated, Command
  <2>2. /\ submissions' = [submissions EXCEPT ![r.key] = row]
        /\ results' = [results EXCEPT ![e] = IF results[e] = None THEN r.key ELSE results[e]]
        /\ ledger' = ledger
    BY <1>3 DEF markSubmitted, chainVars
  <2>3. row # None
    BY <2>1, NoSubmissionAssumption DEF Submission, Typed, ChainTyped
  <2>4. row.cmd = r.cmd /\ row.tx = r.tx
    OBVIOUS
  <2> HIDE DEF r, row, e
  <2>5. \A k \in Keys : submissions'[k] # None => ledger'[submissions'[k].tx].cmd = submissions'[k].cmd
    BY <1>2, <2>1, <2>2, <2>4 DEF RecordedWasExecuted
  <2>6. submissions'[r.key] # None /\ submissions'[r.key].cmd.event = e
    BY <1>2, <2>1, <2>2, <2>3, <2>4 DEF e
  <2>7. \A f \in Events : results'[f] # None =>
          submissions'[results'[f]] # None /\ submissions'[results'[f]].cmd.event = f
    <3>1. ASSUME NEW f \in Events, results'[f] = results[f], results[f] # None
          PROVE  submissions'[results'[f]] # None /\ submissions'[results'[f]].cmd.event = f
      BY <1>1, <1>2, <3>1 DEF RecordedWasExecuted, Recorded
    <3>. QED
      BY <1>2, <2>1, <2>2, <2>6, <3>1
  <2>. QED
    BY <2>5, <2>7 DEF RecordedWasExecuted, Recorded
<1>4. ASSUME \A k \in Keys : submissions[k] = None => submissions'[k] = None, results' = results
      PROVE  RecordedWasExecuted'
  <2>1. \A k \in Keys : submissions'[k] # None => ledger'[submissions'[k].tx].cmd = submissions'[k].cmd
    BY <1>0, <1>1, <1>2, <1>4 DEF RecordedWasExecuted
  <2>2. \A e \in Events : results'[e] # None =>
          submissions'[results'[e]] # None /\ submissions'[results'[e]].cmd.event = e
    BY <1>1, <1>2, <1>4 DEF RecordedWasExecuted, Recorded
  <2>. QED
    BY <2>1, <2>2 DEF RecordedWasExecuted, Recorded
<1>5. ASSUME NEW q \in Requests, markSubmitted(q), submissions[requests[q].key] # None
      PROVE  RecordedWasExecuted'
  BY <1>4, <1>5 DEF markSubmitted, journalVars
<1>6. \/ \E q \in Requests : markSubmitted(q)
      \/ /\ results' = results
         /\ \/ UNCHANGED submissions
            \/ \E w \in Workers, status \in {"RECONCILED", "MISMATCH"} :
                 workers[w].pc = "conclude" /\ Conclude(workers[w].key, status)
  <2>1. ASSUME NEW q \in Requests, Request(q)
        PROVE  markSubmitted(q) \/ UNCHANGED <<results, submissions>>
    BY <2>1
    DEF Request, apiVars, journalVars, loadWaterfallPosition, ReplayRun, ReplayEvent, PrepareRun,
      RefuseRun, findByResultHash, MarkStatus, markSubmitting, submit, markPrepared, markFailed,
      markAmbiguous, Answered, NoAnswer, existingRun, Crash
  <2>. QED
    BY <2>1, CycleKeepsSubmissions
    DEF Next, Network, Land, Expire, vars, requestVars, journalVars, apiVars
<1>7. ASSUME NEW w \in Workers, NEW status, workers[w].pc = "conclude",
             Conclude(workers[w].key, status)
      PROVE  \A k \in Keys : submissions[k] = None => submissions'[k] = None
  BY <1>2, <1>7 DEF Conclude, Typed, RowsTyped, HoldsSubmitted, Submitted
<1>. QED
  BY <1>3, <1>4, <1>5, <1>6, <1>7

(* A submission names a transaction that executed its own command, and a   *)
(* recorded result a submission of its event: no call is answered with     *)
(* another call's outcome.                                                 *)
THEOREM RecordsWereExecuted == Spec => []RecordedWasExecuted
<1>1. Init => CallsIdentify /\ RequestsLocated
  BY DEF Init, ChainInit, CallsIdentify, RequestsLocated, IdleRequest
<1>2. Init => RecordedWasExecuted
  BY DEF Init, ChainInit, RecordedWasExecuted, Recorded
<1>3. Typed /\ CallsIdentify /\ RequestsLocated /\ [Next]_vars => CallsIdentify' /\ RequestsLocated'
  BY CallsStep, LocatedStep
<1>4. Typed /\ RequestsLocated /\ RecordedWasExecuted /\ [Next]_vars => RecordedWasExecuted'
  BY RecordedStep
<1>. QED
  BY <1>1, <1>2, <1>3, <1>4, AlwaysTyped, PTL DEF Spec

-----------------------------------------------------------------------------
(* The fees.                                                               *)

(* The fees a table of submissions accounts for, by key.                   *)
FeesFrom(rows) ==
  [k \in Keys |-> IF rows[k] = None \/ rows[k].status = "PENDING" THEN 0 ELSE ServicingPaid(rows[k].cmd)]

(* What a closed submission adds to the fees is a natural number.          *)
LEMMA FeesAreNatural ==
  ASSUME NEW rows \in [Keys -> Submission \cup {None}], NEW k \in Keys
  PROVE  FeesFrom(rows)[k] \in Nat
<1>1. CASE rows[k] = None \/ rows[k].status = "PENDING"
  BY <1>1 DEF FeesFrom
<1>2. CASE ~ (rows[k] = None \/ rows[k].status = "PENDING")
  <2> DEFINE cmd == rows[k].cmd
  <2>1. cmd \in Command
    BY <1>2 DEF Submission
  <2>2. cmd.outstanding \in Nat /\ cmd.consumed \in 0..FirstLoss
    BY <2>1, ChainAssumption DEF Command
  <2>3. calculateWaterfall(cmd, cmd).servicing \in Nat
    BY <2>1, <2>2, Allocated
  <2>. QED
    BY <1>2, <2>3 DEF FeesFrom, ServicingPaid
<1>. QED
  BY <1>1, <1>2

(* The fee invariant before and after a step, as sums SumLemmas speaks of. *)
LEMMA FeesSum ==
  /\ FeesCountedOnce <=> projection.fees <= SumFunctionOnSet(FeesFrom(submissions), Keys)
  /\ FeesCountedOnce' <=> projection'.fees <= SumFunctionOnSet(FeesFrom(submissions'), Keys)
<1>1. [k \in Keys |-> FeesOf(k)] = FeesFrom(submissions)
  BY DEF FeesFrom, FeesOf, Pending
<1>2. [k \in Keys |-> FeesOf(k)]' = FeesFrom(submissions')
  BY DEF FeesFrom, FeesOf, Pending, ServicingPaid
<1>3. DOMAIN FeesFrom(submissions) = Keys /\ DOMAIN FeesFrom(submissions') = Keys
  BY DEF FeesFrom
<1>. QED
  BY <1>1, <1>2, <1>3 DEF FeesCountedOnce, SumFunction

(* Closing one submission adds its fee to the sum, unless it was in it.    *)
LEMMA FeesClosed ==
  ASSUME RowsTyped, NEW k0 \in Keys, submissions[k0] # None,
         NEW status \in {"RECONCILED", "MISMATCH"}, Conclude(k0, status)
  PROVE  LET before == SumFunctionOnSet(FeesFrom(submissions), Keys)
             after  == SumFunctionOnSet(FeesFrom(submissions'), Keys)
             fee    == ServicingPaid(submissions[k0].cmd)
         IN  /\ before \in Int /\ fee \in Nat
             /\ after = before + (IF Pending(k0) THEN fee ELSE 0)
<1> DEFINE f == FeesFrom(submissions)
           g == FeesFrom(submissions')
           fee == ServicingPaid(submissions[k0].cmd)
<1>1. submissions \in [Keys -> Submission \cup {None}]
  BY DEF RowsTyped
<1>2. submissions' = [submissions EXCEPT ![k0] = [submissions[k0] EXCEPT !.status = status]]
  BY DEF Conclude
<1>3. /\ [submissions[k0] EXCEPT !.status = status] \in Submission
      /\ [submissions[k0] EXCEPT !.status = status].cmd = submissions[k0].cmd
      /\ [submissions[k0] EXCEPT !.status = status].status = status
  BY <1>1 DEF Submission
<1>4. submissions' \in [Keys -> Submission \cup {None}]
  BY <1>1, <1>2, <1>3
<1>5. \A k \in Keys : f[k] \in Int /\ g[k] \in Int /\ g[k] \in Nat
  BY <1>1, <1>4, FeesAreNatural
<1>6. /\ submissions'[k0] # None /\ submissions'[k0].status # "PENDING"
      /\ submissions'[k0].cmd = submissions[k0].cmd
      /\ \A k \in Keys : k # k0 => submissions'[k] = submissions[k]
  BY <1>1, <1>2, <1>3, NoSubmissionAssumption
<1>7. \A k \in Keys : k # k0 => g[k] = f[k]
  BY <1>6 DEF FeesFrom
<1>8. g[k0] = fee /\ f[k0] = IF Pending(k0) THEN 0 ELSE fee
  BY <1>6 DEF FeesFrom, Pending
<1> HIDE DEF f, g
<1>9. SumFunctionOnSet(g, Keys) = SumFunctionOnSet(f, Keys) - f[k0] + g[k0]
  BY <1>5, <1>7, SumChange, KeysAssumption
<1>10. SumFunctionOnSet(f, Keys) \in Int
  BY <1>5, SumInt, KeysAssumption
<1>11. fee \in Nat
  BY <1>5, <1>8
<1> HIDE DEF fee
<1>12. SumFunctionOnSet(g, Keys) = SumFunctionOnSet(f, Keys) + (IF Pending(k0) THEN fee ELSE 0)
  BY <1>8, <1>9, <1>10, <1>11
<1>. QED
  BY <1>10, <1>11, <1>12 DEF f, g, fee

(* A step adds the fee of a submission once, when it closes it.            *)
LEMMA FeesStep ==
  ASSUME Typed, FeesCountedOnce, [Next]_vars
  PROVE  FeesCountedOnce'
<1> DEFINE before == SumFunctionOnSet(FeesFrom(submissions), Keys)
           after  == SumFunctionOnSet(FeesFrom(submissions'), Keys)
<1>0. projection.fees \in Nat /\ projection.fees <= before /\ RowsTyped
  BY FeesSum DEF Typed, ProjectionTyped
<1>1. ASSUME FeesFrom(submissions') = FeesFrom(submissions), projection'.fees = projection.fees
      PROVE  FeesCountedOnce'
  BY <1>0, <1>1, FeesSum
<1>2. ASSUME NEW q \in Requests, Request(q)
      PROVE  FeesCountedOnce'
  <2>1. projection' = projection
    BY <1>2, RequestKeepsCycles
  <2>2. FeesFrom(submissions') = FeesFrom(submissions)
    <3>1. CASE markSubmitted(q)
      <4> DEFINE row == [cmd |-> requests[q].cmd, tx |-> requests[q].tx, status |-> "PENDING"]
      <4>1. \/ submissions' = submissions
            \/ /\ submissions[requests[q].key] = None
               /\ submissions' = [submissions EXCEPT ![requests[q].key] = row]
        BY <3>1 DEF markSubmitted
      <4>2. row.status = "PENDING"
        OBVIOUS
      <4> HIDE DEF row
      <4>. QED
        BY <1>0, <4>1, <4>2 DEF FeesFrom, RowsTyped
    <3>2. CASE UNCHANGED submissions
      BY <3>2
    <3>. QED
      BY <1>2, <3>1, <3>2, RequestKeepsSubmissions
  <2>. QED
    BY <1>1, <2>1, <2>2
<1>3. ASSUME NEW w \in Workers, markReconciled(w)
      PROVE  FeesCountedOnce'
  <2> DEFINE k0 == workers[w].key
             fee == ServicingPaid(submissions[k0].cmd)
  <2>1. /\ k0 \in Keys /\ submissions[k0] # None /\ Pending(k0)
        /\ Conclude(k0, "RECONCILED")
    BY <1>0, <1>3 DEF markReconciled, RowsTyped, HoldsSubmitted, Submitted, Pending
  <2>2. projection'.fees = projection.fees + fee
    BY <1>3 DEF markReconciled, ServicingPaid, Typed, ProjectionTyped
  <2> HIDE DEF k0
  <2>3. before \in Int /\ fee \in Nat /\ after = before + fee
    BY <1>0, <2>1, FeesClosed
  <2> HIDE DEF before, after, fee
  <2>4. projection'.fees <= after
    BY <1>0, <2>2, <2>3
  <2>. QED
    BY <2>4, FeesSum DEF after
<1>4. ASSUME NEW w \in Workers, recordFinding(w)
      PROVE  FeesCountedOnce'
  <2> DEFINE k0 == workers[w].key
             fee == ServicingPaid(submissions[k0].cmd)
  <2>1. k0 \in Keys /\ submissions[k0] # None /\ Conclude(k0, "MISMATCH") /\ projection' = projection
    BY <1>0, <1>4 DEF recordFinding, RowsTyped, HoldsSubmitted, Submitted
  <2> HIDE DEF k0
  <2>2. before \in Int /\ fee \in Nat /\ after = before + (IF Pending(k0) THEN fee ELSE 0)
    BY <1>0, <2>1, FeesClosed
  <2> HIDE DEF before, after, fee
  <2>3. projection'.fees <= after
    BY <1>0, <2>1, <2>2
  <2>. QED
    BY <2>3, FeesSum DEF after
<1>5. ASSUME NEW w \in Workers, Cycle(w), ~ markReconciled(w), ~ recordFinding(w)
      PROVE  submissions' = submissions /\ projection'.fees = projection.fees
  <2>1. submissions' = submissions
    BY <1>5
    DEF Cycle, BeginIndex, commitEvents, CycleFails, listPendingExpectations, EventMissing,
      readClaimState, readWaterfallState, markReconciledTooLate, EndCycle
  <2>2. CASE commitEvents(w)
    <3>1. \/ projection' = projection
          \/ \E contract, from, n : contract \in ContractNames /\ projection' = Projected(contract, from, n)
      <4>1. ContractOrder[workers[w].next] \in ContractNames
        BY OrderOfContracts DEF Typed, IndexTyped, CycleState
      <4>. QED
        BY <2>2, <4>1 DEF commitEvents
    <3>2. ASSUME NEW contract \in ContractNames, NEW from, NEW n
          PROVE  Projected(contract, from, n).fees = projection.fees
      BY OrderOfContracts DEF Projected, Typed, ProjectionTyped
    <3>. QED
      BY <2>1, <3>1, <3>2
  <2>3. CASE ~ commitEvents(w)
    BY <1>5, <2>1, <2>3
    DEF Cycle, BeginIndex, CycleFails, listPendingExpectations, EventMissing,
      readClaimState, readWaterfallState, markReconciledTooLate, EndCycle
  <2>. QED
    BY <2>2, <2>3
<1>6. CASE UNCHANGED apiVars
  BY <1>1, <1>6 DEF apiVars
<1>. QED
  BY <1>1, <1>2, <1>3, <1>4, <1>5, <1>6 DEF Next, Network, Land, Expire, vars

(* The fees in the portfolio count no submission before it is reconciled,  *)
(* and none twice, for any number of cycles concluding the same ones.      *)
THEOREM FeesAreCountedOnce == Spec => []FeesCountedOnce
<1>1. Init => FeesCountedOnce
  <2> SUFFICES ASSUME Init PROVE FeesCountedOnce
    OBVIOUS
  <2>1. \A k \in Keys : FeesFrom(submissions)[k] = 0
    BY DEF Init, ChainInit, FeesFrom
  <2>2. SumFunctionOnSet(FeesFrom(submissions), Keys) = 0
    BY <2>1, SumZero, KeysAssumption
  <2>3. projection.fees = 0
    BY DEF Init, ChainInit
  <2>. QED
    BY <2>2, <2>3, FeesSum
<1>2. Typed /\ FeesCountedOnce /\ [Next]_vars => FeesCountedOnce'
  BY FeesStep
<1>. QED
  BY <1>1, <1>2, AlwaysTyped, PTL DEF Spec

=============================================================================
