------------------------ MODULE SettlementExecution ------------------------
(***************************************************************************)
(* The execution of a settlement through the API, beside the chain indexer *)
(* of ChainIndex.  A request runs executeWaterfall of SettlementService:   *)
(* each step is one database transaction or one call to the network, and   *)
(* the process may end between any two of them.  Several requests may be   *)
(* at it, with the same idempotency key or with different ones.            *)
(***************************************************************************)
EXTENDS ChainIndex, Functions

CONSTANTS
  Requests,  \* requests that may be served at the same time
  MaxCalls   \* bound: executeClaimWaterfall calls in a behaviour

ASSUME SettlementAssumption == MaxCalls \in Nat

VARIABLES
  requests,  \* where each request is
  records,   \* idempotency_records of executeClaimWaterfall, by key
  runs,      \* status of the WATERFALL operation a key prepared
  results,   \* waterfall_results: the key whose run was recorded, by event
  calls      \* calls made so far

journalVars == <<records, runs, results>>
requestVars == <<requests, journalVars, calls>>
vars == <<chainVars, apiVars, requestVars>>

(* What executeClaimWaterfall keeps under an idempotency key.              *)
IdempotencyRecord == [cmd : Command, answered : BOOLEAN]

ASSUME NoRecordAssumption == None \notin IdempotencyRecord

IdleRequest == [pc |-> "idle", id |-> 0, key |-> None, cmd |-> None,
                version |-> 0, seen |-> None, tx |-> 0]

Enter(q, pc) == requests' = [requests EXCEPT ![q].pc = pc]
Leave(q) == requests' = [requests EXCEPT ![q] = IdleRequest]

-----------------------------------------------------------------------------

(* The client reads the claim's version and calls; the command is computed *)
(* from the position projected at that moment.                             *)
loadWaterfallPosition(q, k, e, final, due) ==
  /\ requests[q].pc \in {"idle", "conflict"}
  /\ calls < MaxCalls
  /\ projection.state \in {"FUNDED", "SETTLING"}
  /\ requests' = [requests EXCEPT ![q] = [IdleRequest EXCEPT
       !.pc = "prepare", !.id = calls + 1, !.key = k, !.version = claim.version,
       !.cmd = [event |-> e, final |-> final, due |-> due,
                outstanding |-> projection.outstanding, consumed |-> projection.consumed]]]
  /\ calls' = calls + 1
  /\ UNCHANGED <<chainVars, apiVars, journalVars>>

samePosition(cmd) ==
  cmd.outstanding = projection.outstanding /\ cmd.consumed = projection.consumed

Recorded(e) == results[e] # None

\* slip: the stored payload hash is not compared
ReplayRun_any(q) ==
  LET r == requests[q] IN
  /\ r.pc = "prepare" /\ records[r.key] # None
  /\ IF records[r.key].answered \/ runs[r.key] = "FAILED_PROTOCOL" THEN Leave(q)
     ELSE requests' = [requests EXCEPT ![q] = [@ EXCEPT !.pc = "lookup", !.seen = runs[r.key]]]
  /\ UNCHANGED <<chainVars, apiVars, journalVars, calls>>

(* prepareWaterfall when the key was used before: other content is refused, *)
(* a stored answer is given again, an unfinished run is resumed.           *)
ReplayRun(q) ==
  LET r == requests[q] IN
  /\ r.pc = "prepare" /\ records[r.key] # None
  /\ IF records[r.key].cmd # r.cmd THEN Enter(q, "conflict")
     ELSE IF records[r.key].answered \/ runs[r.key] = "FAILED_PROTOCOL" THEN Leave(q)
     ELSE requests' = [requests EXCEPT ![q] = [@ EXCEPT !.pc = "lookup", !.seen = runs[r.key]]]
  /\ UNCHANGED <<chainVars, apiVars, journalVars, calls>>

(* prepareWaterfall when the event's run was recorded under another key.   *)
ReplayEvent(q) ==
  LET r == requests[q] IN
  /\ r.pc = "prepare" /\ records[r.key] = None /\ Recorded(r.cmd.event)
  /\ IF submissions[results[r.cmd.event]].cmd # r.cmd
       THEN Enter(q, "conflict") /\ UNCHANGED records
       ELSE /\ Leave(q)
            /\ records' = [records EXCEPT ![r.key] = [cmd |-> r.cmd, answered |-> TRUE]]
  /\ UNCHANGED <<chainVars, apiVars, runs, results, calls>>

Preparable(r) ==
  /\ claim.version = r.version
  /\ samePosition(r.cmd)
  /\ ~ \E k \in Keys : Pending(k)

(* prepareWaterfall of a new run: it takes the claim's version.            *)
PrepareRun(q) ==
  LET r == requests[q] IN
  /\ r.pc = "prepare" /\ records[r.key] = None /\ ~ Recorded(r.cmd.event)
  /\ Preparable(r)
  /\ claim' = [claim EXCEPT !.version = @ + 1]
  /\ records' = [records EXCEPT ![r.key] = [cmd |-> r.cmd, answered |-> FALSE]]
  /\ runs' = [runs EXCEPT ![r.key] = "PREPARED"]
  /\ requests' = [requests EXCEPT ![q] = [@ EXCEPT !.pc = "lookup", !.seen = "PREPARED"]]
  /\ UNCHANGED <<chainVars, indexed, projection, submissions, workers, results, calls>>

RefuseRun(q) ==
  LET r == requests[q] IN
  /\ r.pc = "prepare" /\ records[r.key] = None /\ ~ Recorded(r.cmd.event)
  /\ ~ Preparable(r)
  /\ Leave(q)
  /\ UNCHANGED <<chainVars, apiVars, journalVars, calls>>

\* slip: the lookup is by settlement event
CanonicalEvents_byEvent(cmd) ==
  {i \in 1..indexed["servicing_waterfall"] : ledger[i].cmd.event = cmd.event}

CanonicalEvents(cmd) ==
  {i \in 1..indexed["servicing_waterfall"] : ledger[i].cmd = cmd}

(* findByResultHash: an indexed event with the hash ends the doubt about a *)
(* run; without one, a run that may have been submitted is left alone.     *)
findByResultHash(q) ==
  LET r == requests[q]
      found == CanonicalEvents(r.cmd)
  IN  /\ r.pc = "lookup"
      /\ \/ /\ found # {}
            /\ requests' = [requests EXCEPT ![q] =
                 [@ EXCEPT !.pc = "existing", !.tx = CHOOSE i \in found : TRUE]]
         \/ found = {} /\ r.seen \in {"SUBMITTING", "SUBMITTING_AMBIGUOUS"} /\ Leave(q)
         \/ found = {} /\ r.seen = "PREPARED" /\ Enter(q, "submitting")
      /\ UNCHANGED <<chainVars, apiVars, journalVars, calls>>

(* markSubmitting, markPrepared, markFailed, markAmbiguous.                *)
MarkStatus(q, pc, status, next) ==
  /\ requests[q].pc = pc
  /\ runs' = [runs EXCEPT ![requests[q].key] = status]
  /\ IF next = "idle" THEN Leave(q) ELSE Enter(q, next)
  /\ UNCHANGED <<chainVars, apiVars, records, results, calls>>

markSubmitting(q) == MarkStatus(q, "submitting", "SUBMITTING", "submit")
markPrepared(q)   == MarkStatus(q, "unavailable", "PREPARED", "idle")
markFailed(q)     == MarkStatus(q, "rejected", "FAILED_PROTOCOL", "idle")
markAmbiguous(q)  == MarkStatus(q, "lost", "SUBMITTING_AMBIGUOUS", "idle")

\* slip: only acceptance is looked at
SimulationMatches_accepted(cmd) == Accepts(cmd)

(* The simulated allocation is compared with the prepared one.             *)
SimulationMatches(cmd) ==
  Accepts(cmd) /\ calculateWaterfall(cmd, position) = calculateWaterfall(cmd, cmd)

submit(q) ==
  LET r == requests[q] IN
  /\ r.pc = "submit"
  /\ \/ Enter(q, "unavailable") /\ UNCHANGED inflight
     \/ ~ SimulationMatches(r.cmd) /\ Enter(q, "rejected") /\ UNCHANGED inflight
     \/ /\ SimulationMatches(r.cmd)
        /\ inflight' = inflight \cup {[id |-> r.id, key |-> r.key, cmd |-> r.cmd]}
        /\ Enter(q, "await")
  /\ UNCHANGED <<position, ledger, apiVars, journalVars, calls>>

(* The network's answer arrives, or it does not.                           *)
Answered(q, i) ==
  /\ requests[q].pc = "await"
  /\ ledger[i].id = requests[q].id
  /\ requests' = [requests EXCEPT ![q] = [@ EXCEPT !.pc = "existing", !.tx = i]]
  /\ UNCHANGED <<chainVars, apiVars, journalVars, calls>>

NoAnswer(q) ==
  /\ requests[q].pc = "await"
  /\ Enter(q, "lost")
  /\ UNCHANGED <<chainVars, apiVars, journalVars, calls>>

(* markSubmitted first looks for a recorded run of the event; the look and *)
(* the insertion are not isolated from another request's.                  *)
existingRun(q) ==
  LET r == requests[q] IN
  /\ r.pc = "existing"
  /\ IF /\ Recorded(r.cmd.event)
        /\ submissions[results[r.cmd.event]].status \in {"PENDING", "RECONCILED"}
       THEN Leave(q)
       ELSE Enter(q, "insert")
  /\ UNCHANGED <<chainVars, apiVars, journalVars, calls>>

(* A second insertion for the key fails on the outbox event's identity.    *)
markSubmitted(q) ==
  LET r == requests[q] IN
  /\ r.pc = "insert"
  /\ IF submissions[r.key] # None THEN UNCHANGED <<submissions, journalVars>>
     ELSE /\ submissions' = [submissions EXCEPT ![r.key] =
               [cmd |-> r.cmd, tx |-> r.tx, status |-> "PENDING"]]
          /\ results' = [results EXCEPT ![r.cmd.event] = IF @ = None THEN r.key ELSE @]
          /\ runs' = [runs EXCEPT ![r.key] = "PENDING_RECONCILIATION"]
          /\ records' = [records EXCEPT ![r.key].answered = TRUE]
  /\ Leave(q)
  /\ UNCHANGED <<chainVars, indexed, projection, claim, workers, calls>>

(* The process that serves the request ends.                               *)
Crash(q) ==
  /\ requests[q].pc \notin {"idle", "conflict"}
  /\ Leave(q)
  /\ UNCHANGED <<chainVars, apiVars, journalVars, calls>>

-----------------------------------------------------------------------------

Init ==
  /\ ChainInit
  /\ requests = [q \in Requests |-> IdleRequest]
  /\ records = [k \in Keys |-> None]
  /\ runs = [k \in Keys |-> None]
  /\ results = [e \in Events |-> None]
  /\ calls = 0

Request(q) ==
  \/ \E k \in Keys, e \in Events, final \in BOOLEAN, due \in ServicingDues :
       loadWaterfallPosition(q, k, e, final, due)
  \/ ReplayRun(q) \/ ReplayEvent(q) \/ PrepareRun(q) \/ RefuseRun(q)
  \/ findByResultHash(q)
  \/ markSubmitting(q) \/ submit(q) \/ NoAnswer(q)
  \/ \E i \in DOMAIN ledger : Answered(q, i)
  \/ markPrepared(q) \/ markFailed(q) \/ markAmbiguous(q)
  \/ existingRun(q) \/ markSubmitted(q)
  \/ Crash(q)

Network == \E tx \in inflight : Land(tx) \/ Expire(tx)

Next ==
  \/ \E q \in Requests : Request(q)
  \/ Network /\ UNCHANGED requestVars
  \/ \E w \in Workers : Cycle(w) /\ UNCHANGED requestVars

Spec == Init /\ [][Next]_vars

(* runChainIndexerLoop starts a cycle after every cycle, failed or not, as *)
(* long as the process is up.  What it needs of its surroundings: each     *)
(* call to the RPC node or the database, if repeated for ever, succeeds    *)
(* again and again, and so does one that sees the latest ledger.  Nothing  *)
(* is assumed of the requests or of the network's inclusion.               *)
Alone(A) == A /\ UNCHANGED requestVars

Current(w) == workers[w].snapshot = Len(ledger)

Fairness(w) ==
  /\ WF_vars(Alone(Cycle(w)))
  /\ SF_vars(Alone(BeginIndex(w, Len(ledger))))
  /\ \A i \in DOMAIN ContractOrder :
       SF_vars(Alone(commitEvents(w) /\ workers[w].next = i /\ Current(w)))
  /\ SF_vars(Alone(listPendingExpectations(w)))
  /\ SF_vars(Alone(\E k \in Keys : readClaimState(w, k)))
  /\ SF_vars(Alone(readWaterfallState(w)))
  /\ SF_vars(Alone(markReconciled(w) \/ recordFinding(w)))

FairSpec == Spec /\ \A w \in Workers : Fairness(w)

-----------------------------------------------------------------------------

(* Every variable keeps its type; in particular the projection of the      *)
(* outstanding principal and of the first loss never leaves its range.     *)
SettlementTypeOK ==
  /\ position \in Positions
  /\ ledger \in Seq([id : Nat, key : Keys, cmd : Command, after : Positions])
  /\ inflight \subseteq Transactions
  /\ indexed \in [ContractNames -> 0..Len(ledger)]
  /\ projection.state \in {p.state : p \in Positions}
  /\ projection.outstanding \in 0..Principal /\ projection.consumed \in 0..FirstLoss
  /\ projection.fees \in Nat
  /\ claim.state \in {p.state : p \in Positions} \cup {"PAUSED"} /\ claim.version \in Nat
  /\ \A k \in Keys : submissions[k] # None =>
       submissions[k] \in Submission /\ submissions[k].tx \in DOMAIN ledger
  /\ results \in [Events -> Keys \cup {None}]

(* A submission names a transaction that executed its own command, and a   *)
(* recorded result names a submission of its event: what is reported for   *)
(* one settlement is never another one's outcome.                          *)
RecordedWasExecuted ==
  /\ \A k \in Keys : submissions[k] # None =>
       ledger[submissions[k].tx].cmd = submissions[k].cmd
  /\ \A e \in Events : Recorded(e) =>
       submissions[results[e]] # None /\ submissions[results[e]].cmd.event = e

(* The chain divided a settlement the way the API had computed it, whatever *)
(* happened to the position between the load and the inclusion.            *)
ExecutedAsPrepared ==
  \A i \in DOMAIN ledger :
    calculateWaterfall(ledger[i].cmd, Upto(i - 1)) = calculateWaterfall(ledger[i].cmd, ledger[i].cmd)

(* Each contract's share of the projection is what the chain was after the *)
(* last settlement indexed from that contract, although cycles overlap,    *)
(* read events again and fail half-way.                                    *)
ProjectionMatchesLedger ==
  /\ projection.state       = Upto(indexed["claim_lifecycle"]).state
  /\ projection.outstanding = Upto(indexed["facility"]).outstanding
  /\ projection.consumed    = Upto(indexed["servicing_waterfall"]).consumed

ServicingPaid(cmd) == calculateWaterfall(cmd, cmd).servicing

FeesOf(k) == IF submissions[k] = None \/ Pending(k) THEN 0 ELSE ServicingPaid(submissions[k].cmd)

(* The fees in the portfolio count no submission before it is reconciled,  *)
(* and none twice, although two cycles may both be about to conclude it.   *)
FeesCountedOnce == projection.fees <= SumFunction([k \in Keys |-> FeesOf(k)])

(* A key settles at most once, however often it is used and with whatever  *)
(* content, and what it settles is what its idempotency record answers for. *)
KeySettlesOnce ==
  \A i \in DOMAIN ledger : LET entry == ledger[i] IN
    /\ records[entry.key] # None /\ records[entry.key].cmd = entry.cmd
    /\ \A j \in DOMAIN ledger : ledger[j].key = entry.key => j = i

(* A submission is never left pending: it is reconciled or found           *)
(* mismatched, whatever fails on the way.                                  *)
SubmissionsSettle == \A k \in Keys : Pending(k) ~> ~ Pending(k)

-----------------------------------------------------------------------------
(* What the code does not hold.                                            *)

(* "duplicates safe": a settlement event moves money once.                 *)
EventSettlesOnce ==
  \A i, j \in DOMAIN ledger : ledger[i].cmd.event = ledger[j].cmd.event => i = j

=============================================================================
