---------------------------- MODULE ClaimClosing ----------------------------
(***************************************************************************)
(* The end of one claim.  A repaid claim is redeemed, released and closed  *)
(* by the finalizer that runs after each cycle of the chain indexer; a     *)
(* shortfall is opened, updated and closed by the resolver's commands,     *)
(* which act on the ledger first and then on the database.  Each step is   *)
(* one transaction of either, and whoever makes it may end in between.     *)
(*                                                                         *)
(* A transaction is told apart by what submitted it: the key of a command, *)
(* or "CLOSE" for the finalizer's.  Evidence is fresh under a fresh key.   *)
(***************************************************************************)
EXTENDS Integers

CONSTANTS
  ResolutionKeys,  \* idempotency keys of POST /claims/:id/resolution
  Resolvers,       \* requests served at the same time
  Finalizers,      \* processes with a finalizer
  SeniorLoss,      \* loss of the reconciled waterfall, senior part
  FirstLoss,       \* and the part that the first loss absorbed
  MaxRecovery,     \* bound: largest recovery a command names
  MaxMishaps       \* bound: crashes, lost answers, failed calls and late events

ASSUME ClosingAssumption ==
  /\ SeniorLoss \in Nat /\ FirstLoss \in Nat /\ MaxRecovery \in Nat /\ MaxMishaps \in Nat
  /\ "CLOSE" \notin ResolutionKeys

VARIABLES
  closingRow,   \* claims row: state and version
  chainClaim,   \* the claim on the ledger, its jCLAIM and its resolution
  projected,    \* state of the claim in chain_portfolio_positions
  caseRow,      \* resolution_cases row
  commands,     \* the command of each key, and whether it was answered
  closeSubs,    \* chain_submissions with their expectation
  executedTx,   \* transactions that were executed
  indexedTx,    \* transactions whose events are indexed
  verdict,      \* what the indexer has decided and not yet written
  finalizers,   \* where each finalizer is
  resolvers,    \* where each request is
  mishaps       \* mishaps so far

closingVars == <<closingRow, chainClaim, projected, caseRow, commands, closeSubs,
                 executedTx, indexedTx, verdict, finalizers, resolvers, mishaps>>
closingStore == <<closingRow, caseRow, commands, closeSubs>>
indexerVars == <<projected, indexedTx, verdict>>

Terminal == {"CLOSED", "CLOSED_WITH_LOSS"}
NoCommand == [action |-> "NONE", amount |-> -1, version |-> 0, answered |-> FALSE]
NoVerdict == [tx |-> "none", match |-> FALSE]
IdleResolver == [pc |-> "idle", key |-> "none", recovered |-> 0, delta |-> 0, sent |-> FALSE]

Mishap == mishaps < MaxMishaps /\ mishaps' = mishaps + 1
SetRow(state) == closingRow' = [state |-> state, version |-> closingRow.version + 1]
FinalLoss(recovered) == IF recovered < SeniorLoss THEN SeniorLoss - recovered ELSE 0
ClosedState(loss) == IF loss > 0 THEN "CLOSED_WITH_LOSS" ELSE "CLOSED"

-----------------------------------------------------------------------------
(* TestnetHappyClaimFinalizer.                                             *)

FinalizerAt(f, pc) == finalizers[f] = pc
FinalizerTo(f, pc) == finalizers' = [finalizers EXCEPT ![f] = pc]

\* slip: redeemed is as good as closed
finalizeRepaidClaims_early(f) ==
  /\ FinalizerAt(f, "idle") /\ closingRow.state = "REPAID"
  /\ \/ projected \in {"REDEEMED", "CLOSED"} /\ FinalizerTo(f, "promote")
     \/ projected = "REPAID" /\ closeSubs["CLOSE"].status = "NONE" /\ FinalizerTo(f, "redeem")
  /\ UNCHANGED <<closingStore, chainClaim, executedTx, indexerVars, resolvers, mishaps>>

(* #candidates, and the choice for the one claim.                          *)
finalizeRepaidClaims(f) ==
  /\ FinalizerAt(f, "idle") /\ closingRow.state = "REPAID"
  /\ \/ projected = "CLOSED" /\ FinalizerTo(f, "promote")
     \/ projected # "CLOSED" /\ closeSubs["CLOSE"].status = "NONE" /\ FinalizerTo(f, "redeem")
  /\ UNCHANGED <<closingStore, chainClaim, executedTx, indexerVars, resolvers, mishaps>>

(* A transaction of the finalizer: it is accepted and the finalizer goes   *)
(* on, it is refused, or its outcome is not heard of.                      *)
Sends(f, accepted, claim, next) ==
  \/ accepted /\ chainClaim' = claim /\ FinalizerTo(f, next) /\ UNCHANGED mishaps
  \/ ~ accepted /\ FinalizerTo(f, "idle") /\ UNCHANGED <<chainClaim, mishaps>>
  \/ /\ Mishap /\ FinalizerTo(f, "idle")
     /\ chainClaim' \in {chainClaim} \cup {c \in {claim} : accepted}

Redeemed == [chainClaim EXCEPT !.issued = FALSE,
               !.state = IF @ = "REPAID" THEN "REDEEMED" ELSE @]

\* slip: redeems without asking what is issued
redeem_always(f) ==
  /\ FinalizerAt(f, "redeem")
  /\ Sends(f, chainClaim.issued, Redeemed, "release")
  /\ UNCHANGED <<closingStore, executedTx, indexerVars, resolvers>>

redeem(f) ==
  /\ FinalizerAt(f, "redeem")
  /\ \/ chainClaim.issued /\ Sends(f, TRUE, Redeemed, "release")
     \/ ~ chainClaim.issued /\ FinalizerTo(f, "release") /\ UNCHANGED <<chainClaim, mishaps>>
  /\ UNCHANGED <<closingStore, executedTx, indexerVars, resolvers>>

releaseUnusedFirstLoss(f) ==
  /\ FinalizerAt(f, "release")
  /\ Sends(f, TRUE, [chainClaim EXCEPT !.escrow = FALSE], "close")
  /\ UNCHANGED <<closingStore, executedTx, indexerVars, resolvers>>

closeClaim(f) ==
  /\ FinalizerAt(f, "close")
  /\ Sends(f, chainClaim.state = "REDEEMED" /\ ~ chainClaim.issued,
           [chainClaim EXCEPT !.state = "CLOSED"], "expect")
  /\ executedTx' = IF chainClaim' # chainClaim THEN executedTx \cup {"CLOSE"} ELSE executedTx
  /\ UNCHANGED <<closingStore, indexerVars, resolvers>>

(* #expectClose: one submission per claim, a second one is refused.        *)
expectClose(f) ==
  /\ FinalizerAt(f, "expect") /\ FinalizerTo(f, "idle")
  /\ \/ /\ closeSubs["CLOSE"].status = "NONE"
        /\ closeSubs' = [closeSubs EXCEPT !["CLOSE"] = [status |-> "PENDING", expected |-> "CLOSED"]]
        /\ UNCHANGED mishaps
     \/ closeSubs["CLOSE"].status # "NONE" /\ UNCHANGED <<closeSubs, mishaps>>
     \/ Mishap /\ UNCHANGED closeSubs
  /\ UNCHANGED <<closingRow, caseRow, commands, chainClaim, executedTx, indexerVars, resolvers>>

promoteIndexedClose(f) ==
  /\ FinalizerAt(f, "promote") /\ FinalizerTo(f, "idle")
  /\ IF closingRow.state = "CLOSED" THEN UNCHANGED closingRow ELSE SetRow("CLOSED")
  /\ UNCHANGED <<caseRow, commands, closeSubs, chainClaim, executedTx, indexerVars, resolvers, mishaps>>

crashFinalizer(f) ==
  /\ ~ FinalizerAt(f, "idle") /\ FinalizerTo(f, "idle") /\ Mishap
  /\ UNCHANGED <<closingStore, chainClaim, executedTx, indexerVars, resolvers>>

-----------------------------------------------------------------------------
(* ResolutionService, and the repository that acts on the ledger first.    *)

ResolverAt(h, pc) == resolvers[h].pc = pc
Command(h) == commands[resolvers[h].key]
ResolverTo(h, pc) == resolvers' = [resolvers EXCEPT ![h].pc = pc]
ResolverEnds(h) == resolvers' = [resolvers EXCEPT ![h] = IdleResolver]

assertResolutionTransition(c) ==
  /\ c.version = closingRow.version /\ closingRow.state \notin Terminal
  /\ c.action = "OPEN" => closingRow.state = "SHORTFALL"
  /\ c.action # "OPEN" => caseRow.status \in {"OPEN", "RECOVERING"}

(* A command names no recovery by an amount of -1.                         *)
NamedRecovery(action) ==
  CASE action = "OPEN" -> {-1} [] action = "UPDATE" -> 0..MaxRecovery [] OTHER -> -1..MaxRecovery

(* execute of the service, for a new key or one that was not answered.     *)
execute(h, k) ==
  /\ ResolverAt(h, "idle") /\ ~ commands[k].answered
  /\ IF commands[k] # NoCommand THEN UNCHANGED commands
     ELSE \E action \in {"OPEN", "UPDATE", "CLOSE"} : \E amount \in NamedRecovery(action) :
       commands' = [commands EXCEPT ![k] = [action |-> action, amount |-> amount,
                                            version |-> closingRow.version, answered |-> FALSE]]
  /\ assertResolutionTransition(commands'[k])
  /\ resolvers' = [resolvers EXCEPT ![h] = [IdleResolver EXCEPT !.pc = "look", !.key = k]]
  /\ UNCHANGED <<closingRow, caseRow, closeSubs, chainClaim, executedTx, indexerVars, finalizers, mishaps>>

(* What the run has read of the case and of the ledger decides whether it  *)
(* calls the contract, goes on without a call, or fails.                   *)
Proceed(h, pc, recovered, delta) ==
  resolvers' = [resolvers EXCEPT ![h] = [@ EXCEPT !.pc = pc, !.recovered = recovered, !.delta = delta]]

\* slip: a closed resolution is taken for this command's own
ClosedAlike_any(recovered) == chainClaim.status = "CLOSED"

(* The resolution was closed with what this command would close it with.   *)
ClosedAlike(recovered) ==
  chainClaim.status = "CLOSED" /\ chainClaim.recovered = recovered
    /\ chainClaim.finalLoss = FinalLoss(recovered)

getResolution(h) ==
  LET c == Command(h)
      recovered == IF c.amount = -1 THEN caseRow.realized ELSE c.amount
      ongoing == chainClaim.status \in {"OPEN", "RECOVERING"} IN
  /\ ResolverAt(h, "look")
  /\ \/ /\ c.action = "OPEN"
        /\ \/ chainClaim.status = "NONE" /\ Proceed(h, "call", 0, 0)
           \/ ongoing /\ Proceed(h, "mutate", 0, 0)
           \/ chainClaim.status # "NONE" /\ chainClaim.openedBy # resolvers[h].key /\ ResolverEnds(h)
     \/ /\ c.action = "UPDATE"
        /\ \/ (~ ongoing \/ recovered < chainClaim.recovered) /\ ResolverEnds(h)
           \/ /\ ongoing /\ recovered >= chainClaim.recovered
              /\ Proceed(h, IF chainClaim.status = "OPEN" \/ recovered > chainClaim.recovered
                          THEN "call" ELSE "mutate", recovered, recovered - chainClaim.recovered)
     \/ /\ c.action = "CLOSE"
        /\ CASE ongoing -> Proceed(h, "call", recovered, 0)
             [] ClosedAlike(recovered) -> Proceed(h, "clawback", recovered, 0)
             [] OTHER -> ResolverEnds(h)
  /\ UNCHANGED <<closingStore, chainClaim, executedTx, indexerVars, finalizers, mishaps>>

(* open, record_recovery and close of the resolution manager, under the    *)
(* evidence of this key.                                                   *)
Grants(h) ==
  LET c == Command(h)  r == resolvers[h] IN
  /\ r.key \notin executedTx
  /\ CASE c.action = "OPEN"   -> chainClaim.status = "NONE" /\ chainClaim.state = "SHORTFALL"
       [] c.action = "UPDATE" -> chainClaim.status \in {"OPEN", "RECOVERING"}
       [] OTHER -> chainClaim.state = "RESOLUTION" /\ r.recovered >= chainClaim.recovered

Resolved(h) ==
  LET c == Command(h)  r == resolvers[h] IN
  CASE c.action = "OPEN" ->
         [chainClaim EXCEPT !.state = "RESOLUTION", !.status = "OPEN", !.openedBy = r.key]
    [] c.action = "UPDATE" ->
         [chainClaim EXCEPT !.status = "RECOVERING", !.recovered = @ + r.delta]
    [] OTHER ->
         [chainClaim EXCEPT !.status = "CLOSED", !.recovered = r.recovered,
            !.finalLoss = FinalLoss(r.recovered), !.state = ClosedState(FinalLoss(r.recovered))]

callResolution(h) ==
  LET after == IF Command(h).action = "CLOSE" THEN "clawback" ELSE "record" IN
  /\ ResolverAt(h, "call")
  /\ \/ /\ Grants(h) /\ chainClaim' = Resolved(h) /\ executedTx' = executedTx \cup {resolvers[h].key}
        /\ \/ resolvers' = [resolvers EXCEPT ![h] = [@ EXCEPT !.pc = after, !.sent = TRUE]] /\ UNCHANGED mishaps
           \/ ResolverEnds(h) /\ Mishap
     \/ ~ Grants(h) /\ ResolverEnds(h) /\ UNCHANGED <<chainClaim, executedTx, mishaps>>
  /\ UNCHANGED <<closingStore, indexerVars, finalizers>>

clawbackClaim(h) ==
  /\ ResolverAt(h, "clawback")
  /\ ResolverTo(h, IF resolvers[h].sent THEN "record" ELSE "mutate")
  /\ chainClaim' = [chainClaim EXCEPT !.issued = FALSE]
  /\ UNCHANGED <<closingStore, executedTx, indexerVars, finalizers, mishaps>>

(* #recordSubmission: only a run that has called the contract has one.     *)
recordResolution(h) ==
  LET expected == IF Command(h).action = "CLOSE" THEN ClosedState(FinalLoss(resolvers[h].recovered))
                  ELSE "RESOLUTION" IN
  /\ ResolverAt(h, "record") /\ ResolverTo(h, "mutate")
  /\ closeSubs' = [closeSubs EXCEPT ![resolvers[h].key] = [status |-> "PENDING", expected |-> expected]]
  /\ UNCHANGED <<closingRow, caseRow, commands, chainClaim, executedTx, indexerVars, finalizers, mishaps>>

(* mutate of the delegate: the command is checked again on the locked rows *)
(* and the recovery is held against what the database knows.               *)
mutate(h) ==
  LET c == Command(h)  r == resolvers[h]
      realized == IF c.amount = -1 THEN caseRow.realized ELSE c.amount
      loss == FinalLoss(realized)
      admitted == realized >= caseRow.realized /\ realized <= SeniorLoss + FirstLoss IN
  /\ ResolverAt(h, "mutate") /\ ResolverEnds(h)
  /\ IF ~ c.answered /\ assertResolutionTransition(c) /\ (c.action # "OPEN" => admitted)
     THEN /\ commands' = [commands EXCEPT ![r.key].answered = TRUE]
          /\ SetRow(IF c.action = "CLOSE" THEN ClosedState(loss) ELSE "RESOLUTION")
          /\ caseRow' = CASE c.action = "OPEN" -> [status |-> "OPEN", realized |-> 0, finalLoss |-> 0]
               [] c.action = "UPDATE" -> [caseRow EXCEPT !.status = "RECOVERING", !.realized = realized]
               [] OTHER -> [status |-> IF loss > 0 THEN "WRITTEN_OFF" ELSE "SETTLED",
                            realized |-> realized, finalLoss |-> loss]
     ELSE UNCHANGED <<commands, closingRow, caseRow>>
  /\ UNCHANGED <<closeSubs, chainClaim, executedTx, indexerVars, finalizers, mishaps>>

crashResolver(h) ==
  /\ ~ ResolverAt(h, "idle") /\ ResolverEnds(h) /\ Mishap
  /\ UNCHANGED <<closingStore, chainClaim, executedTx, indexerVars, finalizers>>

-----------------------------------------------------------------------------
(* The chain indexer, as far as the end of a claim meets it.               *)

indexClosing ==
  /\ <<projected, indexedTx>> # <<chainClaim.state, executedTx>>
  /\ projected' = chainClaim.state /\ indexedTx' = executedTx
  /\ UNCHANGED <<closingStore, chainClaim, executedTx, verdict, finalizers, resolvers, mishaps>>

(* The event is there, or the submission is old enough to be missing it;   *)
(* the state is read from the ledger.                                      *)
reconcileClosing(tx) ==
  /\ verdict = NoVerdict /\ closeSubs[tx].status = "PENDING"
  /\ IF tx \in indexedTx THEN UNCHANGED mishaps ELSE Mishap
  /\ verdict' = [tx |-> tx, match |-> tx \in indexedTx /\ chainClaim.state = closeSubs[tx].expected]
  /\ UNCHANGED <<closingStore, chainClaim, executedTx, projected, indexedTx, finalizers, resolvers>>

(* markReconciled moves the claim from whatever state it is in;            *)
(* recordFinding pauses it unless it is terminal.                          *)
writeVerdict ==
  LET expected == closeSubs[verdict.tx].expected IN
  /\ verdict # NoVerdict /\ verdict' = NoVerdict
  /\ closeSubs' = [closeSubs EXCEPT ![verdict.tx].status = IF verdict.match THEN "RECONCILED" ELSE "MISMATCH"]
  /\ IF verdict.match THEN IF closingRow.state # expected THEN SetRow(expected) ELSE UNCHANGED closingRow
     ELSE IF closingRow.state \notin Terminal \cup {"PAUSED"} THEN SetRow("PAUSED") ELSE UNCHANGED closingRow
  /\ UNCHANGED <<caseRow, commands, chainClaim, executedTx, projected, indexedTx, finalizers, resolvers, mishaps>>

-----------------------------------------------------------------------------

(* Repaid, short, or with a resolution that was opened before.             *)
ClosingInit ==
  /\ \E state \in {"REPAID", "SHORTFALL", "RESOLUTION"} :
       LET status == IF state = "RESOLUTION" THEN "OPEN" ELSE "NONE" IN
       /\ closingRow = [state |-> state, version |-> 1] /\ projected = state
       /\ chainClaim = [state |-> state, issued |-> TRUE, escrow |-> state = "REPAID", status |-> status,
                        openedBy |-> "none", recovered |-> 0, finalLoss |-> 0]
       /\ caseRow = [status |-> status, realized |-> 0, finalLoss |-> 0]
  /\ commands = [k \in ResolutionKeys |-> NoCommand]
  /\ closeSubs = [tx \in ResolutionKeys \cup {"CLOSE"} |-> [status |-> "NONE", expected |-> "none"]]
  /\ executedTx = {} /\ indexedTx = {} /\ verdict = NoVerdict
  /\ finalizers = [f \in Finalizers |-> "idle"]
  /\ resolvers = [h \in Resolvers |-> IdleResolver]
  /\ mishaps = 0

FinalizerStep(f) ==
  \/ finalizeRepaidClaims(f) \/ redeem(f) \/ releaseUnusedFirstLoss(f)
  \/ closeClaim(f) \/ expectClose(f) \/ promoteIndexedClose(f)

ResolverStep(h) ==
  \/ \E k \in ResolutionKeys : execute(h, k)
  \/ getResolution(h) \/ callResolution(h) \/ clawbackClaim(h) \/ recordResolution(h) \/ mutate(h)

ClosingNext ==
  \/ \E f \in Finalizers : FinalizerStep(f) \/ crashFinalizer(f)
  \/ \E h \in Resolvers : ResolverStep(h) \/ crashResolver(h)
  \/ indexClosing \/ writeVerdict
  \/ \E tx \in DOMAIN closeSubs : reconcileClosing(tx)

ClosingSpec == ClosingInit /\ [][ClosingNext]_closingVars

(* The indexer's loop and the finalizer after each of its cycles go on.    *)
ClosingFairness ==
  /\ \A f \in Finalizers : WF_closingVars(FinalizerStep(f))
  /\ WF_closingVars(indexClosing) /\ WF_closingVars(writeVerdict)
  /\ \A tx \in ResolutionKeys \cup {"CLOSE"} :
       WF_closingVars(reconcileClosing(tx) /\ mishaps' = mishaps)

FairClosingSpec == ClosingSpec /\ ClosingFairness

-----------------------------------------------------------------------------

ClosingTypeOK ==
  /\ closingRow \in [state : {"REPAID", "SHORTFALL", "RESOLUTION", "PAUSED"} \cup Terminal, version : Nat]
  /\ chainClaim.state \in {"REPAID", "REDEEMED", "SHORTFALL", "RESOLUTION"} \cup Terminal
  /\ chainClaim.recovered \in Nat /\ chainClaim.finalLoss \in Nat
  /\ caseRow \in [status : {"NONE", "OPEN", "RECOVERING", "SETTLED", "WRITTEN_OFF"},
                  realized : Nat, finalLoss : Nat]
  /\ executedTx \subseteq DOMAIN closeSubs /\ indexedTx \subseteq executedTx
  /\ mishaps \in Nat

(* The database calls a claim closed only when the ledger has closed it    *)
(* the same way, no jCLAIM of it is left and no unused first loss is held, *)
(* by whichever of the four ways the row got there: the finalizer's        *)
(* promotion, its verdict, the command or the command's verdict.           *)
TerminalIsOnChain ==
  closingRow.state \in Terminal =>
    chainClaim.state = closingRow.state /\ ~ chainClaim.issued /\ ~ chainClaim.escrow

(* The case the database keeps never runs ahead of the ledger: it counts   *)
(* no recovery the ledger lacks, and a case that is closed was closed on   *)
(* the ledger with the same recovery and the same loss.                    *)
CaseMatchesLedger ==
  /\ caseRow.realized <= chainClaim.recovered
  /\ caseRow.status \in {"SETTLED", "WRITTEN_OFF"} =>
       chainClaim.status = "CLOSED" /\ chainClaim.recovered = caseRow.realized
         /\ chainClaim.finalLoss = caseRow.finalLoss

(* A repaid claim is closed in the end, whatever call of the finalizer was *)
(* lost or failed, unless its submission was judged a mismatch.            *)
RepaidCloses == closingRow.state = "REPAID" ~> closingRow.state \in {"CLOSED", "PAUSED"}
=============================================================================
