---------------------------- MODULE ChainIntake ----------------------------
(***************************************************************************)
(* How the API's chain indexer takes in the events of the contracts:       *)
(* ChainEventIndexer.index visits one contract after the other, resumes    *)
(* from its checkpoint, reads the events page by page from the RPC,        *)
(* decodes each of them and stores a page together with the checkpoint.    *)
(* The same cycle runs in a worker of its own and in the API's process, so *)
(* cycles overlap; any await of one may throw, which ends it.  The         *)
(* findings a cycle records are read by no cycle and are left out.         *)
(*                                                                         *)
(* An event type is the wire name, the number of its topics and the fields *)
(* of its value: what a contract declares on one side and what a decoder   *)
(* expects on the other.                                                   *)
(***************************************************************************)
EXTENDS Integers, Sequences, FiniteSetsExt

(* The contracts the API is configured with, in the order of a cycle.      *)
contractNames ==
  <<"eligibility_registry", "claim_lifecycle", "asset_controller", "facility",
    "servicing_waterfall", "resolution_manager">>

CONSTANTS
  Watches,      \* sequences of contracts, of which a behaviour visits one
  Cyclers,      \* cycles of the indexer that may overlap
  PageSize,     \* events in a page of the RPC
  Overlap,      \* overlapLedgers
  MaxLedger,    \* bound on the ledgers of a behaviour
  MaxEvents,    \* bound on the events of a behaviour
  MaxAborts     \* bound on the awaits that throw

ASSUME IntakeAssumption ==
  /\ \A names \in Watches : names \in Seq(Range(contractNames)) /\ names # <<>>
  /\ PageSize \in Nat \ {0} /\ Overlap \in Nat
  /\ MaxLedger \in Nat /\ MaxEvents \in Nat /\ MaxAborts \in Nat

VARIABLES
  watch,        \* the contracts this behaviour is about
  tip,          \* the ledger that is being closed
  oldest,       \* the oldest ledger the RPC still holds
  emitted,      \* the events, in the order of their ids
  stored,       \* ids in chain_events
  checkpoints,  \* chain_event_checkpoints: last ledger by contract, 0 for no row
  cycles,       \* where each cycle is
  aborts        \* how many have thrown

chainSide == <<watch, tip, oldest, emitted>>
tables == <<stored, checkpoints>>
intakeVars == <<chainSide, tables, cycles, aborts>>

(* initialLedger: the ledger of the deployment.                            *)
FirstLedger == 1

-----------------------------------------------------------------------------
(* What the contracts publish and what the decoders expect.                *)

ClaimEvent(fields) == [topics |-> 4, fields |-> fields]

RegistryEvents ==
  [attestation_registered |-> ClaimEvent({"attestation_key", "envelope_hash", "expires_at"}),
   attestation_revoked    |-> ClaimEvent({"reason_code"})]

LifecycleEvents ==
  [claim_created    |-> ClaimEvent({"facility_id", "approved_principal"}),
   claim_control    |-> ClaimEvent({"evidence_hash", "expires_at"}),
   claim_transition |-> ClaimEvent({"previous", "next", "reason_code", "version"})]

AssetEvents ==
  [asset_issued         |-> ClaimEvent({"holder", "amount"}),
   asset_redeemed       |-> ClaimEvent({"holder", "amount"}),
   holder_authorized    |-> ClaimEvent({"authorized"}),
   holder_frozen        |-> ClaimEvent({"reason_code"}),
   asset_clawback       |-> ClaimEvent({"amount", "reason_code"}),
   asset_claim_clawback |-> ClaimEvent({"holder", "amount", "remaining", "reason_code"})]

FacilityEvents ==
  [position_funded      |-> ClaimEvent({"principal", "first_loss", "seller"}),
   repayment_recorded   |-> ClaimEvent({"amount", "result_hash"}),
   position_written_off |-> ClaimEvent({"amount", "result_hash"})]

WaterfallEvents ==
  [waterfall_executed |-> ClaimEvent({"result_hash", "settlement", "principal_paid",
                                      "first_loss", "senior_loss"}),
   shortfall_detected |-> ClaimEvent({"senior_loss", "result_hash"})]

ResolutionEvents ==
  [resolution_opened |-> ClaimEvent({"reason_code", "evidence_hash"}),
   recovery_recorded |-> ClaimEvent({"amount", "evidence_hash"}),
   resolution_closed |-> ClaimEvent({"recovered", "final_loss", "resolution_hash"})]

Published ==
  [eligibility_registry |-> RegistryEvents, claim_lifecycle |-> LifecycleEvents,
   asset_controller |-> AssetEvents, facility |-> FacilityEvents,
   servicing_waterfall |-> WaterfallEvents, resolution_manager |-> ResolutionEvents]

RegistryDecoders ==
  [attestation_registered |-> {"attestation_key", "envelope_hash", "expires_at"},
   attestation_revoked    |-> {"reason_code"}]

LifecycleDecoders ==
  [claim_created    |-> {"approved_principal", "facility_id"},
   claim_control    |-> {"evidence_hash", "expires_at"},
   claim_transition |-> {"next", "previous", "reason_code", "version"}]

AssetDecoders ==
  [asset_issued         |-> {"amount", "holder"},
   asset_redeemed       |-> {"amount", "holder"},
   holder_authorized    |-> {"authorized"},
   holder_frozen        |-> {"reason_code"},
   asset_clawback       |-> {"amount", "reason_code"},
   asset_claim_clawback |-> {"amount", "holder", "reason_code", "remaining"}]

FacilityDecoders ==
  [position_funded      |-> {"first_loss", "principal", "seller"},
   repayment_recorded   |-> {"amount", "result_hash"},
   position_written_off |-> {"amount", "result_hash"}]

\* slip: the decoder of the event of an earlier version of the contract
WaterfallDecoders_former ==
  [waterfall_executed |-> {"first_loss", "principal_paid", "result_hash", "settlement"},
   shortfall_detected |-> {"result_hash", "senior_loss"}]

WaterfallDecoders ==
  [waterfall_executed |-> {"first_loss", "principal_paid", "result_hash", "senior_loss",
                           "settlement"},
   shortfall_detected |-> {"result_hash", "senior_loss"}]

ResolutionDecoders ==
  [resolution_opened |-> {"evidence_hash", "reason_code"},
   recovery_recorded |-> {"amount", "evidence_hash"},
   resolution_closed |-> {"final_loss", "recovered", "resolution_hash"}]

decoders ==
  [eligibility_registry |-> RegistryDecoders, claim_lifecycle |-> LifecycleDecoders,
   asset_controller |-> AssetDecoders, facility |-> FacilityDecoders,
   servicing_waterfall |-> WaterfallDecoders, resolution_manager |-> ResolutionDecoders]

(* claimTopics, identifierTopics and addressIdentifierTopics.              *)
TopicCount == 4

(* decodeCanonicalEvent does not throw on event type t of the contract.    *)
Decodes(contract, t) ==
  /\ t \in DOMAIN decoders[contract]
  /\ Published[contract][t].topics = TopicCount
  /\ Published[contract][t].fields = decoders[contract][t]

-----------------------------------------------------------------------------
Ids == DOMAIN emitted
Contracts == {watch[i] : i \in DOMAIN watch}

Idle == [step |-> "idle", at |-> 0, latest |-> 0, start |-> 0, cursor |-> 0, page |-> {}]

IntakeInit ==
  /\ watch \in Watches
  /\ tip = FirstLedger /\ oldest = FirstLedger /\ emitted = <<>>
  /\ stored = {}
  /\ checkpoints = [c \in Range(contractNames) |-> 0]
  /\ cycles = [w \in Cyclers |-> Idle]
  /\ aborts = 0

(* A contract publishes an event of one of its types, in the ledger that   *)
(* is being closed.                                                        *)
Publish(c) ==
  /\ Len(emitted) < MaxEvents
  /\ \E t \in DOMAIN Published[c] :
       emitted' = Append(emitted, [contract |-> c, ledger |-> tip, decodes |-> Decodes(c, t)])
  /\ UNCHANGED <<watch, tip, oldest, tables, cycles, aborts>>

CloseLedger ==
  /\ tip < MaxLedger
  /\ tip' = tip + 1
  /\ UNCHANGED <<watch, oldest, emitted, tables, cycles, aborts>>

(* The RPC forgets its oldest ledger, never one that has just closed.      *)
Forget ==
  /\ oldest + 1 < tip
  /\ oldest' = oldest + 1
  /\ UNCHANGED <<watch, tip, emitted, tables, cycles, aborts>>

-----------------------------------------------------------------------------
(* One cycle.  The steps are its awaits.                                   *)

Goto(w, c) == cycles' = [cycles EXCEPT ![w] = c]

(* index: the latest ledger is left out, events may still come in it.      *)
Begin(w) ==
  /\ cycles[w].step = "idle"
  /\ Goto(w, [Idle EXCEPT !.step = "load", !.at = 1, !.latest = Max({FirstLedger, tip - 1})])
  /\ UNCHANGED <<chainSide, tables, aborts>>

(* The ledger a cycle resumes from.                                        *)
startLedger(contract) ==
  IF checkpoints[contract] = 0 THEN FirstLedger
  ELSE Max({FirstLedger, checkpoints[contract] - Overlap})

Load(w) ==
  LET c == cycles[w]
  IN  /\ c.step = "load"
      /\ Goto(w, [c EXCEPT !.step = "fetch", !.start = startLedger(watch[c.at])])
      /\ UNCHANGED <<chainSide, tables, aborts>>

(* getEvents of the RPC: the first page is bounded by the ledgers asked    *)
(* for, a later one only by where the one before it ended.                 *)
EventsFrom(c) ==
  {i \in Ids : /\ emitted[i].contract = watch[c.at] /\ emitted[i].ledger >= oldest
               /\ IF c.cursor = 0
                  THEN emitted[i].ledger \in c.start..c.latest
                  ELSE i > c.cursor}

(* The first of them, by id, that a page has room for.                     *)
PageOf(c) ==
  {i \in EventsFrom(c) : Cardinality({j \in EventsFrom(c) : j < i}) < PageSize}

WithinSnapshot(c, page) == {i \in page : emitted[i].ledger <= c.latest}

(* No page follows: this one is not full, or goes beyond the snapshot.     *)
IsLast(c, page) == Cardinality(page) < PageSize \/ WithinSnapshot(c, page) # page

(* The cycle goes on after a page, or after the last one.                  *)
Onward(c, page) ==
  IF IsLast(c, page) THEN [c EXCEPT !.step = "finish", !.page = {}]
  ELSE [c EXCEPT !.step = "fetch", !.cursor = Max(page), !.page = {}]

(* The page says that the RPC no longer holds the first ledger asked for.  *)
OutOfRetention(c) == c.start < oldest

(* A page arrives: a range that is not retained and an event that cannot   *)
(* be decoded end the cycle, for this contract and for those after it.     *)
Fetch(w) ==
  LET c == cycles[w]
      page == PageOf(c)
      within == WithinSnapshot(c, page)
      malformed == \E i \in within : ~ emitted[i].decodes
  IN  /\ c.step = "fetch"
      /\ Goto(w, IF OutOfRetention(c) \/ malformed THEN Idle
                 ELSE IF within = {} THEN Onward(c, page)
                 ELSE [c EXCEPT !.step = "store", !.page = page])
      /\ UNCHANGED <<chainSide, tables, aborts>>

\* slip: the checkpoint of a page is the end of the snapshot
PageCheckpoint_ahead(c) == c.latest

(* The checkpoint stored with a page: the ledger of its last event.        *)
PageCheckpoint(c) == emitted[Max(WithinSnapshot(c, c.page))].ledger

(* commitEvents: one transaction stores the events that are not there yet  *)
(* and writes the checkpoint, over whatever is in it.                      *)
Store(w) ==
  LET c == cycles[w]
  IN  /\ c.step = "store"
      /\ stored' = stored \union WithinSnapshot(c, c.page)
      /\ checkpoints' = [checkpoints EXCEPT ![watch[c.at]] = PageCheckpoint(c)]
      /\ Goto(w, Onward(c, c.page))
      /\ UNCHANGED <<chainSide, aborts>>

(* The contract is done: its checkpoint becomes the end of the snapshot.   *)
Finish(w) ==
  LET c == cycles[w]
  IN  /\ c.step = "finish"
      /\ checkpoints' = [checkpoints EXCEPT ![watch[c.at]] = c.latest]
      /\ Goto(w, IF c.at = Len(watch) THEN Idle
                 ELSE [Idle EXCEPT !.step = "load", !.at = c.at + 1, !.latest = c.latest])
      /\ UNCHANGED <<chainSide, stored, aborts>>

(* A call of the RPC or of the database throws, or the process ends: the   *)
(* loop goes on with a new cycle.                                          *)
Abort(w) ==
  /\ cycles[w].step # "idle" /\ aborts < MaxAborts
  /\ aborts' = aborts + 1
  /\ Goto(w, Idle)
  /\ UNCHANGED <<chainSide, tables>>

CycleStep(w) == Begin(w) \/ Load(w) \/ Fetch(w) \/ Store(w) \/ Finish(w)

IntakeNext ==
  \/ CloseLedger \/ Forget
  \/ \E c \in Contracts : Publish(c)
  \/ \E w \in Cyclers : CycleStep(w) \/ Abort(w)

(* runChainIndexerLoop never stops, and ledgers keep closing.              *)
IntakeFairness ==
  /\ WF_intakeVars(CloseLedger)
  /\ \A w \in Cyclers : WF_intakeVars(CycleStep(w))

IntakeSpec == IntakeInit /\ [][IntakeNext]_intakeVars /\ IntakeFairness

-----------------------------------------------------------------------------
(* Properties.                                                             *)

IntakeEvent == [contract : Range(contractNames), ledger : Nat \ {0}, decodes : BOOLEAN]

IntakeCycle == [step : {"idle", "load", "fetch", "store", "finish"}, at : Nat,
                latest : Nat, start : Nat, cursor : Nat, page : SUBSET Nat]

IntakeTypeOK ==
  /\ watch \in Seq(Range(contractNames)) /\ watch # <<>>
  /\ tip \in Nat \ {0} /\ oldest \in Nat
  /\ emitted \in Seq(IntakeEvent)
  /\ stored \subseteq Ids
  /\ checkpoints \in [Range(contractNames) -> Nat]
  /\ cycles \in [Cyclers -> IntakeCycle]
  /\ aborts \in 0..MaxAborts

(* NothingSkipped: every event of a ledger before the one the next cycle   *)
(* would resume from is stored, whatever pages, overlapping cycles, failed *)
(* cycles and the retention of the RPC did on the way: an event that is    *)
(* below it can never be read again.                                       *)
NothingSkipped ==
  \A i \in Ids : emitted[i].ledger < startLedger(emitted[i].contract) => i \in stored

(* EventsAreStored: again and again every event of the ledgers that are     *)
(* closed for good is stored, unless the RPC has forgotten a ledger that a *)
(* cycle still needs.  For that every event type a contract declares has   *)
(* to be one its decoder accepts, or the first such event stops the cycles *)
(* at its contract for ever.                                               *)
Readable == \A c \in Contracts : oldest <= startLedger(c)

CaughtUp == \A i \in Ids : emitted[i].ledger < MaxLedger => i \in stored

EventsAreStored == []<>(CaughtUp \/ ~ Readable)
=============================================================================
