--------------------------- MODULE SettlementDesk ---------------------------
(***************************************************************************)
(* How a settlement of one claim gets into the database: the browser tabs  *)
(* in which the servicer presses RECORD_SETTLEMENT and RUN_WATERFALL, the  *)
(* requests they send, and PostgresSettlementJournal.ingest, one database  *)
(* transaction that claims the idempotency key, looks for the event under  *)
(* another key, and stores it.                                             *)
(*                                                                         *)
(* What a tab sends is fixed for a claim but for occurredAt, the time the  *)
(* claim's row was last updated, so a payload and its hash are that time.  *)
(* Records expire after a day and are never removed, so expiry is left out.*)
(***************************************************************************)
EXTENDS Integers, FiniteSets

CONSTANTS
  Desks,           \* browser tabs
  Connections,     \* requests that may be under way at the same time
  SettlementKeys,  \* idempotency keys the tabs draw
  MaxUpdates       \* bound: updates of the claim's row in a behaviour

ASSUME DeskAssumption ==
  /\ IsFiniteSet(Desks) /\ IsFiniteSet(Connections) /\ MaxUpdates \in Nat
  /\ "none" \notin SettlementKeys \union Connections

VARIABLES
  claimUpdates,    \* updated_at of the claim's row
  settlements,     \* settlement_events rows of the claim
  settlementKeys,  \* idempotency_records of createSettlementEvent
  connections,     \* what each request is doing
  desks,           \* the command a tab has under way, and the event it knows
  waterfalled      \* the events that tabs asked the waterfall to settle

deskRows == <<settlements, settlementKeys>>
deskVars == <<claimUpdates, deskRows, connections, desks, waterfalled>>

NoAnswer == [at |-> -1, event |-> "none"]
Closed == [pc |-> "closed", key |-> "none", at |-> -1, answer |-> "none"]
Fresh == [pc |-> "idle", key |-> "none", line |-> "none", known |-> "none"]

DeskInit ==
  /\ claimUpdates = 0
  /\ settlements = {} /\ settlementKeys = [k \in SettlementKeys |-> NoAnswer]
  /\ connections = [n \in Connections |-> Closed]
  /\ desks = [d \in Desks |-> Fresh]
  /\ waterfalled = {}

(* The indexer and the other modules write to the claim's row.             *)
touchClaim ==
  /\ claimUpdates < MaxUpdates /\ claimUpdates' = claimUpdates + 1
  /\ UNCHANGED <<deskRows, connections, desks, waterfalled>>

-----------------------------------------------------------------------------
(* The tabs.                                                               *)

ExternalId_perCommand(k) == k  \* slip: a name of its own for every command

(* The name of the event in its source: one for each claim.                *)
ExternalId(k) == "claim"

(* A key the database cannot have seen.                                    *)
Unseen(k) ==
  /\ settlementKeys[k] = NoAnswer
  /\ \A n \in Connections : connections[n].key # k
  /\ \A d \in Desks : desks[d].key # k

(* The panel keeps the key of a command that failed; the gateway reads the *)
(* workspace again and sends what it finds there.                          *)
recordSettlement(d, n, k) ==
  /\ desks[d].pc = "idle" /\ connections[n] = Closed
  /\ desks[d].key = k \/ (desks[d].key = "none" /\ Unseen(k))
  /\ connections' = [connections EXCEPT ![n] = [pc |-> "sent", key |-> k, at |-> claimUpdates, answer |-> "none"]]
  /\ desks' = [desks EXCEPT ![d] = [@ EXCEPT !.pc = "waiting", !.key = k, !.line = n]]
  /\ UNCHANGED <<claimUpdates, deskRows, waterfalled>>

(* The connection breaks while the API goes on with the request.           *)
giveUp(d) ==
  /\ desks[d].pc = "waiting"
  /\ desks' = [desks EXCEPT ![d] = [@ EXCEPT !.pc = "idle", !.line = "none"]]
  /\ UNCHANGED <<claimUpdates, deskRows, connections, waterfalled>>

(* After an answer the gateway reads the workspace once more: only then is *)
(* the command done, and its key dropped.                                  *)
refreshWorkspace(d) ==
  /\ desks[d].pc = "refreshing"
  /\ \E kept \in {"none", desks[d].key} :
       desks' = [desks EXCEPT ![d] = [@ EXCEPT !.pc = "idle", !.key = kept]]
  /\ UNCHANGED <<claimUpdates, deskRows, connections, waterfalled>>

(* The panel is gone when the page is left; the event a tab knows outlives *)
(* that, but not another sign-in through the demo's reset.                 *)
leavePage(d) ==
  /\ desks[d].pc = "idle"
  /\ \E known \in {"none", desks[d].known} : desks' = [desks EXCEPT ![d] = [Fresh EXCEPT !.known = known]]
  /\ UNCHANGED <<claimUpdates, deskRows, connections, waterfalled>>

runWaterfall(d) ==
  /\ desks[d].pc = "idle" /\ desks[d].known # "none"
  /\ waterfalled' = waterfalled \union {desks[d].known}
  /\ UNCHANGED <<claimUpdates, deskRows, connections, desks>>

-----------------------------------------------------------------------------
(* ingest.                                                                 *)

Replied(n, answer) == connections' = [connections EXCEPT ![n].pc = "answered", ![n].answer = answer]

Completed(k, at, event) == settlementKeys' = [settlementKeys EXCEPT ![k] = [at |-> at, event |-> event]]

(* Rows that the unique index on source and external id sees.              *)
Namesakes(k) == {e \in settlements : e.external = ExternalId(k)}

(* An event under another hash cannot be the one the request describes.    *)
Contradicts(e, at) == e.at # at

(* The claim of the key waits for a transaction that has claimed it.  A    *)
(* completed key answers for its payload only; a known event completes the *)
(* key of a second request for it; a new one is stored.                    *)
beginIngest(n) ==
  LET k == connections[n].key
      at == connections[n].at
  IN
  /\ connections[n].pc = "sent"
  /\ \A m \in Connections : ~ (connections[m].pc = "storing" /\ connections[m].key = k)
  /\ \/ /\ settlementKeys[k] # NoAnswer
        /\ Replied(n, IF settlementKeys[k].at = at THEN settlementKeys[k].event ELSE "conflict")
        /\ UNCHANGED settlementKeys
     \/ /\ settlementKeys[k] = NoAnswer /\ Namesakes(k) = {}
        /\ connections' = [connections EXCEPT ![n].pc = "storing"]
        /\ UNCHANGED settlementKeys
     \/ /\ settlementKeys[k] = NoAnswer
        /\ \E e \in Namesakes(k) :
             IF Contradicts(e, at) THEN Replied(n, "conflict") /\ UNCHANGED settlementKeys
             ELSE Replied(n, e.id) /\ Completed(k, at, e.id)
  /\ UNCHANGED <<claimUpdates, settlements, desks, waterfalled>>

(* The rest of the transaction: a row that came first fails it, and the    *)
(* claim of the key goes with it.  The new row is named by its key.        *)
commitIngest(n) ==
  LET k == connections[n].key
      at == connections[n].at
  IN
  /\ connections[n].pc = "storing"
  /\ IF Namesakes(k) # {} THEN Replied(n, "failed") /\ UNCHANGED deskRows
     ELSE /\ settlements' = settlements \union {[id |-> k, external |-> ExternalId(k), at |-> at]}
          /\ Replied(n, k) /\ Completed(k, at, k)
  /\ UNCHANGED <<claimUpdates, desks, waterfalled>>

(* The tab that still waits learns the event, or keeps the key.            *)
Told(d, answer) ==
  IF answer \in {"conflict", "failed"} THEN [desks[d] EXCEPT !.pc = "idle", !.line = "none"]
  ELSE [desks[d] EXCEPT !.pc = "refreshing", !.line = "none", !.known = answer]

answerDesk(n) ==
  /\ connections[n].pc = "answered"
  /\ connections' = [connections EXCEPT ![n] = Closed]
  /\ desks' = [d \in Desks |-> IF desks[d].line = n THEN Told(d, connections[n].answer) ELSE desks[d]]
  /\ UNCHANGED <<claimUpdates, deskRows, waterfalled>>

(* The process ends, and an open transaction with it.                      *)
dropRequest(n) ==
  /\ connections[n] # Closed
  /\ connections' = [connections EXCEPT ![n] = Closed]
  /\ desks' = [d \in Desks |-> IF desks[d].line = n THEN Told(d, "failed") ELSE desks[d]]
  /\ UNCHANGED <<claimUpdates, deskRows, waterfalled>>

DeskNext ==
  \/ touchClaim
  \/ \E d \in Desks :
       \/ \E n \in Connections, k \in SettlementKeys : recordSettlement(d, n, k)
       \/ giveUp(d) \/ refreshWorkspace(d) \/ leavePage(d) \/ runWaterfall(d)
  \/ \E n \in Connections : beginIngest(n) \/ commitIngest(n) \/ answerDesk(n) \/ dropRequest(n)

DeskSpec == DeskInit /\ [][DeskNext]_deskVars

-----------------------------------------------------------------------------
DeskTypeOK ==
  /\ claimUpdates \in 0..MaxUpdates
  /\ settlements \subseteq [id : SettlementKeys, external : {"claim"} \union SettlementKeys, at : 0..MaxUpdates]
  /\ \A k \in SettlementKeys : settlementKeys[k].event \in {"none"} \union SettlementKeys
  /\ \A d \in Desks : desks[d].line \in {"none"} \union Connections

(* OneSettlementPerClaim: however often tabs press the button, with keys   *)
(* kept or drawn anew and the claim's row changing under them, and though  *)
(* two requests may store at once and one is rolled back, one event is     *)
(* stored; it is the one every tab knows and asks to settle, and the one a *)
(* completed key answers with, for the very payload the key was used with. *)
OneSettlementPerClaim ==
  /\ \A e \in waterfalled \union {desks[d].known : d \in {b \in Desks : desks[b].known # "none"}} :
       {s.id : s \in settlements} = {e}
  /\ \A k \in SettlementKeys : settlementKeys[k] # NoAnswer =>
       \E s \in settlements : s.id = settlementKeys[k].event /\ s.at = settlementKeys[k].at
=============================================================================
