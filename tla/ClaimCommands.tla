--------------------------- MODULE ClaimCommands ---------------------------
(***************************************************************************)
(* The commands on claims and offers, over the mutation unit they share:   *)
(* POST /claims for one settlement snapshot, POST /claims/:id/offers and   *)
(* POST /offers/:id/accept.  A command claims its idempotency key, reads,  *)
(* decides and writes in one transaction at READ COMMITTED; what it reads  *)
(* is not locked, so the unique indexes decide between two that read the   *)
(* same.  A client repeats a request with the key and the body it had.     *)
(*                                                                         *)
(* A claim and an offer are named by the key that created them.            *)
(***************************************************************************)

CONSTANTS
  ClaimKeys,   \* keys of POST /claims
  OfferKeys,   \* keys of POST /claims/:id/offers
  AcceptKeys,  \* keys of POST /offers/:id/accept
  Clients      \* requests that may be under way at the same time

ASSUME CommandAssumption ==
  ClaimKeys \cap OfferKeys = {} /\ ClaimKeys \cap AcceptKeys = {} /\ OfferKeys \cap AcceptKeys = {}

VARIABLES
  streamClaims,  \* claims rows of the snapshot: state
  offers,        \* financing_offers rows: claim and status
  keys,          \* idempotency_records: the payload of the request, once completed
  bodies,        \* what the client of a key asks for, once it has
  clients        \* where each request is

commandVars == <<streamClaims, offers, keys, bodies, clients>>

CommandKeys == ClaimKeys \cup OfferKeys \cup AcceptKeys
TerminalStates == {"CLOSED", "REJECTED"}
NoOffer == [claim |-> "none", status |-> "NONE"]
NoPayload == [target |-> "none", hint |-> FALSE]
IdleClient == [pc |-> "idle", key |-> "none", payload |-> NoPayload, seen |-> FALSE]

ActiveClaims == {c \in ClaimKeys : streamClaims[c] \notin TerminalStates \cup {"NONE"}}
ActiveOffers(c) == {o \in OfferKeys : offers[o].claim = c /\ offers[o].status \in {"OFFERED", "ACCEPTED"}}

Serves(x, pc) == clients[x].pc = pc
Asked(x) == clients[x].key
Body(x) == clients[x].payload
Answered(x) == clients' = [clients EXCEPT ![x] = IdleClient]

-----------------------------------------------------------------------------

(* A request arrives.  The route of the offers reads hasActiveOffer, in a  *)
(* transaction of its own, and makes it part of the command's payload.     *)
ask(x, k) ==
  /\ Serves(x, "idle")
  /\ bodies' \in IF bodies[k] # "none" THEN {bodies}
       ELSE {[bodies EXCEPT ![k] = body] : body \in
               CASE k \in ClaimKeys -> {"stream"}
                 [] k \in OfferKeys -> {c \in ClaimKeys : streamClaims[c] # "NONE"}
                 [] OTHER -> {o \in OfferKeys : offers[o] # NoOffer}}
  /\ clients' = [clients EXCEPT ![x] = [IdleClient EXCEPT !.pc = "claim", !.key = k,
       !.payload = [target |-> bodies'[k], hint |-> k \in OfferKeys /\ ActiveOffers(bodies'[k]) # {}]]]
  /\ UNCHANGED <<streamClaims, offers, keys>>

(* A key that another transaction has inserted is waited for.              *)
KeyHeld(k) == \E y \in Clients : Serves(y, "mutate") /\ Asked(y) = k

(* What the transaction of a key reads before it writes.                   *)
Reads(k, target) ==
  CASE k \in ClaimKeys -> ActiveClaims = {}
    [] k \in OfferKeys -> streamClaims[target] = "ELIGIBLE"
    [] OTHER           -> offers[target].status = "OFFERED"

(* claim of the mutation unit: NEW, or an answer, REPLAY or CONFLICT by    *)
(* whether the payload is the recorded one.                                *)
claimKey(x) ==
  LET k == Asked(x) IN
  /\ Serves(x, "claim") /\ ~ KeyHeld(k)
  /\ IF keys[k] = NoPayload
     THEN clients' = [clients EXCEPT ![x] = [@ EXCEPT
            !.pc = "mutate", !.seen = Reads(k, Body(x).target)]]
     ELSE Answered(x)
  /\ UNCHANGED <<streamClaims, offers, keys, bodies>>

Completes(x) == keys' = [keys EXCEPT ![Asked(x)] = Body(x)] /\ Answered(x) /\ UNCHANGED bodies
Refuses(x) == Answered(x) /\ UNCHANGED <<keys, bodies>>

\* slip: what was read before decides, and no index
createClaim_unguarded(x) ==
  /\ Serves(x, "mutate") /\ Asked(x) \in ClaimKeys
  /\ IF clients[x].seen
     THEN streamClaims' = [streamClaims EXCEPT ![Asked(x)] = "DRAFT"] /\ Completes(x)
     ELSE Refuses(x) /\ UNCHANGED streamClaims
  /\ UNCHANGED offers

(* createClaim and the insert, under the index on active claims of a       *)
(* snapshot.                                                               *)
createClaim(x) ==
  /\ Serves(x, "mutate") /\ Asked(x) \in ClaimKeys
  /\ IF clients[x].seen /\ ActiveClaims = {}
     THEN streamClaims' = [streamClaims EXCEPT ![Asked(x)] = "DRAFT"] /\ Completes(x)
     ELSE Refuses(x) /\ UNCHANGED streamClaims
  /\ UNCHANGED offers

(* The insert of an offer, under the index on active offers of a claim.    *)
Vacant(c) == ActiveOffers(c) = {}
InsertOffer(o, c) == Vacant(c) /\ offers' = [offers EXCEPT ![o] = [claim |-> c, status |-> "OFFERED"]]

(* The update of an offer asks for the version that was read: it has none  *)
(* but the first while it is OFFERED.                                      *)
UpdateOffer(o, status) ==
  offers[o].status = "OFFERED" /\ offers' = [offers EXCEPT ![o].status = status]

createFinancingOffer(x) ==
  LET c == Body(x).target
      allowed == clients[x].seen /\ ~ Body(x).hint IN
  /\ Serves(x, "mutate") /\ Asked(x) \in OfferKeys
  /\ \/ allowed /\ InsertOffer(Asked(x), c) /\ Completes(x)
     \/ ~ (allowed /\ Vacant(c)) /\ Refuses(x) /\ UNCHANGED offers
  /\ UNCHANGED streamClaims

(* acceptFinancingOffer; nothing is asked of the claim.  An offer that has *)
(* expired keeps its status.                                               *)
acceptFinancingOffer(x) ==
  /\ Serves(x, "mutate") /\ Asked(x) \in AcceptKeys
  /\ \/ clients[x].seen /\ UpdateOffer(Body(x).target, "ACCEPTED") /\ Completes(x)
     \/ Refuses(x) /\ UNCHANGED offers
  /\ UNCHANGED streamClaims

(* The transaction fails, or the process ends: the key goes with it.       *)
rollBack(x) ==
  /\ Serves(x, "mutate")
  /\ clients' = [clients EXCEPT ![x] = IdleClient]
  /\ UNCHANGED <<streamClaims, offers, keys, bodies>>

(* The analysis, the worker and the finalizer move the claim.              *)
moveClaimOn(c) ==
  /\ \/ streamClaims[c] = "DRAFT" /\ streamClaims' = [streamClaims EXCEPT ![c] = "ELIGIBLE"]
     \/ streamClaims[c] \in {"DRAFT", "ELIGIBLE"}
        /\ \E state \in TerminalStates : streamClaims' = [streamClaims EXCEPT ![c] = state]
  /\ UNCHANGED <<offers, keys, bodies, clients>>

CommandInit ==
  /\ streamClaims = [c \in ClaimKeys |-> "NONE"]
  /\ offers = [o \in OfferKeys |-> NoOffer]
  /\ keys = [k \in CommandKeys |-> NoPayload]
  /\ bodies = [k \in CommandKeys |-> "none"]
  /\ clients = [x \in Clients |-> IdleClient]

CommandStep(x) ==
  \/ claimKey(x) \/ createClaim(x) \/ createFinancingOffer(x) \/ acceptFinancingOffer(x)

CommandNext ==
  \/ \E x \in Clients : CommandStep(x) \/ rollBack(x) \/ \E k \in CommandKeys : ask(x, k)
  \/ \E c \in ClaimKeys : moveClaimOn(c)

CommandSpec == CommandInit /\ [][CommandNext]_commandVars

-----------------------------------------------------------------------------

CommandTypeOK ==
  /\ streamClaims \in [ClaimKeys -> {"NONE", "DRAFT", "ELIGIBLE"} \cup TerminalStates]
  /\ offers \in [OfferKeys -> [claim : ClaimKeys \cup {"none"}, status : {"NONE", "OFFERED", "ACCEPTED"}]]
  /\ keys \in [CommandKeys -> [target : ClaimKeys \cup OfferKeys \cup {"stream", "none"}, hint : BOOLEAN]]
  /\ bodies \in [CommandKeys -> ClaimKeys \cup OfferKeys \cup {"stream", "none"}]
  /\ \A x \in Clients : clients[x].key \in CommandKeys \cup {"none"}

(* A settlement snapshot backs one active claim and a claim has one active *)
(* offer, whatever two commands have read before they write.               *)
OneActive ==
  /\ \A c, d \in ActiveClaims : c = d
  /\ \A c \in ClaimKeys : \A o, p \in ActiveOffers(c) : o = p

=============================================================================
