---------------------------- MODULE JccLifecycle ----------------------------
(***************************************************************************)
(* JccApplicationService, for one credential: it is issued (signed, stored *)
(* and registered with the eligibility registry), revoked, and found to be *)
(* expired, by calls that may overlap, lose the answer of the network, or  *)
(* end between two steps.  issue is reached from the ORACLE's route, where *)
(* every call is issued at the time of the call, and from the RISK worker, *)
(* which issues at the time of the evaluation; no route leads to the other *)
(* two.  Signatures are deterministic, so an envelope is its issuedAt.     *)
(*                                                                         *)
(* The claim stays ANALYZED or ELIGIBLE and its snapshot usable, and the   *)
(* status of the JCC operations is left out: nothing decides on it.        *)
(***************************************************************************)
EXTENDS Integers

CONSTANTS
  Custodians,     \* calls that may be under way at the same time
  RevokeReasons,  \* reason codes of revocations
  ExpiresAt,      \* expiresAt of the credential
  MaxTime,        \* bound: the last moment of a behaviour
  MaxRowVersion,  \* bound: no call begins when the row has this version
  MaxLosses       \* bound: lost answers and ended calls in a behaviour

ASSUME JccAssumption ==
  /\ {"REGISTER", "none"} \cap RevokeReasons = {}
  /\ ExpiresAt \in Nat \ {0} /\ MaxTime \in Nat /\ MaxRowVersion \in Nat /\ MaxLosses \in Nat

VARIABLES
  issuer,       \* who issues: "route" or "worker"
  jccClock,     \* the time of the API's machine and of the ledger
  jcc,          \* eligibility_attestations row: status, version, issuedAt
  submissions,  \* chain_submissions rows, by the idempotency key
  registered,   \* the contract: issuedAt of the envelope registered, or -1
  revoked,      \* the contract: the reason of the revocation, or "none"
  inFlight,     \* transactions nobody heard of again: key and envelope
  indexedKeys,  \* keys whose event is in chain_events
  custodians,   \* where each call is
  losses        \* lost answers and ended calls so far

jccRows == <<jcc, submissions>>
jccChain == <<registered, revoked, inFlight, indexedKeys>>
jccVars == <<issuer, jccClock, jccRows, jccChain, custodians, losses>>

SubmissionKeys == {"REGISTER"} \union RevokeReasons
NoRow == [status |-> "NONE", version |-> 0, at |-> -1]
Free == [pc |-> "free", act |-> "none", key |-> "REGISTER", at |-> -1, row |-> NoRow]

Reached(c, pc) == custodians[c].pc = pc
Turn(c, pc) == custodians' = [custodians EXCEPT ![c].pc = pc]
Withdraw(c) == custodians' = [custodians EXCEPT ![c] = Free]
Loss == losses < MaxLosses /\ losses' = losses + 1

-----------------------------------------------------------------------------
(* Around the service.                                                     *)

JccInit ==
  /\ issuer \in {"route", "worker"} /\ jccClock = 0
  /\ jcc = NoRow
  /\ submissions = [k \in SubmissionKeys |-> "NONE"]
  /\ registered = -1 /\ revoked = "none"
  /\ inFlight = {} /\ indexedKeys = {}
  /\ custodians = [c \in Custodians |-> Free]
  /\ losses = 0

passTime ==
  /\ jccClock < MaxTime /\ jccClock' = jccClock + 1
  /\ UNCHANGED <<issuer, jccRows, jccChain, custodians, losses>>

HasEvent(k) == IF k = "REGISTER" THEN registered # -1 ELSE revoked = k

indexJccEvent(k) ==
  /\ HasEvent(k) /\ k \notin indexedKeys
  /\ indexedKeys' = indexedKeys \union {k}
  /\ UNCHANGED <<issuer, jccClock, jccRows, registered, revoked, inFlight, custodians, losses>>

(* What the contract accepts: a key once and before it expires, and one    *)
(* revocation of a registered key.                                         *)
Admits(k) ==
  IF k = "REGISTER" THEN registered = -1 /\ jccClock < ExpiresAt
  ELSE registered # -1 /\ revoked = "none"

Include(k, at) ==
  IF k = "REGISTER" THEN registered' = at /\ UNCHANGED revoked
  ELSE revoked' = k /\ UNCHANGED registered

(* A transaction whose sender gave up is included, or fails.               *)
landJccTransaction ==
  /\ \E tx \in inFlight :
       /\ inFlight' = inFlight \ {tx}
       /\ IF Admits(tx.key) THEN Include(tx.key, tx.at) ELSE UNCHANGED <<registered, revoked>>
  /\ UNCHANGED <<issuer, jccClock, jccRows, indexedKeys, custodians, losses>>

(* The process stops, or the signer, the verifier or the database fails.   *)
endCall(c) ==
  /\ ~ Reached(c, "free") /\ Withdraw(c) /\ Loss
  /\ UNCHANGED <<issuer, jccClock, jccRows, jccChain>>

-----------------------------------------------------------------------------
(* The first reads of the three operations.                                *)

MayOpen(c) == Reached(c, "free") /\ jcc.version < MaxRowVersion

Taken(act, key, at, pc) ==
  [pc |-> pc, act |-> act, key |-> key, at |-> at, row |-> jcc]

(* The evaluation is at the first moment.                                  *)
IssuedAt == IF issuer = "route" THEN jccClock ELSE 0

(* expiresAt lies after issuedAt.                                          *)
Signable(at) == at < ExpiresAt

(* An envelope of the same content, issuedAt included.                     *)
SameEnvelope(row, at) == row.at = at

(* issue: a call that does not fit the stored envelope is a conflict.      *)
openIssuance(c) ==
  LET at == IssuedAt IN
  /\ MayOpen(c) /\ Signable(at)
  /\ jcc = NoRow \/ SameEnvelope(jcc, at)
  /\ custodians' = [custodians EXCEPT ![c] =
       Taken("issue", "REGISTER", at, IF jcc = NoRow THEN "sign" ELSE "begin")]
  /\ UNCHANGED <<issuer, jccClock, jccRows, jccChain, losses>>

openRevoke(c, reason) ==
  /\ MayOpen(c) /\ jcc.status \notin {"NONE", "REVOKED"}
  /\ custodians' = [custodians EXCEPT ![c] = Taken("revoke", reason, -1, "begin")]
  /\ UNCHANGED <<issuer, jccClock, jccRows, jccChain, losses>>

openRefresh(c) ==
  /\ MayOpen(c) /\ jcc.status \notin {"NONE", "REVOKED", "EXPIRED"}
  /\ jccClock >= ExpiresAt
  /\ custodians' = [custodians EXCEPT ![c] = Taken("refresh", "REGISTER", jccClock, "read")]
  /\ UNCHANGED <<issuer, jccClock, jccRows, jccChain, losses>>

-----------------------------------------------------------------------------
(* The steps they share.                                                   *)

\* slip: the insert replaces the envelope of a call that was first
storeEnvelope_replacing(c) ==
  /\ Reached(c, "sign")
  /\ jcc' = [status |-> "PENDING_REGISTRATION", version |-> 1, at |-> custodians[c].at]
  /\ custodians' = [custodians EXCEPT ![c] = [@ EXCEPT !.pc = "begin", !.row = jcc']]
  /\ UNCHANGED <<issuer, jccClock, submissions, jccChain, losses>>

(* sign, verify and insertOrFind; another envelope is an error.            *)
storeEnvelope(c) ==
  /\ Reached(c, "sign")
  /\ jcc' = IF jcc = NoRow
            THEN [status |-> "PENDING_REGISTRATION", version |-> 1, at |-> custodians[c].at]
            ELSE jcc
  /\ IF SameEnvelope(jcc', custodians[c].at)
     THEN custodians' = [custodians EXCEPT ![c] = [@ EXCEPT !.pc = "begin", !.row = jcc']]
     ELSE Withdraw(c)
  /\ UNCHANGED <<issuer, jccClock, submissions, jccChain, losses>>

(* begin of the journal: a key with a transaction is replayed, one without *)
(* is new or to be recovered, and both go on to the network: nothing can   *)
(* be looked up.                                                           *)
beginSubmission(c) ==
  LET k == custodians[c].key IN
  /\ Reached(c, "begin")
  /\ submissions' = [submissions EXCEPT ![k] = IF @ = "NONE" THEN "PREPARED" ELSE @]
  /\ Turn(c, IF submissions[k] \in {"NONE", "PREPARED"} THEN "send" ELSE "reconcile")
  /\ UNCHANGED <<issuer, jccClock, jcc, jccChain, losses>>

(* register or revoke of the adapter: a refused one is an error, and so is *)
(* one whose answer is lost, wherever the transaction is then.             *)
sendTransaction(c) ==
  LET k == custodians[c].key
      at == custodians[c].row.at
  IN
  /\ Reached(c, "send")
  /\ \/ /\ Admits(k) /\ Include(k, at)
        /\ Turn(c, "submitted") /\ UNCHANGED <<inFlight, losses>>
     \/ /\ ~ Admits(k) /\ Withdraw(c)
        /\ UNCHANGED <<registered, revoked, inFlight, losses>>
     \/ /\ Admits(k) /\ Withdraw(c) /\ Loss
        /\ inFlight' = inFlight \union {[key |-> k, at |-> at]} /\ UNCHANGED <<registered, revoked>>
  /\ UNCHANGED <<issuer, jccClock, jccRows, indexedKeys>>

markJccSubmitted(c) ==
  /\ Reached(c, "submitted") /\ Turn(c, "reconcile")
  /\ submissions' = [submissions EXCEPT ![custodians[c].key] = "SUBMITTED"]
  /\ UNCHANGED <<issuer, jccClock, jcc, jccChain, losses>>

(* reconcile: only the event of the transaction itself counts.             *)
reconcileJcc(c) ==
  /\ Reached(c, "reconcile")
  /\ IF custodians[c].key \notin indexedKeys THEN Withdraw(c)
     ELSE Turn(c, IF custodians[c].act = "issue" THEN "read" ELSE "publish")
  /\ UNCHANGED <<issuer, jccClock, jccRows, jccChain, losses>>

(* read of the registry, as of a moment; a revoked credential that has     *)
(* expired as well reads as expired.                                       *)
LiveStatus(at) ==
  IF registered = -1 THEN "NONE"
  ELSE IF at >= ExpiresAt THEN "EXPIRED"
  ELSE IF revoked = "none" THEN "ACTIVE" ELSE "REVOKED"

(* The status an operation publishes.                                      *)
Outcome(act) == CASE act = "issue" -> "ACTIVE" [] act = "revoke" -> "REVOKED" [] OTHER -> "EXPIRED"

readRegistry(c) ==
  LET act == custodians[c].act IN
  /\ Reached(c, "read")
  /\ IF LiveStatus(custodians[c].at) = Outcome(act) THEN Turn(c, "publish") ELSE Withdraw(c)
  /\ UNCHANGED <<issuer, jccClock, jccRows, jccChain, losses>>

\* slip: the version of the row is not compared
publishStatus_blind(c) ==
  /\ Reached(c, "publish")
  /\ jcc' = [jcc EXCEPT !.status = Outcome(custodians[c].act), !.version = @ + 1]
  /\ IF custodians[c].act = "refresh" THEN Withdraw(c) ELSE Turn(c, "settle")
  /\ UNCHANGED <<issuer, jccClock, submissions, jccChain, losses>>

(* updateOperationalStatus, under the version that was read first.  issue  *)
(* writes whenever it did not read ACTIVE, an EXPIRED row included.        *)
publishStatus(c) ==
  LET act == custodians[c].act
      read == custodians[c].row
  IN  /\ Reached(c, "publish")
      /\ IF act = "issue" /\ read.status = "ACTIVE" THEN Turn(c, "settle") /\ UNCHANGED jcc
         ELSE IF jcc.version # read.version THEN Withdraw(c) /\ UNCHANGED jcc
         ELSE /\ jcc' = [jcc EXCEPT !.status = Outcome(act), !.version = @ + 1]
              /\ IF act = "refresh" THEN Withdraw(c) ELSE Turn(c, "settle")
      /\ UNCHANGED <<issuer, jccClock, submissions, jccChain, losses>>

markJccReconciled(c) ==
  /\ Reached(c, "settle") /\ Withdraw(c)
  /\ submissions' = [submissions EXCEPT ![custodians[c].key] = "RECONCILED"]
  /\ UNCHANGED <<issuer, jccClock, jcc, jccChain, losses>>

JccNext ==
  \/ passTime \/ landJccTransaction
  \/ \E k \in SubmissionKeys : indexJccEvent(k)
  \/ \E c \in Custodians :
       \/ openIssuance(c) \/ openRefresh(c) \/ \E reason \in RevokeReasons : openRevoke(c, reason)
       \/ storeEnvelope(c) \/ beginSubmission(c) \/ sendTransaction(c) \/ markJccSubmitted(c)
       \/ reconcileJcc(c) \/ readRegistry(c) \/ publishStatus(c) \/ markJccReconciled(c)
       \/ endCall(c)

JccSpec == JccInit /\ [][JccNext]_jccVars

-----------------------------------------------------------------------------
Moments == {-1} \union 0..MaxTime

Credentials == [status : {"NONE", "PENDING_REGISTRATION", "ACTIVE", "REVOKED", "EXPIRED"},
                version : Nat, at : Moments]

Calls == [pc : {"free", "sign", "begin", "send", "submitted", "reconcile", "read", "publish", "settle"},
          act : {"none", "issue", "revoke", "refresh"}, key : SubmissionKeys,
          at : Moments, row : Credentials]

JccTypeOK ==
  /\ issuer \in {"route", "worker"} /\ jccClock \in 0..MaxTime /\ losses \in 0..MaxLosses
  /\ jcc \in Credentials
  /\ submissions \in [SubmissionKeys -> {"NONE", "PREPARED", "SUBMITTED", "RECONCILED"}]
  /\ registered \in Moments /\ revoked \in {"none"} \union RevokeReasons
  /\ inFlight \subseteq [key : SubmissionKeys, at : Moments]
  /\ indexedKeys \subseteq SubmissionKeys
  /\ custodians \in [Custodians -> Calls]

(* RowFollowsRegistry: the envelope of the row is the one that is          *)
(* registered, whichever calls signed at the same time, and a status says  *)
(* what the registry and its indexed events say: ACTIVE only after the     *)
(* registration, REVOKED only after a revocation, and EXPIRED only when    *)
(* the moment has come and the credential was registered.                  *)
RowFollowsRegistry ==
  /\ registered # -1 => registered = jcc.at
  /\ jcc.status = "ACTIVE" => "REGISTER" \in indexedKeys
  /\ jcc.status = "REVOKED" => revoked \in indexedKeys
  /\ jcc.status = "EXPIRED" => registered # -1 /\ jccClock >= ExpiresAt

(* RevokedIsFinal: no call takes a row back out of REVOKED, one included   *)
(* that read the row and the registry before the revocation.               *)
RevokedIsFinal == [][jcc.status = "REVOKED" => jcc'.status = "REVOKED"]_jccVars
=============================================================================
