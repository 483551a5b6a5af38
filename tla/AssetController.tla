-------------------------- MODULE AssetController --------------------------
(***************************************************************************)
(* JejakAssetController: issues and burns the JCLAIM token against a claim *)
(* and keeps, per claim, how much of it is outstanding (Issued) and who    *)
(* holds it (Holder).  The token itself is an external Stellar Asset       *)
(* Contract: its balances and authorisation flags are `jclaim` and         *)
(* `authorized`, and a token call that would fail makes the whole call     *)
(* fail.  Redeem is signed by the issuer operator and by the holder.       *)
(***************************************************************************)
EXTENDS ClaimLifecycle

CONSTANTS
  Holders,         \* addresses that can hold JCLAIM
  IssuerOperator   \* the operator the controller was initialised with

ASSUME HolderAssumption == IssuerOperator \in Actors /\ None \notin Holders

VARIABLES
  issued,          \* DataKey::Issued(_): outstanding JCLAIM per claim
  holder,          \* DataKey::Holder(_)
  frozen,          \* DataKey::Frozen(_) entries that are true
  assetPausers,    \* DataKey::Pauser(_) entries that are true
  assetPaused,     \* DataKey::GlobalPause
  jclaim,          \* external: JCLAIM balances
  authorized       \* external: holders the JCLAIM issuer has authorised

assetVars ==
  <<issued, holder, frozen, assetPausers, assetPaused, jclaim, authorized>>

AssetTypeOK ==
  /\ issued \in [Claims -> Nat]
  /\ holder \in [Claims -> Holders \cup {None}]
  /\ frozen \subseteq Holders
  /\ assetPausers \subseteq Actors
  /\ assetPaused \in BOOLEAN
  /\ jclaim \in [Holders -> Nat]
  /\ authorized \subseteq Holders

AssetInit ==
  /\ issued = [c \in Claims |-> 0]
  /\ holder = [c \in Claims |-> None]
  /\ frozen = {}
  /\ assetPausers = {actor \in Actors : <<"Pauser", actor>> \in Wiring}
  /\ assetPaused = FALSE
  /\ jclaim = [h \in Holders |-> 0]
  /\ authorized = {}

-----------------------------------------------------------------------------

set_pauser(actor, enabled) ==
  /\ assetPausers' = IF enabled THEN assetPausers \cup {actor} ELSE assetPausers \ {actor}
  /\ UNCHANGED <<claims, issued, holder, frozen, assetPaused, jclaim, authorized>>

set_global_pause(actor, paused) ==
  /\ actor \in assetPausers
  /\ assetPaused' = paused
  /\ UNCHANGED <<claims, issued, holder, frozen, assetPausers, jclaim, authorized>>

authorize_holder(operator, h, enabled) ==
  /\ operator = IssuerOperator
  /\ ~ assetPaused
  /\ authorized' = IF enabled THEN authorized \cup {h} ELSE authorized \ {h}
  /\ frozen' = IF enabled THEN frozen \ {h} ELSE frozen \cup {h}
  /\ UNCHANGED <<claims, issued, holder, assetPausers, assetPaused, jclaim>>

freeze(actor, h) ==
  /\ actor = IssuerOperator \/ actor \in assetPausers
  /\ authorized' = authorized \ {h}
  /\ frozen' = frozen \cup {h}
  /\ UNCHANGED <<claims, issued, holder, assetPausers, assetPaused, jclaim>>

(* Mint against a controlled claim and move it to Issued.  Minting to a    *)
(* holder the token has not authorised fails.                              *)
issue(operator, c, h, amount) ==
  /\ operator = IssuerOperator
  /\ ~ assetPaused
  /\ amount > 0
  /\ issued[c] = 0
  /\ h \notin frozen
  /\ claims[c].state = "Controlled"
  /\ ControlLive(claims[c])
  /\ attestation_active(c)
  /\ amount <= claims[c].approved
  /\ h \in authorized
  /\ jclaim' = [jclaim EXCEPT ![h] = @ + amount]
  /\ issued' = [issued EXCEPT ![c] = amount]
  /\ holder' = [holder EXCEPT ![c] = h]
  /\ TransitionAllowed(operator, claims[c], "Controlled", "Issued")
  /\ claims' = Moved(c, "Issued")
  /\ UNCHANGED <<frozen, assetPausers, assetPaused, authorized>>

(* Burn some of what a claim has outstanding.  The last unit burnt on a    *)
(* repaid claim moves it to Redeemed; in any other state the claim stays.  *)
redeem(operator, c, h, amount) ==
  /\ operator = IssuerOperator
  /\ amount > 0
  /\ amount <= issued[c]
  /\ holder[c] = h
  /\ h \in authorized /\ amount <= jclaim[h]
  /\ jclaim' = [jclaim EXCEPT ![h] = @ - amount]
  /\ issued' = [issued EXCEPT ![c] = @ - amount]
  /\ IF issued[c] = amount /\ claims[c].state = "Repaid"
       THEN /\ TransitionAllowed(operator, claims[c], "Repaid", "Redeemed")
            /\ claims' = Moved(c, "Redeemed")
       ELSE UNCHANGED claims
  /\ UNCHANGED <<holder, frozen, assetPausers, assetPaused, authorized>>

(* The generic clawback takes tokens and leaves Issued as it was.          *)
clawback(operator, h, amount) ==
  /\ operator = IssuerOperator
  /\ amount > 0
  /\ amount <= jclaim[h]
  /\ jclaim' = [jclaim EXCEPT ![h] = @ - amount]
  /\ UNCHANGED <<claims, issued, holder, frozen, assetPausers, assetPaused, authorized>>

\* slip: all that the holder has is taken for what the claim has outstanding
clawback_claim_balance(operator, c, h, amount) ==
  /\ operator = IssuerOperator
  /\ amount > 0 /\ amount = issued[c]
  /\ holder[c] = h
  /\ jclaim' = [jclaim EXCEPT ![h] = 0]
  /\ issued' = [issued EXCEPT ![c] = 0]
  /\ UNCHANGED <<claims, holder, frozen, assetPausers, assetPaused, authorized>>

(* The claim-aware clawback also reduces what the claim has outstanding.   *)
clawback_claim(operator, c, h, amount) ==
  /\ operator = IssuerOperator
  /\ amount > 0
  /\ amount <= issued[c]
  /\ holder[c] = h
  /\ amount <= jclaim[h]
  /\ jclaim' = [jclaim EXCEPT ![h] = @ - amount]
  /\ issued' = [issued EXCEPT ![c] = @ - amount]
  /\ UNCHANGED <<claims, holder, frozen, assetPausers, assetPaused, authorized>>

close_claim(operator, c) ==
  /\ operator = IssuerOperator
  /\ issued[c] = 0
  /\ TransitionAllowed(operator, claims[c], "Redeemed", "Closed")
  /\ claims' = Moved(c, "Closed")
  /\ UNCHANGED assetVars

-----------------------------------------------------------------------------

Amounts == UNION {1 .. p : p \in Principals}

AssetCall ==
  \/ \E c \in Claims, h \in Holders, n \in Amounts : issue(IssuerOperator, c, h, n)
  \/ \E c \in Claims, h \in Holders, n \in Amounts : redeem(IssuerOperator, c, h, n)
  \/ \E c \in Claims : close_claim(IssuerOperator, c)
  \/ \E h \in Holders : authorize_holder(IssuerOperator, h, TRUE)

AssetBreaker == \E actor \in Actors, paused \in BOOLEAN : set_global_pause(actor, paused)

(* What an operator does about a compromised holder.                       *)
HolderIncident ==
  \/ \E h \in Holders : authorize_holder(IssuerOperator, h, FALSE)
  \/ \E actor \in Actors, h \in Holders : freeze(actor, h)
  \/ \E c \in Claims, h \in Holders, n \in Amounts : clawback_claim(IssuerOperator, c, h, n)

GenericClawback ==
  \E h \in Holders, n \in Amounts : clawback(IssuerOperator, h, n)

AssetPauserChange ==
  \E actor \in Actors, enabled \in BOOLEAN : set_pauser(actor, enabled)

=============================================================================
