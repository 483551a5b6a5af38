------------------------ MODULE EligibilityRegistry ------------------------
(***************************************************************************)
(* JejakEligibilityRegistry: the on-chain register of oracle attestations. *)
(* A registered attestation is never overwritten, a revocation is never    *)
(* withdrawn, and an attestation is active while it is registered, not     *)
(* revoked and not expired.  A call that returns an error changes nothing, *)
(* so a rejected call is simply not enabled here.                          *)
(*                                                                         *)
(* The score and value an attestation carries (sds_bps, esv_base_units)    *)
(* are validated at registration and read by no contract, so only          *)
(* well-formed attestations are offered to RegisterAttestation.            *)
(***************************************************************************)
EXTENDS Integers

CONSTANTS
  Claims,        \* claim keys
  Attestations,  \* attestation keys
  Oracles,       \* addresses that may be enabled as oracles
  Admin,         \* the deployer address every contract is initialised with
  MaxTime        \* bound on the ledger clock

ASSUME ClockAssumption == MaxTime \in Nat
ASSUME AdminAssumption == Admin \notin Oracles

VARIABLES
  now,           \* the ledger timestamp
  oracles,       \* DataKey::Oracle(_) entries that are true
  attestations,  \* DataKey::Attestation(_) entries
  revoked        \* keys that have a DataKey::Revoked(_) entry

registryVars == <<now, oracles, attestations, revoked>>

Times == 0 .. MaxTime + 1

Attestation ==
  [key : Attestations, claim : Claims, oracle : Oracles, expires_at : Times]

RegistryTypeOK ==
  /\ now \in 0 .. MaxTime
  /\ oracles \subseteq Oracles
  /\ attestations \subseteq Attestation
  /\ revoked \subseteq Attestations

RegistryInit ==
  /\ now = 0
  /\ oracles \in {{o} : o \in Oracles}
  /\ attestations = {}
  /\ revoked = {}

Registered(a) == \E r \in attestations : r.key = a

AttestedFor(a, c) == \E r \in attestations : r.key = a /\ r.claim = c

is_active(a, t) ==
  /\ a \notin revoked
  /\ \E r \in attestations : r.key = a /\ t < r.expires_at

-----------------------------------------------------------------------------

(* A ledger closes: the timestamp every contract reads moves on.           *)
Tick ==
  /\ now < MaxTime
  /\ now' = now + 1
  /\ UNCHANGED <<oracles, attestations, revoked>>

set_oracle(o, enabled) ==
  /\ oracles' = IF enabled THEN oracles \cup {o} ELSE oracles \ {o}
  /\ UNCHANGED <<now, attestations, revoked>>

\* slip: an attestation that is no longer active may be registered afresh
register_attestation_again(o, a, c, expires_at) ==
  /\ o \in oracles
  /\ expires_at > now
  /\ ~ is_active(a, now)
  /\ attestations' = {r \in attestations : r.key # a} \cup
       {[key |-> a, claim |-> c, oracle |-> o, expires_at |-> expires_at]}
  /\ UNCHANGED <<now, oracles, revoked>>

register_attestation(o, a, c, expires_at) ==
  /\ o \in oracles
  /\ expires_at > now
  /\ ~ Registered(a)
  /\ attestations' = attestations \cup
       {[key |-> a, claim |-> c, oracle |-> o, expires_at |-> expires_at]}
  /\ UNCHANGED <<now, oracles, revoked>>

revoke_attestation(actor, a) ==
  /\ actor = Admin \/ actor \in oracles
  /\ Registered(a)
  /\ a \notin revoked
  /\ revoked' = revoked \cup {a}
  /\ UNCHANGED <<now, oracles, attestations>>

RegistryCall ==
  \/ Tick
  \/ \E o \in Oracles, a \in Attestations, c \in Claims, t \in Times :
       register_attestation(o, a, c, t)
  \/ \E actor \in Oracles \cup {Admin}, a \in Attestations :
       revoke_attestation(actor, a)

OracleChange == \E o \in Oracles, enabled \in BOOLEAN : set_oracle(o, enabled)

RegistryNext == RegistryCall \/ OracleChange

RegistrySpec == RegistryInit /\ [][RegistryNext]_registryVars

-----------------------------------------------------------------------------

(* An attestation key names one attestation: register_attestation refuses  *)
(* a key that is present, whichever oracle and claim it comes with.        *)
KeysAreUnique ==
  \A r, s \in attestations : r.key = s.key => r = s

(* An attestation that was registered and is no longer active, because it  *)
(* was revoked or because the clock passed its expiry, never becomes       *)
(* active again: no oracle rotation and no second registration revives it. *)
NeverReactivated ==
  [][\A a \in Attestations :
        Registered(a) /\ ~ is_active(a, now) => ~ is_active(a, now)']_registryVars

=============================================================================
