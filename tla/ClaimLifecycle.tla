--------------------------- MODULE ClaimLifecycle ---------------------------
(***************************************************************************)
(* JejakClaimLifecycle: the claim state machine the other contracts drive. *)
(* A claim is created from an active attestation, moves along the table in *)
(* validate_transition, and can be paused from and resumed to any          *)
(* non-terminal state.  state_version counts the moves; no contract reads  *)
(* it, so it is left out.                                                  *)
(***************************************************************************)
EXTENDS EligibilityRegistry

CONSTANTS
  Facilities,    \* facility ids a claim can name
  Principals,    \* approved principals, in base units
  Actors,        \* addresses that can hold a role
  Wiring,        \* the <<role, actor>> grants made at deployment
  None           \* "no value yet"

RoleNames ==
  {"Originator", "Control", "Issuer", "Facility", "Servicer", "Resolver", "Pauser"}

ASSUME PrincipalAssumption == Principals \subseteq Nat \ {0}
ASSUME WiringAssumption == Wiring \subseteq RoleNames \X Actors
ASSUME NoneAssumption == None \notin Facilities \cup Attestations

VARIABLES
  claims,        \* DataKey::Claim(_)
  roles          \* DataKey::Role(_, _) entries that are true

lifecycleVars == <<claims, roles>>

TerminalStates == {"Closed", "ClosedWithLoss"}

ClaimStates ==
  {"Eligible", "Controlled", "Issued", "Funded", "Settling", "Repaid",
   "Redeemed", "Shortfall", "Resolution", "Paused"} \cup TerminalStates

OnchainClaim ==
  [state : ClaimStates \cup {"Absent"},
   facility : Facilities \cup {None},
   approved : Principals \cup {0},
   attestation : Attestations \cup {None},
   control_expires_at : Times,
   paused_from : ClaimStates,
   has_paused_from : BOOLEAN]

AbsentClaim ==
  [state |-> "Absent", facility |-> None, approved |-> 0, attestation |-> None,
   control_expires_at |-> 0, paused_from |-> "Eligible", has_paused_from |-> FALSE]

LifecycleTypeOK ==
  /\ claims \in [Claims -> OnchainClaim]
  /\ roles \subseteq RoleNames \X Actors

LifecycleInit ==
  /\ claims = [c \in Claims |-> AbsentClaim]
  /\ roles = Wiring

Exists(c) == claims[c].state # "Absent"

has_role(role, actor) == <<role, actor>> \in roles

attestation_active(c) == is_active(claims[c].attestation, now)

ControlLive(cl) == cl.control_expires_at > now

-----------------------------------------------------------------------------

\* slip: the facility may move a funded claim back to Issued (rows past Funded left out)
validate_transition_unwinding(actor, cl, next) ==
  \/ /\ <<cl.state, next>> \in {<<"Issued", "Funded">>, <<"Funded", "Issued">>}
     /\ has_role("Facility", actor)
  \/ /\ cl.state = "Controlled" /\ next = "Issued"
     /\ has_role("Issuer", actor)

(* validate_transition: who may move a claim from cl.state to next.        *)
validate_transition(actor, cl, next) ==
  \/ /\ cl.state = "Controlled" /\ next = "Issued"
     /\ has_role("Issuer", actor) /\ ControlLive(cl)
  \/ /\ cl.state = "Issued" /\ next = "Funded"
     /\ has_role("Facility", actor)
  \/ /\ <<cl.state, next>> \in {<<"Funded", "Settling">>, <<"Settling", "Repaid">>,
                                <<"Settling", "Shortfall">>}
     /\ has_role("Servicer", actor)
  \/ /\ <<cl.state, next>> \in {<<"Repaid", "Redeemed">>, <<"Redeemed", "Closed">>}
     /\ has_role("Issuer", actor)
  \/ /\ <<cl.state, next>> \in {<<"Shortfall", "Resolution">>, <<"Resolution", "Closed">>,
                                <<"Resolution", "ClosedWithLoss">>}
     /\ has_role("Resolver", actor)

TransitionAllowed(actor, cl, expected, next) ==
  /\ cl.state \notin TerminalStates \cup {"Absent"}
  /\ cl.state = expected
  /\ validate_transition(actor, cl, next)

(* What a successful lifecycle.transition call leaves behind.  The other   *)
(* contracts make this call inside their own transaction.                  *)
Moved(c, next) == [claims EXCEPT ![c].state = next]

transition(actor, c, expected, next) ==
  /\ TransitionAllowed(actor, claims[c], expected, next)
  /\ claims' = Moved(c, next)
  /\ UNCHANGED roles

set_role(role, actor, enabled) ==
  /\ roles' = IF enabled THEN roles \cup {<<role, actor>>}
                         ELSE roles \ {<<role, actor>>}
  /\ UNCHANGED claims

create_claim(originator, c, f, approved, a) ==
  /\ has_role("Originator", originator)
  /\ ~ Exists(c)
  /\ is_active(a, now)
  /\ AttestedFor(a, c)
  /\ claims' = [claims EXCEPT ![c] =
       [AbsentClaim EXCEPT !.state = "Eligible", !.facility = f,
                           !.approved = approved, !.attestation = a]]
  /\ UNCHANGED roles

confirm_control(actor, c, expires_at) ==
  /\ has_role("Originator", actor) \/ has_role("Control", actor)
  /\ expires_at > now
  /\ claims[c].state = "Eligible"
  /\ claims' = [claims EXCEPT ![c] =
       [@ EXCEPT !.state = "Controlled", !.control_expires_at = expires_at]]
  /\ UNCHANGED roles

\* slip: a terminal claim can be paused
pause_any(pauser, c) ==
  /\ has_role("Pauser", pauser)
  /\ claims[c].state \notin {"Absent", "Paused"}
  /\ claims' = [claims EXCEPT ![c] =
       [@ EXCEPT !.state = "Paused", !.paused_from = claims[c].state, !.has_paused_from = TRUE]]
  /\ UNCHANGED roles

pause(pauser, c) ==
  /\ has_role("Pauser", pauser)
  /\ claims[c].state \notin TerminalStates \cup {"Absent", "Paused"}
  /\ claims' = [claims EXCEPT ![c] =
       [@ EXCEPT !.state = "Paused", !.paused_from = claims[c].state, !.has_paused_from = TRUE]]
  /\ UNCHANGED roles

\* slip: the compensation to Controlled is open to every paused claim
resume_controlled(c, target) ==
  /\ claims[c].state = "Paused"
  /\ target \in {claims[c].paused_from, "Controlled"}
  /\ claims' = [claims EXCEPT ![c] =
       [@ EXCEPT !.state = target, !.has_paused_from = FALSE]]
  /\ UNCHANGED roles

resume(c, target) ==
  /\ claims[c].state = "Paused"
  /\ claims[c].has_paused_from
  /\ \/ target = claims[c].paused_from
     \/ claims[c].paused_from = "Issued" /\ target = "Controlled"
  /\ claims' = [claims EXCEPT ![c] =
       [@ EXCEPT !.state = target, !.has_paused_from = FALSE]]
  /\ UNCHANGED roles

LifecycleCall ==
  \/ \E actor \in Actors, c \in Claims, f \in Facilities, p \in Principals, a \in Attestations :
       create_claim(actor, c, f, p, a)
  \/ \E actor \in Actors, c \in Claims, t \in Times : confirm_control(actor, c, t)

PauseResume ==
  \/ \E actor \in Actors, c \in Claims : pause(actor, c)
  \/ \E c \in Claims, target \in ClaimStates : resume(c, target)

DirectTransition ==
  \E actor \in Actors, c \in Claims, next \in ClaimStates :
    transition(actor, c, claims[c].state, next)

RoleChange ==
  \E role \in RoleNames, actor \in Actors, enabled \in BOOLEAN :
    set_role(role, actor, enabled)

-----------------------------------------------------------------------------

LifecycleNext ==
  \/ RegistryNext /\ UNCHANGED lifecycleVars
  \/ (LifecycleCall \/ PauseResume \/ DirectTransition \/ RoleChange) /\ UNCHANGED registryVars

ClaimsInit == RegistryInit /\ LifecycleInit

LifecycleSpec ==
  ClaimsInit /\ [][LifecycleNext]_<<registryVars, lifecycleVars>>

-----------------------------------------------------------------------------

(* The stage a claim has reached: a pause suspends it but does not move it. *)
Stage(c) == IF claims[c].state = "Paused" THEN claims[c].paused_from ELSE claims[c].state

=============================================================================
