---------------------------- MODULE DemoSandbox ----------------------------
(***************************************************************************)
(* The demo module: a reset seeds a tenant of its own with actors and one  *)
(* claim, a session is a signed credential for one of its actors, and a    *)
(* refund spike is injected into the claim while the claim moves on.       *)
(*                                                                         *)
(* Every identifier of a reset is derived from its idempotency key, so a   *)
(* tenant is named by the key that seeded it; it has one claim.            *)
(***************************************************************************)
EXTENDS Integers, FiniteSets

CONSTANTS
  ResetKeys,    \* idempotency keys of POST /demo/reset, and their tenants
  SpikeKeys,    \* idempotency keys of the refund-spike route
  Tabs,         \* clients that may be at a request at the same time
  MaxMoves      \* bound: moves of a claim by the rest of the system

ASSUME DemoAssumption == MaxMoves \in Nat

DemoScenarios == {"HAPPY", "ADVERSE"}
HumanRoles == {"SELLER", "ORIGINATOR", "ISSUER", "FACILITY", "SERVICER", "RESOLVER"}

VARIABLES
  tenants,     \* what a reset has seeded: the answer of the key, and the claim
  spikes,      \* settlement_events of source JEJAK_DEMO, one record each
  spikeKeys,   \* idempotency_records of the spike: the answer by tenant and key
  spikeTold,   \* answers given to the spike requests: tenant, key and answer
  tabs         \* where each client is

demoVars == <<tenants, spikes, spikeKeys, spikeTold, tabs>>

Unseeded == [scenario |-> "NONE", claimState |-> "NONE", version |-> 0]
NoTab == [step |-> "none", tenant |-> "none", role |-> "NONE", key |-> "none", seen |-> 0]

(* Moves of a claim, as the lifecycle allows them among these states.      *)
ClaimMoves == {<<"DRAFT", "FUNDED">>, <<"FUNDED", "SETTLING">>, <<"FUNDED", "PAUSED">>,
               <<"PAUSED", "FUNDED">>, <<"SETTLING", "REPAID">>}

Seeded == {t \in ResetKeys : tenants[t] # Unseeded}
SpikesOf(t) == {s \in spikes : s.tenant = t}

DemoInit ==
  /\ tenants = [t \in ResetKeys |-> Unseeded]
  /\ spikes = {} /\ spikeTold = {}
  /\ spikeKeys = [k \in ResetKeys \X SpikeKeys |-> 0]
  /\ tabs = [b \in Tabs |-> NoTab]

(* The idempotency record of the key is there: its answer is given again,  *)
(* or the request is in conflict with it.                                  *)
Repeats(t) == t \in Seeded

(* POST /demo/reset, one transaction: identities, seller, connection,      *)
(* snapshot, claim and assignments are seeded under the key's record.      *)
resetDemo ==
  /\ \E t \in ResetKeys, scenario \in DemoScenarios :
       /\ ~ Repeats(t)
       /\ tenants' = [tenants EXCEPT ![t] =
            [scenario |-> scenario, claimState |-> "DRAFT", version |-> 1]]
  /\ UNCHANGED <<spikes, spikeKeys, spikeTold, tabs>>

(* The commands and workers of the other modules move the claim.           *)
advanceClaim ==
  /\ \E t \in Seeded, m \in ClaimMoves :
       /\ tenants[t].claimState = m[1] /\ tenants[t].version <= MaxMoves
       /\ tenants' = [tenants EXCEPT ![t].claimState = m[2], ![t].version = @ + 1]
  /\ UNCHANGED <<spikes, spikeKeys, spikeTold, tabs>>

-----------------------------------------------------------------------------
(* #find of the actor registry: the actors that the reset seeded.          *)
HasActor(t, role) == t \in Seeded /\ role \in HumanRoles \union {"SYSTEM"}

(* POST /demo/sessions: a credential for an actor of the tenant, and the   *)
(* client reads the context with it (findContext: the stored answer, with  *)
(* the claim's present state and version).                                 *)
openSession(b) ==
  /\ tabs[b].step = "none"
  /\ \E t \in ResetKeys, role \in {"ORIGINATOR", "RESOLVER", "SYSTEM"}, key \in SpikeKeys :
       /\ HasActor(t, role)
       /\ tabs' = [tabs EXCEPT ![b] =
            [step |-> "ask", tenant |-> t, role |-> role, key |-> key, seen |-> tenants[t].version]]
  /\ UNCHANGED <<tenants, spikes, spikeKeys, spikeTold>>

(* The credential expires, or the client goes away.                        *)
closeTab(b) ==
  /\ tabs[b].step = "ask"
  /\ tabs' = [tabs EXCEPT ![b] = NoTab]
  /\ UNCHANGED <<tenants, spikes, spikeKeys, spikeTold>>

(* authorizeAssignedClaimCommand: only a human actor has a membership and  *)
(* an assignment on the claim, and the route asks for an originator.       *)
MayInject(role) == role \in HumanRoles \intersect {"ORIGINATOR", "SYSTEM"}

Answer(b, id) ==
  spikeTold' = spikeTold \union {[tenant |-> tabs[b].tenant, key |-> tabs[b].key, spike |-> id]}

(* The payload of a request is its claim and the version it expects, which *)
(* is the one its spike was injected at.                                   *)
SamePayload(answer, seen) == \E s \in spikes : s.id = answer /\ s.at = seen

(* inject, up to the lock of the claim: the key's record is looked up, and *)
(* the same request is answered from it, any other is in conflict with it. *)
(* The verifier finds the actor again.                                     *)
lookUpKey(b) ==
  LET c == tabs[b]
      answer == spikeKeys[<<c.tenant, c.key>>]
  IN  /\ c.step = "ask" /\ HasActor(c.tenant, c.role)
      /\ IF ~ MayInject(c.role)
         THEN tabs' = [tabs EXCEPT ![b] = NoTab] /\ UNCHANGED spikeTold
         ELSE IF answer # 0
         THEN /\ tabs' = [tabs EXCEPT ![b] = NoTab]
              /\ IF SamePayload(answer, c.seen) THEN Answer(b, answer) ELSE UNCHANGED spikeTold
         ELSE tabs' = [tabs EXCEPT ![b].step = "inject"] /\ UNCHANGED spikeTold
      /\ UNCHANGED <<tenants, spikes, spikeKeys>>

(* assertExpectedVersion, under the lock.                                  *)
AsExpected(t, seen) == tenants[t].version = seen

\* slip: the event's identity is looked up for another claim
Injected_elsewhere(t) == FALSE

(* The claim has had its refund spike: one external id stands for it.      *)
Injected(t) == SpikesOf(t) # {}

(* inject, from the lock of the claim to the commit: the spike is stored,  *)
(* the claim gets a new version, and a new evaluation of it is queued.     *)
injectSpike(b) ==
  LET c == tabs[b]
      id == Cardinality(spikes) + 1
  IN  /\ c.step = "inject"
      /\ tabs' = [tabs EXCEPT ![b] = NoTab]
      /\ IF /\ AsExpected(c.tenant, c.seen) /\ ~ Injected(c.tenant)
            /\ tenants[c.tenant].claimState \in {"FUNDED", "SETTLING", "PAUSED"}
         THEN /\ spikes' = spikes \union
                   {[id |-> id, tenant |-> c.tenant, key |-> c.key, at |-> tenants[c.tenant].version]}
              /\ spikeKeys' = [spikeKeys EXCEPT ![<<c.tenant, c.key>>] = id]
              /\ tenants' = [tenants EXCEPT ![c.tenant].version = @ + 1]
              /\ Answer(b, id)
         ELSE UNCHANGED <<spikes, spikeKeys, tenants, spikeTold>>

DemoNext ==
  \/ resetDemo \/ advanceClaim
  \/ \E b \in Tabs : openSession(b) \/ closeTab(b) \/ lookUpKey(b) \/ injectSpike(b)

DemoSpec == DemoInit /\ [][DemoNext]_demoVars

-----------------------------------------------------------------------------
DemoTypeOK ==
  /\ \A t \in Seeded :
       tenants[t] \in [scenario : DemoScenarios, claimState : {m[1] : m \in ClaimMoves} \union {"REPAID"}, version : Nat \ {0}]
  /\ spikes \subseteq [id : Nat, tenant : ResetKeys, key : SpikeKeys, at : Nat]
  /\ \A b \in Tabs : tabs[b] = NoTab \/ tabs[b].tenant \in Seeded

(* OneSpike: however requests for it overlap and repeat, a claim gets at   *)
(* most one refund spike, no reset of its tenant brings it back to before  *)
(* the spike, and every request that was answered for a key was told of    *)
(* the spike that the key made.                                            *)
OneSpike ==
  /\ \A s, t \in spikes : s.tenant = t.tenant => s = t
  /\ \A s \in spikes : tenants[s.tenant].version > s.at
  /\ \A a \in spikeTold : \E s \in spikes : s.id = a.spike /\ s.tenant = a.tenant /\ s.key = a.key
=============================================================================
