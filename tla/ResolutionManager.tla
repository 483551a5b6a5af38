------------------------- MODULE ResolutionManager -------------------------
(***************************************************************************)
(* JejakResolutionManager: an authorised resolver opens the resolution of  *)
(* a claim in shortfall, records recoveries against fresh evidence, and    *)
(* closes it with the loss it states.                                      *)
(***************************************************************************)
EXTENDS ClaimLifecycle

CONSTANTS
  Evidence,        \* evidence and resolution hashes
  Recoveries       \* amounts a recovery, a final loss or a total may state

ASSUME RecoveryAssumption == Recoveries \subseteq Nat

VARIABLES
  resolutions,     \* DataKey::Resolution(_)
  evidenceKeys,    \* DataKey::Evidence(_)
  resolvers        \* DataKey::Resolver(_) entries that are true

resolutionVars == <<resolutions, evidenceKeys, resolvers>>

ResolutionStatus == {"None", "Open", "Recovering", "Settled", "WrittenOff"}

Resolution ==
  [status : ResolutionStatus, resolver : Actors \cup {None},
   recovered : Nat, final_loss : Nat]

NoResolution == [status |-> "None", resolver |-> None, recovered |-> 0, final_loss |-> 0]

ResolutionTypeOK ==
  /\ resolutions \in [Claims -> Resolution]
  /\ evidenceKeys \subseteq Evidence
  /\ resolvers \subseteq Actors

ResolutionInit ==
  /\ resolutions = [c \in Claims |-> NoResolution]
  /\ evidenceKeys = {}
  /\ resolvers = {actor \in Actors : <<"Resolver", actor>> \in Wiring}

Undecided(c) == resolutions[c].status \in {"Open", "Recovering"}

-----------------------------------------------------------------------------

authorize_resolver(actor, enabled) ==
  /\ resolvers' = IF enabled THEN resolvers \cup {actor} ELSE resolvers \ {actor}
  /\ UNCHANGED <<claims, resolutions, evidenceKeys>>

open(resolver, c, evidence) ==
  /\ resolver \in resolvers
  /\ resolutions[c].status = "None"
  /\ claims[c].state = "Shortfall"
  /\ resolutions' = [resolutions EXCEPT ![c] =
       [NoResolution EXCEPT !.status = "Open", !.resolver = resolver]]
  /\ evidenceKeys' = evidenceKeys \cup {evidence}
  /\ TransitionAllowed(resolver, claims[c], "Shortfall", "Resolution")
  /\ claims' = Moved(c, "Resolution")
  /\ UNCHANGED resolvers

record_recovery(resolver, c, amount, evidence) ==
  /\ resolver \in resolvers
  /\ evidence \notin evidenceKeys
  /\ resolutions[c].resolver = resolver
  /\ Undecided(c)
  /\ resolutions' = [resolutions EXCEPT ![c] =
       [@ EXCEPT !.recovered = resolutions[c].recovered + amount,
                 !.status = "Recovering"]]
  /\ evidenceKeys' = evidenceKeys \cup {evidence}
  /\ UNCHANGED <<claims, resolvers>>

\* slip: the claim moves if the lifecycle agrees, and the verdict is stored either way
close_regardless(resolver, c, recovered, final_loss, hash) ==
  LET next == IF final_loss = 0 THEN "Closed" ELSE "ClosedWithLoss" IN
  /\ resolver \in resolvers
  /\ hash \notin evidenceKeys
  /\ resolutions[c].resolver = resolver
  /\ recovered >= resolutions[c].recovered
  /\ resolutions' = [resolutions EXCEPT ![c] =
       [@ EXCEPT !.recovered = recovered, !.final_loss = final_loss,
                 !.status = IF final_loss = 0 THEN "Settled" ELSE "WrittenOff"]]
  /\ evidenceKeys' = evidenceKeys \cup {hash}
  /\ claims' = IF TransitionAllowed(resolver, claims[c], "Resolution", next)
                 THEN Moved(c, next) ELSE claims
  /\ UNCHANGED resolvers

close(resolver, c, recovered, final_loss, hash) ==
  /\ resolver \in resolvers
  /\ hash \notin evidenceKeys
  /\ resolutions[c].resolver = resolver
  /\ recovered >= resolutions[c].recovered
  /\ resolutions' = [resolutions EXCEPT ![c] =
       [@ EXCEPT !.recovered = recovered, !.final_loss = final_loss,
                 !.status = IF final_loss = 0 THEN "Settled" ELSE "WrittenOff"]]
  /\ evidenceKeys' = evidenceKeys \cup {hash}
  /\ LET next == IF final_loss = 0 THEN "Closed" ELSE "ClosedWithLoss"
     IN  /\ TransitionAllowed(resolver, claims[c], "Resolution", next)
         /\ claims' = Moved(c, next)
  /\ UNCHANGED resolvers

-----------------------------------------------------------------------------

ResolutionCall ==
  \E actor \in Actors, c \in Claims, e \in Evidence :
    \/ open(actor, c, e)
    \/ \E n \in Recoveries : record_recovery(actor, c, n, e)
    \/ \E n, loss \in Recoveries : close(actor, c, n, loss, e)

ResolverChange ==
  \E actor \in Actors, enabled \in BOOLEAN : authorize_resolver(actor, enabled)

=============================================================================
