------------------------------- MODULE MCJejak -------------------------------
(***************************************************************************)
(* The instances of JejakProtocol that TLC checks.  Each role is held by   *)
(* one key, as in the deployment fixture of the integration tests; the     *)
(* contracts' admin is the deployer.                                       *)
(***************************************************************************)
EXTENDS JejakProtocol, TLC

MCActors == {"originator", "issuer", "operator", "servicer", "resolver", "pauser"}

MCWiring ==
  {<<"Originator", "originator">>, <<"Issuer", "issuer">>, <<"Facility", "operator">>,
   <<"Servicer", "servicer">>, <<"Resolver", "resolver">>, <<"Pauser", "pauser">>}

Limit(total, position, firstLoss) ==
  [max_total_principal |-> total, max_position_principal |-> position,
   max_first_loss |-> firstLoss, servicing_fee_cap |-> 1, financing_fee_cap |-> 1]

\* one limit, wide enough for one position of 2 and its first loss
OneLimit == {Limit(2, 2, 1)}

\* a facility with room for two positions, but not for two of 2
TwoLimits == {Limit(3, 2, 1)}

\* hashes only mark what was used: which one stands for which call is immaterial
HashSymmetry == Permutations(Hashes)

EvidenceSymmetry == Permutations(Evidence)

InputSymmetry == Permutations(Hashes) \cup Permutations(Evidence)

\* one key that holds every role: what a grant or a revocation changes is then all
\* there is to tell the contracts apart
OneKey == {"issuer"}

OneKeyWiring == RoleNames \X OneKey

=============================================================================
