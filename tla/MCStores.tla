------------------------------ MODULE MCStores ------------------------------
(***************************************************************************)
(* Two places where the API keeps its database in step with a store it     *)
(* cannot lock, in one instance for TLC: issue and funding beside the      *)
(* ledger, and the evidence rows beside the bucket of files; and the       *)
(* eligibility registry with the oracles that register in it by turns.     *)
(*                                                                         *)
(* They share no row, so a behaviour is about one subject: funding while   *)
(* commands are given on the evidence, or while calls fail; files of two   *)
(* types under one key, or of one type under two; or the registry.         *)
(***************************************************************************)
EXTENDS IssuanceFunding, EvidenceVault, EligibilityRegistry, TLC

VARIABLE subject

storeVars == <<subject, fundingVars, vaultVars, registryVars>>

\* handlers and keys, finalizations, bytes and types stand for one another
Interchangeable ==
  {h @@ k : h \in Permutations(Handlers), k \in Permutations(FundKeys)} \union
  {f @@ b @@ t : f \in Permutations(Finalizers), b \in Permutations(Bytes), t \in Permutations(Types)}

StoresInit ==
  /\ subject \in {"commands", "failures", "types", "versions", "registry"}
  /\ FundingInit /\ VaultInit /\ RegistryInit
  /\ subject \notin {"commands", "failures"} => onchain.state = "Controlled"
  /\ subject # "registry" => oracles = {"o1"}

StoresNext ==
  /\ UNCHANGED subject
  /\ \/ subject = "commands" /\ FundingNext /\ UNCHANGED <<incidents, vaultVars, registryVars>>
     \/ /\ subject = "failures" /\ UNCHANGED <<vaultVars, registryVars>>
        /\ IndexerStep \/ \E h \in Handlers : HandlerStep(h)
     \/ /\ subject = "types" /\ VaultNext /\ UNCHANGED <<fundingVars, registryVars>>
        /\ \A a \in asked' : a.key[2] = 1
     \/ /\ subject = "versions" /\ VaultNext /\ UNCHANGED <<fundingVars, registryVars>>
        /\ \E t \in Types : \A c \in asked' \union intents' \union deposits' : c.content.type = t
     \/ subject = "registry" /\ RegistryNext /\ UNCHANGED <<fundingVars, vaultVars>>

StoresSpec == StoresInit /\ [][StoresNext]_storeVars
=============================================================================
