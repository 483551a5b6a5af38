---------------------------- MODULE MCSettlement ----------------------------
(* Instances of SettlementExecution for TLC.  Every settlement event has   *)
(* the amount 2; requests, workers, keys and events are interchangeable.   *)
EXTENDS SettlementExecution, TLC

MCAmount == [e \in Events |-> 2]

Symmetric == Permutations(Requests) \cup Permutations(Workers) \cup Permutations(Keys) \cup Permutations(Events)

=============================================================================
