----------------------------- MODULE MCRequests -----------------------------
(***************************************************************************)
(* What the API does for requests and cycles that overlap, in one instance *)
(* for TLC: the calls to the partners, the commands on claims and offers,  *)
(* the ingestion of marketplace events, the intake of chain events, the    *)
(* invitations, the demo module, the life of a credential and the intake   *)
(* of settlements.  They share no row, so a behaviour is about one of      *)
(* them, its subject; the others stay in an initial state.                 *)
(***************************************************************************)
EXTENDS PartnerCalls, ClaimCommands, MarketplaceLedger, ChainIntake, Invitations,
        DemoSandbox, JccLifecycle, SettlementDesk

VARIABLE subject

(* What rests when a subject from the first or the second half is on.      *)
firstHalf == <<partnerVars, commandVars, ledgerVars, intakeVars>>
secondHalf == <<invitationVars, demoVars, jccVars, deskVars>>
requestVars == <<subject, firstHalf, secondHalf>>

(* Two files that overlap in opposite orders, and one that contradicts     *)
(* both of them.                                                           *)
OrderA == [id |-> "a", at |-> 1, amount |-> 1]
OrderRevised == [id |-> "a", at |-> 1, amount |-> 2]
OrderB == [id |-> "b", at |-> 2, amount |-> 4]
OrderC == [id |-> "c", at |-> 3, amount |-> 8]
MCFiles == {<<OrderA, OrderB>>, <<OrderB, OrderA>>, <<OrderRevised, OrderC, OrderRevised>>}

(* The events of one contract: the others differ only in their names.      *)
MCWatches == {<<"claim_lifecycle">>}

RequestsInit ==
  /\ subject \in {"partner", "commands", "ledger", "intake", "invitations", "demo", "jcc", "desk"}
  /\ PartnerInit /\ CommandInit /\ LedgerInit /\ IntakeInit
  /\ InvitationInit /\ DemoInit /\ JccInit /\ DeskInit
  /\ subject # "partner" => partner = [kind |-> "ANCHOR", scenario |-> "PAID"]
  /\ subject # "jcc" => issuer = "route"
  /\ subject # "intake" => watch = <<"claim_lifecycle">>

(* A step of a partner's call, beside which all else rests.                *)
Calling(A) ==
  /\ subject = "partner" /\ A
  /\ UNCHANGED <<subject, commandVars, ledgerVars, intakeVars, secondHalf>>

RequestsNext ==
  \/ Calling(PartnerNext)
  \/ /\ UNCHANGED <<subject, partnerVars, secondHalf>>
     /\ \/ subject = "commands" /\ CommandNext /\ UNCHANGED <<ledgerVars, intakeVars>>
        \/ subject = "ledger" /\ LedgerNext /\ UNCHANGED <<commandVars, intakeVars>>
        \/ subject = "intake" /\ IntakeNext /\ UNCHANGED <<commandVars, ledgerVars>>
  \/ /\ UNCHANGED <<subject, firstHalf>>
     /\ \/ subject = "invitations" /\ InvitationNext /\ UNCHANGED <<demoVars, jccVars, deskVars>>
        \/ subject = "demo" /\ DemoNext /\ UNCHANGED <<invitationVars, jccVars, deskVars>>
        \/ subject = "jcc" /\ JccNext /\ UNCHANGED <<invitationVars, demoVars, deskVars>>
        \/ subject = "desk" /\ DeskNext /\ UNCHANGED <<invitationVars, demoVars, jccVars>>

(* PartnerFairness, for the steps of the subject.                          *)
FairRequests ==
  /\ RequestsInit /\ [][RequestsNext]_requestVars
  /\ \A c \in Callers : WF_requestVars(Calling(CallStep(c)))
=============================================================================
