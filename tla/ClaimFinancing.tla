--------------------------- MODULE ClaimFinancing ---------------------------
(***************************************************************************)
(* What the contracts promise of a claim, without contracts: a claim is    *)
(* admitted, controlled, issued, financed once with a principal, credited  *)
(* until it is repaid or declared short, and then redeemed or resolved.    *)
(* Principal is owed, credited or lost, and what is lost is lost in the    *)
(* step that declares the shortfall.  JejakProtocol implements this        *)
(* specification when nobody calls lifecycle.transition or the facility's  *)
(* repayment entry points directly.                                        *)
(***************************************************************************)
EXTENDS Integers

CONSTANTS
  Claims,
  Principals

VARIABLES
  phase,      \* where a claim is in its life
  owed,       \* principal outstanding
  credited,   \* principal paid back, in cash or out of the first loss
  lost        \* principal written off

financingVars == <<phase, owed, credited, lost>>

Init ==
  /\ phase = [c \in Claims |-> "Absent"]
  /\ owed = [c \in Claims |-> 0]
  /\ credited = [c \in Claims |-> 0]
  /\ lost = [c \in Claims |-> 0]

(* The moves in which no principal changes.                                *)
Edges ==
  {<<"Absent", "Eligible">>, <<"Eligible", "Controlled">>, <<"Controlled", "Issued">>,
   <<"Issued", "Controlled">>, <<"Repaid", "Redeemed">>, <<"Redeemed", "Closed">>,
   <<"Shortfall", "Resolution">>, <<"Resolution", "Closed">>,
   <<"Resolution", "ClosedWithLoss">>}

Advance(c) ==
  /\ \E e \in Edges : phase[c] = e[1] /\ phase' = [phase EXCEPT ![c] = e[2]]
  /\ UNCHANGED <<owed, credited, lost>>

Finance(c, principal) ==
  /\ phase[c] = "Issued"
  /\ phase' = [phase EXCEPT ![c] = "Funded"]
  /\ owed' = [owed EXCEPT ![c] = principal]
  /\ UNCHANGED <<credited, lost>>

Credit(c, amount) ==
  /\ phase[c] \in {"Funded", "Settling"}
  /\ owed' = [owed EXCEPT ![c] = @ - amount]
  /\ credited' = [credited EXCEPT ![c] = @ + amount]
  /\ phase' = [phase EXCEPT ![c] = "Settling"]
  /\ UNCHANGED lost

Settle(c) ==
  /\ phase[c] \in {"Funded", "Settling"}
  /\ owed' = [owed EXCEPT ![c] = 0]
  /\ credited' = [credited EXCEPT ![c] = @ + owed[c]]
  /\ phase' = [phase EXCEPT ![c] = "Repaid"]
  /\ UNCHANGED lost

DeclareShort(c, amount) ==
  /\ phase[c] \in {"Funded", "Settling"}
  /\ amount < owed[c]
  /\ owed' = [owed EXCEPT ![c] = 0]
  /\ credited' = [credited EXCEPT ![c] = @ + amount]
  /\ lost' = [lost EXCEPT ![c] = owed[c] - amount]
  /\ phase' = [phase EXCEPT ![c] = "Shortfall"]

Next ==
  \E c \in Claims :
    \/ Advance(c)
    \/ \E p \in Principals : Finance(c, p)
    \/ \E n \in 0 .. owed[c] : Credit(c, n) \/ DeclareShort(c, n)
    \/ Settle(c)

Spec == Init /\ [][Next]_financingVars

=============================================================================
