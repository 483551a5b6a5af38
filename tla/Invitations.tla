---------------------------- MODULE Invitations ----------------------------
(***************************************************************************)
(* How people become members of an institution: an administrator invites   *)
(* an address for some roles, whoever is signed in with that address       *)
(* accepts, and an administrator may revoke.  InvitationService validates  *)
(* what it has read before PostgresInvitationRepository locks the row, so  *)
(* requests overlap between the two.  Emails are the people who own them.  *)
(***************************************************************************)
EXTENDS Integers, Sequences

CONSTANTS
  People,          \* owners of an email address and of an identity
  Founder,         \* the administrator the institution was set up with
  InvitedRoles,    \* roles a request may ask for
  Visitors,        \* requests that may be under way at the same time
  MaxInvitations   \* bound: invitations created

ASSUME InvitationAssumption ==
  /\ Founder \notin People /\ "ADMIN" \in InvitedRoles /\ MaxInvitations \in Nat

VARIABLES
  invitations,  \* institutional_invitations rows, by id in order of creation
  expired,      \* ids whose expiresAt has passed
  grants,       \* membership_role_grants rows: who, role, and by which invitation
  toldRevoked,  \* ids of which an administrator was told that they are revoked
  visitors      \* where each request is

invitationVars == <<invitations, expired, grants, toldRevoked, visitors>>

InvitationIds == DOMAIN invitations
InvitationRows == [email : People, roles : SUBSET InvitedRoles \ {{}},
                   status : {"PENDING", "ACCEPTED", "REVOKED"}]
Gone == [step |-> "none", person |-> Founder, id |-> 0]

InvitationInit ==
  /\ invitations = <<>> /\ expired = {} /\ toldRevoked = {}
  /\ grants = {[person |-> Founder, role |-> "ADMIN", by |-> 0]}
  /\ visitors = [v \in Visitors |-> Gone]

(* queryActiveMembership: the active grants of the person's membership.    *)
RolesOf(person) == {g.role : g \in {h \in grants : h.person = person}}

(* adminContext and authorize, before the operation itself.                *)
Administers(person) == "ADMIN" \in RolesOf(person)

(* An address has at most one invitation that is pending, an expired one   *)
(* that nobody revoked included: nothing ever makes a row EXPIRED.         *)
HasPending(email) ==
  \E i \in InvitationIds : invitations[i].email = email /\ invitations[i].status = "PENDING"

(* POST /institutional-invitations.                                        *)
createInvitation ==
  /\ Len(invitations) < MaxInvitations
  /\ \E admin \in People \union {Founder}, email \in People, roles \in SUBSET InvitedRoles \ {{}} :
       /\ Administers(admin)
       /\ ~ HasPending(email)
       /\ invitations' = Append(invitations, [email |-> email, roles |-> roles, status |-> "PENDING"])
  /\ UNCHANGED <<expired, grants, toldRevoked, visitors>>

(* The time to live of an invitation passes.                               *)
passExpiry ==
  /\ \E i \in InvitationIds \ expired : expired' = expired \union {i}
  /\ UNCHANGED <<invitations, grants, toldRevoked, visitors>>

(* #validate.                                                              *)
Usable(i) == invitations[i].status = "PENDING" /\ i \notin expired

(* accept, first part: the row is read and validated, and read again for   *)
(* the address.  A request that fails here ends with an error.             *)
lookUp(v) ==
  /\ visitors[v] = Gone
  /\ \E person \in People, i \in InvitationIds :
       /\ Usable(i) /\ invitations[i].email = person
       /\ visitors' = [visitors EXCEPT ![v] = [step |-> "accept", person |-> person, id |-> i]]
  /\ UNCHANGED <<invitations, expired, grants, toldRevoked>>

\* slip: what was validated before the lock is not looked at again
StillUsable_trusted(i) == TRUE

(* What the transaction checks of the status once it holds the row's lock. *)
StillUsable(i) == invitations[i].status = "PENDING"

(* The roles the person does not hold yet; a role held is left as it is.   *)
NewGrants(person, i) ==
  {[person |-> person, role |-> r, by |-> i] : r \in invitations[i].roles \ RolesOf(person)}

(* accept, second part: the repository's transaction.  `now` was taken     *)
(* before it, so an invitation that expires meanwhile may still pass.      *)
acceptInvitation(v) ==
  LET i == visitors[v].id
      person == visitors[v].person
  IN  /\ visitors[v].step = "accept"
      /\ visitors' = [visitors EXCEPT ![v] = Gone]
      /\ \/ /\ StillUsable(i)
            /\ grants' = grants \union NewGrants(person, i)
            /\ invitations' = [invitations EXCEPT ![i].status = "ACCEPTED"]
         \/ /\ ~ StillUsable(i) \/ i \in expired
            /\ UNCHANGED <<grants, invitations>>
      /\ UNCHANGED <<expired, toldRevoked>>

(* POST /institutional-invitations/:id/revoke: the administrator was       *)
(* authorized, then the transaction runs.                                  *)
askRevocation(v) ==
  /\ visitors[v] = Gone
  /\ \E admin \in People \union {Founder}, i \in InvitationIds :
       /\ Administers(admin)
       /\ visitors' = [visitors EXCEPT ![v] = [step |-> "revoke", person |-> admin, id |-> i]]
  /\ UNCHANGED <<invitations, expired, grants, toldRevoked>>

revokeInvitation(v) ==
  LET i == visitors[v].id
  IN  /\ visitors[v].step = "revoke"
      /\ visitors' = [visitors EXCEPT ![v] = Gone]
      /\ IF invitations[i].status = "ACCEPTED"
         THEN UNCHANGED <<invitations, toldRevoked>>
         ELSE /\ invitations' = [invitations EXCEPT ![i].status = "REVOKED"]
              /\ toldRevoked' = toldRevoked \union {i}
      /\ UNCHANGED <<expired, grants>>

InvitationNext ==
  \/ createInvitation \/ passExpiry
  \/ \E v \in Visitors : lookUp(v) \/ acceptInvitation(v) \/ askRevocation(v) \/ revokeInvitation(v)

InvitationSpec == InvitationInit /\ [][InvitationNext]_invitationVars

-----------------------------------------------------------------------------
InvitationTypeOK ==
  /\ invitations \in Seq(InvitationRows) /\ Len(invitations) <= MaxInvitations
  /\ expired \subseteq InvitationIds /\ toldRevoked \subseteq InvitationIds
  /\ grants \subseteq [person : People \union {Founder}, role : InvitedRoles, by : 0..MaxInvitations]
  /\ visitors \in [Visitors -> [step : {"none", "accept", "revoke"},
                                person : People \union {Founder}, id : 0..MaxInvitations]]

(* InvitedOnly: a member holds exactly the roles of the invitations that   *)
(* were accepted for the member's own address, each role once, and an      *)
(* invitation of which an administrator was told that it is revoked has    *)
(* given none, whatever overlapped the telling.                            *)
InvitedOnly ==
  /\ \A person \in People :
       RolesOf(person) = UNION {invitations[i].roles :
         i \in {j \in InvitationIds : invitations[j].status = "ACCEPTED"
                                      /\ invitations[j].email = person}}
  /\ \A g, h \in grants : g.person = h.person /\ g.role = h.role => g = h
  /\ \A g \in grants : g.by \notin toldRevoked
=============================================================================
