-------------------------------- MODULE Team --------------------------------
(***************************************************************************)
(* The teams of a vendor and of the platform: accounts (users), the rows   *)
(* that describe them to their administrators (team_members), and the      *)
(* invitations that create both (src/team, src/platform/platform-team,     *)
(* deactivate of src/operations).                                          *)
(*                                                                         *)
(* No handler locks a row.  Each reads what its checks need and writes     *)
(* later, the whole row of team_members or team_invitations, so that a     *)
(* request is two steps: Begin with its checks, and the commit.  The       *)
(* statements before a commit are one step, as are those of the commit.    *)
(***************************************************************************)
EXTENDS Naturals, FiniteSets

CONSTANTS
    Owner,        \* the vendor administrator who registered: no team_members row
    Root,         \* the super administrator of the seed: no team_members row
    Invitees,     \* people, by e-mail, who may be invited by either team
    Invitations,  \* rows of team_invitations
    Requests,     \* requests in flight
    None

ASSUME TeamAssumption ==
    /\ Owner # Root /\ {Owner, Root} \cap Invitees = {}
    /\ None \notin Invitees \cup Invitations

People == Invitees \cup {Owner, Root}
VendorRoles == {"vendor_admin", "vendor_staff"}
PlatformRoles == {"super_admin", "platform_admin", "platform_staff"}
Roles == VendorRoles \cup PlatformRoles

UserRow == [exists: BOOLEAN, role: Roles, isActive: BOOLEAN]
\* The status pending is to every check what inactive is, and is left out.
Statuses == {"active", "inactive"}
MemberRow == [exists: BOOLEAN, role: Roles, status: Statuses]
\* email is None when the row is not there; pendingEmail: the unique column is set.
InvitationRow == [email: Invitees \cup {None}, role: Roles, revoked: BOOLEAN,
                  accepted: BOOLEAN, pendingEmail: BOOLEAN]

NoUser == [exists |-> FALSE, role |-> "vendor_staff", isActive |-> FALSE]
NoMember == [exists |-> FALSE, role |-> "vendor_staff", status |-> "inactive"]
NoInvitation == [email |-> None, role |-> "vendor_staff", revoked |-> FALSE,
                 accepted |-> FALSE, pendingEmail |-> FALSE]

VARIABLES
    users,        \* users[p]
    members,      \* members[p]
    invitations,  \* invitations[i]
    approved,     \* the vendor's organisation has the status approved
    requests,     \* requests[q]: what a request has read, and will write
    drifted,      \* history: two requests changed one team at the same time, or a
                  \* reactivation of the vendor let a deactivated member back in
    revived       \* history: two requests changed an invitation at the same time

vars == <<users, members, invitations, approved, requests, drifted, revived>>

Idle == [kind |-> "idle", person |-> None, invitation |-> None,
         user |-> NoUser, member |-> NoMember, row |-> NoInvitation]

\* Organisations are told apart by the roles of their people.
VendorUser(p) == users[p].exists /\ users[p].role \in VendorRoles
ActiveWith(role) == {p \in People : users[p].exists /\ users[p].isActive /\ users[p].role = role}
Admins == ActiveWith("vendor_admin")
Open(row) == row.email # None /\ ~row.revoked /\ ~row.accepted

Init ==
    /\ users = [p \in People |->
          IF p = Owner THEN [exists |-> TRUE, role |-> "vendor_admin", isActive |-> TRUE]
          ELSE IF p = Root THEN [exists |-> TRUE, role |-> "super_admin", isActive |-> TRUE]
          ELSE NoUser]
    /\ members = [p \in People |-> NoMember]
    /\ invitations = [i \in Invitations |-> NoInvitation]
    /\ approved = TRUE
    /\ requests = [q \in Requests |-> Idle]
    /\ drifted = FALSE
    /\ revived = FALSE

-----------------------------------------------------------------------------
Begin(q, request) ==
    /\ requests[q] = Idle
    /\ requests' = [requests EXCEPT ![q] = request]
    /\ UNCHANGED <<users, members, invitations, approved, drifted, revived>>

End(q) == requests' = [requests EXCEPT ![q] = Idle]

\* The process stops, or the transaction is rolled back.
Abort(q) ==
    /\ requests[q] # Idle
    /\ End(q)
    /\ UNCHANGED <<users, members, invitations, approved, drifted, revived>>

TeamKinds == {"update", "deactivate", "reactivate", "account", "accept",
              "platformUpdate", "platformDeactivate"}
OthersIn(q, kinds) == \E r \in Requests \ {q} : requests[r].kind \in kinds
TeamOverlap(q) == drifted' = (drifted \/ OthersIn(q, TeamKinds))

\* Requests that hold a copy of the invitation i.
InvitationOverlap(q, i) ==
    revived' = (revived \/ \E r \in Requests \ {q} : requests[r].invitation = i)

-----------------------------------------------------------------------------
(* Invitations.                                                            *)

\* InvitationEligibilityGuard and the checks of invite: the person has no account
\* and no open invitation.
Invitable(p) ==
    /\ ~users[p].exists
    /\ \A i \in Invitations : invitations[i].email = p => ~Open(invitations[i])

\* RolesGuard and the check of the service: who may invite for which role.
MayInvite(role) ==
    \/ role = "vendor_staff" /\ Admins # {} /\ approved
    \/ role \in {"platform_admin", "platform_staff"} /\ ActiveWith("super_admin") # {}
    \/ role = "platform_staff" /\ ActiveWith("platform_admin") # {}

Invite(q, p, i, role) ==
    /\ invitations[i] = NoInvitation /\ \A r \in Requests : requests[r].invitation # i
    /\ MayInvite(role) /\ Invitable(p)
    /\ Begin(q, [Idle EXCEPT !.kind = "invite", !.person = p, !.invitation = i,
                    !.row = [NoInvitation EXCEPT !.email = p, !.role = role,
                                !.pendingEmail = TRUE]])

\* Mutant of PendingEmailFree: the unique index is gone.
PendingEmailAny(p) == TRUE

\* The unique index of pendingEmail, whichever request comes first.
PendingEmailFree(p) ==
    \A i \in Invitations : invitations[i].pendingEmail => invitations[i].email # p

CommitInvite(q) ==
    /\ requests[q].kind = "invite"
    /\ invitations' = IF PendingEmailFree(requests[q].person)
                      THEN [invitations EXCEPT ![requests[q].invitation] = requests[q].row]
                      ELSE invitations
    /\ End(q)
    /\ UNCHANGED <<users, members, approved, drifted, revived>>

Resendable(row) == Open(row)

\* resend and revoke are for vendor administrators alone, who see the invitations
\* of their organisation.  revoke does not ask whether the row was accepted.
Resend(q, i) ==
    /\ Admins # {} /\ invitations[i].role \in VendorRoles /\ Resendable(invitations[i])
    /\ Begin(q, [Idle EXCEPT !.kind = "resend", !.invitation = i,
                    !.row = [invitations[i] EXCEPT !.revoked = FALSE]])

Revoke(q, i) ==
    /\ Admins # {} /\ invitations[i].role \in VendorRoles
    /\ invitations[i].email # None /\ ~invitations[i].revoked
    /\ Begin(q, [Idle EXCEPT !.kind = "revoke", !.invitation = i,
                    !.row = [invitations[i] EXCEPT !.revoked = TRUE, !.pendingEmail = FALSE]])

\* The entity is saved as it was read, except pendingEmail, which is not selected
\* and is written by those alone who set it.
CommitInvitation(q) ==
    LET i == requests[q].invitation IN
    /\ requests[q].kind \in {"resend", "revoke"}
    /\ invitations' = [invitations EXCEPT ![i] =
           [requests[q].row EXCEPT !.pendingEmail =
                requests[q].kind = "resend" /\ invitations[i].pendingEmail]]
    /\ InvitationOverlap(q, i)
    /\ End(q)
    /\ UNCHANGED <<users, members, approved, drifted>>

\* accept: the invitation is found by its link before the transaction ...
Accept(q, i) ==
    /\ Open(invitations[i])
    /\ Begin(q, [Idle EXCEPT !.kind = "accept", !.invitation = i,
                    !.person = invitations[i].email,
                    !.row = [invitations[i] EXCEPT !.accepted = TRUE,
                                !.pendingEmail = FALSE]])

\* ... which creates the account, unless the e-mail has one.
CommitAccept(q) ==
    LET p == requests[q].person
        i == requests[q].invitation
        role == requests[q].row.role
    IN
    /\ requests[q].kind = "accept"
    /\ IF users[p].exists THEN UNCHANGED <<users, members, invitations, drifted, revived>>
       ELSE /\ users' = [users EXCEPT ![p] =
                   [exists |-> TRUE, role |-> role, isActive |-> TRUE]]
            /\ members' = [members EXCEPT ![p] =
                   [exists |-> TRUE, role |-> role, status |-> "active"]]
            /\ invitations' = [invitations EXCEPT ![i] = requests[q].row]
            /\ TeamOverlap(q)
            /\ InvitationOverlap(q, i)
    /\ End(q)
    /\ UNCHANGED approved

-----------------------------------------------------------------------------
(* The vendor's team.                                                      *)

\* Mutant of AdminsCounted: inactive accounts count.
AdminAccounts == {p \in People : users[p].exists /\ users[p].role = "vendor_admin"}

AdminsCounted == Admins
FinalAdmin == Cardinality(AdminsCounted) <= 1
AdminRow(row) == row.role = "vendor_admin" /\ row.status = "active"

BeginTeam(q, kind, p, row) ==
    Begin(q, [Idle EXCEPT !.kind = kind, !.person = p, !.member = row])

\* update, by an administrator, who may be p.
Update(q, p, role, status) ==
    LET row == members[p] IN
    /\ Admins # {} /\ VendorUser(p) /\ row.exists
    /\ role \in VendorRoles
    /\ AdminRow(row) /\ ~(role = "vendor_admin" /\ status = "active") => ~FinalAdmin
    /\ BeginTeam(q, "update", p, [row EXCEPT !.role = role, !.status = status])

Deactivated(row) == [row EXCEPT !.status = "inactive"]

\* deactivate, by another administrator.
Deactivate(q, p) ==
    /\ Admins \ {p} # {} /\ VendorUser(p) /\ members[p].exists
    /\ AdminRow(members[p]) => ~FinalAdmin
    /\ BeginTeam(q, "deactivate", p, Deactivated(members[p]))

\* reactivate.
Reactivate(q, p) ==
    /\ Admins # {} /\ VendorUser(p) /\ members[p].exists
    /\ BeginTeam(q, "reactivate", p, [members[p] EXCEPT !.status = "active"])

\* Mutant of IsActive: a role is changed without a look at the status.
IsActiveAnyway(status) == TRUE

IsActive(status) == status = "active"

CommitMember(q) ==
    LET p == requests[q].person
        row == requests[q].member
    IN
    /\ requests[q].kind \in {"update", "deactivate", "reactivate"}
    /\ users' = [users EXCEPT ![p].isActive = IsActive(row.status),
                              ![p].role = IF requests[q].kind = "update" THEN row.role ELSE @]
    /\ members' = [members EXCEPT ![p] = row]
    /\ TeamOverlap(q)
    /\ End(q)
    /\ UNCHANGED <<invitations, approved, revived>>

\* deactivate of the own account, for every role; the user is saved whole, the
\* row of team_members is not touched.
DeactivateAccount(q, p) ==
    /\ users[p].exists /\ users[p].isActive
    /\ users[p].role = "vendor_admin" => ~FinalAdmin
    /\ Begin(q, [Idle EXCEPT !.kind = "account", !.person = p, !.user = users[p]])

CommitAccount(q) ==
    LET p == requests[q].person IN
    /\ requests[q].kind = "account"
    /\ users' = [users EXCEPT ![p] = [requests[q].user EXCEPT !.isActive = FALSE]]
    /\ TeamOverlap(q)
    /\ End(q)
    /\ UNCHANGED <<members, invitations, approved, revived>>

\* vendorLifecycle, as far as it changes the accounts of the vendor.
Lifecycle ==
    /\ ActiveWith("super_admin") \cup ActiveWith("platform_admin")
       \cup ActiveWith("platform_staff") # {}
    /\ approved' = ~approved
    /\ users' = [p \in People |-> IF VendorUser(p) THEN [users[p] EXCEPT !.isActive = ~approved]
                                  ELSE users[p]]
    /\ drifted' = \/ drifted
                  \/ \E q \in Requests : requests[q].kind \in TeamKinds
                  \/ \E p \in People :
                        VendorUser(p) /\ members[p].exists /\ members[p].status # "active"
    /\ UNCHANGED <<members, invitations, requests, revived>>

-----------------------------------------------------------------------------
(* The platform's team.                                                    *)

PlatformUser(p) == users[p].exists /\ users[p].role \in PlatformRoles

\* The row of p, or the one that is created for a super administrator without one.
PlatformRow(p) ==
    IF members[p].exists THEN members[p]
    ELSE [exists |-> TRUE, role |-> "super_admin",
          status |-> IF users[p].isActive THEN "active" ELSE "inactive"]

\* A super administrator manages every row, a platform administrator the rows of
\* staff, whatever the role of the account.
Manages(actor, row) ==
    \/ actor \in ActiveWith("super_admin")
    \/ actor \in ActiveWith("platform_admin") /\ row.exists /\ row.role = "platform_staff"

\* update: the role and status of the row change, those of the account do not.
PlatformUpdate(q, actor, p, role, status) ==
    /\ PlatformUser(p) /\ (members[p].exists \/ users[p].role = "super_admin")
    /\ Manages(actor, members[p])
    /\ role = "platform_staff" \/ (role = "platform_admin" /\ actor \in ActiveWith("super_admin"))
    /\ BeginTeam(q, "platformUpdate", p,
                 [PlatformRow(p) EXCEPT !.role = role, !.status = status])

\* deactivate: an account without a row gets none.
PlatformDeactivate(q, actor, p) ==
    /\ actor # p /\ PlatformUser(p)
    /\ (members[p].exists \/ users[p].role = "super_admin")
    /\ Manages(actor, members[p])
    /\ BeginTeam(q, "platformDeactivate", p,
                 IF members[p].exists THEN Deactivated(members[p]) ELSE NoMember)

CommitPlatform(q) ==
    LET p == requests[q].person
        row == requests[q].member
    IN
    /\ requests[q].kind \in {"platformUpdate", "platformDeactivate"}
    /\ members' = IF row.exists THEN [members EXCEPT ![p] = row] ELSE members
    /\ users' = IF requests[q].kind = "platformDeactivate"
                THEN [users EXCEPT ![p].isActive = FALSE] ELSE users
    /\ TeamOverlap(q)
    /\ End(q)
    /\ UNCHANGED <<invitations, approved, revived>>

\* seedPlatformAdmin, run again by an operator: the super administrator of the
\* seed works again, whatever role and status the account had by then; there is
\* no row of team_members.  (Its second account is treated like the first.)
Seed ==
    /\ users' = [users EXCEPT ![Root] = [exists |-> TRUE, role |-> "super_admin",
                                        isActive |-> TRUE]]
    /\ UNCHANGED <<members, invitations, approved, requests, drifted, revived>>

\* What list, metrics and exportCsv of the platform's team show (they change
\* nothing): the rows, or the super administrators as long as there is no row.
\* exportCsv does without the latter.
PlatformMembers == {p \in People : PlatformUser(p) /\ members[p].exists}
ListedWithoutRows ==
    {p \in People : users[p].exists /\ users[p].role = "super_admin"}

PlatformList(role, statuses) ==
    LET rows == {p \in PlatformMembers : members[p].role = role
                                         /\ members[p].status \in statuses}
    IN  IF rows # {} THEN rows
        ELSE {p \in ListedWithoutRows : PlatformRow(p).status \in statuses}

PlatformMetrics ==
    LET shown == IF PlatformMembers # {} THEN PlatformMembers ELSE ListedWithoutRows
        invited == Cardinality({i \in Invitations : /\ invitations[i].role \in PlatformRoles
                                                    /\ Open(invitations[i])})
        count(status) == Cardinality({p \in shown : PlatformRow(p).status = status})
    IN  [total |-> Cardinality(shown) + invited, active |-> count("active"),
         pending |-> invited, inactive |-> count("inactive")]

PlatformExport == {<<p, members[p]>> : p \in PlatformMembers}

-----------------------------------------------------------------------------
Next ==
    \/ Lifecycle \/ Seed
    \/ \E q \in Requests :
          \/ \E i \in Invitations :
                \/ \E p \in Invitees, role \in Roles : Invite(q, p, i, role)
                \/ Resend(q, i) \/ Revoke(q, i) \/ Accept(q, i)
          \/ CommitInvite(q) \/ CommitInvitation(q) \/ CommitAccept(q)
          \/ \E p \in People :
                \/ \E role \in VendorRoles, status \in Statuses : Update(q, p, role, status)
                \/ Deactivate(q, p) \/ Reactivate(q, p) \/ DeactivateAccount(q, p)
                \/ \E actor \in People :
                      \/ \E role \in PlatformRoles, status \in Statuses :
                            PlatformUpdate(q, actor, p, role, status)
                      \/ PlatformDeactivate(q, actor, p)
          \/ CommitMember(q) \/ CommitAccount(q) \/ CommitPlatform(q)
          \/ Abort(q)

Spec == Init /\ [][Next]_vars

-----------------------------------------------------------------------------
\* Rows and requests are well formed; a member has an account.
TypeOK ==
    /\ users \in [People -> UserRow]
    /\ members \in [People -> MemberRow]
    /\ invitations \in [Invitations -> InvitationRow]
    /\ approved \in BOOLEAN /\ drifted \in BOOLEAN /\ revived \in BOOLEAN
    /\ \A q \in Requests :
          /\ requests[q].kind \in TeamKinds \cup {"idle", "invite", "resend", "revoke"}
          /\ requests[q].user \in UserRow /\ requests[q].member \in MemberRow
          /\ requests[q].row \in InvitationRow
    /\ \A p \in People : members[p].exists => users[p].exists

\* An approved vendor keeps an administrator who can work, whatever its members
\* do to each other and to themselves (the test guide, "an administrator cannot
\* deactivate themselves or the final active administrator").
AnAdministratorRemains == approved => Admins # {}

\* It holds for requests that do not overlap, as long as the rows the checks look
\* at agree with the accounts.
AnAdministratorRemainsUnlessDrifted == ~drifted => AnAdministratorRemains

\* Nobody holds two open invitations, however invitations by the two teams overlap
\* with each other, with answers and with revocations; an invitation that was
\* revoked and that an overlapping request has revived is the exception.
OneOpenInvitation ==
    ~revived => \A p \in Invitees :
        Cardinality({i \in Invitations : invitations[i].email = p /\ Open(invitations[i])})
            <= 1

\* A vendor's member who is listed as deactivated cannot work.
DeactivatedMembersAreOut ==
    ~drifted => \A p \in People :
        VendorUser(p) /\ members[p].exists /\ members[p].status # "active"
        => ~users[p].isActive
=============================================================================
