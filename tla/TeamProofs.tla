------------------------------ MODULE TeamProofs ------------------------------
(***************************************************************************)
(* Proofs about Team, for any number of people, invitations and requests.  *)
(* The invariant IInv has three parts.  Accounts never change sides, so a  *)
(* request about a member of the vendor stays one (Sides).  The unique     *)
(* e-mail of open invitations follows the rows as long as no request has   *)
(* saved over another (Pending, Unrevived).  And until two requests about  *)
(* a team overlap, what a request has read is what it will save over, and  *)
(* the rows that its checks look at agree with the accounts (Undrifted).   *)
(***************************************************************************)
EXTENDS Team, FiniteSetTheorems, TLAPS

Kinds == TeamKinds \cup {"idle", "invite", "resend", "revoke"}
MemberKinds == {"update", "deactivate", "reactivate"}
RequestRow ==
    [kind: Kinds, person: People \cup {None}, invitation: Invitations \cup {None},
     user: UserRow, member: MemberRow, row: InvitationRow]

Typed ==
    /\ users \in [People -> UserRow]
    /\ members \in [People -> MemberRow]
    /\ invitations \in [Invitations -> InvitationRow]
    /\ approved \in BOOLEAN /\ drifted \in BOOLEAN /\ revived \in BOOLEAN
    /\ requests \in [Requests -> RequestRow]

\* Whose account, and whose invitation, a request is about; nobody changes sides.
SideOf(r) ==
    /\ r.kind \in MemberKinds => r.person \in People /\ VendorUser(r.person) /\ r.member.exists
    /\ r.kind = "update" => r.member.role \in VendorRoles
    /\ r.kind \in {"platformUpdate", "platformDeactivate"} =>
          r.person \in People /\ PlatformUser(r.person)
    /\ r.kind = "account" =>
          /\ r.person \in People /\ users[r.person].exists /\ r.user.exists
          /\ r.user.role \in VendorRoles <=> VendorUser(r.person)
    /\ r.kind = "accept" => r.person \in Invitees /\ r.row.email = r.person
    /\ r.kind \in {"invite", "resend", "revoke", "accept"} <=> r.invitation \in Invitations

Sides ==
    /\ PlatformUser(Root)
    /\ \A p \in People : members[p].exists => users[p].exists
    /\ \A q \in Requests : SideOf(requests[q])

\* A request about a row of team_invitations does not change whom it is for.
PendingOf(r) ==
    LET i == r.invitation IN
    /\ r.kind = "invite" => invitations[i] = NoInvitation
    /\ r.kind = "invite" =>
          r.row.email = r.person /\ r.row.pendingEmail /\ ~r.row.revoked /\ ~r.row.accepted
    /\ r.kind \in {"resend", "revoke", "accept"} =>
          r.row.email = invitations[i].email /\ invitations[i].email # None
    /\ r.kind = "revoke" => r.row.revoked
    /\ r.kind = "accept" => r.row.accepted /\ ~r.row.pendingEmail

Pending ==
    /\ \A i, j \in Invitations :
          /\ invitations[i].pendingEmail /\ invitations[j].pendingEmail
          /\ invitations[i].email = invitations[j].email
          => i = j
    /\ \A q \in Requests : PendingOf(requests[q])
    /\ \A q, s \in Requests : requests[q].kind = "invite" /\ q # s =>
          requests[s].invitation # requests[q].invitation

\* As long as nobody has saved over another's invitation, what is open has its e-mail
\* in the unique column, and what was read to be sent again is still open.
OpenStill(r) == r.kind = "resend" => Open(invitations[r.invitation])

Unrevived ==
    ~revived =>
        /\ \A i \in Invitations : Open(invitations[i]) => invitations[i].pendingEmail
        /\ \A q \in Requests : OpenStill(requests[q])

\* What a request about a team has read holds until it commits.
Current(r) ==
    LET p == r.person IN
    /\ r.kind \in MemberKinds =>
          /\ members[p].exists /\ Admins # {}
          /\ r.kind # "update" => r.member.role = members[p].role
          /\ AdminRow(members[p]) /\ ~AdminRow(r.member) => ~FinalAdmin
    /\ r.kind = "account" /\ VendorUser(p) =>
          /\ r.user.role = users[p].role
          /\ users[p].role = "vendor_admin" => ~FinalAdmin

Agree(p) ==
    VendorUser(p) /\ members[p].exists =>
        /\ members[p].role = users[p].role
        /\ users[p].isActive => members[p].status = "active"

Undrifted ==
    ~drifted =>
        /\ \A p \in People : Agree(p)
        /\ \E p \in People : users[p].exists /\ users[p].role = "vendor_admin"
        /\ approved => Admins # {}
        /\ \A q \in Requests : Current(requests[q])

IInv == Typed /\ Sides /\ Pending /\ Unrevived /\ Undrifted

-----------------------------------------------------------------------------
LEMMA Constants ==
    /\ NoUser \in UserRow /\ NoMember \in MemberRow /\ NoInvitation \in InvitationRow
    /\ NoInvitation.email = None /\ ~NoInvitation.pendingEmail
    /\ Idle \in RequestRow /\ Idle.kind = "idle" /\ Idle.invitation = None
    /\ Idle.person = None
  BY DEF NoUser, UserRow, NoMember, MemberRow, NoInvitation, InvitationRow, Idle, RequestRow,
         Roles, VendorRoles, PlatformRoles, Statuses, Kinds, TeamKinds

LEMMA PeopleApart ==
    /\ Owner \in People /\ Root \in People /\ Owner # Root /\ Invitees \subseteq People
    /\ Root \notin Invitees /\ Owner \notin Invitees /\ None \notin Invitees
    /\ None \notin Invitations
  BY TeamAssumption DEF People

LEMMA RolesApart ==
    /\ VendorRoles \cap PlatformRoles = {} /\ VendorRoles \cup PlatformRoles = Roles
  BY DEF VendorRoles, PlatformRoles, Roles

LEMMA IdleHolds ==
    /\ SideOf(Idle) /\ PendingOf(Idle) /\ OpenStill(Idle) /\ Current(Idle)
    /\ SideOf(Idle)' /\ PendingOf(Idle)' /\ OpenStill(Idle)' /\ Current(Idle)'
  BY Constants, PeopleApart DEF SideOf, PendingOf, OpenStill, Current, MemberKinds

\* A request begins with what its action has read.
LEMMA BeginKeeps ==
    ASSUME IInv, NEW q \in Requests, NEW r \in RequestRow, Begin(q, r),
           SideOf(r), PendingOf(r), ~revived => OpenStill(r), ~drifted => Current(r),
           r.kind = "invite" => \A s \in Requests : requests[s].invitation # r.invitation
    PROVE  IInv'
<1>1. /\ requests' = [requests EXCEPT ![q] = r] /\ requests \in [Requests -> RequestRow]
      /\ UNCHANGED <<users, members, invitations, approved, drifted, revived>>
  BY DEF Begin, IInv, Typed
<1>2. requests'[q] = r /\ \A s \in Requests \ {q} : requests'[s] = requests[s]
  BY <1>1
<1>3. Typed'
  BY <1>1 DEF IInv, Typed
<1>4. \A t \in RequestRow :
         /\ SideOf(t) => SideOf(t)'
         /\ PendingOf(t) => PendingOf(t)'
         /\ OpenStill(t) => OpenStill(t)'
         /\ Current(t) => Current(t)'
  BY <1>1 DEF SideOf, PendingOf, OpenStill, Current, VendorUser, PlatformUser, Open, Admins,
              ActiveWith, FinalAdmin, AdminsCounted
<1>5. \A s \in Requests : requests[s] \in RequestRow
  BY <1>1
<1>6. Sides'
  BY <1>1, <1>2, <1>4, <1>5 DEF IInv, Sides, PlatformUser
<1>7. \A s \in Requests : requests[s].kind = "invite" => requests[s].invitation # r.invitation
  <2> SUFFICES ASSUME NEW s \in Requests, requests[s].kind = "invite",
                      requests[s].invitation = r.invitation
               PROVE  FALSE
    OBVIOUS
  <2>1. SideOf(requests[s]) /\ PendingOf(requests[s])
    BY DEF IInv, Sides, Pending
  <2>2. r.invitation \in Invitations /\ invitations[r.invitation] = NoInvitation
    BY <2>1 DEF SideOf, PendingOf
  <2>3. r.kind \in {"invite", "resend", "revoke", "accept"}
    BY <2>2 DEF SideOf
  <2> QED  BY <2>2, <2>3, Constants DEF PendingOf
<1>8. Pending'
  <2>1. \A s, t \in Requests : requests'[s].kind = "invite" /\ s # t =>
           requests'[t].invitation # requests'[s].invitation
    BY <1>2, <1>7 DEF IInv, Pending
  <2>2. \A s \in Requests : PendingOf(requests[s])' \/ s = q
    BY <1>2, <1>4, <1>5 DEF IInv, Pending
  <2>3. PendingOf(requests[q])'
    BY <1>2, <1>4
  <2> QED  BY <1>1, <2>1, <2>2, <2>3 DEF IInv, Pending
<1>9. Unrevived'
  BY <1>1, <1>2, <1>4, <1>5 DEF IInv, Unrevived, Open
<1>10. Undrifted'
  <2>1. ~drifted' => \A s \in Requests : Current(requests[s])'
    BY <1>1, <1>2, <1>4, <1>5 DEF IInv, Undrifted
  <2> QED  BY <1>1, <2>1 DEF IInv, Undrifted, Agree, VendorUser, Admins, ActiveWith
<1> QED  BY <1>3, <1>6, <1>8, <1>9, <1>10 DEF IInv

LEMMA InviteKeeps ==
    ASSUME IInv, NEW q \in Requests, NEW p \in Invitees, NEW i \in Invitations, NEW role \in Roles,
           Invite(q, p, i, role)
    PROVE  IInv'
<1> DEFINE row == [NoInvitation EXCEPT !.email = p, !.role = role, !.pendingEmail = TRUE]
           r == [Idle EXCEPT !.kind = "invite", !.person = p, !.invitation = i, !.row = row]
<1>1. /\ row \in InvitationRow /\ row.email = p /\ row.pendingEmail /\ ~row.revoked
      /\ ~row.accepted
  BY DEF NoInvitation, InvitationRow
<1> HIDE DEF row
<1>2. r \in RequestRow /\ r.kind = "invite" /\ r.person = p /\ r.invitation = i /\ r.row = row
  BY <1>1, PeopleApart, Constants DEF RequestRow, Kinds
<1>3. Begin(q, r) /\ invitations[i] = NoInvitation /\ \A s \in Requests : requests[s].invitation # i
  BY DEF Invite, row
<1> HIDE DEF r
<1>4. SideOf(r) /\ PendingOf(r) /\ OpenStill(r) /\ Current(r)
  BY <1>1, <1>2, <1>3 DEF SideOf, PendingOf, OpenStill, Current, MemberKinds
<1> QED  BY <1>2, <1>3, <1>4, BeginKeeps

\* What is read of an invitation that is there.
LEMMA InvitationRead ==
    ASSUME IInv, NEW q \in Requests, NEW i \in Invitations,
           Resend(q, i) \/ Revoke(q, i) \/ Accept(q, i)
    PROVE  IInv'
<1> DEFINE now == invitations[i]
<1>1. now \in InvitationRow
  BY DEF IInv, Typed
<1>2. CASE Resend(q, i)
  <2> DEFINE row == [now EXCEPT !.revoked = FALSE]
             r == [Idle EXCEPT !.kind = "resend", !.invitation = i, !.row = row]
  <2>1. row \in InvitationRow /\ row.email = now.email
    BY <1>1 DEF InvitationRow
  <2>2. Begin(q, r) /\ Open(now)
    BY <1>2 DEF Resend, Resendable
  <2> HIDE DEF row
  <2>3. r \in RequestRow /\ r.kind = "resend" /\ r.invitation = i /\ r.row = row
    BY <2>1, Constants DEF RequestRow, Kinds
  <2> HIDE DEF r
  <2>4. SideOf(r) /\ PendingOf(r) /\ OpenStill(r) /\ Current(r)
    BY <2>1, <2>2, <2>3 DEF SideOf, PendingOf, OpenStill, Current, MemberKinds, Open
  <2> QED  BY <2>2, <2>3, <2>4, BeginKeeps
<1>3. CASE Revoke(q, i)
  <2> DEFINE row == [now EXCEPT !.revoked = TRUE, !.pendingEmail = FALSE]
             r == [Idle EXCEPT !.kind = "revoke", !.invitation = i, !.row = row]
  <2>1. row \in InvitationRow /\ row.email = now.email /\ row.revoked
    BY <1>1 DEF InvitationRow
  <2>2. Begin(q, r) /\ now.email # None
    BY <1>3 DEF Revoke
  <2> HIDE DEF row
  <2>3. r \in RequestRow /\ r.kind = "revoke" /\ r.invitation = i /\ r.row = row
    BY <2>1, Constants DEF RequestRow, Kinds
  <2> HIDE DEF r
  <2>4. SideOf(r) /\ PendingOf(r) /\ OpenStill(r) /\ Current(r)
    BY <2>1, <2>2, <2>3 DEF SideOf, PendingOf, OpenStill, Current, MemberKinds
  <2> QED  BY <2>2, <2>3, <2>4, BeginKeeps
<1>4. CASE Accept(q, i)
  <2> DEFINE row == [now EXCEPT !.accepted = TRUE, !.pendingEmail = FALSE]
             r == [Idle EXCEPT !.kind = "accept", !.invitation = i, !.person = now.email, !.row = row]
  <2>1. row \in InvitationRow /\ row.email = now.email /\ row.accepted /\ ~row.pendingEmail
    BY <1>1 DEF InvitationRow
  <2>2. Begin(q, r) /\ now.email \in Invitees
    BY <1>1, <1>4 DEF Accept, Open, InvitationRow
  <2> HIDE DEF row
  <2>3. /\ r \in RequestRow /\ r.kind = "accept" /\ r.invitation = i /\ r.row = row
        /\ r.person = now.email
    BY <2>1, <2>2, Constants, PeopleApart DEF RequestRow, Kinds, TeamKinds
  <2> HIDE DEF r
  <2>4. SideOf(r) /\ PendingOf(r) /\ OpenStill(r) /\ Current(r)
    BY <2>1, <2>2, <2>3, PeopleApart DEF SideOf, PendingOf, OpenStill, Current, MemberKinds
  <2> QED  BY <2>2, <2>3, <2>4, BeginKeeps
<1> QED  BY <1>2, <1>3, <1>4

\* A request about a member begins.
LEMMA MemberRead ==
    ASSUME IInv, NEW q \in Requests, NEW kind \in MemberKinds, NEW p \in People,
           NEW row \in MemberRow, BeginTeam(q, kind, p, row),
           VendorUser(p), members[p].exists, row.exists, Admins # {},
           kind = "update" => row.role \in VendorRoles,
           kind # "update" => row.role = members[p].role,
           AdminRow(members[p]) /\ ~AdminRow(row) => ~FinalAdmin
    PROVE  IInv'
<1> DEFINE r == [Idle EXCEPT !.kind = kind, !.person = p, !.member = row]
<1>1. /\ r \in RequestRow /\ r.kind = kind /\ r.person = p /\ r.member = row
      /\ r.invitation = None
  BY Constants DEF RequestRow, Kinds, TeamKinds, MemberKinds
<1>2. Begin(q, r)
  BY DEF BeginTeam
<1> HIDE DEF r
<1>3. SideOf(r) /\ PendingOf(r) /\ OpenStill(r) /\ Current(r)
  BY <1>1, PeopleApart DEF SideOf, PendingOf, OpenStill, Current, MemberKinds
<1> QED  BY <1>1, <1>2, <1>3, BeginKeeps DEF MemberKinds

LEMMA VendorReads ==
    ASSUME IInv, NEW q \in Requests, NEW p \in People,
           \/ \E role \in VendorRoles, status \in Statuses : Update(q, p, role, status)
           \/ Deactivate(q, p) \/ Reactivate(q, p)
    PROVE  IInv'
<1>1. members[p] \in MemberRow
  BY DEF IInv, Typed
<1>2. ASSUME NEW role \in VendorRoles, NEW status \in Statuses, Update(q, p, role, status)
      PROVE  IInv'
  <2> DEFINE row == [members[p] EXCEPT !.role = role, !.status = status]
  <2>1. /\ row \in MemberRow /\ row.exists = members[p].exists /\ row.role = role
        /\ row.status = status
    BY <1>1, RolesApart DEF MemberRow
  <2>2. /\ BeginTeam(q, "update", p, row) /\ VendorUser(p) /\ members[p].exists /\ Admins # {}
        /\ AdminRow(members[p]) /\ ~(role = "vendor_admin" /\ status = "active") => ~FinalAdmin
    BY <1>2 DEF Update
  <2> HIDE DEF row
  <2> QED  BY <2>1, <2>2, MemberRead DEF AdminRow, MemberKinds
<1>3. CASE Deactivate(q, p)
  <2>1. /\ Deactivated(members[p]) \in MemberRow
        /\ Deactivated(members[p]).exists = members[p].exists
        /\ Deactivated(members[p]).role = members[p].role
    BY <1>1 DEF Deactivated, MemberRow, Statuses
  <2>2. /\ BeginTeam(q, "deactivate", p, Deactivated(members[p])) /\ VendorUser(p)
        /\ members[p].exists /\ Admins # {}
        /\ AdminRow(members[p]) => ~FinalAdmin
    BY <1>3 DEF Deactivate
  <2> QED  BY <2>1, <2>2, MemberRead DEF MemberKinds
<1>4. CASE Reactivate(q, p)
  <2> DEFINE row == [members[p] EXCEPT !.status = "active"]
  <2>1. /\ row \in MemberRow /\ row.exists = members[p].exists /\ row.role = members[p].role
        /\ row.status = "active"
    BY <1>1 DEF MemberRow, Statuses
  <2>2. /\ BeginTeam(q, "reactivate", p, row) /\ VendorUser(p)
        /\ members[p].exists /\ Admins # {}
    BY <1>4 DEF Reactivate
  <2> HIDE DEF row
  <2>3. AdminRow(members[p]) => AdminRow(row)
    BY <2>1 DEF AdminRow
  <2>4. "reactivate" \in MemberKinds
    BY DEF MemberKinds
  <2> QED  BY <2>1, <2>2, <2>3, <2>4, MemberRead
<1> QED  BY <1>2, <1>3, <1>4

LEMMA AccountRead ==
    ASSUME IInv, NEW q \in Requests, NEW p \in People, DeactivateAccount(q, p)
    PROVE  IInv'
<1> DEFINE r == [Idle EXCEPT !.kind = "account", !.person = p, !.user = users[p]]
<1>1. /\ r \in RequestRow /\ r.kind = "account" /\ r.person = p /\ r.user = users[p]
      /\ r.invitation = None
  BY Constants DEF RequestRow, Kinds, TeamKinds, IInv, Typed
<1>2. Begin(q, r) /\ users[p].exists /\ (users[p].role = "vendor_admin" => ~FinalAdmin)
  BY DEF DeactivateAccount
<1> HIDE DEF r
<1>3. SideOf(r) /\ PendingOf(r) /\ OpenStill(r) /\ Current(r)
  BY <1>1, <1>2, PeopleApart
     DEF SideOf, PendingOf, OpenStill, Current, MemberKinds, VendorUser
<1> QED  BY <1>1, <1>2, <1>3, BeginKeeps

LEMMA PlatformReads ==
    ASSUME IInv, NEW q \in Requests, NEW p \in People, NEW actor \in People,
           \/ \E role \in PlatformRoles, status \in Statuses :
                 PlatformUpdate(q, actor, p, role, status)
           \/ PlatformDeactivate(q, actor, p)
    PROVE  IInv'
<1>1. PICK kind \in {"platformUpdate", "platformDeactivate"}, row \in MemberRow :
         BeginTeam(q, kind, p, row) /\ PlatformUser(p)
  <2>1. members[p] \in MemberRow
    BY DEF IInv, Typed
  <2>2. ASSUME NEW role \in PlatformRoles, NEW status \in Statuses,
               PlatformUpdate(q, actor, p, role, status)
        PROVE  \E row \in MemberRow : BeginTeam(q, "platformUpdate", p, row) /\ PlatformUser(p)
    <3> DEFINE row == [PlatformRow(p) EXCEPT !.role = role, !.status = status]
    <3>1. PlatformRow(p) \in MemberRow
      BY <2>1 DEF PlatformRow, MemberRow, Roles, PlatformRoles, Statuses
    <3>2. row \in MemberRow
      BY <3>1, RolesApart DEF MemberRow
    <3>3. BeginTeam(q, "platformUpdate", p, row) /\ PlatformUser(p)
      BY <2>2 DEF PlatformUpdate
    <3> HIDE DEF row
    <3> QED  BY <3>2, <3>3
  <2>3. CASE PlatformDeactivate(q, actor, p)
    <3> DEFINE row == IF members[p].exists THEN Deactivated(members[p]) ELSE NoMember
    <3>1. row \in MemberRow
      BY <2>1, Constants DEF Deactivated, MemberRow, Statuses
    <3>2. BeginTeam(q, "platformDeactivate", p, row) /\ PlatformUser(p)
      BY <2>3 DEF PlatformDeactivate
    <3> QED  BY <3>1, <3>2
  <2> QED  BY <2>2, <2>3
<1> DEFINE r == [Idle EXCEPT !.kind = kind, !.person = p, !.member = row]
<1>2. /\ r \in RequestRow /\ r.kind = kind /\ r.person = p /\ r.invitation = None
  BY Constants DEF RequestRow, Kinds, TeamKinds
<1>3. Begin(q, r)
  BY <1>1 DEF BeginTeam
<1> HIDE DEF r
<1>4. SideOf(r) /\ PendingOf(r) /\ OpenStill(r) /\ Current(r)
  BY <1>1, <1>2, PeopleApart DEF SideOf, PendingOf, OpenStill, Current, MemberKinds
<1> QED  BY <1>2, <1>3, <1>4, BeginKeeps

-----------------------------------------------------------------------------
LEMMA InitIInv == Init => IInv
<1> SUFFICES ASSUME Init PROVE IInv
  OBVIOUS
<1> DEFINE ownerRow == [exists |-> TRUE, role |-> "vendor_admin", isActive |-> TRUE]
           rootRow == [exists |-> TRUE, role |-> "super_admin", isActive |-> TRUE]
<1>1. /\ ownerRow \in UserRow /\ ownerRow.exists /\ ownerRow.isActive
      /\ ownerRow.role = "vendor_admin"
      /\ rootRow \in UserRow /\ rootRow.exists /\ rootRow.role = "super_admin"
  BY DEF UserRow, Roles, VendorRoles, PlatformRoles
<1>2. /\ users = [p \in People |-> IF p = Owner THEN ownerRow ELSE IF p = Root THEN rootRow
                                   ELSE NoUser]
      /\ members = [p \in People |-> NoMember]
      /\ invitations = [i \in Invitations |-> NoInvitation]
      /\ requests = [q \in Requests |-> Idle]
      /\ approved = TRUE /\ drifted = FALSE /\ revived = FALSE
  BY DEF Init
<1> HIDE DEF ownerRow, rootRow
<1>3. users[Owner] = ownerRow /\ users[Root] = rootRow
  BY <1>2, PeopleApart
<1>4. \A q \in Requests : requests[q] = Idle
  BY <1>2
<1>5. Typed
  BY <1>1, <1>2, Constants DEF Typed
<1>6. Sides
  <2>1. \A p \in People : ~members[p].exists
    BY <1>2 DEF NoMember
  <2> QED  BY <1>1, <1>3, <1>4, <2>1, IdleHolds DEF Sides, PlatformUser, PlatformRoles
<1>7. Pending
  <2>1. \A i \in Invitations : ~invitations[i].pendingEmail
    BY <1>2, Constants
  <2> QED  BY <1>4, <2>1, IdleHolds, Constants DEF Pending
<1>8. Unrevived
  BY <1>2, <1>4, IdleHolds, Constants DEF Unrevived, Open
<1>9. Undrifted
  <2>1. \A p \in People : ~members[p].exists
    BY <1>2 DEF NoMember
  <2>2. Owner \in Admins
    BY <1>1, <1>3, PeopleApart DEF Admins, ActiveWith
  <2> QED
    BY <1>1, <1>3, <1>4, <2>1, <2>2, PeopleApart, IdleHolds DEF Undrifted, Agree
<1> QED  BY <1>5, <1>6, <1>7, <1>8, <1>9 DEF IInv

-----------------------------------------------------------------------------
(* What a step that ends a request leaves as it was.                       *)

EndedOrSame ==
    /\ requests' \in [Requests -> RequestRow]
    /\ \A s \in Requests : requests'[s] \in {requests[s], Idle}

LEMMA EndKeeps ==
    ASSUME IInv, NEW q \in Requests, End(q)
    PROVE  /\ requests'[q] = Idle /\ \A s \in Requests \ {q} : requests'[s] = requests[s]
           /\ EndedOrSame
  BY Constants DEF IInv, Typed, End, EndedOrSame

\* Accounts do not change sides.
LEMMA SidesKept ==
    ASSUME IInv, EndedOrSame, users' \in [People -> UserRow],
           \A p \in People : users[p].exists =>
               users'[p].exists /\ (users'[p].role \in VendorRoles <=> users[p].role \in VendorRoles),
           \A p \in People : members'[p].exists => users'[p].exists
    PROVE  Sides'
<1>1. \A p \in People : users[p].role \in Roles /\ users'[p].role \in Roles
  BY DEF IInv, Typed, UserRow
<1>2. \A p \in People : users[p].exists =>
         /\ users'[p].exists
         /\ VendorUser(p)' <=> VendorUser(p)
         /\ PlatformUser(p)' <=> PlatformUser(p)
  BY <1>1, RolesApart DEF VendorUser, PlatformUser
<1>3. \A p \in People : /\ VendorUser(p) => users[p].exists /\ VendorUser(p)'
                        /\ PlatformUser(p) => users[p].exists /\ PlatformUser(p)'
  BY <1>2 DEF VendorUser, PlatformUser
<1>4. ASSUME NEW r \in RequestRow, SideOf(r) PROVE SideOf(r)'
  BY <1>2, <1>3, <1>4 DEF SideOf
<1>5. \A s \in Requests : SideOf(requests[s])'
  <2> TAKE s \in Requests
  <2>1. requests[s] \in RequestRow /\ SideOf(requests[s])
    BY DEF IInv, Typed, Sides
  <2>2. CASE requests'[s] = requests[s]
    BY <1>4, <2>1, <2>2
  <2>3. CASE requests'[s] = Idle
    BY <2>3, IdleHolds
  <2> QED  BY <2>2, <2>3 DEF EndedOrSame
<1>6. PlatformUser(Root)'
  BY <1>3, PeopleApart DEF IInv, Sides
<1> QED  BY <1>5, <1>6 DEF Sides

LEMMA InvitationsKept ==
    ASSUME IInv, EndedOrSame, UNCHANGED <<invitations, revived>>
    PROVE  Pending' /\ Unrevived'
<1>1. \A s \in Requests : \/ requests'[s] = requests[s]
                          \/ requests'[s] = Idle
  BY DEF EndedOrSame
<1>2. \A r \in RequestRow : /\ PendingOf(r) => PendingOf(r)'
                            /\ OpenStill(r) => OpenStill(r)'
  BY DEF PendingOf, OpenStill, Open
<1>3. \A s \in Requests : requests[s] \in RequestRow /\ PendingOf(requests[s])
                          /\ SideOf(requests[s])
  BY DEF IInv, Typed, Pending, Sides
<1>4. \A s \in Requests : PendingOf(requests[s])'
  BY <1>1, <1>2, <1>3, IdleHolds
<1>5. ~revived' => \A s \in Requests : OpenStill(requests[s])'
  BY <1>1, <1>2, <1>3, IdleHolds DEF IInv, Unrevived
<1>6. ASSUME NEW s \in Requests, NEW t \in Requests, requests'[s].kind = "invite", s # t
      PROVE  requests'[t].invitation # requests'[s].invitation
  <2>1. requests'[s] = requests[s]
    BY <1>1, <1>6, Constants
  <2>2. requests[s].invitation \in Invitations
    BY <1>3, <1>6, <2>1 DEF SideOf
  <2>3. CASE requests'[t] = requests[t]
    BY <1>6, <2>1, <2>3 DEF IInv, Pending
  <2>4. CASE requests'[t] = Idle
    BY <2>1, <2>2, <2>4, Constants, PeopleApart
  <2> QED  BY <1>1, <2>3, <2>4
<1>7. Pending'
  BY <1>4, <1>6 DEF IInv, Pending
<1> QED  BY <1>5, <1>7 DEF IInv, Unrevived, Open

LEMMA TeamKept ==
    ASSUME IInv, EndedOrSame, UNCHANGED <<users, members, approved, drifted>>
    PROVE  Undrifted'
<1>1. \A s \in Requests : \/ requests'[s] = requests[s]
                          \/ requests'[s] = Idle
  BY DEF EndedOrSame
<1>2. \A r \in RequestRow : Current(r) => Current(r)'
  BY DEF Current, VendorUser, Admins, ActiveWith, FinalAdmin, AdminsCounted
<1>3. ~drifted' => \A s \in Requests : Current(requests[s])'
  BY <1>1, <1>2, IdleHolds DEF IInv, Typed, Undrifted
<1> QED  BY <1>3 DEF IInv, Undrifted, Agree, VendorUser, Admins, ActiveWith

\* Of a request that is alone with the teams nothing is left that could be stale.
LEMMA AloneKeeps ==
    ASSUME IInv, NEW q \in Requests, End(q), ~OthersIn(q, TeamKinds)
    PROVE  \A s \in Requests : Current(requests[s])'
<1> TAKE s \in Requests
<1>1. CASE s = q
  BY <1>1, EndKeeps, IdleHolds
<1>2. CASE s # q
  <2>1. requests'[s].kind \notin TeamKinds
    BY <1>2, EndKeeps DEF OthersIn
  <2> QED  BY <2>1 DEF Current, MemberKinds, TeamKinds
<1> QED  BY <1>1, <1>2

\* Who is not the last administrator leaves another one.
LEMMA AnotherRemains ==
    ASSUME NEW p \in Admins, ~FinalAdmin
    PROVE  \E o \in Admins : o # p
<1> SUFFICES ASSUME Admins = {p} PROVE FALSE
  OBVIOUS
<1>1. Cardinality({p}) = 1
  BY FS_Singleton
<1> QED  BY <1>1 DEF FinalAdmin, AdminsCounted

-----------------------------------------------------------------------------
(* The commits.                                                            *)

LEMMA AbortKeeps ==
    ASSUME IInv, NEW q \in Requests, Abort(q)
    PROVE  IInv'
<1>1. End(q) /\ UNCHANGED <<users, members, invitations, approved, drifted, revived>>
  BY DEF Abort
<1>2. EndedOrSame
  BY <1>1, EndKeeps
<1>3. Typed'
  BY <1>1, <1>2 DEF IInv, Typed, EndedOrSame
<1>4. Sides'
  BY <1>1, <1>2, SidesKept DEF IInv, Typed, Sides
<1> QED  BY <1>1, <1>2, <1>3, <1>4, InvitationsKept, TeamKept DEF IInv

LEMMA CommitInviteKeeps ==
    ASSUME IInv, NEW q \in Requests, CommitInvite(q)
    PROVE  IInv'
<1> DEFINE r == requests[q]
           i == r.invitation
<1>1. /\ End(q) /\ r.kind = "invite" /\ UNCHANGED <<users, members, approved, drifted, revived>>
      /\ invitations' = IF PendingEmailFree(r.person) THEN [invitations EXCEPT ![i] = r.row]
                        ELSE invitations
  BY DEF CommitInvite
<1>2. EndedOrSame /\ requests'[q] = Idle /\ \A s \in Requests \ {q} : requests'[s] = requests[s]
  BY <1>1, EndKeeps
<1>3. r \in RequestRow /\ r.row \in InvitationRow /\ invitations \in [Invitations -> InvitationRow]
  BY DEF IInv, Typed, RequestRow
<1>4. /\ i \in Invitations /\ invitations[i] = NoInvitation
      /\ r.row.email = r.person /\ r.row.pendingEmail /\ ~r.row.revoked /\ ~r.row.accepted
      /\ \A s \in Requests \ {q} : requests[s].invitation # i
  <2>1. SideOf(r) /\ PendingOf(r)
    BY DEF IInv, Sides, Pending
  <2> QED  BY <1>1, <2>1 DEF SideOf, PendingOf, IInv, Pending
<1>5. Typed'
  BY <1>1, <1>2, <1>3 DEF IInv, Typed, EndedOrSame
<1>6. Sides'
  BY <1>1, <1>2, SidesKept DEF IInv, Typed, Sides
<1>7. Undrifted'
  BY <1>1, <1>2, TeamKept
<1>8. CASE ~PendingEmailFree(r.person)
  <2>1. Pending' /\ Unrevived'
    BY <1>1, <1>2, <1>8, InvitationsKept
  <2> QED  BY <2>1, <1>5, <1>6, <1>7 DEF IInv
<1>9. CASE PendingEmailFree(r.person)
  <2>1. invitations'[i] = r.row /\ \A j \in Invitations \ {i} : invitations'[j] = invitations[j]
    BY <1>1, <1>3, <1>4, <1>9
  <2>2. \A j \in Invitations \ {i} : invitations[j].pendingEmail => invitations[j].email # r.row.email
    BY <1>4, <1>9 DEF PendingEmailFree
  <2>3. \A s \in Requests \ {q} : /\ PendingOf(requests[s])'
                                  /\ OpenStill(requests[s]) => OpenStill(requests[s])'
    <3> TAKE s \in Requests \ {q}
    <3>1. /\ SideOf(requests[s]) /\ PendingOf(requests[s]) /\ requests[s].invitation # i
          /\ requests'[s] = requests[s]
      BY <1>2, <1>4 DEF IInv, Sides, Pending
    <3>2. requests[s].kind \in {"invite", "resend", "revoke", "accept"} =>
             invitations'[requests[s].invitation] = invitations[requests[s].invitation]
      BY <2>1, <3>1 DEF SideOf
    <3> QED  BY <3>1, <3>2 DEF PendingOf, OpenStill, Open
  <2>4. Pending'
    <3>1. \A j, k \in Invitations :
             /\ invitations'[j].pendingEmail /\ invitations'[k].pendingEmail
             /\ invitations'[j].email = invitations'[k].email
             => j = k
      BY <2>1, <2>2 DEF IInv, Pending
    <3>2. \A s \in Requests : PendingOf(requests[s])'
      BY <2>3, <1>2, IdleHolds
    <3>3. \A s, t \in Requests : requests'[s].kind = "invite" /\ s # t =>
             requests'[t].invitation # requests'[s].invitation
      <4> TAKE s, t \in Requests
      <4>1. HAVE requests'[s].kind = "invite" /\ s # t
      <4>2. s # q /\ requests'[s] = requests[s]
        BY <1>2, <4>1, Constants
      <4>3. requests[s].invitation \in Invitations
        BY <4>1, <4>2 DEF IInv, Sides, SideOf
      <4>4. t # q => requests'[t].invitation # requests'[s].invitation
        BY <1>2, <4>1, <4>2 DEF IInv, Pending
      <4> QED  BY <1>2, <4>2, <4>3, <4>4, Constants, PeopleApart
    <3> QED  BY <3>1, <3>2, <3>3 DEF Pending
  <2>5. Unrevived'
    <3>1. ~revived' => \A j \in Invitations : Open(invitations[j])' => invitations'[j].pendingEmail
      BY <1>1, <1>4, <2>1 DEF IInv, Unrevived, Open
    <3>2. ~revived' => \A s \in Requests : OpenStill(requests[s])'
      BY <1>1, <1>2, <2>3, IdleHolds DEF IInv, Unrevived
    <3> QED  BY <3>1, <3>2 DEF Unrevived
  <2> QED  BY <1>5, <1>6, <1>7, <2>4, <2>5 DEF IInv
<1> QED  BY <1>8, <1>9

\* A row that was read is saved over the row that is there by now.
LEMMA SavedOver ==
    ASSUME IInv, NEW q \in Requests, End(q), NEW i \in Invitations, NEW row \in InvitationRow,
           requests[q].invitation = i, requests[q].kind # "invite",
           invitations' = [invitations EXCEPT ![i] = row], InvitationOverlap(q, i),
           row.email = invitations[i].email, row.email # None,
           row.pendingEmail => invitations[i].pendingEmail,
           ~revived /\ Open(row) => row.pendingEmail
    PROVE  Pending' /\ Unrevived'
<1>1. EndedOrSame /\ requests'[q] = Idle /\ \A s \in Requests \ {q} : requests'[s] = requests[s]
  BY EndKeeps
<1>2. invitations'[i] = row /\ \A j \in Invitations \ {i} : invitations'[j] = invitations[j]
  BY DEF IInv, Typed
<1>3. \A s \in Requests : requests[s].kind = "invite" => s # q /\ requests[s].invitation # i
  BY DEF IInv, Pending
<1>4. \A s \in Requests \ {q} : PendingOf(requests[s])'
  <2> TAKE s \in Requests \ {q}
  <2>1. requests'[s] = requests[s] /\ SideOf(requests[s]) /\ PendingOf(requests[s])
    BY <1>1 DEF IInv, Sides, Pending
  <2>2. requests[s].kind \in {"invite", "resend", "revoke", "accept"} =>
           /\ requests[s].invitation \in Invitations
           /\ invitations'[requests[s].invitation].email = invitations[requests[s].invitation].email
    BY <2>1, <1>2 DEF SideOf
  <2>3. requests[s].kind = "invite" => invitations'[requests[s].invitation] = NoInvitation
    BY <2>1, <2>2, <1>2, <1>3 DEF PendingOf
  <2> QED  BY <2>1, <2>2, <2>3 DEF PendingOf
<1>5. Pending'
  <2>1. \A j, k \in Invitations :
           /\ invitations'[j].pendingEmail /\ invitations'[k].pendingEmail
           /\ invitations'[j].email = invitations'[k].email
           => j = k
    BY <1>2 DEF IInv, Pending
  <2>2. \A s \in Requests : PendingOf(requests[s])'
    BY <1>1, <1>4, IdleHolds
  <2>3. \A s, t \in Requests : requests'[s].kind = "invite" /\ s # t =>
           requests'[t].invitation # requests'[s].invitation
    <3> TAKE s, t \in Requests
    <3>1. HAVE requests'[s].kind = "invite" /\ s # t
    <3>2. s # q /\ requests'[s] = requests[s]
      BY <1>1, <3>1, Constants
    <3>3. requests[s].invitation \in Invitations
      BY <3>1, <3>2 DEF IInv, Sides, SideOf
    <3>4. t # q => requests'[t].invitation # requests'[s].invitation
      BY <1>1, <3>1, <3>2 DEF IInv, Pending
    <3> QED  BY <1>1, <3>2, <3>3, <3>4, Constants, PeopleApart
  <2> QED  BY <2>1, <2>2, <2>3 DEF Pending
<1>6. ASSUME ~revived' PROVE ~revived /\ \A s \in Requests \ {q} : requests[s].invitation # i
  BY <1>6 DEF InvitationOverlap
<1>7. ASSUME ~revived', NEW s \in Requests PROVE OpenStill(requests[s])'
  <2>1. CASE s = q
    BY <2>1, <1>1, IdleHolds
  <2>2. CASE s # q
    <3>1. requests'[s] = requests[s] /\ OpenStill(requests[s]) /\ requests[s].invitation # i
          /\ SideOf(requests[s])
      BY <2>2, <1>1, <1>6, <1>7 DEF IInv, Unrevived, Sides
    <3> QED  BY <3>1, <1>2 DEF OpenStill, SideOf, Open
  <2> QED  BY <2>1, <2>2
<1>8. ASSUME ~revived', NEW j \in Invitations, Open(invitations[j])'
      PROVE  invitations'[j].pendingEmail
  BY <1>2, <1>6, <1>8 DEF IInv, Unrevived, Open
<1>9. Unrevived'
  BY <1>7, <1>8 DEF Unrevived
<1> QED  BY <1>5, <1>9

LEMMA CommitInvitationKeeps ==
    ASSUME IInv, NEW q \in Requests, CommitInvitation(q)
    PROVE  IInv'
<1> DEFINE r == requests[q]
           i == r.invitation
           row == [r.row EXCEPT !.pendingEmail = r.kind = "resend" /\ invitations[i].pendingEmail]
<1>1. /\ End(q) /\ r.kind \in {"resend", "revoke"} /\ InvitationOverlap(q, i)
      /\ invitations' = [invitations EXCEPT ![i] = row]
      /\ UNCHANGED <<users, members, approved, drifted>>
  BY DEF CommitInvitation
<1>2. /\ i \in Invitations /\ r.row.email = invitations[i].email /\ invitations[i].email # None
      /\ r.kind = "revoke" => r.row.revoked
      /\ ~revived /\ r.kind = "resend" => Open(invitations[i]) /\ invitations[i].pendingEmail
  <2>1. SideOf(r) /\ PendingOf(r) /\ (~revived => OpenStill(r))
    BY DEF IInv, Sides, Pending, Unrevived
  <2>2. i \in Invitations
    BY <1>1, <2>1 DEF SideOf
  <2> QED  BY <1>1, <2>1, <2>2 DEF PendingOf, OpenStill, IInv, Unrevived
<1>3. r.row \in InvitationRow /\ invitations[i] \in InvitationRow
  BY <1>2 DEF IInv, Typed, RequestRow
<1>4. /\ row \in InvitationRow /\ row.email = r.row.email /\ row.revoked = r.row.revoked
      /\ row.pendingEmail <=> r.kind = "resend" /\ invitations[i].pendingEmail
  BY <1>3 DEF InvitationRow
<1> HIDE DEF row
<1>5. ~revived /\ Open(row) => row.pendingEmail
  BY <1>1, <1>2, <1>4 DEF Open
<1>6. EndedOrSame
  BY <1>1, EndKeeps
<1>7. revived' \in BOOLEAN
  BY <1>1 DEF InvitationOverlap, IInv, Typed
<1>8. Typed'
  BY <1>1, <1>4, <1>6, <1>7 DEF IInv, Typed, EndedOrSame
<1>9. Sides'
  BY <1>1, <1>6, SidesKept DEF IInv, Typed, Sides
<1>10. Pending' /\ Unrevived'
  BY <1>1, <1>2, <1>4, <1>5, SavedOver
<1> QED  BY <1>1, <1>6, <1>8, <1>9, <1>10, TeamKept DEF IInv

LEMMA CommitAcceptKeeps ==
    ASSUME IInv, NEW q \in Requests, CommitAccept(q)
    PROVE  IInv'
<1> DEFINE r == requests[q]
           p == r.person
           i == r.invitation
           user == [exists |-> TRUE, role |-> r.row.role, isActive |-> TRUE]
           member == [exists |-> TRUE, role |-> r.row.role, status |-> "active"]
<1>1. End(q) /\ r.kind = "accept" /\ approved' = approved
  BY DEF CommitAccept
<1>2. EndedOrSame
  BY <1>1, EndKeeps
<1>3. CASE users[p].exists
  <2>1. UNCHANGED <<users, members, invitations, approved, drifted, revived>>
    BY <1>3 DEF CommitAccept
  <2>2. Typed'
    BY <2>1, <1>2 DEF IInv, Typed, EndedOrSame
  <2>3. Sides'
    BY <2>1, <1>2, SidesKept DEF IInv, Typed, Sides
  <2> QED  BY <2>1, <1>2, <2>2, <2>3, InvitationsKept, TeamKept DEF IInv
<1>4. CASE ~users[p].exists
  <2>1. /\ users' = [users EXCEPT ![p] = user] /\ members' = [members EXCEPT ![p] = member]
        /\ invitations' = [invitations EXCEPT ![i] = r.row]
        /\ TeamOverlap(q) /\ InvitationOverlap(q, i)
    BY <1>4 DEF CommitAccept
  <2>2. /\ p \in Invitees /\ p \in People /\ i \in Invitations
        /\ r.row.email = p /\ r.row.email = invitations[i].email /\ r.row.email # None
        /\ r.row.accepted /\ ~r.row.pendingEmail
    <3>1. SideOf(r) /\ PendingOf(r)
      BY DEF IInv, Sides, Pending
    <3> QED  BY <1>1, <3>1, PeopleApart DEF SideOf, PendingOf
  <2>3. r.row \in InvitationRow /\ r.row.role \in Roles
    BY DEF IInv, Typed, RequestRow, InvitationRow
  <2>4. /\ user \in UserRow /\ user.exists /\ user.isActive /\ user.role = r.row.role
        /\ member \in MemberRow /\ member.exists /\ member.status = "active"
        /\ member.role = r.row.role
    BY <2>3 DEF UserRow, MemberRow, Statuses
  <2> HIDE DEF user, member
  <2>5. /\ users'[p] = user /\ \A o \in People \ {p} : users'[o] = users[o]
        /\ members'[p] = member /\ \A o \in People \ {p} : members'[o] = members[o]
    BY <2>1, <2>2 DEF IInv, Typed
  <2>6. drifted' \in BOOLEAN /\ revived' \in BOOLEAN
    BY <2>1 DEF TeamOverlap, InvitationOverlap, IInv, Typed
  <2>7. Typed'
    BY <1>1, <1>2, <2>1, <2>3, <2>4, <2>6 DEF IInv, Typed, EndedOrSame
  <2>8. Sides'
    BY <1>2, <1>4, <2>4, <2>5, <2>7, SidesKept DEF IInv, Typed, Sides
  <2>9. Pending' /\ Unrevived'
    BY <1>1, <2>1, <2>2, <2>3, SavedOver DEF Open
  <2>10. Undrifted'
    <3> SUFFICES ASSUME ~drifted' PROVE Undrifted'
      BY DEF Undrifted
    <3>1. ~drifted /\ ~OthersIn(q, TeamKinds)
      BY <2>1 DEF TeamOverlap
    <3>2. \A o \in People : Agree(o)'
      BY <3>1, <2>4, <2>5 DEF IInv, Undrifted, Agree, VendorUser
    <3>3. \A o \in People : users[o].exists => users'[o] = users[o]
      BY <1>4, <2>5
    <3>4. Admins \subseteq Admins'
      BY <3>3 DEF Admins, ActiveWith
    <3>5. \E o \in People : users'[o].exists /\ users'[o].role = "vendor_admin"
      BY <3>1, <3>3 DEF IInv, Undrifted
    <3>6. \A s \in Requests : Current(requests[s])'
      BY <1>1, <3>1, AloneKeeps
    <3>7. approved' => Admins' # {}
      BY <3>1, <3>4, <1>1 DEF IInv, Undrifted
    <3> QED  BY <3>2, <3>5, <3>6, <3>7 DEF Undrifted
  <2> QED  BY <2>7, <2>8, <2>9, <2>10 DEF IInv
<1> QED  BY <1>3, <1>4

\* An administrator of the vendor whose row agrees is one by its row too.
LEMMA AdminsHaveRows ==
    ASSUME NEW p \in People, members[p].exists, p \in Admins, Agree(p)
    PROVE  AdminRow(members[p])
  BY DEF Admins, ActiveWith, Agree, AdminRow, VendorUser, VendorRoles

\* An account with another role and another status is that of the same person.
Rewritten(f, p, active, role) == [f EXCEPT ![p].isActive = active, ![p].role = role]
IsRewritten(g, f, p, active, role) ==
    /\ g \in [People -> UserRow] /\ \A o \in People \ {p} : g[o] = f[o]
    /\ g[p].exists = f[p].exists /\ g[p].role = role /\ g[p].isActive = active

LEMMA AccountRewritten ==
    ASSUME NEW f \in [People -> UserRow], NEW p \in People, NEW active \in BOOLEAN, NEW role \in Roles
    PROVE  IsRewritten(Rewritten(f, p, active, role), f, p, active, role)
<1> DEFINE g == [f EXCEPT ![p].isActive = active, ![p].role = role]
           row == [exists |-> f[p].exists, role |-> role, isActive |-> active]
<1>1. row \in UserRow /\ row.exists = f[p].exists /\ row.role = role /\ row.isActive = active
  BY DEF UserRow
<1>2. g[p] = row
  BY DEF UserRow
<1>3. \A o \in People \ {p} : g[o] = f[o]
  OBVIOUS
<1>4. DOMAIN g = People /\ g = [o \in People |-> g[o]]
  OBVIOUS
<1> HIDE DEF g, row
<1>5. g \in [People -> UserRow]
  BY <1>1, <1>2, <1>3, <1>4
<1>6. IsRewritten(g, f, p, active, role)
  BY <1>1, <1>2, <1>3, <1>5 DEF IsRewritten
<1> QED  BY <1>6 DEF g, Rewritten

LEMMA CommitMemberKeeps ==
    ASSUME IInv, NEW q \in Requests, CommitMember(q)
    PROVE  IInv'
<1> DEFINE r == requests[q]
           p == r.person
           row == r.member
           role == IF r.kind = "update" THEN row.role ELSE users[p].role
<1>1. /\ End(q) /\ r.kind \in MemberKinds /\ TeamOverlap(q) /\ members' = [members EXCEPT ![p] = row]
      /\ UNCHANGED <<invitations, approved, revived>>
  BY DEF CommitMember, MemberKinds
<1>2. EndedOrSame
  BY <1>1, EndKeeps
<1>3. /\ p \in People /\ users[p].exists /\ users[p].role \in VendorRoles /\ row.exists
      /\ r.kind = "update" => row.role \in VendorRoles
  <2>1. SideOf(r)
    BY DEF IInv, Sides
  <2> QED  BY <1>1, <2>1 DEF SideOf, VendorUser
<1>4. row \in MemberRow /\ users[p] \in UserRow
  BY <1>3 DEF IInv, Typed, RequestRow
<1>5. /\ users' \in [People -> UserRow] /\ \A o \in People \ {p} : users'[o] = users[o]
      /\ users'[p].exists /\ users'[p].role = role
      /\ users'[p].isActive <=> row.status = "active"
  <2> DEFINE active == IsActive(row.status)
  <2>1. users' = Rewritten(users, p, active, role)
    BY DEF CommitMember, Rewritten
  <2>2. active \in BOOLEAN /\ role \in Roles /\ users \in [People -> UserRow]
    BY <1>4 DEF UserRow, MemberRow, IsActive, IInv, Typed
  <2>3. active <=> row.status = "active"
    BY DEF IsActive
  <2>4. p \in People
    BY <1>3
  <2> HIDE DEF p, role, active
  <2>5. IsRewritten(users', users, p, active, role)
    BY <2>1, <2>2, <2>4, AccountRewritten
  <2> USE DEF p, role
  <2> QED  BY <1>3, <2>3, <2>5 DEF IsRewritten
<1>6. members'[p] = row /\ \A o \in People \ {p} : members'[o] = members[o]
  BY <1>1, <1>3 DEF IInv, Typed
<1>7. Typed'
  <2>1. drifted' \in BOOLEAN
    BY <1>1 DEF TeamOverlap, IInv, Typed
  <2> QED  BY <1>1, <1>2, <1>4, <1>5, <2>1 DEF IInv, Typed, EndedOrSame
<1>8. Sides'
  <2>1. role \in VendorRoles
    BY <1>3
  <2> HIDE DEF role
  <2>2. \A o \in People : users[o].exists =>
           users'[o].exists /\ (users'[o].role \in VendorRoles <=> users[o].role \in VendorRoles)
    BY <1>3, <1>5, <2>1
  <2>3. \A o \in People : members'[o].exists => users'[o].exists
    BY <1>5, <1>6 DEF IInv, Sides
  <2> QED  BY <1>2, <1>5, <2>2, <2>3, SidesKept
<1>9. Undrifted'
  <2> SUFFICES ASSUME ~drifted' PROVE Undrifted'
    BY DEF Undrifted
  <2>1. ~drifted /\ ~OthersIn(q, TeamKinds)
    BY <1>1 DEF TeamOverlap
  <2>2. Current(r) /\ \A o \in People : Agree(o)
    BY <2>1 DEF IInv, Undrifted
  <2>3. /\ members[p].exists /\ Admins # {} /\ users'[p].role = row.role
        /\ AdminRow(members[p]) /\ ~AdminRow(row) => ~FinalAdmin
    BY <2>2, <1>1, <1>3, <1>5 DEF Current, Agree, VendorUser
  <2>4. \A o \in People : Agree(o)'
    BY <2>2, <2>3, <1>5, <1>6 DEF Agree, VendorUser
  <2>5. \A o \in Admins : o # p => o \in Admins'
    BY <1>5 DEF Admins, ActiveWith
  <2>6. Admins' # {}
    <3>1. CASE AdminRow(row)
      <4>1. p \in Admins'
        BY <1>3, <1>5, <2>3, <3>1 DEF Admins, ActiveWith, AdminRow
      <4> QED  BY <4>1
    <3>2. CASE ~AdminRow(row) /\ p \in Admins
      <4>1. ~FinalAdmin
        BY <1>3, <2>2, <2>3, <3>2, AdminsHaveRows
      <4>2. PICK o \in Admins : o # p
        BY <4>1, <3>2, AnotherRemains
      <4> QED  BY <4>2, <2>5
    <3>3. CASE p \notin Admins
      BY <2>3, <2>5, <3>3
    <3> QED  BY <3>1, <3>2, <3>3
  <2>7. \E o \in People : users'[o].exists /\ users'[o].role = "vendor_admin"
    BY <2>6 DEF Admins, ActiveWith
  <2>8. \A s \in Requests : Current(requests[s])'
    BY <1>1, <2>1, AloneKeeps
  <2> QED  BY <2>4, <2>6, <2>7, <2>8 DEF Undrifted
<1> QED  BY <1>1, <1>2, <1>7, <1>8, <1>9, InvitationsKept DEF IInv

LEMMA CommitAccountKeeps ==
    ASSUME IInv, NEW q \in Requests, CommitAccount(q)
    PROVE  IInv'
<1> DEFINE r == requests[q]
           p == r.person
           user == [r.user EXCEPT !.isActive = FALSE]
<1>1. /\ End(q) /\ r.kind = "account" /\ TeamOverlap(q) /\ users' = [users EXCEPT ![p] = user]
      /\ UNCHANGED <<members, invitations, approved, revived>>
  BY DEF CommitAccount
<1>2. EndedOrSame
  BY <1>1, EndKeeps
<1>3. /\ p \in People /\ users[p].exists /\ r.user.exists
      /\ r.user.role \in VendorRoles <=> users[p].role \in VendorRoles
  <2>1. SideOf(r)
    BY DEF IInv, Sides
  <2> QED  BY <1>1, <2>1 DEF SideOf, VendorUser
<1>4. r.user \in UserRow
  BY DEF IInv, Typed, RequestRow
<1>5. /\ user \in UserRow /\ user.exists /\ user.role = r.user.role /\ ~user.isActive
  BY <1>3, <1>4 DEF UserRow
<1> HIDE DEF user
<1>6. users'[p] = user /\ \A o \in People \ {p} : users'[o] = users[o]
  BY <1>1, <1>3 DEF IInv, Typed
<1>7. Typed'
  <2>1. drifted' \in BOOLEAN
    BY <1>1 DEF TeamOverlap, IInv, Typed
  <2> QED  BY <1>1, <1>2, <1>5, <2>1 DEF IInv, Typed, EndedOrSame
<1>8. Sides'
  <2>1. \A o \in People : users[o].exists =>
           users'[o].exists /\ (users'[o].role \in VendorRoles <=> users[o].role \in VendorRoles)
    BY <1>3, <1>5, <1>6
  <2>2. \A o \in People : members'[o].exists => users'[o].exists
    BY <1>1, <1>5, <1>6 DEF IInv, Sides
  <2> QED  BY <1>2, <1>7, <2>1, <2>2, SidesKept DEF Typed
<1>9. Undrifted'
  <2> SUFFICES ASSUME ~drifted' PROVE Undrifted'
    BY DEF Undrifted
  <2>1. ~drifted /\ ~OthersIn(q, TeamKinds)
    BY <1>1 DEF TeamOverlap
  <2>2. Current(r) /\ \A o \in People : Agree(o)
    BY <2>1 DEF IInv, Undrifted
  <2>3. VendorUser(p) => /\ users'[p].role = users[p].role
                         /\ users[p].role = "vendor_admin" => ~FinalAdmin
    BY <2>2, <1>1, <1>5, <1>6 DEF Current
  <2>4. \A o \in People : Agree(o)'
    BY <2>2, <2>3, <1>1, <1>3, <1>5, <1>6 DEF Agree, VendorUser
  <2>5. \A o \in Admins : o # p => o \in Admins'
    BY <1>6 DEF Admins, ActiveWith
  <2>6. Admins # {} => Admins' # {}
    <3>1. CASE p \in Admins
      <4>1. ~FinalAdmin
        BY <2>3, <3>1 DEF Admins, ActiveWith, VendorUser, VendorRoles
      <4>2. PICK o \in Admins : o # p
        BY <4>1, <3>1, AnotherRemains
      <4> QED  BY <4>2, <2>5
    <3>2. CASE p \notin Admins
      BY <2>5, <3>2
    <3> QED  BY <3>1, <3>2
  <2>7. \E o \in People : users'[o].exists /\ users'[o].role = "vendor_admin"
    <3>1. PICK o \in People : users[o].exists /\ users[o].role = "vendor_admin"
      BY <2>1 DEF IInv, Undrifted
    <3>2. o = p => VendorUser(p)
      BY <3>1 DEF VendorUser, VendorRoles
    <3>3. users'[o].exists /\ users'[o].role = "vendor_admin"
      BY <3>1, <3>2, <2>3, <1>5, <1>6
    <3> QED  BY <3>3
  <2>8. \A s \in Requests : Current(requests[s])'
    BY <1>1, <2>1, AloneKeeps
  <2>9. approved' => Admins' # {}
    BY <2>1, <2>6, <1>1 DEF IInv, Undrifted
  <2> QED  BY <2>4, <2>7, <2>8, <2>9 DEF Undrifted
<1> QED  BY <1>1, <1>2, <1>7, <1>8, <1>9, InvitationsKept DEF IInv

\* The platform's requests are about people who are not the vendor's.
LEMMA CommitPlatformKeeps ==
    ASSUME IInv, NEW q \in Requests, CommitPlatform(q)
    PROVE  IInv'
<1> DEFINE r == requests[q]
           p == r.person
           row == r.member
<1>1. /\ End(q) /\ TeamOverlap(q) /\ UNCHANGED <<invitations, approved, revived>>
      /\ members' = IF row.exists THEN [members EXCEPT ![p] = row] ELSE members
      /\ users' = IF r.kind = "platformDeactivate" THEN [users EXCEPT ![p].isActive = FALSE]
                  ELSE users
  BY DEF CommitPlatform
<1>2. EndedOrSame
  BY <1>1, EndKeeps
<1>3. /\ p \in People /\ users[p].exists /\ users[p].role \in PlatformRoles
      /\ users[p].role \notin VendorRoles
  <2>1. SideOf(r) /\ r.kind \in {"platformUpdate", "platformDeactivate"}
    BY DEF IInv, Sides, CommitPlatform
  <2> QED  BY <2>1, RolesApart DEF SideOf, PlatformUser
<1>4. row \in MemberRow
  BY DEF IInv, Typed, RequestRow
<1>5. /\ members' \in [People -> MemberRow] /\ \A o \in People \ {p} : members'[o] = members[o]
  BY <1>1, <1>3, <1>4 DEF IInv, Typed
<1>6. /\ users' \in [People -> UserRow] /\ \A o \in People \ {p} : users'[o] = users[o]
      /\ users'[p].exists /\ users'[p].role = users[p].role
  BY <1>1, <1>3 DEF IInv, Typed, UserRow
<1>7. Typed'
  <2>1. drifted' \in BOOLEAN
    BY <1>1 DEF TeamOverlap, IInv, Typed
  <2> QED  BY <1>1, <1>2, <1>5, <1>6, <2>1 DEF IInv, Typed, EndedOrSame
<1>8. Sides'
  <2>1. \A o \in People : users[o].exists =>
           users'[o].exists /\ (users'[o].role \in VendorRoles <=> users[o].role \in VendorRoles)
    BY <1>6
  <2>2. \A o \in People : members'[o].exists => users'[o].exists
    BY <1>5, <1>6 DEF IInv, Sides
  <2> QED  BY <1>2, <1>6, <2>1, <2>2, SidesKept
<1>9. Undrifted'
  <2> SUFFICES ASSUME ~drifted' PROVE Undrifted'
    BY DEF Undrifted
  <2>1. ~drifted /\ ~OthersIn(q, TeamKinds)
    BY <1>1 DEF TeamOverlap
  <2>2. \A o \in People : Agree(o)'
    BY <2>1, <1>3, <1>5, <1>6 DEF IInv, Undrifted, Agree, VendorUser
  <2>3. \A o \in People : users[o].role = "vendor_admin" => users'[o] = users[o]
    BY <1>3, <1>6 DEF VendorRoles
  <2>4. Admins \subseteq Admins'
    BY <2>3 DEF Admins, ActiveWith
  <2>5. \E o \in People : users'[o].exists /\ users'[o].role = "vendor_admin"
    BY <2>1, <2>3 DEF IInv, Undrifted
  <2>6. \A s \in Requests : Current(requests[s])'
    BY <1>1, <2>1, AloneKeeps
  <2>7. approved' => Admins' # {}
    BY <2>1, <2>4, <1>1 DEF IInv, Undrifted
  <2> QED  BY <2>2, <2>5, <2>6, <2>7 DEF Undrifted
<1> QED  BY <1>1, <1>2, <1>7, <1>8, <1>9, InvitationsKept DEF IInv

LEMMA LifecycleKeeps ==
    ASSUME IInv, Lifecycle
    PROVE  IInv'
<1>1. /\ approved' = ~approved /\ UNCHANGED <<members, invitations, requests, revived>>
      /\ users' = [p \in People |->
             IF VendorUser(p) THEN [users[p] EXCEPT !.isActive = ~approved] ELSE users[p]]
      /\ drifted' = \/ drifted
                    \/ \E q \in Requests : requests[q].kind \in TeamKinds
                    \/ \E p \in People :
                          VendorUser(p) /\ members[p].exists /\ members[p].status # "active"
  BY DEF Lifecycle
<1>2. EndedOrSame
  BY <1>1 DEF EndedOrSame, IInv, Typed
<1>3. users' \in [People -> UserRow]
  BY <1>1 DEF IInv, Typed, UserRow
<1>4. \A p \in People : users'[p].exists = users[p].exists /\ users'[p].role = users[p].role
  BY <1>1 DEF IInv, Typed, UserRow
<1>5. \A p \in People : VendorUser(p) => users'[p].isActive = ~approved
  BY <1>1 DEF IInv, Typed, UserRow
<1>6. Typed'
  <2>1. approved' \in BOOLEAN /\ drifted' \in BOOLEAN
    BY <1>1 DEF IInv, Typed
  <2> QED  BY <1>1, <1>3, <2>1 DEF IInv, Typed
<1>7. Sides'
  BY <1>1, <1>2, <1>3, <1>4, SidesKept DEF IInv, Sides
<1>8. Undrifted'
  <2> SUFFICES ASSUME ~drifted' PROVE Undrifted'
    BY DEF Undrifted
  <2>1. /\ ~drifted /\ \A q \in Requests : requests'[q].kind \notin TeamKinds
        /\ \A p \in People : VendorUser(p) /\ members[p].exists => members[p].status = "active"
    <3>1. requests' = requests
      BY <1>1
    <3>2. \A p \in People : ~(VendorUser(p) /\ members[p].exists /\ members[p].status # "active")
      BY <1>1
    <3>3. ~drifted /\ \A q \in Requests : requests[q].kind \notin TeamKinds
      BY <1>1
    <3> QED  BY <3>1, <3>2, <3>3
  <2>2. \A p \in People : VendorUser(p)' <=> VendorUser(p)
    BY <1>4 DEF VendorUser
  <2>3. \A p \in People : Agree(p)'
    BY <1>1, <1>4, <2>1, <2>2 DEF IInv, Undrifted, Agree
  <2>4. PICK p \in People : users[p].exists /\ users[p].role = "vendor_admin"
    BY <2>1 DEF IInv, Undrifted
  <2>5. approved' => p \in Admins'
    <3>1. VendorUser(p)
      BY <2>4 DEF VendorUser, VendorRoles
    <3>2. users'[p].isActive = approved'
      BY <1>1, <1>5, <3>1
    <3> QED  BY <1>4, <2>4, <3>2 DEF Admins, ActiveWith
  <2>6. \A q \in Requests : Current(requests[q])'
    BY <2>1 DEF Current, MemberKinds, TeamKinds
  <2>7. \E o \in People : users'[o].exists /\ users'[o].role = "vendor_admin"
    BY <1>4, <2>4
  <2> QED  BY <2>3, <2>5, <2>6, <2>7 DEF Undrifted
<1> QED  BY <1>1, <1>2, <1>6, <1>7, <1>8, InvitationsKept DEF IInv

\* The seed touches the account of the platform's administrator alone.
LEMMA SeedKeeps ==
    ASSUME IInv, Seed
    PROVE  IInv'
<1> DEFINE row == [exists |-> TRUE, role |-> "super_admin", isActive |-> TRUE]
<1>1. /\ users' = [users EXCEPT ![Root] = row]
      /\ UNCHANGED <<members, invitations, approved, requests, drifted, revived>>
  BY DEF Seed
<1>2. /\ row \in UserRow /\ row.exists /\ row.role \in PlatformRoles /\ row.role \notin VendorRoles
      /\ row.role # "vendor_admin"
  BY DEF UserRow, Roles, PlatformRoles, VendorRoles
<1> HIDE DEF row
<1>3. users'[Root] = row /\ \A p \in People \ {Root} : users'[p] = users[p]
  BY <1>1, PeopleApart DEF IInv, Typed
<1>4. users[Root].exists /\ users[Root].role \notin VendorRoles /\ users[Root].role # "vendor_admin"
  BY RolesApart DEF IInv, Sides, PlatformUser, VendorRoles
<1>5. EndedOrSame
  BY <1>1 DEF EndedOrSame, IInv, Typed
<1>6. Typed'
  BY <1>1, <1>2 DEF IInv, Typed
<1>7. Sides'
  <2>1. \A p \in People : users[p].exists =>
           users'[p].exists /\ (users'[p].role \in VendorRoles <=> users[p].role \in VendorRoles)
    BY <1>2, <1>3, <1>4
  <2>2. \A p \in People : members'[p].exists => users'[p].exists
    BY <1>1, <1>2, <1>3 DEF IInv, Sides
  <2> QED  BY <1>5, <1>6, <2>1, <2>2, SidesKept DEF Typed
<1>8. Admins' = Admins
  BY <1>2, <1>3, <1>4 DEF Admins, ActiveWith
<1>9. \A p \in People : /\ VendorUser(p)' <=> VendorUser(p)
                        /\ VendorUser(p) => users'[p] = users[p]
  BY <1>2, <1>3, <1>4 DEF VendorUser
<1>10. Undrifted'
  <2> SUFFICES ASSUME ~drifted' PROVE Undrifted'
    BY DEF Undrifted
  <2>1. ~drifted
    BY <1>1
  <2>2. ASSUME NEW p \in People PROVE Agree(p)'
    <3>1. Agree(p) /\ members'[p] = members[p]
      BY <1>1, <2>1 DEF IInv, Undrifted
    <3>2. CASE VendorUser(p)
      <4>1. users'[p] = users[p]
        BY <1>9, <3>2
      <4> QED  BY <3>1, <4>1 DEF Agree, VendorUser
    <3>3. CASE ~VendorUser(p)
      <4>1. ~VendorUser(p)'
        BY <1>9, <3>3
      <4> QED  BY <4>1 DEF Agree
    <3> QED  BY <3>2, <3>3
  <2>3. \E p \in People : users'[p].exists /\ users'[p].role = "vendor_admin"
    <3>1. PICK p \in People : users[p].exists /\ users[p].role = "vendor_admin"
      BY <2>1 DEF IInv, Undrifted
    <3> QED  BY <1>3, <1>4, <3>1
  <2>4. \A q \in Requests : Current(requests[q])'
    <3> TAKE q \in Requests
    <3>1. Current(requests[q]) /\ SideOf(requests[q]) /\ requests'[q] = requests[q]
      BY <1>1, <2>1 DEF IInv, Undrifted, Sides
    <3>2. FinalAdmin' <=> FinalAdmin
      BY <1>8 DEF FinalAdmin, AdminsCounted
    <3> QED  BY <1>1, <1>8, <1>9, <3>1, <3>2 DEF Current, SideOf
  <2>5. approved' => Admins' # {}
    BY <1>1, <1>8, <2>1 DEF IInv, Undrifted
  <2> QED  BY <2>2, <2>3, <2>4, <2>5 DEF Undrifted
<1> QED  BY <1>1, <1>5, <1>6, <1>7, <1>10, InvitationsKept DEF IInv

-----------------------------------------------------------------------------
LEMMA StepIInv == IInv /\ [Next]_vars => IInv'
<1> SUFFICES ASSUME IInv, [Next]_vars PROVE IInv'
  OBVIOUS
<1>1. CASE UNCHANGED vars
  <2>1. EndedOrSame /\ UNCHANGED <<users, members, invitations, approved, requests, drifted, revived>>
    BY <1>1 DEF vars, EndedOrSame, IInv, Typed
  <2>2. Typed'
    BY <2>1 DEF IInv, Typed
  <2>3. Sides'
    BY <2>1, SidesKept DEF IInv, Typed, Sides
  <2> QED  BY <2>1, <2>2, <2>3, InvitationsKept, TeamKept DEF IInv
<1>2. CASE Next
  <2>1. CASE Lifecycle
    BY <2>1, LifecycleKeeps
  <2>2. CASE Seed
    BY <2>2, SeedKeeps
  <2>3. ASSUME NEW q \in Requests, NEW i \in Invitations,
               \/ \E p \in Invitees, role \in Roles : Invite(q, p, i, role)
               \/ Resend(q, i) \/ Revoke(q, i) \/ Accept(q, i)
        PROVE  IInv'
    BY <2>3, InviteKeeps, InvitationRead
  <2>4. ASSUME NEW q \in Requests,
               CommitInvite(q) \/ CommitInvitation(q) \/ CommitAccept(q)
        PROVE  IInv'
    BY <2>4, CommitInviteKeeps, CommitInvitationKeeps, CommitAcceptKeeps
  <2>5. ASSUME NEW q \in Requests, NEW p \in People,
               \/ \E role \in VendorRoles, status \in Statuses : Update(q, p, role, status)
               \/ Deactivate(q, p) \/ Reactivate(q, p)
        PROVE  IInv'
    BY <2>5, VendorReads
  <2>6. ASSUME NEW q \in Requests, NEW p \in People, DeactivateAccount(q, p)
        PROVE  IInv'
    BY <2>6, AccountRead
  <2>7. ASSUME NEW q \in Requests, NEW p \in People, NEW actor \in People,
               \/ \E role \in PlatformRoles, status \in Statuses :
                     PlatformUpdate(q, actor, p, role, status)
               \/ PlatformDeactivate(q, actor, p)
        PROVE  IInv'
    BY <2>7, PlatformReads
  <2>8. ASSUME NEW q \in Requests,
               CommitMember(q) \/ CommitAccount(q) \/ CommitPlatform(q) \/ Abort(q)
        PROVE  IInv'
    BY <2>8, CommitMemberKeeps, CommitAccountKeeps, CommitPlatformKeeps, AbortKeeps
  <2>9. CASE \E q \in Requests, i \in Invitations :
                \/ \E p \in Invitees, role \in Roles : Invite(q, p, i, role)
                \/ Resend(q, i) \/ Revoke(q, i) \/ Accept(q, i)
    BY <2>3, <2>9
  <2>10. CASE \E q \in Requests : CommitInvite(q) \/ CommitInvitation(q) \/ CommitAccept(q)
    BY <2>4, <2>10
  <2>11. CASE \E q \in Requests, p \in People :
                \/ \E role \in VendorRoles, status \in Statuses : Update(q, p, role, status)
                \/ Deactivate(q, p) \/ Reactivate(q, p)
    BY <2>5, <2>11
  <2>12. CASE \E q \in Requests, p \in People : DeactivateAccount(q, p)
    BY <2>6, <2>12
  <2>13. CASE \E q \in Requests, p \in People, actor \in People :
                 \/ \E role \in PlatformRoles, status \in Statuses :
                       PlatformUpdate(q, actor, p, role, status)
                 \/ PlatformDeactivate(q, actor, p)
    BY <2>7, <2>13
  <2>14. CASE \E q \in Requests :
                 CommitMember(q) \/ CommitAccount(q) \/ CommitPlatform(q) \/ Abort(q)
    BY <2>8, <2>14
  <2> QED
    BY <1>2, <2>1, <2>2, <2>9, <2>10, <2>11, <2>12, <2>13, <2>14, Zenon DEF Next
<1> QED  BY <1>1, <1>2

LEMMA IInvAlways == Spec => []IInv
  BY InitIInv, StepIInv, PTL DEF Spec

-----------------------------------------------------------------------------
\* In every reachable state accounts, rows, invitations and what a request is about to
\* save are well formed, and whoever has a row of team_members has an account (accept of
\* TeamController inserts both in one transaction, and nothing deletes either).
THEOREM TypeCorrect == Spec => []TypeOK
<1>1. IInv => TypeOK
  <2> SUFFICES ASSUME IInv PROVE TypeOK
    OBVIOUS
  <2>1. \A q \in Requests : requests[q] \in RequestRow
    BY DEF IInv, Typed
  <2> QED  BY <2>1 DEF IInv, Typed, Sides, TypeOK, RequestRow, Kinds
<1> QED  BY <1>1, IInvAlways, PTL

\* For any number of people, invitations and requests: an approved vendor keeps an
\* administrator who can work, whatever update and deactivate of TeamController, the
\* deactivation of one's own account and vendorLifecycle do, until two of them overlap or
\* a reactivation of the vendor lets a deactivated member back in.
THEOREM AnAdministratorIsKept == Spec => []AnAdministratorRemainsUnlessDrifted
<1>1. IInv => AnAdministratorRemainsUnlessDrifted
  BY DEF IInv, Undrifted, AnAdministratorRemainsUnlessDrifted, AnAdministratorRemains
<1> QED  BY <1>1, IInvAlways, PTL

\* For any number of overlapping invitations by both teams nobody holds two that are
\* open, unless a request saved an invitation over what another had made of it: the unique
\* column pendingEmail stands for what is open, although resend and revoke do not read it.
THEOREM InvitationsAreAlone == Spec => []OneOpenInvitation
<1>1. IInv => OneOpenInvitation
  <2> SUFFICES ASSUME IInv, ~revived, NEW p \in Invitees
               PROVE  Cardinality({i \in Invitations :
                          invitations[i].email = p /\ Open(invitations[i])}) <= 1
    BY DEF OneOpenInvitation
  <2> DEFINE open == {i \in Invitations : invitations[i].email = p /\ Open(invitations[i])}
  <2>1. \A i, j \in open : i = j
    BY DEF IInv, Pending, Unrevived
  <2>2. CASE open = {}
    <3>1. Cardinality(open) = 0
      BY <2>2, FS_EmptySet
    <3> QED  BY <3>1
  <2>3. CASE open # {}
    <3>1. PICK i \in open : TRUE
      BY <2>3
    <3>2. open = {i}
      BY <2>1, <3>1
    <3>3. Cardinality(open) = 1
      BY <3>2, FS_Singleton
    <3> QED  BY <3>3
  <2> QED  BY <2>2, <2>3
<1> QED  BY <1>1, IInvAlways, PTL

\* A member of the vendor whose row says deactivated cannot work: TeamController saves the
\* row and the account together, and until two requests about a team overlap nothing else
\* changes one without the other to the member's favour.
THEOREM DeactivatedStayOut == Spec => []DeactivatedMembersAreOut
<1>1. IInv => DeactivatedMembersAreOut
  BY DEF IInv, Undrifted, Agree, DeactivatedMembersAreOut
<1> QED  BY <1>1, IInvAlways, PTL

=============================================================================
