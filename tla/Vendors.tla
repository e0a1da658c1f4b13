------------------------------- MODULE Vendors -------------------------------
(***************************************************************************)
(* One vendor from registration to deletion: its row of organizations, the *)
(* access of its administrator, the platform's decisions about it and the  *)
(* requests to change its name (src/onboarding, src/approvals,             *)
(* src/governance).                                                        *)
(*                                                                         *)
(* Handlers that lock the row are one action each.  PATCH company, PATCH   *)
(* address, the logo handlers and vendorLifecycle read the row without a   *)
(* lock and later save the entity, all of whose columns that differ from   *)
(* the row's are written, or the whole row when it is gone.                *)
(* createChangeRequest holds the row FOR SHARE from its checks to its      *)
(* commit, which keeps every writer of the row out, but not another one of *)
(* its kind.  The messages and notifications about a change request are    *)
(* rows of its own transaction, keyed by its id, and are left out.         *)
(***************************************************************************)
EXTENDS VendorDocuments, Sequences

CONSTANTS
    Names,         \* values of companyName, the profile field that is modelled
    TakenNames,    \* those that another organisation has
    Writers,       \* requests that save the row without holding a lock
    ChangeIds,     \* change requests
    SuperAdmins,   \* active super administrators of the platform
    Delegated,     \* reviewers are delegates, not super administrators
    MaxDecisions   \* bound of the number of decisions about the vendor

ASSUME VendorsAssumption ==
    /\ TakenNames \subseteq Names /\ None \notin Names
    /\ MaxDecisions \in Nat /\ Delegated \in BOOLEAN

VARIABLES
    org,        \* the row of organizations
    user,       \* the vendor's administrator: none yet, inactive, active or deleted
    writer,     \* the unlocked requests in flight
    change,     \* change[c]: the change requests
    decisions,  \* approval_decisions and vendor_status_history, in order
    mails,      \* outbox messages about submissions and decisions
    lastName,   \* history: the name that was accepted last
    crossed     \* history: two requests changed the row at the same time, or
                \* created a change request at the same time

orgVars == <<org, user, writer, change, decisions, mails, lastName, crossed>>
vars == <<docVars, orgVars>>

Status == {"draft", "submitted", "approved", "rejected", "changes_requested",
           "deactivated"}
OrgRow == [status: Status \cup {"absent"}, companyName: Names \cup {None},
           administrator: BOOLEAN, address: BOOLEAN]
NoOrg == [status |-> "absent", companyName |-> None,
          administrator |-> FALSE, address |-> FALSE]
ChangeRow == [status: {"absent", "checked", "pending", "approved", "rejected"},
              from: Names \cup {None}, to: Names \cup {None}]
NoChange == [status |-> "absent", from |-> None, to |-> None]
NoWriter == [kind |-> "none", row |-> NoOrg]

Created == org.status # "absent"
InFlight == {w \in Writers : writer[w] # NoWriter}

\* The row may be written: no transaction holds it FOR SHARE.
Writable == \A c \in ChangeIds : change[c].status # "checked"

Init ==
    /\ DocInit
    /\ org = NoOrg
    /\ user = "none"
    /\ writer = [w \in Writers |-> NoWriter]
    /\ change = [c \in ChangeIds |-> NoChange]
    /\ decisions = <<>>
    /\ mails = {}
    /\ lastName = None
    /\ crossed = FALSE

\* JwtStrategy.validate: an inactive administrator keeps the session, and with
\* it the onboarding endpoints, unless the organisation is approved.
MayOnboard == user = "active" \/ (user = "inactive" /\ org.status # "approved")

\* register.
Register ==
    /\ user = "none" /\ ~Created
    /\ \A g \in FileRequests : fileReq[g].kind # "inviteVendor"
    /\ user' = "inactive"
    /\ UNCHANGED <<docVars, org, writer, change, decisions, mails, lastName, crossed>>

-----------------------------------------------------------------------------
(* Decisions and the messages about them.                                  *)

\* existsBy, then enqueue: one message for a topic and an event.
Enqueue(queue, topic, event, about) ==
    IF \E m \in queue : m.topic = topic /\ m.event = event THEN queue
    ELSE queue \cup {[topic |-> topic, event |-> event, about |-> about]}

\* Mutant of EventOf: the default eventId, the id of the organisation.
EventOfOrganization(i) == 0

\* The id of the decision: a later decision is another event.
EventOf(i) == i

\* enqueueSubmissionOnce: to the vendor and to every super administrator, once
\* for the organisation, so that a second submission is not announced.
EnqueueSubmissionOnce(queue) ==
    Enqueue(queue, "onboarding-submitted", 0, 0)
    \cup {[topic |-> "platform-onboarding-submitted", event |-> a, about |-> 0] :
             a \in SuperAdmins}

\* enqueueDecisionOutcomeOnce: to the vendor, and, when the reviewer is not a
\* super administrator, to all who are.
EnqueueDecisionOutcomeOnce(queue, outcome, i) ==
    LET vendor == Enqueue(queue, outcome, EventOf(i), i) IN
    IF outcome \notin {"approved", "rejected"} THEN queue
    ELSE IF ~Delegated THEN vendor
    ELSE vendor \cup {[topic |-> "platform-vendor", event |-> <<EventOf(i), a>>,
                       about |-> i] : a \in SuperAdmins}

Decided(by, outcome) == Append(decisions, [by |-> by, outcome |-> outcome])

-----------------------------------------------------------------------------
(* The vendor's onboarding, under a lock of the row.                       *)

\* A handler that locks the row changes it while unlocked requests hold a copy.
Crosses == crossed' = (crossed \/ InFlight # {})

\* complete: the whole profile at once.  Another organisation's name violates
\* the unique constraint.
Complete(n) ==
    /\ MayOnboard /\ Writable
    /\ VerifiedCount > 0
    /\ n \notin TakenNames
    /\ org' = [status |-> "submitted", companyName |-> n,
               administrator |-> TRUE, address |-> TRUE]
    /\ mails' = EnqueueSubmissionOnce(mails)
    /\ lastName' = n
    /\ Crosses
    /\ UNCHANGED <<docVars, user, writer, change, decisions>>

\* PATCH administrator.
Administrator ==
    /\ MayOnboard /\ Created /\ Writable
    /\ org' = [org EXCEPT !.administrator = TRUE, !.status = "draft"]
    /\ Crosses
    /\ UNCHANGED <<docVars, user, writer, change, decisions, mails, lastName>>

\* submit, from any status.
Submit ==
    /\ MayOnboard /\ Created /\ Writable
    /\ org.administrator /\ org.address /\ VerifiedCount > 0
    /\ org' = [org EXCEPT !.status = "submitted"]
    /\ mails' = EnqueueSubmissionOnce(mails)
    /\ Crosses
    /\ UNCHANGED <<docVars, user, writer, change, decisions, lastName>>

-----------------------------------------------------------------------------
(* Requests that save the row without a lock.                              *)

Start(w, kind, row) ==
    /\ writer[w] = NoWriter
    /\ writer' = [writer EXCEPT ![w] =
           [kind |-> kind, row |-> row]]
    /\ UNCHANGED <<docVars, org, user, change, decisions, mails, lastName, crossed>>

\* PATCH company, which creates the row.
Company(w, n) ==
    /\ MayOnboard
    /\ n \notin TakenNames
    /\ Start(w, "company", [org EXCEPT !.companyName = n, !.status = "draft"])

\* PATCH address.
Address(w) ==
    /\ MayOnboard /\ Created
    /\ Start(w, "address", [org EXCEPT !.address = TRUE, !.status = "draft"])

\* setVendorLogo and deleteVendorLogo change a column that is not modelled.
VendorLogo(w) == Created /\ Start(w, "logo", org)

\* vendorLifecycle: deactivate and reactivate, from any status.
VendorLifecycle(w, status) ==
    /\ Created
    /\ status \in {"deactivated", "approved"}
    /\ Start(w, "lifecycle", [org EXCEPT !.status = status])

\* Mutant of Access: the users keep their access.
AccessUnchanged(status) == user

\* users.isActive := (toStatus = 'approved'), for all users of the organisation.
Access(status) ==
    IF user = "deleted" THEN user ELSE IF status = "approved" THEN "active" ELSE "inactive"

\* save, with the rest of the transaction of vendorLifecycle.  A row that has been
\* deleted in the meantime is inserted again, but its users are gone.
Save(w) ==
    LET kind == writer[w].kind
        status == writer[w].row.status
    IN
    /\ kind # "none" /\ Writable
    /\ kind = "lifecycle" => Len(decisions) < MaxDecisions
    /\ org' = writer[w].row
    /\ user' = IF kind = "lifecycle" THEN Access(status) ELSE user
    /\ decisions' = IF kind = "lifecycle" THEN Decided("lifecycle", status) ELSE decisions
    /\ lastName' = IF kind = "company" THEN writer[w].row.companyName ELSE lastName
    /\ crossed' = (crossed \/ InFlight # {w} \/ user = "deleted")
    /\ writer' = [writer EXCEPT ![w] = NoWriter]
    /\ UNCHANGED <<docVars, change, mails>>

\* The request fails or its process stops.
SaveAbort(w) ==
    /\ writer[w] # NoWriter
    /\ writer' = [writer EXCEPT ![w] = NoWriter]
    /\ UNCHANGED <<docVars, org, user, change, decisions, mails, lastName, crossed>>

-----------------------------------------------------------------------------
(* The platform's review.                                                  *)

\* decideOnboarding.  An approval makes all users of the organisation active.
DecideOnboarding(outcome) ==
    /\ org.status = "submitted" /\ Writable
    /\ Len(decisions) < MaxDecisions
    /\ org' = [org EXCEPT !.status = outcome]
    /\ user' = IF outcome = "approved" THEN Access(outcome) ELSE user
    /\ decisions' = Decided("review", outcome)
    /\ mails' = EnqueueDecisionOutcomeOnce(mails, outcome, Len(decisions'))
    /\ Crosses
    /\ UNCHANGED <<docVars, writer, change, lastName>>

\* The queue of the reviewers.
Queue == IF org.status = "submitted" THEN {org} ELSE {}

-----------------------------------------------------------------------------
(* Requests of the vendor to change its name.                              *)

NonePending == \A c \in ChangeIds : change[c].status # "pending"

\* createChangeRequest: the checks, under FOR SHARE ...
CreateChangeRequest(c, n) ==
    /\ user = "active" /\ Created
    /\ change[c] = NoChange
    /\ n # org.companyName
    /\ NonePending
    /\ change' = [change EXCEPT ![c] =
           [status |-> "checked", from |-> org.companyName, to |-> n]]
    /\ crossed' = (crossed \/ ~Writable)
    /\ UNCHANGED <<docVars, org, user, writer, decisions, mails, lastName>>

\* ... and the commit of the row, or a failure.
CommitChangeRequest(c, committed) ==
    /\ change[c].status = "checked"
    /\ change' = [change EXCEPT ![c] =
           IF committed THEN [@ EXCEPT !.status = "pending"] ELSE NoChange]
    /\ UNCHANGED <<docVars, org, user, writer, decisions, mails, lastName, crossed>>

\* Mutant of StillCaptured: the profile may have changed since the request.
CapturedAtAnyTime(c) == TRUE

\* The field still has the value the request was written against.
StillCaptured(c) == org.companyName = change[c].from

\* reviewChangeRequest, under locks of the request and of the organisation.
ReviewChangeRequest(c, outcome) ==
    /\ change[c].status = "pending" /\ Created /\ Writable
    /\ outcome = "approved" => StillCaptured(c) /\ change[c].to \notin TakenNames
    /\ change' = [change EXCEPT ![c].status = outcome]
    /\ IF outcome = "approved"
       THEN /\ org' = [org EXCEPT !.companyName = change[c].to]
            /\ lastName' = change[c].to
            /\ Crosses
       ELSE UNCHANGED <<org, lastName, crossed>>
    /\ UNCHANGED <<docVars, user, writer, decisions, mails>>

-----------------------------------------------------------------------------
(* Vendors that the platform adds and deletes.                             *)

\* inviteVendor: the supplied files, a CAC certificate at least, are uploaded ...
InviteVendor(g, ds, n) ==
    /\ user = "none" /\ ~Created
    /\ ds # {} /\ \A d \in ds : docs[d] = NoDoc /\ ~Busy(d) /\ d \notin torn
    /\ Begin(g, [FileRequest("inviteVendor", ds, NoDoc) EXCEPT !.name = n])
    /\ stored' = stored \cup {<<d, "first">> : d \in ds}
    /\ UNCHANGED <<docs, orgVars>>

\* ... then the organisation, its administrator and the documents are inserted,
\* or the uploaded files are removed because the transaction failed.
InviteCommit(g) ==
    /\ fileReq[g].kind = "inviteVendor"
    /\ IF user = "none" /\ ~Created /\ fileReq[g].name \notin TakenNames
       THEN /\ org' = [status |-> "submitted", companyName |-> fileReq[g].name,
                       administrator |-> TRUE, address |-> TRUE]
            /\ user' = "inactive"
            /\ docs' = [d \in Docs |-> IF d \in fileReq[g].docs
                        THEN [status |-> "verified", key |-> "first"] ELSE docs[d]]
            /\ lastName' = fileReq[g].name
            /\ UNCHANGED stored
       ELSE /\ stored' = stored \ {<<d, "first">> : d \in fileReq[g].docs}
            /\ UNCHANGED <<org, user, docs, lastName>>
    /\ End(g)
    /\ UNCHANGED <<torn, writer, change, decisions, mails, crossed>>

\* deleteVendor: the name is compared and every file removed ...
DeleteVendorFiles(g, n) ==
    /\ Created /\ n = org.companyName
    /\ Begin(g, [FileRequest("deleteVendor", {d \in Docs : Exists(d)}, NoDoc)
                     EXCEPT !.name = n])
    /\ stored' = stored \ {ObjectOf(d) : d \in {e \in Docs : Exists(e)}}
    /\ UNCHANGED <<docs, orgVars>>

\* ... then the row is locked, the name compared again, and all rows deleted.
\* (Messages to the platform's administrators stay, but name nothing that is left.)
DeleteVendor(g) ==
    /\ fileReq[g].kind = "deleteVendor"
    /\ Writable
    /\ IF org.companyName = fileReq[g].name
       THEN /\ org' = NoOrg
            /\ user' = "deleted"
            /\ docs' = [d \in Docs |-> NoDoc]
            /\ change' = [c \in ChangeIds |-> NoChange]
            /\ decisions' = <<>>
            /\ mails' = {}
            /\ lastName' = None
            /\ crossed' = (crossed \/ InFlight # {})
            /\ torn' = torn \cup {d \in Docs : \E h \in FileRequests \ {g} :
                                      d \in fileReq[h].docs}
       ELSE /\ torn' = torn \cup fileReq[g].docs
            /\ UNCHANGED <<org, user, docs, change, decisions, mails, lastName, crossed>>
    /\ End(g)
    /\ UNCHANGED <<stored, writer>>

-----------------------------------------------------------------------------
\* Every handler that has only the vendor's files to change.
Files ==
    /\ \/ \E d \in Docs :
             \/ MayOnboard /\ (AddDocument(d) \/ Upload(d))
             \/ CreateVendorDocument(d, Created)
             \/ \E g \in FileRequests :
                   \/ MayOnboard /\ (CompleteDocument(g, d) \/ DeleteObject(g, d))
                   \/ MayOnboard /\ \E renamed \in BOOLEAN : UpdateDocument(g, d, renamed)
                   \/ CompleteVendorDocument(g, d, Created)
                   \/ DeleteVendorDocument(g, d, Created)
       \/ \E g \in FileRequests : SaveDocument(g) \/ DeleteRow(g) \/ EndEarly(g)
    /\ UNCHANGED orgVars

Next ==
    \/ Register \/ Administrator \/ Submit \/ Files
    \/ \E n \in Names : Complete(n)
    \/ \E w \in Writers :
          \/ \E n \in Names : Company(w, n)
          \/ \E status \in {"deactivated", "approved"} : VendorLifecycle(w, status)
          \/ Address(w) \/ VendorLogo(w)
          \/ Save(w) \/ SaveAbort(w)
    \/ \E outcome \in {"approved", "rejected", "changes_requested"} :
          DecideOnboarding(outcome)
    \/ \E c \in ChangeIds :
          \/ \E n \in Names : CreateChangeRequest(c, n)
          \/ \E committed \in BOOLEAN : CommitChangeRequest(c, committed)
          \/ \E outcome \in {"approved", "rejected"} : ReviewChangeRequest(c, outcome)
    \/ \E g \in FileRequests :
          \/ \E ds \in SUBSET Docs, n \in Names : InviteVendor(g, ds, n)
          \/ \E n \in Names : DeleteVendorFiles(g, n)
          \/ InviteCommit(g) \/ DeleteVendor(g)

Spec == Init /\ [][Next]_vars

-----------------------------------------------------------------------------
\* Rows, requests and histories are well formed.
TypeOK ==
    /\ DocTypeOK
    /\ org \in OrgRow
    /\ user \in {"none", "inactive", "active", "deleted"}
    /\ change \in [ChangeIds -> ChangeRow]
    /\ \A w \in Writers :
          /\ writer[w].kind \in {"none", "company", "address", "logo", "lifecycle"}
          /\ writer[w].row \in OrgRow
    /\ Len(decisions) <= MaxDecisions
    /\ lastName \in Names \cup {None}
    /\ crossed \in BOOLEAN

\* The last of the decisions that give or take access gave it.
LetIn ==
    \E i \in DOMAIN decisions :
       /\ decisions[i].outcome = "approved"
       /\ \A j \in DOMAIN decisions : decisions[j].outcome = "deactivated" => j < i

\* The last decision of all is an approval.
LastApproved == decisions # <<>> /\ decisions[Len(decisions)].outcome = "approved"

\* The platform alone lets a vendor in.  Its users are active only if the last
\* decision about access was an approval, however requests overlap.  And an
\* approved organisation is one whose last decision of all was an approval and
\* whose users are active: no edit, submission, rejection or request in between
\* makes an approved vendor, or one that is approved and locked out.  Requests
\* that overlap can do that.
AccessFollowsDecisions ==
    /\ user = "active" => LetIn
    /\ org.status = "approved" /\ ~crossed => LastApproved /\ user = "active"

\* No edit is undone: the name is the one that was accepted last, and approving
\* a request replaces the very name the vendor saw when it wrote the request.
NoEditIsUndone ==
    [][~crossed' =>
         /\ org'.status # "absent" => org'.companyName = lastName'
         /\ \A c \in ChangeIds :
               change[c].status = "pending" /\ change'[c].status = "approved"
               => lastName = change[c].from]_vars

\* Every review that approves or rejects is told to the vendor, the second one
\* of a kind as well as the first, and a submission to every super administrator.
EveryReviewIsMailed ==
    /\ \A i \in DOMAIN decisions :
          decisions[i].by = "review" /\ decisions[i].outcome # "changes_requested"
          => \E m \in mails : m.topic = decisions[i].outcome /\ m.about = i
    /\ Queue # {} /\ ~crossed /\ user = "active" => \A a \in SuperAdmins :
          \E m \in mails : m.topic = "platform-onboarding-submitted" /\ m.event = a
=============================================================================
