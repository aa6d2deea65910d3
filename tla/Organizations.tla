--------------------------- MODULE Organizations ---------------------------
(***************************************************************************)
(* One organization, its memberships and its invites (apps/organizations). *)
(* The role a permission class reads and the membership the view's tenant  *)
(* getter reads are two queries; so are the checks of an invite and its    *)
(* use.  A user stands for an e-mail address, which accounts do not share. *)
(* An invite, or a membership, is named after the request that made it.    *)
(***************************************************************************)
EXTENDS RequestSteps, FiniteSets

CONSTANTS
    Request,
    User,
    Invitable,      \* roles an invite can carry (serializers.INVITABLE_ROLES)
    Nobody,         \* no user
    Earlier         \* what is from before the requests

Origin == Request \cup {Earlier}

\* ROLE_RANK, in steps of one.
Rank == [none |-> 0, viewer |-> 1, developer |-> 2, admin |-> 3, owner |-> 4]
Role == DOMAIN Rank

\* The endpoints, as the statements each executes.
InviteMember == <<"permit", "load", "is_member", "void", "issue">>
PendingInvites == <<"permit", "load", "list">>
RemoveMember == <<"permit", "load", "find", "delete", "audit">>
AcceptInvite == <<"claim", "is_member", "join", "use">>

OrgPlan == [invite |-> InviteMember, pending |-> PendingInvites,
            remove |-> RemoveMember, accept |-> AcceptInvite]

Managing == {"invite", "pending", "remove"}

ASSUME OrganizationsAssumption ==
    /\ Invitable \subseteq Role \ {"none", "owner"}
    /\ Nobody \notin User /\ Earlier \notin Request
    /\ IsFiniteSet(Request) /\ IsFiniteSet(User)

VARIABLES
    members,   \* [User -> Membership row]
    invites,   \* [Origin -> Invite row]
    audit      \* requests with an AuditLog row

orgVars == <<members, invites, audit>>

NoMember == [role |-> "none", origin |-> Earlier]
NoInvite == [email |-> Nobody, role |-> "none", used |-> FALSE]

OrganizationsTypeOK ==
    /\ members \in [User -> [role : Role, origin : Origin]]
    /\ invites \in [Origin -> [email : User \cup {Nobody}, role : Role, used : BOOLEAN]]
    /\ audit \subseteq Request

\* Locals of a request: by, its user; user, whom it is about; given, the role
\* invited with; invite, the claimed one; role, what the permission class saw;
\* origin, the row found; shown, the invites listed.  before is history: the
\* requests of this part of the system that had ended when this one came.
Arrives(r, kind, plans, l) ==
    /\ req[r].state = "idle"
    /\ req' = [req EXCEPT ![r] =
          [l EXCEPT !.kind = kind, !.state = "running", !.todo = plans[kind],
                    !.before = {q \in Request : req[q].state \in Ended /\ req[q].kind \in DOMAIN plans}]]

Member(u) == members[u].role # "none"
Issued(i) == invites[i].email # Nobody

Usable(i) == Issued(i) /\ ~ invites[i].used

ArriveAtOrganization(r) ==
    \E kind \in DOMAIN OrgPlan, by \in User :
        /\ \/ kind = "pending" /\ Arrives(r, kind, OrgPlan, [req[r] EXCEPT !.by = by])
           \/ /\ kind = "remove"
              /\ \E u \in User : Arrives(r, kind, OrgPlan,
                     [req[r] EXCEPT !.by = by, !.user = u])
           \/ /\ kind = "invite"
              /\ \E u \in User, role \in Invitable : Arrives(r, kind, OrgPlan,
                     [req[r] EXCEPT !.by = by, !.user = u, !.given = role])
           \/ /\ kind = "accept"
              /\ \E i \in Origin : Issued(i) /\ Arrives(r, kind, OrgPlan,
                     [req[r] EXCEPT !.by = by, !.user = by, !.invite = i])
        /\ UNCHANGED orgVars

-----------------------------------------------------------------------------
(* Statements of the managing requests *)

\* Mutant of Permitted: every member may manage.
Permitted_Members(u) == TRUE

\* OrgRolePermission.has_permission: users who are no members are left to the
\* view's tenant getter.
Permitted(u) == ~ Member(u) \/ Rank[members[u].role] >= Rank["admin"]

Permit(r) ==
    /\ At(r, "permit")
    /\ IF Permitted(req[r].by)
       THEN Continue(r, [req[r] EXCEPT !.role = members[req[r].by].role])
       ELSE End(r, "refused")
    /\ UNCHANGED orgVars

\* get_organization_for_user, or 404
LoadOrganization(r) ==
    /\ At(r, "load")
    /\ IF Member(req[r].by) THEN Continue(r, req[r]) ELSE End(r, "refused")
    /\ UNCHANGED orgVars

\* The user invited, or accepting, is a member already: 409.
IsMember(r) ==
    /\ At(r, "is_member")
    /\ IF Member(req[r].user) THEN End(r, "refused") ELSE Continue(r, req[r])
    /\ UNCHANGED orgVars

\* Mutant of VoidPending: the sender's address is looked up.
VoidPending_Sender(r) ==
    /\ At(r, "void")
    /\ invites' = [i \in Origin |->
          [invites[i] EXCEPT !.used = @ \/ invites[i].email = req[r].by]]
    /\ Continue(r, req[r])
    /\ UNCHANGED <<members, audit>>

\* Re-inviting marks every unused invite of the address used.
VoidPending(r) ==
    /\ At(r, "void")
    /\ invites' = [i \in Origin |->
          [invites[i] EXCEPT !.used = @ \/ invites[i].email = req[r].user]]
    /\ Continue(r, req[r])
    /\ UNCHANGED <<members, audit>>

IssueInvite(r) ==
    /\ At(r, "issue")
    /\ invites' = [invites EXCEPT ![r] =
          [email |-> req[r].user, role |-> req[r].given, used |-> FALSE]]
    /\ Continue(r, req[r])
    /\ UNCHANGED <<members, audit>>

\* list_pending_invites: those that have not expired.
ListPending(r) ==
    /\ At(r, "list")
    /\ \E shown \in SUBSET {i \in Origin : Usable(i)} :
          Continue(r, [req[r] EXCEPT !.shown = shown])
    /\ UNCHANGED orgVars

FindMember(r) ==
    /\ At(r, "find")
    /\ IF Member(req[r].user)
       THEN Continue(r, [req[r] EXCEPT !.origin = members[req[r].user].origin])
       ELSE End(r, "refused")
    /\ UNCHANGED orgVars

\* The row found: nothing when it is gone, whoever joined since.
Found(r, u) == Member(u) /\ members[u].origin = req[r].origin

DeleteMember(r) ==
    /\ At(r, "delete")
    /\ members' = IF Found(r, req[r].user)
                  THEN [members EXCEPT ![req[r].user] = NoMember] ELSE members
    /\ Continue(r, req[r])
    /\ UNCHANGED <<invites, audit>>

RecordRemoval(r) ==
    /\ At(r, "audit")
    /\ audit' = audit \cup {r}
    /\ Continue(r, req[r])
    /\ UNCHANGED <<members, invites>>

-----------------------------------------------------------------------------
(* Statements of accept_invite *)

\* Mutant of Claimable: the link may have been forwarded.
Claimable_ByAnyone(r, i) == Usable(i)

Claimable(r, i) == Usable(i) /\ invites[i].email = req[r].by

\* An invite may have expired whenever it is looked at.
ClaimInvite(r) ==
    /\ At(r, "claim")
    /\ \/ /\ Claimable(r, req[r].invite)
          /\ Continue(r, [req[r] EXCEPT !.given = invites[req[r].invite].role])
       \/ End(r, "refused")
    /\ UNCHANGED orgVars

\* Mutant of Join: the membership is updated or created.
Join_OrUpdate(r) ==
    /\ At(r, "join")
    /\ members' = [members EXCEPT ![req[r].user] = [role |-> req[r].given, origin |-> r]]
    /\ Continue(r, req[r])
    /\ UNCHANGED <<invites, audit>>

\* Membership.objects.create: a second row of the user is an IntegrityError.
Join(r) ==
    /\ At(r, "join")
    /\ IF Member(req[r].user)
       THEN End(r, "error") /\ UNCHANGED members
       ELSE /\ members' = [members EXCEPT ![req[r].user] = [role |-> req[r].given, origin |-> r]]
            /\ Continue(r, req[r])
    /\ UNCHANGED <<invites, audit>>

UseInvite(r) ==
    /\ At(r, "use")
    /\ invites' = [invites EXCEPT ![req[r].invite].used = TRUE]
    /\ Continue(r, req[r])
    /\ UNCHANGED <<members, audit>>

OrgStatement(r) ==
    \/ Permit(r) \/ LoadOrganization(r) \/ IsMember(r) \/ VoidPending(r) \/ IssueInvite(r)
    \/ ListPending(r) \/ FindMember(r) \/ DeleteMember(r) \/ RecordRemoval(r)
    \/ ClaimInvite(r) \/ Join(r) \/ UseInvite(r)

-----------------------------------------------------------------------------

\* create_organization, in one transaction.
Founded(u) == [members EXCEPT ![u] = [role |-> "owner", origin |-> Earlier]]

NothingYet == members = [u \in User |-> NoMember] /\ \A r \in Request : req[r].state = "idle"

CreateOrganization(u) ==
    /\ NothingYet
    /\ members' = Founded(u)
    /\ UNCHANGED <<invites, audit, req>>

\* No organization yet, or one whose owner has invited u.
OrganizationsInit ==
    /\ audit = {}
    /\ \/ /\ members = [u \in User |-> NoMember]
          /\ invites = [i \in Origin |-> NoInvite]
       \/ \E owner, u \in User, role \in Invitable :
             /\ owner # u
             /\ members = [v \in User |-> IF v = owner
                              THEN [role |-> "owner", origin |-> Earlier] ELSE NoMember]
             /\ invites = [i \in Origin |-> IF i # Earlier THEN NoInvite
                              ELSE [NoInvite EXCEPT !.email = u, !.role = role]]

-----------------------------------------------------------------------------
(* Properties *)

Carried(r, s) == Behind(r, OrgPlan[req[r].kind], s)
Of(kind) == {r \in Request : req[r].kind = kind}

\* Nobody joins but with an invite to their own address, and with the role it
\* carries: through every interleaving of invites, forwarded links and
\* removals there is no other way in, and no way to become owner
\* (organizations/services.py:66-68).
InvitedAsAddressed ==
    \A u \in User : members[u].origin \in Request =>
        LET i == req[members[u].origin].invite
        IN  invites[i].email = u /\ invites[i].role = members[u].role

\* An invite admits once: when two acceptances of it succeed, the member the
\* first one made was removed before the second one joined ("the token is
\* single-use", organizations/models.py:74).
AdmitsOnce ==
    \A a, b \in Of("accept") :
        a # b /\ req[a].invite = req[b].invite /\ Carried(a, "join") /\ Carried(b, "join")
        => \E r \in Of("remove") : req[r].user = req[a].user /\ Carried(r, "delete")

\* Re-inviting an address voids the invite it had: of two invites to one
\* address, only those issued concurrently are both usable
\* (organizations/services.py:31-32).
ReinviteVoids ==
    \A i, j \in Of("invite") :
        i \in req[j].before /\ Issued(i) /\ Issued(j) /\ invites[i].email = invites[j].email
        => invites[i].used

\* Only a manager invites, removes or sees pending invites ("Owner/admin
\* only", organizations/views.py:183, 229, 435), unless the user became a
\* member between the permission class and the tenant getter.
ManagersManage ==
    \A r \in Request : req[r].kind \in Managing /\ req[r].state = "ok" =>
        \/ req[r].role \in {"admin", "owner"}
        \/ \E a \in Of("accept") : /\ req[a].by = req[r].by /\ Carried(a, "join")
                                   /\ a \notin req[r].before
=============================================================================
