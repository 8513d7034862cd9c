---------------------------- MODULE Workspaces ----------------------------
(*****************************************************************************)
(* Members and invitations of one workspace: workspace_management.py and the *)
(* handlers of routers/workspaces.py.  A request reads its own membership,   *)
(* then the rows it decides on, then commits; no row is locked in between.   *)
(*****************************************************************************)
EXTENDS Naturals, FiniteSets

CONSTANTS
    Users,           \* people; each has one e-mail address and an account
    Requests,        \* requests that run at the same time
    Nobody,          \* NULL
    TeamLimit,       \* the quota "team_members": collaborators beside the owner
    MaxInvitations,  \* bound: invitations ever sent
    MaxCrossings     \* bound: requests that read before another one commits

ASSUME WorkspaceConstants ==
    /\ Nobody \notin Users
    /\ IsFiniteSet(Users)
    /\ {TeamLimit, MaxInvitations, MaxCrossings} \subseteq Nat

VARIABLES
    member,      \* memberships: at most one row per user
    invitation,  \* workspace_invitations
    request,     \* requests in progress
    crossed      \* how often a request read while another was about to commit

workspaceVars == <<member, invitation, request, crossed>>
-----------------------------------------------------------------------------
Roles == {"owner", "admin", "member"}
Membership == [role : Roles, status : {"active", "removed"}]
WorkspaceInvitation ==
    [email : Users, role : {"admin", "member"},
     status : {"pending", "accepted", "revoked", "expired"}, late : BOOLEAN]
InvitationIds == 1..MaxInvitations

\* NULL is no row.
ASSUME NobodyIsNoRow == Nobody \notin Membership /\ Nobody \notin WorkspaceInvitation

Idle == [pc |-> "idle", role |-> "member", target |-> Nobody,
         id |-> 0, as |-> "member", read |-> Nobody, pending |-> {}]

Active(u) == member[u] # Nobody /\ member[u].status = "active"
Owners == {u \in Users : Active(u) /\ member[u].role = "owner"}
PendingIds == {i \in InvitationIds : invitation[i] # Nobody /\ invitation[i].status = "pending"}

\* create_workspace_for_user made the first owner.
WorkspaceInit ==
    /\ \E u \in Users : member = [v \in Users |-> IF v = u THEN [role |-> "owner", status |-> "active"]
                                                           ELSE Nobody]
    /\ invitation = [i \in InvitationIds |-> Nobody]
    /\ request = [q \in Requests |-> Idle]
    /\ crossed = 0

\* What an UPDATE leaves of a membership: it names the columns that changed.
Updated(now, read, new) ==
    [role |-> IF new.role # read.role THEN new.role ELSE now.role,
     status |-> IF new.status # read.status THEN new.status ELSE now.status]
-----------------------------------------------------------------------------
\* Every handler: get_current_workspace, then the reads, then the commit.

\* get_current_workspace: an active member, with the role it has now.
get_current_workspace(q, u) ==
    /\ request[q].pc = "idle"
    /\ Active(u)
    /\ request' = [request EXCEPT ![q] = [Idle EXCEPT !.pc = "authorised", !.as = member[u].role]]
    /\ UNCHANGED <<member, invitation, crossed>>

\* require_workspace_role
require_workspace_role(q, roles) == request[q].pc = "authorised" /\ request[q].as \in roles

\* The rows are read; what was read is kept in r.
Reads(q, r) ==
    LET crossing == \E p \in Requests : request[p].pc \notin {"idle", "authorised"} IN
    /\ crossing => crossed < MaxCrossings
    /\ crossed' = IF crossing THEN crossed + 1 ELSE crossed
    /\ request' = [request EXCEPT ![q] = r]
    /\ UNCHANGED <<member, invitation>>

Commits(q) == request' = [request EXCEPT ![q] = Idle] /\ UNCHANGED crossed

\* The request is refused, or its process dies: nothing is committed.
RequestEnds(q) ==
    /\ request[q].pc # "idle"
    /\ request' = [request EXCEPT ![q] = Idle]
    /\ UNCHANGED <<member, invitation, crossed>>
-----------------------------------------------------------------------------
\* Invitations.

\* What the quota is compared with when u is to be invited.
Seats(u) ==
    LET members == Cardinality({v \in Users : Active(v)}) IN
    (IF members = 0 THEN 0 ELSE members - 1) + Cardinality({i \in PendingIds : invitation[i].email # u})

\* An active member is not invited again.
Invitable(u) == ~Active(u)

\* invite_member: authority, quota, and the invitations that the new one replaces.
invite_member(q, u, role) ==
    /\ require_workspace_role(q, {"owner", "admin"})
    /\ request[q].as = "admin" => role = "member"
    /\ Seats(u) + 1 <= TeamLimit
    /\ Invitable(u)
    /\ Reads(q, [Idle EXCEPT !.pc = "invite", !.target = u, !.role = role,
                             !.pending = {i \in PendingIds : invitation[i].email = u}])

create_workspace_invitation(q) ==
    LET r == request[q] IN
    /\ r.pc = "invite"
    /\ \E i \in InvitationIds :
          /\ invitation[i] = Nobody
          /\ \A j \in 1..(i - 1) : invitation[j] # Nobody
          /\ invitation' = [j \in InvitationIds |->
                CASE j = i -> [email |-> r.target, role |-> r.role, status |-> "pending", late |-> FALSE]
                  [] j \in r.pending -> [invitation[j] EXCEPT !.status = "revoked"]
                  [] OTHER -> invitation[j]]
    /\ Commits(q)
    /\ UNCHANGED member

\* Seven days pass.
InvitationLapses(i) ==
    /\ i \in PendingIds /\ ~invitation[i].late
    /\ invitation' = [invitation EXCEPT ![i].late = TRUE]
    /\ UNCHANGED <<member, request, crossed>>

revoke_workspace_invitation(q, i) ==
    /\ require_workspace_role(q, {"owner", "admin"})
    /\ i \in PendingIds
    /\ Reads(q, [Idle EXCEPT !.pc = "revoke", !.id = i])

CommitRevocation(q) ==
    /\ request[q].pc = "revoke"
    /\ invitation' = [invitation EXCEPT ![request[q].id].status = "revoked"]
    /\ Commits(q)
    /\ UNCHANGED member

\* accept_workspace_invitation: whoever holds the token, with the address it
\* was sent to; no membership is required.
accept_workspace_invitation(q, i) ==
    /\ request[q].pc = "idle"
    /\ i \in PendingIds
    /\ LET u == invitation[i].email IN
       Reads(q, [Idle EXCEPT !.pc = IF invitation[i].late THEN "lapse" ELSE "accept",
                             !.target = u, !.id = i, !.role = invitation[i].role, !.read = member[u]])

Joined(r) == [role |-> r.role, status |-> "active"]

\* A row is updated if there was one, and inserted otherwise; the INSERT fails
\* if there is a row by now.
CommitAcceptance(q) ==
    LET r == request[q] IN
    /\ r.pc = "accept"
    /\ r.read = Nobody => member[r.target] = Nobody
    /\ member' = [member EXCEPT ![r.target] =
                     IF r.read = Nobody THEN Joined(r) ELSE Updated(@, r.read, Joined(r))]
    /\ invitation' = [invitation EXCEPT ![r.id].status = "accepted"]
    /\ Commits(q)

\* The invitation was found to be late.
CommitLapse(q) ==
    /\ request[q].pc = "lapse"
    /\ invitation' = [invitation EXCEPT ![request[q].id].status = "expired"]
    /\ Commits(q)
    /\ UNCHANGED member
-----------------------------------------------------------------------------
\* Members.

\* Mutant of _active_owner_count: removed owners count.
OwnersOfAllTime == Cardinality({u \in Users : member[u] # Nobody /\ member[u].role = "owner"})

_active_owner_count == Cardinality(Owners)

change_member_role(q, u, role) ==
    /\ require_workspace_role(q, {"owner"})
    /\ Active(u)
    /\ member[u].role = "owner" /\ role # "owner" => _active_owner_count > 1
    /\ Reads(q, [request[q] EXCEPT !.pc = "change", !.target = u, !.role = role, !.read = member[u]])

change_workspace_member_role(q) ==
    LET r == request[q] IN
    /\ r.pc = "change"
    /\ member' = [member EXCEPT ![r.target] = Updated(@, r.read, [r.read EXCEPT !.role = r.role])]
    /\ Commits(q)
    /\ UNCHANGED invitation

\* Mutant of MayRemove: admins remove whom they like.
MayRemoveAnyone(q, u) == TRUE

\* "Admins can remove members only"
MayRemove(q, u) == request[q].as = "admin" => member[u].role = "member"

remove_member(q, u) ==
    /\ require_workspace_role(q, {"owner", "admin"})
    /\ Active(u)
    /\ MayRemove(q, u)
    /\ member[u].role = "owner" => _active_owner_count > 1
    /\ Reads(q, [request[q] EXCEPT !.pc = "remove", !.target = u, !.read = member[u]])

remove_workspace_member(q) ==
    /\ request[q].pc = "remove"
    /\ member' = [member EXCEPT ![request[q].target].status = "removed"]
    /\ Commits(q)
    /\ UNCHANGED invitation
-----------------------------------------------------------------------------
WorkspaceNext ==
    \/ \E q \in Requests :
          \/ \E u \in Users :
                \/ get_current_workspace(q, u)
                \/ \E role \in {"admin", "member"} : invite_member(q, u, role)
                \/ \E role \in Roles : change_member_role(q, u, role)
                \/ remove_member(q, u)
          \/ \E i \in InvitationIds : revoke_workspace_invitation(q, i) \/ accept_workspace_invitation(q, i)
          \/ create_workspace_invitation(q) \/ CommitRevocation(q) \/ CommitAcceptance(q) \/ CommitLapse(q)
          \/ change_workspace_member_role(q) \/ remove_workspace_member(q) \/ RequestEnds(q)
    \/ \E i \in InvitationIds : InvitationLapses(i)
-----------------------------------------------------------------------------
\* Properties.

WorkspaceTypeOK ==
    /\ member \in [Users -> Membership \cup {Nobody}]
    /\ invitation \in [InvitationIds -> WorkspaceInvitation \cup {Nobody}]
    /\ \A q \in Requests :
          /\ request[q].pc \in {"idle", "authorised", "invite", "revoke", "accept", "lapse", "change", "remove"}
          /\ request[q].read \in Membership \cup {Nobody}
          /\ request[q].pending \subseteq InvitationIds
    /\ crossed \in 0..MaxCrossings

\* "The final workspace owner cannot be demoted" nor removed, nor can accepting
\* an invitation lose it, whatever authority the requests under way still hold,
\* unless two requests read before either commits.
AnOwnerRemains == crossed = 0 => Owners # {}

\* Members beside the first, and the pending invitations, which become members
\* without another check, stay within the quota; every crossing may add one.
SeatsWithinQuota ==
    LET members == Cardinality({u \in Users : Active(u)}) IN
    (IF members = 0 THEN 0 ELSE members - 1) + Cardinality(PendingIds) <= TeamLimit + crossed

\* An active member has no invitation to accept: accepting one would set the
\* member's role to the invitation's, without a look at the remaining owners.
NoInvitationForMembers == crossed = 0 => \A i \in PendingIds : ~Active(invitation[i].email)

\* An address has one invitation to accept, and one more per crossing.
OneInvitationPerAddress ==
    \A u \in Users : Cardinality({i \in PendingIds : invitation[i].email = u}) <= 1 + crossed

\* An owner stops being one only by a request that came in with an owner's role.
OwnersYieldToOwners ==
    [][\A u \in Owners \ Owners' :
          \/ crossed > 0
          \/ \E q \in Requests : request[q].pc \in {"change", "remove"} /\ request[q].as = "owner"
                                 /\ request'[q].pc = "idle"]_workspaceVars

\* An invitation that was revoked, accepted or found late stays that way.
SettledInvitationsStay ==
    [][crossed = 0 => \A i \in InvitationIds :
          invitation[i] # Nobody /\ i \notin PendingIds => invitation'[i] = invitation[i]]_workspaceVars

\* Seats, invitations and roles keep to the rules that each request has checked
\* by itself, whatever commits between its reads and its writes.
MembershipSafety ==
    [](WorkspaceTypeOK /\ SeatsWithinQuota /\ NoInvitationForMembers /\ OneInvitationPerAddress)
    /\ OwnersYieldToOwners /\ SettledInvitationsStay
=============================================================================
