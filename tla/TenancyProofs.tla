---------------------------- MODULE TenancyProofs ----------------------------
(*****************************************************************************)
(* Proofs about Workspaces: that a workspace keeps an owner (AnOwnerRemains) *)
(* and that seats, invitations and roles keep to the rules                   *)
(* (MembershipSafety), for any number of people, requests and invitations;   *)
(* about Accounts: that accounts, identities and intents agree (AccountInv), *)
(* for any number of addresses, providers, browsers, intents and races; and  *)
(* about Installations: that a workspace has what it installed, once, and    *)
(* until it is removed (InstallationInv), for any number of workspaces,      *)
(* installations, repositories, sites and requests; and about Sites and      *)
(* Onboarding: that sites stay with their owners, within the quota, and that *)
(* a completed wizard is ready (SiteSafety, WizardInv), for any number of    *)
(* workspaces, domains, sites, tabs and tokens.                              *)
(*****************************************************************************)
EXTENDS Workspaces, Accounts, Installations, Onboarding, FiniteSetTheorems, TLAPS
-----------------------------------------------------------------------------
\* Members.

WorkspaceSpec == WorkspaceInit /\ [][WorkspaceNext]_workspaceVars

RequestPCs == {"idle", "authorised", "invite", "revoke", "accept", "lapse", "change", "remove"}
WorkspaceRequest ==
    [pc : RequestPCs, role : Roles, target : Users \cup {Nobody}, id : 0..MaxInvitations,
     as : Roles, read : Membership \cup {Nobody}, pending : SUBSET InvitationIds]

\* A request between its reads and its commit.
Busy(r) == r.pc \notin {"idle", "authorised"}

InvitationsTo(u, sent) == {i \in InvitationIds : sent[i] # Nobody /\ sent[i].status = "pending" /\ sent[i].email = u}

\* What a request has read of rows that are never deleted, whatever was
\* committed since: memberships are members, invitations are sent.
Known(r, members, sent) ==
    /\ r.pc = "invite" =>
          /\ r.target \in Users /\ r.role \in {"admin", "member"}
          /\ \A i \in r.pending : sent[i] # Nobody /\ sent[i].email = r.target
    /\ r.pc \in {"revoke", "accept", "lapse"} => r.id \in InvitationIds /\ sent[r.id] # Nobody
    /\ r.pc = "accept" =>
          /\ r.target \in Users /\ r.role \in {"admin", "member"}
          /\ sent[r.id].email = r.target
          /\ r.read # Nobody => members[r.target] # Nobody
    /\ r.pc \in {"change", "remove"} =>
          /\ r.target \in Users /\ members[r.target] # Nobody
          /\ r.read \in Membership /\ r.read.status = "active"
    /\ r.pc = "change" => r.as = "owner"
    /\ r.pc = "remove" => r.as \in {"owner", "admin"} /\ (r.as = "admin" => r.read.role = "member")

\* What it decided on, and what still holds if nothing was committed since.
Fresh(r) ==
    /\ r.pc = "invite" => ~Active(r.target) /\ r.pending = InvitationsTo(r.target, invitation)
    /\ r.pc \in {"revoke", "accept", "lapse"} => r.id \in PendingIds
    /\ r.pc \in {"accept", "change", "remove"} => r.read = member[r.target]
    /\ /\ r.pc = "remove" \/ (r.pc = "change" /\ r.role # "owner")
       /\ r.read.role = "owner"
       => \E v \in Owners : v # r.target

RequestsInv ==
    /\ request \in [Requests -> WorkspaceRequest]
    /\ \A q \in Requests : Known(request[q], member, invitation)

\* Requests that did not cross find what they have read.
UncrossedInv ==
    crossed = 0 =>
        /\ \A p, q \in Requests : Busy(request[p]) /\ Busy(request[q]) => p = q
        /\ \A q \in Requests : Fresh(request[q])
        /\ \A i, j \in PendingIds : invitation[i].email = invitation[j].email => i = j
        /\ \A i \in PendingIds : ~Active(invitation[i].email)
        /\ Owners # {}

\* The seats that the quota counts.
Beside(members) == IF members = 0 THEN 0 ELSE members - 1
ActiveUsers == {u \in Users : Active(u)}
SeatsTaken == Beside(Cardinality(ActiveUsers)) + Cardinality(PendingIds)

\* The requests that may take one seat more, and the seats they give up for it:
\* an acceptance its own invitation, an invitation those it replaces.
Growing(q) == request[q].pc \in {"invite", "accept"}
GivenUp(r) ==
    CASE r.pc = "invite" -> r.pending
      [] r.pc = "accept" -> {r.id}
      [] OTHER -> {}
Credit(G) == {i \in PendingIds : \E q \in G : i \in GivenUp(request[q])}

\* Whichever of the growing requests commit, the seats keep to the quota, with
\* one more for each crossing.
SeatsPaid ==
    \A G \in SUBSET Requests :
        IsFiniteSet(G) /\ (\A q \in G : Growing(q))
            => SeatsTaken + Cardinality(G) <= TeamLimit + crossed + Cardinality(Credit(G))

\* The same of the invitations to one address.
Inviting(q, u) == request[q].pc = "invite" /\ request[q].target = u
InvitationsPaid ==
    \A u \in Users : \A G \in SUBSET Requests :
        IsFiniteSet(G) /\ (\A q \in G : Inviting(q, u))
            => Cardinality(InvitationsTo(u, invitation)) + Cardinality(G) <= 1 + crossed + Cardinality(Credit(G))

RowsInv ==
    /\ member \in [Users -> Membership \cup {Nobody}]
    /\ invitation \in [InvitationIds -> WorkspaceInvitation \cup {Nobody}]
    /\ crossed \in 0..MaxCrossings

MemberInv == RowsInv /\ RequestsInv /\ UncrossedInv /\ SeatsPaid /\ InvitationsPaid
-----------------------------------------------------------------------------
(* Sets and their sizes.                                                     *)

LEMMA CardinalityOfRest ==
    ASSUME NEW S, IsFiniteSet(S), NEW K \in SUBSET S
    PROVE  /\ IsFiniteSet(S \ K) /\ IsFiniteSet(K)
           /\ Cardinality(S) \in Nat /\ Cardinality(K) \in Nat /\ Cardinality(S \ K) \in Nat
           /\ Cardinality(S) = Cardinality(S \ K) + Cardinality(K)
  <1>1. IsFiniteSet(S \ K) /\ IsFiniteSet(K)
    <2>1. S \ K \in SUBSET S
      OBVIOUS
    <2> QED BY <2>1, FS_Subset
  <1>2. /\ Cardinality(S) \in Nat /\ Cardinality(K) \in Nat /\ Cardinality(S \ K) \in Nat
        /\ Cardinality({}) = 0
    BY <1>1, FS_CardinalityType, FS_EmptySet
  <1>3. (S \ K) \cup K = S /\ (S \ K) \cap K = {}
    OBVIOUS
  <1>4. Cardinality(S) = Cardinality(S \ K) + Cardinality(K) - Cardinality({})
    BY <1>1, <1>3, FS_Union
  <1> QED BY <1>1, <1>2, <1>4

\* Of a finite set and what it gives up: an element less, and what is left.
LEMMA CardinalityOfSubset ==
    ASSUME NEW S, IsFiniteSet(S), NEW T \in SUBSET S
    PROVE  /\ IsFiniteSet(T) /\ Cardinality(T) \in Nat /\ Cardinality(S) \in Nat
           /\ Cardinality(T) <= Cardinality(S)
  BY FS_Subset, FS_CardinalityType

LEMMA Sizes ==
    ASSUME RowsInv
    PROVE  /\ IsFiniteSet(PendingIds) /\ Cardinality(PendingIds) \in Nat
           /\ IsFiniteSet(ActiveUsers) /\ Cardinality(ActiveUsers) \in Nat
           /\ Beside(Cardinality(ActiveUsers)) \in Nat
           /\ crossed \in Nat /\ TeamLimit \in Nat
           /\ \A u \in Users : /\ InvitationsTo(u, invitation) \in SUBSET PendingIds
                               /\ IsFiniteSet(InvitationsTo(u, invitation))
                               /\ Cardinality(InvitationsTo(u, invitation)) \in Nat
           /\ \A G \in SUBSET Requests : /\ Credit(G) \in SUBSET PendingIds
                                         /\ IsFiniteSet(Credit(G)) /\ Cardinality(Credit(G)) \in Nat
  <1>1. MaxInvitations \in Nat /\ TeamLimit \in Nat /\ MaxCrossings \in Nat /\ IsFiniteSet(Users)
    BY WorkspaceConstants
  <1>2. IsFiniteSet(InvitationIds)
    BY <1>1, FS_Interval DEF InvitationIds
  <1>3. PendingIds \in SUBSET InvitationIds /\ ActiveUsers \in SUBSET Users
    BY DEF PendingIds, ActiveUsers
  <1>4. /\ IsFiniteSet(PendingIds) /\ Cardinality(PendingIds) \in Nat
        /\ IsFiniteSet(ActiveUsers) /\ Cardinality(ActiveUsers) \in Nat
    BY <1>1, <1>2, <1>3, CardinalityOfSubset
  <1>5. Beside(Cardinality(ActiveUsers)) \in Nat
    BY <1>4 DEF Beside
  <1>6. ASSUME NEW u \in Users
        PROVE  InvitationsTo(u, invitation) \in SUBSET PendingIds
    BY DEF InvitationsTo, PendingIds
  <1>7. ASSUME NEW G \in SUBSET Requests
        PROVE  Credit(G) \in SUBSET PendingIds
    BY DEF Credit
  <1> QED BY <1>1, <1>4, <1>5, <1>6, <1>7, CardinalityOfSubset DEF RowsInv

LEMMA SizesAfter ==
    /\ IsFiniteSet(PendingIds') /\ Cardinality(PendingIds') \in Nat
    /\ IsFiniteSet(ActiveUsers') /\ Cardinality(ActiveUsers') \in Nat
    /\ Beside(Cardinality(ActiveUsers')) \in Nat
  <1>1. IsFiniteSet(Users) /\ IsFiniteSet(InvitationIds)
    BY WorkspaceConstants, FS_Interval DEF InvitationIds
  <1>2. PendingIds' \in SUBSET InvitationIds /\ ActiveUsers' \in SUBSET Users
    BY DEF PendingIds, ActiveUsers
  <1>3. /\ IsFiniteSet(PendingIds') /\ Cardinality(PendingIds') \in Nat
        /\ IsFiniteSet(ActiveUsers') /\ Cardinality(ActiveUsers') \in Nat
    BY <1>1, <1>2, CardinalityOfSubset
  <1> QED BY <1>3 DEF Beside

\* A request that stands for itself among the growing ones.
LEMMA OneMore ==
    ASSUME NEW G, IsFiniteSet(G), NEW q, q \notin G
    PROVE  /\ IsFiniteSet(G \cup {q})
           /\ Cardinality(G) \in Nat
           /\ Cardinality(G \cup {q}) = Cardinality(G) + 1
  BY FS_AddElement, FS_CardinalityType

\* Invitations P lose K; c is what else counts, n what is added to it.
LEMMA GivesUpFor ==
    ASSUME NEW P, IsFiniteSet(P), NEW K \in SUBSET P, NEW C \in SUBSET P,
           NEW b \in Nat, NEW g \in Nat, NEW l \in Nat,
           b + Cardinality(P) + g <= l + Cardinality(C \cup K)
    PROVE  b + Cardinality(P \ K) + g <= l + Cardinality(C \ K)
  <1>1. IsFiniteSet(C \cup K) /\ K \in SUBSET (C \cup K) /\ (C \cup K) \ K = C \ K
    <2>1. C \cup K \in SUBSET P
      OBVIOUS
    <2> QED BY <2>1, CardinalityOfSubset
  <1>2. /\ Cardinality(C \cup K) = Cardinality(C \ K) + Cardinality(K)
        /\ Cardinality(C \ K) \in Nat /\ Cardinality(K) \in Nat
    BY <1>1, CardinalityOfRest
  <1>3. Cardinality(P) = Cardinality(P \ K) + Cardinality(K) /\ Cardinality(P \ K) \in Nat
    BY CardinalityOfRest
  <1> QED BY <1>2, <1>3

\* The same, whatever K takes from the credit.
LEMMA LosesAtMost ==
    ASSUME NEW P, IsFiniteSet(P), NEW K \in SUBSET P, NEW C \in SUBSET P,
           NEW b \in Nat, NEW g \in Nat, NEW l \in Nat,
           b + Cardinality(P) + g <= l + Cardinality(C)
    PROVE  b + Cardinality(P \ K) + g <= l + Cardinality(C \ K)
  <1>1. C \cup K \in SUBSET P /\ C \in SUBSET (C \cup K)
    OBVIOUS
  <1>2. /\ Cardinality(C) <= Cardinality(C \cup K) /\ Cardinality(C) \in Nat
        /\ Cardinality(C \cup K) \in Nat /\ Cardinality(P) \in Nat
    BY <1>1, CardinalityOfSubset
  <1>3. b + Cardinality(P) + g <= l + Cardinality(C \cup K)
    BY <1>2
  <1> QED BY <1>3, GivesUpFor
-----------------------------------------------------------------------------
(* Requests.                                                                 *)

LEMMA IdleIsARequest ==
    /\ Idle \in WorkspaceRequest /\ ~Busy(Idle)
    /\ \A members, sent : Known(Idle, members, sent)
  BY WorkspaceConstants DEF Idle, WorkspaceRequest, RequestPCs, Roles, Membership, Busy, Known

\* The members that a commit leaves where they are.
RowsStay ==
    /\ \A u \in Users : member[u] # Nobody => member'[u] # Nobody
    /\ \A i \in InvitationIds :
          invitation[i] # Nobody => invitation'[i] # Nobody /\ invitation'[i].email = invitation[i].email

\* What a request knows survives the commits of the others.
LEMMA KnownStays ==
    ASSUME RowsStay, NEW r \in WorkspaceRequest, Known(r, member, invitation)
    PROVE  Known(r, member', invitation')
  BY DEF RowsStay, Known, WorkspaceRequest

\* A commit leaves the other requests as they were.
LEMMA CommitsKeepRequests ==
    ASSUME RequestsInv, RowsStay, NEW q \in Requests, Commits(q)
    PROVE  RequestsInv'
  <1>1. request' = [request EXCEPT ![q] = Idle]
    BY DEF Commits
  <1>2. request' \in [Requests -> WorkspaceRequest]
    BY <1>1, IdleIsARequest DEF RequestsInv
  <1>3. ASSUME NEW p \in Requests
        PROVE  Known(request'[p], member', invitation')
    <2>1. CASE p = q
      BY <1>1, <2>1, IdleIsARequest DEF RequestsInv
    <2>2. CASE p # q
      <3>1. request'[p] = request[p] /\ request[p] \in WorkspaceRequest /\ Known(request[p], member, invitation)
        BY <1>1, <2>2 DEF RequestsInv
      <3> QED BY <3>1, KnownStays
    <2> QED BY <2>1, <2>2
  <1> QED BY <1>2, <1>3 DEF RequestsInv

\* After the commit of a request that did not cross none is under way.
LEMMA CommitsLeaveNoneBusy ==
    ASSUME RequestsInv, UncrossedInv, NEW q \in Requests, Busy(request[q]), Commits(q), crossed = 0
    PROVE  \A p \in Requests : ~Busy(request'[p])
  BY IdleIsARequest DEF RequestsInv, UncrossedInv, Commits

LEMMA NotBusyIsFresh ==
    ASSUME NEW r, ~Busy(r)
    PROVE  Fresh(r)
  BY DEF Busy, Fresh

\* So that what uncrossed commits have to keep is about the members alone.
LEMMA CommitsKeepUncrossed ==
    ASSUME RequestsInv, UncrossedInv, NEW q \in Requests, Busy(request[q]), Commits(q),
           crossed = 0 =>
               /\ \A i, j \in PendingIds' : invitation'[i].email = invitation'[j].email => i = j
               /\ \A i \in PendingIds' : ~Active(invitation[i].email)'
               /\ Owners' # {}
    PROVE  UncrossedInv'
  <1> SUFFICES ASSUME crossed' = 0
               PROVE  /\ \A p \in Requests : ~Busy(request'[p])
                      /\ \A p \in Requests : Fresh(request[p])'
    BY DEF UncrossedInv, Commits
  <1>1. crossed = 0
    BY DEF Commits
  <1>2. \A p \in Requests : ~Busy(request'[p])
    BY <1>1, CommitsLeaveNoneBusy
  <1>3. \A p \in Requests : Fresh(request[p])'
    BY <1>2 DEF Busy, Fresh
  <1> QED BY <1>2, <1>3
-----------------------------------------------------------------------------
(* Reads.                                                                    *)

\* What a request that does not cross brings along for the quotas.
WithinQuota(r) ==
    /\ r.pc \in {"invite", "accept"} =>
          SeatsTaken + 1 <= TeamLimit + crossed + Cardinality({i \in PendingIds : i \in GivenUp(r)})
    /\ r.pc = "invite" =>
          Cardinality(InvitationsTo(r.target, invitation)) + 1
              <= 1 + crossed + Cardinality({i \in PendingIds : i \in GivenUp(r)})

LEMMA ReadsKeep ==
    ASSUME MemberInv, NEW q \in Requests, NEW r \in WorkspaceRequest, ~Busy(request[q]), Busy(r),
           Reads(q, r), Known(r, member, invitation), crossed = 0 => Fresh(r), WithinQuota(r)
    PROVE  MemberInv'
  <1> DEFINE crossing == \E p \in Requests : request[p].pc \notin {"idle", "authorised"}
  <1>1. /\ UNCHANGED <<member, invitation>>
        /\ request' = [request EXCEPT ![q] = r]
        /\ crossing => crossed < MaxCrossings /\ crossed' = crossed + 1
        /\ ~crossing => crossed' = crossed
    BY DEF Reads
  <1>2. request \in [Requests -> WorkspaceRequest] /\ crossed \in Nat /\ MaxCrossings \in Nat /\ TeamLimit \in Nat
    BY WorkspaceConstants DEF MemberInv, RequestsInv, RowsInv
  <1>3. ~crossing => \A p \in Requests : ~Busy(request[p])
    BY DEF Busy
  <1> HIDE DEF crossing
  <1>4. RowsInv'
    BY <1>1, <1>2 DEF MemberInv, RowsInv
  <1>5. RequestsInv'
    BY <1>1 DEF MemberInv, RequestsInv
  <1>6. UncrossedInv'
    <2> SUFFICES ASSUME crossed' = 0
                 PROVE  UncrossedInv'
      BY DEF UncrossedInv
    <2>1. ~crossing /\ crossed = 0
      BY <1>1, <1>2
    <2>2. \A p \in Requests : Busy(request'[p]) => p = q
      BY <1>1, <1>2, <1>3, <2>1
    <2>3. \A p \in Requests : Fresh(request[p])'
      <3> TAKE p \in Requests
      <3>1. CASE p = q
        <4>1. request'[p] = r /\ Fresh(r)
          BY <1>1, <1>2, <2>1, <3>1
        <4> QED BY <1>1, <4>1 DEF Fresh, Active, PendingIds, Owners
      <3>2. CASE p # q
        <4>1. ~Busy(request'[p])
          BY <2>2, <3>2
        <4> QED BY <4>1 DEF Busy, Fresh
      <3> QED BY <3>1, <3>2
    <2> QED BY <1>1, <2>1, <2>2, <2>3 DEF MemberInv, UncrossedInv, PendingIds, Owners, Active
  <1>7. /\ SeatsTaken' = SeatsTaken /\ PendingIds' = PendingIds
        /\ \A u : InvitationsTo(u, invitation') = InvitationsTo(u, invitation)
    BY <1>1 DEF SeatsTaken, Beside, ActiveUsers, Active, PendingIds
  <1>8. SeatsTaken \in Nat
    BY Sizes DEF MemberInv, SeatsTaken
  <1>9. ASSUME NEW G \in SUBSET Requests
        PROVE  Credit(G)' = {i \in PendingIds : \E p \in G : i \in GivenUp(request'[p])}
    BY <1>7 DEF Credit, GivenUp
  \* One more request of a kind, beside those there are.
  <1>10. ASSUME NEW G \in SUBSET Requests, IsFiniteSet(G), q \in G, crossing
         PROVE  /\ IsFiniteSet(G \ {q}) /\ Cardinality(G \ {q}) \in Nat
                /\ Cardinality(G) = Cardinality(G \ {q}) + 1
                /\ Cardinality(Credit(G \ {q})) <= Cardinality(Credit(G)')
                /\ Cardinality(Credit(G)') \in Nat /\ Cardinality(Credit(G \ {q})) \in Nat
    <2>1. IsFiniteSet(G \ {q}) /\ (G \ {q}) \cup {q} = G
      BY <1>10, FS_RemoveElement
    <2>2. Cardinality(G) = Cardinality(G \ {q}) + 1 /\ Cardinality(G \ {q}) \in Nat
      BY <2>1, OneMore, q \notin G \ {q}
    <2>3. Credit(G \ {q}) \in SUBSET (Credit(G)') /\ Credit(G)' \in SUBSET PendingIds
      BY <1>1, <1>2, <1>9 DEF Credit
    <2>4. IsFiniteSet(PendingIds)
      BY Sizes DEF MemberInv
    <2>5. IsFiniteSet(Credit(G)')
      BY <2>3, <2>4, FS_Subset
    <2> QED BY <2>1, <2>2, <2>3, <2>5, CardinalityOfSubset
  <1>11. ASSUME NEW G \in SUBSET Requests, q \notin G
         PROVE  Credit(G)' = Credit(G)
    BY <1>1, <1>2, <1>9, <1>11 DEF Credit
  <1>12. ASSUME NEW G \in SUBSET Requests, \A p \in G : Busy(request'[p]), q \in G, ~crossing
         PROVE  G = {q} /\ Credit(G)' = {i \in PendingIds : i \in GivenUp(r)} /\ Cardinality(G) = 1
    <2>1. G = {q}
      BY <1>1, <1>2, <1>3, <1>12
    <2> QED BY <1>1, <1>2, <1>9, <2>1, FS_Singleton
  <1>13. SeatsPaid'
    <2> SUFFICES ASSUME NEW G \in SUBSET Requests, IsFiniteSet(G), \A p \in G : Growing(p)'
                 PROVE  SeatsTaken + Cardinality(G) <= TeamLimit + crossed' + Cardinality(Credit(G)')
      BY <1>7 DEF SeatsPaid
    <2>1. \A p \in G : p # q => Growing(p)
      BY <1>1, <1>2 DEF Growing
    <2>2. \A p \in G : Busy(request'[p])
      BY DEF Growing, Busy
    <2>3. CASE q \notin G
      <3>1. SeatsTaken + Cardinality(G) <= TeamLimit + crossed + Cardinality(Credit(G))
        BY <2>1, <2>3 DEF MemberInv, SeatsPaid
      <3>2. Cardinality(G) \in Nat /\ Cardinality(Credit(G)) \in Nat
        BY Sizes, FS_CardinalityType DEF MemberInv
      <3> QED BY <1>1, <1>2, <1>8, <1>11, <2>3, <3>1, <3>2
    <2>4. CASE q \in G /\ crossing
      <3>1. IsFiniteSet(G \ {q})
        BY <1>10, <2>4
      <3>2. SeatsTaken + Cardinality(G \ {q}) <= TeamLimit + crossed + Cardinality(Credit(G \ {q}))
        BY <2>1, <3>1 DEF MemberInv, SeatsPaid
      <3> QED BY <1>1, <1>2, <1>8, <1>10, <2>4, <3>2
    <2>5. CASE q \in G /\ ~crossing
      <3>1. r.pc \in {"invite", "accept"}
        BY <1>1, <1>2, <2>5 DEF Growing
      <3>2. Credit(G)' = {i \in PendingIds : i \in GivenUp(r)} /\ Cardinality(G) = 1
        BY <1>12, <2>2, <2>5
      <3> QED BY <1>1, <2>5, <3>1, <3>2 DEF WithinQuota
    <2> QED BY <2>3, <2>4, <2>5
  <1>14. InvitationsPaid'
    <2> SUFFICES ASSUME NEW u \in Users, NEW G \in SUBSET Requests, IsFiniteSet(G), \A p \in G : Inviting(p, u)'
                 PROVE  Cardinality(InvitationsTo(u, invitation)) + Cardinality(G)
                            <= 1 + crossed' + Cardinality(Credit(G)')
      BY <1>7 DEF InvitationsPaid
    <2>1. \A p \in G : p # q => Inviting(p, u)
      BY <1>1, <1>2 DEF Inviting
    <2>2. \A p \in G : Busy(request'[p])
      BY DEF Inviting, Busy
    <2>3. Cardinality(InvitationsTo(u, invitation)) \in Nat
      BY Sizes DEF MemberInv
    <2>4. CASE q \notin G
      <3>1. Cardinality(InvitationsTo(u, invitation)) + Cardinality(G) <= 1 + crossed + Cardinality(Credit(G))
        BY <2>1, <2>4 DEF MemberInv, InvitationsPaid
      <3>2. Cardinality(G) \in Nat /\ Cardinality(Credit(G)) \in Nat
        BY Sizes, FS_CardinalityType DEF MemberInv
      <3> QED BY <1>1, <1>2, <1>11, <2>3, <2>4, <3>1, <3>2
    <2>5. CASE q \in G /\ crossing
      <3>1. IsFiniteSet(G \ {q})
        BY <1>10, <2>5
      <3>2. Cardinality(InvitationsTo(u, invitation)) + Cardinality(G \ {q})
                <= 1 + crossed + Cardinality(Credit(G \ {q}))
        BY <2>1, <3>1 DEF MemberInv, InvitationsPaid
      <3> QED BY <1>1, <1>2, <1>10, <2>3, <2>5, <3>2
    <2>6. CASE q \in G /\ ~crossing
      <3>1. r.pc = "invite" /\ r.target = u
        BY <1>1, <1>2, <2>6 DEF Inviting
      <3>2. Credit(G)' = {i \in PendingIds : i \in GivenUp(r)} /\ Cardinality(G) = 1
        BY <1>12, <2>2, <2>6
      <3> QED BY <1>1, <2>6, <3>1, <3>2 DEF WithinQuota
    <2> QED BY <2>4, <2>5, <2>6
  <1> QED BY <1>4, <1>5, <1>6, <1>13, <1>14 DEF MemberInv
-----------------------------------------------------------------------------
(* Commits, and what they leave of the quotas.                               *)

\* The requests that may still grow were there before, and what they give up
\* is among what is left.
LEMMA OthersAfterCommit ==
    ASSUME RequestsInv, NEW q \in Requests, Commits(q), NEW G \in SUBSET Requests,
           \A p \in G : Growing(p)',
           \A i \in PendingIds' : i \in PendingIds \/ invitation[i] = Nobody
    PROVE  /\ q \notin G
           /\ \A p \in G : Growing(p) /\ request'[p] = request[p]
           /\ Credit(G)' = Credit(G) \cap PendingIds'
  <1>1. request' = [request EXCEPT ![q] = Idle] /\ request \in [Requests -> WorkspaceRequest]
    BY DEF Commits, RequestsInv
  <1>2. q \notin G
    BY <1>1 DEF Growing, Idle
  <1>3. \A p \in G : Growing(p) /\ request'[p] = request[p]
    BY <1>1, <1>2 DEF Growing
  <1>4. \A p \in G : \A i \in GivenUp(request[p]) : invitation[i] # Nobody
    <2> SUFFICES ASSUME NEW p \in G, NEW i \in GivenUp(request[p])
                 PROVE  invitation[i] # Nobody
      OBVIOUS
    <2>1. Known(request[p], member, invitation) /\ request[p].pc \in {"invite", "accept"}
      BY <1>3 DEF Growing, RequestsInv
    <2> QED BY <2>1 DEF Known, GivenUp
  <1>5. Credit(G)' = {i \in PendingIds' : \E p \in G : i \in GivenUp(request[p])}
    BY <1>3 DEF Credit, GivenUp
  <1> QED BY <1>2, <1>3, <1>4, <1>5 DEF Credit

LEMMA BesideGrows ==
    ASSUME NEW S, NEW T, IsFiniteSet(S), IsFiniteSet(T), NEW u, T \subseteq S \cup {u}
    PROVE  /\ Beside(Cardinality(S)) \in Nat
           /\ T \subseteq S => Beside(Cardinality(T)) <= Beside(Cardinality(S))
           /\ Beside(Cardinality(T)) <= Beside(Cardinality(S)) + 1
  <1> DEFINE m == Cardinality(S)
             n == Cardinality(T)
  <1>1. m \in Nat /\ n \in Nat
    BY FS_CardinalityType
  <1>2. T \subseteq S => n <= m
    BY FS_Subset
  <1>3. n <= m + 1
    <2>1. /\ IsFiniteSet(S \cup {u})
          /\ Cardinality(S \cup {u}) = IF u \in S THEN Cardinality(S) ELSE Cardinality(S) + 1
      BY FS_AddElement
    <2>2. n <= Cardinality(S \cup {u})
      BY <2>1, FS_Subset
    <2> QED BY <1>1, <2>1, <2>2
  <1> HIDE DEF m, n
  <1>4. Beside(m) \in Nat /\ (n <= m => Beside(n) <= Beside(m)) /\ Beside(n) <= Beside(m) + 1
    BY <1>1, <1>3 DEF Beside
  <1> QED BY <1>2, <1>4 DEF m, n

\* Invitations K are withdrawn and no seat is taken: others' credit may go.
LEMMA SeatsStayPaid ==
    ASSUME MemberInv, RowsInv', NEW q \in Requests, Commits(q),
           NEW K \in SUBSET PendingIds, PendingIds' = PendingIds \ K,
           ActiveUsers' \subseteq ActiveUsers
    PROVE  SeatsPaid'
  <1> SUFFICES ASSUME NEW G \in SUBSET Requests, IsFiniteSet(G), \A p \in G : Growing(p)'
               PROVE  SeatsTaken' + Cardinality(G) <= TeamLimit + crossed' + Cardinality(Credit(G)')
    BY DEF SeatsPaid
  <1>1. /\ crossed' = crossed
        /\ \A p \in G : Growing(p)
        /\ Credit(G)' = Credit(G) \ K
    BY OthersAfterCommit DEF MemberInv, Commits, Credit
  <1>2. SeatsTaken + Cardinality(G) <= TeamLimit + crossed + Cardinality(Credit(G))
    BY <1>1 DEF MemberInv, SeatsPaid
  <1> DEFINE b == Beside(Cardinality(ActiveUsers))
             c == Beside(Cardinality(ActiveUsers'))
  <1>3. /\ SeatsTaken = b + Cardinality(PendingIds)
        /\ SeatsTaken' = c + Cardinality(PendingIds \ K)
    BY DEF SeatsTaken, Beside
  <1>4. b \in Nat /\ c \in Nat /\ c <= b
    <2>1. IsFiniteSet(ActiveUsers) /\ IsFiniteSet(ActiveUsers')
      BY Sizes, FS_Subset DEF MemberInv
    <2> QED BY <2>1, BesideGrows, ActiveUsers' \subseteq ActiveUsers \cup {q}
  <1>5. /\ crossed \in Nat /\ TeamLimit \in Nat /\ Cardinality(G) \in Nat
        /\ IsFiniteSet(PendingIds) /\ Credit(G) \in SUBSET PendingIds
    BY Sizes, FS_CardinalityType DEF MemberInv
  <1> HIDE DEF b, c
  <1>6. b + Cardinality(PendingIds \ K) + Cardinality(G) <= TeamLimit + crossed + Cardinality(Credit(G) \ K)
    <2>1. b + Cardinality(PendingIds) + Cardinality(G) <= (TeamLimit + crossed) + Cardinality(Credit(G))
      BY <1>2, <1>3
    <2>2. TeamLimit + crossed \in Nat
      BY <1>5
    <2> QED BY <1>4, <1>5, <2>1, <2>2, LosesAtMost
  <1>7. Cardinality(PendingIds \ K) \in Nat /\ Cardinality(Credit(G) \ K) \in Nat
    <2>1. PendingIds \ K \in SUBSET PendingIds /\ Credit(G) \ K \in SUBSET PendingIds
      BY <1>5
    <2> QED BY <1>5, <2>1, CardinalityOfSubset
  <1> QED BY <1>1, <1>3, <1>4, <1>5, <1>6, <1>7

\* The request that commits takes one seat and gives up K.
LEMMA SeatIsPaid ==
    ASSUME MemberInv, RowsInv', NEW q \in Requests, Commits(q), Growing(q),
           NEW K, K = {i \in PendingIds : i \in GivenUp(request[q])},
           PendingIds \ K \subseteq PendingIds',
           \A i \in PendingIds' : i \in PendingIds \ K \/ invitation[i] = Nobody,
           SeatsTaken' <= Beside(Cardinality(ActiveUsers)) + Cardinality(PendingIds \ K) + 1
    PROVE  SeatsPaid'
  <1> SUFFICES ASSUME NEW G \in SUBSET Requests, IsFiniteSet(G), \A p \in G : Growing(p)'
               PROVE  SeatsTaken' + Cardinality(G) <= TeamLimit + crossed' + Cardinality(Credit(G)')
    BY DEF SeatsPaid
  <1>1. /\ crossed' = crossed
        /\ q \notin G /\ \A p \in G \cup {q} : Growing(p)
        /\ Credit(G)' = Credit(G) \cap PendingIds'
    BY OthersAfterCommit DEF MemberInv, Commits
  <1>2. Credit(G)' = Credit(G) \ K /\ Credit(G \cup {q}) = Credit(G) \cup K
    <2>1. \A i \in PendingIds : invitation[i] # Nobody
      BY DEF PendingIds
    <2> QED BY <1>1, <2>1 DEF Credit
  <1>3. /\ IsFiniteSet(G \cup {q}) /\ Cardinality(G \cup {q}) = Cardinality(G) + 1
        /\ Cardinality(G) \in Nat
    BY <1>1, OneMore
  <1>4. SeatsTaken + Cardinality(G \cup {q}) <= TeamLimit + crossed + Cardinality(Credit(G \cup {q}))
    BY <1>1, <1>3 DEF MemberInv, SeatsPaid
  <1> DEFINE b == Beside(Cardinality(ActiveUsers))
  <1>5. SeatsTaken = b + Cardinality(PendingIds)
    BY DEF SeatsTaken
  <1>6. /\ crossed \in Nat /\ TeamLimit \in Nat /\ b \in Nat
        /\ IsFiniteSet(PendingIds) /\ Credit(G) \in SUBSET PendingIds
    BY Sizes DEF MemberInv
  <1>7. SeatsTaken' <= b + Cardinality(PendingIds \ K) + 1
    OBVIOUS
  <1> HIDE DEF b
  <1>8. b + Cardinality(PendingIds \ K) + (Cardinality(G) + 1) <= TeamLimit + crossed + Cardinality(Credit(G) \ K)
    <2>1. b + Cardinality(PendingIds) + (Cardinality(G) + 1) <= (TeamLimit + crossed) + Cardinality(Credit(G) \cup K)
      BY <1>2, <1>3, <1>4, <1>5
    <2>2. TeamLimit + crossed \in Nat /\ Cardinality(G) + 1 \in Nat /\ K \in SUBSET PendingIds
      BY <1>3, <1>6
    <2> QED BY <1>6, <2>1, <2>2, GivesUpFor
  <1>9. Cardinality(PendingIds \ K) \in Nat /\ Cardinality(Credit(G) \ K) \in Nat
    <2>1. PendingIds \ K \in SUBSET PendingIds /\ Credit(G) \ K \in SUBSET PendingIds
      BY <1>6
    <2> QED BY <1>6, <2>1, CardinalityOfSubset
  <1>10. SeatsTaken' \in Nat
    <2>1. SeatsTaken \in Nat
      BY <1>5, <1>6, Sizes DEF MemberInv
    <2>2. Beside(Cardinality(ActiveUsers))' \in Nat /\ Cardinality(PendingIds)' \in Nat
      BY SizesAfter
    <2> QED BY <2>2 DEF SeatsTaken
  <1> DEFINE x == Cardinality(PendingIds \ K)
             y == Cardinality(Credit(G) \ K)
             z == SeatsTaken'
             n == Cardinality(G)
  <1>11. /\ b \in Nat /\ x \in Nat /\ y \in Nat /\ z \in Nat /\ n \in Nat /\ TeamLimit \in Nat /\ crossed \in Nat
         /\ z <= b + x + 1
         /\ b + x + (n + 1) <= TeamLimit + crossed + y
    BY <1>3, <1>6, <1>7, <1>8, <1>9, <1>10
  <1> HIDE DEF x, y, z, n
  <1>12. z + n <= TeamLimit + crossed + y
    BY <1>11
  <1> QED BY <1>1, <1>2, <1>12 DEF x, y, z, n

\* What invitations to u would replace are invitations to u.
LEMMA CreditOfInviters ==
    ASSUME RequestsInv, NEW u \in Users, NEW G \in SUBSET Requests, \A p \in G : Inviting(p, u)
    PROVE  Credit(G) \in SUBSET InvitationsTo(u, invitation)
  <1> SUFFICES ASSUME NEW p \in G, NEW i \in PendingIds, i \in GivenUp(request[p])
               PROVE  i \in InvitationsTo(u, invitation)
    BY DEF Credit
  <1>1. Known(request[p], member, invitation) /\ request[p].pc = "invite" /\ request[p].target = u
    BY DEF RequestsInv, Inviting
  <1>2. i \in InvitationIds /\ invitation[i].email = u
    BY <1>1 DEF Known, GivenUp, PendingIds
  <1> QED BY <1>2 DEF InvitationsTo, PendingIds

\* Invitations K are withdrawn and none is sent.
LEMMA InvitationsStayPaid ==
    ASSUME MemberInv, NEW q \in Requests, Commits(q),
           NEW K, PendingIds' = PendingIds \ K,
           \A u \in Users : InvitationsTo(u, invitation') = InvitationsTo(u, invitation) \ K
    PROVE  InvitationsPaid'
  <1> SUFFICES ASSUME NEW u \in Users, NEW G \in SUBSET Requests, IsFiniteSet(G), \A p \in G : Inviting(p, u)'
               PROVE  Cardinality(InvitationsTo(u, invitation')) + Cardinality(G)
                          <= 1 + crossed' + Cardinality(Credit(G)')
    BY DEF InvitationsPaid
  <1>1. \A p \in G : Growing(p)'
    BY DEF Inviting, Growing
  <1>2. crossed' = crossed /\ (\A p \in G : Inviting(p, u)) /\ Credit(G)' = Credit(G) \cap PendingIds'
    BY <1>1, OthersAfterCommit DEF MemberInv, Commits, Inviting
  <1> DEFINE P == InvitationsTo(u, invitation)
             C == Credit(G)
             L == K \cap P
  <1>3. /\ C \in SUBSET P /\ P \in SUBSET PendingIds
        /\ IsFiniteSet(P) /\ crossed \in Nat /\ Cardinality(G) \in Nat
    BY <1>2, Sizes, CreditOfInviters, FS_CardinalityType DEF MemberInv
  <1>4. Cardinality(P) + Cardinality(G) <= 1 + crossed + Cardinality(C)
    BY <1>2 DEF MemberInv, InvitationsPaid
  <1>5. InvitationsTo(u, invitation') = P \ L /\ Credit(G)' = C \ L
    BY <1>2, <1>3
  <1> HIDE DEF P, C
  <1>6. 0 + Cardinality(P \ L) + Cardinality(G) <= (1 + crossed) + Cardinality(C \ L)
    <2>1. 0 + Cardinality(P) + Cardinality(G) <= (1 + crossed) + Cardinality(C)
      BY <1>3, <1>4, CardinalityOfSubset
    <2>2. 1 + crossed \in Nat /\ L \in SUBSET P /\ 0 \in Nat
      BY <1>3
    <2> HIDE DEF L
    <2> QED BY <1>3, <2>1, <2>2, LosesAtMost
  <1>7. Cardinality(P \ L) \in Nat /\ Cardinality(C \ L) \in Nat
    <2>1. P \ L \in SUBSET P /\ C \ L \in SUBSET P
      BY <1>3
    <2> QED BY <1>3, <2>1, CardinalityOfSubset
  <1> QED BY <1>2, <1>5, <1>6, <1>7

\* One invitation is sent, in the place of those that were read.
LEMMA InvitationIsPaid ==
    ASSUME MemberInv, NEW q \in Requests, Commits(q), request[q].pc = "invite",
           NEW n \in InvitationIds, invitation[n] = Nobody,
           PendingIds' = (PendingIds \ request[q].pending) \cup {n},
           InvitationsTo(request[q].target, invitation')
               = (InvitationsTo(request[q].target, invitation) \ request[q].pending) \cup {n},
           \A u \in Users \ {request[q].target} :
               InvitationsTo(u, invitation') = InvitationsTo(u, invitation)
    PROVE  InvitationsPaid'
  <1> SUFFICES ASSUME NEW u \in Users, NEW G \in SUBSET Requests, IsFiniteSet(G), \A p \in G : Inviting(p, u)'
               PROVE  Cardinality(InvitationsTo(u, invitation')) + Cardinality(G)
                          <= 1 + crossed' + Cardinality(Credit(G)')
    BY DEF InvitationsPaid
  <1>1. \A p \in G : Growing(p)'
    BY DEF Inviting, Growing
  <1>2. /\ crossed' = crossed /\ q \notin G /\ (\A p \in G : Inviting(p, u))
        /\ Credit(G)' = Credit(G) \cap PendingIds'
    BY <1>1, OthersAfterCommit DEF MemberInv, Commits, Inviting
  <1> DEFINE P == InvitationsTo(u, invitation)
             C == Credit(G)
  <1>3. /\ C \in SUBSET P /\ P \in SUBSET PendingIds /\ n \notin PendingIds
        /\ IsFiniteSet(P) /\ crossed \in Nat /\ Cardinality(G) \in Nat
    BY <1>2, Sizes, CreditOfInviters, FS_CardinalityType DEF MemberInv, PendingIds
  <1>4. CASE u # request[q].target
    <2>1. request[q].pending \cap P = {}
      <3>1. Known(request[q], member, invitation)
        BY DEF MemberInv, RequestsInv
      <3> QED BY <1>4, <3>1 DEF Known, InvitationsTo
    <2>2. Credit(G)' = C /\ InvitationsTo(u, invitation') = P
      BY <1>2, <1>3, <1>4, <2>1
    <2> QED BY <1>2, <2>2 DEF MemberInv, InvitationsPaid
  <1>5. CASE u = request[q].target
    <2> DEFINE K == request[q].pending \cap P
    <2>1. Credit(G)' = C \ K /\ InvitationsTo(u, invitation') = (P \ K) \cup {n} /\ n \notin P \ K
      BY <1>2, <1>3, <1>5
    <2>2. Credit(G \cup {q}) = C \cup K
      <3>1. Credit(G \cup {q}) = C \cup {i \in PendingIds : i \in request[q].pending}
        BY DEF Credit, GivenUp
      <3>2. {i \in PendingIds : i \in request[q].pending} = K
        <4>1. Known(request[q], member, invitation)
          BY DEF MemberInv, RequestsInv
        <4> QED BY <1>5, <4>1 DEF Known, InvitationsTo, PendingIds
      <3> QED BY <3>1, <3>2
    <2>3. /\ IsFiniteSet(G \cup {q}) /\ Cardinality(G \cup {q}) = Cardinality(G) + 1
      BY <1>2, OneMore
    <2>4. Cardinality(P) + Cardinality(G \cup {q}) <= 1 + crossed + Cardinality(C \cup K)
      <3>1. \A p \in G \cup {q} : Inviting(p, u)
        BY <1>2, <1>5 DEF Inviting
      <3> QED BY <2>2, <2>3, <3>1 DEF MemberInv, InvitationsPaid
    <2>5. K \in SUBSET P
      OBVIOUS
    <2> HIDE DEF P, C, K
    <2>6. 0 + Cardinality(P \ K) + (Cardinality(G) + 1) <= (1 + crossed) + Cardinality(C \ K)
      <3>1. 0 + Cardinality(P) + (Cardinality(G) + 1) <= (1 + crossed) + Cardinality(C \cup K)
        BY <1>3, <2>3, <2>4, CardinalityOfSubset
      <3>2. 1 + crossed \in Nat /\ Cardinality(G) + 1 \in Nat /\ 0 \in Nat
        BY <1>3
      <3> QED BY <1>3, <2>5, <3>1, <3>2, GivesUpFor
    <2>7. IsFiniteSet(P \ K) /\ Cardinality(P \ K) \in Nat
      <3>1. P \ K \in SUBSET P
        OBVIOUS
      <3> QED BY <1>3, <3>1, CardinalityOfSubset
    <2>8. Cardinality((P \ K) \cup {n}) = Cardinality(P \ K) + 1
      BY <2>1, <2>7, OneMore
    <2> QED BY <1>2, <1>3, <2>1, <2>6, <2>7, <2>8
  <1> QED BY <1>4, <1>5
-----------------------------------------------------------------------------
(* The commits, one by one.  The action properties say what else they leave. *)

OwnersYield ==
    \A u \in Owners \ Owners' :
        \/ crossed > 0
        \/ \E q \in Requests : request[q].pc \in {"change", "remove"} /\ request[q].as = "owner"
                               /\ request'[q].pc = "idle"

SettledStay ==
    crossed = 0 => \A i \in InvitationIds :
        invitation[i] # Nobody /\ i \notin PendingIds => invitation'[i] = invitation[i]

StepOK == MemberInv' /\ OwnersYield /\ SettledStay

\* One invitation gets another status.
LEMMA OneSettles ==
    ASSUME RowsInv, NEW i \in InvitationIds, invitation[i] # Nobody,
           NEW s \in {"accepted", "revoked", "expired"},
           invitation' = [invitation EXCEPT ![i].status = s]
    PROVE  /\ invitation' \in [InvitationIds -> WorkspaceInvitation \cup {Nobody}]
           /\ \A j \in InvitationIds : /\ j # i => invitation'[j] = invitation[j]
                                       /\ invitation[j] # Nobody =>
                                             invitation'[j] # Nobody /\ invitation'[j].email = invitation[j].email
           /\ PendingIds' = PendingIds \ {i}
           /\ \A u \in Users : InvitationsTo(u, invitation') = InvitationsTo(u, invitation) \ {i}
  <1>1. invitation[i] \in WorkspaceInvitation /\ invitation \in [InvitationIds -> WorkspaceInvitation \cup {Nobody}]
    BY DEF RowsInv
  <1> DEFINE row == [invitation[i] EXCEPT !.status = s]
  <1>2. row \in WorkspaceInvitation /\ row.email = invitation[i].email /\ row.status = s /\ row # Nobody
    BY <1>1, NobodyIsNoRow DEF WorkspaceInvitation
  <1>3. invitation' = [invitation EXCEPT ![i] = row]
    OBVIOUS
  <1> HIDE DEF row
  <1>4. \A j \in InvitationIds : invitation'[j] = IF j = i THEN row ELSE invitation[j]
    BY <1>1, <1>3
  <1>5. invitation' \in [InvitationIds -> WorkspaceInvitation \cup {Nobody}]
    BY <1>1, <1>2, <1>3
  <1>6. PendingIds' = PendingIds \ {i}
    BY <1>2, <1>4 DEF PendingIds
  <1>7. \A u \in Users : InvitationsTo(u, invitation') = InvitationsTo(u, invitation) \ {i}
    BY <1>2, <1>4 DEF InvitationsTo
  <1> QED BY <1>2, <1>4, <1>5, <1>6, <1>7

\* A revocation, or an acceptance that came too late.
LEMMA SettlesAlone ==
    ASSUME MemberInv, NEW q \in Requests, request[q].pc \in {"revoke", "lapse"},
           NEW s \in {"revoked", "expired"},
           invitation' = [invitation EXCEPT ![request[q].id].status = s],
           Commits(q), UNCHANGED member
    PROVE  StepOK
  <1> DEFINE i == request[q].id
  <1>1. i \in InvitationIds /\ invitation[i] # Nobody /\ (crossed = 0 => i \in PendingIds)
    BY DEF MemberInv, RequestsInv, UncrossedInv, Known, Fresh
  <1>2. RowsInv
    BY DEF MemberInv
  <1>3. /\ invitation' \in [InvitationIds -> WorkspaceInvitation \cup {Nobody}]
        /\ \A j \in InvitationIds : /\ j # i => invitation'[j] = invitation[j]
                                    /\ invitation[j] # Nobody =>
                                          invitation'[j] # Nobody /\ invitation'[j].email = invitation[j].email
        /\ PendingIds' = PendingIds \ {i}
        /\ \A u \in Users : InvitationsTo(u, invitation') = InvitationsTo(u, invitation) \ {i}
    <2>1. invitation' = [invitation EXCEPT ![i].status = s] /\ s \in {"accepted", "revoked", "expired"}
      OBVIOUS
    <2> HIDE DEF i
    <2> QED BY <1>1, <1>2, <2>1, OneSettles
  <1>4. RowsInv' /\ RowsStay /\ ActiveUsers' = ActiveUsers /\ Owners' = Owners
    BY <1>3 DEF MemberInv, RowsInv, Commits, RowsStay, ActiveUsers, Owners, Active
  <1>5. RequestsInv'
    BY <1>4, CommitsKeepRequests DEF MemberInv
  <1>6. SeatsPaid'
    <2>1. PendingIds' = PendingIds \ (PendingIds \cap {i})
      BY <1>3
    <2> QED BY <1>4, <2>1, SeatsStayPaid
  <1>7. InvitationsPaid'
    BY <1>3, InvitationsStayPaid
  <1>8. Busy(request[q])
    BY DEF Busy
  <1>9. UncrossedInv'
    <2> SUFFICES ASSUME crossed = 0
                 PROVE  /\ \A j, k \in PendingIds' : invitation'[j].email = invitation'[k].email => j = k
                        /\ \A j \in PendingIds' : ~Active(invitation[j].email)'
                        /\ Owners' # {}
      BY <1>8, CommitsKeepUncrossed DEF MemberInv
    <2>1. \A j \in PendingIds' : j \in PendingIds /\ invitation'[j] = invitation[j]
      BY <1>3 DEF PendingIds
    <2> QED BY <1>4, <2>1 DEF MemberInv, UncrossedInv, Active
  <1>10. OwnersYield /\ SettledStay
    BY <1>1, <1>3, <1>4 DEF OwnersYield, SettledStay
  <1> QED BY <1>4, <1>5, <1>6, <1>7, <1>9, <1>10 DEF StepOK, MemberInv

\* One membership is written.
LEMMA OneWritten ==
    ASSUME RowsInv, NEW u \in Users, NEW row \in Membership, member' = [member EXCEPT ![u] = row]
    PROVE  /\ member' \in [Users -> Membership \cup {Nobody}]
           /\ \A v \in Users : member'[v] = IF v = u THEN row ELSE member[v]
           /\ \A v \in Users : member[v] # Nobody => member'[v] # Nobody
           /\ ActiveUsers' \subseteq ActiveUsers \cup {u}
           /\ row.status = "removed" \/ Active(u) => ActiveUsers' \subseteq ActiveUsers
           /\ Owners \ {u} \subseteq Owners' /\ Owners \ Owners' \subseteq {u}
           /\ row.status = "active" /\ row.role = "owner" => u \in Owners'
  <1>1. member \in [Users -> Membership \cup {Nobody}]
    BY DEF RowsInv
  <1>2. \A v \in Users : member'[v] = IF v = u THEN row ELSE member[v]
    BY <1>1
  <1>3. row # Nobody
    BY NobodyIsNoRow
  <1> QED BY <1>1, <1>2, <1>3 DEF ActiveUsers, Owners, Active

LEMMA UpdatedIsARow ==
    ASSUME NEW now \in Membership, NEW read \in Membership, NEW new \in Membership
    PROVE  /\ Updated(now, read, new) \in Membership
           /\ new.status = read.status => Updated(now, read, new).status = now.status
           /\ now = read => Updated(now, read, new) = new
  <1>1. /\ now.role \in Roles /\ new.role \in Roles
        /\ now.status \in {"active", "removed"} /\ new.status \in {"active", "removed"}
    BY DEF Membership
  <1>2. Updated(now, read, new) \in Membership
    BY <1>1 DEF Updated, Membership
  <1>3. new.status = read.status => Updated(now, read, new).status = now.status
    BY DEF Updated
  <1>4. now = read => Updated(now, read, new) = new
    BY DEF Updated, Membership
  <1> QED BY <1>2, <1>3, <1>4

\* A role or a status is written, and no invitation.
LEMMA WritesAlone ==
    ASSUME MemberInv, NEW q \in Requests, request[q].pc \in {"change", "remove"}, Commits(q),
           UNCHANGED invitation, NEW row \in Membership,
           member' = [member EXCEPT ![request[q].target] = row],
           row.status = "removed" \/ row.status = member[request[q].target].status,
           crossed = 0 /\ request[q].as # "owner" => member[request[q].target].role # "owner",
           crossed = 0 => \/ \E v \in Owners : v # request[q].target
                          \/ row.role = member[request[q].target].role /\ row.status = "active"
    PROVE  StepOK
  <1> DEFINE u == request[q].target
  <1>1. u \in Users /\ member[u] # Nobody /\ RowsInv
    BY DEF MemberInv, RequestsInv, Known
  <1>2. /\ member' \in [Users -> Membership \cup {Nobody}]
        /\ \A v \in Users : member'[v] = IF v = u THEN row ELSE member[v]
        /\ \A v \in Users : member[v] # Nobody => member'[v] # Nobody
        /\ row.status = "removed" \/ Active(u) => ActiveUsers' \subseteq ActiveUsers
        /\ Owners \ {u} \subseteq Owners' /\ Owners \ Owners' \subseteq {u}
        /\ row.status = "active" /\ row.role = "owner" => u \in Owners'
    <2>1. member' = [member EXCEPT ![u] = row]
      OBVIOUS
    <2> HIDE DEF u
    <2> QED BY <1>1, <2>1, OneWritten
  <1>3. row.status \in {"active", "removed"}
    BY DEF Membership
  <1>4. ActiveUsers' \subseteq ActiveUsers
    BY <1>1, <1>2, <1>3 DEF Active
  <1>5. PendingIds' = PendingIds /\ \A v : InvitationsTo(v, invitation') = InvitationsTo(v, invitation)
    BY DEF PendingIds
  <1>6. RowsInv' /\ RowsStay
    BY <1>2 DEF MemberInv, RowsInv, Commits, RowsStay
  <1>7. RequestsInv'
    BY <1>6, CommitsKeepRequests DEF MemberInv
  <1>8. SeatsPaid'
    <2>1. PendingIds' = PendingIds \ {} /\ {} \in SUBSET PendingIds
      BY <1>5
    <2> QED BY <1>4, <1>6, <2>1, SeatsStayPaid
  <1>9. InvitationsPaid'
    <2>1. PendingIds' = PendingIds \ {} /\ \A v \in Users : InvitationsTo(v, invitation') = InvitationsTo(v, invitation) \ {}
      BY <1>5
    <2> QED BY <2>1, InvitationsStayPaid
  <1>10. UncrossedInv'
    <2>1. Busy(request[q])
      BY DEF Busy
    <2> SUFFICES ASSUME crossed = 0
                 PROVE  /\ \A i, j \in PendingIds' : invitation'[i].email = invitation'[j].email => i = j
                        /\ \A i \in PendingIds' : ~Active(invitation[i].email)'
                        /\ Owners' # {}
      BY <2>1, CommitsKeepUncrossed DEF MemberInv
    <2>2. \A i \in PendingIds' : ~Active(invitation[i].email)'
      <3>1. \A i \in PendingIds : ~Active(invitation[i].email) /\ invitation[i].email \in Users
        BY NobodyIsNoRow DEF MemberInv, UncrossedInv, PendingIds, RowsInv, WorkspaceInvitation
      <3>2. \A v \in Users : Active(v)' => Active(v)
        BY <1>4 DEF ActiveUsers
      <3> QED BY <1>5, <3>1, <3>2 DEF Active
    <2>3. Owners' # {}
      BY <1>1, <1>2 DEF MemberInv, UncrossedInv, Owners, Active
    <2> QED BY <1>5, <2>2, <2>3 DEF MemberInv, UncrossedInv
  <1>11. OwnersYield
    <2> SUFFICES ASSUME crossed = 0, NEW v \in Owners, v \notin Owners'
                 PROVE  request[q].as = "owner" /\ request'[q].pc = "idle"
      BY DEF OwnersYield, MemberInv, RowsInv
    <2>1. v = u /\ member[u].role = "owner"
      BY <1>2 DEF Owners
    <2> QED BY <2>1 DEF Commits, Idle, MemberInv, RequestsInv
  <1>12. SettledStay
    BY DEF SettledStay
  <1> QED BY <1>6, <1>7, <1>8, <1>9, <1>10, <1>11, <1>12 DEF StepOK, MemberInv

LEMMA ChangeStep ==
    ASSUME MemberInv, NEW q \in Requests, change_workspace_member_role(q)
    PROVE  StepOK
  <1> DEFINE r == request[q]
             new == [r.read EXCEPT !.role = r.role]
             row == Updated(member[r.target], r.read, new)
  <1>1. /\ r.pc = "change" /\ Commits(q) /\ UNCHANGED invitation
        /\ member' = [member EXCEPT ![r.target] = row]
    BY DEF change_workspace_member_role
  <1>2. /\ r \in WorkspaceRequest /\ r.target \in Users /\ member[r.target] \in Membership
        /\ r.read \in Membership /\ r.read.status = "active" /\ r.as = "owner"
    BY <1>1 DEF MemberInv, RowsInv, RequestsInv, Known
  <1>3. new \in Membership /\ new.status = r.read.status /\ new.role = r.role
    BY <1>2 DEF Membership, WorkspaceRequest
  <1>4. /\ row \in Membership /\ row.status = member[r.target].status
        /\ member[r.target] = r.read => row = new
    BY <1>2, <1>3, UpdatedIsARow
  <1>5. ASSUME crossed = 0
        PROVE  \/ \E v \in Owners : v # r.target
               \/ row.role = member[r.target].role /\ row.status = "active"
    <2>1. Fresh(r)
      BY <1>5 DEF MemberInv, UncrossedInv
    <2>2. r.read = member[r.target] /\ row = new
      BY <1>1, <1>4, <2>1 DEF Fresh
    <2>3. CASE r.role # "owner" /\ r.read.role = "owner"
      BY <1>1, <2>1, <2>3 DEF Fresh
    <2>4. CASE r.role = "owner" /\ r.read.role = "owner"
      BY <1>2, <1>3, <2>2, <2>4
    <2>5. CASE r.read.role # "owner"
      <3>1. r.target \notin Owners /\ Owners # {}
        BY <1>5, <2>2, <2>5 DEF Owners, MemberInv, UncrossedInv
      <3> QED BY <3>1
    <2> QED BY <2>3, <2>4, <2>5
  <1> HIDE DEF row
  <1>6. row.status = "removed" \/ row.status = member[r.target].status
    BY <1>4
  <1> QED BY <1>1, <1>2, <1>4, <1>5, <1>6, WritesAlone

LEMMA RemoveStep ==
    ASSUME MemberInv, NEW q \in Requests, remove_workspace_member(q)
    PROVE  StepOK
  <1> DEFINE r == request[q]
             row == [member[r.target] EXCEPT !.status = "removed"]
  <1>1. /\ r.pc = "remove" /\ Commits(q) /\ UNCHANGED invitation
        /\ member' = [member EXCEPT ![r.target] = row]
    BY DEF remove_workspace_member
  <1>2. /\ r \in WorkspaceRequest /\ r.target \in Users /\ member[r.target] \in Membership
        /\ r.read \in Membership /\ r.as \in {"owner", "admin"} /\ (r.as = "admin" => r.read.role = "member")
    BY <1>1 DEF MemberInv, RowsInv, RequestsInv, Known
  <1>3. row \in Membership /\ row.status = "removed"
    BY <1>2 DEF Membership
  <1>4. crossed = 0 => Fresh(r)
    BY DEF MemberInv, UncrossedInv
  <1>5. crossed = 0 /\ r.as # "owner" => member[r.target].role # "owner"
    BY <1>1, <1>2, <1>4 DEF Fresh
  <1>6. crossed = 0 => \E v \in Owners : v # r.target
    <2> SUFFICES ASSUME crossed = 0
                 PROVE  \E v \in Owners : v # r.target
      OBVIOUS
    <2>1. CASE r.read.role = "owner"
      BY <1>1, <1>4, <2>1 DEF Fresh
    <2>2. CASE r.read.role # "owner"
      <3>1. r.target \notin Owners /\ Owners # {}
        BY <1>1, <1>4, <2>2 DEF Fresh, Owners, MemberInv, UncrossedInv
      <3> QED BY <3>1
    <2> QED BY <2>1, <2>2
  <1> HIDE DEF row
  <1> QED BY <1>1, <1>2, <1>3, <1>5, <1>6, WritesAlone

LEMMA AcceptStep ==
    ASSUME MemberInv, NEW q \in Requests, CommitAcceptance(q)
    PROVE  StepOK
  <1> DEFINE r == request[q]
             u == r.target
             i == r.id
             row == IF r.read = Nobody THEN Joined(r) ELSE Updated(member[u], r.read, Joined(r))
  <1>1. /\ r.pc = "accept" /\ Commits(q)
        /\ r.read = Nobody => member[u] = Nobody
        /\ invitation' = [invitation EXCEPT ![i].status = "accepted"]
    BY DEF CommitAcceptance
  <1>2. /\ r \in WorkspaceRequest /\ u \in Users /\ i \in InvitationIds /\ invitation[i] # Nobody
        /\ invitation[i].email = u /\ r.role \in {"admin", "member"}
        /\ r.read # Nobody => member[u] # Nobody
    BY <1>1 DEF MemberInv, RequestsInv, Known
  <1>3. member' = [member EXCEPT ![u] = row]
    BY <1>2 DEF CommitAcceptance, MemberInv, RowsInv
  <1>4. Joined(r) \in Membership /\ Joined(r).status = "active"
    BY <1>2 DEF Joined, Membership, Roles
  <1>5. row \in Membership
    <2>1. CASE r.read = Nobody
      BY <1>4, <2>1
    <2>2. CASE r.read # Nobody
      <3>1. member[u] \in Membership /\ r.read \in Membership
        BY <1>2, <2>2 DEF MemberInv, RowsInv, WorkspaceRequest
      <3> QED BY <1>4, <2>2, <3>1, UpdatedIsARow
    <2> QED BY <2>1, <2>2
  <1> HIDE DEF row
  <1>6. RowsInv
    BY DEF MemberInv
  <1>7. /\ invitation' \in [InvitationIds -> WorkspaceInvitation \cup {Nobody}]
        /\ \A j \in InvitationIds : /\ j # i => invitation'[j] = invitation[j]
                                    /\ invitation[j] # Nobody =>
                                          invitation'[j] # Nobody /\ invitation'[j].email = invitation[j].email
        /\ PendingIds' = PendingIds \ {i}
        /\ \A v \in Users : InvitationsTo(v, invitation') = InvitationsTo(v, invitation) \ {i}
    <2>1. "accepted" \in {"accepted", "revoked", "expired"}
      OBVIOUS
    <2> HIDE DEF i
    <2> QED BY <1>1, <1>2, <1>6, <2>1, OneSettles
  <1>8. /\ member' \in [Users -> Membership \cup {Nobody}]
        /\ \A v \in Users : member'[v] = IF v = u THEN row ELSE member[v]
        /\ \A v \in Users : member[v] # Nobody => member'[v] # Nobody
        /\ ActiveUsers' \subseteq ActiveUsers \cup {u}
        /\ Owners \ {u} \subseteq Owners' /\ Owners \ Owners' \subseteq {u}
    <2> HIDE DEF u
    <2> QED BY <1>2, <1>3, <1>5, <1>6, OneWritten
  <1>9. RowsInv' /\ RowsStay
    BY <1>1, <1>7, <1>8 DEF MemberInv, RowsInv, Commits, RowsStay
  <1>10. RequestsInv'
    BY <1>1, <1>9, CommitsKeepRequests DEF MemberInv
  <1>11. crossed = 0 => i \in PendingIds /\ ~Active(u)
    <2> SUFFICES ASSUME crossed = 0
                 PROVE  i \in PendingIds /\ ~Active(u)
      OBVIOUS
    <2>1. i \in PendingIds
      BY <1>1 DEF MemberInv, UncrossedInv, Fresh
    <2> QED BY <1>2, <2>1 DEF MemberInv, UncrossedInv
  <1>12. SeatsPaid'
    <2> DEFINE K == {k \in PendingIds : k \in GivenUp(r)}
    <2>1. K = PendingIds \cap {i} /\ Growing(q)
      BY <1>1 DEF GivenUp, Growing
    <2>2. PendingIds \ K = PendingIds'
      BY <1>7, <2>1
    <2>3. SeatsTaken' <= Beside(Cardinality(ActiveUsers)) + Cardinality(PendingIds \ K) + 1
      <3> DEFINE b == Beside(Cardinality(ActiveUsers))
                 c == Beside(Cardinality(ActiveUsers'))
                 n == Cardinality(PendingIds')
      <3>1. SeatsTaken' = c + n
        BY DEF SeatsTaken
      <3>2. b \in Nat /\ c \in Nat /\ n \in Nat /\ c <= b + 1
        BY <1>6, <1>8, Sizes, SizesAfter, BesideGrows
      <3> HIDE DEF b, c, n
      <3>3. c + n <= b + n + 1
        BY <3>2
      <3> QED BY <2>2, <3>1, <3>3 DEF b, n
    <2>4. \A k \in PendingIds' : k \in PendingIds \ K \/ invitation[k] = Nobody
      BY <2>2
    <2>5. PICK k : k = K
      OBVIOUS
    <2>6. k = {m \in PendingIds : m \in GivenUp(request[q])} /\ PendingIds \ k \subseteq PendingIds'
      BY <2>2, <2>5
    <2> HIDE DEF K
    <2> QED BY <1>1, <1>9, <2>1, <2>3, <2>4, <2>5, <2>6, SeatIsPaid
  <1>13. InvitationsPaid'
    BY <1>1, <1>7, InvitationsStayPaid
  <1>14. UncrossedInv'
    <2>1. Busy(r)
      BY <1>1 DEF Busy
    <2> SUFFICES ASSUME crossed = 0
                 PROVE  /\ \A j, k \in PendingIds' : invitation'[j].email = invitation'[k].email => j = k
                        /\ \A j \in PendingIds' : ~Active(invitation[j].email)'
                        /\ Owners' # {}
      BY <1>1, <2>1, CommitsKeepUncrossed DEF MemberInv
    <2>2. \A j \in PendingIds' : j \in PendingIds /\ j # i /\ invitation'[j] = invitation[j] /\ j \in InvitationIds
      <3>1. \A j \in PendingIds' : j \in PendingIds /\ j # i
        BY <1>7
      <3>2. \A j \in PendingIds : j \in InvitationIds
        BY DEF PendingIds
      <3> HIDE DEF i
      <3>3. \A j \in InvitationIds : j # i => invitation'[j] = invitation[j]
        BY <1>7
      <3> QED BY <3>1, <3>2, <3>3
    <2>3. \A j, k \in PendingIds' : invitation'[j].email = invitation'[k].email => j = k
      BY <2>2 DEF MemberInv, UncrossedInv
    <2>4. \A j \in PendingIds' : ~Active(invitation[j].email)'
      <3> SUFFICES ASSUME NEW j \in PendingIds'
                   PROVE  ~Active(invitation[j].email)'
        OBVIOUS
      <3>1. /\ ~Active(invitation[j].email) /\ invitation[j].email # u
        BY <1>2, <1>11, <2>2 DEF MemberInv, UncrossedInv
      <3>2. invitation[j].email \in Users
        BY <2>2, NobodyIsNoRow DEF MemberInv, RowsInv, PendingIds, WorkspaceInvitation
      <3>3. member'[invitation[j].email] = member[invitation[j].email]
        BY <1>8, <3>1, <3>2
      <3> QED BY <2>2, <3>1, <3>3 DEF Active
    <2>5. Owners' # {}
      <3>1. u \notin Owners /\ Owners # {}
        BY <1>11 DEF Owners, MemberInv, UncrossedInv
      <3> QED BY <1>8, <3>1
    <2> QED BY <2>3, <2>4, <2>5
  <1>15. OwnersYield
    <2> SUFFICES ASSUME crossed = 0, NEW v \in Owners, v \notin Owners'
                 PROVE  FALSE
      BY DEF OwnersYield, MemberInv, RowsInv
    <2> QED BY <1>8, <1>11 DEF Owners
  <1>16. SettledStay
    <2> HIDE DEF i
    <2>1. \A j \in InvitationIds : j # i => invitation'[j] = invitation[j]
      BY <1>7
    <2>2. crossed = 0 => i \in PendingIds
      BY <1>11
    <2> QED BY <2>1, <2>2 DEF SettledStay
  <1> QED BY <1>9, <1>10, <1>12, <1>13, <1>14, <1>15, <1>16 DEF StepOK, MemberInv

LEMMA InviteStep ==
    ASSUME MemberInv, NEW q \in Requests, create_workspace_invitation(q)
    PROVE  StepOK
  <1> DEFINE r == request[q]
             u == r.target
             K == r.pending
             row == [email |-> r.target, role |-> r.role, status |-> "pending", late |-> FALSE]
             Revoked(j) == [invitation[j] EXCEPT !.status = "revoked"]
  <1>1. /\ r.pc = "invite" /\ Commits(q) /\ UNCHANGED member
    BY DEF create_workspace_invitation
  <1>2. PICK n \in InvitationIds :
           /\ invitation[n] = Nobody
           /\ invitation' = [j \in InvitationIds |->
                 CASE j = n -> row [] j \in K -> Revoked(j) [] OTHER -> invitation[j]]
    BY DEF create_workspace_invitation
  <1>3. /\ r \in WorkspaceRequest /\ K \in SUBSET InvitationIds /\ u \in Users /\ r.role \in {"admin", "member"}
        /\ \A j \in K : invitation[j] # Nobody /\ invitation[j].email = u
    BY <1>1 DEF MemberInv, RequestsInv, Known, WorkspaceRequest
  <1>4. /\ row \in WorkspaceInvitation /\ row.email = u /\ row.status = "pending" /\ row # Nobody
    <2>1. row \in WorkspaceInvitation
      BY <1>3 DEF WorkspaceInvitation
    <2> QED BY <2>1, NobodyIsNoRow
  <1>5. \A j \in K : /\ Revoked(j) \in WorkspaceInvitation /\ Revoked(j) # Nobody
                     /\ Revoked(j).email = u /\ Revoked(j).status = "revoked"
    <2> SUFFICES ASSUME NEW j \in K
                 PROVE  /\ Revoked(j) \in WorkspaceInvitation /\ Revoked(j) # Nobody
                        /\ Revoked(j).email = u /\ Revoked(j).status = "revoked"
      OBVIOUS
    <2>1. invitation[j] \in WorkspaceInvitation /\ invitation[j].email = u
      BY <1>3 DEF MemberInv, RowsInv
    <2> QED BY <2>1, NobodyIsNoRow DEF WorkspaceInvitation
  <1>6. n \notin K
    BY <1>2, <1>3
  <1> HIDE DEF row, Revoked, u, K
  <1>7. /\ invitation'[n] = row
        /\ \A j \in K : invitation'[j] = Revoked(j)
        /\ \A j \in InvitationIds \ (K \cup {n}) : invitation'[j] = invitation[j]
    BY <1>2, <1>3, <1>6
  <1>8. invitation' \in [InvitationIds -> WorkspaceInvitation \cup {Nobody}]
    <2>1. \A j \in InvitationIds : invitation[j] \in WorkspaceInvitation \cup {Nobody}
      BY DEF MemberInv, RowsInv
    <2>2. \A j \in InvitationIds : invitation'[j] \in WorkspaceInvitation \cup {Nobody}
      BY <1>4, <1>5, <1>7, <2>1
    <2> QED BY <1>2, <2>2
  <1>9. \A j \in InvitationIds :
           invitation[j] # Nobody => invitation'[j] # Nobody /\ invitation'[j].email = invitation[j].email
    BY <1>2, <1>3, <1>5, <1>7
  <1>10. PendingIds' = (PendingIds \ K) \cup {n}
    BY <1>4, <1>5, <1>7 DEF PendingIds
  <1>11. InvitationsTo(u, invitation') = (InvitationsTo(u, invitation) \ K) \cup {n}
    BY <1>4, <1>5, <1>7 DEF InvitationsTo
  <1>12. \A v \in Users \ {u} : InvitationsTo(v, invitation') = InvitationsTo(v, invitation)
    BY <1>2, <1>3, <1>4, <1>5, <1>7 DEF InvitationsTo
  <1>13. RowsInv' /\ RowsStay /\ ActiveUsers' = ActiveUsers /\ Owners' = Owners
    BY <1>1, <1>8, <1>9 DEF MemberInv, RowsInv, Commits, RowsStay, ActiveUsers, Owners, Active
  <1>14. RequestsInv'
    BY <1>1, <1>13, CommitsKeepRequests DEF MemberInv
  <1>15. SeatsPaid'
    <2>1. PICK k : k = {m \in PendingIds : m \in GivenUp(request[q])}
      OBVIOUS
    <2>2. k = PendingIds \cap K /\ Growing(q)
      BY <1>1, <2>1 DEF GivenUp, Growing, K
    <2>3. PendingIds' = (PendingIds \ k) \cup {n} /\ n \notin PendingIds \ k
      BY <1>2, <1>10, <2>2 DEF PendingIds
    <2>4. Cardinality(PendingIds') = Cardinality(PendingIds \ k) + 1
      <3>1. IsFiniteSet(PendingIds \ k)
        BY Sizes, FS_Subset, PendingIds \ k \in SUBSET PendingIds DEF MemberInv
      <3> QED BY <2>3, <3>1, OneMore
    <2>5. SeatsTaken' <= Beside(Cardinality(ActiveUsers)) + Cardinality(PendingIds \ k) + 1
      <3> DEFINE b == Beside(Cardinality(ActiveUsers))
                 m == Cardinality(PendingIds \ k)
      <3>1. SeatsTaken' = b + (m + 1)
        BY <1>13, <2>4 DEF SeatsTaken
      <3>2. b \in Nat /\ m \in Nat
        <4>1. PendingIds \ k \in SUBSET PendingIds
          OBVIOUS
        <4> QED BY <4>1, Sizes, CardinalityOfSubset DEF MemberInv
      <3> HIDE DEF b, m
      <3>3. b + (m + 1) <= b + m + 1
        BY <3>2
      <3> QED BY <3>1, <3>3 DEF b, m
    <2>6. \A j \in PendingIds' : j \in PendingIds \ k \/ invitation[j] = Nobody
      BY <1>2, <2>3
    <2>7. PendingIds \ k \subseteq PendingIds'
      BY <2>3
    <2> QED BY <1>1, <1>13, <2>1, <2>2, <2>5, <2>6, <2>7, SeatIsPaid
  <1>16. InvitationsPaid'
    BY <1>1, <1>2, <1>10, <1>11, <1>12, InvitationIsPaid DEF u, K
  <1>17. crossed = 0 => ~Active(u) /\ K = InvitationsTo(u, invitation)
    BY <1>1 DEF MemberInv, UncrossedInv, Fresh, u, K
  <1>18. UncrossedInv'
    <2>1. Busy(r)
      BY <1>1 DEF Busy
    <2> SUFFICES ASSUME crossed = 0
                 PROVE  /\ \A i, j \in PendingIds' : invitation'[i].email = invitation'[j].email => i = j
                        /\ \A i \in PendingIds' : ~Active(invitation[i].email)'
                        /\ Owners' # {}
      BY <1>1, <2>1, CommitsKeepUncrossed DEF MemberInv
    <2>2. \A i \in PendingIds' : i # n =>
             /\ i \in PendingIds /\ invitation'[i] = invitation[i] /\ invitation[i].email # u
             /\ ~Active(invitation[i].email)
      <3> SUFFICES ASSUME NEW i \in PendingIds', i # n
                   PROVE  /\ i \in PendingIds /\ invitation'[i] = invitation[i] /\ invitation[i].email # u
                          /\ ~Active(invitation[i].email)
        OBVIOUS
      <3>1. i \in PendingIds /\ i \notin K /\ i \in InvitationIds
        BY <1>10 DEF PendingIds
      <3>2. invitation'[i] = invitation[i]
        BY <1>7, <3>1
      <3>3. invitation[i].email # u
        BY <1>17, <3>1 DEF InvitationsTo, PendingIds
      <3> QED BY <3>1, <3>2, <3>3 DEF MemberInv, UncrossedInv
    <2>3. invitation'[n].email = u
      BY <1>4, <1>7
    <2>4. \A i, j \in PendingIds' : invitation'[i].email = invitation'[j].email => i = j
      BY <2>2, <2>3 DEF MemberInv, UncrossedInv
    <2>5. \A i \in PendingIds' : ~Active(invitation[i].email)'
      BY <1>1, <1>17, <2>2, <2>3 DEF Active
    <2> QED BY <1>13, <2>4, <2>5 DEF MemberInv, UncrossedInv
  <1>19. OwnersYield
    BY <1>13 DEF OwnersYield
  <1>20. SettledStay
    <2>1. crossed = 0 => K \in SUBSET PendingIds
      BY <1>17 DEF InvitationsTo, PendingIds
    <2> QED BY <1>2, <1>7, <2>1 DEF SettledStay
  <1> QED BY <1>13, <1>14, <1>15, <1>16, <1>18, <1>19, <1>20 DEF StepOK, MemberInv
-----------------------------------------------------------------------------
(* The steps that commit nothing.                                            *)

\* A request comes in, is refused, or dies.
LEMMA LeavesRows ==
    ASSUME MemberInv, NEW q \in Requests, NEW r \in WorkspaceRequest, ~Busy(r),
           request' = [request EXCEPT ![q] = r], UNCHANGED <<member, invitation, crossed>>
    PROVE  StepOK
  <1>1. request \in [Requests -> WorkspaceRequest] /\ \A p \in Requests : Known(request[p], member, invitation)
    BY DEF MemberInv, RequestsInv
  <1>2. /\ SeatsTaken' = SeatsTaken /\ PendingIds' = PendingIds /\ Owners' = Owners
        /\ \A u : InvitationsTo(u, invitation') = InvitationsTo(u, invitation)
    BY DEF SeatsTaken, Beside, ActiveUsers, Active, PendingIds, Owners
  <1>3. \A p \in Requests : Busy(request'[p]) => p # q /\ Busy(request[p]) /\ request'[p] = request[p]
    BY <1>1
  <1>4. RowsInv'
    BY DEF MemberInv, RowsInv
  <1>5. RequestsInv'
    <2>1. Known(r, member, invitation)
      BY DEF Busy, Known
    <2> QED BY <1>1, <2>1 DEF RequestsInv
  <1>6. UncrossedInv'
    <2> SUFFICES ASSUME crossed = 0
                 PROVE  \A p \in Requests : Fresh(request[p])'
      BY <1>1, <1>2, <1>3 DEF MemberInv, UncrossedInv, Active
    <2> TAKE p \in Requests
    <2>1. CASE Busy(request'[p])
      BY <1>1, <1>2, <1>3, <2>1 DEF MemberInv, UncrossedInv, Fresh, Active
    <2>2. CASE ~Busy(request'[p])
      BY <2>2 DEF Busy, Fresh
    <2> QED BY <2>1, <2>2
  <1>7. ASSUME NEW G \in SUBSET Requests, \A p \in G : Growing(p)'
        PROVE  (\A p \in G : Growing(p) /\ request'[p] = request[p]) /\ Credit(G)' = Credit(G)
    <2>1. \A p \in G : Growing(p) /\ request'[p] = request[p]
      BY <1>3, <1>7 DEF Growing, Busy
    <2> QED BY <1>2, <2>1 DEF Credit, GivenUp
  <1>8. SeatsPaid'
    <2> SUFFICES ASSUME NEW G \in SUBSET Requests, IsFiniteSet(G), \A p \in G : Growing(p)'
                 PROVE  SeatsTaken' + Cardinality(G) <= TeamLimit + crossed' + Cardinality(Credit(G)')
      BY DEF SeatsPaid
    <2> QED BY <1>2, <1>7 DEF MemberInv, SeatsPaid
  <1>9. InvitationsPaid'
    <2> SUFFICES ASSUME NEW u \in Users, NEW G \in SUBSET Requests, IsFiniteSet(G), \A p \in G : Inviting(p, u)'
                 PROVE  Cardinality(InvitationsTo(u, invitation')) + Cardinality(G)
                            <= 1 + crossed' + Cardinality(Credit(G)')
      BY DEF InvitationsPaid
    <2>1. (\A p \in G : Inviting(p, u)) /\ Credit(G)' = Credit(G)
      BY <1>7 DEF Inviting, Growing
    <2> QED BY <1>2, <2>1 DEF MemberInv, InvitationsPaid
  <1>10. OwnersYield /\ SettledStay
    BY <1>2 DEF OwnersYield, SettledStay
  <1> QED BY <1>4, <1>5, <1>6, <1>8, <1>9, <1>10 DEF StepOK, MemberInv

LEMMA LapseStep ==
    ASSUME MemberInv, NEW i \in InvitationIds, InvitationLapses(i)
    PROVE  StepOK
  <1> DEFINE row == [invitation[i] EXCEPT !.late = TRUE]
  <1>1. /\ i \in PendingIds /\ invitation' = [invitation EXCEPT ![i] = row]
        /\ UNCHANGED <<member, request, crossed>>
    BY DEF InvitationLapses
  <1>2. invitation[i] \in WorkspaceInvitation /\ invitation \in [InvitationIds -> WorkspaceInvitation \cup {Nobody}]
    BY <1>1 DEF MemberInv, RowsInv, PendingIds
  <1>3. /\ row \in WorkspaceInvitation /\ row # Nobody
        /\ row.email = invitation[i].email /\ row.status = invitation[i].status
    BY <1>2, NobodyIsNoRow DEF WorkspaceInvitation
  <1> HIDE DEF row
  <1>4. \A j \in InvitationIds : invitation'[j] = IF j = i THEN row ELSE invitation[j]
    BY <1>1, <1>2
  <1>5. \A j \in InvitationIds :
           /\ invitation'[j] # Nobody <=> invitation[j] # Nobody
           /\ invitation[j] # Nobody =>
                 invitation'[j].email = invitation[j].email /\ invitation'[j].status = invitation[j].status
    BY <1>1, <1>3, <1>4 DEF PendingIds
  <1>6. /\ PendingIds' = PendingIds
        /\ \A u \in Users : InvitationsTo(u, invitation') = InvitationsTo(u, invitation)
    BY <1>5 DEF PendingIds, InvitationsTo
  <1>7. /\ SeatsTaken' = SeatsTaken /\ Owners' = Owners /\ RowsStay
        /\ \A u : Active(u)' <=> Active(u)
    BY <1>1, <1>5, <1>6 DEF SeatsTaken, Beside, ActiveUsers, Active, Owners, RowsStay
  <1>8. RowsInv'
    BY <1>1, <1>2, <1>3 DEF MemberInv, RowsInv
  <1>9. RequestsInv'
    <2>1. \A p \in Requests : request[p] \in WorkspaceRequest /\ Known(request[p], member, invitation)
      BY DEF MemberInv, RequestsInv
    <2>2. \A p \in Requests : Known(request[p], member', invitation')
      BY <1>7, <2>1, KnownStays
    <2> QED BY <1>1, <2>2 DEF MemberInv, RequestsInv
  <1>10. UncrossedInv'
    <2> SUFFICES ASSUME crossed = 0
                 PROVE  UncrossedInv'
      BY <1>1 DEF UncrossedInv
    <2>1. \A p \in Requests : Fresh(request[p])'
      <3> SUFFICES ASSUME NEW p \in Requests
                   PROVE  Fresh(request[p])'
        OBVIOUS
      <3>1. Fresh(request[p]) /\ Known(request[p], member, invitation)
        BY DEF MemberInv, UncrossedInv, RequestsInv
      <3> QED BY <1>1, <1>6, <1>7, <3>1 DEF Fresh, Known
    <2>2. \A j, k \in PendingIds' : invitation'[j].email = invitation'[k].email => j = k
      <3>1. \A j \in PendingIds' : j \in PendingIds /\ invitation'[j].email = invitation[j].email
        BY <1>5, <1>6 DEF PendingIds
      <3> QED BY <3>1 DEF MemberInv, UncrossedInv
    <2>3. \A j \in PendingIds' : ~Active(invitation[j].email)'
      <3> SUFFICES ASSUME NEW j \in PendingIds
                   PROVE  ~Active(invitation[j].email)'
        BY <1>6
      <3>1. invitation'[j].email = invitation[j].email /\ ~Active(invitation[j].email)
        BY <1>5 DEF PendingIds, MemberInv, UncrossedInv
      <3> QED BY <1>1, <3>1 DEF Active
    <2> QED BY <1>1, <1>7, <2>1, <2>2, <2>3 DEF MemberInv, UncrossedInv
  <1>11. \A G : Credit(G)' = Credit(G)
    BY <1>1, <1>6 DEF Credit, GivenUp
  <1>12. SeatsPaid'
    BY <1>1, <1>7, <1>11 DEF MemberInv, SeatsPaid, Growing
  <1>13. InvitationsPaid'
    BY <1>1, <1>6, <1>11 DEF MemberInv, InvitationsPaid, Inviting
  <1>14. OwnersYield /\ SettledStay
    BY <1>1, <1>4, <1>7 DEF OwnersYield, SettledStay
  <1> QED BY <1>8, <1>9, <1>10, <1>12, <1>13, <1>14 DEF StepOK, MemberInv
-----------------------------------------------------------------------------
(* The handlers' reads.                                                      *)

LEMMA ReadsAreOK ==
    ASSUME MemberInv, NEW q \in Requests, NEW r \in WorkspaceRequest, ~Busy(request[q]), Busy(r),
           Reads(q, r), Known(r, member, invitation), Fresh(r), WithinQuota(r)
    PROVE  StepOK
  <1>1. MemberInv'
    BY ReadsKeep
  <1>2. UNCHANGED <<member, invitation>>
    BY DEF Reads
  <1>3. OwnersYield /\ SettledStay
    BY <1>2 DEF OwnersYield, SettledStay, Owners, Active
  <1> QED BY <1>1, <1>3 DEF StepOK

LEMMA InviteRead ==
    ASSUME MemberInv, NEW q \in Requests, NEW u \in Users, NEW role \in {"admin", "member"},
           invite_member(q, u, role)
    PROVE  StepOK
  <1> DEFINE K == {i \in PendingIds : invitation[i].email = u}
             r == [Idle EXCEPT !.pc = "invite", !.target = u, !.role = role, !.pending = K]
  <1>1. ~Busy(request[q]) /\ Seats(u) + 1 <= TeamLimit /\ ~Active(u) /\ Reads(q, r)
    BY DEF invite_member, require_workspace_role, Busy, Invitable
  <1>2. K = InvitationsTo(u, invitation) /\ K \in SUBSET PendingIds /\ K \in SUBSET InvitationIds
    BY DEF InvitationsTo, PendingIds
  <1>3. r.pc = "invite" /\ r.target = u /\ r.role = role /\ r.pending = K
    BY IdleIsARequest DEF WorkspaceRequest
  <1>4. r \in WorkspaceRequest
    <2> HIDE DEF K
    <2> QED BY <1>2, IdleIsARequest DEF WorkspaceRequest, RequestPCs, Roles
  <1>5. /\ IsFiniteSet(PendingIds) /\ crossed \in Nat /\ TeamLimit \in Nat
        /\ Beside(Cardinality(ActiveUsers)) \in Nat
    BY Sizes DEF MemberInv
  <1>6. /\ Cardinality(PendingIds) = Cardinality(PendingIds \ K) + Cardinality(K)
        /\ Cardinality(PendingIds \ K) \in Nat /\ Cardinality(K) \in Nat
    BY <1>2, <1>5, CardinalityOfRest
  <1>7. Seats(u) = Beside(Cardinality(ActiveUsers)) + Cardinality(PendingIds \ K)
    <2>1. {i \in PendingIds : invitation[i].email # u} = PendingIds \ K
      OBVIOUS
    <2> QED BY <2>1 DEF Seats, Beside, ActiveUsers
  <1>8. SeatsTaken + 1 <= TeamLimit + crossed + Cardinality(K)
    <2>1. SeatsTaken = Beside(Cardinality(ActiveUsers)) + Cardinality(PendingIds)
      BY DEF SeatsTaken
    <2> QED BY <1>1, <1>5, <1>6, <1>7, <2>1
  <1>9. {i \in PendingIds : i \in GivenUp(r)} = K
    BY <1>2, <1>3 DEF GivenUp
  <1>10. Known(r, member, invitation) /\ Fresh(r) /\ Busy(r)
    <2>1. \A i \in K : invitation[i] # Nobody /\ invitation[i].email = u
      BY DEF PendingIds
    <2> HIDE DEF r, K
    <2> QED BY <1>1, <1>2, <1>3, <2>1 DEF Known, Fresh, Busy
  <1> HIDE DEF r, K
  <1>11. WithinQuota(r)
    BY <1>2, <1>3, <1>5, <1>6, <1>8, <1>9 DEF WithinQuota
  <1> QED BY <1>1, <1>4, <1>10, <1>11, ReadsAreOK

LEMMA RevokeRead ==
    ASSUME MemberInv, NEW q \in Requests, NEW i \in InvitationIds, revoke_workspace_invitation(q, i)
    PROVE  StepOK
  <1> DEFINE r == [Idle EXCEPT !.pc = "revoke", !.id = i]
  <1>1. ~Busy(request[q]) /\ i \in PendingIds /\ invitation[i] # Nobody /\ Reads(q, r)
    BY DEF revoke_workspace_invitation, require_workspace_role, Busy, PendingIds
  <1>2. r.pc = "revoke" /\ r.id = i
    BY IdleIsARequest DEF WorkspaceRequest
  <1>3. r \in WorkspaceRequest
    <2>1. i \in 0..MaxInvitations
      BY WorkspaceConstants DEF InvitationIds
    <2> QED BY <2>1, IdleIsARequest DEF WorkspaceRequest, RequestPCs
  <1> HIDE DEF r
  <1>4. Known(r, member, invitation) /\ Fresh(r) /\ Busy(r) /\ WithinQuota(r)
    BY <1>1, <1>2 DEF Known, Fresh, Busy, WithinQuota
  <1> QED BY <1>1, <1>3, <1>4, ReadsAreOK

LEMMA AcceptRead ==
    ASSUME MemberInv, NEW q \in Requests, NEW i \in InvitationIds, accept_workspace_invitation(q, i)
    PROVE  StepOK
  <1> DEFINE u == invitation[i].email
             pc == IF invitation[i].late THEN "lapse" ELSE "accept"
             r == [Idle EXCEPT !.pc = pc, !.target = u, !.id = i, !.role = invitation[i].role, !.read = member[u]]
  <1>1. ~Busy(request[q]) /\ i \in PendingIds /\ invitation[i] # Nobody /\ Reads(q, r)
    BY DEF accept_workspace_invitation, Busy, PendingIds
  <1>2. u \in Users /\ invitation[i].role \in {"admin", "member"} /\ member[u] \in Membership \cup {Nobody}
    BY <1>1 DEF MemberInv, RowsInv, WorkspaceInvitation
  <1>3. pc \in {"lapse", "accept"}
    OBVIOUS
  <1>4. r.pc = pc /\ r.id = i /\ r.target = u /\ r.role = invitation[i].role /\ r.read = member[u]
    <2> HIDE DEF pc, u
    <2> QED BY IdleIsARequest DEF WorkspaceRequest
  <1>5. r \in WorkspaceRequest
    <2>1. i \in 0..MaxInvitations /\ pc \in RequestPCs /\ invitation[i].role \in Roles
      BY <1>2, WorkspaceConstants DEF InvitationIds, RequestPCs, Roles
    <2> HIDE DEF pc, u
    <2> QED BY <1>2, <2>1, IdleIsARequest DEF WorkspaceRequest
  <1> HIDE DEF r, pc
  <1>6. Known(r, member, invitation) /\ Fresh(r) /\ Busy(r)
    BY <1>1, <1>2, <1>3, <1>4 DEF Known, Fresh, Busy
  <1>7. WithinQuota(r)
    <2> SUFFICES ASSUME r.pc = "accept"
                 PROVE  SeatsTaken + 1 <= TeamLimit + crossed + Cardinality({j \in PendingIds : j \in GivenUp(r)})
      BY <1>3, <1>4 DEF WithinQuota
    <2>1. {j \in PendingIds : j \in GivenUp(r)} = {i} /\ Cardinality({i}) = 1
      BY <1>1, <1>4, FS_Singleton DEF GivenUp
    <2>2. SeatsTaken + Cardinality({}) <= TeamLimit + crossed + Cardinality(Credit({}))
      BY FS_EmptySet DEF MemberInv, SeatsPaid
    <2>3. Credit({}) = {} /\ Cardinality({}) = 0
      BY FS_EmptySet DEF Credit
    <2>4. SeatsTaken \in Nat /\ TeamLimit \in Nat /\ crossed \in Nat
      BY Sizes DEF MemberInv, SeatsTaken
    <2> QED BY <2>1, <2>2, <2>3, <2>4
  <1> QED BY <1>1, <1>5, <1>6, <1>7, ReadsAreOK

\* _active_owner_count
LEMMA AnotherOwner ==
    ASSUME NEW u, _active_owner_count > 1
    PROVE  \E v \in Owners : v # u
  <1> SUFFICES ASSUME \A v \in Owners : v = u
               PROVE  FALSE
    OBVIOUS
  <1>1. Owners \in SUBSET {u} /\ IsFiniteSet({u}) /\ Cardinality({u}) = 1
    BY FS_Singleton
  <1>2. Cardinality(Owners) <= 1 /\ Cardinality(Owners) \in Nat
    BY <1>1, CardinalityOfSubset
  <1> QED BY <1>2 DEF _active_owner_count

LEMMA ChangeRead ==
    ASSUME MemberInv, NEW q \in Requests, NEW u \in Users, NEW role \in Roles, change_member_role(q, u, role)
    PROVE  StepOK
  <1> DEFINE r == [request[q] EXCEPT !.pc = "change", !.target = u, !.role = role, !.read = member[u]]
  <1>1. /\ ~Busy(request[q]) /\ request[q].as = "owner" /\ Reads(q, r) /\ Active(u)
        /\ member[u].role = "owner" /\ role # "owner" => _active_owner_count > 1
    BY DEF change_member_role, require_workspace_role, Busy
  <1>2. request[q] \in WorkspaceRequest /\ member[u] \in Membership
    BY <1>1 DEF MemberInv, RequestsInv, RowsInv, Active
  <1>3. r.pc = "change" /\ r.target = u /\ r.role = role /\ r.read = member[u] /\ r.as = "owner"
    BY <1>1, <1>2 DEF WorkspaceRequest
  <1>4. r \in WorkspaceRequest
    BY <1>2 DEF WorkspaceRequest, RequestPCs
  <1>5. member[u].role = "owner" /\ role # "owner" => \E v \in Owners : v # u
    BY <1>1, AnotherOwner
  <1> HIDE DEF r
  <1>6. Known(r, member, invitation) /\ Fresh(r) /\ Busy(r) /\ WithinQuota(r)
    BY <1>1, <1>2, <1>3, <1>5 DEF Known, Fresh, Busy, WithinQuota, Active
  <1> QED BY <1>1, <1>4, <1>6, ReadsAreOK

LEMMA RemoveRead ==
    ASSUME MemberInv, NEW q \in Requests, NEW u \in Users, remove_member(q, u)
    PROVE  StepOK
  <1> DEFINE r == [request[q] EXCEPT !.pc = "remove", !.target = u, !.read = member[u]]
  <1>1. /\ ~Busy(request[q]) /\ request[q].as \in {"owner", "admin"} /\ Reads(q, r) /\ Active(u)
        /\ request[q].as = "admin" => member[u].role = "member"
        /\ member[u].role = "owner" => _active_owner_count > 1
    BY DEF remove_member, require_workspace_role, MayRemove, Busy
  <1>2. request[q] \in WorkspaceRequest /\ member[u] \in Membership
    BY <1>1 DEF MemberInv, RequestsInv, RowsInv, Active
  <1>3. r.pc = "remove" /\ r.target = u /\ r.read = member[u] /\ r.as = request[q].as
    BY <1>1, <1>2 DEF WorkspaceRequest
  <1>4. r \in WorkspaceRequest
    BY <1>2 DEF WorkspaceRequest, RequestPCs
  <1>5. member[u].role = "owner" => \E v \in Owners : v # u
    BY <1>1, AnotherOwner
  <1> HIDE DEF r
  <1>6. Known(r, member, invitation) /\ Fresh(r) /\ Busy(r) /\ WithinQuota(r)
    BY <1>1, <1>2, <1>3, <1>5 DEF Known, Fresh, Busy, WithinQuota, Active
  <1> QED BY <1>1, <1>4, <1>6, ReadsAreOK
-----------------------------------------------------------------------------
(* The theorems.                                                             *)

\* The state of Workspaces satisfies MemberInv whatever requests are served.
LEMMA MemberStep ==
    ASSUME MemberInv, [WorkspaceNext]_workspaceVars
    PROVE  StepOK
  <1>1. CASE UNCHANGED workspaceVars
    <2> USE <1>1 DEF workspaceVars
    <2>1. MemberInv'
      <3>1. RowsInv' /\ RequestsInv'
        BY DEF MemberInv, RowsInv, RequestsInv
      <3>2. PendingIds' = PendingIds /\ ActiveUsers' = ActiveUsers /\ Owners' = Owners /\ \A G : Credit(G)' = Credit(G)
        BY DEF PendingIds, ActiveUsers, Owners, Active, Credit, GivenUp
      <3>3. UncrossedInv'
        BY <3>2 DEF MemberInv, UncrossedInv, Fresh, Active
      <3>4. SeatsPaid' /\ InvitationsPaid'
        BY <3>2 DEF MemberInv, SeatsPaid, InvitationsPaid, SeatsTaken, Growing, Inviting
      <3> QED BY <3>1, <3>3, <3>4 DEF MemberInv
    <2> QED BY <2>1 DEF StepOK, OwnersYield, SettledStay, Owners, Active
  <1>2. ASSUME NEW q \in Requests, NEW u \in Users, get_current_workspace(q, u)
        PROVE  StepOK
    <2> DEFINE r == [Idle EXCEPT !.pc = "authorised", !.as = member[u].role]
    <2>1. request' = [request EXCEPT ![q] = r] /\ UNCHANGED <<member, invitation, crossed>> /\ member[u] \in Membership
      BY <1>2 DEF get_current_workspace, Active, MemberInv, RowsInv
    <2>2. r \in WorkspaceRequest /\ ~Busy(r)
      BY <2>1, IdleIsARequest DEF WorkspaceRequest, RequestPCs, Busy, Membership, Idle
    <2> HIDE DEF r
    <2> QED BY <2>1, <2>2, LeavesRows
  <1>3. ASSUME NEW q \in Requests, RequestEnds(q)
        PROVE  StepOK
    BY <1>3, IdleIsARequest, LeavesRows DEF RequestEnds
  <1>4. ASSUME NEW q \in Requests, CommitRevocation(q) \/ CommitLapse(q)
        PROVE  StepOK
    <2>1. CASE CommitRevocation(q)
      BY <2>1, SettlesAlone DEF CommitRevocation
    <2>2. CASE CommitLapse(q)
      BY <2>2, SettlesAlone DEF CommitLapse
    <2> QED BY <1>4, <2>1, <2>2
  <1>5. CASE WorkspaceNext
    BY <1>2, <1>3, <1>4, <1>5, LapseStep, InviteRead, RevokeRead, AcceptRead, ChangeRead, RemoveRead,
       InviteStep, AcceptStep, ChangeStep, RemoveStep DEF WorkspaceNext
  <1> QED BY <1>1, <1>5

LEMMA MemberInit ==
    WorkspaceInit => MemberInv
  <1> SUFFICES ASSUME WorkspaceInit
               PROVE  MemberInv
    OBVIOUS
  <1>1. PICK u \in Users :
           member = [v \in Users |-> IF v = u THEN [role |-> "owner", status |-> "active"] ELSE Nobody]
    BY DEF WorkspaceInit
  <1> DEFINE row == [role |-> "owner", status |-> "active"]
  <1>2. row \in Membership /\ row # Nobody /\ row.role = "owner" /\ row.status = "active"
    <2>1. row \in Membership
      BY DEF Membership, Roles
    <2> QED BY <2>1, NobodyIsNoRow
  <1>3. member = [v \in Users |-> IF v = u THEN row ELSE Nobody]
    BY <1>1
  <1> HIDE DEF row
  <1>4. ActiveUsers = {u} /\ Owners = {u} /\ PendingIds = {}
    BY <1>2, <1>3 DEF ActiveUsers, Owners, Active, PendingIds, WorkspaceInit
  <1>5. RowsInv
    BY <1>2, <1>3, WorkspaceConstants DEF WorkspaceInit, RowsInv
  <1>6. \A q \in Requests : request[q] = Idle
    BY DEF WorkspaceInit
  <1>7. RequestsInv
    BY <1>6, IdleIsARequest DEF WorkspaceInit, RequestsInv
  <1>8. UncrossedInv
    <2>1. \A q \in Requests : ~Busy(request[q]) /\ Fresh(request[q])
      BY <1>6, IdleIsARequest, NotBusyIsFresh
    <2> QED BY <1>4, <2>1 DEF UncrossedInv
  <1>9. \A q \in Requests : ~Growing(q)
    BY <1>6 DEF Growing, Idle
  <1>10. SeatsTaken = 0 /\ \A v \in Users : InvitationsTo(v, invitation) = {}
    <2>1. Cardinality({u}) = 1 /\ Cardinality({}) = 0
      BY FS_Singleton, FS_EmptySet
    <2>2. SeatsTaken = 0
      BY <1>4, <2>1 DEF SeatsTaken, Beside
    <2>3. \A v \in Users : InvitationsTo(v, invitation) = {}
      BY <1>4 DEF InvitationsTo, PendingIds
    <2> QED BY <2>2, <2>3
  <1>11. ASSUME NEW G \in SUBSET Requests, \A q \in G : Growing(q)
         PROVE  Cardinality(G) = 0 /\ Cardinality(Credit(G)) \in Nat
    <2>1. G = {} /\ Credit(G) = {}
      BY <1>4, <1>9, <1>11 DEF Credit
    <2> QED BY <2>1, FS_EmptySet
  <1>12. crossed = 0 /\ TeamLimit \in Nat /\ Cardinality({}) = 0
    BY WorkspaceConstants, FS_EmptySet DEF WorkspaceInit
  <1>13. SeatsPaid
    BY <1>10, <1>11, <1>12 DEF SeatsPaid
  <1>14. InvitationsPaid
    <2>1. \A q : \A v : Inviting(q, v) => Growing(q)
      BY DEF Inviting, Growing
    <2> QED BY <1>10, <1>11, <1>12, <2>1 DEF InvitationsPaid
  <1> QED BY <1>5, <1>7, <1>8, <1>13, <1>14 DEF MemberInv

LEMMA MemberInvImplies ==
    MemberInv => AnOwnerRemains /\ WorkspaceTypeOK /\ SeatsWithinQuota /\ NoInvitationForMembers /\ OneInvitationPerAddress
  <1> SUFFICES ASSUME MemberInv
               PROVE  AnOwnerRemains /\ WorkspaceTypeOK /\ SeatsWithinQuota /\ NoInvitationForMembers
                      /\ OneInvitationPerAddress
    OBVIOUS
  <1>1. AnOwnerRemains /\ NoInvitationForMembers
    BY DEF MemberInv, UncrossedInv, AnOwnerRemains, NoInvitationForMembers
  <1>2. WorkspaceTypeOK
    BY DEF MemberInv, RowsInv, RequestsInv, WorkspaceTypeOK, WorkspaceRequest, RequestPCs
  <1>3. Credit({}) = {} /\ IsFiniteSet({}) /\ Cardinality({}) = 0 /\ {} \in SUBSET Requests
    BY FS_EmptySet DEF Credit
  <1>4. SeatsTaken \in Nat /\ TeamLimit \in Nat /\ crossed \in Nat
        /\ \A u \in Users : Cardinality(InvitationsTo(u, invitation)) \in Nat
    BY Sizes DEF MemberInv, SeatsTaken
  <1>5. SeatsWithinQuota
    <2>1. SeatsTaken + Cardinality({}) <= TeamLimit + crossed + Cardinality(Credit({}))
      BY <1>3 DEF MemberInv, SeatsPaid
    <2>2. SeatsTaken <= TeamLimit + crossed
      BY <1>3, <1>4, <2>1
    <2> QED BY <2>2 DEF SeatsWithinQuota, SeatsTaken, Beside, ActiveUsers
  <1>6. OneInvitationPerAddress
    <2> SUFFICES ASSUME NEW u \in Users
                 PROVE  Cardinality({i \in PendingIds : invitation[i].email = u}) <= 1 + crossed
      BY DEF OneInvitationPerAddress
    <2>1. {i \in PendingIds : invitation[i].email = u} = InvitationsTo(u, invitation)
      BY DEF InvitationsTo, PendingIds
    <2>2. Cardinality(InvitationsTo(u, invitation)) + Cardinality({}) <= 1 + crossed + Cardinality(Credit({}))
      BY <1>3 DEF MemberInv, InvitationsPaid
    <2>3. Cardinality(InvitationsTo(u, invitation)) <= 1 + crossed
      BY <1>3, <1>4, <2>2
    <2> QED BY <2>1, <2>3
  <1> QED BY <1>1, <1>2, <1>5, <1>6

\* MemberInv is an invariant of the workspace.
THEOREM MembersInvariance ==
    WorkspaceSpec => []MemberInv
  <1>1. MemberInv /\ [WorkspaceNext]_workspaceVars => MemberInv'
    BY MemberStep DEF StepOK
  <1> QED BY MemberInit, <1>1, PTL DEF WorkspaceSpec

\* A workspace keeps an active owner (AnOwnerRemains): change_member_role and
\* remove_member count the owners before they take one, and an acceptance finds
\* no member; for any number of people and requests that do not cross.
THEOREM AWorkspaceKeepsAnOwner ==
    WorkspaceSpec => []AnOwnerRemains
  BY MembersInvariance, MemberInvImplies, PTL

\* MembershipSafety: seats keep to the quota and addresses to one invitation,
\* with one more for every request that reads before another commits; members
\* have no invitation to accept, owners yield to owners, and an invitation
\* that was settled stays so.
THEOREM MembershipIsSafe ==
    WorkspaceSpec => MembershipSafety
  <1>1. MemberInv /\ [WorkspaceNext]_workspaceVars => [OwnersYield]_workspaceVars /\ [SettledStay]_workspaceVars
    BY MemberStep DEF StepOK
  <1>2. WorkspaceSpec => []WorkspaceTypeOK /\ []SeatsWithinQuota /\ []NoInvitationForMembers
                         /\ []OneInvitationPerAddress
    BY MembersInvariance, MemberInvImplies, PTL
  <1>3. WorkspaceSpec => [][OwnersYield]_workspaceVars /\ [][SettledStay]_workspaceVars
    BY MembersInvariance, <1>1, PTL DEF WorkspaceSpec
  <1>4. WorkspaceSpec => OwnersYieldToOwners
    BY <1>3 DEF OwnersYieldToOwners, OwnersYield
  <1>5. WorkspaceSpec => SettledInvitationsStay
    BY <1>3 DEF SettledInvitationsStay, SettledStay
  <1> QED BY <1>2, <1>4, <1>5, PTL DEF MembershipSafety
-----------------------------------------------------------------------------
\* Accounts.

AccountSpec == AccountInit /\ [][AccountNext]_accountVars

BrowserPCs == {"idle", "register", "create", "link", "intend", "confirm", "lapse"}
BrowserState ==
    [pc : BrowserPCs, email : Emails \cup {Absent}, at : Identities \cup {Absent},
     id : 0..MaxIntents, insert : BOOLEAN, previous : SUBSET IntentIds]

\* What a request has read of rows that are never deleted, whatever was
\* committed since: accounts stay, and stay verified, intents stay.
Formed(r) ==
    /\ r \in BrowserState
    /\ r.pc # "idle" => r.email \in Emails
    /\ r.pc \in {"create", "link", "intend", "confirm"} => r.at \in Identities
    /\ r.pc \in {"link", "intend", "confirm"} => account[r.email] # Absent
    /\ r.pc = "link" => account[r.email].verified
    /\ r.pc \in {"confirm", "lapse"} => r.id \in IntentIds /\ intent[r.id] # Absent
    /\ \A j \in r.previous : intent[j] # Absent

BrowsersFormed ==
    /\ browser \in [Browsers -> BrowserState]
    /\ \A b \in Browsers : Formed(browser[b])

\* Nothing is linked, and no link intended, to an account that is not there.
UsersExist ==
    /\ \A l \in linked : account[l.user] # Absent
    /\ \A i \in IntentIds : intent[i] # Absent => account[intent[i].user] # Absent

\* The address of an account that has a password is verified by a confirmation.
VerifiedByPassword ==
    \A e \in Emails : account[e] # Absent /\ account[e].password /\ account[e].verified =>
        \E k \in proven : k.user = e

\* The accounts and their links.
LinkInv ==
    AccountTypeOK /\ workspaces \in [Emails -> Nat] /\ BrowsersFormed /\ UsersExist /\ VerifiedByPassword
    /\ LinksAreOneToOne /\ PasswordComesFirst /\ AccountsAreWhole

BusyBrowsers == {b \in Browsers : browser[b].pc # "idle"}
Confirming(i) == {b \in Browsers : browser[b].pc = "confirm" /\ browser[b].id = i}

\* The intents that were opened since a request read the open ones.
Missed(r) == OpenIntents(r.email, ProviderOf[r.at]) \ r.previous

\* The intents a request has missed, and those that the requests at work, itself
\* included, can still add, are no more than the races allow.
MissedFew ==
    \A b \in Browsers : browser[b].pc = "intend" =>
        Cardinality(Missed(browser[b])) + Cardinality(BusyBrowsers) <= 1 + races

\* Only a consumed intent was confirmed, and those that read it before it was
\* consumed can confirm it again.
ConfirmedFew ==
    /\ used \in [IntentIds -> Nat]
    /\ \A i \in IntentIds :
          /\ used[i] # 0 => intent[i] # Absent /\ intent[i].consumed
          /\ used[i] + Cardinality(Confirming(i)) <= 1 + races

BusyFew == IsFiniteSet(BusyBrowsers) /\ Cardinality(BusyBrowsers) <= 1 + races

\* The intents and the requests at work on them.
IntentInv == BusyFew /\ MissedFew /\ ConfirmedFew /\ IntentsReplaceEachOther

AccountIInv == LinkInv /\ IntentInv
-----------------------------------------------------------------------------
\* Steps, as the proofs see them.

\* Accounts and intents stay, and so does what was verified.
RowsKept ==
    /\ \A e \in Emails : account[e] # Absent =>
          account'[e] # Absent /\ (account[e].verified => account'[e].verified)
    /\ \A i \in IntentIds : intent[i] # Absent => intent'[i] # Absent

LEMMA RestIsFormed ==
    ASSUME AccountConstants
    PROVE  AtRest \in BrowserState /\ AtRest.pc = "idle" /\ AtRest.previous = {}
  BY DEF AccountConstants, AtRest, BrowserState, BrowserPCs

LEMMA FormedStays ==
    ASSUME RowsKept, NEW r, Formed(r)
    PROVE  Formed(r)'
  <1>1. r.previous \subseteq IntentIds
    BY DEF Formed, BrowserState
  <1>2. IntentIds' = IntentIds
    BY DEF IntentIds
  <1> QED BY <1>1, <1>2 DEF Formed, RowsKept, BrowserState

LEMMA BrowsersStay ==
    ASSUME RowsKept, BrowsersFormed, NEW b \in Browsers, NEW r, Formed(r)',
           browser' = [browser EXCEPT ![b] = r]
    PROVE  BrowsersFormed'
  <1>1. r \in BrowserState
    BY DEF Formed, BrowserState, IntentIds
  <1>2. browser' \in [Browsers -> BrowserState]
    BY <1>1 DEF BrowsersFormed
  <1>3. ASSUME NEW c \in Browsers PROVE Formed(browser[c])' 
    <2>1. CASE c = b
      <3>1. browser'[c] = r
        BY <2>1 DEF BrowsersFormed
      <3> QED BY <3>1 DEF Formed
    <2>2. CASE c # b
      <3>1. PICK s : s = browser[c]
        OBVIOUS
      <3>2. browser'[c] = s /\ Formed(s)
        BY <2>2, <3>1 DEF BrowsersFormed
      <3>3. Formed(s)'
        BY <3>2, FormedStays
      <3> QED BY <3>2, <3>3 DEF Formed
    <2> QED BY <2>1, <2>2
  <1>4. (browser \in [Browsers -> BrowserState])'
    BY <1>2 DEF BrowserState, IntentIds
  <1> QED BY <1>3, <1>4 DEF BrowsersFormed

\* A request that ends.
LEMMA BrowserRests ==
    ASSUME AccountConstants, RowsKept, BrowsersFormed, NEW b \in Browsers,
           browser' = [browser EXCEPT ![b] = AtRest]
    PROVE  BrowsersFormed'
  <1>1. PICK r : r = AtRest
    OBVIOUS
  <1>2. Formed(r)'
    BY <1>1, RestIsFormed DEF Formed, BrowserState, IntentIds
  <1> QED BY <1>1, <1>2, BrowsersStay

\* A step that touches no account, link or intent keeps LinkInv, if the
\* requests stay formed.
LEMMA LinksUntouched ==
    ASSUME LinkInv, BrowsersFormed', races' \in 0..MaxRaces,
           UNCHANGED <<account, workspaces, linked, intent, proven>>
    PROVE  LinkInv'
  <1>1. AccountTypeOK'
    BY DEF LinkInv, AccountTypeOK, BrowsersFormed, BrowserState, BrowserPCs, IntentIds
  <1>2. UsersExist' /\ VerifiedByPassword' /\ LinksAreOneToOne' /\ PasswordComesFirst' /\ AccountsAreWhole'
    BY DEF LinkInv, UsersExist, VerifiedByPassword, LinksAreOneToOne, PasswordComesFirst, AccountsAreWhole, IntentIds
  <1> QED BY <1>1, <1>2 DEF LinkInv
-----------------------------------------------------------------------------
LEMMA FindsKeepsLinks ==
    ASSUME AccountConstants, LinkInv, NEW b \in Browsers, NEW r, Formed(r), Finds(b, r)
    PROVE  LinkInv'
  <1>1. RowsKept
    BY DEF RowsKept, Finds
  <1>2. BrowsersFormed'
    BY <1>1, FormedStays, BrowsersStay DEF Finds, LinkInv
  <1>3. races' \in 0..MaxRaces
    BY DEF Finds, LinkInv, AccountTypeOK, AccountConstants
  <1> QED BY <1>2, <1>3, LinksUntouched DEF Finds
\* What each request reads when it begins.
Begins(b) ==
    \/ \E e \in Emails : register_user(b, e)
    \/ \E e \in Emails, a \in Identities : exchange_oauth_identity(b, a, e)
    \/ \E i \in IntentIds : confirm_oauth_link(b, i)

\* A request that means to replace the open intents has read them all, and one
\* that confirms an intent has not found it consumed.
HasReadAll(r) ==
    /\ r.pc = "intend" => Missed(r) = {}
    /\ r.pc = "confirm" => ~intent[r.id].consumed

LEMMA RequestsBeginFormed ==
    ASSUME AccountConstants, LinkInv, NEW b \in Browsers, Begins(b)
    PROVE  \E r : Formed(r) /\ HasReadAll(r) /\ r.pc # "idle" /\ Finds(b, r)
  <1> DEFINE Goal == \E r : Formed(r) /\ HasReadAll(r) /\ r.pc # "idle" /\ Finds(b, r)
  <1>0. AtRest \in BrowserState
    BY RestIsFormed
  <1>1. CASE \E e \in Emails : register_user(b, e)
    <2>1. PICK e \in Emails : register_user(b, e)
      BY <1>1
    <2>2. PICK r : r = [AtRest EXCEPT !.pc = "register", !.email = e]
      OBVIOUS
    <2>3. r \in BrowserState
      BY <1>0, <2>2 DEF BrowserState, BrowserPCs
    <2>4. r.pc = "register" /\ r.email = e /\ r.previous = {}
      BY <2>2 DEF AtRest
    <2>5. Formed(r) /\ HasReadAll(r)
      BY <2>3, <2>4 DEF Formed, HasReadAll
    <2>6. Finds(b, r)
      BY <2>1, <2>2 DEF register_user
    <2> QED BY <2>4, <2>5, <2>6
  <1>2. CASE \E e \in Emails, a \in Identities : exchange_oauth_identity(b, a, e)
    <2>1. PICK e \in Emails, a \in Identities : exchange_oauth_identity(b, a, e)
      BY <1>2
    <2>0. PICK q : q = [AtRest EXCEPT !.email = e, !.at = a]
      OBVIOUS
    <2>5. q \in BrowserState /\ q.email = e /\ q.at = a /\ q.previous = {}
      BY <1>0, <2>0 DEF BrowserState, AtRest
    <2>2. ASSUME Finds(b, [q EXCEPT !.pc = "create"]) PROVE Goal
      <3>1. PICK r : r = [q EXCEPT !.pc = "create"]
        OBVIOUS
      <3>2. r \in BrowserState /\ r.pc = "create" /\ r.email = e /\ r.at = a /\ r.previous = {}
        BY <2>5, <3>1 DEF BrowserState, BrowserPCs
      <3>3. Formed(r) /\ HasReadAll(r)
        BY <3>2 DEF Formed, HasReadAll
      <3> QED BY <2>2, <3>1, <3>2, <3>3
    <2>3. ASSUME account[e] # Absent, account[e].verified, Finds(b, [q EXCEPT !.pc = "link"]) PROVE Goal
      <3>1. PICK r : r = [q EXCEPT !.pc = "link"]
        OBVIOUS
      <3>2. r \in BrowserState /\ r.pc = "link" /\ r.email = e /\ r.at = a /\ r.previous = {}
        BY <2>5, <3>1 DEF BrowserState, BrowserPCs
      <3>3. Formed(r) /\ HasReadAll(r)
        BY <2>3, <3>2 DEF Formed, HasReadAll
      <3> QED BY <2>3, <3>1, <3>2, <3>3
    <2>4. ASSUME account[e] # Absent,
                 Finds(b, [q EXCEPT !.pc = "intend", !.previous = OpenIntents(e, ProviderOf[a])])
          PROVE  Goal
      <3>1. PICK r : r = [q EXCEPT !.pc = "intend", !.previous = OpenIntents(e, ProviderOf[a])]
        OBVIOUS
      <3>2. OpenIntents(e, ProviderOf[a]) \in SUBSET IntentIds
        BY DEF OpenIntents
      <3>3. /\ r \in BrowserState /\ r.pc = "intend" /\ r.email = e /\ r.at = a
            /\ r.previous = OpenIntents(e, ProviderOf[a])
        BY <2>5, <3>1, <3>2 DEF BrowserState, BrowserPCs
      <3>4. Formed(r)
        BY <2>4, <3>3 DEF Formed, OpenIntents
      <3>5. HasReadAll(r)
        BY <3>3 DEF HasReadAll, Missed
      <3> QED BY <2>4, <3>1, <3>3, <3>4, <3>5
    <2> QED BY <2>0, <2>1, <2>2, <2>3, <2>4 DEF exchange_oauth_identity, LinksAtOnce
  <1>3. CASE \E i \in IntentIds : confirm_oauth_link(b, i)
    <2>1. PICK i \in IntentIds : confirm_oauth_link(b, i)
      BY <1>3
    <2>2. PICK w, pc, n : /\ w = intent[i] /\ pc = (IF w.late THEN "lapse" ELSE "confirm")
                          /\ n = (SameProvider(w.user, w.at) = {})
      OBVIOUS
    <2>3. w \in OAuthLinkIntent /\ account[w.user] # Absent /\ intent[i] # Absent /\ i \in 0..MaxIntents
      BY <2>1, <2>2 DEF confirm_oauth_link, LinkInv, AccountTypeOK, UsersExist, IntentIds
    <2>4. w.user \in Emails /\ w.at \in Identities
      BY <2>3 DEF OAuthLinkIntent
    <2>5. PICK r : r = [AtRest EXCEPT !.pc = pc, !.id = i, !.email = w.user, !.at = w.at, !.insert = n]
      OBVIOUS
    <2>6. pc \in {"lapse", "confirm"} /\ n \in BOOLEAN
      BY <2>2
    <2>7. r \in BrowserState
      BY <1>0, <2>3, <2>4, <2>5, <2>6 DEF BrowserState, BrowserPCs
    <2>8. r.pc = pc /\ r.email = w.user /\ r.at = w.at /\ r.id = i /\ r.previous = {}
      BY <2>5 DEF AtRest
    <2>9. Formed(r) /\ HasReadAll(r)
      <3>1. ~intent[i].consumed
        BY <2>1 DEF confirm_oauth_link
      <3> QED BY <2>3, <2>4, <2>6, <2>7, <2>8, <3>1 DEF Formed, HasReadAll
    <2>10. Finds(b, r)
      BY <2>1, <2>2, <2>5 DEF confirm_oauth_link
    <2> QED BY <2>6, <2>8, <2>9, <2>10
  <1> QED BY <1>1, <1>2, <1>3 DEF Begins
-----------------------------------------------------------------------------
\* The commits.

LEMMA NewUsers ==
    ASSUME AccountConstants, LinkInv, NEW e \in Emails, NEW user \in User, CreateUser(e, user),
           user.password \/ user.verified, ~(user.password /\ user.verified), UNCHANGED <<intent, proven>>
    PROVE  /\ RowsKept /\ AccountsAreWhole' /\ VerifiedByPassword'
           /\ account[e] = Absent /\ account'[e] = user /\ \A f \in Emails \ {e} : account'[f] = account[f]
           /\ account' \in [Emails -> User \cup {Absent}] /\ workspaces' \in [Emails -> Nat]
           /\ \A l \in linked : l.user # e
           /\ \A i \in IntentIds : intent[i] # Absent => account'[intent'[i].user] # Absent
  <1>1. /\ account[e] = Absent /\ account'[e] = user /\ \A f \in Emails \ {e} : account'[f] = account[f]
        /\ account' \in [Emails -> User \cup {Absent}] /\ user # Absent
    BY AbsentIsNoRow DEF CreateUser, LinkInv, AccountTypeOK
  <1>2. /\ workspaces' \in [Emails -> Nat] /\ workspaces'[e] = workspaces[e] + 1
        /\ \A f \in Emails \ {e} : workspaces'[f] = workspaces[f]
    BY DEF CreateUser, LinkInv
  <1>3. RowsKept
    BY <1>1 DEF RowsKept
  <1>4. AccountsAreWhole'
    BY <1>1, <1>2 DEF LinkInv, AccountsAreWhole
  <1>5. VerifiedByPassword'
    BY <1>1 DEF LinkInv, VerifiedByPassword
  <1>6. \A l \in linked : l.user # e
    BY <1>1 DEF LinkInv, UsersExist
  <1>7. \A i \in IntentIds : intent[i] # Absent => account'[intent'[i].user] # Absent
    <2>1. \A i \in IntentIds : intent[i] # Absent => intent[i].user \in Emails /\ account[intent[i].user] # Absent
      BY DEF LinkInv, UsersExist, AccountTypeOK, OAuthLinkIntent
    <2> QED BY <1>1, <2>1
  <1> QED BY <1>1, <1>2, <1>3, <1>4, <1>5, <1>6, <1>7

\* A link that the unique indexes admit.
LEMMA NewLinks ==
    ASSUME AccountConstants, LinkInv, NEW e \in Emails, NEW a \in Identities, Unique(e, a),
           linked' = linked \cup {[user |-> e, at |-> a]}
    PROVE  /\ linked' \subseteq OAuthIdentity /\ LinksAreOneToOne'
           /\ \A l \in linked' : l \in linked \/ l.user = e
  <1>1. PICK n : n = [user |-> e, at |-> a]
    OBVIOUS
  <1>2. n \in OAuthIdentity /\ n.user = e /\ n.at = a
    BY <1>1 DEF OAuthIdentity
  <1>3. linked' = linked \cup {n} /\ linked \subseteq OAuthIdentity
    BY <1>1 DEF LinkInv, AccountTypeOK
  <1>4. \A l \in linked : ~(l.user = e /\ ProviderOf[l.at] = ProviderOf[a]) /\ l.at # a
    BY DEF Unique, SameProvider
  <1>5. LinksAreOneToOne'
    BY <1>2, <1>3, <1>4 DEF LinkInv, LinksAreOneToOne
  <1> QED BY <1>2, <1>3, <1>5

LEMMA RegistrationKeepsLinks ==
    ASSUME AccountConstants, LinkInv, NEW b \in Browsers, CommitRegistration(b)
    PROVE  LinkInv'
  <1>1. PICK e \in Emails, user \in User :
            /\ e = browser[b].email /\ user.password = TRUE /\ user.verified = FALSE
            /\ CreateUser(e, user) /\ Finishes(b) /\ UNCHANGED <<linked, intent, proven, used>>
    <2>1. browser[b].email \in Emails
      BY DEF CommitRegistration, LinkInv, BrowsersFormed, Formed
    <2>2. PICK user : user = [password |-> TRUE, verified |-> FALSE]
      OBVIOUS
    <2>3. user \in User /\ user.password = TRUE /\ user.verified = FALSE
      BY <2>2 DEF User
    <2> QED BY <2>1, <2>2, <2>3 DEF CommitRegistration
  <1>2. /\ RowsKept /\ AccountsAreWhole' /\ VerifiedByPassword'
        /\ account'[e] = user /\ \A f \in Emails \ {e} : account'[f] = account[f]
        /\ account' \in [Emails -> User \cup {Absent}] /\ workspaces' \in [Emails -> Nat]
        /\ \A l \in linked : l.user # e
        /\ \A i \in IntentIds : intent[i] # Absent => account'[intent'[i].user] # Absent
    BY <1>1, NewUsers
  <1>3. BrowsersFormed'
    BY <1>1, <1>2, BrowserRests DEF Finishes, LinkInv
  <1>4. AccountTypeOK'
    BY <1>1, <1>2, <1>3 DEF LinkInv, AccountTypeOK, Finishes, BrowsersFormed, BrowserState, BrowserPCs, IntentIds
  <1>5. \A l \in linked : l.user \in Emails
    BY DEF LinkInv, AccountTypeOK, OAuthIdentity
  <1>6. UsersExist' /\ LinksAreOneToOne' /\ PasswordComesFirst'
    BY <1>1, <1>2, <1>5 DEF LinkInv, UsersExist, LinksAreOneToOne, PasswordComesFirst, IntentIds
  <1> QED BY <1>2, <1>3, <1>4, <1>6 DEF LinkInv

LEMMA NewUserKeepsLinks ==
    ASSUME AccountConstants, LinkInv, NEW b \in Browsers, CommitNewUser(b)
    PROVE  LinkInv'
  <1>1. PICK e \in Emails, a \in Identities, user \in User :
            /\ user.password = FALSE /\ user.verified = TRUE
            /\ CreateUser(e, user) /\ Unique(e, a)
            /\ linked' = linked \cup {[user |-> e, at |-> a]}
            /\ Finishes(b) /\ UNCHANGED <<intent, proven, used>>
    <2>1. browser[b].email \in Emails /\ browser[b].at \in Identities
      BY DEF CommitNewUser, LinkInv, BrowsersFormed, Formed
    <2>2. PICK user : user = NewUser
      OBVIOUS
    <2>3. user \in User /\ user.password = FALSE /\ user.verified = TRUE
      BY <2>2 DEF User, NewUser
    <2> QED BY <2>1, <2>2, <2>3 DEF CommitNewUser
  <1>2. /\ RowsKept /\ AccountsAreWhole' /\ VerifiedByPassword'
        /\ account'[e] = user /\ \A f \in Emails \ {e} : account'[f] = account[f]
        /\ account' \in [Emails -> User \cup {Absent}] /\ workspaces' \in [Emails -> Nat]
        /\ \A l \in linked : l.user # e
        /\ \A i \in IntentIds : intent[i] # Absent => account'[intent'[i].user] # Absent
    BY <1>1, NewUsers
  <1>3. /\ linked' \subseteq OAuthIdentity /\ LinksAreOneToOne'
        /\ \A l \in linked' : l \in linked \/ l.user = e
    BY <1>1, NewLinks
  <1>4. BrowsersFormed'
    BY <1>1, <1>2, BrowserRests DEF Finishes, LinkInv
  <1>5. AccountTypeOK'
    BY <1>1, <1>2, <1>3, <1>4 DEF LinkInv, AccountTypeOK, Finishes, BrowsersFormed, BrowserState, BrowserPCs, IntentIds
  <1>6. \A l \in linked : l.user \in Emails \ {e}
    BY <1>2 DEF LinkInv, AccountTypeOK, OAuthIdentity
  <1>7. account'[e] # Absent
    BY <1>2, AbsentIsNoRow
  <1>8. UsersExist' /\ PasswordComesFirst'
    BY <1>1, <1>2, <1>3, <1>6, <1>7 DEF LinkInv, UsersExist, PasswordComesFirst, IntentIds
  <1> QED BY <1>2, <1>3, <1>4, <1>5, <1>8 DEF LinkInv

LEMMA LinkKeepsLinks ==
    ASSUME AccountConstants, LinkInv, NEW b \in Browsers, CommitLink(b)
    PROVE  LinkInv'
  <1>1. PICK e \in Emails, a \in Identities :
            /\ account[e] # Absent /\ account[e].verified /\ Unique(e, a)
            /\ linked' = linked \cup {[user |-> e, at |-> a]}
            /\ Finishes(b) /\ UNCHANGED <<account, workspaces, intent, proven, used>>
    BY DEF CommitLink, LinkInv, BrowsersFormed, Formed
  <1>2. RowsKept
    BY <1>1 DEF RowsKept
  <1>3. /\ linked' \subseteq OAuthIdentity /\ LinksAreOneToOne'
        /\ \A l \in linked' : l \in linked \/ l.user = e
    BY <1>1, NewLinks
  <1>4. BrowsersFormed'
    BY <1>1, <1>2, BrowserRests DEF Finishes, LinkInv
  <1>5. AccountTypeOK'
    BY <1>1, <1>3, <1>4 DEF LinkInv, AccountTypeOK, Finishes, BrowsersFormed, BrowserState, BrowserPCs, IntentIds
  <1>6. UsersExist' /\ PasswordComesFirst' /\ VerifiedByPassword' /\ AccountsAreWhole'
    BY <1>1, <1>3 DEF LinkInv, UsersExist, PasswordComesFirst, VerifiedByPassword, AccountsAreWhole, IntentIds
  <1> QED BY <1>1, <1>3, <1>4, <1>5, <1>6 DEF LinkInv
\* A step that writes intents alone.
LEMMA IntentsWritten ==
    ASSUME AccountConstants, LinkInv, BrowsersFormed', races' \in 0..MaxRaces,
           UNCHANGED <<account, workspaces, linked, proven>>,
           intent' \in [IntentIds -> OAuthLinkIntent \cup {Absent}],
           \A i \in IntentIds : intent'[i] # Absent => account[intent'[i].user] # Absent
    PROVE  LinkInv'
  <1>1. AccountTypeOK'
    BY DEF LinkInv, AccountTypeOK, BrowsersFormed, BrowserState, BrowserPCs, IntentIds
  <1>2. UsersExist' /\ VerifiedByPassword' /\ LinksAreOneToOne' /\ PasswordComesFirst' /\ AccountsAreWhole'
    BY DEF LinkInv, UsersExist, VerifiedByPassword, LinksAreOneToOne, PasswordComesFirst, AccountsAreWhole, IntentIds
  <1> QED BY <1>1, <1>2 DEF LinkInv

\* An intent that only changes its marks.
LEMMA Marked ==
    ASSUME LinkInv, NEW i \in IntentIds, intent[i] # Absent, NEW w \in OAuthLinkIntent,
           w.user = intent[i].user, intent' = [intent EXCEPT ![i] = w], UNCHANGED account
    PROVE  /\ intent' \in [IntentIds -> OAuthLinkIntent \cup {Absent}]
           /\ \A j \in IntentIds : intent'[j] # Absent => account[intent'[j].user] # Absent
           /\ RowsKept
  <1>1. /\ intent' \in [IntentIds -> OAuthLinkIntent \cup {Absent}] /\ intent'[i] = w
        /\ \A j \in IntentIds \ {i} : intent'[j] = intent[j]
    BY DEF LinkInv, AccountTypeOK
  <1>2. w # Absent
    BY AbsentIsNoRow
  <1> QED BY <1>1, <1>2 DEF RowsKept, LinkInv, UsersExist

LEMMA LapseKeepsLinks ==
    ASSUME AccountConstants, LinkInv, NEW i \in IntentIds, IntentLapses(i)
    PROVE  LinkInv'
  <1>1. intent[i] \in OAuthLinkIntent /\ intent[i] # Absent
    BY DEF IntentLapses, LinkInv, AccountTypeOK
  <1>2. PICK w : w = [intent[i] EXCEPT !.late = TRUE]
    OBVIOUS
  <1>3. w \in OAuthLinkIntent /\ w.user = intent[i].user /\ intent' = [intent EXCEPT ![i] = w]
    BY <1>1, <1>2 DEF OAuthLinkIntent, IntentLapses
  <1>4. /\ intent' \in [IntentIds -> OAuthLinkIntent \cup {Absent}]
        /\ \A j \in IntentIds : intent'[j] # Absent => account[intent'[j].user] # Absent
        /\ RowsKept
    BY <1>1, <1>3, Marked DEF IntentLapses
  <1>5. BrowsersFormed'
    <2>1. ASSUME NEW c \in Browsers PROVE Formed(browser[c])'
      <3>1. PICK s : s = browser[c]
        OBVIOUS
      <3>2. Formed(s)'
        BY <1>4, <3>1, FormedStays DEF LinkInv, BrowsersFormed
      <3> QED BY <3>1, <3>2 DEF Formed, IntentLapses
    <2> QED BY <2>1 DEF BrowsersFormed, LinkInv, BrowserState, IntentIds, IntentLapses
  <1> QED BY <1>4, <1>5, IntentsWritten DEF IntentLapses, LinkInv, AccountTypeOK

LEMMA LateIntentKeepsLinks ==
    ASSUME AccountConstants, LinkInv, NEW b \in Browsers, CommitLateIntent(b)
    PROVE  LinkInv'
  <1>1. PICK i \in IntentIds : i = browser[b].id /\ intent[i] \in OAuthLinkIntent /\ intent[i] # Absent
    BY DEF CommitLateIntent, LinkInv, AccountTypeOK, BrowsersFormed, Formed
  <1>2. PICK w : w = [intent[i] EXCEPT !.consumed = TRUE]
    OBVIOUS
  <1>3. w \in OAuthLinkIntent /\ w.user = intent[i].user /\ intent' = [intent EXCEPT ![i] = w]
    BY <1>1, <1>2 DEF OAuthLinkIntent, CommitLateIntent
  <1>4. /\ intent' \in [IntentIds -> OAuthLinkIntent \cup {Absent}]
        /\ \A j \in IntentIds : intent'[j] # Absent => account[intent'[j].user] # Absent
        /\ RowsKept
    BY <1>1, <1>3, Marked DEF CommitLateIntent
  <1>5. BrowsersFormed'
    BY <1>4, BrowserRests DEF CommitLateIntent, Finishes, LinkInv
  <1> QED BY <1>4, <1>5, IntentsWritten DEF CommitLateIntent, Finishes, LinkInv, AccountTypeOK

\* The row a new intent is inserted as.
NewIntent(r) == [user |-> r.email, at |-> r.at, consumed |-> FALSE, late |-> FALSE]

\* What CommitIntent makes of the intents, the new one under i.
Replaced(i, r) ==
    /\ intent[i] = Absent
    /\ intent' \in [IntentIds -> OAuthLinkIntent \cup {Absent}]
    /\ intent'[i] = NewIntent(r) /\ NewIntent(r) \in OAuthLinkIntent
    /\ \A j \in IntentIds \ {i} :
          IF j \in r.previous
          THEN intent[j] # Absent /\ intent'[j].consumed /\ intent'[j].user = intent[j].user
          ELSE intent'[j] = intent[j]
    /\ \A j \in IntentIds : intent[j] # Absent => intent'[j] # Absent

LEMMA IntentsReplaced ==
    ASSUME LinkInv, NEW b \in Browsers, CommitIntent(b)
    PROVE  \E i \in IntentIds : Replaced(i, browser[b])
  <1>1. PICK r : r = browser[b]
    OBVIOUS
  <1>2. r.email \in Emails /\ r.at \in Identities /\ \A j \in r.previous : intent[j] # Absent
    BY <1>1 DEF CommitIntent, LinkInv, BrowsersFormed, Formed
  <1>3. PICK n : n = NewIntent(r)
    OBVIOUS
  <1>4. n \in OAuthLinkIntent /\ n # Absent
    <2>1. n \in OAuthLinkIntent
      BY <1>2, <1>3 DEF NewIntent, OAuthLinkIntent
    <2> QED BY <2>1, AbsentIsNoRow
  <1>5. PICK i \in IntentIds :
            /\ intent[i] = Absent
            /\ intent' = [j \in IntentIds |->
                   CASE j = i -> n
                     [] j \in r.previous -> [intent[j] EXCEPT !.consumed = TRUE]
                     [] OTHER -> intent[j]]
    BY <1>1, <1>3 DEF CommitIntent, NewIntent, Superseded
  <1>6. intent'[i] = n
    BY <1>2, <1>5
  <1>7. ASSUME NEW j \in IntentIds \ {i}
        PROVE  /\ intent'[j] \in OAuthLinkIntent \cup {Absent}
               /\ intent[j] # Absent => intent'[j] # Absent
               /\ IF j \in r.previous
                  THEN intent[j] # Absent /\ intent'[j].consumed /\ intent'[j].user = intent[j].user
                  ELSE intent'[j] = intent[j]
    <2>1. intent[j] \in OAuthLinkIntent \cup {Absent}
      BY DEF LinkInv, AccountTypeOK
    <2>2. CASE j \in r.previous
      <3>1. intent[j] \in OAuthLinkIntent
        BY <1>2, <2>1, <2>2
      <3>2. PICK w : w = [intent[j] EXCEPT !.consumed = TRUE]
        OBVIOUS
      <3>3. w \in OAuthLinkIntent /\ w.consumed /\ w.user = intent[j].user
        BY <3>1, <3>2 DEF OAuthLinkIntent
      <3>4. intent'[j] = w
        BY <1>5, <2>2, <3>2
      <3> QED BY <1>2, <2>2, <3>3, <3>4, AbsentIsNoRow
    <2>3. CASE j \notin r.previous
      <3>1. intent'[j] = intent[j]
        BY <1>5, <2>3
      <3> QED BY <2>1, <2>3, <3>1
    <2> QED BY <2>2, <2>3
  <1>8. intent' \in [IntentIds -> OAuthLinkIntent \cup {Absent}]
    <2>1. DOMAIN intent' = IntentIds /\ intent' = [j \in IntentIds |-> intent'[j]]
      BY <1>5
    <2>2. \A j \in IntentIds : intent'[j] \in OAuthLinkIntent \cup {Absent}
      BY <1>4, <1>6, <1>7
    <2> QED BY ONLY <2>1, <2>2
  <1>9. Replaced(i, r)
    BY <1>3, <1>4, <1>5, <1>6, <1>7, <1>8 DEF Replaced
  <1> QED BY <1>1, <1>9

LEMMA IntentKeepsLinks ==
    ASSUME AccountConstants, LinkInv, NEW b \in Browsers, CommitIntent(b)
    PROVE  LinkInv'
  <1>1. PICK i \in IntentIds : Replaced(i, browser[b])
    BY IntentsReplaced
  <1>2. account[browser[b].email] # Absent
    BY DEF CommitIntent, LinkInv, BrowsersFormed, Formed
  <1>3. RowsKept
    BY <1>1 DEF RowsKept, Replaced, CommitIntent
  <1>4. BrowsersFormed'
    BY <1>3, BrowserRests DEF CommitIntent, Finishes, LinkInv
  <1>5. NewIntent(browser[b]).user = browser[b].email
    BY DEF NewIntent
  <1>6. \A j \in IntentIds : intent'[j] # Absent => account[intent'[j].user] # Absent
    BY <1>1, <1>2, <1>5 DEF Replaced, LinkInv, UsersExist
  <1>7. intent' \in [IntentIds -> OAuthLinkIntent \cup {Absent}]
    BY <1>1 DEF Replaced
  <1> QED BY <1>4, <1>6, <1>7, IntentsWritten DEF CommitIntent, Finishes, LinkInv, AccountTypeOK

LEMMA ConfirmationKeepsLinks ==
    ASSUME AccountConstants, LinkInv, NEW b \in Browsers, CommitConfirmation(b)
    PROVE  LinkInv'
  <1>1. PICK e \in Emails, a \in Identities, i \in IntentIds :
            /\ e = browser[b].email /\ a = browser[b].at /\ i = browser[b].id
            /\ account[e] # Absent /\ account[e] \in User
            /\ intent[i] # Absent /\ intent[i] \in OAuthLinkIntent
    BY DEF CommitConfirmation, LinkInv, BrowsersFormed, Formed, AccountTypeOK
  <1>2. PICK user : user = [account[e] EXCEPT !.verified = TRUE]
    OBVIOUS
  <1>3. user \in User /\ user.verified /\ user.password = account[e].password /\ user # Absent
    BY <1>1, <1>2, AbsentIsNoRow DEF User
  <1>4. PICK w : w = [intent[i] EXCEPT !.consumed = TRUE]
    OBVIOUS
  <1>5. w \in OAuthLinkIntent /\ w.user = intent[i].user /\ w # Absent
    BY <1>1, <1>4, AbsentIsNoRow DEF OAuthLinkIntent
  <1>6. /\ account' = [account EXCEPT ![e] = user] /\ intent' = [intent EXCEPT ![i] = w]
        /\ linked' = linked \/ (Unique(e, a) /\ linked' = linked \cup {[user |-> e, at |-> a]})
        /\ proven' = proven \cup {[user |-> e, at |-> a]}
        /\ Finishes(b) /\ UNCHANGED workspaces
    BY <1>1, <1>2, <1>4 DEF CommitConfirmation, Consumed
  <1>7. /\ account' \in [Emails -> User \cup {Absent}] /\ account'[e] = user
        /\ \A f \in Emails \ {e} : account'[f] = account[f]
    BY <1>3, <1>6 DEF LinkInv, AccountTypeOK
  <1>8. /\ intent' \in [IntentIds -> OAuthLinkIntent \cup {Absent}] /\ intent'[i] = w
        /\ \A j \in IntentIds \ {i} : intent'[j] = intent[j]
    BY <1>5, <1>6 DEF LinkInv, AccountTypeOK
  <1>9. RowsKept
    BY <1>3, <1>5, <1>7, <1>8 DEF RowsKept
  <1>10. BrowsersFormed'
    BY <1>6, <1>9, BrowserRests DEF Finishes, LinkInv
  <1>11. /\ linked' \subseteq OAuthIdentity /\ LinksAreOneToOne'
         /\ \A l \in linked' : l \in linked \/ l.user = e
    <2>1. CASE linked' = linked
      BY <2>1 DEF LinkInv, AccountTypeOK, LinksAreOneToOne
    <2>2. CASE Unique(e, a) /\ linked' = linked \cup {[user |-> e, at |-> a]}
      BY <2>2, NewLinks
    <2> QED BY <1>6, <2>1, <2>2
  <1>12. PICK k : k = [user |-> e, at |-> a]
    OBVIOUS
  <1>13. proven' = proven \cup {k} /\ k \in OAuthIdentity /\ k.user = e /\ proven \subseteq OAuthIdentity
    BY <1>6, <1>12 DEF OAuthIdentity, LinkInv, AccountTypeOK
  <1>14. AccountTypeOK'
    BY <1>6, <1>7, <1>8, <1>10, <1>11, <1>13
       DEF LinkInv, AccountTypeOK, Finishes, BrowsersFormed, BrowserState, BrowserPCs, IntentIds
  <1>15. UsersExist'
    <2>1. \A l \in linked' : account'[l.user] # Absent
      <3>1. \A l \in linked : account[l.user] # Absent /\ l.user \in Emails
        BY DEF LinkInv, UsersExist, AccountTypeOK, OAuthIdentity
      <3> QED BY <1>3, <1>7, <1>11, <3>1
    <2>2. \A j \in IntentIds : intent'[j] # Absent => account'[intent'[j].user] # Absent
      <3>1. \A j \in IntentIds : intent[j] # Absent => intent[j].user \in Emails /\ account[intent[j].user] # Absent
        BY DEF LinkInv, UsersExist, AccountTypeOK, OAuthLinkIntent
      <3> QED BY <1>1, <1>3, <1>5, <1>7, <1>8, <3>1
    <2> QED BY <2>1, <2>2 DEF UsersExist, IntentIds
  <1>16. VerifiedByPassword' /\ PasswordComesFirst'
    <2>1. \A l \in linked : l.user \in Emails
      BY DEF LinkInv, AccountTypeOK, OAuthIdentity
    <2> QED BY <1>7, <1>11, <1>13, <2>1 DEF LinkInv, VerifiedByPassword, PasswordComesFirst
  <1>17. AccountsAreWhole'
    BY <1>1, <1>3, <1>6, <1>7 DEF LinkInv, AccountsAreWhole
  <1> QED BY <1>6, <1>10, <1>11, <1>14, <1>15, <1>16, <1>17 DEF LinkInv

LEMMA GivingUpKeepsLinks ==
    ASSUME AccountConstants, LinkInv, NEW b \in Browsers, BrowserGivesUp(b)
    PROVE  LinkInv'
  <1>1. RowsKept
    BY DEF RowsKept, BrowserGivesUp
  <1>2. BrowsersFormed'
    BY <1>1, BrowserRests DEF BrowserGivesUp, LinkInv
  <1> QED BY <1>2, LinksUntouched DEF BrowserGivesUp, LinkInv, AccountTypeOK
-----------------------------------------------------------------------------
\* Counting.

LEMMA SmallerSet ==
    ASSUME NEW S, NEW T, IsFiniteSet(T), S \subseteq T
    PROVE  /\ IsFiniteSet(S) /\ Cardinality(S) \in Nat /\ Cardinality(T) \in Nat
           /\ Cardinality(S) <= Cardinality(T)
  BY FS_Subset, FS_CardinalityType

LEMMA OneMoreBrowser ==
    ASSUME NEW S, NEW T, NEW x, IsFiniteSet(S), T \subseteq S \cup {x}
    PROVE  /\ IsFiniteSet(T) /\ Cardinality(S) \in Nat /\ Cardinality(T) \in Nat
           /\ Cardinality(T) <= Cardinality(S) + 1
  <1>1. IsFiniteSet(S \cup {x}) /\ Cardinality(S \cup {x}) <= Cardinality(S) + 1 /\ Cardinality(S) \in Nat
    BY FS_AddElement, FS_CardinalityType
  <1>2. IsFiniteSet(T) /\ Cardinality(T) \in Nat /\ Cardinality(T) <= Cardinality(S \cup {x})
        /\ Cardinality(S \cup {x}) \in Nat
    BY <1>1, SmallerSet
  <1> QED BY <1>1, <1>2

LEMMA IntentSets ==
    ASSUME AccountConstants, NEW S, S \subseteq IntentIds
    PROVE  IsFiniteSet(S) /\ Cardinality(S) \in Nat
  <1>1. IsFiniteSet(IntentIds)
    BY FS_Interval DEF AccountConstants, IntentIds
  <1> QED BY <1>1, SmallerSet

\* A request that begins is one more at work, beside others only in a race.
LEMMA BusyBegins ==
    ASSUME AccountConstants, LinkInv, BusyFew, NEW b \in Browsers, NEW r, r.pc # "idle", Finds(b, r)
    PROVE  /\ BusyFew' /\ Cardinality(BusyBrowsers') = Cardinality(BusyBrowsers) + 1 /\ Cardinality(BusyBrowsers) \in Nat
           /\ races \in Nat /\ races' \in {races, races + 1} /\ (BusyBrowsers # {} => races' = races + 1)
           /\ browser'[b] = r /\ \A c \in Browsers \ {b} : browser'[c] = browser[c]
  <1>1. browser'[b] = r /\ \A c \in Browsers \ {b} : browser'[c] = browser[c]
    BY DEF Finds, LinkInv, BrowsersFormed
  <1>2. BusyBrowsers' = BusyBrowsers \cup {b} /\ b \notin BusyBrowsers
    BY <1>1 DEF BusyBrowsers, Finds
  <1>3. races \in Nat /\ races' = IF BusyBrowsers # {} THEN races + 1 ELSE races
    BY DEF Finds, BusyBrowsers, LinkInv, AccountTypeOK, AccountConstants
  <1>4. IsFiniteSet(BusyBrowsers') /\ Cardinality(BusyBrowsers') = Cardinality(BusyBrowsers) + 1 /\ Cardinality(BusyBrowsers) \in Nat
    BY <1>2, FS_AddElement, FS_CardinalityType DEF BusyFew
  <1>5. BusyBrowsers = {} => Cardinality(BusyBrowsers) = 0
    BY FS_EmptySet
  <1>6. Cardinality(BusyBrowsers') <= 1 + races'
    BY <1>3, <1>4, <1>5 DEF BusyFew
  <1> QED BY <1>1, <1>3, <1>4, <1>6 DEF BusyFew

\* A request that ends is one less.
LEMMA BusyEnds ==
    ASSUME AccountConstants, LinkInv, BusyFew, NEW b \in Browsers, browser[b].pc # "idle",
           browser' = [browser EXCEPT ![b] = AtRest], races' = races
    PROVE  /\ BusyFew' /\ Cardinality(BusyBrowsers') + 1 = Cardinality(BusyBrowsers) /\ Cardinality(BusyBrowsers') \in Nat
           /\ races \in Nat
           /\ browser'[b].pc = "idle" /\ \A c \in Browsers \ {b} : browser'[c] = browser[c]
  <1>1. browser'[b].pc = "idle" /\ \A c \in Browsers \ {b} : browser'[c] = browser[c]
    BY RestIsFormed DEF LinkInv, BrowsersFormed
  <1>2. BusyBrowsers' = BusyBrowsers \ {b} /\ b \in BusyBrowsers
    BY <1>1 DEF BusyBrowsers
  <1>3. races \in Nat
    BY DEF LinkInv, AccountTypeOK, AccountConstants
  <1>4. IsFiniteSet(BusyBrowsers') /\ Cardinality(BusyBrowsers') = Cardinality(BusyBrowsers) - 1
    BY <1>2, FS_RemoveElement DEF BusyFew
  <1>5. Cardinality(BusyBrowsers') \in Nat /\ Cardinality(BusyBrowsers) \in Nat
    BY <1>4, FS_CardinalityType DEF BusyFew
  <1>6. Cardinality(BusyBrowsers') + 1 = Cardinality(BusyBrowsers) /\ Cardinality(BusyBrowsers') <= 1 + races'
    BY <1>3, <1>4, <1>5 DEF BusyFew
  <1> QED BY <1>1, <1>3, <1>4, <1>5, <1>6 DEF BusyFew
-----------------------------------------------------------------------------
LEMMA BeginningKeepsIntents ==
    ASSUME AccountConstants, LinkInv, IntentInv, NEW b \in Browsers, NEW r,
           Formed(r), HasReadAll(r), r.pc # "idle", Finds(b, r)
    PROVE  IntentInv'
  <1>1. /\ BusyFew' /\ Cardinality(BusyBrowsers') = Cardinality(BusyBrowsers) + 1 /\ Cardinality(BusyBrowsers) \in Nat
        /\ races \in Nat /\ races' \in {races, races + 1} /\ (BusyBrowsers # {} => races' = races + 1)
        /\ browser'[b] = r /\ \A c \in Browsers \ {b} : browser'[c] = browser[c]
    BY BusyBegins DEF IntentInv
  <1>2. UNCHANGED <<intent, used>> /\ browser[b].pc = "idle"
    BY DEF Finds
  <1>3. \A s : Missed(s)' = Missed(s)
    BY <1>2 DEF Missed, OpenIntents, IntentIds
  <1>4. MissedFew'
    <2> SUFFICES ASSUME NEW c \in Browsers, browser'[c].pc = "intend"
                 PROVE  Cardinality(Missed(browser[c])') + Cardinality(BusyBrowsers') <= 1 + races'
      BY DEF MissedFew
    <2>1. PICK s : s = browser'[c]
      OBVIOUS
    <2>2. Missed(browser[c])' = Missed(s)
      <3>1. Missed(browser[c])' = Missed(s)'
        BY <2>1 DEF Missed
      <3> QED BY <1>3, <3>1
    <2>3. CASE c = b
      <3>1. Missed(s) = {}
        BY <1>1, <2>1, <2>3 DEF HasReadAll
      <3>2. Cardinality(Missed(s)) = 0
        BY <3>1, FS_EmptySet
      <3> QED BY <1>1, <2>2, <3>2 DEF BusyFew
    <2>4. CASE c # b
      <3>1. s = browser[c] /\ s.pc = "intend" /\ c \in BusyBrowsers
        BY <1>1, <2>1, <2>4 DEF BusyBrowsers
      <3>2. Cardinality(Missed(s)) + Cardinality(BusyBrowsers) <= 1 + races
        BY <3>1 DEF IntentInv, MissedFew
      <3>3. Cardinality(Missed(s)) \in Nat
        BY IntentSets DEF Missed, OpenIntents
      <3> QED BY <1>1, <2>2, <3>1, <3>2, <3>3
    <2> QED BY <2>3, <2>4
  <1>5. ASSUME NEW i \in IntentIds
        PROVE  used[i] + Cardinality(Confirming(i)') <= 1 + races'
    <2>1. CASE r.pc = "confirm" /\ r.id = i
      <3>1. used[i] = 0
        BY <2>1 DEF IntentInv, ConfirmedFew, HasReadAll
      <3>2. Confirming(i)' \subseteq BusyBrowsers'
        BY DEF Confirming, BusyBrowsers
      <3>3. Cardinality(Confirming(i)') <= Cardinality(BusyBrowsers') /\ Cardinality(Confirming(i)') \in Nat
            /\ Cardinality(BusyBrowsers') \in Nat
        BY <1>1, <3>2, SmallerSet DEF BusyFew
      <3> QED BY <1>1, <3>1, <3>3 DEF BusyFew
    <2>2. CASE ~(r.pc = "confirm" /\ r.id = i)
      <3>1. Confirming(i)' = Confirming(i)
        BY <1>1, <1>2, <2>2 DEF Confirming
      <3>2. used[i] + Cardinality(Confirming(i)) <= 1 + races /\ used[i] \in Nat
        BY DEF IntentInv, ConfirmedFew
      <3>3. Cardinality(Confirming(i)) \in Nat
        <4>1. Confirming(i) \subseteq BusyBrowsers
          BY DEF Confirming, BusyBrowsers
        <4> QED BY <4>1, SmallerSet DEF IntentInv, BusyFew
      <3> QED BY <1>1, <3>1, <3>2, <3>3
    <2> QED BY <2>1, <2>2
  <1>6. ConfirmedFew'
    BY <1>2, <1>5 DEF IntentInv, ConfirmedFew, IntentIds
  <1>7. IntentsReplaceEachOther'
    <2> SUFFICES ASSUME NEW e \in Emails, NEW p \in Providers
                 PROVE  Cardinality(OpenIntents(e, p)') <= 1 + races'
      BY DEF IntentsReplaceEachOther
    <2>1. OpenIntents(e, p)' = OpenIntents(e, p)
      BY <1>2 DEF OpenIntents, IntentIds
    <2>2. Cardinality(OpenIntents(e, p)) <= 1 + races /\ Cardinality(OpenIntents(e, p)) \in Nat
      BY IntentSets DEF IntentInv, IntentsReplaceEachOther, OpenIntents
    <2> QED BY <1>1, <2>1, <2>2
  <1> QED BY <1>1, <1>4, <1>6, <1>7 DEF IntentInv
-----------------------------------------------------------------------------
\* Intents are only consumed, or marked as late.
OnlyClosed ==
    \A i \in IntentIds :
        /\ intent[i] # Absent /\ intent[i].consumed => intent'[i] # Absent /\ intent'[i].consumed
        /\ intent'[i] # Absent /\ ~intent'[i].consumed =>
              /\ intent[i] # Absent /\ ~intent[i].consumed
              /\ intent'[i].user = intent[i].user /\ intent'[i].at = intent[i].at

LEMMA OpenShrinks ==
    ASSUME OnlyClosed
    PROVE  \A e, p : OpenIntents(e, p)' \subseteq OpenIntents(e, p)
  BY DEF OnlyClosed, OpenIntents, IntentIds

LEMMA FewerOpen ==
    ASSUME AccountConstants, LinkInv, IntentInv, races' = races,
           \A e \in Emails, p \in Providers : OpenIntents(e, p)' \subseteq OpenIntents(e, p)
    PROVE  IntentsReplaceEachOther'
  <1> SUFFICES ASSUME NEW e \in Emails, NEW p \in Providers
               PROVE  Cardinality(OpenIntents(e, p)') <= 1 + races'
    BY DEF IntentsReplaceEachOther
  <1>1. OpenIntents(e, p)' \subseteq OpenIntents(e, p) /\ OpenIntents(e, p) \subseteq IntentIds
    BY DEF OpenIntents
  <1>2. Cardinality(OpenIntents(e, p)') <= Cardinality(OpenIntents(e, p))
        /\ Cardinality(OpenIntents(e, p)') \in Nat /\ Cardinality(OpenIntents(e, p)) \in Nat
    BY <1>1, IntentSets, SmallerSet
  <1>3. Cardinality(OpenIntents(e, p)) <= 1 + races
    BY DEF IntentInv, IntentsReplaceEachOther
  <1>4. races \in Nat
    BY DEF LinkInv, AccountTypeOK, AccountConstants
  <1> QED BY <1>2, <1>3, <1>4

\* A request that ends opens at most one intent, and is no longer at work.
LEMMA EndingKeepsMissedFew ==
    ASSUME AccountConstants, LinkInv, IntentInv, NEW b \in Browsers, browser[b].pc # "idle",
           browser' = [browser EXCEPT ![b] = AtRest], races' = races, NEW x,
           \A e \in Emails, p \in Providers : OpenIntents(e, p)' \subseteq OpenIntents(e, p) \cup {x}
    PROVE  MissedFew'
  <1>1. /\ Cardinality(BusyBrowsers') + 1 = Cardinality(BusyBrowsers) /\ Cardinality(BusyBrowsers') \in Nat /\ races \in Nat
        /\ browser'[b].pc = "idle" /\ \A c \in Browsers \ {b} : browser'[c] = browser[c]
    BY BusyEnds DEF IntentInv
  <1> SUFFICES ASSUME NEW c \in Browsers, browser'[c].pc = "intend"
               PROVE  Cardinality(Missed(browser[c])') + Cardinality(BusyBrowsers') <= 1 + races'
    BY DEF MissedFew
  <1>2. PICK s : s = browser[c]
    OBVIOUS
  <1>3. browser'[c] = s /\ s.pc = "intend" /\ Formed(s)
    BY <1>1, <1>2 DEF LinkInv, BrowsersFormed
  <1>4. s.email \in Emails /\ ProviderOf[s.at] \in Providers
    BY <1>3 DEF Formed, AccountConstants
  <1>5. Missed(browser[c])' = Missed(s)'
    BY <1>3 DEF Missed
  <1>6. Missed(s)' \subseteq Missed(s) \cup {x}
    BY <1>4 DEF Missed
  <1>7. Cardinality(Missed(s)') <= Cardinality(Missed(s)) + 1
        /\ Cardinality(Missed(s)) \in Nat /\ Cardinality(Missed(s)') \in Nat
    <2>1. IsFiniteSet(Missed(s))
      BY IntentSets DEF Missed, OpenIntents
    <2> QED BY <1>6, <2>1, OneMoreBrowser
  <1>8. Cardinality(Missed(s)) + Cardinality(BusyBrowsers) <= 1 + races
    BY <1>2, <1>3 DEF IntentInv, MissedFew
  <1>9. PICK m, n : m = Cardinality(Missed(s)) /\ n = Cardinality(Missed(s)')
    OBVIOUS
  <1> QED BY <1>1, <1>5, <1>7, <1>8, <1>9

LEMMA ConfirmingCounts ==
    ASSUME BusyFew, NEW i
    PROVE  IsFiniteSet(Confirming(i)) /\ Cardinality(Confirming(i)) \in Nat
  <1>1. Confirming(i) \subseteq BusyBrowsers
    BY DEF Confirming, BusyBrowsers
  <1> QED BY <1>1, SmallerSet DEF BusyFew

LEMMA EndingKeepsConfirmedFew ==
    ASSUME AccountConstants, LinkInv, IntentInv, NEW b \in Browsers, browser[b].pc # "idle",
           browser' = [browser EXCEPT ![b] = AtRest], UNCHANGED <<races, used>>,
           \A i \in IntentIds : used[i] # 0 /\ intent[i] # Absent /\ intent[i].consumed =>
                                    intent'[i] # Absent /\ intent'[i].consumed
    PROVE  ConfirmedFew'
  <1>1. /\ races \in Nat
        /\ browser'[b].pc = "idle" /\ \A c \in Browsers \ {b} : browser'[c] = browser[c]
    BY BusyEnds DEF IntentInv
  <1>2. ASSUME NEW i \in IntentIds
        PROVE  used[i] + Cardinality(Confirming(i)') <= 1 + races'
    <2>1. Confirming(i)' \subseteq Confirming(i)
      BY <1>1 DEF Confirming
    <2>2. Cardinality(Confirming(i)') <= Cardinality(Confirming(i))
          /\ Cardinality(Confirming(i)') \in Nat /\ Cardinality(Confirming(i)) \in Nat
      BY <2>1, ConfirmingCounts, SmallerSet DEF IntentInv
    <2>3. used[i] + Cardinality(Confirming(i)) <= 1 + races /\ used[i] \in Nat
      BY DEF IntentInv, ConfirmedFew
    <2> QED BY <1>1, <2>2, <2>3
  <1> QED BY <1>2 DEF IntentInv, ConfirmedFew, IntentIds

\* A request that ends and confirms nothing.
LEMMA ClosingKeepsIntents ==
    ASSUME AccountConstants, LinkInv, IntentInv, NEW b \in Browsers, browser[b].pc # "idle",
           browser' = [browser EXCEPT ![b] = AtRest], UNCHANGED <<races, used>>, OnlyClosed
    PROVE  IntentInv'
  <1>1. BusyFew'
    BY BusyEnds DEF IntentInv
  <1>2. \A e \in Emails, p \in Providers : OpenIntents(e, p)' \subseteq OpenIntents(e, p)
    BY OpenShrinks
  <1>3. MissedFew'
    <2>1. PICK x : x = 0
      OBVIOUS
    <2>2. \A e \in Emails, p \in Providers : OpenIntents(e, p)' \subseteq OpenIntents(e, p) \cup {x}
      BY <1>2
    <2> QED BY <2>2, EndingKeepsMissedFew
  <1>4. ConfirmedFew'
    BY EndingKeepsConfirmedFew DEF OnlyClosed
  <1>5. IntentsReplaceEachOther'
    BY <1>2, FewerOpen
  <1> QED BY <1>1, <1>3, <1>4, <1>5 DEF IntentInv
LEMMA LapseKeepsIntents ==
    ASSUME AccountConstants, LinkInv, IntentInv, NEW i \in IntentIds, IntentLapses(i)
    PROVE  IntentInv'
  <1>1. intent[i] \in OAuthLinkIntent /\ intent[i] # Absent /\ UNCHANGED <<browser, used, races>>
    BY DEF IntentLapses, LinkInv, AccountTypeOK
  <1>2. PICK w : w = [intent[i] EXCEPT !.late = TRUE]
    OBVIOUS
  <1>3. /\ w \in OAuthLinkIntent /\ intent' = [intent EXCEPT ![i] = w]
        /\ w.user = intent[i].user /\ w.at = intent[i].at /\ w.consumed = intent[i].consumed
    BY <1>1, <1>2 DEF OAuthLinkIntent, IntentLapses
  <1>4. intent'[i] = w /\ w # Absent /\ \A j \in IntentIds \ {i} : intent'[j] = intent[j]
    BY <1>3, AbsentIsNoRow DEF LinkInv, AccountTypeOK
  <1>5. \A e, p : OpenIntents(e, p)' = OpenIntents(e, p)
    BY <1>1, <1>3, <1>4 DEF OpenIntents, IntentIds
  <1>6. BusyFew'
    BY <1>1 DEF IntentInv, BusyFew, BusyBrowsers
  <1>7. IntentsReplaceEachOther'
    BY <1>1, <1>5, FewerOpen
  <1>8. MissedFew'
    <2> SUFFICES ASSUME NEW c \in Browsers, browser[c].pc = "intend"
                 PROVE  Cardinality(Missed(browser[c])') + Cardinality(BusyBrowsers') <= 1 + races'
      BY <1>1 DEF MissedFew
    <2>1. Missed(browser[c])' = Missed(browser[c])
      BY <1>1, <1>5 DEF Missed
    <2>2. BusyBrowsers' = BusyBrowsers
      BY <1>1 DEF BusyBrowsers
    <2> QED BY <1>1, <2>1, <2>2 DEF IntentInv, MissedFew
  <1>9. ConfirmedFew'
    BY <1>1, <1>3, <1>4 DEF IntentInv, ConfirmedFew, IntentIds, Confirming
  <1> QED BY <1>6, <1>7, <1>8, <1>9 DEF IntentInv

LEMMA LateIntentKeepsIntents ==
    ASSUME AccountConstants, LinkInv, IntentInv, NEW b \in Browsers, CommitLateIntent(b)
    PROVE  IntentInv'
  <1>1. PICK i \in IntentIds : i = browser[b].id /\ intent[i] \in OAuthLinkIntent /\ intent[i] # Absent
    BY DEF CommitLateIntent, LinkInv, AccountTypeOK, BrowsersFormed, Formed
  <1>2. PICK w : w = [intent[i] EXCEPT !.consumed = TRUE]
    OBVIOUS
  <1>3. w \in OAuthLinkIntent /\ w.consumed /\ intent' = [intent EXCEPT ![i] = w]
    BY <1>1, <1>2 DEF OAuthLinkIntent, CommitLateIntent
  <1>4. intent'[i] = w /\ w # Absent /\ \A j \in IntentIds \ {i} : intent'[j] = intent[j]
    BY <1>3, AbsentIsNoRow DEF LinkInv, AccountTypeOK
  <1>5. OnlyClosed
    BY <1>3, <1>4 DEF OnlyClosed
  <1> QED BY <1>5, ClosingKeepsIntents DEF CommitLateIntent, Finishes

\* A commit that writes no intent.
LEMMA CommitKeepsIntents ==
    ASSUME AccountConstants, LinkInv, IntentInv, NEW b \in Browsers, browser[b].pc # "idle",
           browser' = [browser EXCEPT ![b] = AtRest], UNCHANGED <<races, used, intent>>
    PROVE  IntentInv'
  <1>1. OnlyClosed
    BY DEF OnlyClosed
  <1> QED BY <1>1, ClosingKeepsIntents

\* The new intent stands beside those that its request has missed.
LEMMA IntentKeepsIntents ==
    ASSUME AccountConstants, LinkInv, IntentInv, NEW b \in Browsers, CommitIntent(b)
    PROVE  IntentInv'
  <1>1. PICK i \in IntentIds : Replaced(i, browser[b])
    BY IntentsReplaced
  <1>2. PICK r : r = browser[b]
    OBVIOUS
  <1>3. browser[b].pc # "idle" /\ browser' = [browser EXCEPT ![b] = AtRest] /\ UNCHANGED <<races, used>>
    BY DEF CommitIntent, Finishes
  <1>4. r.email \in Emails /\ ProviderOf[r.at] \in Providers /\ r.pc = "intend"
    BY <1>2 DEF CommitIntent, LinkInv, BrowsersFormed, Formed, AccountConstants
  <1>5. PICK n : n = NewIntent(r)
    OBVIOUS
  <1>6. n.user = r.email /\ n.at = r.at /\ n \in OAuthLinkIntent
    BY <1>1, <1>2, <1>5 DEF NewIntent, Replaced
  <1>7. /\ intent'[i] = n
        /\ \A j \in IntentIds \ {i} :
              IF j \in r.previous THEN intent[j] # Absent /\ intent'[j].consumed ELSE intent'[j] = intent[j]
        /\ intent[i] = Absent
        /\ \A j \in IntentIds : intent[j] # Absent => intent'[j] # Absent
    BY <1>1, <1>2, <1>5 DEF Replaced
  <1>8. ASSUME NEW e \in Emails, NEW p \in Providers
        PROVE  OpenIntents(e, p)' \subseteq (OpenIntents(e, p) \ r.previous) \cup {i}
    BY <1>7 DEF OpenIntents, IntentIds
  <1>9. ASSUME NEW e \in Emails, NEW p \in Providers, ~(e = r.email /\ p = ProviderOf[r.at])
        PROVE  OpenIntents(e, p)' \subseteq OpenIntents(e, p)
    <2>1. i \notin OpenIntents(e, p)'
      BY <1>6, <1>7, <1>9 DEF OpenIntents
    <2> QED BY <1>8, <2>1
  <1>10. BusyFew'
    BY <1>3, BusyEnds DEF IntentInv
  <1>11. MissedFew'
    <2>1. \A e \in Emails, p \in Providers : OpenIntents(e, p)' \subseteq OpenIntents(e, p) \cup {i}
      BY <1>8
    <2> QED BY <1>3, <2>1, EndingKeepsMissedFew
  <1>12. ConfirmedFew'
    <2>1. ASSUME NEW j \in IntentIds, intent[j] # Absent, intent[j].consumed
          PROVE  intent'[j] # Absent /\ intent'[j].consumed
      BY <1>7, <2>1
    <2> QED BY <1>3, <2>1, EndingKeepsConfirmedFew
  <1>13. IntentsReplaceEachOther'
    <2> SUFFICES ASSUME NEW e \in Emails, NEW p \in Providers
                 PROVE  Cardinality(OpenIntents(e, p)') <= 1 + races'
      BY DEF IntentsReplaceEachOther
    <2>0. races \in Nat
      BY DEF LinkInv, AccountTypeOK, AccountConstants
    <2>1. CASE e = r.email /\ p = ProviderOf[r.at]
      <3>1. OpenIntents(e, p)' \subseteq Missed(r) \cup {i}
        BY <1>8, <2>1 DEF Missed
      <3>2. IsFiniteSet(Missed(r))
        BY IntentSets DEF Missed, OpenIntents
      <3>3. Cardinality(OpenIntents(e, p)') <= Cardinality(Missed(r)) + 1
            /\ Cardinality(OpenIntents(e, p)') \in Nat /\ Cardinality(Missed(r)) \in Nat
        BY <3>1, <3>2, OneMoreBrowser
      <3>4. Cardinality(Missed(r)) + Cardinality(BusyBrowsers) <= 1 + races
        BY <1>2, <1>4 DEF IntentInv, MissedFew
      <3>5. Cardinality(BusyBrowsers') + 1 = Cardinality(BusyBrowsers) /\ Cardinality(BusyBrowsers') \in Nat
        BY <1>3, BusyEnds DEF IntentInv
      <3> QED BY <1>3, <2>0, <3>3, <3>4, <3>5
    <2>2. CASE ~(e = r.email /\ p = ProviderOf[r.at])
      <3>1. OpenIntents(e, p)' \subseteq OpenIntents(e, p) /\ OpenIntents(e, p) \subseteq IntentIds
        BY <1>9, <2>2 DEF OpenIntents
      <3>2. Cardinality(OpenIntents(e, p)') <= Cardinality(OpenIntents(e, p))
            /\ Cardinality(OpenIntents(e, p)') \in Nat /\ Cardinality(OpenIntents(e, p)) \in Nat
        BY <3>1, IntentSets, SmallerSet
      <3>3. Cardinality(OpenIntents(e, p)) <= 1 + races
        BY DEF IntentInv, IntentsReplaceEachOther
      <3> QED BY <1>3, <2>0, <3>2, <3>3
    <2> QED BY <2>1, <2>2
  <1> QED BY <1>10, <1>11, <1>12, <1>13 DEF IntentInv

LEMMA ConfirmationKeepsIntents ==
    ASSUME AccountConstants, LinkInv, IntentInv, NEW b \in Browsers, CommitConfirmation(b)
    PROVE  IntentInv'
  <1>1. PICK i \in IntentIds : /\ i = browser[b].id /\ browser[b].pc = "confirm"
                               /\ intent[i] \in OAuthLinkIntent /\ intent[i] # Absent
    BY DEF CommitConfirmation, LinkInv, AccountTypeOK, BrowsersFormed, Formed
  <1>2. PICK w : w = [intent[i] EXCEPT !.consumed = TRUE]
    OBVIOUS
  <1>3. /\ w \in OAuthLinkIntent /\ w.consumed /\ intent' = [intent EXCEPT ![i] = w]
        /\ used' = [used EXCEPT ![i] = @ + 1]
        /\ browser' = [browser EXCEPT ![b] = AtRest] /\ races' = races
    BY <1>1, <1>2 DEF OAuthLinkIntent, CommitConfirmation, Consumed, Finishes
  <1>4. intent'[i] = w /\ w # Absent /\ \A j \in IntentIds \ {i} : intent'[j] = intent[j]
    BY <1>3, AbsentIsNoRow DEF LinkInv, AccountTypeOK
  <1>5. OnlyClosed
    BY <1>3, <1>4 DEF OnlyClosed
  <1>6. \A e \in Emails, p \in Providers : OpenIntents(e, p)' \subseteq OpenIntents(e, p)
    BY <1>5, OpenShrinks
  <1>7. BusyFew' /\ races \in Nat /\ browser'[b].pc = "idle"
        /\ \A c \in Browsers \ {b} : browser'[c] = browser[c]
    BY <1>1, <1>3, BusyEnds DEF IntentInv
  <1>8. MissedFew'
    <2>1. \A e \in Emails, p \in Providers : OpenIntents(e, p)' \subseteq OpenIntents(e, p) \cup {i}
      BY <1>6
    <2> QED BY <1>1, <1>3, <2>1, EndingKeepsMissedFew
  <1>9. IntentsReplaceEachOther'
    BY <1>3, <1>6, FewerOpen
  <1>10. /\ used' \in [IntentIds -> Nat] /\ used'[i] = used[i] + 1
         /\ \A j \in IntentIds \ {i} : used'[j] = used[j]
         /\ \A j \in IntentIds : used[j] \in Nat /\ used[j] + Cardinality(Confirming(j)) <= 1 + races
    BY <1>3 DEF IntentInv, ConfirmedFew
  <1>11. ASSUME NEW j \in IntentIds
         PROVE  used'[j] + Cardinality(Confirming(j)') <= 1 + races'
    <2>0. IsFiniteSet(Confirming(j)) /\ Cardinality(Confirming(j)) \in Nat
      BY ConfirmingCounts DEF IntentInv
    <2>1. CASE j = i
      <3>1. Confirming(j)' = Confirming(j) \ {b} /\ b \in Confirming(j)
        BY <1>1, <1>7, <2>1 DEF Confirming
      <3>2. Cardinality(Confirming(j)') = Cardinality(Confirming(j)) - 1
        BY <2>0, <3>1, FS_RemoveElement
      <3>3. used'[j] = used[j] + 1 /\ used[j] \in Nat /\ used[j] + Cardinality(Confirming(j)) <= 1 + races
        BY <1>10, <2>1
      <3> QED BY <1>3, <1>7, <2>0, <3>2, <3>3
    <2>2. CASE j # i
      <3>1. Confirming(j)' = Confirming(j)
        BY <1>1, <1>7, <2>2 DEF Confirming
      <3> QED BY <1>3, <1>10, <2>2, <3>1
    <2> QED BY <2>1, <2>2
  <1>12. ASSUME NEW j \in IntentIds, used'[j] # 0
         PROVE  intent'[j] # Absent /\ intent'[j].consumed
    BY <1>3, <1>4, <1>10, <1>12 DEF IntentInv, ConfirmedFew
  <1>13. ConfirmedFew'
    BY <1>10, <1>11, <1>12 DEF ConfirmedFew, IntentIds
  <1> QED BY <1>7, <1>8, <1>9, <1>13 DEF IntentInv
-----------------------------------------------------------------------------
LEMMA AccountStarts ==
    ASSUME AccountConstants, AccountInit
    PROVE  AccountIInv
  <1>1. AtRest \in BrowserState /\ AtRest.pc = "idle" /\ AtRest.previous = {}
    BY RestIsFormed
  <1>2. AccountTypeOK /\ workspaces \in [Emails -> Nat] /\ used \in [IntentIds -> Nat]
    BY <1>1 DEF AccountInit, AccountTypeOK, AccountConstants
  <1>3. BrowsersFormed
    BY <1>1 DEF BrowsersFormed, Formed, AccountInit
  <1>4. UsersExist /\ VerifiedByPassword /\ LinksAreOneToOne /\ PasswordComesFirst /\ AccountsAreWhole
    BY DEF AccountInit, UsersExist, VerifiedByPassword, LinksAreOneToOne, PasswordComesFirst, AccountsAreWhole
  <1>5. BusyBrowsers = {} /\ \A i : Confirming(i) = {}
    BY <1>1 DEF AccountInit, BusyBrowsers, Confirming
  <1>6. BusyFew /\ MissedFew /\ ConfirmedFew
    BY <1>1, <1>2, <1>5, FS_EmptySet DEF AccountInit, BusyFew, MissedFew, ConfirmedFew
  <1>7. IntentsReplaceEachOther
    <2>1. \A e, p : OpenIntents(e, p) = {}
      BY DEF AccountInit, OpenIntents
    <2> QED BY <2>1, FS_EmptySet DEF IntentsReplaceEachOther, AccountInit
  <1> QED BY <1>2, <1>3, <1>4, <1>6, <1>7 DEF AccountIInv, LinkInv, IntentInv

LEMMA AccountSteps ==
    ASSUME AccountConstants, AccountIInv, [AccountNext]_accountVars
    PROVE  AccountIInv'
  <1> USE DEF AccountIInv
  <1>1. CASE UNCHANGED accountVars
    <2>1. BrowsersFormed'
      BY <1>1 DEF accountVars, LinkInv, BrowsersFormed, Formed, BrowserState, IntentIds
    <2>2. LinkInv'
      BY <1>1, <2>1, LinksUntouched DEF accountVars, LinkInv, AccountTypeOK
    <2>3. IntentInv'
      BY <1>1 DEF accountVars, IntentInv, BusyFew, BusyBrowsers, MissedFew, Missed, ConfirmedFew, Confirming,
                  IntentsReplaceEachOther, OpenIntents, IntentIds
    <2> QED BY <2>2, <2>3
  <1>2. ASSUME NEW b \in Browsers, Begins(b) PROVE AccountIInv'
    BY <1>2, RequestsBeginFormed, FindsKeepsLinks, BeginningKeepsIntents
  <1>3. ASSUME NEW b \in Browsers, CommitRegistration(b) PROVE AccountIInv'
    BY <1>3, RegistrationKeepsLinks, CommitKeepsIntents DEF CommitRegistration, Finishes
  <1>4. ASSUME NEW b \in Browsers, CommitNewUser(b) PROVE AccountIInv'
    BY <1>4, NewUserKeepsLinks, CommitKeepsIntents DEF CommitNewUser, Finishes
  <1>5. ASSUME NEW b \in Browsers, CommitLink(b) PROVE AccountIInv'
    BY <1>5, LinkKeepsLinks, CommitKeepsIntents DEF CommitLink, Finishes
  <1>6. ASSUME NEW b \in Browsers, CommitIntent(b) PROVE AccountIInv'
    BY <1>6, IntentKeepsLinks, IntentKeepsIntents
  <1>7. ASSUME NEW b \in Browsers, CommitConfirmation(b) PROVE AccountIInv'
    BY <1>7, ConfirmationKeepsLinks, ConfirmationKeepsIntents
  <1>8. ASSUME NEW b \in Browsers, CommitLateIntent(b) PROVE AccountIInv'
    BY <1>8, LateIntentKeepsLinks, LateIntentKeepsIntents
  <1>9. ASSUME NEW b \in Browsers, BrowserGivesUp(b) PROVE AccountIInv'
    BY <1>9, GivingUpKeepsLinks, CommitKeepsIntents DEF BrowserGivesUp
  <1>10. ASSUME NEW i \in IntentIds, IntentLapses(i) PROVE AccountIInv'
    BY <1>10, LapseKeepsLinks, LapseKeepsIntents
  <1> QED BY <1>1, <1>2, <1>3, <1>4, <1>5, <1>6, <1>7, <1>8, <1>9, <1>10 DEF AccountNext, Begins

\* The inductive invariant: the links and accounts, and the requests at work on
\* the intents, counted against the races.
THEOREM AccountsInvariance ==
    AccountSpec => []AccountIInv
  BY AccountConstants, AccountStarts, AccountSteps, PTL DEF AccountSpec

LEMMA AccountsAgree ==
    ASSUME AccountConstants, AccountIInv
    PROVE  AccountInv
  <1>1. IntentsWorkOnce
    <2> SUFFICES ASSUME NEW i \in IntentIds PROVE used[i] <= 1 + races
      BY DEF IntentsWorkOnce
    <2>1. used[i] \in Nat /\ used[i] + Cardinality(Confirming(i)) <= 1 + races /\ races \in Nat
      BY DEF AccountIInv, LinkInv, AccountTypeOK, AccountConstants, IntentInv, ConfirmedFew
    <2>2. Cardinality(Confirming(i)) \in Nat
      BY ConfirmingCounts DEF AccountIInv, IntentInv
    <2> QED BY <2>1, <2>2
  <1> QED BY <1>1 DEF AccountInv, AccountIInv, LinkInv, IntentInv

\* AccountInv: links are one to one, a password comes before the links of its
\* account, accounts are whole, and open intents and their confirmations are one,
\* and one more per race; for any number of browsers, addresses and providers.
THEOREM AccountsAreSound ==
    AccountSpec => []AccountInv
  BY AccountConstants, AccountsInvariance, AccountsAgree, PTL
-----------------------------------------------------------------------------
\* Installations.

InstallSpec == InstallInit /\ [][InstallNext]_installVars

OpenIntent == [state : {"open", "expired", "consumed"}, tenant : Holders]
Installed == [tenant : Holders, status : {"active", "suspended", "revoked"}]
Connected == [status : {"active", "revoked"}, installation : Provided \cup {Public}, repo : Repos]

\* Requests at work, by what they are about.
Completing == [pc : {"complete"}, install_intent : InstallIntents, installation : Provided]
Connecting ==
    [pc : {"connect"}, site : ConnectedSites, installation : Provided \cup {Public},
     repo : Repos, read : Repos \cup {NoRepo}]
Disconnecting ==
    [pc : {"disconnect"}, installation : Provided, sites : SUBSET ConnectedSites,
     active : SUBSET ConnectedSites, repos : SUBSET ConnectedSites]
ConnectorState == {Waiting} \cup Completing \cup Connecting \cup Disconnecting

InstallTypeOK ==
    /\ install_intent \in [InstallIntents -> OpenIntent \cup {NoInstallIntent}]
    /\ installation \in [Provided -> Installed \cup {NoInstallation}]
    /\ connection \in [ConnectedSites -> Connected \cup {NoConnection}]
    /\ github_repo \in [ConnectedSites -> Repos \cup {NoRepo}]
    /\ connector \in [Connectors -> ConnectorState]
    /\ completions \in [InstallIntents -> SUBSET Provided]
    /\ crossedSites \subseteq ConnectedSites

\* An installation that is there belongs to the workspace for good.
Belongs(i, t) == installation[i] # NoInstallation /\ installation[i].tenant = t

\* What a request at work has read that no commit takes back.
ConnectorKnows(w) ==
    /\ w.pc = "connect" /\ w.installation # Public => Belongs(w.installation, TenantOf[w.site])
    /\ w.pc = "disconnect" =>
          installation[w.installation] # NoInstallation /\ \A s \in w.active : connection[s] # NoConnection

\* What it has read is still so, where no other request has crossed it.
Current(w) ==
    /\ w.pc = "connect" /\ w.site \notin crossedSites =>
          /\ github_repo[w.site] = w.read
          /\ w.installation # Public => installation[w.installation].status # "revoked"
    /\ w.pc = "disconnect" => \A s \in ConnectedSites \ crossedSites :
          /\ s \in w.sites <=> connection[s] # NoConnection /\ connection[s].installation = w.installation
          /\ s \in w.active <=> s \in w.sites /\ connection[s].status = "active"
          /\ s \in w.repos <=> s \in w.sites /\ github_repo[s] # NoRepo

\* The lock on an intent: one request completes it, and it has not been spent.
IntentsHeld ==
    /\ \A q \in Connectors : connector[q].pc = "complete" =>
          /\ install_intent[connector[q].install_intent].state \in {"open", "expired"}
          /\ \A o \in Connectors :
                connector[o].pc = "complete" /\ connector[o].install_intent = connector[q].install_intent => o = q
    /\ \A n \in InstallIntents :
          /\ completions[n] # {} => install_intent[n].state = "consumed"
          /\ completions[n] = {} \/ \E i \in Provided : completions[n] = {i}

\* A connection's installation is there, and its workspace's.
ConnectionsBelong ==
    \A s \in ConnectedSites :
        connection[s] # NoConnection /\ connection[s].installation # Public =>
            Belongs(connection[s].installation, TenantOf[s])

RequestsKnow == \A q \in Connectors : ConnectorKnows(connector[q]) /\ Current(connector[q])
\* A request writes those sites only that it read.
WritesWhatItRead ==
    \A q \in Connectors : connector[q].pc = "disconnect" =>
        connector[q].active \subseteq connector[q].sites /\ connector[q].repos \subseteq connector[q].sites

InstallIInv ==
    InstallTypeOK /\ IntentsHeld /\ ConnectionsBelong /\ RequestsKnow /\ WritesWhatItRead /\ RevokedIsGone
-----------------------------------------------------------------------------
\* The requests at work, by what they are about.

LEMMA StateCases ==
    ASSUME NEW w \in ConnectorState
    PROVE  /\ w = Waiting \/ w \in Completing \/ w \in Connecting \/ w \in Disconnecting
           /\ w.pc \in {"idle", "complete", "connect", "disconnect"}
           /\ w.pc = "complete" => w \in Completing /\ w.install_intent \in InstallIntents /\ w.installation \in Provided
           /\ w.pc = "connect" =>
                 /\ w \in Connecting /\ w.site \in ConnectedSites /\ w.installation \in Provided \cup {Public}
                 /\ w.repo \in Repos /\ w.read \in Repos \cup {NoRepo}
           /\ w.pc = "disconnect" =>
                 /\ w \in Disconnecting /\ w.installation \in Provided
                 /\ {w.sites, w.active, w.repos} \subseteq SUBSET ConnectedSites
  <1>1. CASE w = Waiting
    BY <1>1 DEF Waiting
  <1>2. CASE w \in Completing
    BY <1>2 DEF Completing
  <1>3. CASE w \in Connecting
    BY <1>3 DEF Connecting
  <1>4. CASE w \in Disconnecting
    BY <1>4 DEF Disconnecting
  <1> QED BY <1>1, <1>2, <1>3, <1>4 DEF ConnectorState

LEMMA WaitingState ==
    Waiting \in ConnectorState /\ Waiting.pc = "idle"
  BY DEF ConnectorState, Waiting

\* One request moves.
LEMMA OneMoves ==
    ASSUME InstallTypeOK, NEW q \in Connectors, NEW w \in ConnectorState, Moves(q, w)
    PROVE  /\ connector' \in [Connectors -> ConnectorState] /\ connector'[q] = w
           /\ \A o \in Connectors \ {q} : connector'[o] = connector[o]
  BY DEF Moves, InstallTypeOK

\* Rows that are missing have another status than those that are there.
LEMMA MissingRows ==
    /\ \A x \in OpenIntent : x # NoInstallIntent /\ x.state \in {"open", "expired", "consumed"}
    /\ \A x \in Installed : x # NoInstallation /\ x.status \in {"active", "suspended", "revoked"} /\ x.tenant \in Holders
    /\ \A x \in Connected : /\ x # NoConnection /\ x.status \in {"active", "revoked"}
                            /\ x.installation \in Provided \cup {Public} /\ x.repo \in Repos
    /\ NoInstallIntent.state = "absent" /\ NoInstallation.status = "absent" /\ NoConnection.status = "absent"
  BY DEF OpenIntent, Installed, Connected, NoInstallIntent, NoInstallation, NoConnection

\* A step that touches no installation, connection or site leaves what the
\* requests know as it is.
LEMMA ConnectorKnowsStays ==
    ASSUME UNCHANGED <<installation, connection, github_repo, crossedSites>>, NEW w
    PROVE  ConnectorKnows(w)' = ConnectorKnows(w) /\ Current(w)' = Current(w)
  BY DEF ConnectorKnows, Current, Belongs, ConnectedSites

\* The invariant, where neither those nor the intents are touched by a step.
LEMMA RequestMoves ==
    ASSUME InstallIInv, NEW q \in Connectors, NEW w \in ConnectorState, Moves(q, w),
           ConnectorKnows(w), Current(w),
           w.pc = "disconnect" => w.active \subseteq w.sites /\ w.repos \subseteq w.sites,
           w.pc = "complete" =>
              /\ install_intent[w.install_intent].state = "open"
              /\ ~IntentLocked(w.install_intent),
           UNCHANGED <<install_intent, installation, connection, github_repo, completions, crossedSites>>
    PROVE  InstallIInv'
  <1>1. /\ connector' \in [Connectors -> ConnectorState] /\ connector'[q] = w
        /\ \A o \in Connectors \ {q} : connector'[o] = connector[o]
    BY OneMoves DEF InstallIInv
  <1>2. InstallTypeOK'
    BY <1>1 DEF InstallIInv, InstallTypeOK, ConnectedSites, ConnectorState, Completing, Connecting, Disconnecting, Connected
  <1>3. ConnectionsBelong' /\ RevokedIsGone'
    BY DEF InstallIInv, ConnectionsBelong, Belongs, RevokedIsGone, ConnectedSites
  <1>4. WritesWhatItRead'
    BY <1>1 DEF InstallIInv, WritesWhatItRead
  <1>5. RequestsKnow'
    <2> SUFFICES ASSUME NEW o \in Connectors PROVE ConnectorKnows(connector[o])' /\ Current(connector[o])'
      BY DEF RequestsKnow
    <2>1. PICK v : v = connector'[o]
      OBVIOUS
    <2>2. ConnectorKnows(v) /\ Current(v)
      BY <1>1, <2>1 DEF InstallIInv, RequestsKnow
    <2>3. ConnectorKnows(v)' /\ Current(v)'
      BY <2>2, ConnectorKnowsStays
    <2> QED BY <2>1, <2>3 DEF ConnectorKnows, Current
  <1>6. IntentsHeld'
    <2>1. \A n \in InstallIntents : completions'[n] = completions[n] /\ install_intent'[n] = install_intent[n]
      OBVIOUS
    <2>2. ASSUME NEW o \in Connectors, connector'[o].pc = "complete"
          PROVE  /\ install_intent[connector'[o].install_intent].state \in {"open", "expired"}
                 /\ \A p \in Connectors : connector'[p].pc = "complete"
                       /\ connector'[p].install_intent = connector'[o].install_intent => p = o
      BY <1>1, <2>2 DEF InstallIInv, IntentsHeld, IntentLocked
    <2> QED BY <2>2 DEF InstallIInv, IntentsHeld
  <1> QED BY <1>2, <1>3, <1>4, <1>5, <1>6 DEF InstallIInv
-----------------------------------------------------------------------------
\* Requests begin and end.

LEMMA EndKeeps ==
    ASSUME InstallIInv, NEW q \in Connectors, ConnectorEnds(q)
    PROVE  InstallIInv'
  <1>1. PICK w : w = Waiting
    OBVIOUS
  <1>2. w \in ConnectorState /\ w.pc = "idle"
    BY <1>1, WaitingState
  <1>3. ConnectorKnows(w) /\ Current(w)
    BY <1>2 DEF ConnectorKnows, Current
  <1> QED BY <1>1, <1>2, <1>3, RequestMoves DEF ConnectorEnds

LEMMA CompletionBegins ==
    ASSUME InstallIInv, NEW q \in Connectors, NEW n \in InstallIntents, NEW i \in Provided,
           complete_installation(q, n, i)
    PROVE  InstallIInv'
  <1>1. PICK w : w = [pc |-> "complete", install_intent |-> n, installation |-> i]
    OBVIOUS
  <1>2. w \in ConnectorState /\ w.pc = "complete" /\ w.install_intent = n
    BY <1>1 DEF ConnectorState, Completing
  <1>3. ConnectorKnows(w) /\ Current(w)
    BY <1>2 DEF ConnectorKnows, Current
  <1> QED BY <1>1, <1>2, <1>3, RequestMoves DEF complete_installation

LEMMA ConnectionBegins ==
    ASSUME InstallIInv, NEW q \in Connectors, NEW s \in ConnectedSites, NEW r \in Repos,
           connect_public_repository(q, s, r) \/ \E i \in Provided : connect_authorized_repository(q, s, i, r)
    PROVE  InstallIInv'
  <1>1. PICK i \in Provided \cup {Public} :
            /\ i # Public => installation[i].status = "active" /\ installation[i].tenant = TenantOf[s] /\ i \in Provided
            /\ Moves(q, [pc |-> "connect", site |-> s, installation |-> i, repo |-> r, read |-> github_repo[s]])
            /\ UNCHANGED <<install_intent, installation, connection, github_repo, completions, crossedSites>>
    BY NamesAreApart DEF connect_public_repository, connect_authorized_repository
  <1>2. PICK w : w = [pc |-> "connect", site |-> s, installation |-> i, repo |-> r, read |-> github_repo[s]]
    OBVIOUS
  <1>3. github_repo[s] \in Repos \cup {NoRepo}
    BY DEF InstallIInv, InstallTypeOK
  <1>4. w \in ConnectorState
    BY <1>2, <1>3 DEF ConnectorState, Connecting
  <1>5. w.pc = "connect" /\ w.site = s /\ w.installation = i /\ w.repo = r /\ w.read = github_repo[s]
    BY <1>2
  <1>6. ConnectorKnows(w) /\ Current(w)
    BY <1>1, <1>5, MissingRows DEF ConnectorKnows, Current, Belongs
  <1> QED BY <1>1, <1>2, <1>4, <1>5, <1>6, RequestMoves

LEMMA DisconnectionBegins ==
    ASSUME InstallIInv, NEW q \in Connectors, NEW i \in Provided, disconnect_installation(q, i)
    PROVE  InstallIInv'
  <1>1. PICK sites, active, repos :
            /\ sites = {s \in ConnectedSites : connection[s] # NoConnection /\ connection[s].installation = i}
            /\ active = {s \in sites : connection[s].status = "active"}
            /\ repos = {s \in sites : github_repo[s] # NoRepo}
    OBVIOUS
  <1>2. PICK w : w = [pc |-> "disconnect", installation |-> i, sites |-> sites, active |-> active, repos |-> repos]
    OBVIOUS
  <1>3. {sites, active, repos} \subseteq SUBSET ConnectedSites
    BY <1>1
  <1>4. w \in ConnectorState
    BY <1>2, <1>3 DEF ConnectorState, Disconnecting
  <1>5. w.pc = "disconnect" /\ w.installation = i /\ w.sites = sites /\ w.active = active /\ w.repos = repos
    BY <1>2
  <1>6. ConnectorKnows(w) /\ Current(w)
    BY <1>1, <1>5 DEF ConnectorKnows, Current, disconnect_installation
  <1>7. Moves(q, w)
    BY <1>1, <1>2 DEF disconnect_installation
  <1> QED BY <1>1, <1>4, <1>5, <1>6, <1>7, RequestMoves DEF disconnect_installation
-----------------------------------------------------------------------------
\* Intents are created and expire.

\* A new state of one intent, which no request relies on.
LEMMA IntentChanges ==
    ASSUME InstallIInv, NEW n \in InstallIntents, NEW x \in OpenIntent,
           install_intent' = [install_intent EXCEPT ![n] = x],
           install_intent[n] = NoInstallIntent \/ (install_intent[n].state = "open" /\ x.state = "expired"),
           UNCHANGED <<installation, connection, github_repo, connector, completions, crossedSites>>
    PROVE  InstallIInv'
  <1>1. /\ install_intent' \in [InstallIntents -> OpenIntent \cup {NoInstallIntent}] /\ install_intent'[n] = x
        /\ \A m \in InstallIntents \ {n} : install_intent'[m] = install_intent[m]
    BY DEF InstallIInv, InstallTypeOK
  <1>2. InstallTypeOK'
    BY <1>1 DEF InstallIInv, InstallTypeOK, ConnectedSites, ConnectorState, Completing, Connecting, Disconnecting, Connected
  <1>3. ConnectionsBelong' /\ RevokedIsGone' /\ WritesWhatItRead'
    BY DEF InstallIInv, ConnectionsBelong, Belongs, RevokedIsGone, ConnectedSites, WritesWhatItRead
  <1>4. RequestsKnow'
    <2> SUFFICES ASSUME NEW o \in Connectors PROVE ConnectorKnows(connector[o])' /\ Current(connector[o])'
      BY DEF RequestsKnow
    <2>1. PICK v : v = connector[o]
      OBVIOUS
    <2>2. ConnectorKnows(v)' /\ Current(v)'
      BY <2>1, ConnectorKnowsStays DEF InstallIInv, RequestsKnow
    <2> QED BY <2>1, <2>2 DEF ConnectorKnows, Current
  <1>5. NoInstallIntent.state = "absent"
    BY MissingRows
  <1>6. \A q \in Connectors : connector[q].pc = "complete" =>
           install_intent[connector[q].install_intent].state \in {"open", "expired"}
           /\ connector[q].install_intent \in InstallIntents
    BY StateCases DEF InstallIInv, IntentsHeld, InstallTypeOK
  <1>7. IntentsHeld'
    BY <1>1, <1>5, <1>6 DEF InstallIInv, IntentsHeld
  <1> QED BY <1>2, <1>3, <1>4, <1>7 DEF InstallIInv

LEMMA IntentBegins ==
    ASSUME InstallIInv, NEW n \in InstallIntents, NEW t \in Holders, create_install_intent(n, t)
    PROVE  InstallIInv'
  <1>1. PICK x : x = [state |-> "open", tenant |-> t]
    OBVIOUS
  <1>2. x \in OpenIntent
    BY <1>1 DEF OpenIntent
  <1> QED BY <1>1, <1>2, IntentChanges DEF create_install_intent

LEMMA IntentExpires ==
    ASSUME InstallIInv, NEW n \in InstallIntents, InstallIntentExpires(n)
    PROVE  InstallIInv'
  <1>1. PICK x : x = [install_intent[n] EXCEPT !.state = "expired"]
    OBVIOUS
  <1>2. install_intent[n] \in OpenIntent
    BY MissingRows DEF InstallIntentExpires, InstallIInv, InstallTypeOK
  <1>3. x \in OpenIntent /\ x.state = "expired"
    BY <1>1, <1>2 DEF OpenIntent
  <1>4. install_intent' = [install_intent EXCEPT ![n] = x] /\ install_intent[n].state = "open"
    BY <1>1 DEF InstallIntentExpires
  <1> QED BY <1>3, <1>4, IntentChanges DEF InstallIntentExpires
-----------------------------------------------------------------------------
\* The commits.  A state that another request than q is in.
OtherState(q, v) == \E o \in Connectors \ {q} : v = connector[o]

LEMMA OthersAre ==
    ASSUME InstallIInv, NEW q \in Connectors, NEW v, OtherState(q, v)
    PROVE  /\ v \in ConnectorState /\ ConnectorKnows(v) /\ Current(v)
           /\ v.pc = "disconnect" => v.active \subseteq v.sites /\ v.repos \subseteq v.sites
  BY DEF OtherState, InstallIInv, InstallTypeOK, RequestsKnow, WritesWhatItRead

\* A request that commits is done, so that the others are what matters.
LEMMA RequestsKnowAfter ==
    ASSUME InstallIInv, NEW q \in Connectors, Moves(q, Waiting),
           \A v : OtherState(q, v) => ConnectorKnows(v)' /\ Current(v)'
    PROVE  /\ RequestsKnow' /\ WritesWhatItRead'
           /\ connector' \in [Connectors -> ConnectorState] /\ connector'[q].pc = "idle"
           /\ \A o \in Connectors \ {q} : connector'[o] = connector[o]
  <1>1. /\ connector' \in [Connectors -> ConnectorState] /\ connector'[q] = Waiting
        /\ \A o \in Connectors \ {q} : connector'[o] = connector[o]
    BY OneMoves, WaitingState DEF InstallIInv
  <1>2. ASSUME NEW o \in Connectors PROVE ConnectorKnows(connector[o])' /\ Current(connector[o])'
    <2>1. CASE o = q
      BY <1>1, <2>1, WaitingState DEF ConnectorKnows, Current
    <2>2. CASE o # q
      <3>1. PICK v : v = connector[o]
        OBVIOUS
      <3>2. connector'[o] = v /\ OtherState(q, v)
        BY <1>1, <2>2, <3>1 DEF OtherState
      <3>3. ConnectorKnows(v)' /\ Current(v)'
        BY <3>2
      <3> QED BY <3>2, <3>3 DEF ConnectorKnows, Current
    <2> QED BY <2>1, <2>2
  <1>3. WritesWhatItRead'
    BY <1>1, WaitingState DEF InstallIInv, WritesWhatItRead
  <1> QED BY <1>1, <1>2, <1>3, WaitingState DEF RequestsKnow

\* The locks on intents, where no intent is touched.
LEMMA IntentsStayHeld ==
    ASSUME InstallIInv, NEW q \in Connectors, UNCHANGED <<install_intent, completions>>,
           connector'[q].pc = "idle", \A o \in Connectors \ {q} : connector'[o] = connector[o]
    PROVE  IntentsHeld'
  <1>1. ASSUME NEW o \in Connectors, connector'[o].pc = "complete"
        PROVE  /\ install_intent[connector'[o].install_intent].state \in {"open", "expired"}
               /\ \A p \in Connectors : connector'[p].pc = "complete"
                     /\ connector'[p].install_intent = connector'[o].install_intent => p = o
    BY <1>1 DEF InstallIInv, IntentsHeld
  <1> QED BY <1>1 DEF InstallIInv, IntentsHeld

LEMMA InstallationCommits ==
    ASSUME InstallIInv, NEW q \in Connectors, CommitInstallation(q)
    PROVE  InstallIInv'
  <1>1. PICK w : w = connector[q]
    OBVIOUS
  <1>2. PICK n \in InstallIntents, i \in Provided :
            n = w.install_intent /\ i = w.installation /\ w.pc = "complete"
    BY <1>1, StateCases DEF CommitInstallation, InstallIInv, InstallTypeOK
  <1>3. install_intent[n].state \in {"open", "expired"} /\ install_intent[n] \in OpenIntent
    BY <1>1, <1>2, MissingRows DEF InstallIInv, IntentsHeld, InstallTypeOK
  <1>4. PICK x : /\ x \in Installed /\ x.tenant = install_intent[n].tenant /\ x.status # "revoked"
                 /\ installation' = [installation EXCEPT ![i] = x]
    <2>1. PICK status \in {"active", "suspended"} :
              installation' = [installation EXCEPT ![i] = [tenant |-> install_intent[n].tenant, status |-> status]]
      BY <1>1, <1>2 DEF CommitInstallation
    <2>2. PICK x : x = [tenant |-> install_intent[n].tenant, status |-> status]
      OBVIOUS
    <2>3. x \in Installed /\ x.tenant = install_intent[n].tenant /\ x.status # "revoked"
      BY <1>3, <2>2 DEF Installed, OpenIntent
    <2> QED BY <2>1, <2>2, <2>3
  <1>5. /\ installation[i] # NoInstallation => installation[i].tenant = x.tenant
        /\ install_intent' = [install_intent EXCEPT ![n].state = "consumed"]
        /\ completions' = [completions EXCEPT ![n] = @ \cup {i}]
        /\ Moves(q, Waiting) /\ UNCHANGED <<connection, github_repo, crossedSites>>
    BY <1>1, <1>2, <1>4 DEF CommitInstallation, MayTake
  <1>6. /\ installation' \in [Provided -> Installed \cup {NoInstallation}] /\ installation'[i] = x
        /\ \A j \in Provided \ {i} : installation'[j] = installation[j]
        /\ x # NoInstallation
    BY <1>4, MissingRows DEF InstallIInv, InstallTypeOK
  <1>7. \A j \in Provided : \A t : Belongs(j, t) => Belongs(j, t)'
    BY <1>5, <1>6 DEF Belongs
  <1>8. ASSUME NEW v, OtherState(q, v) PROVE ConnectorKnows(v)' /\ Current(v)'
    <2>1. v \in ConnectorState /\ ConnectorKnows(v) /\ Current(v)
      BY <1>8, OthersAre
    <2>2. ConnectorKnows(v)'
      BY <1>5, <1>6, <1>7, <2>1, StateCases DEF ConnectorKnows
    <2>3. Current(v)'
      BY <1>4, <1>5, <1>6, <2>1, StateCases DEF Current, ConnectedSites
    <2> QED BY <2>2, <2>3
  <1>9. /\ RequestsKnow' /\ WritesWhatItRead'
        /\ connector' \in [Connectors -> ConnectorState] /\ connector'[q].pc = "idle"
        /\ \A o \in Connectors \ {q} : connector'[o] = connector[o]
    BY <1>5, <1>8, RequestsKnowAfter
  <1>10. PICK y : y = [install_intent[n] EXCEPT !.state = "consumed"]
    OBVIOUS
  <1>11. /\ y \in OpenIntent /\ y.state = "consumed" /\ install_intent' = [install_intent EXCEPT ![n] = y]
         /\ install_intent' \in [InstallIntents -> OpenIntent \cup {NoInstallIntent}] /\ install_intent'[n] = y
         /\ \A m \in InstallIntents \ {n} : install_intent'[m] = install_intent[m]
    <2>1. y \in OpenIntent /\ y.state = "consumed"
      BY <1>3, <1>10 DEF OpenIntent
    <2>2. install_intent' = [install_intent EXCEPT ![n] = y]
      BY <1>5, <1>10
    <2> QED BY <2>1, <2>2 DEF InstallIInv, InstallTypeOK
  <1>12. /\ completions' \in [InstallIntents -> SUBSET Provided] /\ completions'[n] = {i}
         /\ \A m \in InstallIntents \ {n} : completions'[m] = completions[m]
    <2>1. completions[n] = {}
      BY <1>3 DEF InstallIInv, IntentsHeld
    <2> QED BY <1>5, <2>1 DEF InstallIInv, InstallTypeOK
  <1>13. InstallTypeOK'
    BY <1>5, <1>6, <1>9, <1>11, <1>12 DEF InstallIInv, InstallTypeOK, ConnectedSites, ConnectorState, Completing,
                                          Connecting, Disconnecting, Connected
  <1>14. ConnectionsBelong'
    <2>1. \A s \in ConnectedSites : connection[s] # NoConnection /\ connection[s].installation # Public
             => connection[s].installation \in Provided
      BY MissingRows DEF InstallIInv, InstallTypeOK
    <2> QED BY <1>5, <1>7, <2>1 DEF InstallIInv, ConnectionsBelong, ConnectedSites
  <1>15. RevokedIsGone'
    <2>1. \A s \in ConnectedSites : connection[s].status = "active" /\ connection[s].installation # Public
             => connection[s].installation \in Provided
      BY MissingRows DEF InstallIInv, InstallTypeOK
    <2> QED BY <1>4, <1>5, <1>6, <2>1 DEF InstallIInv, RevokedIsGone, ConnectedSites
  <1>16. IntentsHeld'
    <2>1. ASSUME NEW o \in Connectors, connector'[o].pc = "complete"
          PROVE  /\ install_intent'[connector'[o].install_intent].state \in {"open", "expired"}
                 /\ \A p \in Connectors : connector'[p].pc = "complete"
                       /\ connector'[p].install_intent = connector'[o].install_intent => p = o
      <3>1. o # q /\ connector'[o] = connector[o] /\ connector[o].pc = "complete"
        BY <1>9, <2>1
      <3>2. connector[o].install_intent # n /\ connector[o].install_intent \in InstallIntents
        BY <1>1, <1>2, <3>1, StateCases DEF InstallIInv, IntentsHeld, InstallTypeOK
      <3> QED BY <1>9, <1>11, <3>1, <3>2 DEF InstallIInv, IntentsHeld
    <2>2. \A m \in InstallIntents : /\ completions'[m] # {} => install_intent'[m].state = "consumed"
                                    /\ completions'[m] = {} \/ \E j \in Provided : completions'[m] = {j}
      BY <1>11, <1>12 DEF InstallIInv, IntentsHeld
    <2> QED BY <2>1, <2>2 DEF IntentsHeld
  <1> QED BY <1>9, <1>13, <1>14, <1>15, <1>16 DEF InstallIInv
-----------------------------------------------------------------------------
\* What a request writes on, and what it is about.
LEMMA Concerns ==
    ASSUME NEW v \in ConnectorState
    PROVE  /\ v.pc = "connect" => SitesOf(v) = {v.site} /\ (v.installation # Public => About(v) = {v.installation})
           /\ v.pc = "disconnect" => SitesOf(v) = v.sites /\ About(v) = {v.installation}
           /\ SitesOf(v) \subseteq ConnectedSites
  <1>1. v.pc = "disconnect" => v.installation # Public
    BY StateCases, NamesAreApart
  <1>2. v.pc = "connect" => v.site \in ConnectedSites
    BY StateCases
  <1>3. v.pc = "disconnect" => v.sites \subseteq ConnectedSites
    BY StateCases
  <1> QED BY <1>1, <1>2, <1>3 DEF SitesOf, About

IsUnion(y, x, P, J) == y = x \cup (UNION P) \cup (UNION J)

LEMMA Unions ==
    ASSUME NEW x, NEW y, NEW P, NEW J, IsUnion(y, x, P, J)
    PROVE  /\ x \subseteq y
           /\ \A e \in P : e \subseteq y
           /\ \A e \in J : e \subseteq y
           /\ \A T : x \subseteq T /\ (\A e \in P : e \subseteq T) /\ (\A e \in J : e \subseteq T) => y \subseteq T
  <1>1. \A z : z \in y <=> z \in x \/ (\E e \in P : z \in e) \/ (\E e \in J : z \in e)
    BY DEF IsUnion
  <1>2. x \subseteq y /\ (\A e \in P : e \subseteq y) /\ (\A e \in J : e \subseteq y)
    BY ONLY <1>1
  <1>3. ASSUME NEW T, x \subseteq T, \A e \in P : e \subseteq T, \A e \in J : e \subseteq T
        PROVE  y \subseteq T
    BY ONLY <1>1, <1>3
  <1> QED BY <1>2, <1>3

\* The sites that stay uncrossed concern no two requests.
LEMMA Crosses ==
    ASSUME InstallIInv, NEW q \in Connectors, Crossing(q)
    PROVE  /\ crossedSites \subseteq crossedSites' /\ crossedSites' \subseteq ConnectedSites
           /\ \A v : OtherState(q, v) =>
                 /\ SitesOf(connector[q]) \cap SitesOf(v) \subseteq crossedSites'
                 /\ About(v) \cap About(connector[q]) # {} =>
                       SitesOf(connector[q]) \subseteq crossedSites' /\ SitesOf(v) \subseteq crossedSites'
  <1> DEFINE pairs == {SitesOf(connector[q]) \cap SitesOf(connector[o]) : o \in Connectors \ {q}}
             close == {p \in Connectors \ {q} : About(connector[p]) \cap About(connector[q]) # {}}
             joined == {SitesOf(connector[q]) \cup SitesOf(connector[o]) : o \in close}
  <1>0. IsUnion(crossedSites', crossedSites, pairs, joined)
    BY DEF Crossing, IsUnion
  <1>1. /\ crossedSites \subseteq crossedSites'
        /\ \A e \in pairs : e \subseteq crossedSites'
        /\ \A e \in joined : e \subseteq crossedSites'
        /\ \A T : crossedSites \subseteq T /\ (\A e \in pairs : e \subseteq T) /\ (\A e \in joined : e \subseteq T)
                  => crossedSites' \subseteq T
    <2> HIDE DEF pairs, joined, close
    <2> QED BY <1>0, Unions
  <1>2. \A o \in Connectors : SitesOf(connector[o]) \subseteq ConnectedSites
    BY Concerns DEF InstallIInv, InstallTypeOK
  <1>3. crossedSites' \subseteq ConnectedSites
    <2>1. crossedSites \subseteq ConnectedSites
      BY DEF InstallIInv, InstallTypeOK
    <2>2. \A x \in pairs : x \subseteq ConnectedSites
      BY <1>2
    <2>3. \A x \in joined : x \subseteq ConnectedSites
      BY <1>2
    <2> HIDE DEF pairs, joined, close
    <2> QED BY <1>1, <2>1, <2>2, <2>3
  <1>4. ASSUME NEW v, OtherState(q, v)
        PROVE  /\ SitesOf(connector[q]) \cap SitesOf(v) \subseteq crossedSites'
               /\ About(v) \cap About(connector[q]) # {} =>
                     SitesOf(connector[q]) \subseteq crossedSites' /\ SitesOf(v) \subseteq crossedSites'
    <2>1. PICK o \in Connectors \ {q} : v = connector[o]
      BY <1>4 DEF OtherState
    <2>2. SitesOf(connector[q]) \cap SitesOf(v) \in pairs
      BY <2>1
    <2>3. ASSUME About(v) \cap About(connector[q]) # {}
          PROVE  SitesOf(connector[q]) \cup SitesOf(v) \in joined
      <3>1. o \in close
        BY <2>1, <2>3
      <3> QED BY <2>1, <3>1
    <2> HIDE DEF pairs, joined, close
    <2>4. SitesOf(connector[q]) \cap SitesOf(v) \subseteq crossedSites'
      BY <1>1, <2>2
    <2>5. ASSUME About(v) \cap About(connector[q]) # {}
          PROVE  SitesOf(connector[q]) \cup SitesOf(v) \subseteq crossedSites'
      BY <1>1, <2>3, <2>5
    <2> QED BY <2>4, <2>5
  <1> QED BY <1>1, <1>3, <1>4

LEMMA ConnectionCommits ==
    ASSUME InstallIInv, NEW q \in Connectors, CommitConnection(q)
    PROVE  InstallIInv'
  <1>1. PICK w : w = connector[q]
    OBVIOUS
  <1>2. w \in ConnectorState /\ w.pc = "connect" /\ ConnectorKnows(w) /\ Current(w)
    BY <1>1 DEF CommitConnection, InstallIInv, InstallTypeOK, RequestsKnow
  <1>3. PICK s \in ConnectedSites, i \in Provided \cup {Public}, r \in Repos :
            s = w.site /\ i = w.installation /\ r = w.repo
    BY <1>2, StateCases
  <1>4. PICK x : x = [status |-> "active", installation |-> i, repo |-> r]
    OBVIOUS
  <1>5. x \in Connected /\ x.status = "active" /\ x.installation = i /\ x.repo = r /\ x # NoConnection
    <2>1. x \in Connected /\ x.status = "active" /\ x.installation = i /\ x.repo = r
      BY <1>4 DEF Connected
    <2> QED BY <2>1, MissingRows
  <1>6. /\ connection' = [connection EXCEPT ![s] = x]
        /\ github_repo' = [github_repo EXCEPT ![s] = IF r # w.read THEN r ELSE @]
        /\ Crossing(q) /\ Moves(q, Waiting)
        /\ UNCHANGED <<install_intent, installation, completions>>
    BY <1>1, <1>3, <1>4 DEF CommitConnection
  <1>7. /\ connection' \in [ConnectedSites -> Connected \cup {NoConnection}] /\ connection'[s] = x
        /\ \A t \in ConnectedSites \ {s} : connection'[t] = connection[t]
    BY <1>5, <1>6 DEF InstallIInv, InstallTypeOK
  <1>8. /\ github_repo' \in [ConnectedSites -> Repos \cup {NoRepo}]
        /\ github_repo'[s] = IF r # w.read THEN r ELSE github_repo[s]
        /\ \A t \in ConnectedSites \ {s} : github_repo'[t] = github_repo[t]
    BY <1>6 DEF InstallIInv, InstallTypeOK
  <1>9. /\ crossedSites \subseteq crossedSites' /\ crossedSites' \subseteq ConnectedSites
        /\ \A v : OtherState(q, v) =>
              /\ SitesOf(w) \cap SitesOf(v) \subseteq crossedSites'
              /\ About(v) \cap About(w) # {} => SitesOf(w) \subseteq crossedSites' /\ SitesOf(v) \subseteq crossedSites'
    BY <1>1, <1>6, Crosses
  <1>10. SitesOf(w) = {s} /\ (i # Public => About(w) = {i})
    BY <1>2, <1>3, Concerns
  <1>11. ASSUME NEW v, OtherState(q, v) PROVE ConnectorKnows(v)' /\ Current(v)'
    <2>1. /\ v \in ConnectorState /\ ConnectorKnows(v) /\ Current(v)
          /\ v.pc = "disconnect" => v.active \subseteq v.sites /\ v.repos \subseteq v.sites
      BY <1>11, OthersAre
    <2>2. ConnectorKnows(v)'
      <3>1. \A t \in ConnectedSites : connection[t] # NoConnection => connection'[t] # NoConnection
        BY <1>5, <1>7
      <3> QED BY <1>6, <2>1, <3>1, StateCases DEF ConnectorKnows, Belongs
    <2>3. ASSUME v.pc = "connect", v.site \notin crossedSites'
          PROVE  github_repo'[v.site] = v.read
                 /\ (v.installation # Public => installation'[v.installation].status # "revoked")
      <3>1. v.site # s /\ v.site \in ConnectedSites
        BY <1>9, <1>10, <1>11, <2>1, <2>3, Concerns, StateCases
      <3> QED BY <1>6, <1>8, <1>9, <2>1, <2>3, <3>1 DEF Current
    <2>4. ASSUME v.pc = "disconnect", NEW t \in ConnectedSites \ crossedSites'
          PROVE  /\ t \in v.sites <=> connection'[t] # NoConnection /\ connection'[t].installation = v.installation
                 /\ t \in v.active <=> t \in v.sites /\ connection'[t].status = "active"
                 /\ t \in v.repos <=> t \in v.sites /\ github_repo'[t] # NoRepo
      <3>1. CASE t # s
        BY <1>7, <1>8, <1>9, <2>1, <2>4, <3>1 DEF Current
      <3>2. CASE t = s
        <4>1. t \notin v.sites
          BY <1>9, <1>10, <1>11, <2>1, <2>4, <3>2, Concerns
        <4>2. i # v.installation
          <5>1. v.installation \in Provided /\ v.installation # Public
            BY <2>1, <2>4, StateCases, NamesAreApart
          <5>2. About(v) = {v.installation}
            BY <2>1, <2>4, Concerns
          <5> QED BY <1>9, <1>10, <1>11, <2>4, <3>2, <5>1, <5>2
        <4> QED BY <1>5, <1>7, <2>1, <2>4, <3>2, <4>1, <4>2
      <3> QED BY <3>1, <3>2
    <2>5. Current(v)'
      BY <2>3, <2>4 DEF Current, ConnectedSites
    <2> QED BY <2>2, <2>5
  <1>12. /\ RequestsKnow' /\ WritesWhatItRead'
         /\ connector' \in [Connectors -> ConnectorState] /\ connector'[q].pc = "idle"
         /\ \A o \in Connectors \ {q} : connector'[o] = connector[o]
    BY <1>6, <1>11, RequestsKnowAfter
  <1>13. InstallTypeOK'
    BY <1>6, <1>7, <1>8, <1>9, <1>12 DEF InstallIInv, InstallTypeOK, ConnectedSites, ConnectorState, Completing,
                                         Connecting, Disconnecting, Connected
  <1>14. IntentsHeld'
    BY <1>6, <1>12, IntentsStayHeld
  <1>15. ConnectionsBelong'
    <2>1. i # Public => Belongs(i, TenantOf[s])
      BY <1>2, <1>3 DEF ConnectorKnows
    <2>2. ASSUME NEW t \in ConnectedSites, connection'[t] # NoConnection, connection'[t].installation # Public
          PROVE  Belongs(connection'[t].installation, TenantOf[t])
      BY <1>5, <1>7, <2>1, <2>2 DEF InstallIInv, ConnectionsBelong
    <2> QED BY <1>6, <2>2 DEF ConnectionsBelong, Belongs, ConnectedSites
  <1>16. RevokedIsGone'
    <2>1. ASSUME NEW t \in ConnectedSites \ crossedSites'
          PROVE  /\ github_repo'[t] = IF connection'[t].status = "active" THEN connection'[t].repo ELSE NoRepo
                 /\ connection'[t].status = "active" /\ connection'[t].installation # Public =>
                       installation'[connection'[t].installation].status # "revoked"
      <3>1. CASE t # s
        BY <1>6, <1>7, <1>8, <1>9, <3>1 DEF InstallIInv, RevokedIsGone
      <3>2. CASE t = s
        <4>1. github_repo[s] = w.read /\ (i # Public => installation[i].status # "revoked")
          BY <1>2, <1>3, <1>9, <3>2 DEF Current
        <4>2. github_repo'[s] = r
          BY <1>8, <4>1
        <4> QED BY <1>5, <1>6, <1>7, <3>2, <4>1, <4>2
      <3> QED BY <3>1, <3>2
    <2> QED BY <2>1 DEF RevokedIsGone, ConnectedSites
  <1> QED BY <1>12, <1>13, <1>14, <1>15, <1>16 DEF InstallIInv

LEMMA SiteDisconnects ==
    ASSUME InstallIInv, NEW s \in ConnectedSites, disconnect_github_repository(s)
    PROVE  InstallIInv'
  <1>0. UNCHANGED <<install_intent, installation, connector, completions>>
    BY DEF disconnect_github_repository
  <1>1. PICK x : x = IF connection[s] = NoConnection THEN connection[s] ELSE [connection[s] EXCEPT !.status = "revoked"]
    OBVIOUS
  <1>2. /\ x \in Connected \cup {NoConnection} /\ x.status # "active"
        /\ x = NoConnection <=> connection[s] = NoConnection
        /\ connection[s] # NoConnection => x.installation = connection[s].installation
    <2>1. CASE connection[s] = NoConnection
      BY <1>1, <2>1, MissingRows
    <2>2. CASE connection[s] # NoConnection
      <3>1. connection[s] \in Connected
        BY <2>2 DEF InstallIInv, InstallTypeOK
      <3>2. x = [connection[s] EXCEPT !.status = "revoked"]
        BY <1>1, <2>2
      <3>3. x \in Connected /\ x.status = "revoked" /\ x.installation = connection[s].installation
        BY <3>1, <3>2 DEF Connected
      <3> QED BY <2>2, <3>3, MissingRows
    <2> QED BY <2>1, <2>2
  <1>3. connection' = [connection EXCEPT ![s] = x] /\ github_repo' = [github_repo EXCEPT ![s] = NoRepo]
    BY <1>1 DEF disconnect_github_repository
  <1>4. /\ connection' \in [ConnectedSites -> Connected \cup {NoConnection}] /\ connection'[s] = x
        /\ \A t \in ConnectedSites \ {s} : connection'[t] = connection[t]
        /\ github_repo' \in [ConnectedSites -> Repos \cup {NoRepo}] /\ github_repo'[s] = NoRepo
        /\ \A t \in ConnectedSites \ {s} : github_repo'[t] = github_repo[t]
    BY <1>2, <1>3 DEF InstallIInv, InstallTypeOK
  <1>5. /\ crossedSites \subseteq crossedSites' /\ crossedSites' \subseteq ConnectedSites
        /\ \A o \in Connectors : s \in SitesOf(connector[o]) => s \in crossedSites'
    <2> DEFINE meets == {SitesOf(connector[o]) \cap {s} : o \in Connectors}
    <2>1. crossedSites' = crossedSites \cup (UNION meets)
      BY DEF disconnect_github_repository
    <2>2. \A o \in Connectors : SitesOf(connector[o]) \cap {s} \in meets
      OBVIOUS
    <2>3. crossedSites \subseteq ConnectedSites /\ \A m \in meets : m \subseteq ConnectedSites
      BY DEF InstallIInv, InstallTypeOK
    <2> HIDE DEF meets
    <2>4. \A z : z \in crossedSites' <=> z \in crossedSites \/ \E m \in meets : z \in m
      BY <2>1
    <2> QED BY ONLY <2>2, <2>3, <2>4
  <1>6. ASSUME NEW o \in Connectors, NEW v, v = connector[o] PROVE ConnectorKnows(v)' /\ Current(v)'
    <2>1. /\ v \in ConnectorState /\ ConnectorKnows(v) /\ Current(v)
          /\ v.pc = "disconnect" => v.active \subseteq v.sites /\ v.repos \subseteq v.sites
      BY <1>6 DEF InstallIInv, InstallTypeOK, RequestsKnow, WritesWhatItRead
    <2>2. ConnectorKnows(v)'
      <3>1. \A t \in ConnectedSites : connection[t] # NoConnection => connection'[t] # NoConnection
        BY <1>2, <1>4
      <3> QED BY <1>0, <2>1, <3>1, StateCases DEF ConnectorKnows, Belongs
    <2>3. s \in SitesOf(v) => s \in crossedSites'
      BY <1>5, <1>6
    <2>4. ASSUME v.pc = "connect", v.site \notin crossedSites'
          PROVE  github_repo'[v.site] = v.read
                 /\ (v.installation # Public => installation'[v.installation].status # "revoked")
      <3>1. v.site # s /\ v.site \in ConnectedSites
        BY <2>1, <2>3, <2>4, Concerns, StateCases
      <3> QED BY <1>0, <1>4, <1>5, <2>1, <2>4, <3>1 DEF Current
    <2>5. ASSUME v.pc = "disconnect", NEW t \in ConnectedSites \ crossedSites'
          PROVE  /\ t \in v.sites <=> connection'[t] # NoConnection /\ connection'[t].installation = v.installation
                 /\ t \in v.active <=> t \in v.sites /\ connection'[t].status = "active"
                 /\ t \in v.repos <=> t \in v.sites /\ github_repo'[t] # NoRepo
      <3>0. /\ t \in v.sites <=> connection[t] # NoConnection /\ connection[t].installation = v.installation
            /\ t \in v.active <=> t \in v.sites /\ connection[t].status = "active"
            /\ t \in v.repos <=> t \in v.sites /\ github_repo[t] # NoRepo
        BY <1>5, <2>1, <2>5 DEF Current
      <3>1. CASE t # s
        BY <1>4, <3>0, <3>1
      <3>2. CASE t = s
        <4>1. t \notin v.sites
          BY <2>1, <2>3, <2>5, <3>2, Concerns
        <4> QED BY <1>2, <1>4, <2>1, <2>5, <3>0, <3>2, <4>1
      <3> QED BY <3>1, <3>2
    <2>6. Current(v)'
      BY <2>4, <2>5 DEF Current, ConnectedSites
    <2> QED BY <2>2, <2>6
  <1>7. RequestsKnow'
    <2> SUFFICES ASSUME NEW o \in Connectors PROVE ConnectorKnows(connector[o])' /\ Current(connector[o])'
      BY DEF RequestsKnow
    <2>1. PICK v : v = connector[o]
      OBVIOUS
    <2>2. ConnectorKnows(v)' /\ Current(v)'
      BY <1>6, <2>1
    <2> QED BY <1>0, <2>1, <2>2 DEF ConnectorKnows, Current
  <1>8. InstallTypeOK'
    BY <1>0, <1>4, <1>5 DEF InstallIInv, InstallTypeOK, ConnectedSites, ConnectorState, Completing,
                            Connecting, Disconnecting, Connected
  <1>9. IntentsHeld' /\ WritesWhatItRead'
    BY <1>0 DEF InstallIInv, IntentsHeld, WritesWhatItRead
  <1>10. ConnectionsBelong'
    <2>1. ASSUME NEW t \in ConnectedSites, connection'[t] # NoConnection, connection'[t].installation # Public
          PROVE  Belongs(connection'[t].installation, TenantOf[t])
      BY <1>2, <1>4, <2>1 DEF InstallIInv, ConnectionsBelong
    <2> QED BY <1>0, <2>1 DEF ConnectionsBelong, Belongs, ConnectedSites
  <1>11. RevokedIsGone'
    <2>1. ASSUME NEW t \in ConnectedSites \ crossedSites'
          PROVE  /\ github_repo'[t] = IF connection'[t].status = "active" THEN connection'[t].repo ELSE NoRepo
                 /\ connection'[t].status = "active" /\ connection'[t].installation # Public =>
                       installation'[connection'[t].installation].status # "revoked"
      <3>1. CASE t # s
        BY <1>0, <1>4, <1>5, <3>1 DEF InstallIInv, RevokedIsGone
      <3>2. CASE t = s
        BY <1>2, <1>4, <3>2
      <3> QED BY <3>1, <3>2
    <2> QED BY <2>1 DEF RevokedIsGone, ConnectedSites
  <1> QED BY <1>7, <1>8, <1>9, <1>10, <1>11 DEF InstallIInv

LEMMA DisconnectionCommits ==
    ASSUME InstallIInv, NEW q \in Connectors, CommitDisconnection(q)
    PROVE  InstallIInv'
  <1>1. PICK w : w = connector[q]
    OBVIOUS
  <1>2. /\ w \in ConnectorState /\ w.pc = "disconnect" /\ ConnectorKnows(w) /\ Current(w)
        /\ w.active \subseteq w.sites /\ w.repos \subseteq w.sites
    BY <1>1 DEF CommitDisconnection, InstallIInv, InstallTypeOK, RequestsKnow, WritesWhatItRead
  <1>3. PICK i \in Provided : i = w.installation /\ installation[i] \in Installed
    BY <1>2, StateCases DEF ConnectorKnows, InstallIInv, InstallTypeOK
  <1>4. PICK x : x = [installation[i] EXCEPT !.status = "revoked"]
    OBVIOUS
  <1>5. x \in Installed /\ x.tenant = installation[i].tenant /\ x # NoInstallation
    <2>1. x \in Installed /\ x.tenant = installation[i].tenant
      BY <1>3, <1>4 DEF Installed
    <2> QED BY <2>1, MissingRows
  <1>6. /\ installation' = [installation EXCEPT ![i] = x]
        /\ connection' = [s \in ConnectedSites |->
              IF s \in w.active THEN [connection[s] EXCEPT !.status = "revoked"] ELSE connection[s]]
        /\ github_repo' = [s \in ConnectedSites |-> IF s \in w.repos THEN NoRepo ELSE github_repo[s]]
        /\ Crossing(q) /\ Moves(q, Waiting) /\ UNCHANGED <<install_intent, completions>>
    BY <1>1, <1>3, <1>4 DEF CommitDisconnection, Cleared
  <1>7. /\ installation' \in [Provided -> Installed \cup {NoInstallation}] /\ installation'[i] = x
        /\ \A j \in Provided \ {i} : installation'[j] = installation[j]
    BY <1>5, <1>6 DEF InstallIInv, InstallTypeOK
  <1>8. \A j \in Provided : \A t : Belongs(j, t) => Belongs(j, t)'
    BY <1>5, <1>7 DEF Belongs
  <1>9. ASSUME NEW s \in ConnectedSites
        PROVE  /\ connection'[s] \in Connected \cup {NoConnection}
               /\ github_repo'[s] \in Repos \cup {NoRepo}
               /\ s \notin w.active => connection'[s] = connection[s]
               /\ s \notin w.repos => github_repo'[s] = github_repo[s]
               /\ s \in w.repos => github_repo'[s] = NoRepo
               /\ s \in w.active => connection'[s].status = "revoked"
               /\ connection'[s] # NoConnection <=> connection[s] # NoConnection
               /\ connection'[s] # NoConnection => connection'[s].installation = connection[s].installation
    <2>1. connection[s] \in Connected \cup {NoConnection} /\ github_repo[s] \in Repos \cup {NoRepo}
      BY DEF InstallIInv, InstallTypeOK
    <2>2. CASE s \in w.active
      <3>1. PICK y : y = [connection[s] EXCEPT !.status = "revoked"]
        OBVIOUS
      <3>2. connection[s] # NoConnection
        BY <1>2, <2>2 DEF ConnectorKnows
      <3>3. y \in Connected /\ y.status = "revoked" /\ y.installation = connection[s].installation
        BY <2>1, <3>1, <3>2 DEF Connected
      <3>4. connection'[s] = y /\ y # NoConnection
        BY <1>6, <2>2, <3>1, <3>3, MissingRows
      <3> QED BY <1>6, <2>1, <2>2, <3>2, <3>3, <3>4
    <2>3. CASE s \notin w.active
      BY <1>6, <2>1, <2>3
    <2> QED BY <2>2, <2>3
  <1>10. /\ crossedSites \subseteq crossedSites' /\ crossedSites' \subseteq ConnectedSites
         /\ \A v : OtherState(q, v) =>
               /\ w.sites \cap SitesOf(v) \subseteq crossedSites'
               /\ i \in About(v) => w.sites \subseteq crossedSites' /\ SitesOf(v) \subseteq crossedSites'
    <2>1. SitesOf(w) = w.sites /\ About(w) = {i}
      BY <1>2, <1>3, Concerns
    <2>2. /\ crossedSites \subseteq crossedSites' /\ crossedSites' \subseteq ConnectedSites
          /\ \A v : OtherState(q, v) =>
                /\ SitesOf(w) \cap SitesOf(v) \subseteq crossedSites'
                /\ About(v) \cap About(w) # {} => SitesOf(w) \subseteq crossedSites' /\ SitesOf(v) \subseteq crossedSites'
      BY <1>1, <1>6, Crosses
    <2> QED BY ONLY <2>1, <2>2
  <1>11. ASSUME NEW v, OtherState(q, v) PROVE ConnectorKnows(v)' /\ Current(v)'
    <2>1. v \in ConnectorState /\ ConnectorKnows(v) /\ Current(v)
      BY <1>11, OthersAre
    <2>2. ConnectorKnows(v)'
      BY <1>7, <1>8, <1>9, <1>5, <2>1, StateCases DEF ConnectorKnows
    <2>3. ASSUME v.pc = "connect", v.site \notin crossedSites'
          PROVE  github_repo'[v.site] = v.read
                 /\ (v.installation # Public => installation'[v.installation].status # "revoked")
      <3>1. /\ SitesOf(v) = {v.site} /\ v.site \in ConnectedSites /\ v.installation \in Provided \cup {Public}
            /\ v.installation # Public => About(v) = {v.installation}
        BY <2>1, <2>3, Concerns, StateCases
      <3>2. v.site \notin w.sites /\ v.site \notin w.repos
        BY <1>2, <1>10, <1>11, <2>3, <3>1
      <3>3. v.installation # Public => v.installation # i
        BY <1>10, <1>11, <2>3, <3>1
      <3>4. v.site \notin crossedSites
        BY <1>10, <2>3
      <3> QED BY <1>7, <1>9, <2>1, <2>3, <3>1, <3>2, <3>3, <3>4 DEF Current
    <2>4. ASSUME v.pc = "disconnect", NEW t \in ConnectedSites \ crossedSites'
          PROVE  /\ t \in v.sites <=> connection'[t] # NoConnection /\ connection'[t].installation = v.installation
                 /\ t \in v.active <=> t \in v.sites /\ connection'[t].status = "active"
                 /\ t \in v.repos <=> t \in v.sites /\ github_repo'[t] # NoRepo
      <3>0. /\ t \in v.sites <=> connection[t] # NoConnection /\ connection[t].installation = v.installation
            /\ t \in v.active <=> t \in v.sites /\ connection[t].status = "active"
            /\ t \in v.repos <=> t \in v.sites /\ github_repo[t] # NoRepo
        BY <1>10, <2>1, <2>4 DEF Current
      <3>1. CASE t \notin w.sites
        <4>1. connection'[t] = connection[t] /\ github_repo'[t] = github_repo[t]
          BY <1>2, <1>9, <3>1
        <4> QED BY <3>0, <4>1
      <3>2. CASE t \in w.sites
        <4>1. SitesOf(v) = v.sites /\ About(v) = {v.installation}
          BY <2>1, <2>4, Concerns
        <4>2. t \notin v.sites /\ v.installation # i
          BY <1>10, <1>11, <2>4, <3>2, <4>1
        <4>3. connection[t] # NoConnection /\ connection[t].installation = i
          BY <1>2, <1>3, <1>10, <2>4, <3>2 DEF Current
        <4>4. connection'[t] # NoConnection /\ connection'[t].installation = i
          BY <1>9, <4>3
        <4> QED BY <3>0, <4>2, <4>4
      <3> QED BY <3>1, <3>2
    <2>5. Current(v)'
      BY <2>3, <2>4 DEF Current, ConnectedSites
    <2> QED BY <2>2, <2>5
  <1>12. /\ RequestsKnow' /\ WritesWhatItRead'
         /\ connector' \in [Connectors -> ConnectorState] /\ connector'[q].pc = "idle"
         /\ \A o \in Connectors \ {q} : connector'[o] = connector[o]
    BY <1>6, <1>11, RequestsKnowAfter
  <1>13. /\ connection' \in [ConnectedSites -> Connected \cup {NoConnection}]
         /\ github_repo' \in [ConnectedSites -> Repos \cup {NoRepo}]
    BY <1>6, <1>9
  <1>14. InstallTypeOK'
    BY <1>6, <1>7, <1>10, <1>12, <1>13 DEF InstallIInv, InstallTypeOK, ConnectedSites, ConnectorState, Completing,
                                           Connecting, Disconnecting, Connected
  <1>15. IntentsHeld'
    BY <1>6, <1>12, IntentsStayHeld
  <1>16. ConnectionsBelong'
    <2>1. ASSUME NEW t \in ConnectedSites, connection'[t] # NoConnection, connection'[t].installation # Public
          PROVE  /\ installation'[connection'[t].installation] # NoInstallation
                 /\ installation'[connection'[t].installation].tenant = TenantOf[t]
      <3>1. /\ connection[t] # NoConnection /\ connection[t].installation # Public
            /\ connection'[t].installation = connection[t].installation
        BY <1>9, <2>1
      <3>2. connection[t].installation \in Provided
        BY <3>1, MissingRows DEF InstallIInv, InstallTypeOK
      <3>3. PICK j \in Provided : j = connection[t].installation /\ Belongs(j, TenantOf[t])
        BY <3>1, <3>2 DEF InstallIInv, ConnectionsBelong
      <3>4. Belongs(j, TenantOf[t])'
        BY <1>8, <3>3
      <3> QED BY <3>1, <3>3, <3>4 DEF Belongs
    <2> QED BY <2>1 DEF ConnectionsBelong, Belongs, ConnectedSites
  <1>17. RevokedIsGone'
    <2>1. ASSUME NEW t \in ConnectedSites \ crossedSites'
          PROVE  /\ github_repo'[t] = IF connection'[t].status = "active" THEN connection'[t].repo ELSE NoRepo
                 /\ connection'[t].status = "active" /\ connection'[t].installation # Public =>
                       installation'[connection'[t].installation].status # "revoked"
      <3>0. /\ t \in w.sites <=> connection[t] # NoConnection /\ connection[t].installation = i
            /\ t \in w.active <=> t \in w.sites /\ connection[t].status = "active"
            /\ t \in w.repos <=> t \in w.sites /\ github_repo[t] # NoRepo
        BY <1>2, <1>3, <1>10, <2>1 DEF Current
      <3>1. /\ github_repo[t] = IF connection[t].status = "active" THEN connection[t].repo ELSE NoRepo
            /\ connection[t].status = "active" /\ connection[t].installation # Public =>
                  installation[connection[t].installation].status # "revoked"
        BY <1>10, <2>1 DEF InstallIInv, RevokedIsGone
      <3>2. CASE t \in w.sites
        <4>1. connection'[t].status # "active"
          BY <1>9, <3>0, <3>2
        <4>2. github_repo'[t] = NoRepo
          BY <1>9, <3>0, <3>2
        <4> QED BY <4>1, <4>2
      <3>3. CASE t \notin w.sites
        <4>1. connection'[t] = connection[t] /\ github_repo'[t] = github_repo[t]
          BY <1>2, <1>9, <3>3
        <4>2. ASSUME connection[t].status = "active", connection[t].installation # Public
              PROVE  installation'[connection[t].installation] = installation[connection[t].installation]
          <5>1. connection[t] \in Connected
            BY <4>2, MissingRows DEF InstallIInv, InstallTypeOK
          <5>2. connection[t].installation \in Provided \ {i}
            BY <3>0, <3>3, <4>2, <5>1, MissingRows
          <5> QED BY <1>7, <5>2
        <4> QED BY <3>1, <4>1, <4>2
      <3> QED BY <3>2, <3>3
    <2> QED BY <2>1 DEF RevokedIsGone, ConnectedSites
  <1> QED BY <1>12, <1>14, <1>15, <1>16, <1>17 DEF InstallIInv
-----------------------------------------------------------------------------
LEMMA InstallStarts == InstallInit => InstallIInv
  <1> SUFFICES ASSUME InstallInit PROVE InstallIInv
    OBVIOUS
  <1>1. \A q \in Connectors : connector[q] = Waiting /\ connector[q].pc = "idle"
    BY WaitingState DEF InstallInit
  <1>2. InstallTypeOK
    <2>1. connector \in [Connectors -> ConnectorState]
      BY WaitingState DEF InstallInit
    <2> QED BY <2>1 DEF InstallInit, InstallTypeOK
  <1>3. IntentsHeld
    BY <1>1 DEF InstallInit, IntentsHeld
  <1>4. ConnectionsBelong
    BY DEF InstallInit, ConnectionsBelong
  <1>5. RequestsKnow /\ WritesWhatItRead
    BY <1>1 DEF RequestsKnow, WritesWhatItRead, ConnectorKnows, Current
  <1>6. RevokedIsGone
    BY MissingRows DEF InstallInit, RevokedIsGone
  <1> QED BY <1>2, <1>3, <1>4, <1>5, <1>6 DEF InstallIInv

LEMMA InstallSteps == InstallIInv /\ [InstallNext]_installVars => InstallIInv'
  <1> SUFFICES ASSUME InstallIInv, [InstallNext]_installVars PROVE InstallIInv'
    OBVIOUS
  <1>1. ASSUME NEW n \in InstallIntents, InstallIntentExpires(n) \/ \E t \in Holders : create_install_intent(n, t)
        PROVE  InstallIInv'
    BY <1>1, IntentExpires, IntentBegins
  <1>2. ASSUME NEW s \in ConnectedSites, disconnect_github_repository(s) PROVE InstallIInv'
    BY <1>2, SiteDisconnects
  <1>3. ASSUME NEW q \in Connectors,
               \/ \E n \in InstallIntents, i \in Provided : complete_installation(q, n, i)
               \/ \E s \in ConnectedSites, i \in Provided, r \in Repos : connect_authorized_repository(q, s, i, r)
               \/ \E s \in ConnectedSites, r \in Repos : connect_public_repository(q, s, r)
               \/ \E i \in Provided : disconnect_installation(q, i)
        PROVE  InstallIInv'
    BY <1>3, CompletionBegins, ConnectionBegins, DisconnectionBegins
  <1>4. ASSUME NEW q \in Connectors,
               \/ CommitInstallation(q) \/ CommitConnection(q) \/ CommitDisconnection(q)
               \/ ConnectorEnds(q)
        PROVE  InstallIInv'
    BY <1>4, InstallationCommits, ConnectionCommits, DisconnectionCommits, EndKeeps
  <1>5. CASE UNCHANGED installVars
    <2>1. /\ UNCHANGED <<install_intent, installation, connection, github_repo>>
          /\ UNCHANGED <<connector, completions, crossedSites>>
      BY <1>5 DEF installVars
    <2> QED BY <2>1 DEF InstallIInv, InstallTypeOK, IntentsHeld, ConnectionsBelong, RequestsKnow, WritesWhatItRead,
                  RevokedIsGone, ConnectorKnows, Current, Belongs, ConnectedSites, ConnectorState, Completing,
                  Connecting, Disconnecting, Connected
  <1> QED BY <1>1, <1>2, <1>3, <1>4, <1>5 DEF InstallNext

\* The invariant of github_app_service.py and its router: beside the types, what
\* requests that asked GitHub have read is still so, for the sites that no two
\* of them concern, when they commit.
THEOREM InstallationsInvariance == InstallSpec => []InstallIInv
  BY InstallStarts, InstallSteps, PTL DEF InstallSpec

\* A workspace has what it installed, once, and until it is removed: a site is
\* connected through its own workspace's installations alone (whatever is removed
\* and completed again, installation_id is one workspace's), an intent's state
\* admits one installation however many callbacks race, and an installation that
\* disconnect_installation removed is behind no active connection and no site
\* shows a repository of it, where no two requests about the site overlapped.
THEOREM InstallationsAreSound == InstallSpec => []InstallationInv
  <1>1. ASSUME InstallIInv PROVE InstallationInv
    <2>1. ConnectionsStayInTheirWorkspace
      BY <1>1 DEF InstallIInv, ConnectionsBelong, Belongs, ConnectionsStayInTheirWorkspace
    <2>2. IntentSpentOnce
      <3> SUFFICES ASSUME NEW n \in InstallIntents PROVE Cardinality(completions[n]) <= 1
        BY DEF IntentSpentOnce
      <3>1. completions[n] = {} \/ \E i \in Provided : completions[n] = {i}
        BY <1>1 DEF InstallIInv, IntentsHeld
      <3>2. CASE completions[n] = {}
        <4>1. Cardinality(completions[n]) = 0
          BY <3>2, FS_EmptySet
        <4> QED BY <4>1
      <3>3. CASE \E i \in Provided : completions[n] = {i}
        <4>1. Cardinality(completions[n]) = 1
          BY <3>3, FS_Singleton
        <4> QED BY <4>1
      <3> QED BY <3>1, <3>2, <3>3
    <2>3. RevokedIsGone
      BY <1>1 DEF InstallIInv
    <2> QED BY <2>1, <2>2, <2>3 DEF InstallationInv
  <1> QED BY <1>1, InstallationsInvariance, PTL
-----------------------------------------------------------------------------
\* Sites and the wizard.

OnboardingSpec == OnboardingInit /\ [][OnboardingNext]_onboardingVars

WizardSteps == {"site", "answer", "complete", "launch"}
WizardReads == [state : OnboardingState, step : ONBOARDING_STEPS, done : BOOLEAN]
TabRow ==
    [pc : {"idle", "create", "lookup", "verified", "audit"} \cup WizardSteps, by : Tenants \cup {Null},
     domain : Domains \cup {Null}, id : SiteIds \cup {Null}, token : Nat, read : WizardReads \cup {Null}]
Minted == [by : Tenants, domain : Domains]

\* A site that is a workspace's own stays so, or goes.
OwnOrGone(i, w) == site[i] = Deleted \/ (Exists(i) /\ site[i].owner = w)

\* A workspace that has found its claim live finds it so, or finds the site its own, as
\* long as the token has not lapsed: a later claim is one of its own.
LiveOrGone(i, w, n) ==
    \/ OwnOrGone(i, w)
    \/ /\ Exists(i) /\ site[i].owner = Null /\ site[i].claim # Null
       /\ site[i].claim.by = w /\ n <= site[i].claim.token
       /\ minted[n].domain = site[i].domain

\* A request at work, and what it still knows of the sites it has read.
KnownFormed(r) ==
    /\ r.pc # "idle" => r.by \in Tenants
    /\ r.pc \in {"create", "audit", "site"} => r.domain \in Domains
    /\ r.pc \in {"lookup", "verified"} =>
          r.id \in SiteIds /\ r.token \in DOMAIN minted /\ minted[r.token].by = r.by
    /\ r.pc = "verified" => r.token \in dns
    /\ r.pc \in WizardSteps => r.by \in Founders /\ r.read \in WizardReads
    /\ r.pc = "complete" => Required \subseteq r.read.state.steps /\ r.read.state.answers.site # Null

Knows(r) ==
    /\ r.pc \in {"audit", "site"} /\ r.id # Null => OwnOrGone(r.id, r.by)
    /\ r.pc = "complete" => OwnOrGone(r.read.state.answers.site, r.by)
    /\ r.pc \in {"lookup", "verified"} /\ r.token \notin lapsed => LiveOrGone(r.id, r.by, r.token)

TabsOK ==
    /\ tab \in [Tabs -> TabRow]
    /\ \A t \in Tabs : KnownFormed(tab[t]) /\ Knows(tab[t])

SiteTypes ==
    /\ site \in [SiteIds -> Site \cup {Null, Deleted}]
    /\ minted \in Seq(Minted) /\ Len(minted) <= MaxTokens
    /\ lapsed \subseteq DOMAIN minted /\ dns \subseteq DOMAIN minted
    /\ audit \in [Domains -> [by : Tenants \cup {Null}, site : SiteIds \cup {Null}]]

\* Claims are the tokens they name, tokens lapse in order, domains are unique; and
\* the sites of claimed audits are the claimants'.
RowsOK ==
    /\ \A i \in SiteIds : Exists(i) /\ site[i].claim # Null =>
          /\ site[i].owner = Null /\ site[i].claim.token \in DOMAIN minted
          /\ minted[site[i].claim.token].by = site[i].claim.by
          /\ minted[site[i].claim.token].domain = site[i].domain
    /\ \A n \in dns : minted[n].by \in Controls[minted[n].domain]
    /\ \A n \in lapsed : 1..n \subseteq lapsed
    /\ \A i, j \in SiteIds : Exists(i) /\ Exists(j) /\ site[i].domain = site[j].domain => i = j

AuditsOwn ==
    \A d \in Domains : audit[d].site # Null =>
        audit[d].by # Null /\ Exists(audit[d].site) /\ site[audit[d].site].owner = audit[d].by

\* One request holds the lock of an audit, from its read to its commit.
AuditsLocked ==
    \A t \in Tabs : tab[t].pc = "audit" =>
        /\ audit[tab[t].domain].by \in {Null, tab[t].by}
        /\ \A u \in Tabs : tab[u].pc = "audit" /\ tab[u].domain = tab[t].domain => u = t

\* Requests of a workspace that are about to make a site.
Grows(r) == r.pc = "create" \/ (r.pc \in {"audit", "site"} /\ r.id = Null)
GrowingSites(w) == {t \in Tabs : Grows(tab[t]) /\ tab[t].by = w}

QuotaOK ==
    /\ clashes \in 0..MaxClashes
    /\ \A w \in Tenants :
          /\ IsFiniteSet(OwnedBy(w)) /\ IsFiniteSet(GrowingSites(w))
          /\ Cardinality(OwnedBy(w) \ won) + Cardinality(GrowingSites(w)) <= SiteLimit + clashes

WizardOK == wizard \in [Founders -> OnboardingState]

\* Until requests clash there is one at a time, and the wizard is as it has read it.
Alone ==
    clashes = 0 =>
        /\ \A t, u \in Tabs : tab[t].pc # "idle" /\ tab[u].pc # "idle" => t = u
        /\ \A t \in Tabs : tab[t].pc \in WizardSteps => tab[t].read.state = wizard[tab[t].by]

SiteIInv ==
    SiteTypes /\ RowsOK /\ AuditsOwn /\ TabsOK /\ AuditsLocked /\ QuotaOK /\ WizardOK /\ Alone /\ CompletedIsReady

-----------------------------------------------------------------------------
\* What no step takes back: tokens, records, and what requests know of sites.
Steady ==
    /\ DOMAIN minted \subseteq DOMAIN minted' /\ \A n \in DOMAIN minted : minted'[n] = minted[n]
    /\ dns \subseteq dns' /\ lapsed \subseteq lapsed'
    /\ \A i \in SiteIds, w \in Tenants : OwnOrGone(i, w) => OwnOrGone(i, w)'
    /\ \A i \in SiteIds, w \in Tenants, n \in DOMAIN minted :
          n \notin lapsed' /\ LiveOrGone(i, w, n) => LiveOrGone(i, w, n)'

NoneGoes == \A i \in SiteIds : site'[i] = Deleted => site[i] = Deleted

LEMMA Distinct ==
    /\ Null # Deleted /\ Null \notin Tenants /\ Null \notin SiteIds /\ Null \notin Domains
    /\ Null \notin Site /\ Deleted \notin Site /\ Null \notin Claim
  BY SiteConstants, NullIsNoSite

LEMMA SiteFields ==
    ASSUME SiteTypes, NEW i \in SiteIds, Exists(i)
    PROVE  /\ site[i] \in Site
           /\ site[i].domain \in Domains /\ site[i].owner \in Tenants \cup {Null}
           /\ site[i].claim # Null => site[i].claim \in Claim /\ site[i].claim.by \in Tenants /\ site[i].claim.token \in Nat
<1>1. site[i] \in Site
  BY DEF SiteTypes, Exists
<1> QED BY <1>1 DEF Site, Claim, Tokens

\* Rows that stay.
LEMMA SameRows ==
    ASSUME SiteTypes, RowsOK, AuditsOwn, UNCHANGED rows
    PROVE  SiteTypes' /\ RowsOK' /\ AuditsOwn' /\ Steady /\ NoneGoes
<1>1. site' = site /\ minted' = minted /\ lapsed' = lapsed /\ dns' = dns /\ audit' = audit
  BY DEF rows
<1>2. SiteTypes' /\ RowsOK' /\ AuditsOwn'
  BY <1>1 DEF SiteTypes, RowsOK, AuditsOwn, Exists
<1>3. Steady /\ NoneGoes
  BY <1>1 DEF Steady, NoneGoes, OwnOrGone, LiveOrGone, Exists
<1> QED BY <1>2, <1>3

LEMMA AuditsStay ==
    ASSUME SiteTypes, AuditsOwn, Steady, NoneGoes, UNCHANGED audit
    PROVE  AuditsOwn'
<1> SUFFICES ASSUME NEW d \in Domains, audit[d].site # Null
             PROVE  audit[d].by # Null /\ Exists(audit[d].site)' /\ site'[audit[d].site].owner = audit[d].by
  BY DEF AuditsOwn, Exists
<1>1. PICK i, w : i = audit[d].site /\ w = audit[d].by
  OBVIOUS
<1>2. i \in SiteIds /\ w \in Tenants /\ Exists(i) /\ site[i].owner = w
  BY <1>1 DEF AuditsOwn, SiteTypes
<1>3. OwnOrGone(i, w) /\ site[i] # Deleted
  BY <1>2 DEF OwnOrGone, Exists
<1>4. OwnOrGone(i, w)'
  BY <1>2, <1>3 DEF Steady
<1>5. site'[i] # Deleted
  BY <1>2, <1>3 DEF NoneGoes
<1>6. Exists(i)' /\ site'[i].owner = w
  BY <1>4, <1>5 DEF OwnOrGone
<1> QED BY <1>1, <1>2, <1>6, Distinct

\* A site that is made, with a domain that no site has.
LEMMA Inserted ==
    ASSUME SiteTypes, RowsOK, UNCHANGED <<minted, lapsed, dns>>,
           NEW i \in SiteIds, NEW w \in Tenants, NEW d \in Domains, Insert(i, w, d)
    PROVE  /\ site' \in [SiteIds -> Site \cup {Null, Deleted}]
           /\ RowsOK' /\ Steady /\ NoneGoes
           /\ site[i] = Null /\ Exists(i)' /\ site'[i].owner = w
           /\ \A j \in SiteIds : j # i => site'[j] = site[j]
<1>1. PICK new : new = [domain |-> d, owner |-> w, claim |-> Null]
  OBVIOUS
<1>2. new \in Site /\ new.domain = d /\ new.owner = w /\ new.claim = Null
  BY <1>1 DEF Site
<1>3. site[i] = Null /\ site' = [site EXCEPT ![i] = new]
  BY <1>1 DEF Insert
<1>4. site' \in [SiteIds -> Site \cup {Null, Deleted}] /\ site'[i] = new /\ \A j \in SiteIds : j # i => site'[j] = site[j]
  BY <1>2, <1>3 DEF SiteTypes
<1>5. Exists(i)' /\ ~Exists(i) /\ new # Deleted
  BY <1>2, <1>3, <1>4, Distinct DEF Exists
<1>6. \A j \in SiteIds : j # i => Exists(j)' = Exists(j)
  BY <1>4 DEF Exists
<1>7. \A j \in SiteIds : Exists(j) => site[j].domain # d
  BY DEF Insert, At
<1>8. RowsOK'
  <2>1. \A j \in SiteIds : Exists(j)' /\ site'[j].claim # Null =>
            /\ site'[j].owner = Null /\ site'[j].claim.token \in DOMAIN minted
            /\ minted[site'[j].claim.token].by = site'[j].claim.by
            /\ minted[site'[j].claim.token].domain = site'[j].domain
    BY <1>2, <1>4, <1>6 DEF RowsOK
  <2>2. \A j, k \in SiteIds : Exists(j)' /\ Exists(k)' /\ site'[j].domain = site'[k].domain => j = k
    BY <1>2, <1>4, <1>6, <1>7 DEF RowsOK
  <2> QED BY <2>1, <2>2 DEF RowsOK, Exists
<1>9. Steady
  <2>1. \A j \in SiteIds, v \in Tenants : OwnOrGone(j, v) => j # i
    BY <1>3, <1>5, Distinct DEF OwnOrGone
  <2>2. \A j \in SiteIds, v \in Tenants, n \in DOMAIN minted : LiveOrGone(j, v, n) => j # i
    BY <1>5, <2>1 DEF LiveOrGone
  <2> QED BY <1>4, <1>6, <2>1, <2>2 DEF Steady, OwnOrGone, LiveOrGone, Exists
<1>10. NoneGoes
  BY <1>2, <1>4, <1>5 DEF NoneGoes
<1> QED BY <1>2, <1>3, <1>4, <1>5, <1>8, <1>9, <1>10

LEMMA DeleteRows ==
    ASSUME SiteTypes, RowsOK, AuditsOwn, NEW i \in SiteIds, delete_site(i)
    PROVE  SiteTypes' /\ RowsOK' /\ AuditsOwn' /\ Steady
<1>1. /\ Exists(i) /\ site[i].owner # Null
      /\ site' = [site EXCEPT ![i] = Deleted] /\ minted' = minted /\ lapsed' = lapsed /\ dns' = dns
      /\ audit' = [d \in Domains |-> IF audit[d].site = i THEN [audit[d] EXCEPT !.site = Null] ELSE audit[d]]
  BY DEF delete_site, claims
<1>2. /\ site' \in [SiteIds -> Site \cup {Null, Deleted}] /\ site'[i] = Deleted
      /\ \A j \in SiteIds : j # i => site'[j] = site[j]
  BY <1>1 DEF SiteTypes
<1>3. ~Exists(i)' /\ \A j \in SiteIds : j # i => Exists(j)' = Exists(j)
  BY <1>2 DEF Exists
<1>4. \A d \in Domains :
          /\ audit'[d] \in [by : Tenants \cup {Null}, site : SiteIds \cup {Null}]
          /\ audit'[d].by = audit[d].by
          /\ audit'[d].site = IF audit[d].site = i THEN Null ELSE audit[d].site
  <2> SUFFICES ASSUME NEW d \in Domains
               PROVE  /\ audit'[d] \in [by : Tenants \cup {Null}, site : SiteIds \cup {Null}]
                      /\ audit'[d].by = audit[d].by
                      /\ audit'[d].site = IF audit[d].site = i THEN Null ELSE audit[d].site
    OBVIOUS
  <2>1. PICK a : a = audit[d]
    OBVIOUS
  <2>2. a \in [by : Tenants \cup {Null}, site : SiteIds \cup {Null}]
    BY <2>1 DEF SiteTypes
  <2>3. audit'[d] = IF a.site = i THEN [a EXCEPT !.site = Null] ELSE a
    BY <1>1, <2>1
  <2> QED BY <2>1, <2>2, <2>3
<1>5. audit' \in [Domains -> [by : Tenants \cup {Null}, site : SiteIds \cup {Null}]]
  BY <1>1, <1>4
<1>6. SiteTypes'
  BY <1>1, <1>2, <1>5 DEF SiteTypes
<1>7. RowsOK'
  BY <1>1, <1>2, <1>3 DEF RowsOK
<1>8. AuditsOwn'
  <2> SUFFICES ASSUME NEW d \in Domains, NEW j, j = audit'[d].site, j # Null
               PROVE  audit'[d].by # Null /\ Exists(j)' /\ site'[j].owner = audit'[d].by
    BY DEF AuditsOwn, Exists
  <2>1. audit[d].site = j /\ j # i /\ audit'[d].by = audit[d].by
    BY <1>4
  <2>2. j \in SiteIds /\ audit[d].by # Null /\ Exists(j) /\ site[j].owner = audit[d].by
    BY <2>1 DEF AuditsOwn, SiteTypes
  <2> QED BY <1>2, <1>3, <2>1, <2>2
<1>9. Steady
  BY <1>1, <1>2, <1>3 DEF Steady, OwnOrGone, LiveOrGone, Exists
<1> QED BY <1>6, <1>7, <1>8, <1>9

\* A site without an owner is claimed: by a token after all others.
LEMMA StartRows ==
    ASSUME SiteTypes, RowsOK, AuditsOwn, NEW w \in Tenants, NEW i \in SiteIds, start_site_claim(w, i)
    PROVE  SiteTypes' /\ RowsOK' /\ AuditsOwn' /\ Steady
<1>1. PICK m, n, s, c :
          /\ m = [by |-> w, domain |-> site[i].domain] /\ n = Len(minted) + 1 /\ s = site[i]
          /\ c = [by |-> w, token |-> n]
  OBVIOUS
<1>2. /\ Exists(i) /\ s.owner = Null /\ Unclaimed(i, w) /\ Len(minted) < MaxTokens
      /\ minted' = Append(minted, m) /\ site' = [site EXCEPT ![i].claim = c]
      /\ lapsed' = lapsed /\ dns' = dns /\ audit' = audit
  BY <1>1 DEF start_site_claim
<1>3. s \in Site /\ s.domain \in Domains /\ m \in Minted
  BY <1>1, <1>2, SiteFields DEF Minted
<1>4. /\ minted \in Seq(Minted) /\ MaxTokens \in Nat /\ Len(minted) \in Nat
      /\ DOMAIN minted = 1..Len(minted)
  BY SiteConstants DEF SiteTypes
<1>5. /\ minted' \in Seq(Minted) /\ Len(minted') <= MaxTokens /\ DOMAIN minted' = 1..n
      /\ minted'[n] = m /\ \A k \in DOMAIN minted : k \in DOMAIN minted' /\ minted'[k] = minted[k] /\ k < n
  BY <1>1, <1>2, <1>3, <1>4
<1>6. n \in Tokens /\ c \in Claim /\ c.by = w /\ c.token = n /\ c # Null
  BY <1>1, <1>2, <1>4, Distinct DEF Tokens, Claim
<1>7. PICK r : r = [s EXCEPT !.claim = c]
  OBVIOUS
<1>8. r \in Site /\ r.domain = s.domain /\ r.owner = Null /\ r.claim = c
  BY <1>2, <1>3, <1>6, <1>7 DEF Site
<1>9. site' = [site EXCEPT ![i] = r]
  BY <1>1, <1>2, <1>7
<1>10. /\ site' \in [SiteIds -> Site \cup {Null, Deleted}] /\ site'[i] = r
       /\ \A j \in SiteIds : j # i => site'[j] = site[j]
  BY <1>8, <1>9 DEF SiteTypes
<1>11. \A j \in SiteIds : Exists(j)' = Exists(j)
  BY <1>2, <1>8, <1>10, Distinct DEF Exists
<1>12. SiteTypes'
  BY <1>2, <1>5, <1>10, <1>4 DEF SiteTypes
<1>13. m.by = w /\ m.domain = s.domain
  BY <1>1
<1>14. RowsOK'
  <2>1. \A j \in SiteIds : Exists(j)' /\ site'[j].claim # Null =>
            /\ site'[j].owner = Null /\ site'[j].claim.token \in DOMAIN minted'
            /\ minted'[site'[j].claim.token].by = site'[j].claim.by
            /\ minted'[site'[j].claim.token].domain = site'[j].domain
    <3> SUFFICES ASSUME NEW j \in SiteIds, Exists(j)', site'[j].claim # Null
                 PROVE  /\ site'[j].owner = Null /\ site'[j].claim.token \in DOMAIN minted'
                        /\ minted'[site'[j].claim.token].by = site'[j].claim.by
                        /\ minted'[site'[j].claim.token].domain = site'[j].domain
      OBVIOUS
    <3>1. CASE j = i
      BY <3>1, <1>1, <1>4, <1>5, <1>6, <1>8, <1>10, <1>13
    <3>2. CASE j # i
      BY <3>2, <1>5, <1>10, <1>11 DEF RowsOK
    <3> QED BY <3>1, <3>2
  <2>2. \A k \in dns : minted'[k].by \in Controls[minted'[k].domain]
    BY <1>5 DEF RowsOK, SiteTypes
  <2>3. \A j, k \in SiteIds : Exists(j)' /\ Exists(k)' /\ site'[j].domain = site'[k].domain => j = k
    BY <1>1, <1>8, <1>10, <1>11 DEF RowsOK
  <2> QED BY <2>1, <2>2, <2>3, <1>2 DEF RowsOK, Exists
<1>15. Steady
  <2>1. \A j \in SiteIds, v \in Tenants : OwnOrGone(j, v) => OwnOrGone(j, v)'
    BY <1>1, <1>2, <1>10, <1>11, Distinct DEF OwnOrGone, Exists
  <2>2. ASSUME NEW j \in SiteIds, NEW v \in Tenants, NEW k \in DOMAIN minted,
               k \notin lapsed', LiveOrGone(j, v, k), ~OwnOrGone(j, v)
        PROVE  LiveOrGone(j, v, k)'
    <3>1. /\ Exists(j) /\ site[j].owner = Null /\ site[j].claim # Null
          /\ site[j].claim.by = v /\ k <= site[j].claim.token /\ minted[k].domain = site[j].domain
      BY <2>2 DEF LiveOrGone
    <3>2. k \notin lapsed
      BY <2>2, <1>2
    <3>3. CASE j = i
      <4>1. s.claim.by = v /\ s.claim # Null /\ k <= s.claim.token
        BY <3>1, <3>3, <1>1
      <4>2. v = w
        <5>1. s.claim.token \notin lapsed
          <6>1. s.claim.token \in lapsed => 1..s.claim.token \subseteq lapsed
            BY DEF RowsOK
          <6>2. s.claim.token \in Nat
            BY <4>1, <1>1, <1>2, SiteFields
          <6>3. k \in 1..s.claim.token
            BY <4>1, <6>2, <1>4
          <6> QED BY <6>1, <6>3, <3>2
        <5> QED BY <5>1, <4>1, <1>1, <1>2 DEF Unclaimed
      <4>3. k <= n /\ minted'[k].domain = r.domain
        BY <1>1, <1>4, <1>5, <1>8, <3>1, <3>3
      <4> QED BY <3>2, <3>3, <4>2, <4>3, <1>2, <1>6, <1>8, <1>10, <1>11 DEF LiveOrGone
    <3>4. CASE j # i
      BY <3>1, <3>2, <3>4, <1>5, <1>10, <1>11 DEF LiveOrGone
    <3> QED BY <3>3, <3>4
  <2> QED BY <2>1, <2>2, <1>2, <1>5 DEF Steady, LiveOrGone
<1>16. NoneGoes
  BY <1>1, <1>2, <1>10, <1>11 DEF NoneGoes, Exists
<1> QED BY <1>2, <1>12, <1>14, <1>15, <1>16, AuditsStay

LEMMA LapseRows ==
    ASSUME SiteTypes, RowsOK, AuditsOwn, NEW n \in DOMAIN minted, ClaimLapses(n)
    PROVE  SiteTypes' /\ RowsOK' /\ AuditsOwn' /\ Steady
<1>1. /\ n \notin lapsed /\ 1..(n - 1) \subseteq lapsed /\ lapsed' = lapsed \cup {n}
      /\ site' = site /\ minted' = minted /\ dns' = dns /\ audit' = audit
  BY DEF ClaimLapses
<1>2. SiteTypes'
  BY <1>1 DEF SiteTypes
<1>3. n \in Nat
  BY DEF SiteTypes
<1>4. \A k \in lapsed' : 1..k \subseteq lapsed'
  <2>1. 1..n \subseteq lapsed'
    BY <1>1, <1>3
  <2> QED BY <1>1, <2>1 DEF RowsOK
<1>5. RowsOK'
  BY <1>1, <1>4 DEF RowsOK, Exists
<1>6. AuditsOwn'
  BY <1>1 DEF AuditsOwn, Exists
<1>7. Steady
  BY <1>1 DEF Steady, OwnOrGone, LiveOrGone, Exists
<1> QED BY <1>2, <1>5, <1>6, <1>7

LEMMA PublishRows ==
    ASSUME SiteTypes, RowsOK, AuditsOwn, NEW n \in DOMAIN minted, PublishRecord(n)
    PROVE  SiteTypes' /\ RowsOK' /\ AuditsOwn' /\ Steady
<1>1. /\ minted[n].by \in Controls[minted[n].domain] /\ dns' = dns \cup {n}
      /\ site' = site /\ minted' = minted /\ lapsed' = lapsed /\ audit' = audit
  BY DEF PublishRecord
<1>2. SiteTypes'
  BY <1>1 DEF SiteTypes
<1>3. RowsOK'
  BY <1>1 DEF RowsOK, Exists
<1>4. AuditsOwn'
  BY <1>1 DEF AuditsOwn, Exists
<1>5. Steady
  BY <1>1 DEF Steady, OwnOrGone, LiveOrGone, Exists
<1> QED BY <1>2, <1>3, <1>4, <1>5

\* A site that is verified passes to the workspace that has shown its token: it had no
\* owner, or that one.
LEMMA VerifyRows ==
    ASSUME SiteTypes, RowsOK, AuditsOwn, TabsOK, NEW t \in Tabs, verify_and_complete_site_claim(t)
    PROVE  /\ SiteTypes' /\ RowsOK' /\ AuditsOwn' /\ Steady
           /\ \A i \in SiteIds : i = tab[t].id => Exists(i)' /\ site'[i].owner = tab[t].by
           /\ LET i == tab[t].id w == tab[t].by IN
              /\ i \in SiteIds /\ w \in Tenants /\ Exists(i) /\ site[i].owner \in {Null, w}
              /\ site[i].owner = Null => w \in Controls[site[i].domain]
              /\ \A j \in SiteIds : j # i => site'[j] = site[j]
<1>1. PICK i, w, n, s : i = tab[t].id /\ w = tab[t].by /\ n = tab[t].token /\ s = site[i]
  OBVIOUS
<1>2. /\ tab[t].pc = "verified" /\ Exists(i) /\ n \notin lapsed
      /\ site' = [site EXCEPT ![i].owner = w, ![i].claim = Null]
      /\ minted' = minted /\ lapsed' = lapsed /\ dns' = dns /\ audit' = audit
  BY <1>1 DEF verify_and_complete_site_claim, StillLive, claims
<1>3. KnownFormed(tab[t]) /\ Knows(tab[t])
  BY DEF TabsOK
<1>4. i \in SiteIds /\ w \in Tenants /\ n \in DOMAIN minted /\ minted[n].by = w /\ n \in dns
  BY <1>1, <1>2, <1>3 DEF KnownFormed
<1>5. LiveOrGone(i, w, n)
  BY <1>1, <1>2, <1>3 DEF Knows
<1>6. s \in Site /\ s.owner \in {Null, w} /\ (s.owner = Null => s.claim # Null /\ s.claim.by = w /\ minted[n].domain = s.domain)
  <2>1. s \in Site /\ s # Deleted /\ w # Null
    BY <1>1, <1>2, <1>4, SiteFields, Distinct
  <2> QED BY <1>1, <1>5, <2>1 DEF LiveOrGone, OwnOrGone
<1>7. s.owner = Null => w \in Controls[s.domain]
  BY <1>4, <1>6 DEF RowsOK
<1>8. PICK r : r = [s EXCEPT !.owner = w, !.claim = Null]
  OBVIOUS
<1>9. r \in Site /\ r.domain = s.domain /\ r.owner = w /\ r.claim = Null
  BY <1>4, <1>6, <1>8 DEF Site
<1>10. site' = [site EXCEPT ![i] = r]
  BY <1>1, <1>2, <1>4, <1>8 DEF SiteTypes
<1>11. /\ site' \in [SiteIds -> Site \cup {Null, Deleted}] /\ site'[i] = r
       /\ \A j \in SiteIds : j # i => site'[j] = site[j]
  BY <1>4, <1>9, <1>10 DEF SiteTypes
<1>12. \A j \in SiteIds : Exists(j)' = Exists(j)
  BY <1>2, <1>9, <1>11, Distinct DEF Exists
<1>13. SiteTypes'
  BY <1>2, <1>11 DEF SiteTypes
<1>14. RowsOK'
  <2>1. \A j \in SiteIds : Exists(j)' /\ site'[j].claim # Null =>
            /\ site'[j].owner = Null /\ site'[j].claim.token \in DOMAIN minted
            /\ minted[site'[j].claim.token].by = site'[j].claim.by
            /\ minted[site'[j].claim.token].domain = site'[j].domain
    BY <1>4, <1>9, <1>11, <1>12 DEF RowsOK
  <2>2. \A j \in SiteIds : site'[j].domain = site[j].domain
    BY <1>1, <1>4, <1>9, <1>11
  <2>3. \A j, k \in SiteIds : Exists(j)' /\ Exists(k)' /\ site'[j].domain = site'[k].domain => j = k
    BY <2>2, <1>12 DEF RowsOK
  <2> QED BY <2>1, <2>3, <1>2 DEF RowsOK, Exists
<1>15. Steady
  <2>1. \A j \in SiteIds, v \in Tenants : OwnOrGone(j, v) => OwnOrGone(j, v)'
    <3> SUFFICES ASSUME NEW j \in SiteIds, NEW v \in Tenants, OwnOrGone(j, v)
                 PROVE  OwnOrGone(j, v)'
      OBVIOUS
    <3>1. CASE j = i
      <4>1. s # Deleted
        BY <1>1, <1>2, <1>4, SiteFields, Distinct
      <4>2. v = w
        BY <3>1, <4>1, <1>1, <1>6, Distinct DEF OwnOrGone
      <4> QED BY <3>1, <4>2, <1>2, <1>9, <1>11, <1>12 DEF OwnOrGone
    <3>2. CASE j # i
      BY <3>2, <1>11, <1>12 DEF OwnOrGone
    <3> QED BY <3>1, <3>2
  <2>2. \A j \in SiteIds, v \in Tenants, k \in DOMAIN minted : LiveOrGone(j, v, k) => LiveOrGone(j, v, k)'
    <3> SUFFICES ASSUME NEW j \in SiteIds, NEW v \in Tenants, NEW k \in DOMAIN minted, LiveOrGone(j, v, k), ~OwnOrGone(j, v)
                 PROVE  LiveOrGone(j, v, k)'
      BY <2>1 DEF LiveOrGone
    <3>1. CASE j = i
      BY <3>1, <1>1, <1>4, <1>6, <1>9, <1>11, <1>12 DEF LiveOrGone, OwnOrGone
    <3>2. CASE j # i
      BY <3>2, <1>2, <1>11, <1>12 DEF LiveOrGone
    <3> QED BY <3>1, <3>2
  <2> QED BY <2>1, <2>2, <1>2 DEF Steady
<1>16. NoneGoes
  BY <1>2, <1>4, <1>11, <1>12 DEF NoneGoes, Exists
<1>17. AuditsOwn'
  BY <1>2, <1>15, <1>16, AuditsStay
<1>18. Exists(i)' /\ site'[i].owner = w
  BY <1>2, <1>4, <1>9, <1>11, <1>12
<1>19. /\ tab[t].id \in SiteIds /\ tab[t].by \in Tenants /\ Exists(tab[t].id)
       /\ site[tab[t].id].owner \in {Null, tab[t].by}
       /\ site[tab[t].id].owner = Null => tab[t].by \in Controls[site[tab[t].id].domain]
  BY <1>1, <1>2, <1>4, <1>6, <1>7
<1>20. \A j \in SiteIds : j # tab[t].id => site'[j] = site[j]
  BY <1>1, <1>11
<1> QED BY <1>1, <1>13, <1>14, <1>15, <1>17, <1>18, <1>19, <1>20

\* The domain of a site is changed by the wizard of its workspace.
LEMMA MoveRows ==
    ASSUME SiteTypes, RowsOK, AuditsOwn, UNCHANGED <<minted, lapsed, dns, audit>>,
           NEW i \in SiteIds, NEW w \in Tenants, NEW d \in Domains,
           Exists(i), site[i].owner = w, At(d) \subseteq {i}, site' = [site EXCEPT ![i].domain = d]
    PROVE  /\ SiteTypes' /\ RowsOK' /\ AuditsOwn' /\ Steady
           /\ \A j \in SiteIds : Exists(j)' = Exists(j) /\ (Exists(j) => site'[j].owner = site[j].owner)
<1>1. PICK s, r : s = site[i] /\ r = [s EXCEPT !.domain = d]
  OBVIOUS
<1>2. s \in Site /\ s.owner = w
  BY <1>1, SiteFields
<1>3. r \in Site /\ r.domain = d /\ r.owner = w /\ r.claim = s.claim
  BY <1>1, <1>2 DEF Site
<1>4. site' = [site EXCEPT ![i] = r]
  BY <1>1
<1>5. /\ site' \in [SiteIds -> Site \cup {Null, Deleted}] /\ site'[i] = r
      /\ \A j \in SiteIds : j # i => site'[j] = site[j]
  BY <1>3, <1>4 DEF SiteTypes
<1>6. \A j \in SiteIds : Exists(j)' = Exists(j)
  BY <1>3, <1>5, Distinct DEF Exists
<1>7. \A j \in SiteIds : Exists(j) => site'[j].owner = site[j].owner
  BY <1>1, <1>2, <1>3, <1>5
<1>8. SiteTypes'
  BY <1>5 DEF SiteTypes
<1>9. s.claim = Null
  BY <1>1, <1>2, Distinct DEF RowsOK
<1>10. \A j \in SiteIds : Exists(j) /\ site[j].domain = d => j = i
  BY DEF At
<1>11. RowsOK'
  <2>1. \A j \in SiteIds : Exists(j)' /\ site'[j].claim # Null =>
            /\ site'[j].owner = Null /\ site'[j].claim.token \in DOMAIN minted
            /\ minted[site'[j].claim.token].by = site'[j].claim.by
            /\ minted[site'[j].claim.token].domain = site'[j].domain
    BY <1>3, <1>5, <1>6, <1>9 DEF RowsOK
  <2>2. \A j, k \in SiteIds : Exists(j)' /\ Exists(k)' /\ site'[j].domain = site'[k].domain => j = k
    BY <1>3, <1>5, <1>6, <1>10 DEF RowsOK
  <2> QED BY <2>1, <2>2 DEF RowsOK, Exists
<1>12. Steady
  <2>1. \A j \in SiteIds, v \in Tenants : OwnOrGone(j, v) => OwnOrGone(j, v)'
    <3> SUFFICES ASSUME NEW j \in SiteIds, NEW v \in Tenants, OwnOrGone(j, v)
                 PROVE  OwnOrGone(j, v)'
      OBVIOUS
    <3>1. CASE j = i
      BY <3>1, <1>1, <1>2, <1>3, <1>5, <1>6, Distinct DEF OwnOrGone
    <3>2. CASE j # i
      BY <3>2, <1>5, <1>6 DEF OwnOrGone
    <3> QED BY <3>1, <3>2
  <2>2. \A j \in SiteIds, v \in Tenants, k \in DOMAIN minted : LiveOrGone(j, v, k) => LiveOrGone(j, v, k)'
    <3> SUFFICES ASSUME NEW j \in SiteIds, NEW v \in Tenants, NEW k \in DOMAIN minted, LiveOrGone(j, v, k), ~OwnOrGone(j, v)
                 PROVE  LiveOrGone(j, v, k)'
      BY <2>1 DEF LiveOrGone
    <3>1. j # i
      BY <1>1, <1>2, Distinct DEF LiveOrGone
    <3> QED BY <3>1, <1>5, <1>6 DEF LiveOrGone
  <2> QED BY <2>1, <2>2 DEF Steady
<1>13. NoneGoes
  BY <1>3, <1>5, Distinct DEF NoneGoes
<1> QED BY <1>6, <1>7, <1>8, <1>11, <1>12, <1>13, AuditsStay
-----------------------------------------------------------------------------
\* Requests: what they know, the locks they hold, the quota they count.

LEMMA StillKnown ==
    ASSUME Steady, NEW r \in TabRow, KnownFormed(r), Knows(r)
    PROVE  KnownFormed(r)' /\ Knows(r)'
<1>1. KnownFormed(r)'
  BY DEF KnownFormed, Steady
<1>2. r.pc # "idle" => r.by \in Tenants
  BY DEF KnownFormed
<1>3. r.id \in SiteIds \cup {Null} /\ (r.pc \in WizardSteps => r.read.state.answers.site \in SiteIds \cup {Null})
  <2>1. r.id \in SiteIds \cup {Null}
    BY DEF TabRow
  <2>2. r.pc \in WizardSteps => r.read \in WizardReads
    BY DEF KnownFormed
  <2>3. ASSUME NEW x \in WizardReads PROVE x.state.answers.site \in SiteIds \cup {Null}
    BY <2>3 DEF WizardReads, OnboardingState, Answers
  <2> QED BY <2>1, <2>2, <2>3
<1>4. r.pc \in {"audit", "site"} /\ r.id # Null => OwnOrGone(r.id, r.by)'
  BY <1>2, <1>3 DEF Knows, Steady
<1>5. r.pc = "complete" => OwnOrGone(r.read.state.answers.site, r.by)'
  <2>1. r.pc = "complete" => r.read.state.answers.site \in SiteIds
    BY <1>3 DEF KnownFormed, WizardSteps
  <2> QED BY <2>1, <1>2 DEF Knows, Steady
<1>6. r.pc \in {"lookup", "verified"} /\ r.token \notin lapsed' => LiveOrGone(r.id, r.by, r.token)'
  <2> SUFFICES ASSUME r.pc \in {"lookup", "verified"}, r.token \notin lapsed'
               PROVE  LiveOrGone(r.id, r.by, r.token)'
    OBVIOUS
  <2>1. r.id \in SiteIds /\ r.by \in Tenants /\ r.token \in DOMAIN minted
    BY DEF KnownFormed
  <2>2. r.token \notin lapsed => LiveOrGone(r.id, r.by, r.token)
    BY DEF Knows
  <2>3. \A i \in SiteIds, w \in Tenants, n \in DOMAIN minted :
            n \notin lapsed' => (LiveOrGone(i, w, n) => LiveOrGone(i, w, n)')
    BY DEF Steady
  <2>4. PICK i, w, n : i = r.id /\ w = r.by /\ n = r.token
    OBVIOUS
  <2> QED BY <2>1, <2>2, <2>3, <2>4 DEF Steady
<1> QED BY <1>1, <1>4, <1>5, <1>6 DEF Knows

LEMMA TabsStay ==
    ASSUME TabsOK, Steady, UNCHANGED tab
    PROVE  TabsOK'
<1>1. \A t \in Tabs : tab[t] \in TabRow /\ KnownFormed(tab[t]) /\ Knows(tab[t])
  BY DEF TabsOK
<1>2. ASSUME NEW t \in Tabs PROVE KnownFormed(tab[t])' /\ Knows(tab[t])'
  <2>1. PICK r : r = tab[t]
    OBVIOUS
  <2>2. KnownFormed(r)' /\ Knows(r)'
    BY <1>1, <2>1, StillKnown
  <2>3. r = tab'[t]
    BY <2>1
  <2> QED BY <2>2, <2>3
<1> QED BY <1>1, <1>2 DEF TabsOK

LEMMA TabMoves ==
    ASSUME TabsOK, Steady, NEW t \in Tabs, NEW r \in TabRow, tab' = [tab EXCEPT ![t] = r],
           KnownFormed(r)', Knows(r)'
    PROVE  TabsOK'
<1>1. tab \in [Tabs -> TabRow] /\ \A u \in Tabs : KnownFormed(tab[u]) /\ Knows(tab[u])
  BY DEF TabsOK
<1>2. tab' \in [Tabs -> TabRow] /\ tab'[t] = r /\ \A u \in Tabs : u # t => tab'[u] = tab[u]
  BY <1>1
<1>3. ASSUME NEW u \in Tabs PROVE KnownFormed(tab[u])' /\ Knows(tab[u])'
  <2>1. PICK s : s = tab'[u]
    OBVIOUS
  <2>2. KnownFormed(s)' /\ Knows(s)'
    <3>1. CASE u = t
      BY <3>1, <2>1, <1>2
    <3>2. CASE u # t
      BY <3>2, <2>1, <1>1, <1>2, StillKnown
    <3> QED BY <3>1, <3>2
  <2> QED BY <2>1, <2>2
<1> QED BY <1>2, <1>3 DEF TabsOK

LEMMA ClosedRow ==
    /\ Closed \in TabRow /\ Closed.pc = "idle" /\ ~Grows(Closed)
    /\ KnownFormed(Closed)' /\ Knows(Closed)'
<1>1. /\ Closed \in TabRow /\ Closed.pc = "idle"
  BY DEF Closed, TabRow
<1> QED BY <1>1 DEF KnownFormed, Knows, Grows, WizardSteps

\* A request that leaves an audit as it is holds no lock that another one holds.
LEMMA LocksStay ==
    ASSUME AuditsLocked, TabsOK, NEW t \in Tabs, NEW r, tab' = [tab EXCEPT ![t] = r], r.pc # "audit",
           \A d \in Domains : audit'[d].by # audit[d].by => tab[t].pc = "audit" /\ tab[t].domain = d
    PROVE  AuditsLocked'
<1>1. tab'[t] = r /\ \A u \in Tabs : u # t => tab'[u] = tab[u]
  BY DEF TabsOK
<1> SUFFICES ASSUME NEW u \in Tabs, tab'[u].pc = "audit"
             PROVE  /\ audit'[tab'[u].domain].by \in {Null, tab'[u].by}
                    /\ \A v \in Tabs : tab'[v].pc = "audit" /\ tab'[v].domain = tab'[u].domain => v = u
  BY DEF AuditsLocked
<1>2. u # t /\ tab'[u] = tab[u]
  BY <1>1
<1>3. /\ audit[tab[u].domain].by \in {Null, tab[u].by}
      /\ \A v \in Tabs : tab[v].pc = "audit" /\ tab[v].domain = tab[u].domain => v = u
  BY <1>2 DEF AuditsLocked
<1>4. tab[u].domain \in Domains
  BY <1>2 DEF TabsOK, KnownFormed
<1>5. audit'[tab[u].domain].by = audit[tab[u].domain].by
  BY <1>2, <1>3, <1>4
<1> QED BY <1>1, <1>2, <1>3, <1>5

LEMMA LocksRest ==
    ASSUME AuditsLocked, TabsOK, UNCHANGED tab, \A d \in Domains : audit'[d].by = audit[d].by
    PROVE  AuditsLocked'
<1>1. \A t \in Tabs : tab[t].pc = "audit" => tab[t].domain \in Domains
  BY DEF TabsOK, KnownFormed
<1> QED BY <1>1 DEF AuditsLocked

LEMMA Growers ==
    ASSUME TabsOK, NEW t \in Tabs, NEW r, tab' = [tab EXCEPT ![t] = r], NEW w \in Tenants
    PROVE  /\ Grows(r) /\ r.by = w => GrowingSites(w)' = GrowingSites(w) \cup {t}
           /\ ~(Grows(r) /\ r.by = w) => GrowingSites(w)' = GrowingSites(w) \ {t}
<1>1. tab'[t] = r /\ \A u \in Tabs : u # t => tab'[u] = tab[u]
  BY DEF TabsOK
<1>2. \A u \in Tabs : u \in GrowingSites(w)' <=> Grows(tab'[u]) /\ tab'[u].by = w
  BY DEF GrowingSites, Grows
<1>3. \A u \in Tabs : u \in GrowingSites(w) <=> Grows(tab[u]) /\ tab[u].by = w
  BY DEF GrowingSites
<1>4. GrowingSites(w) \subseteq Tabs /\ GrowingSites(w)' \subseteq Tabs
  BY DEF GrowingSites
<1>5. \A u \in Tabs : u # t => (u \in GrowingSites(w)' <=> u \in GrowingSites(w))
  BY <1>1, <1>2, <1>3
<1>6. t \in GrowingSites(w)' <=> Grows(r) /\ r.by = w
  BY <1>1, <1>2
<1> HIDE DEF GrowingSites, Grows
<1> QED BY <1>4, <1>5, <1>6

\* The sites that count against the quota, and the requests that are about to add one.
Room(w) == Cardinality(OwnedBy(w) \ won) + Cardinality(GrowingSites(w))

LEMMA RoomSizes ==
    ASSUME QuotaOK, NEW w \in Tenants
    PROVE  /\ IsFiniteSet(OwnedBy(w)) /\ IsFiniteSet(GrowingSites(w)) /\ IsFiniteSet(OwnedBy(w) \ won)
           /\ Cardinality(OwnedBy(w) \ won) \in Nat /\ Cardinality(GrowingSites(w)) \in Nat
           /\ Cardinality(OwnedBy(w) \ won) <= Cardinality(OwnedBy(w)) /\ Cardinality(OwnedBy(w)) \in Nat
           /\ Room(w) <= SiteLimit + clashes /\ clashes \in Nat /\ SiteLimit \in Nat
<1>1. IsFiniteSet(OwnedBy(w)) /\ IsFiniteSet(GrowingSites(w)) /\ Room(w) <= SiteLimit + clashes
  BY DEF QuotaOK, Room
<1>2. OwnedBy(w) \ won \in SUBSET OwnedBy(w)
  OBVIOUS
<1>3. IsFiniteSet(OwnedBy(w) \ won) /\ Cardinality(OwnedBy(w) \ won) <= Cardinality(OwnedBy(w))
  BY <1>1, <1>2, FS_Subset
<1>4. clashes \in Nat /\ SiteLimit \in Nat
  BY SiteConstants DEF QuotaOK
<1> QED BY <1>1, <1>3, <1>4, FS_CardinalityType

\* Nothing more is counted.
LEMMA QuotaStays ==
    ASSUME QuotaOK, clashes' = clashes,
           \A w \in Tenants : /\ IsFiniteSet(OwnedBy(w)') /\ (OwnedBy(w) \ won)' \subseteq OwnedBy(w) \ won
                              /\ GrowingSites(w)' \subseteq GrowingSites(w)
    PROVE  QuotaOK'
<1> SUFFICES ASSUME NEW w \in Tenants
             PROVE  /\ IsFiniteSet(OwnedBy(w)') /\ IsFiniteSet(GrowingSites(w)')
                    /\ Room(w)' <= SiteLimit + clashes
  BY DEF QuotaOK, Room
<1>1. PICK O, P, G, H : O = OwnedBy(w) \ won /\ P = (OwnedBy(w) \ won)' /\ G = GrowingSites(w) /\ H = GrowingSites(w)'
  OBVIOUS
<1>2. /\ IsFiniteSet(O) /\ IsFiniteSet(G) /\ Cardinality(O) + Cardinality(G) <= SiteLimit + clashes
      /\ Cardinality(O) \in Nat /\ Cardinality(G) \in Nat /\ SiteLimit + clashes \in Nat
  BY <1>1, RoomSizes DEF Room
<1>3. P \in SUBSET O /\ H \in SUBSET G
  BY <1>1
<1>4. IsFiniteSet(P) /\ Cardinality(P) <= Cardinality(O) /\ IsFiniteSet(H) /\ Cardinality(H) <= Cardinality(G)
  BY <1>2, <1>3, FS_Subset
<1>5. Cardinality(P) \in Nat /\ Cardinality(H) \in Nat
  BY <1>4, FS_CardinalityType
<1>6. Cardinality(P) + Cardinality(H) <= SiteLimit + clashes
  BY <1>2, <1>4, <1>5
<1> QED BY <1>1, <1>4, <1>6 DEF Room

\* A request that is about to add a site has found room for it, or has clashed.
LEMMA QuotaOpens ==
    ASSUME QuotaOK, TabsOK, NEW t \in Tabs, NEW r, Opens(t, r), UNCHANGED <<site, won>>,
           Grows(r) => HasSeat(r.by)
    PROVE  QuotaOK'
<1>1. \A w \in Tenants : OwnedBy(w)' = OwnedBy(w)
  BY DEF OwnedBy, Exists
<1>2. /\ clashes \in 0..MaxClashes /\ MaxClashes \in Nat
      /\ tab' = [tab EXCEPT ![t] = r]
      /\ \/ clashes' = clashes /\ \A u \in Tabs : tab[u].pc = "idle"
         \/ clashes' = clashes + 1 /\ clashes < MaxClashes
  BY SiteConstants DEF Opens, QuotaOK
<1>3. clashes' \in 0..MaxClashes
  BY <1>2
<1> SUFFICES ASSUME NEW w \in Tenants
             PROVE  /\ IsFiniteSet(OwnedBy(w)') /\ IsFiniteSet(GrowingSites(w)')
                    /\ Room(w)' <= SiteLimit + clashes'
  BY <1>3 DEF QuotaOK, Room
<1>4. PICK O, A, G, H : O = OwnedBy(w) \ won /\ A = OwnedBy(w) /\ G = GrowingSites(w) /\ H = GrowingSites(w)'
  OBVIOUS
<1>5. /\ IsFiniteSet(A) /\ IsFiniteSet(O) /\ IsFiniteSet(G) /\ Cardinality(O) + Cardinality(G) <= SiteLimit + clashes
      /\ Cardinality(O) \in Nat /\ Cardinality(G) \in Nat /\ clashes \in Nat /\ SiteLimit \in Nat
      /\ Cardinality(O) <= Cardinality(A) /\ Cardinality(A) \in Nat
  BY <1>4, RoomSizes DEF Room
<1>6. IsFiniteSet(OwnedBy(w)') /\ OwnedBy(w)' \ won' = O
  BY <1>1, <1>4, <1>5
<1>7. IsFiniteSet(H) /\ Cardinality(O) + Cardinality(H) <= SiteLimit + clashes'
  <2>1. CASE Grows(r) /\ r.by = w
    <3>1. H = G \cup {t}
      BY <2>1, <1>2, <1>4, Growers
    <3>2. IsFiniteSet(H) /\ Cardinality(H) = IF t \in G THEN Cardinality(G) ELSE Cardinality(G) + 1
      BY <3>1, <1>5, FS_AddElement
    <3>3. CASE clashes' = clashes + 1
      BY <3>2, <3>3, <1>5
    <3>4. CASE clashes' = clashes /\ \A u \in Tabs : tab[u].pc = "idle"
      <4>1. G = {}
        BY <3>4, <1>4 DEF GrowingSites, Grows
      <4>2. Cardinality(G) = 0
        BY <4>1, FS_EmptySet
      <4>3. Cardinality(A) + 1 <= SiteLimit
        BY <2>1, <1>4 DEF HasSeat
      <4> QED BY <3>2, <3>4, <4>2, <4>3, <1>5
    <3> QED BY <3>3, <3>4, <1>2
  <2>2. CASE ~(Grows(r) /\ r.by = w)
    <3>1. H \in SUBSET G
      BY <2>2, <1>2, <1>4, Growers
    <3>2. IsFiniteSet(H) /\ Cardinality(H) <= Cardinality(G)
      BY <3>1, <1>5, FS_Subset
    <3>3. Cardinality(H) \in Nat /\ clashes' \in Nat /\ clashes <= clashes'
      BY <3>2, <1>2, FS_CardinalityType
    <3> QED BY <3>2, <3>3, <1>5
  <2> QED BY <2>1, <2>2
<1> QED BY <1>4, <1>6, <1>7 DEF Room

\* A request adds the site that was counted for it.
LEMMA QuotaInserts ==
    ASSUME QuotaOK, TabsOK, NEW t \in Tabs, NEW r, tab' = [tab EXCEPT ![t] = r],
           Grows(tab[t]), ~Grows(r), won' = won, clashes' = clashes,
           NEW i \in SiteIds, ~Exists(i), Exists(i)', site'[i].owner = tab[t].by,
           \A j \in SiteIds : j # i => site'[j] = site[j]
    PROVE  QuotaOK'
<1> SUFFICES ASSUME NEW w \in Tenants
             PROVE  /\ IsFiniteSet(OwnedBy(w)') /\ IsFiniteSet(GrowingSites(w)')
                    /\ Room(w)' <= SiteLimit + clashes
  BY DEF QuotaOK, Room
<1>1. \A j \in SiteIds : j # i => Exists(j)' = Exists(j)
  BY DEF Exists
<1>2. PICK O, A, B, G, H :
          O = OwnedBy(w) \ won /\ A = OwnedBy(w) /\ B = OwnedBy(w)' /\ G = GrowingSites(w) /\ H = GrowingSites(w)'
  OBVIOUS
<1>3. /\ IsFiniteSet(A) /\ IsFiniteSet(O) /\ IsFiniteSet(G) /\ Cardinality(O) + Cardinality(G) <= SiteLimit + clashes
      /\ Cardinality(O) \in Nat /\ Cardinality(G) \in Nat /\ clashes \in Nat /\ SiteLimit \in Nat
  BY <1>2, RoomSizes DEF Room
<1>4. H = G \ {t}
  BY <1>2, Growers
<1>5. IsFiniteSet(H) /\ Cardinality(H) = IF t \in G THEN Cardinality(G) - 1 ELSE Cardinality(G)
  BY <1>3, <1>4, FS_RemoveElement
<1>6. B = IF tab[t].by = w THEN A \cup {i} ELSE A
  BY <1>1, <1>2 DEF OwnedBy
<1>7. t \in G <=> tab[t].by = w
  BY <1>2 DEF GrowingSites
<1>8. CASE tab[t].by = w
  <2>1. IsFiniteSet(B)
    BY <1>3, <1>6, <1>8, FS_AddElement
  <2>2. PICK C : C = O \cup {i}
    OBVIOUS
  <2>3. IsFiniteSet(C) /\ Cardinality(C) <= Cardinality(O) + 1 /\ Cardinality(C) \in Nat
    <3>1. IsFiniteSet(C) /\ Cardinality(C) = IF i \in O THEN Cardinality(O) ELSE Cardinality(O) + 1
      BY <1>3, <2>2, FS_AddElement
    <3> QED BY <3>1, <1>3
  <2>4. B \ won \in SUBSET C
    BY <1>2, <1>6, <1>8, <2>2
  <2>5. IsFiniteSet(B \ won) /\ Cardinality(B \ won) <= Cardinality(C)
    BY <2>3, <2>4, FS_Subset
  <2>6. Cardinality(B \ won) \in Nat
    BY <2>5, FS_CardinalityType
  <2>7. Cardinality(B \ won) + Cardinality(H) <= SiteLimit + clashes
    BY <1>3, <1>5, <1>7, <1>8, <2>3, <2>5, <2>6
  <2> QED BY <2>1, <2>7, <1>2, <1>5 DEF Room
<1>9. CASE tab[t].by # w
  <2>1. B = A /\ H = G
    BY <1>4, <1>6, <1>7, <1>9
  <2>2. B \ won = O
    BY <1>2, <2>1
  <2> QED BY <2>1, <2>2, <1>2, <1>3 DEF Room
<1> QED BY <1>8, <1>9
-----------------------------------------------------------------------------
\* The wizard.

LEMMA WizardStays ==
    ASSUME WizardOK, UNCHANGED wizard
    PROVE  WizardOK'
  BY DEF WizardOK

\* What an UPDATE leaves is the new row, as far as it changed the row it had read.
LEMMA Written ==
    ASSUME WizardOK, NEW w \in Founders, NEW read \in OnboardingState, NEW new \in OnboardingState,
           NEW text \in BOOLEAN, Write(w, read, new, text)
    PROVE  /\ wizard' \in [Founders -> OnboardingState]
           /\ \A v \in Founders : v # w => wizard'[v] = wizard[v]
           /\ read = wizard[w] => wizard'[w] = new
<1>1. PICK old, changed : old = wizard[w] /\ changed = {f \in DOMAIN new : new[f] # read[f] \/ (text /\ f = "answers")}
  OBVIOUS
<1>2. PICK row : row = [f \in DOMAIN new |-> IF f \in changed THEN new[f] ELSE old[f]]
  OBVIOUS
<1>3. old \in OnboardingState
  BY <1>1 DEF WizardOK
<1>4. DOMAIN new = {"steps", "answers", "status"} /\ DOMAIN read = {"steps", "answers", "status"}
  BY DEF OnboardingState
<1>5. /\ row \in OnboardingState
      /\ row.answers = IF "answers" \in changed THEN new.answers ELSE old.answers
      /\ row.steps = IF "steps" \in changed THEN new.steps ELSE old.steps
      /\ row.status = IF "status" \in changed THEN new.status ELSE old.status
  BY <1>2, <1>3, <1>4 DEF OnboardingState
<1>6. wizard' = [wizard EXCEPT ![w] = row]
  BY <1>1, <1>2 DEF Write
<1>7. wizard' \in [Founders -> OnboardingState] /\ wizard'[w] = row /\ \A v \in Founders : v # w => wizard'[v] = wizard[v]
  BY <1>5, <1>6 DEF WizardOK
<1>8. /\ "answers" \notin changed => new.answers = read.answers
      /\ "steps" \notin changed => new.steps = read.steps
      /\ "status" \notin changed => new.status = read.status
  BY <1>1, <1>4
<1>9. read = old => row = new
  BY <1>5, <1>8 DEF OnboardingState
<1> QED BY <1>1, <1>7, <1>9

LEMMA AloneOpens ==
    ASSUME Alone, TabsOK, QuotaOK, UNCHANGED wizard, NEW t \in Tabs, NEW r, Opens(t, r),
           r.pc \in WizardSteps => r.read.state = wizard[r.by]
    PROVE  Alone' /\ (clashes' = 0 => clashes = 0)
<1>1. /\ clashes \in Nat
      /\ \/ clashes' = clashes /\ \A u \in Tabs : tab[u].pc = "idle"
         \/ clashes' = clashes + 1
  BY DEF Opens, QuotaOK
<1>2. tab'[t] = r /\ \A u \in Tabs : u # t => tab'[u] = tab[u]
  BY DEF Opens, TabsOK
<1>3. clashes' = 0 => clashes = 0 /\ \A u \in Tabs : tab[u].pc = "idle"
  BY <1>1
<1>4. \A u \in Tabs : tab[u].pc = "idle" => tab[u].pc \notin WizardSteps
  BY DEF WizardSteps
<1> QED BY <1>2, <1>3, <1>4 DEF Alone

LEMMA AloneMoves ==
    ASSUME Alone, TabsOK, clashes' = clashes, NEW t \in Tabs, tab[t].pc # "idle", NEW r, tab' = [tab EXCEPT ![t] = r],
           clashes = 0 /\ r.pc \in WizardSteps => r.read.state = wizard'[r.by]
    PROVE  Alone'
<1>1. tab'[t] = r /\ \A u \in Tabs : u # t => tab'[u] = tab[u]
  BY DEF TabsOK
<1>2. clashes = 0 => \A u \in Tabs : u # t => tab[u].pc = "idle"
  BY DEF Alone
<1>3. \A u \in Tabs : tab[u].pc = "idle" => tab[u].pc \notin WizardSteps
  BY DEF WizardSteps
<1> QED BY <1>1, <1>2, <1>3 DEF Alone

\* What a row of the wizard of w says about itself and its site.
ReadyRow(w, s) ==
    s.status = "completed" =>
        /\ Required \cup {"review"} \subseteq s.steps
        /\ s.answers.launch \in {"queued", "running"}
        /\ s.answers.site # Null /\ OwnOrGone(s.answers.site, w)

LEMMA ReadyRows ==
    ASSUME WizardOK
    PROVE  CompletedIsReady <=> (clashes = 0 => \A w \in Founders : ReadyRow(w, wizard[w]))
<1>1. ASSUME NEW i \in SiteIds, NEW w PROVE OwnOrGone(i, w) <=> Own(i, w) \/ site[i] = Deleted
  BY DEF OwnOrGone, Own, OwnedBy
<1>2. ASSUME NEW w \in Founders PROVE wizard[w].answers.site # Null => wizard[w].answers.site \in SiteIds
  BY DEF WizardOK, OnboardingState, Answers
<1> QED BY <1>1, <1>2 DEF CompletedIsReady, ReadyRow

LEMMA ReadyStays ==
    ASSUME WizardOK, CompletedIsReady, Steady, UNCHANGED wizard, clashes' = 0 => clashes = 0
    PROVE  CompletedIsReady'
<1>1. ASSUME NEW w \in Founders, ReadyRow(w, wizard[w]) PROVE ReadyRow(w, wizard[w])'
  <2>1. wizard[w].answers.site # Null => wizard[w].answers.site \in SiteIds
    BY DEF WizardOK, OnboardingState, Answers
  <2>2. w \in Tenants
    BY OnboardingConstants
  <2>3. PICK i : i = wizard[w].answers.site
    OBVIOUS
  <2>4. i # Null /\ OwnOrGone(i, w) => OwnOrGone(i, w)'
    BY <2>1, <2>2, <2>3 DEF Steady
  <2>5. wizard'[w].answers.site = i /\ wizard'[w] = wizard[w]
    BY <2>3
  <2> QED BY <1>1, <2>3, <2>4, <2>5 DEF ReadyRow
<1>2. clashes' = 0 => \A w \in Founders : ReadyRow(w, wizard[w])'
  BY <1>1, ReadyRows
<1>3. ASSUME NEW i \in SiteIds, NEW v PROVE OwnOrGone(i, v)' => (Own(i, v) \/ site[i] = Deleted)'
  BY DEF OwnOrGone, Own, OwnedBy, Exists
<1>4. ASSUME NEW v \in Founders PROVE wizard[v].answers.site # Null => wizard[v].answers.site \in SiteIds
  BY DEF WizardOK, OnboardingState, Answers
<1> QED BY <1>2, <1>3, <1>4 DEF CompletedIsReady, ReadyRow

\* A request opens, with what it has read.
LEMMA OpenKeeps ==
    ASSUME SiteIInv, UNCHANGED <<rows, wizard>>, NEW t \in Tabs, NEW r \in TabRow, Opens(t, r),
           KnownFormed(r), Knows(r), Grows(r) => HasSeat(r.by),
           r.pc \in WizardSteps => r.read.state = wizard[r.by],
           r.pc = "audit" => /\ audit[r.domain].by \in {Null, r.by}
                             /\ \A u \in Tabs : ~(tab[u].pc = "audit" /\ tab[u].domain = r.domain)
    PROVE  SiteIInv'
<1>1. SiteTypes' /\ RowsOK' /\ AuditsOwn' /\ Steady
  BY SameRows DEF SiteIInv
<1>2. tab' = [tab EXCEPT ![t] = r]
  BY DEF Opens
<1>3. KnownFormed(r)' /\ Knows(r)'
  BY <1>1, StillKnown
<1>4. TabsOK'
  BY <1>1, <1>2, <1>3, TabMoves DEF SiteIInv
<1>5. AuditsLocked'
  <2>1. tab'[t] = r /\ \A u \in Tabs : u # t => tab'[u] = tab[u]
    BY <1>2 DEF SiteIInv, TabsOK
  <2>2. audit' = audit
    BY DEF rows
  <2> QED BY <2>1, <2>2 DEF SiteIInv, AuditsLocked
<1>6. QuotaOK'
  BY QuotaOpens DEF SiteIInv, rows
<1>7. WizardOK'
  BY <1>1, WizardStays DEF SiteIInv
<1>8. Alone' /\ CompletedIsReady'
  BY <1>1, AloneOpens, ReadyStays DEF SiteIInv
<1> QED BY <1>1, <1>4, <1>5, <1>6, <1>7, <1>8 DEF SiteIInv

\* A request goes on, or ends, with what it commits.
LEMMA MoveKeeps ==
    ASSUME SiteIInv, SiteTypes', RowsOK', AuditsOwn', Steady,
           NEW t \in Tabs, tab[t].pc # "idle", NEW r \in TabRow, tab' = [tab EXCEPT ![t] = r], clashes' = clashes,
           KnownFormed(r)', Knows(r)', r.pc # "audit",
           \A d \in Domains : audit'[d].by # audit[d].by => tab[t].pc = "audit" /\ tab[t].domain = d,
           QuotaOK', WizardOK', CompletedIsReady',
           clashes = 0 /\ r.pc \in WizardSteps => r.read.state = wizard'[r.by]
    PROVE  SiteIInv'
<1>1. TabsOK'
  BY TabMoves DEF SiteIInv
<1>2. AuditsLocked'
  BY LocksStay DEF SiteIInv
<1>3. Alone'
  BY AloneMoves DEF SiteIInv
<1> QED BY <1>1, <1>2, <1>3 DEF SiteIInv

\* A request goes on, or ends, and has committed nothing but the wizard.
LEMMA QuietKeeps ==
    ASSUME SiteIInv, UNCHANGED rows,
           NEW t \in Tabs, tab[t].pc # "idle", NEW r \in TabRow, tab' = [tab EXCEPT ![t] = r], clashes' = clashes,
           KnownFormed(r), Knows(r), r.pc # "audit", ~Grows(r),
           WizardOK', CompletedIsReady',
           clashes = 0 /\ r.pc \in WizardSteps => r.read.state = wizard'[r.by]
    PROVE  SiteIInv'
<1>1. SiteTypes' /\ RowsOK' /\ AuditsOwn' /\ Steady
  BY SameRows DEF SiteIInv
<1>2. KnownFormed(r)' /\ Knows(r)'
  BY <1>1, StillKnown
<1>3. \A w \in Tenants : OwnedBy(w)' = OwnedBy(w) /\ won' = won
  BY DEF OwnedBy, Exists, rows
<1>4. ASSUME NEW w \in Tenants PROVE GrowingSites(w)' \subseteq GrowingSites(w)
  <2>1. TabsOK
    BY DEF SiteIInv
  <2>2. ~(Grows(r) /\ r.by = w) => GrowingSites(w)' = GrowingSites(w) \ {t}
    BY <2>1, Growers
  <2> QED BY <2>2
<1>5. \A w \in Tenants : IsFiniteSet(OwnedBy(w))
  BY DEF SiteIInv, QuotaOK
<1>6. QuotaOK'
  BY <1>3, <1>4, <1>5, QuotaStays DEF SiteIInv
<1>7. audit' = audit
  BY DEF rows
<1> QED BY <1>1, <1>2, <1>6, <1>7, MoveKeeps

\* Steps of no request.
LEMMA RestKeeps ==
    ASSUME SiteIInv, SiteTypes', RowsOK', AuditsOwn', Steady, UNCHANGED <<tab, clashes, wizard>>,
           \A d \in Domains : audit'[d].by = audit[d].by,
           \A w \in Tenants : OwnedBy(w)' \subseteq OwnedBy(w) /\ (OwnedBy(w) \ won)' \subseteq OwnedBy(w) \ won
    PROVE  SiteIInv'
<1>1. TabsOK' /\ AuditsLocked' /\ WizardOK'
  BY TabsStay, LocksRest, WizardStays DEF SiteIInv
<1>2. \A w \in Tenants : GrowingSites(w)' = GrowingSites(w)
  BY DEF GrowingSites, Grows
<1>3. ASSUME NEW w \in Tenants PROVE IsFiniteSet(OwnedBy(w)')
  <2>1. OwnedBy(w)' \in SUBSET OwnedBy(w) /\ IsFiniteSet(OwnedBy(w))
    BY DEF SiteIInv, QuotaOK
  <2> QED BY <2>1, FS_Subset
<1>4. QuotaOK'
  BY <1>2, <1>3, QuotaStays DEF SiteIInv
<1>5. Alone' /\ CompletedIsReady'
  <2>1. Alone'
    BY DEF SiteIInv, Alone
  <2> QED BY <2>1, ReadyStays DEF SiteIInv
<1> QED BY <1>1, <1>4, <1>5 DEF SiteIInv
-----------------------------------------------------------------------------
\* The actions.

LEMMA Wizards ==
    ASSUME WizardOK, NEW w \in Founders
    PROVE  wizard[w] \in OnboardingState /\ w \in Tenants /\ wizard[w].answers.site \in SiteIds \cup {Null}
  BY OnboardingConstants DEF WizardOK, OnboardingState, Answers

LEMMA CreateOpens ==
    ASSUME SiteIInv, UNCHANGED wizard, NEW t \in Tabs, NEW w \in Tenants, NEW d \in Domains, create_site_endpoint(t, w, d)
    PROVE  SiteIInv'
<1>1. PICK r : r = [Closed EXCEPT !.pc = "create", !.by = w, !.domain = d]
  OBVIOUS
<1>2. r \in TabRow /\ r.pc = "create" /\ r.by = w /\ r.domain = d
  BY <1>1 DEF Closed, TabRow
<1>3. Opens(t, r) /\ UNCHANGED rows /\ HasSeat(w)
  BY <1>1 DEF create_site_endpoint
<1>4. KnownFormed(r) /\ Knows(r)
  BY <1>2 DEF KnownFormed, Knows, WizardSteps
<1>5. r.pc \notin WizardSteps
  BY <1>2 DEF WizardSteps
<1> QED BY <1>2, <1>3, <1>4, <1>5, OpenKeeps

LEMMA ClaimOpens ==
    ASSUME SiteIInv, UNCHANGED wizard, NEW t \in Tabs, NEW w \in Tenants, NEW d \in Domains, claim_free_audit(t, w, d)
    PROVE  SiteIInv'
<1>1. PICK own : own = {i \in SiteIds : i = audit[d].site /\ Exists(i)}
  OBVIOUS
<1>2. /\ ~\E u \in Tabs : tab[u].pc = "audit" /\ tab[u].domain = d
      /\ Claimable(d, w)
      /\ IF own # {} THEN \A i \in own : site[i].owner = w ELSE MayHave(w, d)
      /\ \E i \in (IF own # {} THEN own ELSE IF At(d) # {} THEN At(d) ELSE {Null}) :
            Opens(t, [Closed EXCEPT !.pc = "audit", !.by = w, !.domain = d, !.id = i])
      /\ UNCHANGED rows
  BY <1>1 DEF claim_free_audit
<1>3. PICK i \in (IF own # {} THEN own ELSE IF At(d) # {} THEN At(d) ELSE {Null}) :
          Opens(t, [Closed EXCEPT !.pc = "audit", !.by = w, !.domain = d, !.id = i])
  BY <1>2
<1>4. PICK r : r = [Closed EXCEPT !.pc = "audit", !.by = w, !.domain = d, !.id = i]
  OBVIOUS
<1>5. \/ i \in SiteIds /\ Exists(i) /\ site[i].owner = w
      \/ i = Null /\ HasSeat(w)
  BY <1>1, <1>2, <1>3 DEF MayHave, At
<1>6. r \in TabRow /\ r.pc = "audit" /\ r.by = w /\ r.domain = d /\ r.id = i
  BY <1>4, <1>5 DEF Closed, TabRow
<1>7. r.pc \notin WizardSteps
  BY <1>6 DEF WizardSteps
<1>8. KnownFormed(r) /\ Knows(r)
  BY <1>5, <1>6, <1>7 DEF KnownFormed, Knows, OwnOrGone
<1>9. Grows(r) => HasSeat(r.by)
  BY <1>5, <1>6, Distinct DEF Grows
<1>10. audit[d].by \in {Null, w} /\ \A u \in Tabs : ~(tab[u].pc = "audit" /\ tab[u].domain = d)
  BY <1>2 DEF Claimable
<1>11. Opens(t, r) /\ UNCHANGED rows
  BY <1>2, <1>3, <1>4
<1> QED BY <1>6, <1>7, <1>8, <1>9, <1>10, <1>11, OpenKeeps

LEMMA VerifyOpens ==
    ASSUME SiteIInv, UNCHANGED wizard, NEW t \in Tabs, NEW w \in Tenants, NEW i \in SiteIds, NEW n \in DOMAIN minted,
           verify_claim(t, w, i, n)
    PROVE  SiteIInv'
<1>1. PICK r : r = [Closed EXCEPT !.pc = "lookup", !.by = w, !.id = i, !.token = n]
  OBVIOUS
<1>2. n \in Nat
  BY DEF SiteIInv, SiteTypes
<1>3. r \in TabRow /\ r.pc = "lookup" /\ r.by = w /\ r.id = i /\ r.token = n
  BY <1>1, <1>2 DEF Closed, TabRow
<1>4. /\ Opens(t, r) /\ UNCHANGED rows
      /\ Exists(i) /\ site[i].owner = Null /\ site[i].claim # Null /\ site[i].claim.by = w /\ site[i].claim.token = n
  BY <1>1 DEF verify_claim, token_matches
<1>5. minted[n].by = w /\ minted[n].domain = site[i].domain
  BY <1>4 DEF SiteIInv, RowsOK
<1>6. r.pc \notin WizardSteps
  BY <1>3 DEF WizardSteps
<1>7. LiveOrGone(i, w, n)
  BY <1>2, <1>4, <1>5 DEF LiveOrGone
<1>8. KnownFormed(r)
  BY <1>3, <1>5, <1>6 DEF KnownFormed
<1>9. Knows(r)
  BY <1>3, <1>6, <1>7 DEF Knows
<1>10. ~Grows(r)
  BY <1>3 DEF Grows
<1> QED BY <1>3, <1>4, <1>6, <1>8, <1>9, <1>10, OpenKeeps

LEMMA SaveOpens ==
    ASSUME SiteIInv, NEW t \in Tabs, NEW w \in Founders, NEW step \in ONBOARDING_STEPS, NEW done \in BOOLEAN,
           save_step(t, w, step, done)
    PROVE  SiteIInv'
<1>1. PICK x : x = [state |-> wizard[w], step |-> step, done |-> done]
  OBVIOUS
<1>2. wizard[w] \in OnboardingState /\ w \in Tenants /\ wizard[w].answers.site \in SiteIds \cup {Null}
  BY Wizards DEF SiteIInv
<1>3. PICK id \in SiteIds \cup {Null} : Opens(t, [Closed EXCEPT !.pc = "answer", !.by = w, !.id = id, !.read = x])
  <2>1. PICK ids : ids = IF step = "site" THEN Named \cup {wizard[w].answers.site} ELSE {Null}
    OBVIOUS
  <2>2. \E id \in ids : Opens(t, [Closed EXCEPT !.pc = "answer", !.by = w, !.id = id, !.read = x])
    BY <1>1, <2>1 DEF save_step
  <2>3. ids \subseteq SiteIds \cup {Null}
    BY <1>2, <2>1 DEF Named
  <2> QED BY <2>2, <2>3
<1>4. PICK r : r = [Closed EXCEPT !.pc = "answer", !.by = w, !.id = id, !.read = x]
  OBVIOUS
<1>5. x \in WizardReads /\ x.state = wizard[w]
  BY <1>1, <1>2 DEF WizardReads
<1>6. r \in TabRow /\ r.pc = "answer" /\ r.by = w /\ r.read = x
  BY <1>2, <1>3, <1>4, <1>5 DEF Closed, TabRow, WizardSteps
<1>7. Opens(t, r) /\ UNCHANGED <<rows, wizard>>
  BY <1>3, <1>4 DEF save_step
<1>8. KnownFormed(r) /\ Knows(r)
  BY <1>2, <1>5, <1>6 DEF KnownFormed, Knows
<1>9. ~Grows(r)
  BY <1>6 DEF Grows
<1> QED BY <1>5, <1>6, <1>7, <1>8, <1>9, OpenKeeps

LEMMA CompleteOpens ==
    ASSUME SiteIInv, NEW t \in Tabs, NEW w \in Founders, complete_onboarding(t, w)
    PROVE  SiteIInv'
<1>1. PICK x, r : /\ x = [state |-> wizard[w], step |-> "review", done |-> TRUE]
                  /\ r = [Closed EXCEPT !.pc = "complete", !.by = w, !.read = x]
  OBVIOUS
<1>2. wizard[w] \in OnboardingState /\ w \in Tenants
  BY Wizards DEF SiteIInv
<1>3. x \in WizardReads /\ x.state = wizard[w]
  BY <1>1, <1>2 DEF WizardReads, ONBOARDING_STEPS
<1>4. r \in TabRow /\ r.pc = "complete" /\ r.by = w /\ r.read = x
  BY <1>1, <1>2, <1>3 DEF Closed, TabRow, WizardSteps
<1>5. Opens(t, r) /\ UNCHANGED <<rows, wizard>> /\ Required \subseteq wizard[w].steps /\ wizard[w].answers.site # Null
  BY <1>1 DEF complete_onboarding, Ready
<1>6. OwnOrGone(wizard[w].answers.site, w)
  BY DEF complete_onboarding, Own, OwnedBy, OwnOrGone
<1>7. KnownFormed(r)
  BY <1>2, <1>3, <1>4, <1>5 DEF KnownFormed
<1>8. Knows(r)
  BY <1>3, <1>4, <1>6 DEF Knows
<1>9. ~Grows(r)
  BY <1>4 DEF Grows
<1> QED BY <1>3, <1>4, <1>5, <1>7, <1>8, <1>9, OpenKeeps

LEMMA SiteStepOpens ==
    ASSUME SiteIInv, NEW t \in Tabs, NEW w \in Founders, NEW d \in Domains, ReadSiteStep(t, w, d)
    PROVE  SiteIInv'
<1>1. PICK before, choice, x :
          /\ before = {i \in OwnedBy(w) : i = wizard[w].answers.site}
          /\ choice = IF At(d) # {} THEN At(d) ELSE before
          /\ x = [state |-> wizard[w], step |-> "site", done |-> TRUE]
  OBVIOUS
<1>2. /\ Available(d, w) /\ (choice = {} => HasSeat(w))
      /\ \E i \in (IF choice = {} THEN {Null} ELSE choice) :
            Opens(t, [Closed EXCEPT !.pc = "site", !.by = w, !.domain = d, !.id = i, !.read = x])
      /\ UNCHANGED <<rows, wizard>>
  BY <1>1 DEF ReadSiteStep
<1>3. PICK i \in (IF choice = {} THEN {Null} ELSE choice) :
            Opens(t, [Closed EXCEPT !.pc = "site", !.by = w, !.domain = d, !.id = i, !.read = x])
  BY <1>2
<1>4. PICK r : r = [Closed EXCEPT !.pc = "site", !.by = w, !.domain = d, !.id = i, !.read = x]
  OBVIOUS
<1>5. wizard[w] \in OnboardingState /\ w \in Tenants
  BY Wizards DEF SiteIInv
<1>6. x \in WizardReads /\ x.state = wizard[w] /\ x.step = "site"
  BY <1>1, <1>5 DEF WizardReads, ONBOARDING_STEPS
<1>7. \/ i \in SiteIds /\ Exists(i) /\ site[i].owner = w
      \/ i = Null /\ HasSeat(w)
  BY <1>1, <1>2, <1>3 DEF Available, Own, OwnedBy
<1>8. r \in TabRow /\ r.pc = "site" /\ r.by = w /\ r.domain = d /\ r.id = i /\ r.read = x
  BY <1>4, <1>5, <1>6, <1>7 DEF Closed, TabRow, WizardSteps
<1>10. KnownFormed(r)
  BY <1>5, <1>6, <1>8 DEF KnownFormed
<1>11. Knows(r)
  BY <1>6, <1>7, <1>8 DEF Knows, OwnOrGone
<1>12. Grows(r) => HasSeat(r.by)
  BY <1>7, <1>8, Distinct DEF Grows
<1>13. Opens(t, r) /\ UNCHANGED <<rows, wizard>>
  BY <1>2, <1>3, <1>4
<1> QED BY <1>6, <1>8, <1>10, <1>11, <1>12, <1>13, OpenKeeps

LEMMA ClosesKeeps ==
    ASSUME SiteIInv, UNCHANGED <<rows, wizard>>, NEW t \in Tabs, tab[t].pc # "idle", Closes(t)
    PROVE  SiteIInv'
<1>1. tab' = [tab EXCEPT ![t] = Closed] /\ clashes' = clashes
  BY DEF Closes
<1>2. SiteTypes' /\ RowsOK' /\ AuditsOwn' /\ Steady
  BY SameRows DEF SiteIInv
<1>3. WizardOK' /\ CompletedIsReady'
  BY <1>1, <1>2, WizardStays, ReadyStays DEF SiteIInv
<1>4. Closed.pc \notin WizardSteps /\ Closed.pc # "audit" /\ Closed \in TabRow /\ ~Grows(Closed)
  BY ClosedRow DEF WizardSteps
<1>5. KnownFormed(Closed) /\ Knows(Closed)
  BY <1>4, ClosedRow DEF KnownFormed, Knows
<1> QED BY <1>1, <1>3, <1>4, <1>5, QuietKeeps

LEMMA LookupKeeps ==
    ASSUME SiteIInv, UNCHANGED wizard, NEW t \in Tabs, dns_txt_contains(t)
    PROVE  SiteIInv'
<1>1. PICK r, s : s = tab[t] /\ r = [s EXCEPT !.pc = "verified"]
  OBVIOUS
<1>2. /\ s.pc = "lookup" /\ s.token \in dns /\ tab' = [tab EXCEPT ![t] = r] /\ clashes' = clashes /\ UNCHANGED rows
  BY <1>1 DEF dns_txt_contains
<1>3. s \in TabRow /\ KnownFormed(s) /\ Knows(s)
  BY <1>1 DEF SiteIInv, TabsOK
<1>4. r \in TabRow /\ r.pc = "verified" /\ r.by = s.by /\ r.id = s.id /\ r.token = s.token
  BY <1>1, <1>3 DEF TabRow
<1>5. r.pc \notin WizardSteps
  BY <1>4 DEF WizardSteps
<1>6. KnownFormed(r)
  BY <1>2, <1>3, <1>4, <1>5 DEF KnownFormed
<1>7. Knows(r)
  BY <1>2, <1>3, <1>4, <1>5 DEF Knows
<1>8. ~Grows(r)
  BY <1>4 DEF Grows
<1>9. SiteTypes' /\ RowsOK' /\ AuditsOwn' /\ Steady
  BY <1>2, SameRows DEF SiteIInv
<1>10. WizardOK' /\ CompletedIsReady'
  BY <1>2, <1>9, WizardStays, ReadyStays DEF SiteIInv
<1> QED BY <1>1, <1>2, <1>4, <1>5, <1>6, <1>7, <1>8, <1>10, QuietKeeps

LEMMA CreateCommits ==
    ASSUME SiteIInv, UNCHANGED wizard, NEW t \in Tabs, create_site(t)
    PROVE  SiteIInv'
<1>1. PICK s : s = tab[t]
  OBVIOUS
<1>2. PICK i \in SiteIds : Insert(i, s.by, s.domain)
  BY <1>1 DEF create_site
<1>3. /\ s.pc = "create" /\ tab' = [tab EXCEPT ![t] = Closed] /\ clashes' = clashes
      /\ minted' = minted /\ lapsed' = lapsed /\ dns' = dns /\ won' = won /\ audit' = audit
  BY <1>1 DEF create_site, Closes, claims
<1>4. s.by \in Tenants /\ s.domain \in Domains
  <2>1. KnownFormed(s)
    BY <1>1 DEF SiteIInv, TabsOK
  <2> QED BY <2>1, <1>3 DEF KnownFormed
<1>5. SiteTypes /\ RowsOK /\ AuditsOwn
  BY DEF SiteIInv
<1>6. /\ site' \in [SiteIds -> Site \cup {Null, Deleted}] /\ RowsOK' /\ Steady /\ NoneGoes
      /\ site[i] = Null /\ Exists(i)' /\ site'[i].owner = s.by
      /\ \A j \in SiteIds : j # i => site'[j] = site[j]
  BY <1>2, <1>3, <1>4, <1>5, Inserted
<1>7. SiteTypes' /\ AuditsOwn'
  BY <1>3, <1>5, <1>6, AuditsStay DEF SiteTypes
<1>8. ~Exists(i)
  BY <1>6 DEF Exists
<1>9. Grows(s)
  BY <1>3 DEF Grows
<1>10. QuotaOK'
  BY <1>1, <1>3, <1>6, <1>8, <1>9, ClosedRow, QuotaInserts DEF SiteIInv
<1>11. WizardOK' /\ CompletedIsReady'
  BY <1>3, <1>6, WizardStays, ReadyStays DEF SiteIInv
<1>12. Closed.pc \notin WizardSteps /\ Closed.pc # "audit" /\ Closed \in TabRow
  BY ClosedRow DEF WizardSteps
<1> QED BY <1>1, <1>3, <1>6, <1>7, <1>10, <1>11, <1>12, ClosedRow, MoveKeeps

LEMMA VerifyCommits ==
    ASSUME SiteIInv, UNCHANGED wizard, NEW t \in Tabs, verify_and_complete_site_claim(t)
    PROVE  SiteIInv'
<1>1. SiteTypes /\ RowsOK /\ AuditsOwn /\ TabsOK
  BY DEF SiteIInv
<1>2. PICK i, w : i = tab[t].id /\ w = tab[t].by
  OBVIOUS
<1>3. /\ SiteTypes' /\ RowsOK' /\ AuditsOwn' /\ Steady
      /\ i \in SiteIds /\ w \in Tenants /\ Exists(i)
      /\ \A j \in SiteIds : j # i => site'[j] = site[j]
  BY <1>1, <1>2, VerifyRows
<1>4. /\ tab[t].pc = "verified" /\ tab' = [tab EXCEPT ![t] = Closed] /\ clashes' = clashes
      /\ won' = won \cup {i} /\ audit' = audit
  BY <1>2 DEF verify_and_complete_site_claim, Closes
<1>5. \A j \in SiteIds : j # i => Exists(j)' = Exists(j)
  BY <1>3 DEF Exists
<1>6. ASSUME NEW v \in Tenants
      PROVE  /\ IsFiniteSet(OwnedBy(v)') /\ (OwnedBy(v) \ won)' \subseteq OwnedBy(v) \ won
             /\ GrowingSites(v)' \subseteq GrowingSites(v)
  <2>1. OwnedBy(v)' \subseteq OwnedBy(v) \cup {i}
    BY <1>3, <1>5 DEF OwnedBy
  <2>2. PICK A, B : A = OwnedBy(v) \cup {i} /\ B = OwnedBy(v)'
    OBVIOUS
  <2>3. IsFiniteSet(OwnedBy(v))
    BY DEF SiteIInv, QuotaOK
  <2>4. IsFiniteSet(A)
    BY <2>2, <2>3, FS_AddElement
  <2>5. B \in SUBSET A
    BY <2>1, <2>2
  <2>6. IsFiniteSet(B)
    BY <2>4, <2>5, FS_Subset
  <2>7. (OwnedBy(v) \ won)' \subseteq OwnedBy(v) \ won
    BY <2>1, <1>4
  <2>8. ~(Grows(Closed) /\ Closed.by = v) => GrowingSites(v)' = GrowingSites(v) \ {t}
    BY <1>1, <1>4, Growers
  <2> QED BY <2>2, <2>6, <2>7, <2>8, ClosedRow
<1>7. QuotaOK'
  BY <1>4, <1>6, QuotaStays DEF SiteIInv
<1>8. WizardOK' /\ CompletedIsReady'
  BY <1>3, <1>4, WizardStays, ReadyStays DEF SiteIInv
<1>9. Closed.pc \notin WizardSteps /\ Closed.pc # "audit" /\ Closed \in TabRow
  BY ClosedRow DEF WizardSteps
<1> QED BY <1>3, <1>4, <1>7, <1>8, <1>9, ClosedRow, MoveKeeps

\* The claim of an audit, on the rows as they are after the site was made or found.
LEMMA AuditNamed ==
    ASSUME SiteTypes, AuditsOwn, NEW d \in Domains, NEW w \in Tenants, NEW i \in SiteIds,
           audit' = [audit EXCEPT ![d] = [by |-> w, site |-> i]],
           Exists(i)', site'[i].owner = w, Steady, NoneGoes
    PROVE  /\ audit' \in [Domains -> [by : Tenants \cup {Null}, site : SiteIds \cup {Null}]]
           /\ AuditsOwn'
           /\ \A e \in Domains : e # d => audit'[e] = audit[e]
           /\ audit'[d].by = w
<1>1. PICK a : a = [by |-> w, site |-> i]
  OBVIOUS
<1>2. a \in [by : Tenants \cup {Null}, site : SiteIds \cup {Null}] /\ a.by = w /\ a.site = i
  BY <1>1
<1>3. /\ audit' \in [Domains -> [by : Tenants \cup {Null}, site : SiteIds \cup {Null}]]
      /\ audit'[d] = a /\ \A e \in Domains : e # d => audit'[e] = audit[e]
  BY <1>1, <1>2 DEF SiteTypes
<1>4. AuditsOwn'
  <2> SUFFICES ASSUME NEW e \in Domains, NEW j, j = audit'[e].site, j # Null
               PROVE  audit'[e].by # Null /\ Exists(j)' /\ site'[j].owner = audit'[e].by
    BY DEF AuditsOwn, Exists
  <2>1. CASE e = d
    BY <2>1, <1>2, <1>3, Distinct
  <2>2. CASE e # d
    <3>1. PICK v : v = audit[e].by
      OBVIOUS
    <3>2. audit'[e].by = v /\ audit[e].site = j
      BY <2>2, <1>3, <3>1
    <3>3. v # Null /\ v \in Tenants /\ j \in SiteIds /\ Exists(j) /\ site[j].owner = v
      BY <3>1, <3>2 DEF AuditsOwn, SiteTypes
    <3>4. OwnOrGone(j, v) /\ site[j] # Deleted
      BY <3>3 DEF OwnOrGone, Exists
    <3>5. OwnOrGone(j, v)'
      BY <3>3, <3>4 DEF Steady
    <3>6. site'[j] # Deleted
      BY <3>3, <3>4 DEF NoneGoes
    <3> QED BY <3>2, <3>3, <3>5, <3>6 DEF OwnOrGone
  <2> QED BY <2>1, <2>2
<1> QED BY <1>2, <1>3, <1>4

LEMMA AuditCommits ==
    ASSUME SiteIInv, UNCHANGED wizard, NEW t \in Tabs, CommitAuditClaim(t)
    PROVE  /\ SiteIInv'
           /\ \A d \in Domains : audit[d].by # Null => audit'[d].by = audit[d].by
           /\ \A i \in SiteIds : Exists(i) => site'[i] = site[i]
<1>1. PICK s : s = tab[t]
  OBVIOUS
<1>2. PICK i \in SiteIds :
          /\ IF s.id = Null THEN Insert(i, s.by, s.domain) ELSE i = s.id /\ Exists(i) /\ UNCHANGED site
          /\ audit' = [audit EXCEPT ![s.domain] = [by |-> s.by, site |-> i]]
  BY <1>1 DEF CommitAuditClaim
<1>3. /\ s.pc = "audit" /\ tab' = [tab EXCEPT ![t] = Closed] /\ clashes' = clashes
      /\ minted' = minted /\ lapsed' = lapsed /\ dns' = dns /\ won' = won
  BY <1>1 DEF CommitAuditClaim, Closes, claims
<1>4. KnownFormed(s) /\ Knows(s)
  BY <1>1 DEF SiteIInv, TabsOK
<1>5. s.by \in Tenants /\ s.domain \in Domains /\ (s.id # Null => OwnOrGone(s.id, s.by))
  BY <1>3, <1>4 DEF KnownFormed, Knows
<1>6. SiteTypes /\ RowsOK /\ AuditsOwn /\ TabsOK /\ QuotaOK
  BY DEF SiteIInv
<1>7. /\ site' \in [SiteIds -> Site \cup {Null, Deleted}]
      /\ RowsOK' /\ Steady /\ NoneGoes /\ Exists(i)' /\ site'[i].owner = s.by /\ QuotaOK'
      /\ \A j \in SiteIds : Exists(j) => site'[j] = site[j]
  <2>1. CASE s.id = Null
    <3>1. Insert(i, s.by, s.domain)
      BY <2>1, <1>2
    <3>2. /\ site' \in [SiteIds -> Site \cup {Null, Deleted}] /\ RowsOK' /\ Steady /\ NoneGoes
          /\ site[i] = Null /\ Exists(i)' /\ site'[i].owner = s.by
          /\ \A j \in SiteIds : j # i => site'[j] = site[j]
      BY <3>1, <1>3, <1>5, <1>6, Inserted
    <3>3. ~Exists(i)
      BY <3>2 DEF Exists
    <3>4. Grows(s)
      BY <2>1, <1>3 DEF Grows
    <3>5. QuotaOK'
      BY <1>1, <1>3, <1>6, <3>2, <3>3, <3>4, ClosedRow, QuotaInserts
    <3> QED BY <3>2, <3>3, <3>5
  <2>2. CASE s.id # Null
    <3>1. i = s.id /\ Exists(i) /\ site' = site
      BY <2>2, <1>2
    <3>2. Exists(i)' /\ site'[i].owner = s.by
      BY <2>2, <3>1, <1>5 DEF OwnOrGone, Exists
    <3>3. RowsOK' /\ Steady /\ NoneGoes
      BY <3>1, <1>3, <1>6 DEF RowsOK, Steady, NoneGoes, OwnOrGone, LiveOrGone, Exists
    <3>4. \A w \in Tenants : OwnedBy(w)' = OwnedBy(w)
      BY <3>1 DEF OwnedBy, Exists
    <3>5. ASSUME NEW w \in Tenants
          PROVE  /\ IsFiniteSet(OwnedBy(w)') /\ (OwnedBy(w) \ won)' \subseteq OwnedBy(w) \ won
                 /\ GrowingSites(w)' \subseteq GrowingSites(w)
      <4>1. IsFiniteSet(OwnedBy(w))
        BY <1>6 DEF QuotaOK
      <4>2. ~(Grows(Closed) /\ Closed.by = w) => GrowingSites(w)' = GrowingSites(w) \ {t}
        BY <1>3, <1>6, Growers
      <4> QED BY <3>4, <4>1, <4>2, <1>3, ClosedRow
    <3>6. QuotaOK'
      BY <3>5, <1>3, <1>6, QuotaStays
    <3> QED BY <3>1, <3>2, <3>3, <3>6, <1>6 DEF SiteTypes
  <2> QED BY <2>1, <2>2
<1>8. /\ audit' \in [Domains -> [by : Tenants \cup {Null}, site : SiteIds \cup {Null}]]
      /\ AuditsOwn'
      /\ \A e \in Domains : e # s.domain => audit'[e] = audit[e]
      /\ audit'[s.domain].by = s.by
  BY <1>2, <1>5, <1>6, <1>7, AuditNamed
<1>9. SiteTypes'
  BY <1>3, <1>6, <1>7, <1>8 DEF SiteTypes
<1>10. WizardOK' /\ CompletedIsReady'
  BY <1>3, <1>7, WizardStays, ReadyStays DEF SiteIInv
<1>11. Closed.pc \notin WizardSteps /\ Closed.pc # "audit" /\ Closed \in TabRow
  BY ClosedRow DEF WizardSteps
<1>12. \A d \in Domains : audit'[d].by # audit[d].by => tab[t].pc = "audit" /\ tab[t].domain = d
  BY <1>1, <1>3, <1>8
<1>13. SiteIInv'
  BY <1>1, <1>3, <1>7, <1>8, <1>9, <1>10, <1>11, <1>12, ClosedRow, MoveKeeps
<1>14. audit[s.domain].by \in {Null, s.by}
  BY <1>1, <1>3 DEF SiteIInv, AuditsLocked
<1> QED BY <1>7, <1>8, <1>13, <1>14

LEMMA SiteStepCommits ==
    ASSUME SiteIInv, NEW t \in Tabs, _apply_site(t)
    PROVE  /\ SiteIInv' /\ UNCHANGED audit
           /\ \A i \in SiteIds : Exists(i) => Exists(i)' /\ site'[i].owner = site[i].owner
<1>1. PICK s : s = tab[t]
  OBVIOUS
<1>2. PICK i \in SiteIds :
          /\ \/ s.id = Null /\ Insert(i, s.by, s.domain)
             \/ /\ s.id = i /\ Exists(i) /\ At(s.domain) \subseteq {i}
                /\ site' = [site EXCEPT ![i].domain = s.domain]
          /\ tab' = [tab EXCEPT ![t].pc = "answer", ![t].id = i]
  BY <1>1 DEF _apply_site
<1>3. /\ s.pc = "site" /\ clashes' = clashes
      /\ minted' = minted /\ lapsed' = lapsed /\ dns' = dns /\ won' = won /\ audit' = audit /\ wizard' = wizard
  BY <1>1 DEF _apply_site, claims
<1>4. s \in TabRow /\ KnownFormed(s) /\ Knows(s)
  BY <1>1 DEF SiteIInv, TabsOK
<1>5. /\ s.by \in Tenants /\ s.by \in Founders /\ s.domain \in Domains /\ s.read \in WizardReads
      /\ s.id # Null => OwnOrGone(s.id, s.by)
  BY <1>3, <1>4 DEF KnownFormed, Knows, WizardSteps
<1>6. SiteTypes /\ RowsOK /\ AuditsOwn /\ TabsOK /\ QuotaOK
  BY DEF SiteIInv
<1>7. PICK r : r = [s EXCEPT !.pc = "answer", !.id = i]
  OBVIOUS
<1>8. r \in TabRow /\ r.pc = "answer" /\ r.by = s.by /\ r.id = i /\ r.read = s.read
  BY <1>4, <1>7 DEF TabRow, WizardSteps
<1>9. tab' = [tab EXCEPT ![t] = r]
  BY <1>1, <1>2, <1>6, <1>7 DEF TabsOK
<1>10. ~Grows(r)
  BY <1>8 DEF Grows
<1>11. /\ SiteTypes' /\ RowsOK' /\ AuditsOwn' /\ Steady /\ OwnOrGone(i, s.by)' /\ QuotaOK'
       /\ \A j \in SiteIds : Exists(j) => Exists(j)' /\ site'[j].owner = site[j].owner
  <2>1. CASE s.id = Null /\ Insert(i, s.by, s.domain)
    <3>1. /\ site' \in [SiteIds -> Site \cup {Null, Deleted}] /\ RowsOK' /\ Steady /\ NoneGoes
          /\ site[i] = Null /\ Exists(i)' /\ site'[i].owner = s.by
          /\ \A j \in SiteIds : j # i => site'[j] = site[j]
      BY <2>1, <1>3, <1>5, <1>6, Inserted
    <3>2. SiteTypes' /\ AuditsOwn'
      BY <3>1, <1>3, <1>6, AuditsStay DEF SiteTypes
    <3>3. ~Exists(i)
      BY <3>1 DEF Exists
    <3>4. Grows(s)
      BY <2>1, <1>3 DEF Grows
    <3>5. QuotaOK'
      BY <1>1, <1>3, <1>6, <1>9, <1>10, <3>1, <3>3, <3>4, QuotaInserts
    <3>6. \A j \in SiteIds : Exists(j) => Exists(j)' /\ site'[j].owner = site[j].owner
      BY <3>1, <3>3 DEF Exists
    <3>7. OwnOrGone(i, s.by)'
      BY <3>1 DEF OwnOrGone
    <3> QED BY <3>1, <3>2, <3>5, <3>6, <3>7
  <2>2. CASE s.id = i /\ Exists(i) /\ At(s.domain) \subseteq {i} /\ site' = [site EXCEPT ![i].domain = s.domain]
    <3>1. site[i].owner = s.by
      BY <2>2, <1>5, Distinct DEF OwnOrGone, Exists
    <3>2. /\ SiteTypes' /\ RowsOK' /\ AuditsOwn' /\ Steady
          /\ \A j \in SiteIds : Exists(j)' = Exists(j) /\ (Exists(j) => site'[j].owner = site[j].owner)
      BY <2>2, <3>1, <1>3, <1>5, <1>6, MoveRows
    <3>3. \A w \in Tenants : OwnedBy(w)' = OwnedBy(w)
      BY <3>2 DEF OwnedBy
    <3>4. ASSUME NEW w \in Tenants
          PROVE  /\ IsFiniteSet(OwnedBy(w)') /\ (OwnedBy(w) \ won)' \subseteq OwnedBy(w) \ won
                 /\ GrowingSites(w)' \subseteq GrowingSites(w)
      <4>1. IsFiniteSet(OwnedBy(w))
        BY <1>6 DEF QuotaOK
      <4>2. ~(Grows(r) /\ r.by = w) => GrowingSites(w)' = GrowingSites(w) \ {t}
        BY <1>6, <1>9, Growers
      <4> QED BY <3>3, <4>1, <4>2, <1>3, <1>10
    <3>5. QuotaOK'
      BY <3>4, <1>3, <1>6, QuotaStays
    <3>6. OwnOrGone(i, s.by)'
      BY <3>1, <3>2, <2>2 DEF OwnOrGone
    <3> QED BY <3>2, <3>5, <3>6
  <2> QED BY <2>1, <2>2, <1>2
<1>12. WizardOK' /\ CompletedIsReady'
  BY <1>3, <1>11, WizardStays, ReadyStays DEF SiteIInv
<1>13. KnownFormed(r)'
  BY <1>5, <1>8 DEF KnownFormed
<1>14. Knows(r)'
  BY <1>8 DEF Knows
<1>15. clashes = 0 => r.read.state = wizard'[r.by]
  BY <1>1, <1>3, <1>8 DEF SiteIInv, Alone, WizardSteps
<1>16. SiteIInv'
  BY <1>1, <1>3, <1>8, <1>9, <1>11, <1>12, <1>13, <1>14, <1>15, MoveKeeps
<1> QED BY <1>3, <1>11, <1>16

LEMMA ReadyWrites ==
    ASSUME WizardOK, CompletedIsReady, UNCHANGED rows, clashes' = clashes,
           NEW w \in Founders, NEW read \in OnboardingState, NEW new \in OnboardingState, NEW text \in BOOLEAN,
           Write(w, read, new, text), clashes = 0 => read = wizard[w], ReadyRow(w, read) => ReadyRow(w, new)
    PROVE  WizardOK' /\ CompletedIsReady'
<1>1. /\ wizard' \in [Founders -> OnboardingState]
      /\ \A v \in Founders : v # w => wizard'[v] = wizard[v]
      /\ read = wizard[w] => wizard'[w] = new
  BY Written
<1>2. clashes = 0 => \A v \in Founders : ReadyRow(v, wizard[v])
  BY ReadyRows
<1>3. clashes = 0 => \A v \in Founders : ReadyRow(v, wizard'[v])
  BY <1>1, <1>2
<1>4. ASSUME NEW i \in SiteIds, NEW v PROVE OwnOrGone(i, v) => (Own(i, v) \/ site[i] = Deleted)'
  BY DEF OwnOrGone, Own, OwnedBy, Exists, rows
<1>5. ASSUME NEW v \in Founders PROVE wizard'[v].answers.site # Null => wizard'[v].answers.site \in SiteIds
  BY <1>1 DEF OnboardingState, Answers
<1> QED BY <1>1, <1>3, <1>4, <1>5 DEF CompletedIsReady, ReadyRow, WizardOK

\* A request in the wizard writes a row, and goes on to r.
LEMMA WriteKeeps ==
    ASSUME SiteIInv, UNCHANGED rows, NEW t \in Tabs, tab[t].pc \in WizardSteps, clashes' = clashes,
           NEW new \in OnboardingState, NEW text \in BOOLEAN, Write(tab[t].by, tab[t].read.state, new, text),
           ReadyRow(tab[t].by, tab[t].read.state) => ReadyRow(tab[t].by, new),
           NEW r \in TabRow, tab' = [tab EXCEPT ![t] = r], KnownFormed(r), Knows(r), r.pc # "audit", ~Grows(r),
           r.pc \in WizardSteps => r.read.state = wizard'[r.by]
    PROVE  SiteIInv'
<1>1. PICK w, read : w = tab[t].by /\ read = tab[t].read.state
  OBVIOUS
<1>2. w \in Founders /\ read \in OnboardingState /\ tab[t].pc # "idle"
  <2>1. KnownFormed(tab[t])
    BY DEF SiteIInv, TabsOK
  <2> QED BY <1>1, <2>1 DEF KnownFormed, WizardReads, WizardSteps
<1>3. clashes = 0 => read = wizard[w]
  BY <1>1 DEF SiteIInv, Alone
<1>4. WizardOK' /\ CompletedIsReady'
  BY <1>1, <1>2, <1>3, ReadyWrites DEF SiteIInv
<1> QED BY <1>2, <1>4, QuietKeeps

LEMMA WriteCloses ==
    ASSUME SiteIInv, UNCHANGED rows, NEW t \in Tabs, tab[t].pc \in WizardSteps, Closes(t),
           NEW new \in OnboardingState, NEW text \in BOOLEAN, Write(tab[t].by, tab[t].read.state, new, text),
           ReadyRow(tab[t].by, tab[t].read.state) => ReadyRow(tab[t].by, new)
    PROVE  SiteIInv'
<1>1. tab' = [tab EXCEPT ![t] = Closed] /\ clashes' = clashes
  BY DEF Closes
<1>2. Closed.pc \notin WizardSteps /\ Closed.pc # "audit" /\ Closed \in TabRow /\ ~Grows(Closed)
  BY ClosedRow DEF WizardSteps
<1>3. KnownFormed(Closed) /\ Knows(Closed)
  BY <1>2, ClosedRow DEF KnownFormed, Knows
<1> QED BY <1>1, <1>2, <1>3, WriteKeeps

\* The rows that requests have read.
LEMMA ReadOf ==
    ASSUME SiteIInv, NEW t \in Tabs, tab[t].pc \in WizardSteps
    PROVE  /\ tab[t] \in TabRow /\ tab[t].by \in Founders /\ tab[t].by \in Tenants /\ tab[t].read \in WizardReads
           /\ tab[t].read.state \in OnboardingState
           /\ tab[t].read.state.answers \in Answers
           /\ tab[t].pc = "complete" => OwnOrGone(tab[t].read.state.answers.site, tab[t].by)
<1>1. PICK s : s = tab[t]
  OBVIOUS
<1>2. s \in TabRow /\ KnownFormed(s) /\ Knows(s)
  BY <1>1 DEF SiteIInv, TabsOK
<1>3. s.by \in Founders /\ s.read \in WizardReads
  BY <1>1, <1>2 DEF KnownFormed
<1>4. s.read.state \in OnboardingState
  BY <1>3 DEF WizardReads
<1>5. s.read.state.answers \in Answers
  BY <1>4 DEF OnboardingState
<1> QED BY <1>1, <1>2, <1>3, <1>4, <1>5, OnboardingConstants DEF Knows

LEMMA StepCommits ==
    ASSUME SiteIInv, NEW t \in Tabs, CommitStep(t)
    PROVE  SiteIInv'
<1>1. PICK s, x : s = tab[t] /\ x = s.read.state
  OBVIOUS
<1>2. PICK new : new = save_onboarding_step(x, s.read.step, s.read.done, s.id)
  OBVIOUS
<1>3. s.pc = "answer" /\ s.pc \in WizardSteps /\ Closes(t) /\ UNCHANGED rows
  BY <1>1, <1>2 DEF CommitStep, WizardSteps
<1>4. PICK text \in BOOLEAN : Write(s.by, x, new, text)
  BY <1>1, <1>2 DEF CommitStep
<1>5. s \in TabRow /\ s.read \in WizardReads /\ x \in OnboardingState /\ x.answers \in Answers
  BY <1>1, <1>3, ReadOf
<1>6. PICK step, id : step = s.read.step /\ id = s.id
  OBVIOUS
<1>7. step \in ONBOARDING_STEPS /\ id \in SiteIds \cup {Null}
  BY <1>5, <1>6 DEF WizardReads, TabRow
<1>8. PICK added, answers :
          /\ added = (IF s.read.done THEN {step} ELSE {})
          /\ answers = (IF step = "site" THEN [x.answers EXCEPT !.site = id] ELSE x.answers)
  OBVIOUS
<1>9. new = [steps |-> x.steps \cup added, answers |-> answers, status |-> "in_progress"]
  BY <1>2, <1>6, <1>8 DEF save_onboarding_step
<1>10. added \subseteq ONBOARDING_STEPS /\ answers \in Answers /\ x.steps \subseteq ONBOARDING_STEPS
  BY <1>5, <1>7, <1>8 DEF Answers, OnboardingState
<1>11. new \in OnboardingState /\ new.status = "in_progress"
  BY <1>9, <1>10 DEF OnboardingState
<1>12. ReadyRow(s.by, new)
  BY <1>11 DEF ReadyRow
<1> QED BY <1>1, <1>3, <1>4, <1>11, <1>12, WriteCloses

LEMMA FinishKeeps ==
    ASSUME SiteIInv, NEW t \in Tabs, finish_onboarding(t) \/ _mark_launch_failed(t)
    PROVE  SiteIInv'
<1>1. PICK s, x : s = tab[t] /\ x = s.read.state
  OBVIOUS
<1>2. PICK new : new = IF finish_onboarding(t) THEN [x EXCEPT !.answers.launch = "running"] ELSE Reopened(x)
  OBVIOUS
<1>3. /\ s.pc = "launch" /\ s.pc \in WizardSteps /\ Closes(t) /\ UNCHANGED rows
      /\ \E text \in BOOLEAN : Write(s.by, x, new, text)
  BY <1>1, <1>2 DEF finish_onboarding, _mark_launch_failed, WizardSteps
<1>4. x \in OnboardingState /\ x.answers \in Answers
  BY <1>1, <1>3, ReadOf
<1>5. PICK answers : answers = [x.answers EXCEPT !.launch = IF finish_onboarding(t) THEN "running" ELSE "failed"]
  OBVIOUS
<1>6. /\ answers \in Answers /\ answers.site = x.answers.site
      /\ answers.launch = IF finish_onboarding(t) THEN "running" ELSE "failed"
  BY <1>4, <1>5 DEF Answers
<1>7. CASE finish_onboarding(t)
  <2>1. new = [x EXCEPT !.answers = answers]
    BY <1>2, <1>4, <1>5, <1>7 DEF OnboardingState
  <2>2. new \in OnboardingState /\ new.steps = x.steps /\ new.answers = answers /\ new.status = x.status
    BY <2>1, <1>4, <1>6 DEF OnboardingState
  <2>3. ReadyRow(s.by, x) => ReadyRow(s.by, new)
    BY <2>2, <1>6, <1>7 DEF ReadyRow
  <2> QED BY <2>2, <2>3, <1>1, <1>3, <1>4, <1>6, WriteCloses
<1>8. CASE ~finish_onboarding(t)
  <2>1. new = [steps |-> x.steps \ {"review"}, answers |-> answers, status |-> "in_progress"]
    BY <1>2, <1>5, <1>8 DEF Reopened
  <2>2. /\ new \in OnboardingState /\ new.steps = x.steps \ {"review"} /\ new.answers = answers
        /\ new.status = "in_progress"
    BY <2>1, <1>4, <1>6 DEF OnboardingState
  <2>3. ReadyRow(s.by, x) => ReadyRow(s.by, new)
    BY <2>2, <1>6, <1>8 DEF ReadyRow
  <2> QED BY <2>2, <2>3, <1>1, <1>3, <1>4, <1>6, WriteCloses
<1> QED BY <1>7, <1>8

LEMMA CompletionCommits ==
    ASSUME SiteIInv, NEW t \in Tabs, CommitCompletion(t)
    PROVE  SiteIInv'
<1>1. PICK s, x : s = tab[t] /\ x = s.read.state
  OBVIOUS
<1>2. PICK answers, new :
          /\ answers = [x.answers EXCEPT !.launch = "queued"]
          /\ new = [steps |-> x.steps \cup {"review"}, answers |-> answers, status |-> "completed"]
  OBVIOUS
<1>3. /\ s.pc = "complete" /\ s.pc \in WizardSteps /\ Write(s.by, x, new, TRUE) /\ UNCHANGED rows
      /\ \/ Closes(t)
         \/ tab' = [tab EXCEPT ![t].pc = "launch", ![t].read.state = wizard'[s.by]] /\ UNCHANGED clashes
  BY <1>1, <1>2 DEF CommitCompletion, WizardSteps
<1>4. /\ s \in TabRow /\ s.by \in Founders /\ s.by \in Tenants /\ s.read \in WizardReads
      /\ x \in OnboardingState /\ x.answers \in Answers
      /\ OwnOrGone(x.answers.site, s.by)
  BY <1>1, <1>3, ReadOf
<1>5. Required \subseteq x.steps /\ x.answers.site # Null
  BY <1>1, <1>3 DEF SiteIInv, TabsOK, KnownFormed
<1>6. answers \in Answers /\ answers.site = x.answers.site /\ answers.launch = "queued"
  BY <1>2, <1>4 DEF Answers
<1>7. new \in OnboardingState /\ new.steps = x.steps \cup {"review"} /\ new.answers = answers
  BY <1>2, <1>4, <1>6 DEF OnboardingState, ONBOARDING_STEPS
<1>8. ReadyRow(s.by, new)
  BY <1>4, <1>5, <1>6, <1>7 DEF ReadyRow
<1>10. CASE Closes(t)
  <2>1. TRUE \in BOOLEAN
    OBVIOUS
  <2> QED BY <2>1, <1>1, <1>3, <1>7, <1>8, <1>10, WriteCloses
<1>11. CASE tab' = [tab EXCEPT ![t].pc = "launch", ![t].read.state = wizard'[s.by]] /\ UNCHANGED clashes
  <2>1. PICK y, z, r : y = wizard'[s.by] /\ z = [s.read EXCEPT !.state = y] /\ r = [s EXCEPT !.pc = "launch", !.read = z]
    OBVIOUS
  <2>2. WizardOK /\ TabsOK
    BY DEF SiteIInv
  <2>3. y \in OnboardingState
    BY <2>1, <2>2, <1>3, <1>4, <1>7, Written
  <2>4. z \in WizardReads /\ z.state = y
    BY <2>1, <2>3, <1>4 DEF WizardReads
  <2>5. r \in TabRow /\ r.pc = "launch" /\ r.by = s.by /\ r.read = z
    BY <2>1, <2>4, <1>4 DEF TabRow, WizardSteps
  <2>6. tab' = [tab EXCEPT ![t] = r]
    <3>1. [s EXCEPT !.pc = "launch", !.read.state = y] = r
      BY <2>1, <1>4 DEF TabRow
    <3> QED BY <3>1, <2>1, <2>2, <1>1, <1>11 DEF TabsOK
  <2>7. KnownFormed(r) /\ ~Grows(r) /\ r.pc # "audit"
    BY <2>4, <2>5, <1>4 DEF KnownFormed, Grows
  <2>9. Knows(r)
    BY <2>5 DEF Knows
  <2>10. r.read.state = wizard'[r.by]
    BY <2>1, <2>4, <2>5
  <2> QED BY <2>5, <2>6, <2>7, <2>9, <2>10, <1>1, <1>3, <1>7, <1>8, <1>11, WriteKeeps
<1> QED BY <1>3, <1>10, <1>11

LEMMA RestingKeeps ==
    ASSUME SiteIInv, UNCHANGED wizard,
           \/ \E i \in SiteIds : delete_site(i) \/ \E w \in Tenants : start_site_claim(w, i)
           \/ \E n \in DOMAIN minted : ClaimLapses(n) \/ PublishRecord(n)
    PROVE  SiteIInv'
<1>1. SiteTypes /\ RowsOK /\ AuditsOwn
  BY DEF SiteIInv
<1>2. ASSUME NEW i \in SiteIds, delete_site(i) PROVE SiteIInv'
  <2>1. SiteTypes' /\ RowsOK' /\ AuditsOwn' /\ Steady
    BY <1>1, <1>2, DeleteRows
  <2>2. /\ site' = [site EXCEPT ![i] = Deleted] /\ won' = won \ {i} /\ UNCHANGED <<tab, clashes>>
        /\ audit' = [d \in Domains |-> IF audit[d].site = i THEN [audit[d] EXCEPT !.site = Null] ELSE audit[d]]
    BY <1>2 DEF delete_site
  <2>3. ASSUME NEW d \in Domains PROVE audit'[d].by = audit[d].by
    <3>1. PICK a : a = audit[d]
      OBVIOUS
    <3>2. a \in [by : Tenants \cup {Null}, site : SiteIds \cup {Null}]
      BY <1>1, <3>1 DEF SiteTypes
    <3>3. audit'[d] = IF a.site = i THEN [a EXCEPT !.site = Null] ELSE a
      BY <2>2, <3>1
    <3> QED BY <3>1, <3>2, <3>3
  <2>4. \A j \in SiteIds : Exists(j)' => j # i /\ site'[j] = site[j] /\ Exists(j)
    BY <1>1, <2>2 DEF SiteTypes, Exists
  <2>5. ASSUME NEW w \in Tenants
        PROVE  OwnedBy(w)' \subseteq OwnedBy(w) /\ (OwnedBy(w) \ won)' \subseteq OwnedBy(w) \ won
    <3>1. \A j \in OwnedBy(w)' : j \in OwnedBy(w) /\ j # i
      BY <2>4 DEF OwnedBy
    <3> QED BY <3>1, <2>2
  <2> QED BY <2>1, <2>2, <2>3, <2>5, RestKeeps
<1>3. ASSUME NEW i \in SiteIds, NEW w \in Tenants, start_site_claim(w, i) PROVE SiteIInv'
  <2>1. SiteTypes' /\ RowsOK' /\ AuditsOwn' /\ Steady
    BY <1>1, <1>3, StartRows
  <2>2. PICK c : c = [by |-> w, token |-> Len(minted) + 1]
    OBVIOUS
  <2>3. site' = [site EXCEPT ![i].claim = c] /\ won' = won /\ UNCHANGED <<tab, clashes, audit>> /\ site[i].owner = Null /\ Exists(i)
    BY <1>3, <2>2 DEF start_site_claim
  <2>4. PICK x : x = site[i]
    OBVIOUS
  <2>5. x \in Site
    BY <2>3, <2>4, <1>1, SiteFields
  <2>6. site'[i] = [x EXCEPT !.claim = c] /\ \A j \in SiteIds : j # i => site'[j] = site[j]
    BY <2>3, <2>4, <1>1 DEF SiteTypes
  <2>7. site'[i].owner = Null
    BY <2>3, <2>4, <2>5, <2>6 DEF Site
  <2>8. ASSUME NEW v \in Tenants
        PROVE  OwnedBy(v)' \subseteq OwnedBy(v) /\ (OwnedBy(v) \ won)' \subseteq OwnedBy(v) \ won
    <3>1. \A j \in OwnedBy(v)' : j # i /\ j \in OwnedBy(v)
      BY <2>6, <2>7, Distinct DEF OwnedBy, Exists
    <3> QED BY <3>1, <2>3
  <2> QED BY <2>1, <2>3, <2>8, RestKeeps
<1>4. ASSUME NEW n \in DOMAIN minted, ClaimLapses(n) PROVE SiteIInv'
  <2>1. SiteTypes' /\ RowsOK' /\ AuditsOwn' /\ Steady
    BY <1>1, <1>4, LapseRows
  <2>2. site' = site /\ won' = won /\ UNCHANGED <<tab, clashes, audit>>
    BY <1>4 DEF ClaimLapses
  <2>3. \A w \in Tenants : OwnedBy(w)' = OwnedBy(w)
    BY <2>2 DEF OwnedBy, Exists
  <2> QED BY <2>1, <2>2, <2>3, RestKeeps
<1>5. ASSUME NEW n \in DOMAIN minted, PublishRecord(n) PROVE SiteIInv'
  <2>1. SiteTypes' /\ RowsOK' /\ AuditsOwn' /\ Steady
    BY <1>1, <1>5, PublishRows
  <2>2. site' = site /\ won' = won /\ UNCHANGED <<tab, clashes, audit>>
    BY <1>5 DEF PublishRecord
  <2>3. \A w \in Tenants : OwnedBy(w)' = OwnedBy(w)
    BY <2>2 DEF OwnedBy, Exists
  <2> QED BY <2>1, <2>2, <2>3, RestKeeps
<1> QED BY <1>2, <1>3, <1>4, <1>5

LEMMA OnboardingKeeps == SiteIInv /\ [OnboardingNext]_onboardingVars => SiteIInv'
<1> SUFFICES ASSUME SiteIInv, [OnboardingNext]_onboardingVars
             PROVE  SiteIInv'
  OBVIOUS
<1>1. ASSUME SitesNext, UNCHANGED wizard PROVE SiteIInv'
  <2>1. ASSUME NEW t \in Tabs, NEW w \in Tenants, NEW d \in Domains,
               create_site_endpoint(t, w, d) \/ claim_free_audit(t, w, d)
        PROVE  SiteIInv'
    BY <1>1, <2>1, CreateOpens, ClaimOpens
  <2>2. ASSUME NEW t \in Tabs, NEW w \in Tenants, NEW i \in SiteIds, NEW n \in DOMAIN minted, verify_claim(t, w, i, n)
        PROVE  SiteIInv'
    BY <1>1, <2>2, VerifyOpens
  <2>3. ASSUME NEW t \in Tabs, create_site(t) PROVE SiteIInv'
    BY <1>1, <2>3, CreateCommits
  <2>4. ASSUME NEW t \in Tabs, dns_txt_contains(t) PROVE SiteIInv'
    BY <1>1, <2>4, LookupKeeps
  <2>5. ASSUME NEW t \in Tabs, verify_and_complete_site_claim(t) PROVE SiteIInv'
    BY <1>1, <2>5, VerifyCommits
  <2>6. ASSUME NEW t \in Tabs, CommitAuditClaim(t) PROVE SiteIInv'
    BY <1>1, <2>6, AuditCommits
  <2>7. ASSUME NEW t \in Tabs, TabCloses(t) PROVE SiteIInv'
    BY <1>1, <2>7, ClosesKeeps DEF TabCloses
  <2>8. ASSUME \/ \E i \in SiteIds : delete_site(i) \/ \E w \in Tenants : start_site_claim(w, i)
               \/ \E n \in DOMAIN minted : ClaimLapses(n) \/ PublishRecord(n)
        PROVE  SiteIInv'
    BY <1>1, <2>8, RestingKeeps
  <2> QED BY <1>1, <2>1, <2>2, <2>3, <2>4, <2>5, <2>6, <2>7, <2>8 DEF SitesNext
<1>2. ASSUME NEW t \in Tabs, NEW w \in Founders,
             \/ \E step \in ONBOARDING_STEPS, done \in BOOLEAN : save_step(t, w, step, done)
             \/ \E d \in Domains : ReadSiteStep(t, w, d)
             \/ complete_onboarding(t, w)
      PROVE  SiteIInv'
  BY <1>2, SaveOpens, SiteStepOpens, CompleteOpens
<1>3. ASSUME NEW t \in Tabs, _apply_site(t) PROVE SiteIInv'
  BY <1>3, SiteStepCommits
<1>4. ASSUME NEW t \in Tabs, CommitStep(t) PROVE SiteIInv'
  BY <1>4, StepCommits
<1>5. ASSUME NEW t \in Tabs, CommitCompletion(t) PROVE SiteIInv'
  BY <1>5, CompletionCommits
<1>6. ASSUME NEW t \in Tabs, finish_onboarding(t) \/ _mark_launch_failed(t) PROVE SiteIInv'
  BY <1>6, FinishKeeps
<1>7. ASSUME UNCHANGED onboardingVars PROVE SiteIInv'
  <2>1. UNCHANGED <<rows, tab, clashes, wizard>>
    BY <1>7 DEF onboardingVars, siteVars, rows
  <2>2. SiteTypes' /\ RowsOK' /\ AuditsOwn' /\ Steady
    BY <2>1, SameRows DEF SiteIInv
  <2>3. site' = site /\ won' = won /\ audit' = audit
    BY <2>1 DEF rows
  <2>4. \A w \in Tenants : OwnedBy(w)' = OwnedBy(w)
    BY <2>3 DEF OwnedBy, Exists
  <2> QED BY <2>1, <2>2, <2>3, <2>4, RestKeeps
<1> QED BY <1>1, <1>2, <1>3, <1>4, <1>5, <1>6, <1>7 DEF OnboardingNext

LEMMA OnboardingStarts == OnboardingInit => SiteIInv
<1> SUFFICES ASSUME OnboardingInit
             PROVE  SiteIInv
  OBVIOUS
<1>1. PICK d \in Domains, i \in SiteIds :
          site = [j \in SiteIds |-> IF j = i THEN [domain |-> d, owner |-> Null, claim |-> Null] ELSE Null]
  BY DEF OnboardingInit, SitesInit
<1>2. PICK x : x = [domain |-> d, owner |-> Null, claim |-> Null]
  OBVIOUS
<1>3. x \in Site /\ x.domain = d /\ x.owner = Null /\ x.claim = Null
  BY <1>2 DEF Site
<1>4. /\ minted = <<>> /\ lapsed = {} /\ dns = {} /\ won = {} /\ clashes = 0
      /\ audit = [e \in Domains |-> [by |-> Null, site |-> Null]]
      /\ tab = [t \in Tabs |-> Closed] /\ wizard = [w \in Founders |-> FreshState]
  BY DEF OnboardingInit, SitesInit
<1>5. /\ site \in [SiteIds -> Site \cup {Null, Deleted}] /\ site[i] = x
      /\ \A j \in SiteIds : Exists(j) => j = i
  BY <1>1, <1>2, <1>3 DEF Exists
<1>6. SiteTypes
  <2>1. MaxTokens \in Nat /\ Len(minted) = 0 /\ minted \in Seq(Minted)
    BY <1>4, SiteConstants
  <2> QED BY <1>4, <1>5, <2>1 DEF SiteTypes
<1>7. RowsOK /\ AuditsOwn
  BY <1>3, <1>4, <1>5 DEF RowsOK, AuditsOwn
<1>8. \A t \in Tabs : tab[t] = Closed /\ tab[t].pc = "idle" /\ tab[t].pc \notin WizardSteps
  BY <1>4, ClosedRow DEF WizardSteps
<1>9. TabsOK
  <2>1. KnownFormed(Closed) /\ Knows(Closed)
    BY ClosedRow DEF KnownFormed, Knows, WizardSteps
  <2> QED BY <1>4, <1>8, <2>1, ClosedRow DEF TabsOK
<1>10. AuditsLocked /\ Alone
  BY <1>8 DEF AuditsLocked, Alone
<1>11. QuotaOK
  <2>1. SiteLimit \in Nat /\ MaxClashes \in Nat
    BY SiteConstants
  <2>2. ASSUME NEW w \in Tenants PROVE OwnedBy(w) = {} /\ GrowingSites(w) = {}
    <3>1. OwnedBy(w) = {}
      BY <1>3, <1>5, Distinct DEF OwnedBy
    <3>2. \A t \in Tabs : ~Grows(tab[t])
      BY <1>8 DEF Grows
    <3> QED BY <3>1, <3>2 DEF GrowingSites
  <2>3. ASSUME NEW w \in Tenants
        PROVE  /\ IsFiniteSet(OwnedBy(w)) /\ IsFiniteSet(GrowingSites(w))
               /\ Cardinality(OwnedBy(w) \ won) + Cardinality(GrowingSites(w)) <= SiteLimit + clashes
    <3>1. OwnedBy(w) = {} /\ GrowingSites(w) = {} /\ OwnedBy(w) \ won = {}
      BY <2>2
    <3>2. Cardinality(OwnedBy(w) \ won) = 0 /\ Cardinality(GrowingSites(w)) = 0
      BY <3>1, FS_EmptySet
    <3> QED BY <3>1, <3>2, <2>1, <1>4, FS_EmptySet
  <2> QED BY <1>4, <2>1, <2>3 DEF QuotaOK
<1>12. PICK f : f = FreshState
  OBVIOUS
<1>13. f \in OnboardingState /\ \A w : ReadyRow(w, f)
  BY <1>12 DEF FreshState, OnboardingState, Answers, ReadyRow
<1>14. WizardOK
  BY <1>4, <1>12, <1>13 DEF WizardOK
<1>15. CompletedIsReady
  BY <1>4, <1>12, <1>13, <1>14, ReadyRows
<1> QED BY <1>6, <1>7, <1>9, <1>10, <1>11, <1>14, <1>15 DEF SiteIInv

\* The inductive invariant, for every value of the constants.
THEOREM SiteInvariance == OnboardingSpec => []SiteIInv
<1> QED BY OnboardingStarts, OnboardingKeeps, PTL DEF OnboardingSpec
-----------------------------------------------------------------------------
\* How sites and audits change hands in one step.
SitesStep ==
    /\ \A i \in SiteIds : Exists(i) /\ site'[i] # Deleted =>
          \/ site'[i].owner = site[i].owner
          \/ site[i].owner = Null /\ site'[i].owner \in Controls[site[i].domain]
    /\ \A d \in Domains : audit[d].by # Null => audit'[d].by = audit[d].by

LEMMA SitesStepwise == SiteIInv /\ [OnboardingNext]_onboardingVars => SitesStep
<1> SUFFICES ASSUME SiteIInv, [OnboardingNext]_onboardingVars
             PROVE  SitesStep
  OBVIOUS
<1>1. SiteTypes /\ RowsOK /\ AuditsOwn /\ TabsOK
  BY DEF SiteIInv
<1>2. ASSUME UNCHANGED rows PROVE SitesStep
  BY <1>2 DEF SitesStep, rows
<1>3. ASSUME NEW t \in Tabs, create_site(t) PROVE SitesStep
  <2>1. audit' = audit
    BY <1>3 DEF create_site
  <2>2. PICK i \in SiteIds : Insert(i, tab[t].by, tab[t].domain)
    BY <1>3 DEF create_site
  <2>3. \A j \in SiteIds : Exists(j) => site'[j] = site[j]
    BY <1>1, <2>2 DEF Insert, Exists, SiteTypes
  <2> QED BY <2>1, <2>3 DEF SitesStep
<1>4. ASSUME NEW i \in SiteIds, delete_site(i) PROVE SitesStep
  <2>1. /\ site' = [site EXCEPT ![i] = Deleted]
        /\ audit' = [d \in Domains |-> IF audit[d].site = i THEN [audit[d] EXCEPT !.site = Null] ELSE audit[d]]
    BY <1>4 DEF delete_site
  <2>2. ASSUME NEW d \in Domains PROVE audit'[d].by = audit[d].by
    <3>1. PICK a : a = audit[d]
      OBVIOUS
    <3>2. a \in [by : Tenants \cup {Null}, site : SiteIds \cup {Null}]
      BY <1>1, <3>1 DEF SiteTypes
    <3>3. audit'[d] = IF a.site = i THEN [a EXCEPT !.site = Null] ELSE a
      BY <2>1, <3>1
    <3> QED BY <3>1, <3>2, <3>3
  <2>3. \A j \in SiteIds : site'[j] # Deleted => site'[j] = site[j]
    BY <1>1, <2>1 DEF SiteTypes
  <2> QED BY <2>2, <2>3 DEF SitesStep
<1>5. ASSUME NEW i \in SiteIds, NEW w \in Tenants, start_site_claim(w, i) PROVE SitesStep
  <2>1. PICK c, x : c = [by |-> w, token |-> Len(minted) + 1] /\ x = site[i]
    OBVIOUS
  <2>2. site' = [site EXCEPT ![i].claim = c] /\ audit' = audit /\ Exists(i)
    BY <1>5, <2>1 DEF start_site_claim
  <2>3. x \in Site
    BY <2>1, <2>2, <1>1, SiteFields
  <2>4. site'[i] = [x EXCEPT !.claim = c] /\ \A j \in SiteIds : j # i => site'[j] = site[j]
    BY <2>1, <2>2, <1>1 DEF SiteTypes
  <2>5. site'[i].owner = x.owner
    BY <2>3, <2>4 DEF Site
  <2> QED BY <2>1, <2>2, <2>4, <2>5 DEF SitesStep
<1>6. ASSUME NEW n \in DOMAIN minted, ClaimLapses(n) \/ PublishRecord(n) PROVE SitesStep
  BY <1>6 DEF ClaimLapses, PublishRecord, SitesStep
<1>7. ASSUME NEW t \in Tabs, verify_and_complete_site_claim(t) PROVE SitesStep
  <2>1. PICK i, w : i = tab[t].id /\ w = tab[t].by
    OBVIOUS
  <2>2. /\ i \in SiteIds /\ w \in Tenants /\ Exists(i) /\ site[i].owner \in {Null, w}
        /\ site[i].owner = Null => w \in Controls[site[i].domain]
        /\ \A j \in SiteIds : j # i => site'[j] = site[j]
        /\ \A j \in SiteIds : j = i => Exists(j)' /\ site'[j].owner = w
    BY <1>1, <1>7, <2>1, VerifyRows
  <2>3. audit' = audit
    BY <1>7 DEF verify_and_complete_site_claim
  <2>4. site'[i].owner = w
    BY <2>2
  <2> QED BY <2>2, <2>3, <2>4 DEF SitesStep
<1>8. ASSUME NEW t \in Tabs, CommitAuditClaim(t), UNCHANGED wizard PROVE SitesStep
  BY <1>8, AuditCommits DEF SitesStep
<1>9. ASSUME NEW t \in Tabs, _apply_site(t) PROVE SitesStep
  BY <1>9, SiteStepCommits DEF SitesStep
<1>10. ASSUME SitesNext, UNCHANGED wizard PROVE SitesStep
  BY <1>2, <1>3, <1>4, <1>5, <1>6, <1>7, <1>8, <1>10
     DEF SitesNext, create_site_endpoint, claim_free_audit, verify_claim, dns_txt_contains, TabCloses
<1>11. ASSUME UNCHANGED onboardingVars PROVE SitesStep
  BY <1>11, <1>2 DEF onboardingVars, siteVars, rows
<1> QED BY <1>2, <1>9, <1>10, <1>11
     DEF OnboardingNext, save_step, ReadSiteStep, complete_onboarding, CommitStep, CommitCompletion, finish_onboarding,
         _mark_launch_failed

LEMMA SitesHold == SiteIInv => SitesTypeOK /\ SitesWithinQuota /\ ClaimedSitesAreOwn
<1> SUFFICES ASSUME SiteIInv
             PROVE  SitesTypeOK /\ SitesWithinQuota /\ ClaimedSitesAreOwn
  OBVIOUS
<1>1. SiteTypes /\ RowsOK /\ AuditsOwn /\ QuotaOK
  BY DEF SiteIInv
<1>2. ASSUME NEW d \in Domains PROVE Cardinality(At(d)) <= 1
  <2>1. \A i, j \in At(d) : i = j
    BY <1>1 DEF At, RowsOK
  <2>2. At(d) = {} \/ \E i : At(d) = {i}
    BY <2>1
  <2>3. Cardinality(At(d)) = 0 \/ Cardinality(At(d)) = 1
    BY <2>2, FS_EmptySet, FS_Singleton
  <2> QED BY <2>3
<1>3. SitesTypeOK
  BY <1>1, <1>2 DEF SitesTypeOK, SiteTypes, QuotaOK
<1>4. ASSUME NEW w \in Tenants PROVE Cardinality(OwnedBy(w) \ won) <= SiteLimit + clashes
  BY <1>1, RoomSizes DEF Room
<1> QED BY <1>1, <1>3, <1>4 DEF SitesWithinQuota, ClaimedSitesAreOwn, AuditsOwn

LEMMA OwnersStep ==
    SitesStep => /\ \A i \in SiteIds : Exists(i) /\ site[i].owner # Null /\ site'[i] # Deleted
                                       => site'[i].owner = site[i].owner
                 /\ \A i \in SiteIds : Exists(i) /\ site[i].owner = Null /\ site'[i] # Deleted /\ site'[i].owner # Null
                                       => site'[i].owner \in Controls[site[i].domain]
                 /\ \A d \in Domains : audit[d].by # Null => audit'[d].by = audit[d].by
  BY DEF SitesStep

\* Who a site belongs to, and who has claimed an audit: a site that belongs to a workspace
\* never passes to another, one without an owner goes to who shows a token of its own in the
\* DNS zone, a claimed audit stays with its workspace, and the quota holds but for clashes.
THEOREM SitesAreSafe == OnboardingSpec => SiteSafety
<1>1. SiteIInv /\ [OnboardingNext]_onboardingVars => [SitesStep]_siteVars
  BY SitesStepwise
<1>2. [SitesStep]_siteVars =>
          /\ [\A i \in SiteIds : Exists(i) /\ site[i].owner # Null /\ site'[i] # Deleted
                                 => site'[i].owner = site[i].owner]_siteVars
          /\ [\A i \in SiteIds : Exists(i) /\ site[i].owner = Null /\ site'[i] # Deleted /\ site'[i].owner # Null
                                 => site'[i].owner \in Controls[site[i].domain]]_siteVars
          /\ [\A d \in Domains : audit[d].by # Null => audit'[d].by = audit[d].by]_siteVars
  BY OwnersStep
<1> QED BY <1>1, <1>2, SiteInvariance, SitesHold, PTL
     DEF OnboardingSpec, SiteSafety, OwnersKeepSites, ClaimsAreProven, AuditClaimsStay

\* How far a workspace has come: until requests clash, a completed wizard has its required
\* steps, its review and no failed launch, and the site it names was the workspace's own when
\* it was completed and has at most been deleted since, whatever drafts had named before.
THEOREM WizardIsSound == OnboardingSpec => []WizardInv
<1>1. SiteIInv => WizardInv
  <2> SUFFICES ASSUME SiteIInv
               PROVE  WizardInv
    OBVIOUS
  <2>1. WizardOK /\ TabsOK /\ CompletedIsReady
    BY DEF SiteIInv
  <2>2. OnboardingTypeOK
    <3>1. ASSUME NEW r \in TabRow
          PROVE  r.pc \in {"idle", "create", "lookup", "verified", "audit", "site", "answer", "complete", "launch"}
      BY <3>1 DEF TabRow, WizardSteps
    <3>2. \A t \in Tabs : tab[t] \in TabRow
      BY <2>1 DEF TabsOK
    <3> QED BY <2>1, <3>1, <3>2 DEF OnboardingTypeOK, WizardOK
  <2> QED BY <2>1, <2>2 DEF WizardInv
<1> QED BY <1>1, SiteInvariance, PTL
=============================================================================
