--------------------------- MODULE Opportunities ---------------------------
(*****************************************************************************)
(* The opportunities of a site and the actions drafted for them:             *)
(* reconcile_search_opportunities and _reconcile_opportunity_actions of      *)
(* search_performance_service.py, at the end of a sync and when an operator  *)
(* asks, and reconcile_url_inspection_opportunities of                       *)
(* url_inspection_service.py.                                                *)
(*                                                                           *)
(* A reconciler locks neither opportunities nor actions: it reads them,      *)
(* works on what it read, and commits; operators meanwhile propose, approve  *)
(* and cancel.                                                               *)
(*****************************************************************************)
EXTENDS Integers, FiniteSets

CONSTANTS
    SearchKeys,      \* opportunities that the metrics of searches may show
    InspectionKeys,  \* and those that an inspection may show
    Reconcilers,     \* transactions that reconcile
    Limit,           \* settings.search_opportunity_action_limit
    MaxVersion,      \* bound: versions of an action
    MaxCrossings     \* bound: commits while a reconciler is at work

ASSUME OpportunityConstants ==
    /\ SearchKeys \cap InspectionKeys = {}
    /\ {Limit, MaxVersion, MaxCrossings} \subseteq Nat

VARIABLES
    opportunity,  \* search_opportunities: the status of each key
    draft,        \* operator_actions of the pipeline, per key
    withdrawn,    \* history: the keys whose action a user has cancelled
    reconciler,   \* what each transaction read and found
    crossings

opportunityVars == <<opportunity, draft, withdrawn, reconciler, crossings>>
-----------------------------------------------------------------------------
OpportunityKeys == SearchKeys \cup InspectionKeys
Statuses == {"absent", "draft", "needs_approval", "approved", "rejected", "cancelled"}

\* resolved: "opportunity_resolved" of the approval policy.
PipelineAction == [status : Statuses, version : 0..MaxVersion, resolved : BOOLEAN]
NoAction == [status |-> "absent", version |-> 0, resolved |-> FALSE]
AtRest == [pc |-> "idle"]

OpportunitiesInit ==
    /\ opportunity = [k \in OpportunityKeys |-> "absent"]
    /\ draft = [k \in OpportunityKeys |-> NoAction]
    /\ withdrawn = {}
    /\ reconciler = [r \in Reconcilers |-> AtRest]
    /\ crossings = 0

CrossesOver(others) ==
    LET crosses == \E r \in others : reconciler[r].pc # "idle" IN
    /\ crosses => crossings < MaxCrossings
    /\ crossings' = IF crosses THEN crossings + 1 ELSE crossings
-----------------------------------------------------------------------------
\* Users.

Moves(k, from, to) ==
    /\ draft[k].status \in from /\ draft[k].version < MaxVersion
    /\ draft' = [draft EXCEPT ![k].status = to, ![k].version = @ + 1]
    /\ CrossesOver(Reconcilers)
    /\ UNCHANGED <<opportunity, reconciler>>

propose(k) == Moves(k, {"draft"}, "needs_approval") /\ UNCHANGED withdrawn
decide(k) == (\E to \in {"approved", "rejected"} : Moves(k, {"needs_approval"}, to)) /\ UNCHANGED withdrawn
withdraw(k) == Moves(k, {"draft", "needs_approval", "approved"}, "cancelled") /\ withdrawn' = withdrawn \cup {k}
-----------------------------------------------------------------------------
\* Reconciliation.

\* SEARCH_ANALYTICS_OPPORTUNITY_TYPES and URL_INSPECTION_OPPORTUNITY_TYPES
Own(kind) == IF kind = "search" THEN SearchKeys ELSE InspectionKeys

Active(found, k) == k \in found
Resolves(kind, read, found) == {k \in Own(kind) : read[k] = "active" /\ ~Active(found, k)}

\* Only what a reconciler has cancelled.
Reactivated(a) ==
    IF a.status = "cancelled" /\ a.resolved THEN [status |-> "draft", version |-> a.version + 1, resolved |-> FALSE] ELSE a

\* An action of a top opportunity: inserted, reactivated, and brought up to date
\* while it is a draft and something has changed.
Aligned(a, changed) ==
    IF a.status = "absent" THEN [NoAction EXCEPT !.status = "draft", !.version = 1]
    ELSE [Reactivated(a) EXCEPT !.version = IF Reactivated(a).status = "draft" /\ changed THEN @ + 1 ELSE @]

\* Mutant of CancelledByResolution: approved actions are cancelled too.
CancelledInAnyStatus(a) ==
    IF a.status \in {"draft", "approved"} THEN [status |-> "cancelled", version |-> a.version + 1, resolved |-> TRUE] ELSE a

CancelledByResolution(a) ==
    IF a.status = "draft" THEN [status |-> "cancelled", version |-> a.version + 1, resolved |-> TRUE] ELSE a

_reconcile_opportunity_actions(read, top, gone, changed) ==
    [k \in OpportunityKeys |->
        IF k \in top THEN Aligned(read[k], k \in changed)
        ELSE IF k \in gone THEN CancelledByResolution(read[k]) ELSE read[k]]

\* reconcile_search_opportunities and reconcile_url_inspection_opportunities:
\* what is found is active, what is not found any more is resolved; of what is
\* active, the first Limit get an action.
reconcile(r, kind) ==
    /\ reconciler[r].pc = "idle"
    /\ \E found \in SUBSET Own(kind), changed \in {{}, Own(kind)} :
       \E top \in SUBSET found :
          LET gone == Resolves(kind, opportunity, found) IN
          /\ Cardinality(top) = Limit \/ (Cardinality(top) < Limit /\ top = found)
          /\ reconciler' = [reconciler EXCEPT ![r] =
                [pc |-> "flushed", opportunity |-> opportunity, draft |-> draft,
                 newOpportunity |-> [k \in OpportunityKeys |->
                    IF k \in found THEN "active" ELSE IF k \in gone THEN "resolved" ELSE opportunity[k]],
                 newDraft |-> _reconcile_opportunity_actions(draft, top, gone, changed)]]
    /\ \A k \in OpportunityKeys : reconciler'[r].newDraft[k].version <= MaxVersion
    /\ UNCHANGED <<opportunity, draft, withdrawn, crossings>>

\* The columns that differ; a second INSERT of an opportunity fails, and one of
\* an action does nothing.
CommitReconciliation(r) ==
    LET s == reconciler[r]
        Inserts(k) == s.draft[k].status = "absent"
    IN
    /\ s.pc = "flushed"
    /\ \A k \in OpportunityKeys : s.opportunity[k] = "absent" /\ s.newOpportunity[k] # "absent" => opportunity[k] = "absent"
    /\ opportunity' = [k \in OpportunityKeys |->
          IF s.newOpportunity[k] # s.opportunity[k] THEN s.newOpportunity[k] ELSE opportunity[k]]
    /\ draft' = [k \in OpportunityKeys |->
          IF Inserts(k) THEN IF draft[k].status = "absent" THEN s.newDraft[k] ELSE draft[k]
          ELSE [f \in DOMAIN NoAction |->
                  IF s.newDraft[k][f] # s.draft[k][f] THEN s.newDraft[k][f] ELSE draft[k][f]]]
    /\ reconciler' = [reconciler EXCEPT ![r] = AtRest]
    /\ CrossesOver(Reconcilers \ {r})
    /\ UNCHANGED withdrawn

ReconciliationFails(r) ==
    /\ reconciler[r].pc = "flushed"
    /\ reconciler' = [reconciler EXCEPT ![r] = AtRest]
    /\ UNCHANGED <<opportunity, draft, withdrawn, crossings>>

OpportunitiesNext ==
    \/ \E k \in OpportunityKeys : propose(k) \/ decide(k) \/ withdraw(k)
    \/ \E r \in Reconcilers :
          reconcile(r, "search") \/ reconcile(r, "inspection") \/ CommitReconciliation(r) \/ ReconciliationFails(r)
-----------------------------------------------------------------------------
\* Properties.

OpportunitiesTypeOK ==
    /\ opportunity \in [OpportunityKeys -> {"absent", "active", "resolved"}]
    /\ draft \in [OpportunityKeys -> PipelineAction]
    /\ withdrawn \subseteq OpportunityKeys
    /\ crossings \in 0..MaxCrossings

\* No draft is left for an opportunity that is gone, and what a user has moved on
\* is not undone: unless somebody committed while the reconciler was at work.
ResolvedLeavesNoDraft ==
    crossings = 0 => \A k \in OpportunityKeys : opportunity[k] = "resolved" => draft[k].status # "draft"

\* A reconciler never decides for a user: it moves drafts, and what it cancelled
\* itself; without a crossing, as it has no lock.
ReconcilersLeaveDecisions ==
    [][\A k \in OpportunityKeys :
          (\E r \in Reconcilers : reconciler[r].pc = "flushed" /\ reconciler'[r].pc = "idle")
          /\ crossings = 0 /\ draft'[k].status # draft[k].status
          => draft[k].status \in {"absent", "draft"} \/ (draft[k].status = "cancelled" /\ draft[k].resolved)
      ]_opportunityVars

\* What a user has withdrawn does not come back by itself.
WithdrawnStaysCancelled ==
    crossings = 0 => \A k \in withdrawn : draft[k].status = "cancelled"

\* An opportunity that returns gets its draft back, if it is among the first; so
\* a draft that was cancelled for a resolved opportunity says so.
CancelledDraftsAreMarked ==
    crossings = 0 => \A k \in OpportunityKeys :
        draft[k].status = "cancelled" /\ k \notin withdrawn => draft[k].resolved

\* The two reconcilers keep out of each other's opportunities: a search does not
\* resolve what an inspection found.
OwnOpportunitiesOnly ==
    [][\A r \in Reconcilers :
          reconciler[r].pc = "idle" /\ reconciler'[r].pc = "flushed"
          => LET touched == {k \in OpportunityKeys : reconciler'[r].newOpportunity[k] # opportunity[k]}
             IN touched \subseteq SearchKeys \/ touched \subseteq InspectionKeys]_opportunityVars

\* Drafts follow their opportunities, and users' decisions do not.
OpportunitySafety ==
    [](OpportunitiesTypeOK /\ ResolvedLeavesNoDraft /\ WithdrawnStaysCancelled /\ CancelledDraftsAreMarked)
    /\ ReconcilersLeaveDecisions /\ OwnOpportunitiesOnly
=============================================================================
