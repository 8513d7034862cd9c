------------------------- MODULE TechnicalFindings -------------------------
(*****************************************************************************)
(* technical_finding_service.py: what the crawls find is kept per            *)
(* fingerprint, and every active finding gets an operator action.            *)
(*                                                                           *)
(* A refresh is one session but many transactions: it commits the findings,  *)
(* then every single action that it cancels, creates and proposes.  Nothing  *)
(* is locked, so users and other refreshes work between any two of its       *)
(* commits, and it may end after any of them.                                *)
(*****************************************************************************)
EXTENDS Integers, FiniteSets

CONSTANTS
    Findings,          \* fingerprints of a site, numbered in the order of their ids
    Patchable,         \* those that is_patch_planning_candidate
    Mode,              \* evaluate_action_policy of the action of each finding
    Branches, Shas,    \* of repositories that the site may be mapped to
    PlanLimit,         \* settings.github_patch_planning_max_actions_per_refresh
    Refreshers,        \* sessions that refresh the findings
    MaxRegressions,    \* bound: returns of a finding
    MaxMoves,          \* bound: changes of the mapping and pushes
    MaxDecisions,      \* bound: what users do with findings and actions
    MaxCrossings,      \* bound: commits while a refresh is at work
    MaxInterruptions   \* bound: refreshes that end early

ASSUME FindingConstants ==
    /\ Findings \subseteq Nat /\ Patchable \subseteq Findings
    /\ Mode \in [Findings -> {"auto_approve", "manual_approval", "blocked"}]
    /\ {PlanLimit, MaxRegressions, MaxMoves, MaxDecisions, MaxCrossings, MaxInterruptions} \subseteq Nat

VARIABLES
    finding,     \* issues, per fingerprint
    action,      \* operator_actions of the pipeline, per idempotency key
    repository,  \* the mapped branch and the sha of the source file, or Unmapped
    refresher,   \* run_technical_finding_pipeline and create_finding_action
    deferrals,   \* history: refreshes in a row that put off the planning of a finding
    moves, decisions, crossings, interruptions

findingVars ==
    <<finding, action, repository, refresher, deferrals, moves, decisions, crossings, interruptions>>
counters == <<moves, decisions, interruptions>>
-----------------------------------------------------------------------------
Unmapped == <<"unmapped">>
Simulated == <<"simulation">>
Scopes == Branches \X Shas
Regressions == 0..MaxRegressions
IdempotencyKeys == Findings \X Regressions \X (Scopes \cup {Simulated})
Of(f) == {k \in IdempotencyKeys : k[1] = f}

ActiveFindingStatuses == {"open", "regressed"}
Undecided == {"draft", "needs_approval", "approved"}
CurrentStatuses == Undecided \cup {"blocked", "executing", "succeeded"}
ActionStatuses == CurrentStatuses \cup {"rejected", "failed", "cancelled"}

\* touched: a user has set the status.  reason: why a fallback has no patch;
\* born: how many actions the finding had before; by: who cancelled it.
Issue == [status : ActiveFindingStatuses \cup {"absent", "resolved", "dismissed"},
          regression_count : Regressions, touched : BOOLEAN]
Unseen == [status |-> "absent", regression_count |-> 0, touched |-> FALSE]
GovernedAction == [status : ActionStatuses, reason : {"budget", "declined", "ready"}, born : Nat, by : {"system", "user"}]
NoGoverned == [status |-> "absent"]
Working == [pc |-> "idle"]

Existing(f) == {k \in Of(f) : action[k] # NoGoverned}
Having(f, statuses) == {k \in Existing(f) : action[k].status \in statuses}

FindingsInit ==
    /\ repository \in Scopes \cup {Unmapped}
    /\ finding = [f \in Findings |-> Unseen]
    /\ action = [k \in IdempotencyKeys |-> NoGoverned]
    /\ refresher = [r \in Refreshers |-> Working]
    /\ deferrals = [f \in Findings |-> 0]
    /\ moves = 0 /\ decisions = 0 /\ crossings = 0 /\ interruptions = 0

Commits(others) ==
    LET crosses == \E r \in others : refresher[r].pc # "idle" IN
    /\ crosses => crossings < MaxCrossings
    /\ crossings' = IF crosses THEN crossings + 1 ELSE crossings

Goes(r, state) == refresher' = [refresher EXCEPT ![r] = state]
-----------------------------------------------------------------------------
\* The repository and the users.

RepositoryMoves ==
    /\ moves < MaxMoves /\ moves' = moves + 1
    /\ repository' \in (Scopes \cup {Unmapped}) \ {repository}
    /\ UNCHANGED <<finding, action, refresher, deferrals, crossings, decisions, interruptions>>

Decides ==
    /\ decisions < MaxDecisions /\ decisions' = decisions + 1
    /\ Commits(Refreshers)
    /\ UNCHANGED <<repository, refresher, deferrals, moves, interruptions>>

update_finding_status(f, status) ==
    /\ finding[f].status \notin {"absent", status}
    /\ finding' = [finding EXCEPT ![f].status = status, ![f].touched = TRUE]
    /\ Decides
    /\ UNCHANGED action

\* An action is proposed, decided on, withdrawn or executed.
UserMoves(k) ==
    LET To(status) == action' = [action EXCEPT ![k].status = status, ![k].by = "user"] IN
    /\ action[k] # NoGoverned
    /\ CASE action[k].status = "draft" -> To("needs_approval") \/ To("cancelled")
         [] action[k].status = "needs_approval" -> To("approved") \/ To("rejected") \/ To("cancelled")
         [] action[k].status = "approved" -> To("executing") \/ To("cancelled")
         [] action[k].status = "executing" -> To("succeeded") \/ To("failed")
         [] OTHER -> FALSE
    /\ Decides
    /\ UNCHANGED finding
-----------------------------------------------------------------------------
\* reconcile_findings

\* Mutant of Reconciled: what was dismissed is opened again.
ReconciledDismissed(issue, seen) ==
    IF seen THEN
        CASE issue.status = "absent" -> [Unseen EXCEPT !.status = "open"]
          [] issue.status = "resolved" ->
                [issue EXCEPT !.status = "regressed", !.regression_count = @ + 1]
          [] OTHER -> [issue EXCEPT !.status = IF @ = "regressed" THEN @ ELSE "open"]
    ELSE [issue EXCEPT !.status = IF @ \in ActiveFindingStatuses THEN "resolved" ELSE @]

Reconciled(issue, seen) ==
    IF seen THEN
        CASE issue.status = "absent" -> [Unseen EXCEPT !.status = "open"]
          [] issue.status = "resolved" ->
                [issue EXCEPT !.status = "regressed", !.regression_count = @ + 1]
          [] OTHER -> issue
    ELSE [issue EXCEPT !.status = IF @ \in ActiveFindingStatuses THEN "resolved" ELSE @]

\* observed: collect_candidates, what the last crawl shows.
reconcile_findings(r, observed) ==
    LET new == [f \in Findings |-> Reconciled(finding[f], f \in observed)] IN
    /\ refresher[r].pc = "idle"
    /\ \A f \in Findings : new[f].regression_count <= MaxRegressions
    /\ Goes(r, [pc |-> "reconciling", read |-> finding, new |-> new])
    /\ UNCHANGED <<finding, action, repository, deferrals, crossings, counters>>

\* The columns that differ; a second INSERT of a fingerprint fails.
CommitFindings(r) ==
    LET s == refresher[r]
        Written(f, column) == IF s.new[f][column] # s.read[f][column] THEN s.new[f][column] ELSE finding[f][column]
    IN
    /\ s.pc = "reconciling"
    /\ \A f \in Findings : s.read[f].status = "absent" /\ s.new[f].status # "absent" => finding[f].status = "absent"
    /\ finding' = [f \in Findings |->
          [finding[f] EXCEPT !.status = Written(f, "status"), !.regression_count = Written(f, "regression_count")]]
    /\ Goes(r, [pc |-> "stale", view |-> s.new, doomed |-> {},
                gone |-> {f \in Findings : s.new[f].status = "resolved" /\ s.read[f].status # "resolved"}])
    /\ deferrals' = [f \in Findings |-> IF s.new[f].status = "resolved" THEN 0 ELSE deferrals[f]]
    /\ Commits(Refreshers \ {r})
    /\ UNCHANGED <<action, repository, counters>>
-----------------------------------------------------------------------------
\* _cancel_stale_actions and _cancel_superseded_actions: the rows are read, and
\* cancelled in a transaction each.  The version that is expected is the one of
\* the row that was read, so it always matches.

Doomed(f) == Having(f, Undecided)

_cancel_stale_actions(r) ==
    LET s == refresher[r] IN
    /\ s.pc = "stale" /\ s.doomed = {}
    /\ \E f \in s.gone : Goes(r, [s EXCEPT !.gone = @ \ {f}, !.doomed = Doomed(f)])
    /\ UNCHANGED <<finding, action, repository, deferrals, crossings, counters>>

cancel_action(r) ==
    LET s == refresher[r] IN
    /\ s.pc \in {"stale", "ensuring"} /\ s.doomed # {}
    /\ \E k \in s.doomed :
          /\ action' = [action EXCEPT ![k].status = "cancelled", ![k].by = "system"]
          /\ Goes(r, [s EXCEPT !.doomed = @ \ {k}])
    /\ Commits(Refreshers \ {r})
    /\ UNCHANGED <<finding, repository, deferrals, counters>>
-----------------------------------------------------------------------------
\* ensure_action_for_finding

LatestActions(f) ==
    {k \in Having(f, CurrentStatuses) :
        \A l \in Having(f, CurrentStatuses) : action[l].born <= action[k].born}

\* _ready_patch_actions_by_finding: the latest action is for the mapped branch.
Ready(f) ==
    \E k \in LatestActions(f) :
        /\ k[3] # Simulated /\ action[k].status # "blocked"
        /\ repository # Unmapped /\ k[3][1] = repository[1]

\* _planning_priority: first what no plan was made for; a patch that is ready has
\* no reason of its own.
Deferred(f) == \A k \in LatestActions(f) : action[k].reason \in {"budget", "ready"}

\* The active findings, those that have a ready patch left out.
CollectActive(r) ==
    LET s == refresher[r]
        active == {f \in Findings : finding[f].status \in ActiveFindingStatuses}
    IN
    /\ s.pc = "stale" /\ s.doomed = {} /\ s.gone = {}
    /\ Goes(r, [pc |-> "ensuring", view |-> s.view, doomed |-> {}, planned |-> 0, limit |-> PlanLimit, whole |-> TRUE, new |-> {},
                todo |-> {f \in active : ~Ready(f)}, first |-> {f \in active : Deferred(f)}])
    /\ UNCHANGED <<finding, action, repository, deferrals, crossings, counters>>

\* An operator asks for the action of one finding.
create_finding_action(r, f) ==
    /\ refresher[r].pc = "idle" /\ finding[f].status \in ActiveFindingStatuses
    /\ Goes(r, [pc |-> "ensuring", view |-> finding, doomed |-> {}, planned |-> 0, limit |-> 1, whole |-> FALSE, new |-> {},
                todo |-> {f}, first |-> {}])
    /\ UNCHANGED <<finding, action, repository, deferrals, crossings, counters>>

NextFinding(s) ==
    LET group == IF s.todo \cap s.first # {} THEN s.todo \cap s.first ELSE s.todo IN
    CHOOSE f \in group : \A g \in group : f <= g

\* What plan_patch_for_finding comes back with, or the fallback without it.
PlanOutcomes(f, allowed) ==
    IF ~allowed THEN {"budget"}
    ELSE IF f \in Patchable /\ repository # Unmapped THEN {"declined", "ready"} ELSE {"declined"}

\* Mutant of KeyOf: the regression is left out.
KeyOfFinding(f, regression, outcome) == <<f, 0, IF outcome = "ready" THEN repository ELSE Simulated>>

KeyOf(f, regression, outcome) == <<f, regression, IF outcome = "ready" THEN repository ELSE Simulated>>

\* The action is found, and brought up to date or preferred to the others; or it
\* is created, a draft.
ensure_action_for_finding(r) ==
    LET s == refresher[r]
        f == NextFinding(s)
        allowed == f \notin Patchable \/ s.planned < s.limit
        next == [s EXCEPT !.todo = @ \ {f}, !.planned = IF f \in Patchable /\ allowed THEN @ + 1 ELSE @]
    IN
    /\ s.pc = "ensuring" /\ s.doomed = {} /\ s.new = {} /\ s.todo # {}
    /\ IF Ready(f) THEN Goes(r, next) /\ UNCHANGED <<action, deferrals, crossings>>
       ELSE \E outcome \in PlanOutcomes(f, allowed) :
            LET k == KeyOf(f, s.view[f].regression_count, outcome) IN
            /\ deferrals' = [deferrals EXCEPT ![f] = IF outcome # "budget" THEN 0 ELSE IF @ < 2 THEN @ + 1 ELSE @]
            /\ IF action[k] = NoGoverned
               THEN /\ action' = [action EXCEPT ![k] =
                          [status |-> "draft", reason |-> outcome, born |-> Cardinality(Existing(f)), by |-> "system"]]
                    /\ Goes(r, [next EXCEPT !.new = {k}])
                    /\ Commits(Refreshers \ {r})
               ELSE IF outcome = "ready"
               THEN /\ Goes(r, [next EXCEPT !.doomed = Doomed(f) \ {k}])
                    /\ UNCHANGED <<action, crossings>>
               ELSE /\ action' = [action EXCEPT ![k].reason =
                          IF action[k].status \in Undecided THEN outcome ELSE @]
                    /\ Goes(r, next)
                    /\ Commits(Refreshers \ {r})
    /\ UNCHANGED <<finding, repository, counters>>

\* The new action is proposed; if it is a patch, it replaces what was proposed
\* before.  Nothing on a repository is approved by itself.
propose_action(r) ==
    LET s == refresher[r] IN
    /\ s.pc = "ensuring" /\ s.new # {}
    /\ \E k \in s.new :
          /\ action' = [action EXCEPT ![k].status =
                CASE Mode[k[1]] = "blocked" -> "blocked"
                  [] Mode[k[1]] = "auto_approve" /\ k[3] = Simulated -> "approved"
                  [] OTHER -> "needs_approval"]
          /\ Goes(r, [s EXCEPT !.new = {}, !.doomed = IF k[3] = Simulated THEN {} ELSE Doomed(k[1]) \ {k}])
    /\ Commits(Refreshers \ {r})
    /\ UNCHANGED <<finding, repository, deferrals, counters>>

Refreshed(r) ==
    /\ refresher[r].pc = "ensuring" /\ refresher[r].doomed = {} /\ refresher[r].new = {} /\ refresher[r].todo = {}
    /\ Goes(r, Working)
    /\ UNCHANGED <<finding, action, repository, deferrals, crossings, counters>>

\* The session ends early: a lost connection, a process that stops, a failed INSERT.
Interrupted(r) ==
    /\ refresher[r].pc # "idle" /\ interruptions < MaxInterruptions
    /\ interruptions' = interruptions + 1
    /\ Goes(r, Working)
    /\ UNCHANGED <<finding, action, repository, deferrals, crossings, moves, decisions>>

FindingsNext ==
    \/ RepositoryMoves
    \/ \E f \in Findings, status \in {"open", "regressed", "resolved", "dismissed"} : update_finding_status(f, status)
    \/ \E k \in IdempotencyKeys : UserMoves(k)
    \/ \E r \in Refreshers :
          \/ \E observed \in SUBSET Findings : reconcile_findings(r, observed)
          \/ CommitFindings(r)
          \/ _cancel_stale_actions(r) \/ cancel_action(r)
          \/ CollectActive(r) \/ ensure_action_for_finding(r) \/ propose_action(r)
          \/ Refreshed(r) \/ Interrupted(r)
          \/ \E f \in Findings : create_finding_action(r, f)
-----------------------------------------------------------------------------
\* Properties.

FindingsTypeOK ==
    /\ repository \in Scopes \cup {Unmapped}
    /\ finding \in [Findings -> Issue]
    /\ \A k \in IdempotencyKeys : action[k] = NoGoverned \/ action[k] \in GovernedAction
    /\ crossings \in 0..MaxCrossings

AtRest == \A r \in Refreshers : refresher[r].pc = "idle"

\* No approval outlives what it was given for: when no refresh is at work, an
\* action that may still be executed is of the present return of its finding,
\* and the finding is there.  Unless a refresh was interrupted or crossed, or a
\* user has set the status of the finding: nothing cancels its actions then.
OpenActionsAreCurrent ==
    AtRest /\ crossings = 0 /\ interruptions = 0 =>
        \A k \in IdempotencyKeys :
            action[k] # NoGoverned /\ action[k].status \in Undecided /\ ~finding[k[1]].touched
            => /\ finding[k[1]].status \in ActiveFindingStatuses
               /\ k[2] = finding[k[1]].regression_count

\* "Ensure an interrupted prior run cannot leave an active finding without its
\* governed action": a refresh that ends leaves every active finding an action
\* that is current, or that a user has ended; as long as the repository does not
\* move back, nothing crosses and no user reopens a resolved finding.
ActiveFindingsAreGoverned ==
    [][\A r \in Refreshers : Refreshed(r) /\ refresher[r].whole /\ crossings = 0 /\ moves < 2 =>
          \A f \in Findings :
              finding[f].status \in ActiveFindingStatuses /\ ~finding[f].touched
              => \E k \in Existing(f) :
                    \/ action[k].status \in CurrentStatuses
                    \/ k[2] = finding[f].regression_count /\ ~(action[k].status = "cancelled" /\ action[k].by = "system")
      ]_findingVars

\* The budget goes round: of twice as many findings as a refresh may plan for,
\* none is put off twice; as long as users leave the actions and the repository
\* is where it was, for a finding without an action goes first every time, and
\* so does one whose patch the policy has blocked.
DeferredComesNext ==
    /\ IsFiniteSet(Patchable) /\ Cardinality(Patchable) <= 2 * PlanLimit
    /\ \A f \in Patchable : Mode[f] # "blocked"
    /\ decisions = 0 /\ moves = 0 /\ crossings = 0 /\ interruptions = 0
    => \A f \in Findings : deferrals[f] <= 1

\* A refresh does not overrule a user: what was dismissed stays so, and an action
\* that was rejected, is executing or has ended keeps its status (one that is
\* approved and not yet executing may be cancelled); unless something crossed.
RefreshesLeaveDecisions ==
    [][\A r \in Refreshers : refresher[r].pc # "idle" /\ refresher'[r] # refresher[r] /\ crossings = 0 =>
          /\ \A f \in Findings : finding[f].status = "dismissed" => finding'[f].status = "dismissed"
          /\ \A k \in IdempotencyKeys :
                action[k] # NoGoverned /\ action'[k].status # action[k].status => action[k].status \in Undecided
      ]_findingVars

\* Refreshes neither leave what is out of date nor undo what users decided, and
\* their budget comes round.
FindingSafety ==
    [](FindingsTypeOK /\ OpenActionsAreCurrent /\ DeferredComesNext) /\ RefreshesLeaveDecisions
=============================================================================
