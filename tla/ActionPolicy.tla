--------------------------- MODULE ActionPolicy ---------------------------
(*****************************************************************************)
(* evaluate_action_policy of action_policy_service.py: the score of a        *)
(* proposed action, and whether it is approved by itself, by whom it may be  *)
(* approved, or that it is blocked.  What the policy looks for in names and  *)
(* paths is a field of the proposal.                                         *)
(*****************************************************************************)
EXTENDS Integers, FiniteSets, FiniteSetsExt

CONSTANTS
    Risks,       \* bound: submitted risk scores
    AffectedPages   \* bound: affected_pages

ASSUME PolicyConstants == Risks \subseteq Int /\ AffectedPages \subseteq Nat

VARIABLE proposal  \* an action that is proposed

\* risk: HIGH_RISK_ACTIONS; auto: AUTO_APPROVABLE_ACTIONS.  protected: a target
\* path has one of PROTECTED_PATH_MARKERS.  deletes: delete_count and the files
\* that are deleted.
Proposals ==
    [type : {"high_risk", "auto", "other"}, risk : Risks, github : BOOLEAN,
     protected : BOOLEAN, deletes : BOOLEAN, pages : AffectedPages]

PolicyInit == proposal \in Proposals
-----------------------------------------------------------------------------
Clamped(n) == IF n < 0 THEN 0 ELSE IF n > 100 THEN 100 ELSE n
When(condition, score) == IF condition THEN score ELSE 0

PagesScore(pages) == IF pages >= 100 THEN 70 ELSE When(pages >= 20, 45)

\* Mutant of Score: a deletion sets the score, it does not raise it.
ScoreOfDeletion(p) ==
    IF p.deletes THEN Max({75, PagesScore(p.pages)})
    ELSE Max({Clamped(p.risk), When(p.github, 30), When(p.type = "high_risk", 80),
              When(p.protected, 90), PagesScore(p.pages)})

Score(p) ==
    Max({Clamped(p.risk), When(p.github, 30), When(p.type = "high_risk", 80),
         When(p.protected, 90), When(p.deletes, 75), PagesScore(p.pages)})

\* The mode, owner_approval being manual_approval by an owner alone.
evaluate_action_policy(p) ==
    CASE Score(p) >= 90 -> "blocked"
      [] Score(p) \in 70..89 -> "owner_approval"
      [] Score(p) \in 30..69 -> "manual_approval"
      [] OTHER -> IF p.type = "auto" THEN "auto_approve" ELSE "manual_approval"
-----------------------------------------------------------------------------
\* Properties.

Strictness == [auto_approve |-> 0, manual_approval |-> 1, owner_approval |-> 2, blocked |-> 3]

\* The proposals that reach further in one respect.
Further(p) ==
    {[p EXCEPT !.risk = n] : n \in {m \in Risks : m > p.risk}}
    \cup {[p EXCEPT !.pages = n] : n \in {m \in AffectedPages : m > p.pages}}
    \cup {[p EXCEPT !.github = TRUE], [p EXCEPT !.protected = TRUE], [p EXCEPT !.deletes = TRUE]}

\* "External repository mutation requires explicit operator approval", and so
\* does a deletion, a protected path and a change of many pages.
ReachIsNeverAutoApproved ==
    evaluate_action_policy(proposal) = "auto_approve"
    => ~proposal.github /\ ~proposal.protected /\ ~proposal.deletes /\ proposal.pages < 20

\* A proposal that reaches further is never treated more lightly.
PolicyIsMonotone ==
    \A q \in Further(proposal) :
        Strictness[evaluate_action_policy(q)] >= Strictness[evaluate_action_policy(proposal)]

\* Reach is never approved by itself, nor makes approval easier.
PolicyIsStrict == ReachIsNeverAutoApproved /\ PolicyIsMonotone
=============================================================================
