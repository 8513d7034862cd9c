-------------------------- MODULE MCBillingContent --------------------------
(*****************************************************************************)
(* What a workspace has been granted, and what it prepares with it: the      *)
(* subscription and its allowances; drafts; scans of answers; installations  *)
(* of the GitHub App.  They share no row that one of them changes, so that   *)
(* one run has the sum of them: side says which.                             *)
(*****************************************************************************)
EXTENDS Billing, ContentDrafts, CitationScans, Installations, TLC

CONSTANT x1  \* a site

VARIABLE side

\* The same model values stand for the requests of every side, and for what
\* these are about: the fewer, the fewer permutations.
ASSUME SharedValues == {Editors, Scanners, Connectors} = {Handlers} /\ {Scans, InstallIntents} = {Callers} /\ Provided = Subs

contentVars == <<draftVars, scanVars, installVars>>

SumInit ==
    /\ side \in {"billing", "drafts", "citations", "installations"}
    /\ Init /\ (side # "billing" => events = <<>>)
    /\ DraftsInit /\ CitationsInit /\ InstallInit

ContentNext ==
    \/ side = "drafts" /\ DraftsNext /\ UNCHANGED <<scanVars, installVars>>
    \/ side = "citations" /\ CitationsNext /\ UNCHANGED <<draftVars, installVars>>
    \/ side = "installations" /\ InstallNext /\ UNCHANGED <<draftVars, scanVars>>

\* Bound: the last two events and the last two calls do not meet.
BillingSide == Next /\ UNCHANGED contentVars /\ (Len(events) + calls.begun < MaxEvents + MaxCalls - 1)'

SumNext ==
    /\ UNCHANGED side
    /\ \/ side = "billing" /\ BillingSide
       \/ ContentNext /\ UNCHANGED vars

SumSpec == SumInit /\ [][SumNext]_<<vars, contentVars, side>>

\* One request on either plan, with room for its tokens.
SmallLimits ==
    [p \in Plans |-> [m \in Metrics |->
        IF m = "ai_requests" \/ (p = "audit" /\ m = "serp_queries") THEN 1 ELSE 2]]

\* A poor body passes with a heading of its own.
GoodTexts == {<<"good", "brief">>, <<"good", "own">>, <<"poor", "own">>}

\* A workspace with a site, and another one.
SiteTenants == x1 :> "w1"

Symmetry == Permutations(Subs) \cup Permutations(Handlers) \cup Permutations(Callers)
=============================================================================
