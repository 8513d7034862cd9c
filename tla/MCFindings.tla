----------------------------- MODULE MCFindings -----------------------------
(*****************************************************************************)
(* From a crawl to an action on a repository: the queue of crawls, the       *)
(* detectors, the pipeline of findings, the planner of patches and the       *)
(* policy of actions.  They share no state, so that one run has the sum of   *)
(* them: side says which.                                                    *)
(*****************************************************************************)
EXTENDS MCCrawlJobs, TechnicalFindings, PatchPlanner, ActionPolicy

VARIABLE side

pureVars == <<crawled, artifact, proposal, patch, side>>
plannerState == <<tree, planning, pushes>>

\* Pages at the bounds the detectors know: one way to differ from a good page
\* at a time, and titles and descriptions that pages share.
GoodPage ==
    [status |-> 200, title |-> 40, description |-> 100, h1 |-> 1, noindex |-> FALSE, canonical |-> TRUE,
     viewport |-> TRUE, hops |-> 0, linked |-> TRUE, jsonLd |-> 1, missingAlt |-> 0, words |-> 200, ms |-> 3000]
BoundaryPages ==
    {GoodPage, [GoodPage EXCEPT !.status = 404, !.linked = FALSE], [GoodPage EXCEPT !.hops = 2, !.words = 199],
     [GoodPage EXCEPT !.linked = FALSE, !.ms = 3001], [GoodPage EXCEPT !.h1 = 2, !.jsonLd = 0]}
    \cup {[GoodPage EXCEPT !.title = n] : n \in {0, 19, 20, 60, 61}}
    \cup {[GoodPage EXCEPT !.description = n] : n \in {0, 40, 160, 161}}
    \cup {[GoodPage EXCEPT !.h1 = 0, !.noindex = TRUE, !.missingAlt = 1],
          [GoodPage EXCEPT !.canonical = FALSE, !.viewport = FALSE]}
SomeArtifacts ==
    [completed : BOOLEAN, robotsStatus : {200, 404}, sitemapErrors : {TRUE}, sitemapUrls : BOOLEAN]

\* Files that import the others, and themselves; f1 is the better route.
SomePlaces ==
    [f \in {"f1", "f2", "f3"} |->
        [suffix |-> CASE f = "f1" -> 0 [] f = "f2" -> -1 [] f = "f3" -> 2,
         component |-> f # "f1", web |-> FALSE, excluded |-> FALSE]]
SomeSources ==
    [imports : {<<>>, <<"f2", "f3">>, <<"f1", "f2">>}, missingAlt : {0, 1}, large : {FALSE}]
    \cup {[imports |-> <<"f3">>, missingAlt |-> 1, large |-> TRUE]}

SomeModes == [f \in Findings |-> IF f = 1 THEN "auto_approve" ELSE "manual_approval"]

GoodText == [title |-> 40, h1 |-> 1, canonical |-> TRUE, missingAlt |-> 0, emptyAlt |-> 0]
BoundaryTexts ==
    {[GoodText EXCEPT !.title = n] : n \in {-1, 0, 11, 12, 19, 20, 52, 53, 60, 61}}
    \cup {[GoodText EXCEPT !.h1 = h, !.missingAlt = i, !.emptyAlt = e] : h \in 0..2, i \in 0..2, e \in 0..1}
    \cup {[GoodText EXCEPT !.canonical = FALSE]}

\* Bound: what disturbs the refreshes of one finding, or two findings whose
\* refreshes are not disturbed.
Shown == {f \in Findings : \/ finding[f].status # "absent"
                            \/ \E r \in Refreshers : refresher[r].pc = "reconciling" /\ refresher[r].new[f].status # "absent"}
FewDisturbances ==
    /\ moves + decisions + interruptions + crossings <= 2
    /\ Cardinality(Shown) > 1 => moves + decisions + interruptions + crossings = 0

SumInit ==
    /\ Init
    /\ side \in {"crawls", "pipeline", "planner", "detectors", "policy", "patch"}
    /\ IF side = "detectors" THEN DetectorsInit
       ELSE crawled = [p \in Paths |-> GoodPage] /\ artifact = CHOOSE a \in Artifacts : TRUE
    /\ IF side = "policy" THEN PolicyInit ELSE proposal = CHOOSE p \in Proposals : Further(p) = {p}
    /\ IF side = "patch" THEN PatchInit
       ELSE patch = [type |-> "missing_h1", before |-> GoodText, after |-> GoodText, suffix |-> 0, observed |-> FALSE]
    /\ IF side = "planner" THEN PlannerInit
       ELSE tree = [f \in Files |-> Gone] /\ planning = [pc |-> "idle"] /\ pushes = 0
    /\ FindingsInit
    /\ side # "pipeline" => repository = Unmapped

SumNext ==
    /\ UNCHANGED pureVars
    /\ \/ side = "crawls" /\ Next /\ UNCHANGED <<findingVars, plannerState>>
       \/ side = "pipeline" /\ FindingsNext /\ FewDisturbances' /\ UNCHANGED <<vars, plannerState>>
       \/ side = "planner" /\ PlannerNext /\ UNCHANGED <<vars, findingVars>>

SumSpec == SumInit /\ [][SumNext]_<<vars, findingVars, plannerState, pureVars>>
=============================================================================
