--------------------------- MODULE PatchPlanner ---------------------------
(*****************************************************************************)
(* github_patch_planner.py: the source file of a finding is looked for in    *)
(* the mapped repository, file by file, a model writes a replacement, and    *)
(* the replacement is accepted or the plan falls back.                       *)
(*                                                                           *)
(* Every file is read from the head of the base branch, so somebody may push *)
(* between two reads.  A file is what the planner makes of it: the images    *)
(* that have no alt, and the local files it imports, in order.               *)
(*****************************************************************************)
EXTENDS Integers, Sequences, FiniteSets, FiniteSetsExt, SequencesExt, FindingDetectors

CONSTANTS
    Files,          \* paths of blobs
    Place,          \* where a path stands: see _candidate_score
    Sources,        \* bound: contents a file may have
    MaxSourceFiles, \* settings.github_patch_planning_max_source_files
    MaxPushes,      \* bound: pushes while a plan is made
    Texts           \* bound: source texts before and after a patch

VARIABLES
    tree,     \* the head of the base branch: a content and its blob sha per file
    planning, \* plan_patch_for_finding at work
    pushes,
    patch     \* a replacement and the finding it is for

plannerVars == <<tree, planning, pushes, patch>>
-----------------------------------------------------------------------------
\* The index of the best suffix of the route that the path ends with, and what
\* raises the score; an excluded path has none.
_candidate_score(f) ==
    IF Place[f].excluded \/ Place[f].suffix = -1 THEN -1
    ELSE 130 - 5 * Place[f].suffix
         + (IF Place[f].component THEN 8 ELSE 0) + (IF Place[f].web THEN 4 ELSE 0)

Candidates(paths) == {f \in paths : _candidate_score(f) >= 0}

\* A file that no other candidate equals or beats; an empty set if there is none.
select_repository_candidate(paths) ==
    {f \in Candidates(paths) : \A g \in Candidates(paths) \ {f} : _candidate_score(g) < _candidate_score(f)}

\* Mutant of resolve_local_imports: the first import only.
FirstImport(source, paths) ==
    IF source.imports # <<>> /\ Head(source.imports) \in paths THEN <<Head(source.imports)>> ELSE <<>>

resolve_local_imports(source, paths) == SelectSeq(source.imports, LAMBDA f : f \in paths)

Gone == [sha |-> 0]
Exists(f) == tree[f] # Gone

PlannerInit ==
    /\ tree \in [Files -> {[sha |-> 1, source |-> s] : s \in Sources} \cup {Gone}]
    /\ planning = [pc |-> "idle"]
    /\ pushes = 0

\* Somebody pushes a new version of a file, or removes it.
Push(f) ==
    /\ planning.pc = "reading" /\ pushes < MaxPushes
    /\ \E blob \in {[sha |-> 2, source |-> s] : s \in Sources} \cup {Gone} :
          blob # tree[f] /\ tree' = [tree EXCEPT ![f] = blob]
    /\ pushes' = pushes + 1
    /\ UNCHANGED planning

Falls(reason) == planning' = [pc |-> "fallback", reason |-> reason]

\* The connection and the permissions are looked up, and the tree is read; the
\* provider may fail at any read.
plan_patch_for_finding(type) ==
    LET paths == {f \in Files : Exists(f)}
        route == select_repository_candidate(paths)
    IN
    /\ planning.pc = "idle"
    /\ \/ \E reason \in {"github_repository_not_authorized", "github_planner_provider_unavailable"} : Falls(reason)
       \/ route = {} /\ Falls("source_file_not_resolved")
       \/ \E f \in route : planning' =
             [pc |-> "reading", type |-> type, paths |-> paths, route |-> f,
              documents |-> <<>>, pending |-> <<f>>, queued |-> {f}, inspected |-> 0]
    /\ UNCHANGED <<tree, pushes>>

\* What is neither read nor waiting already.
Queued(p, documents, imports) ==
    SelectSeq(imports, LAMBDA f : f \notin DOMAIN documents /\ f \notin p.queued)

\* _decode_file of the next file, the route first.  A candidate that is too
\* large is left out; the imports of the others are followed for images only.
_resolve_image_source ==
    LET p == planning
        f == Head(p.pending)
        read == tree[f].source
        skipped == f # p.route /\ read.large
        documents == IF skipped THEN p.documents ELSE p.documents @@ (f :> [sha |-> tree[f].sha, source |-> read])
        more == IF skipped \/ p.type # "images_missing_alt" THEN <<>>
                ELSE Queued(p, documents, resolve_local_imports(read, p.paths))
    IN
    /\ p.pc = "reading" /\ p.pending # <<>> /\ p.inspected < MaxSourceFiles
    /\ IF ~Exists(f) THEN Falls("github_planner_source_missing")
       ELSE planning' = [p EXCEPT !.pending = Tail(@) \o more, !.queued = @ \cup Range(more),
                                  !.inspected = @ + 1, !.documents = documents]
    /\ UNCHANGED <<tree, pushes>>

Lacking(p) == {f \in DOMAIN p.documents : p.documents[f].source.missingAlt > 0}

\* One file is chosen and the model is asked for a replacement; it may decline,
\* be cut short or fail, and its answer may be refused.
Plan(answer) ==
    LET p == planning
        chosen == IF p.type = "images_missing_alt" THEN Lacking(p) ELSE {p.route}
    IN
    /\ p.pc = "reading" /\ (p.pending = <<>> \/ p.inspected = MaxSourceFiles)
    /\ IF p.pending # <<>> THEN Falls("source_import_scope_exceeded")
       ELSE IF chosen = {} THEN Falls("source_finding_not_reproduced")
       ELSE IF Cardinality(chosen) > 1 THEN Falls("source_file_ambiguous")
       ELSE \E f \in chosen :
            IF p.documents[f].source.large THEN Falls("source_file_too_large")
            ELSE IF answer # "accepted" THEN Falls(answer)
            ELSE planning' = [pc |-> "ready", type |-> p.type, route |-> p.route, path |-> f,
                              expected_sha |-> p.documents[f].sha]
    /\ UNCHANGED <<tree, pushes>>

Answers == {"accepted", "github_planner_declined", "github_planner_ai_unavailable",
            "github_planner_ai_invalid_response", "github_planner_postcondition_failed"}

PlannerNext ==
    \/ \E type \in {"images_missing_alt", "title_too_long"} : plan_patch_for_finding(type)
    \/ _resolve_image_source
    \/ \E answer \in Answers : Plan(answer)
    \/ \E f \in Files : Push(f)
-----------------------------------------------------------------------------
\* validate_generated_patch: a text is the title it states (NoTitle, or its
\* length), its headings, its images and what metadata it has.
NoTitle == -1

\* Mutant of _rendered_title_candidate: the site's suffix is not thought of.
TitleAlone(before, after, suffix, observed) == after

\* The title of the page once the text is replaced: what was observed with the
\* new title in the place of the old one.
_rendered_title_candidate(before, after, suffix, observed) ==
    IF observed /\ before # NoTitle THEN after + suffix ELSE after

\* The title that the detector has seen, or the one of the text.
BeforeTitle(p) == IF p.observed THEN Max({p.before.title, 0}) + p.suffix ELSE p.before.title

TitleDefect(type, n) ==
    CASE type = "missing_title" -> n \in {NoTitle, 0}
      [] type = "title_too_long" -> n > 60
      [] type = "title_too_short" -> n # NoTitle /\ n < 20

RepairsTitle(p) ==
    /\ TitleDefect(p.type, BeforeTitle(p))
    /\ p.after.title # NoTitle /\ p.after.title # p.before.title
    /\ _rendered_title_candidate(p.before.title, p.after.title, p.suffix, p.observed) \in 20..60

RepairsImages(p) ==
    p.before.missingAlt > 0 /\ p.after.missingAlt = 0 /\ p.after.emptyAlt <= p.before.emptyAlt

\* Every other type has one marker that is looked for.
validate_generated_patch(p) ==
    /\ p.after # p.before
    /\ CASE p.type = "images_missing_alt" -> RepairsImages(p)
         [] p.type = "missing_h1" -> p.after.h1 > 0
         [] p.type = "multiple_h1" -> p.after.h1 < p.before.h1
         [] p.type = "missing_canonical" -> p.after.canonical
         [] OTHER -> RepairsTitle(p)

PatchTypes == {"images_missing_alt", "missing_h1", "multiple_h1", "missing_canonical",
               "missing_title", "title_too_long", "title_too_short"}

PatchInit ==
    patch \in {p \in [type : PatchTypes, before : Texts, after : Texts, suffix : {0, 8}, observed : BOOLEAN] :
                  p.suffix > 0 => p.observed}
-----------------------------------------------------------------------------
\* Properties.

RECURSIVE ReachedFrom(_, _)
ReachedFrom(seen, paths) ==
    LET next == seen \cup UNION {Range(tree[f].source.imports) \cap paths :
                                f \in {g \in seen : g = planning.route \/ ~tree[g].source.large}}
    IN IF next = seen THEN seen ELSE ReachedFrom(next, paths)

\* "This planner will not guess": the file of a ready plan is the only one the
\* route is made of that can be at fault, unless somebody pushed while the plan
\* was made.  Files that are too large to be read do not count.
ReadyPlansDoNotGuess ==
    planning.pc = "ready" /\ planning.type = "images_missing_alt" /\ pushes = 0
    => LET reached == ReachedFrom({planning.route}, {f \in Files : Exists(f)}) IN
       {f \in reached : (f = planning.route \/ ~tree[f].source.large) /\ tree[f].source.missingAlt > 0} = {planning.path}

\* A plan that is ready names the version of the file that was read: if the file
\* still has it, it still lacks what the plan adds; so a stale plan is refused by
\* the sha at its execution.
ReadyPlansNameAVersion ==
    /\ planning.pc = "ready" /\ planning.type = "images_missing_alt"
    /\ Exists(planning.path) /\ tree[planning.path].sha = planning.expected_sha
    => tree[planning.path].source.missingAlt > 0

\* What the page is after a patch of its only source.
PageAfter(p) ==
    [status |-> 200, title |-> IF p.after.title = NoTitle THEN 0 ELSE p.after.title + p.suffix,
     h1 |-> p.after.h1, missingAlt |-> p.after.missingAlt, words |-> 200]

\* "The detector no longer reproduces the finding": a patch that is accepted is
\* one that resolves the finding, the planner's limits and the detectors' agree.
\* Of several headings some may be left, and what a template adds to a title
\* that the text does not state is not known.
AcceptedPatchesResolve ==
    validate_generated_patch(patch) =>
        /\ (patch.before.title # NoTitle \/ patch.suffix = 0)
           => patch.type \notin TitleFindings(PageAfter(patch))
        /\ patch.type # "multiple_h1" => patch.type \notin BodyFindings(PageAfter(patch))

\* A ready plan names the one file at fault, and the version of it that is.
ReadyPlansAreExact == ReadyPlansDoNotGuess /\ ReadyPlansNameAVersion

\* A patch answers its finding: no two findings of a crawl share a fingerprint,
\* and what is accepted for one resolves it.
PatchesAnswerFindings == FingerprintsTellFindingsApart /\ AcceptedPatchesResolve
=============================================================================
