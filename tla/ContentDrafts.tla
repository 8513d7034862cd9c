--------------------------- MODULE ContentDrafts ---------------------------
(*****************************************************************************)
(* The drafts of content_creation_service.py: they are generated from a      *)
(* brief, edited, checked and submitted for approval, and every version is   *)
(* kept.                                                                     *)
(*                                                                           *)
(* No request locks the draft: it writes the columns that differ from what   *)
(* it has read, and what keeps two requests apart is that a version of a     *)
(* draft is kept once.  A request that submits commits twice, since          *)
(* create_action commits.                                                    *)
(*****************************************************************************)
EXTENDS Integers, FiniteSets

CONSTANTS
    Editors,      \* requests on the drafts of one brief
    Drafts,       \* their ids
    Bodies,       \* what a draft may say: body_markdown
    Headings,     \* title, meta_title and meta_description
    BriefHeading, \* those that a generation takes from the brief
    Good,         \* the texts that have a quality of 50 or more
    MaxVersion    \* bound: versions of a draft

Texts == Bodies \X Headings

ASSUME DraftConstants == Good \subseteq Texts /\ BriefHeading \in Headings /\ MaxVersion \in Nat

VARIABLES
    draft,        \* content_drafts
    versions,     \* content_draft_versions
    publication,  \* operator_actions, per draft and version: the text they show
    editor,       \* requests at work: what they have read
    overlapped    \* history: a request committed while another was at work

draftVars == <<draft, versions, publication, editor, overlapped>>
-----------------------------------------------------------------------------
NoDraft == [status |-> "absent"]
NoPublication == <<>>
NoBody == "absent"
Resting == [pc |-> "idle"]

ASSUME NothingIsNoBody == NoBody \notin Bodies

\* action: the version that the draft's operator action is of.  checked: what
\* the last quality check found, in quality_summary.
DraftRows ==
    [status : {"draft", "awaiting_approval"}, version : 1..MaxVersion, body : Bodies, heading : Headings,
     action : 0..MaxVersion, checked : {"never", "good", "poor"}]
Fresh == [status |-> "draft", version |-> 0, body |-> NoBody, heading |-> BriefHeading, action |-> 0, checked |-> "never"]

DraftsInit ==
    /\ draft = [d \in Drafts |-> NoDraft]
    /\ versions = {}
    /\ publication = [x \in Drafts \X (1..MaxVersion) |-> NoPublication]
    /\ editor = [e \in Editors |-> Resting]
    /\ overlapped = FALSE

Becomes(e, state) == editor' = [editor EXCEPT ![e] = state]
Overlaps(e) == overlapped' = (overlapped \/ \E o \in Editors \ {e} : editor[o].pc # "idle")

\* The columns that differ from the read, and the row as others have left it.
WrittenDraft(d, read, new) ==
    IF draft[d] = NoDraft THEN new
    ELSE [c \in DOMAIN new |-> IF new[c] # read[c] THEN new[c] ELSE draft[d][c]]

Latest == {d \in Drafts : draft[d] # NoDraft /\ \A o \in Drafts : draft[o] # NoDraft => draft[o].version <= draft[d].version}
-----------------------------------------------------------------------------
\* A draft is read, or is to be new.  An edit is refused while the draft awaits
\* approval, and a poor draft is not submitted.
generate_draft(e) ==
    /\ editor[e].pc = "idle"
    /\ \/ Latest = {}
          /\ \E d \in Drafts : draft[d] = NoDraft /\ Becomes(e, [pc |-> "generate", draft |-> d, read |-> Fresh])
       \/ \E d \in Latest : Becomes(e, [pc |-> "generate", draft |-> d, read |-> draft[d]])
    /\ UNCHANGED <<draft, versions, publication, overlapped>>

run_quality_check(e, d) ==
    /\ editor[e].pc = "idle" /\ draft[d] # NoDraft
    /\ Becomes(e, [pc |-> "check", draft |-> d, read |-> draft[d]])
    /\ UNCHANGED <<draft, versions, publication, overlapped>>

update_draft(e, d) ==
    /\ editor[e].pc = "idle" /\ draft[d] # NoDraft /\ draft[d].status # "awaiting_approval"
    /\ Becomes(e, [pc |-> "edit", draft |-> d, read |-> draft[d]])
    /\ UNCHANGED <<draft, versions, publication, overlapped>>

TextOf(row) == <<row.body, row.heading>>
Passes(row) == TextOf(row) \in Good

submit_for_approval(e, d) ==
    /\ editor[e].pc = "idle" /\ draft[d] # NoDraft /\ Passes(draft[d])
    /\ Becomes(e, [pc |-> "submit", draft |-> d, read |-> draft[d]])
    /\ UNCHANGED <<draft, versions, publication, overlapped>>
-----------------------------------------------------------------------------
_next_draft_version(row, new) == IF new THEN row.version + 1 ELSE row.version

\* uq_content_draft_version
Kept(d, version) == \E v \in versions : v.draft = d /\ v.version = version

\* Mutant of StatusOfWritten: a draft that is written keeps its status.
StatusKept(row) == row.status

\* A draft that is written is a draft again, whatever was asked of its last version.
StatusOfWritten(row) == "draft"

\* A text is written: a new version, unless it was generated and has the body
\* that was read, whatever its heading is.
CommitBody(e) ==
    LET w == editor[e]
        d == w.draft
    IN
    /\ w.pc \in {"generate", "edit"}
    /\ w.read = Fresh => draft[d] = NoDraft
    /\ \E body \in Bodies, heading \in (IF w.pc = "generate" THEN {BriefHeading} ELSE Headings) :
          LET new == w.pc = "edit" \/ body # w.read.body
              version == _next_draft_version(w.read, new)
          IN
          /\ version <= MaxVersion
          /\ new => ~Kept(d, version)
          /\ draft' = [draft EXCEPT ![d] =
                WrittenDraft(d, w.read, [w.read EXCEPT !.body = body, !.heading = heading,
                                                      !.version = version, !.status = StatusOfWritten(w.read)])]
          /\ versions' = IF new THEN versions \cup {[draft |-> d, version |-> version, body |-> body, heading |-> heading]}
                               ELSE versions
    /\ Becomes(e, Resting) /\ Overlaps(e)
    /\ UNCHANGED publication

CommitCheck(e) ==
    LET w == editor[e] IN
    /\ w.pc = "check"
    /\ draft' = [draft EXCEPT ![w.draft] =
          WrittenDraft(w.draft, w.read, [w.read EXCEPT !.checked = IF Passes(w.read) THEN "good" ELSE "poor"])]
    /\ Becomes(e, Resting) /\ Overlaps(e)
    /\ UNCHANGED <<versions, publication>>

\* create_action finds the action of the version, or makes it of what was read.
create_action(e) ==
    LET w == editor[e] IN
    /\ w.pc = "submit"
    /\ publication' = [publication EXCEPT ![<<w.draft, w.read.version>>] = IF @ = NoPublication THEN TextOf(w.read) ELSE @]
    /\ Becomes(e, [w EXCEPT !.pc = "submitted"]) /\ Overlaps(e)
    /\ UNCHANGED <<draft, versions>>

CommitSubmission(e) ==
    LET w == editor[e] IN
    /\ w.pc = "submitted"
    /\ draft' = [draft EXCEPT ![w.draft] =
          WrittenDraft(w.draft, w.read, [w.read EXCEPT !.status = "awaiting_approval", !.action = w.read.version])]
    /\ Becomes(e, Resting) /\ Overlaps(e)
    /\ UNCHANGED <<versions, publication>>

\* A refused version, a lost connection, a process that stops.
EditFails(e) ==
    /\ editor[e].pc # "idle" /\ Becomes(e, Resting)
    /\ UNCHANGED <<draft, versions, publication, overlapped>>

DraftsNext ==
    \E e \in Editors :
        \/ generate_draft(e)
        \/ \E d \in Drafts : run_quality_check(e, d) \/ update_draft(e, d) \/ submit_for_approval(e, d)
        \/ CommitBody(e) \/ CommitCheck(e) \/ create_action(e) \/ CommitSubmission(e)
        \/ EditFails(e)
-----------------------------------------------------------------------------
\* Properties.

DraftsTypeOK == \A d \in Drafts : draft[d] = NoDraft \/ draft[d] \in DraftRows

\* A version says this, but for a heading that a generation has taken back from
\* the brief: it writes the heading always, and a version for a new body only.
Says(kept, d, n, body, heading) ==
    \E v \in kept : v.draft = d /\ v.version = n /\ v.body = body /\ heading \in {v.heading, BriefHeading}

\* No body is lost: whatever the requests overlap, a draft has the body of its
\* version, and the heading or the brief's; its versions are numbered without a
\* gap, and each is kept once.
NoBodyIsLost ==
    /\ \A d \in Drafts : draft[d] # NoDraft =>
          /\ Says(versions, d, draft[d].version, draft[d].body, draft[d].heading)
          /\ \A n \in 1..draft[d].version : \E v \in versions : v.draft = d /\ v.version = n
    /\ \A v, w \in versions : v.draft = w.draft /\ v.version = w.version => v = w

\* What is approved is what is shown: the action of a draft that awaits approval
\* shows the version it is of (the heading may be the brief's); and that is the
\* draft's, unless another request committed while it was submitted.
AwaitingShowsItsVersion ==
    \A d \in Drafts : draft[d] # NoDraft /\ draft[d].status = "awaiting_approval" =>
        /\ LET shown == publication[<<d, draft[d].action>>] IN
           shown # NoPublication /\ Says(versions, d, draft[d].action, shown[1], shown[2])
        /\ overlapped \/ draft[d].action = draft[d].version

\* "Run quality checks and resolve the core draft gaps before approval": nobody
\* is asked to approve a text that is poor, whatever was checked before.
SubmittedIsGood ==
    \A d \in Drafts, v \in 1..MaxVersion : publication[<<d, v>>] # NoPublication => publication[<<d, v>>] \in Good

\* What is approved is a version that was written, shown and good, whatever
\* requests overlap.
DraftInv ==
    DraftsTypeOK /\ NoBodyIsLost /\ AwaitingShowsItsVersion /\ SubmittedIsGood
=============================================================================
