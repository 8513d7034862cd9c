--------------------------- MODULE ContentProofs ---------------------------
(*****************************************************************************)
(* Proofs about ContentDrafts, CitationScans and TechnicalFindings: what is  *)
(* approved is a version that was written, shown and good (DraftInv),        *)
(* finalizations can be repeated (ScanInv), and refreshes leave every active *)
(* finding its action and what users decided (FindingSafety), for any number *)
(* of requests, drafts, scans, prompts, versions, findings and refreshers.   *)
(*****************************************************************************)
EXTENDS ContentDrafts, CitationScans, TechnicalFindings, FiniteSetTheorems, WellFoundedInduction, TLAPS

DraftsSpec == DraftsInit /\ [][DraftsNext]_draftVars

VersionRows == [draft : Drafts, version : 1..MaxVersion, body : Bodies, heading : Headings]
EditorState ==
    {Resting} \cup
    [pc : {"generate", "check", "edit", "submit", "submitted"}, draft : Drafts, read : DraftRows \cup {Fresh}]

DraftTypes ==
    /\ draft \in [Drafts -> DraftRows \cup {NoDraft}]
    /\ versions \subseteq VersionRows
    /\ publication \in [Drafts \X (1..MaxVersion) -> Texts \cup {NoPublication}]
    /\ editor \in [Editors -> EditorState]
    /\ overlapped \in BOOLEAN

\* What a draft had when it was read, it has, or more of it (a generation may
\* have taken the heading back from the brief); and it is as it was read while no
\* request has overlapped another.
ReadOf(w) ==
    /\ draft[w.draft] # NoDraft
    /\ w.read.version <= draft[w.draft].version
    /\ Says(versions, w.draft, w.read.version, w.read.body, w.read.heading)
    /\ draft[w.draft].version = w.read.version => draft[w.draft].heading \in {w.read.heading, BriefHeading}
    /\ w.read.action # 0 => draft[w.draft].action # 0
    /\ ~overlapped => draft[w.draft] = w.read

EditorKnows(w) ==
    w.pc # "idle" =>
        /\ w.pc # "generate" => w.read \in DraftRows
        /\ w.read \in DraftRows => ReadOf(w)
        /\ w.pc \in {"submit", "submitted"} => TextOf(w.read) \in Good
        /\ w.pc = "submitted" => publication[<<w.draft, w.read.version>>] # NoPublication

EditorsKnow == \A e \in Editors : EditorKnows(editor[e])

\* A draft that was submitted once has an action, and shows it.
ActionsShow ==
    \A d \in Drafts : draft[d] # NoDraft =>
        /\ draft[d].action # 0 => publication[<<d, draft[d].action>>] # NoPublication
        /\ draft[d].status = "awaiting_approval" =>
              draft[d].action # 0 /\ (overlapped \/ draft[d].action = draft[d].version)

PublishedWasWritten ==
    \A d \in Drafts, v \in 1..MaxVersion : publication[<<d, v>>] # NoPublication =>
        /\ Says(versions, d, v, publication[<<d, v>>][1], publication[<<d, v>>][2])
        /\ publication[<<d, v>>] \in Good

DraftIInv == DraftTypes /\ NoBodyIsLost /\ ActionsShow /\ PublishedWasWritten /\ EditorsKnow
-----------------------------------------------------------------------------
LEMMA EditorCases ==
    ASSUME NEW w \in EditorState
    PROVE  /\ w.pc = "idle" <=> w = Resting
           /\ w.pc # "idle" =>
                 /\ w.pc \in {"generate", "check", "edit", "submit", "submitted"}
                 /\ w.draft \in Drafts /\ w.read \in DraftRows \cup {Fresh}
  <1>1. CASE w = Resting
    BY <1>1 DEF Resting
  <1>2. CASE w # Resting
    <2>1. w \in [pc : {"generate", "check", "edit", "submit", "submitted"}, draft : Drafts, read : DraftRows \cup {Fresh}]
      BY <1>2 DEF EditorState
    <2> QED BY <1>2, <2>1
  <1> QED BY <1>1, <1>2

LEMMA RestingState == Resting \in EditorState /\ Resting.pc = "idle"
  BY DEF EditorState, Resting

LEMMA DraftRowFacts ==
    /\ \A x \in DraftRows : /\ x # NoDraft /\ x # Fresh /\ x.status \in {"draft", "awaiting_approval"}
                             /\ x.version \in 1..MaxVersion /\ x.body \in Bodies /\ x.heading \in Headings /\ x.action \in 0..MaxVersion
                             /\ x.checked \in {"never", "good", "poor"}
    /\ NoDraft \notin DraftRows /\ Fresh \notin DraftRows
    /\ Fresh.status = "draft" /\ Fresh.version = 0 /\ Fresh.body = NoBody /\ Fresh.action = 0 /\ Fresh.checked = "never"
  <1>1. \A x \in DraftRows : x.status \in {"draft", "awaiting_approval"}
                             /\ x.version \in 1..MaxVersion /\ x.body \in Bodies /\ x.heading \in Headings /\ x.action \in 0..MaxVersion
                             /\ x.checked \in {"never", "good", "poor"}
    BY DEF DraftRows
  <1>2. /\ NoDraft.status = "absent" /\ Fresh.version = 0 /\ Fresh.status = "draft" /\ Fresh.body = NoBody
        /\ Fresh.action = 0 /\ Fresh.checked = "never"
    BY DEF NoDraft, Fresh
  <1>3. 0 \notin 1..MaxVersion
    OBVIOUS
  <1> QED BY <1>1, <1>2, <1>3

\* The row that a request leaves, column by column.
LEMMA Writes ==
    ASSUME NEW d, NEW row \in DraftRows, draft[d] = row, NEW read \in DraftRows, NEW new \in DraftRows,
           NEW x, x = WrittenDraft(d, read, new)
    PROVE  /\ x \in DraftRows
           /\ x.status = IF new.status # read.status THEN new.status ELSE row.status
           /\ x.version = IF new.version # read.version THEN new.version ELSE row.version
           /\ x.body = IF new.body # read.body THEN new.body ELSE row.body
           /\ x.heading = IF new.heading # read.heading THEN new.heading ELSE row.heading
           /\ x.action = IF new.action # read.action THEN new.action ELSE row.action
           /\ x.checked = IF new.checked # read.checked THEN new.checked ELSE row.checked
  <1>1. x = [c \in DOMAIN new |-> IF new[c] # read[c] THEN new[c] ELSE row[c]]
    BY DraftRowFacts DEF WrittenDraft
  <1>2. DOMAIN new = {"status", "version", "body", "heading", "action", "checked"}
    BY DEF DraftRows
  <1>3. PICK a, b, c, h, f, g :
            /\ a = (IF new.status # read.status THEN new.status ELSE row.status)
            /\ b = (IF new.version # read.version THEN new.version ELSE row.version)
            /\ c = (IF new.body # read.body THEN new.body ELSE row.body)
            /\ h = (IF new.heading # read.heading THEN new.heading ELSE row.heading)
            /\ f = (IF new.action # read.action THEN new.action ELSE row.action)
            /\ g = (IF new.checked # read.checked THEN new.checked ELSE row.checked)
    OBVIOUS
  <1>4. x.status = a /\ x.version = b /\ x.body = c /\ x.heading = h /\ x.action = f /\ x.checked = g
    BY <1>1, <1>2, <1>3
  <1>5. x = [status |-> a, version |-> b, body |-> c, heading |-> h, action |-> f, checked |-> g]
    BY <1>1, <1>2, <1>4
  <1>6. /\ a \in {"draft", "awaiting_approval"} /\ b \in 1..MaxVersion /\ c \in Bodies /\ h \in Headings
        /\ f \in 0..MaxVersion
        /\ g \in {"never", "good", "poor"}
    BY <1>3, DraftRowFacts
  <1>7. x \in DraftRows
    BY <1>5, <1>6 DEF DraftRows
  <1> QED BY <1>3, <1>4, <1>7
-----------------------------------------------------------------------------
\* Requests read, fail, and create the action of a version: no draft changes.

LEMMA EditorMoves ==
    ASSUME DraftIInv, NEW e \in Editors, NEW w \in EditorState, Becomes(e, w),
           UNCHANGED <<draft, versions>>,
           publication' \in [Drafts \X (1..MaxVersion) -> Texts \cup {NoPublication}],
           \A d \in Drafts, v \in 1..MaxVersion : publication[<<d, v>>] # NoPublication => publication'[<<d, v>>] = publication[<<d, v>>],
           PublishedWasWritten',
           overlapped' \in BOOLEAN, overlapped => overlapped',
           EditorKnows(w)'
    PROVE  DraftIInv'
  <1>1. /\ editor' \in [Editors -> EditorState] /\ editor'[e] = w
        /\ \A o \in Editors \ {e} : editor'[o] = editor[o]
    BY DEF Becomes, DraftIInv, DraftTypes
  <1>2. DraftTypes'
    BY <1>1 DEF DraftIInv, DraftTypes
  <1>3. NoBodyIsLost'
    BY DEF DraftIInv, NoBodyIsLost
  <1>4. ActionsShow'
    <2> SUFFICES ASSUME NEW d \in Drafts, draft[d] # NoDraft
                 PROVE  /\ draft[d].action # 0 => publication'[<<d, draft[d].action>>] # NoPublication
                        /\ draft[d].status = "awaiting_approval" =>
                              draft[d].action # 0 /\ (overlapped' \/ draft[d].action = draft[d].version)
      BY DEF ActionsShow
    <2>1. draft[d].action \in 0..MaxVersion
      BY DraftRowFacts DEF DraftIInv, DraftTypes
    <2>2. draft[d].action # 0 => draft[d].action \in 1..MaxVersion
      BY <2>1
    <2> QED BY <2>2 DEF DraftIInv, ActionsShow
  <1>5. ASSUME NEW o \in Editors \ {e}, NEW v, v = editor[o] PROVE EditorKnows(v)'
    <2>1. EditorKnows(v) /\ v \in EditorState
      BY <1>5 DEF DraftIInv, EditorsKnow, DraftTypes
    <2>2. ASSUME v.pc # "idle" PROVE v.draft \in Drafts /\ v.read \in DraftRows \cup {Fresh}
      BY <2>1, <2>2, EditorCases
    <2>3. v.read \in DraftRows => v.read.version \in 1..MaxVersion
      BY DraftRowFacts
    <2>4. ReadOf(v) => ReadOf(v)'
      BY DEF ReadOf
    <2> QED BY <2>1, <2>2, <2>3, <2>4 DEF EditorKnows
  <1>6. EditorsKnow'
    <2> SUFFICES ASSUME NEW o \in Editors PROVE EditorKnows(editor[o])'
      BY DEF EditorsKnow
    <2>1. PICK v : v = editor'[o]
      OBVIOUS
    <2>2. EditorKnows(v)'
      BY <1>1, <1>5, <2>1
    <2> QED BY <2>1, <2>2 DEF EditorKnows, ReadOf
  <1> QED BY <1>2, <1>3, <1>4, <1>6 DEF DraftIInv

\* A request that begins has read the draft as it is, or is to make a new one.
LEMMA EditorBegins ==
    ASSUME DraftIInv, NEW e \in Editors, NEW d \in Drafts, NEW read \in DraftRows \cup {Fresh},
           NEW pc \in {"generate", "check", "edit", "submit"},
           read # Fresh => draft[d] = read,
           pc # "generate" => read # Fresh,
           pc = "submit" => TextOf(read) \in Good,
           Becomes(e, [pc |-> pc, draft |-> d, read |-> read]),
           UNCHANGED <<draft, versions, publication, overlapped>>
    PROVE  DraftIInv'
  <1>1. PICK w : w = [pc |-> pc, draft |-> d, read |-> read]
    OBVIOUS
  <1>2. w \in EditorState /\ w.pc = pc /\ w.draft = d /\ w.read = read
    BY <1>1 DEF EditorState
  <1>3. ASSUME read \in DraftRows PROVE ReadOf(w)
    <2>1. draft[d] = read /\ draft[d] # NoDraft /\ read.version \in 1..MaxVersion
      BY <1>3, DraftRowFacts
    <2>2. Says(versions, d, draft[d].version, draft[d].body, draft[d].heading)
      BY <2>1 DEF DraftIInv, NoBodyIsLost
    <2> QED BY <1>2, <2>1, <2>2 DEF ReadOf
  <1>4. EditorKnows(w)'
    BY <1>2, <1>3 DEF EditorKnows, ReadOf
  <1>5. PublishedWasWritten'
    BY DEF DraftIInv, PublishedWasWritten
  <1> QED BY <1>1, <1>2, <1>4, <1>5, EditorMoves DEF DraftIInv, DraftTypes

LEMMA GenerationBegins ==
    ASSUME DraftIInv, NEW e \in Editors, generate_draft(e)
    PROVE  DraftIInv'
  <1>1. CASE \E d \in Drafts : draft[d] = NoDraft /\ Becomes(e, [pc |-> "generate", draft |-> d, read |-> Fresh])
    BY <1>1, EditorBegins DEF generate_draft
  <1>2. ASSUME NEW d \in Latest, Becomes(e, [pc |-> "generate", draft |-> d, read |-> draft[d]]) PROVE DraftIInv'
    <2>1. d \in Drafts /\ draft[d] \in DraftRows
      BY DEF Latest, DraftIInv, DraftTypes
    <2> QED BY <1>2, <2>1, EditorBegins DEF generate_draft
  <1> QED BY <1>1, <1>2 DEF generate_draft

LEMMA EditingBegins ==
    ASSUME DraftIInv, NEW e \in Editors, NEW d \in Drafts,
           run_quality_check(e, d) \/ update_draft(e, d) \/ submit_for_approval(e, d)
    PROVE  DraftIInv'
  <1>1. draft[d] \in DraftRows
    BY DEF run_quality_check, update_draft, submit_for_approval, DraftIInv, DraftTypes
  <1>2. draft[d] # Fresh
    BY <1>1, DraftRowFacts
  <1>3. CASE run_quality_check(e, d)
    BY <1>1, <1>2, <1>3, EditorBegins DEF run_quality_check
  <1>4. CASE update_draft(e, d)
    BY <1>1, <1>2, <1>4, EditorBegins DEF update_draft
  <1>5. CASE submit_for_approval(e, d)
    BY <1>1, <1>2, <1>5, EditorBegins DEF submit_for_approval, Passes
  <1> QED BY <1>3, <1>4, <1>5

LEMMA EditingFails ==
    ASSUME DraftIInv, NEW e \in Editors, EditFails(e)
    PROVE  DraftIInv'
  <1>1. PICK w : w = Resting
    OBVIOUS
  <1>2. w \in EditorState /\ EditorKnows(w)'
    BY <1>1, RestingState DEF EditorKnows
  <1>3. PublishedWasWritten'
    BY DEF EditFails, DraftIInv, PublishedWasWritten
  <1> QED BY <1>1, <1>2, <1>3, EditorMoves DEF EditFails, DraftIInv, DraftTypes

LEMMA ActionIsCreated ==
    ASSUME DraftIInv, NEW e \in Editors, create_action(e)
    PROVE  DraftIInv'
  <1>1. PICK w : w = editor[e]
    OBVIOUS
  <1>2. w \in EditorState /\ w.pc = "submit" /\ EditorKnows(w)
    BY <1>1 DEF create_action, DraftIInv, DraftTypes, EditorsKnow
  <1>3. PICK d \in Drafts, read \in DraftRows : d = w.draft /\ read = w.read
    BY <1>2, EditorCases DEF EditorKnows
  <1>4. ReadOf(w) /\ TextOf(read) \in Good /\ TextOf(read) \in Texts /\ read.version \in 1..MaxVersion
    BY <1>2, <1>3, DraftRowFacts DEF EditorKnows, TextOf, Texts
  <1>5. PICK n, text : n = read.version /\ text = IF publication[<<d, n>>] = NoPublication THEN TextOf(read) ELSE publication[<<d, n>>]
    OBVIOUS
  <1>6. n \in 1..MaxVersion /\ <<d, n>> \in Drafts \X (1..MaxVersion)
    BY <1>4, <1>5
  <1>7. publication' = [publication EXCEPT ![<<d, n>>] = text]
    BY <1>1, <1>3, <1>5 DEF create_action
  <1>8. text \in Texts
    BY <1>4, <1>5, <1>6 DEF DraftIInv, DraftTypes
  <1>9. /\ publication' \in [Drafts \X (1..MaxVersion) -> Texts \cup {NoPublication}]
        /\ publication'[<<d, n>>] = text
        /\ \A x \in Drafts \X (1..MaxVersion) : x # <<d, n>> => publication'[x] = publication[x]
    BY <1>6, <1>7, <1>8 DEF DraftIInv, DraftTypes
  <1>10. ASSUME NEW c \in Drafts, NEW v \in 1..MaxVersion, publication[<<c, v>>] # NoPublication
         PROVE  publication'[<<c, v>>] = publication[<<c, v>>]
    <2>1. <<c, v>> \in Drafts \X (1..MaxVersion)
      OBVIOUS
    <2>2. CASE <<c, v>> = <<d, n>>
      BY <1>5, <1>9, <1>10, <2>2
    <2>3. CASE <<c, v>> # <<d, n>>
      BY <1>9, <2>1, <2>3
    <2> QED BY <2>2, <2>3
  <1>11. draft' = draft /\ versions' = versions
    BY DEF create_action
  <1>12. PublishedWasWritten'
    <2> SUFFICES ASSUME NEW c \in Drafts, NEW v \in 1..MaxVersion, publication'[<<c, v>>] # NoPublication
                 PROVE  /\ Says(versions, c, v, publication'[<<c, v>>][1], publication'[<<c, v>>][2])
                        /\ publication'[<<c, v>>] \in Good
      BY <1>11 DEF PublishedWasWritten
    <2>1. CASE publication[<<c, v>>] # NoPublication
      BY <1>10, <2>1 DEF DraftIInv, PublishedWasWritten
    <2>2. CASE publication[<<c, v>>] = NoPublication
      <3>1. <<c, v>> \in Drafts \X (1..MaxVersion)
        OBVIOUS
      <3>2. <<c, v>> = <<d, n>>
        BY <1>9, <2>2, <3>1
      <3>3. c = d /\ v = n
        BY <3>2
      <3>4. publication'[<<c, v>>] = TextOf(read)
        BY <1>5, <1>9, <2>2, <3>3
      <3>5. TextOf(read)[1] = read.body /\ TextOf(read)[2] = read.heading
        BY DEF TextOf
      <3> QED BY <1>3, <1>4, <1>5, <3>3, <3>4, <3>5 DEF ReadOf
    <2> QED BY <2>1, <2>2
  <1>13. PICK y : y = [w EXCEPT !.pc = "submitted"]
    OBVIOUS
  <1>14. y \in EditorState /\ y.pc = "submitted" /\ y.draft = d /\ y.read = read
    <2>1. w \in [pc : {"generate", "check", "edit", "submit", "submitted"}, draft : Drafts, read : DraftRows \cup {Fresh}]
      BY <1>2, RestingState DEF EditorState
    <2> QED BY <1>3, <1>13, <2>1 DEF EditorState
  <1>15. Becomes(e, y) /\ overlapped' \in BOOLEAN /\ (overlapped => overlapped')
    BY <1>1, <1>13 DEF create_action, Overlaps
  <1>16. EditorKnows(y)'
    <2>1. publication'[<<d, n>>] # NoPublication
      BY <1>8, <1>9 DEF Texts, NoPublication
    <2>2. ReadOf(y)'
      BY <1>3, <1>4, <1>11, <1>14, <1>15 DEF ReadOf
    <2> QED BY <1>4, <1>5, <1>14, <2>1, <2>2 DEF EditorKnows
  <1> QED BY <1>9, <1>10, <1>11, <1>12, <1>14, <1>15, <1>16, EditorMoves
-----------------------------------------------------------------------------
\* The commits: one draft is written, and the request is done.

LEMMA DraftCommits ==
    ASSUME DraftIInv, NEW e \in Editors, editor[e].pc # "idle", NEW d \in Drafts, NEW x \in DraftRows,
           draft' = [draft EXCEPT ![d] = x],
           draft[d] # NoDraft => /\ draft[d].version <= x.version
                                 /\ x.version = draft[d].version => x.heading \in {draft[d].heading, BriefHeading}
                                 /\ draft[d].action # 0 => x.action # 0,
           x.action # 0 => publication[<<d, x.action>>] # NoPublication,
           x.status = "awaiting_approval" => x.action # 0 /\ (overlapped' \/ x.action = x.version),
           versions \subseteq versions', versions' \subseteq VersionRows, NoBodyIsLost',
           Becomes(e, Resting), Overlaps(e), UNCHANGED publication
    PROVE  DraftIInv'
  <1>1. /\ editor' \in [Editors -> EditorState] /\ editor'[e] = Resting
        /\ \A o \in Editors \ {e} : editor'[o] = editor[o]
    BY RestingState DEF Becomes, DraftIInv, DraftTypes
  <1>2. /\ draft' \in [Drafts -> DraftRows \cup {NoDraft}] /\ draft'[d] = x
        /\ \A c \in Drafts \ {d} : draft'[c] = draft[c]
    BY DEF DraftIInv, DraftTypes
  <1>3. /\ overlapped' \in BOOLEAN /\ (overlapped => overlapped')
        /\ \A o \in Editors \ {e} : editor[o].pc # "idle" => overlapped'
    BY DEF Overlaps
  <1>4. x # NoDraft /\ x.version \in 1..MaxVersion
    BY DraftRowFacts
  <1>5. DraftTypes'
    BY <1>1, <1>2, <1>3 DEF DraftIInv, DraftTypes
  <1>6. ActionsShow'
    <2> SUFFICES ASSUME NEW c \in Drafts, draft'[c] # NoDraft
                 PROVE  /\ draft'[c].action # 0 => publication[<<c, draft'[c].action>>] # NoPublication
                        /\ draft'[c].status = "awaiting_approval" =>
                              draft'[c].action # 0 /\ (overlapped' \/ draft'[c].action = draft'[c].version)
      BY DEF ActionsShow
    <2>1. CASE c = d
      BY <1>2, <2>1
    <2>2. CASE c # d
      BY <1>2, <1>3, <2>2 DEF DraftIInv, ActionsShow
    <2> QED BY <2>1, <2>2
  <1>kept. \A c, n, body, heading : Says(versions, c, n, body, heading) => Says(versions', c, n, body, heading)
    BY DEF Says
  <1>7. PublishedWasWritten'
    BY <1>kept DEF DraftIInv, PublishedWasWritten
  <1>8. ASSUME NEW o \in Editors \ {e}, NEW v, v = editor[o] PROVE EditorKnows(v)'
    <2>1. EditorKnows(v) /\ v \in EditorState
      BY <1>8 DEF DraftIInv, EditorsKnow, DraftTypes
    <2>2. ASSUME v.pc # "idle", v.read \in DraftRows PROVE ReadOf(v)'
      <3>1. v.draft \in Drafts /\ v.read.version \in 1..MaxVersion /\ ReadOf(v)
        BY <2>1, <2>2, EditorCases, DraftRowFacts DEF EditorKnows
      <3>2. overlapped'
        BY <1>3, <1>8, <2>2
      <3>3. draft[v.draft] \in DraftRows /\ draft[v.draft].version \in 1..MaxVersion
        BY <3>1, DraftRowFacts DEF ReadOf, DraftIInv, DraftTypes
      <3>4. CASE v.draft = d
        BY <1>2, <1>4, <1>kept, <3>1, <3>2, <3>3, <3>4 DEF ReadOf
      <3>5. CASE v.draft # d
        BY <1>2, <1>kept, <3>1, <3>2, <3>5 DEF ReadOf
      <3> QED BY <3>4, <3>5
    <2> QED BY <2>1, <2>2 DEF EditorKnows
  <1>9. EditorsKnow'
    <2> SUFFICES ASSUME NEW o \in Editors PROVE EditorKnows(editor[o])'
      BY DEF EditorsKnow
    <2>1. CASE o = e
      BY <1>1, <2>1, RestingState DEF EditorKnows
    <2>2. CASE o # e
      <3>1. PICK v : v = editor[o]
        OBVIOUS
      <3>2. EditorKnows(v)' /\ editor'[o] = v
        BY <1>1, <1>8, <2>2, <3>1
      <3> QED BY <3>2 DEF EditorKnows, ReadOf
    <2> QED BY <2>1, <2>2
  <1> QED BY <1>5, <1>6, <1>7, <1>9 DEF DraftIInv

\* Nothing is lost by a commit that writes no version.
LEMMA NothingIsWritten ==
    ASSUME DraftIInv, NEW d \in Drafts, NEW x \in DraftRows, draft' = [draft EXCEPT ![d] = x],
           draft[d] # NoDraft, x.version = draft[d].version, x.body = draft[d].body,
           x.heading \in {draft[d].heading, BriefHeading}, UNCHANGED versions
    PROVE  NoBodyIsLost'
  <1>1. draft'[d] = x /\ \A c \in Drafts \ {d} : draft'[c] = draft[c]
    BY DEF DraftIInv, DraftTypes
  <1>2. ASSUME NEW c \in Drafts, draft'[c] # NoDraft
        PROVE  /\ draft[c] # NoDraft /\ draft'[c].version = draft[c].version /\ draft'[c].body = draft[c].body
               /\ draft'[c].heading \in {draft[c].heading, BriefHeading}
    BY <1>1, <1>2
  <1> QED BY <1>2 DEF DraftIInv, NoBodyIsLost, Says

LEMMA CheckCommits ==
    ASSUME DraftIInv, NEW e \in Editors, CommitCheck(e)
    PROVE  DraftIInv'
  <1>1. PICK w : w = editor[e]
    OBVIOUS
  <1>2. w \in EditorState /\ w.pc = "check" /\ EditorKnows(w)
    BY <1>1 DEF CommitCheck, DraftIInv, DraftTypes, EditorsKnow
  <1>3. PICK d \in Drafts, read \in DraftRows : d = w.draft /\ read = w.read
    BY <1>2, EditorCases DEF EditorKnows
  <1>4. PICK row \in DraftRows : row = draft[d]
    BY <1>2, <1>3 DEF EditorKnows, ReadOf, DraftIInv, DraftTypes
  <1>5. PICK new : new = [read EXCEPT !.checked = IF Passes(read) THEN "good" ELSE "poor"]
    OBVIOUS
  <1>6. /\ new \in DraftRows /\ new.status = read.status /\ new.version = read.version
        /\ new.body = read.body /\ new.heading = read.heading /\ new.action = read.action
    BY <1>5 DEF DraftRows
  <1>7. PICK x : x = WrittenDraft(d, read, new)
    OBVIOUS
  <1>8. /\ x \in DraftRows /\ x.status = row.status /\ x.version = row.version
        /\ x.body = row.body /\ x.heading = row.heading /\ x.action = row.action
    BY <1>4, <1>6, <1>7, Writes
  <1>9. /\ draft' = [draft EXCEPT ![d] = x] /\ Becomes(e, Resting) /\ Overlaps(e)
        /\ UNCHANGED <<versions, publication>>
    BY <1>1, <1>3, <1>5, <1>7 DEF CommitCheck
  <1>10. row # NoDraft /\ row.version \in 1..MaxVersion
    BY DraftRowFacts
  <1>11. NoBodyIsLost'
    BY <1>4, <1>8, <1>9, <1>10, NothingIsWritten
  <1>12. /\ row.action # 0 => publication[<<d, row.action>>] # NoPublication
         /\ row.status = "awaiting_approval" => row.action # 0 /\ (overlapped' \/ row.action = row.version)
    BY <1>4, <1>9, <1>10 DEF DraftIInv, ActionsShow, Overlaps
  <1>13. /\ editor[e].pc # "idle" /\ versions \subseteq versions' /\ versions' \subseteq VersionRows
         /\ row.version <= x.version
    BY <1>1, <1>2, <1>8, <1>9, <1>10 DEF DraftIInv, DraftTypes
  <1> QED BY <1>4, <1>8, <1>9, <1>10, <1>11, <1>12, <1>13, DraftCommits

LEMMA SubmissionCommits ==
    ASSUME DraftIInv, NEW e \in Editors, CommitSubmission(e)
    PROVE  DraftIInv'
  <1>1. PICK w : w = editor[e]
    OBVIOUS
  <1>2. w \in EditorState /\ w.pc = "submitted" /\ EditorKnows(w)
    BY <1>1 DEF CommitSubmission, DraftIInv, DraftTypes, EditorsKnow
  <1>3. PICK d \in Drafts, read \in DraftRows : d = w.draft /\ read = w.read
    BY <1>2, EditorCases DEF EditorKnows
  <1>4. ReadOf(w) /\ publication[<<d, read.version>>] # NoPublication
    BY <1>2, <1>3 DEF EditorKnows
  <1>5. PICK row \in DraftRows : row = draft[d]
    BY <1>3, <1>4 DEF ReadOf, DraftIInv, DraftTypes
  <1>6. PICK new : new = [read EXCEPT !.status = "awaiting_approval", !.action = read.version]
    OBVIOUS
  <1>7. /\ new \in DraftRows /\ new.status = "awaiting_approval" /\ new.version = read.version
        /\ new.body = read.body /\ new.heading = read.heading /\ new.action = read.version
    <2>1. read.version \in 0..MaxVersion
      BY DraftRowFacts
    <2> QED BY <1>6, <2>1 DEF DraftRows
  <1>8. PICK x : x = WrittenDraft(d, read, new)
    OBVIOUS
  <1>9. /\ x \in DraftRows /\ x.version = row.version /\ x.body = row.body /\ x.heading = row.heading
        /\ x.action = IF read.version # read.action THEN read.version ELSE row.action
    BY <1>5, <1>7, <1>8, Writes
  <1>10. /\ draft' = [draft EXCEPT ![d] = x] /\ Becomes(e, Resting) /\ Overlaps(e)
         /\ UNCHANGED <<versions, publication>>
    BY <1>1, <1>3, <1>6, <1>8 DEF CommitSubmission
  <1>11. row # NoDraft /\ row.version \in 1..MaxVersion /\ read.version \in 1..MaxVersion
    BY DraftRowFacts
  <1>12. x.action # 0
    BY <1>3, <1>4, <1>5, <1>9, <1>11 DEF ReadOf
  <1>13. publication[<<d, x.action>>] # NoPublication
    <2>1. row.action # 0 => publication[<<d, row.action>>] # NoPublication
      BY <1>5, <1>11 DEF DraftIInv, ActionsShow
    <2> QED BY <1>4, <1>9, <1>12, <2>1
  <1>14. overlapped' \/ x.action = x.version
    BY <1>3, <1>4, <1>5, <1>9, <1>10 DEF ReadOf, Overlaps
  <1>15. NoBodyIsLost'
    BY <1>5, <1>9, <1>10, <1>11, NothingIsWritten
  <1>16. /\ editor[e].pc # "idle" /\ versions \subseteq versions' /\ versions' \subseteq VersionRows
         /\ row.version <= x.version
    BY <1>1, <1>2, <1>9, <1>10, <1>11 DEF DraftIInv, DraftTypes
  <1> QED BY <1>5, <1>9, <1>10, <1>11, <1>12, <1>13, <1>14, <1>15, <1>16, DraftCommits

\* A text is written: the version it is kept as is new, so that nobody has
\* written one since the draft was read; or it has the body that was read, and no
\* version is written.
LEMMA BodyCommits ==
    ASSUME DraftIInv, NEW e \in Editors, CommitBody(e)
    PROVE  DraftIInv'
  <1>1. PICK w : w = editor[e]
    OBVIOUS
  <1>2. w \in EditorState /\ w.pc \in {"generate", "edit"} /\ EditorKnows(w)
    BY <1>1 DEF CommitBody, DraftIInv, DraftTypes, EditorsKnow
  <1>3. PICK d \in Drafts, read \in DraftRows \cup {Fresh} : d = w.draft /\ read = w.read
    BY <1>2, EditorCases
  <1>4. PICK body \in Bodies, heading \in Headings, new \in BOOLEAN, n \in Nat :
            /\ w.pc = "generate" => heading = BriefHeading
            /\ new = (w.pc = "edit" \/ body # read.body)
            /\ n = (IF new THEN read.version + 1 ELSE read.version)
            /\ n <= MaxVersion
            /\ new => ~Kept(d, n)
            /\ draft' = [draft EXCEPT ![d] =
                  WrittenDraft(d, read, [read EXCEPT !.body = body, !.heading = heading, !.version = n, !.status = "draft"])]
            /\ versions' = IF new THEN versions \cup {[draft |-> d, version |-> n, body |-> body, heading |-> heading]} ELSE versions
    <2>1. PICK body \in Bodies, heading \in (IF w.pc = "generate" THEN {BriefHeading} ELSE Headings) :
                                 LET new == w.pc = "edit" \/ body # read.body
                                     n == IF new THEN read.version + 1 ELSE read.version
                                 IN
            /\ n <= MaxVersion
            /\ new => ~Kept(d, n)
            /\ draft' = [draft EXCEPT ![d] =
                  WrittenDraft(d, read, [read EXCEPT !.body = body, !.heading = heading, !.version = n, !.status = "draft"])]
            /\ versions' = IF new THEN versions \cup {[draft |-> d, version |-> n, body |-> body, heading |-> heading]} ELSE versions
      BY <1>1, <1>3 DEF CommitBody, _next_draft_version, StatusOfWritten
    <2>2. PICK new, n : /\ new = (w.pc = "edit" \/ body # read.body)
                        /\ n = (IF new THEN read.version + 1 ELSE read.version)
      OBVIOUS
    <2>3. new \in BOOLEAN
      BY <2>2
    <2>4. read.version \in Nat
      BY DraftRowFacts
    <2>5. n \in Nat
      BY <2>2, <2>4
    <2>written. heading \in Headings /\ (w.pc = "generate" => heading = BriefHeading)
      BY <2>1, DraftConstants
    <2>6. /\ n <= MaxVersion
          /\ new => ~Kept(d, n)
          /\ draft' = [draft EXCEPT ![d] =
                WrittenDraft(d, read, [read EXCEPT !.body = body, !.heading = heading, !.version = n, !.status = "draft"])]
          /\ versions' = IF new THEN versions \cup {[draft |-> d, version |-> n, body |-> body, heading |-> heading]} ELSE versions
      BY <2>1, <2>2
    <2> QED BY <2>2, <2>3, <2>5, <2>6, <2>written
  <1>5. Becomes(e, Resting) /\ Overlaps(e) /\ UNCHANGED publication /\ (read = Fresh => draft[d] = NoDraft)
    BY <1>1, <1>3 DEF CommitBody
  <1>6. PICK y : y = [read EXCEPT !.body = body, !.heading = heading, !.version = n, !.status = "draft"]
    OBVIOUS
  <1>7. read \in DraftRows => ReadOf(w)
    BY <1>2, <1>3 DEF EditorKnows
  <1>8. \A v \in versions : v \in VersionRows /\ v.draft \in Drafts /\ v.version \in 1..MaxVersion
    BY DEF DraftIInv, DraftTypes, VersionRows
  <1>9. CASE read = Fresh
    <2>1. new /\ n = 1 /\ MaxVersion >= 1
      <3>1. body # read.body /\ read.version = 0
        BY <1>9, NothingIsNoBody, DraftRowFacts
      <3>2. new
        BY <1>4, <3>1
      <3> QED BY <1>4, <3>1, <3>2, DraftConstants
    <2>2. y \in DraftRows /\ y.status = "draft" /\ y.version = 1 /\ y.body = body /\ y.heading = heading /\ y.action = 0
      <3>1. y = [status |-> "draft", version |-> 1, body |-> body, heading |-> heading, action |-> 0, checked |-> "never"]
        BY <1>6, <1>9, <2>1 DEF Fresh
      <3>2. 0 \in 0..MaxVersion /\ 1 \in 1..MaxVersion
        BY <2>1, DraftConstants
      <3> QED BY <3>1, <3>2 DEF DraftRows
    <2>3. draft[d] = NoDraft /\ draft' = [draft EXCEPT ![d] = y]
      BY <1>4, <1>5, <1>6, <1>9 DEF WrittenDraft
    <2>4. PICK z : z = [draft |-> d, version |-> 1, body |-> body, heading |-> heading]
      OBVIOUS
    <2>5. z \in VersionRows /\ z.draft = d /\ z.version = 1 /\ versions' = versions \cup {z} /\ ~Kept(d, 1)
      BY <1>4, <2>1, <2>4 DEF VersionRows
    <2>6. NoBodyIsLost'
      <3>1. draft'[d] = y /\ \A c \in Drafts \ {d} : draft'[c] = draft[c]
        BY <2>3 DEF DraftIInv, DraftTypes
      <3>2. ASSUME NEW c \in Drafts, draft'[c] # NoDraft
            PROVE  /\ Says(versions', c, draft'[c].version, draft'[c].body, draft'[c].heading)
                   /\ \A k \in 1..draft'[c].version : \E v \in versions' : v.draft = c /\ v.version = k
        <4>1. CASE c = d
          <5>1. \A k \in 1..draft'[c].version : k = 1
            BY <2>2, <3>1, <4>1
          <5>2. Says(versions', d, 1, body, heading)
            BY <2>4, <2>5 DEF Says
          <5> QED BY <2>2, <2>5, <3>1, <4>1, <5>1, <5>2
        <4>2. CASE c # d
          BY <2>5, <3>1, <3>2, <4>2 DEF DraftIInv, NoBodyIsLost, Says
        <4> QED BY <4>1, <4>2
      <3>3. \A v, u \in versions' : v.draft = u.draft /\ v.version = u.version => v = u
        BY <2>5 DEF DraftIInv, NoBodyIsLost, Kept
      <3> QED BY <3>2, <3>3 DEF NoBodyIsLost
    <2>7. /\ versions \subseteq versions' /\ versions' \subseteq VersionRows /\ editor[e].pc # "idle"
      BY <1>1, <1>2, <2>5 DEF DraftIInv, DraftTypes
    <2> QED BY <1>5, <2>2, <2>3, <2>6, <2>7, DraftCommits
  <1>10. CASE read \in DraftRows
    <2>1. PICK row \in DraftRows : row = draft[d]
      BY <1>3, <1>7, <1>10 DEF ReadOf, DraftIInv, DraftTypes
    <2>2. /\ row # NoDraft /\ row.version \in 1..MaxVersion /\ read.version \in 1..MaxVersion
          /\ read.version <= row.version /\ (~overlapped => row = read)
          /\ Says(versions, d, read.version, read.body, read.heading)
          /\ row.version = read.version => row.heading \in {read.heading, BriefHeading}
      BY <1>3, <1>7, <1>10, <2>1, DraftRowFacts DEF ReadOf
    <2>3. /\ y \in DraftRows /\ y.status = "draft" /\ y.version = n /\ y.body = body
          /\ y.heading = heading /\ y.action = read.action
      <3>1. n \in 1..MaxVersion
        BY <1>4, <2>2, DraftConstants
      <3> QED BY <1>6, <1>10, <3>1 DEF DraftRows
    <2>4. PICK x : x = WrittenDraft(d, read, y)
      OBVIOUS
    <2>5. /\ x \in DraftRows /\ x.action = row.action
          /\ x.status = IF read.status # "draft" THEN "draft" ELSE row.status
          /\ x.version = IF n # read.version THEN n ELSE row.version
          /\ x.body = IF body # read.body THEN body ELSE row.body
          /\ x.heading = IF heading # read.heading THEN heading ELSE row.heading
      BY <1>10, <2>1, <2>3, <2>4, Writes
    <2>6. draft' = [draft EXCEPT ![d] = x] /\ Becomes(e, Resting) /\ Overlaps(e) /\ UNCHANGED publication
      BY <1>4, <1>5, <1>6, <2>4
    <2>7. /\ row.action # 0 => publication[<<d, row.action>>] # NoPublication
          /\ row.status = "awaiting_approval" => row.action # 0
      BY <2>1, <2>2 DEF DraftIInv, ActionsShow
    <2>8. x.status = "awaiting_approval" => overlapped'
      <3>1. ASSUME ~overlapped' PROVE x.status = "draft"
        BY <2>2, <2>5, <2>6, <3>1, DraftRowFacts DEF Overlaps
      <3> QED BY <2>6, <3>1 DEF Overlaps
    <2>9. /\ x.status = "awaiting_approval" => x.action # 0
      BY <2>5, <2>7
    <2>gaps. \A k \in 1..row.version : \E v \in versions : v.draft = d /\ v.version = k
      BY <2>1, <2>2 DEF DraftIInv, NoBodyIsLost
    <2>10. CASE ~new
      <3>1. n = read.version /\ body = read.body /\ versions' = versions
        BY <1>4, <2>10
      <3>2. x.version = row.version /\ x.body = row.body /\ x.heading \in {row.heading, BriefHeading}
        BY <1>2, <1>4, <2>5, <2>10, <3>1
      <3>3. NoBodyIsLost'
        BY <2>1, <2>2, <2>5, <2>6, <3>1, <3>2, NothingIsWritten
      <3>4. /\ versions \subseteq versions' /\ versions' \subseteq VersionRows /\ editor[e].pc # "idle"
            /\ row.version <= x.version
        BY <1>1, <1>2, <2>2, <3>1, <3>2 DEF DraftIInv, DraftTypes
      <3> QED BY <2>1, <2>5, <2>6, <2>7, <2>8, <2>9, <3>2, <3>3, <3>4, DraftCommits
    <2>11. CASE new
      <3>1. n = read.version + 1 /\ n \in 1..MaxVersion /\ ~Kept(d, n)
        BY <1>4, <2>2, <2>11, DraftConstants
      <3>2. row.version = read.version
        <4>1. ASSUME n \in 1..row.version PROVE FALSE
          BY <2>gaps, <3>1, <4>1 DEF Kept
        <4> QED BY <2>2, <3>1, <4>1
      <3>3. row.body = read.body
        <4>1. PICK u \in versions : u.draft = d /\ u.version = row.version /\ u.body = row.body
          BY <2>1, <2>2 DEF DraftIInv, NoBodyIsLost, Says
        <4>2. PICK v \in versions : v.draft = d /\ v.version = read.version /\ v.body = read.body
          BY <2>2 DEF Says
        <4>3. u = v
          BY <3>2, <4>1, <4>2 DEF DraftIInv, NoBodyIsLost
        <4> QED BY <4>1, <4>2, <4>3
      <3>4. x.version = n /\ x.body = body /\ x.heading \in {heading, BriefHeading}
        BY <2>2, <2>5, <3>1, <3>2, <3>3
      <3>5. PICK z : z = [draft |-> d, version |-> n, body |-> body, heading |-> heading]
        OBVIOUS
      <3>6. z \in VersionRows /\ z.draft = d /\ z.version = n /\ versions' = versions \cup {z}
        BY <1>4, <2>11, <3>1, <3>5 DEF VersionRows
      <3>7. draft'[d] = x /\ \A c \in Drafts \ {d} : draft'[c] = draft[c]
        BY <2>6 DEF DraftIInv, DraftTypes
      <3>8. ASSUME NEW c \in Drafts, draft'[c] # NoDraft
            PROVE  /\ Says(versions', c, draft'[c].version, draft'[c].body, draft'[c].heading)
                   /\ \A k \in 1..draft'[c].version : \E v \in versions' : v.draft = c /\ v.version = k
        <4>1. CASE c = d
          <5>1. Says(versions', d, n, body, x.heading)
            BY <3>4, <3>5, <3>6 DEF Says
          <5>2. ASSUME NEW k \in 1..n PROVE \E v \in versions' : v.draft = d /\ v.version = k
            <6>1. k = n \/ k \in 1..row.version
              BY <2>2, <3>1, <3>2
            <6> QED BY <2>gaps, <3>6, <6>1
          <5> QED BY <3>4, <3>7, <4>1, <5>1, <5>2
        <4>2. CASE c # d
          BY <3>6, <3>7, <3>8, <4>2 DEF DraftIInv, NoBodyIsLost, Says
        <4> QED BY <4>1, <4>2
      <3>9. \A v, u \in versions' : v.draft = u.draft /\ v.version = u.version => v = u
        BY <3>1, <3>6 DEF DraftIInv, NoBodyIsLost, Kept
      <3>10. NoBodyIsLost'
        BY <3>8, <3>9 DEF NoBodyIsLost
      <3>11. /\ versions \subseteq versions' /\ versions' \subseteq VersionRows /\ editor[e].pc # "idle"
             /\ row.version <= x.version
        BY <1>1, <1>2, <2>2, <3>1, <3>2, <3>4, <3>6 DEF DraftIInv, DraftTypes
      <3>12. x.version = draft[d].version => x.heading \in {draft[d].heading, BriefHeading}
        BY <2>1, <2>2, <3>1, <3>2, <3>4
      <3> QED BY <2>1, <2>5, <2>6, <2>7, <2>8, <2>9, <3>10, <3>11, <3>12, DraftCommits
    <2> QED BY <2>10, <2>11
  <1> QED BY <1>3, <1>9, <1>10
-----------------------------------------------------------------------------
LEMMA DraftsStart == DraftsInit => DraftIInv
  <1> SUFFICES ASSUME DraftsInit PROVE DraftIInv
    OBVIOUS
  <1>1. DraftTypes
    BY RestingState DEF DraftsInit, DraftTypes
  <1>2. \A e \in Editors : editor[e].pc = "idle"
    BY RestingState DEF DraftsInit
  <1>3. \A d \in Drafts, v \in 1..MaxVersion : publication[<<d, v>>] = NoPublication
    BY DEF DraftsInit
  <1> QED BY <1>1, <1>2, <1>3 DEF DraftsInit, DraftIInv, NoBodyIsLost, ActionsShow, PublishedWasWritten, EditorsKnow,
                            EditorKnows

LEMMA DraftsStep == DraftIInv /\ [DraftsNext]_draftVars => DraftIInv'
  <1> SUFFICES ASSUME DraftIInv, [DraftsNext]_draftVars PROVE DraftIInv'
    OBVIOUS
  <1>1. ASSUME NEW e \in Editors,
               \/ generate_draft(e)
               \/ \E d \in Drafts : run_quality_check(e, d) \/ update_draft(e, d) \/ submit_for_approval(e, d)
               \/ CommitBody(e) \/ CommitCheck(e) \/ create_action(e) \/ CommitSubmission(e)
               \/ EditFails(e)
        PROVE  DraftIInv'
    BY <1>1, GenerationBegins, EditingBegins, BodyCommits, CheckCommits, ActionIsCreated, SubmissionCommits, EditingFails
  <1>2. CASE UNCHANGED draftVars
    BY <1>2 DEF draftVars, DraftIInv, DraftTypes, NoBodyIsLost, ActionsShow, PublishedWasWritten, EditorsKnow,
                EditorKnows, ReadOf
  <1> QED BY <1>1, <1>2 DEF DraftsNext

\* The inductive invariant of the drafts: what requests have read of them, what
\* their actions show, and, while no two requests overlapped, that a request
\* finds the draft as it has read it.
THEOREM DraftsInvariance == DraftsSpec => []DraftIInv
  BY DraftsStart, DraftsStep, PTL DEF DraftsSpec

\* What is approved is a version that was written, shown and good, whatever
\* requests overlap: content_creation_service.py locks no draft, and loses no
\* body, since a version is kept once; but a generation with the body that was
\* read takes the heading (title and meta fields) back from the brief and writes
\* no version, so that the heading of a draft is its version's or the brief's.  A
\* draft that awaits approval has an action that shows one of its versions in
\* this sense, and no poor text is submitted.
THEOREM DraftsAreSound == DraftsSpec => []DraftInv
  <1>1. ASSUME DraftIInv PROVE DraftInv
    <2>1. DraftsTypeOK
      BY <1>1 DEF DraftIInv, DraftTypes, DraftsTypeOK
    <2>2. NoBodyIsLost
      BY <1>1 DEF DraftIInv
    <2>3. AwaitingShowsItsVersion
      <3> SUFFICES ASSUME NEW d \in Drafts, draft[d] # NoDraft, draft[d].status = "awaiting_approval"
                   PROVE  /\ publication[<<d, draft[d].action>>] # NoPublication
                          /\ Says(versions, d, draft[d].action, publication[<<d, draft[d].action>>][1],
                                                                publication[<<d, draft[d].action>>][2])
                          /\ overlapped \/ draft[d].action = draft[d].version
        BY DEF AwaitingShowsItsVersion
      <3>1. PICK n : n = draft[d].action
        OBVIOUS
      <3>2. n \in 0..MaxVersion
        BY <1>1, <3>1, DraftRowFacts DEF DraftIInv, DraftTypes
      <3>3. n # 0 /\ publication[<<d, n>>] # NoPublication /\ (overlapped \/ n = draft[d].version)
        BY <1>1, <3>1 DEF DraftIInv, ActionsShow
      <3>4. n \in 1..MaxVersion
        BY <3>2, <3>3
      <3> QED BY <1>1, <3>1, <3>3, <3>4 DEF DraftIInv, PublishedWasWritten
    <2>4. SubmittedIsGood
      BY <1>1 DEF DraftIInv, PublishedWasWritten, SubmittedIsGood
    <2> QED BY <2>1, <2>2, <2>3, <2>4 DEF DraftInv
  <1> QED BY <1>1, DraftsInvariance, PTL
-----------------------------------------------------------------------------
(* The scans.                                                                *)

ScansSpec == CitationsInit /\ [][CitationsNext]_scanVars

ScanStatuses == {"queued", "running", "completed"}
Counts == {0} \cup {Cardinality(P) : P \in SUBSET Prompts}
ScanRows == [status : ScanStatuses, result_count : Counts]
GapRows == [status : {"absent", "active", "resolved"}, action : BOOLEAN]
OpenedGaps == UNION {[D -> GapRows] : D \in SUBSET Gaps}

Scanning == [pc : {"ingest", "finalize"}, scan : Scans, read : ScanStatuses]
Opening ==
    [pc : {"opening"}, scan : Scans, read : ScanStatuses, count : Counts, shown : SUBSET Gaps,
     todo : SUBSET Gaps, opened : OpenedGaps]
ScannerState == {Free} \cup Scanning \cup Opening

ScanTypes ==
    /\ scan \in [Scans -> ScanRows]
    /\ result \in [Scans \X Prompts -> GapTypes \cup {NoAnswer, "good"}]
    /\ gap \in [Gaps -> GapRows]
    /\ scanner \in [Scanners -> ScannerState]
    /\ scansCrossed \in BOOLEAN

\* A request that takes in an answer has read the status that the scan has, and
\* one that finalizes has counted its answers, unless another committed since.
ScannerKnows(w) ==
    /\ w.pc = "ingest" => scan[w.scan].status = w.read
    /\ w.pc = "opening" => w.count = Cardinality(Answered(w.scan))

ScannersKnow == scansCrossed \/ \A q \in Scanners : ScannerKnows(scanner[q])

\* An action is named by its gap alone.
ActionsAreOfGaps == \A a \in gapActions : \E g \in Gaps : a = <<g, <<g>>>>

ScanIInv == ScanTypes /\ ScannersKnow /\ CompletedScansAreCounted /\ ActionsAreOfGaps
-----------------------------------------------------------------------------
LEMMA ScannerCases ==
    ASSUME NEW w \in ScannerState
    PROVE  /\ w = Free \/ w \in Scanning \/ w \in Opening
           /\ w.pc \in {"idle", "ingest", "finalize", "opening"}
           /\ w.pc \in {"ingest", "finalize"} => w \in Scanning /\ w.scan \in Scans /\ w.read \in ScanStatuses
           /\ w.pc = "opening" =>
                 /\ w \in Opening /\ w.scan \in Scans /\ w.read \in ScanStatuses /\ w.count \in Counts
                 /\ w.shown \in SUBSET Gaps /\ w.todo \in SUBSET Gaps /\ w.opened \in OpenedGaps
  <1>1. CASE w = Free
    BY <1>1 DEF Free
  <1>2. CASE w \in Scanning
    BY <1>2 DEF Scanning
  <1>3. CASE w \in Opening
    BY <1>3 DEF Opening
  <1> QED BY <1>1, <1>2, <1>3 DEF ScannerState

LEMMA FreeState == Free \in ScannerState /\ Free.pc = "idle"
  BY DEF ScannerState, Free

LEMMA AnswersCounted == \A s : Answered(s) \in SUBSET Prompts /\ Cardinality(Answered(s)) \in Counts
  BY DEF Answered, Counts

LEMMA OneTurns ==
    ASSUME ScanTypes, NEW q \in Scanners, NEW w \in ScannerState, Turns(q, w)
    PROVE  /\ scanner' \in [Scanners -> ScannerState] /\ scanner'[q] = w
           /\ \A o \in Scanners \ {q} : scanner'[o] = scanner[o]
  BY DEF Turns, ScanTypes

\* A request turns, and writes nothing.
LEMMA ScannerTurns ==
    ASSUME ScanIInv, NEW q \in Scanners, NEW w \in ScannerState, Turns(q, w), ScannerKnows(w) \/ scansCrossed,
           UNCHANGED <<scan, result, gap, gapActions, scansCrossed>>
    PROVE  ScanIInv'
  <1>1. /\ scanner' \in [Scanners -> ScannerState] /\ scanner'[q] = w
        /\ \A o \in Scanners \ {q} : scanner'[o] = scanner[o]
    BY OneTurns DEF ScanIInv
  <1>2. ScanTypes'
    BY <1>1 DEF ScanIInv, ScanTypes
  <1>3. \A s : Answered(s)' = Answered(s)
    BY DEF Answered
  <1>4. ScannersKnow'
    <2>1. \A o \in Scanners : scansCrossed \/ ScannerKnows(scanner'[o])
      BY <1>1 DEF ScanIInv, ScannersKnow
    <2> QED BY <1>3, <2>1 DEF ScannersKnow, ScannerKnows
  <1>5. CompletedScansAreCounted' /\ ActionsAreOfGaps'
    BY <1>3 DEF ScanIInv, CompletedScansAreCounted, ActionsAreOfGaps
  <1> QED BY <1>2, <1>4, <1>5 DEF ScanIInv

LEMMA ScanIsRead ==
    ASSUME ScanIInv, NEW q \in Scanners, NEW s \in Scans, NEW pc \in {"ingest", "finalize"}, ReadsScan(q, s, pc)
    PROVE  ScanIInv'
  <1>1. PICK w : w = [pc |-> pc, scan |-> s, read |-> scan[s].status]
    OBVIOUS
  <1>2. scan[s].status \in ScanStatuses
    BY DEF ScanIInv, ScanTypes, ScanRows
  <1>3. w \in ScannerState /\ w.pc = pc /\ w.scan = s /\ w.read = scan[s].status
    BY <1>1, <1>2 DEF ScannerState, Scanning
  <1>4. ScannerKnows(w)
    BY <1>3 DEF ScannerKnows
  <1> QED BY <1>1, <1>3, <1>4, ScannerTurns DEF ReadsScan

LEMMA FinalizationBegins ==
    ASSUME ScanIInv, NEW q \in Scanners, finalize_scan(q)
    PROVE  ScanIInv'
  <1>1. PICK v : v = scanner[q]
    OBVIOUS
  <1>2. v \in ScannerState /\ v.pc = "finalize" /\ v.scan \in Scans /\ v.read \in ScanStatuses
    BY <1>1, ScannerCases DEF finalize_scan, ScanIInv, ScanTypes
  <1>3. PICK shown : shown = {<<result[<<v.scan, p>>], p>> :
                                p \in {r \in Answered(v.scan) : result[<<v.scan, r>>] \in GapTypes}}
    OBVIOUS
  <1>4. shown \in SUBSET Gaps
    <2> SUFFICES ASSUME NEW z \in shown PROVE z \in GapTypes \X Prompts
      BY DEF Gaps
    <2>1. PICK p \in {r \in Answered(v.scan) : result[<<v.scan, r>>] \in GapTypes} : z = <<result[<<v.scan, p>>], p>>
      BY <1>3
    <2>2. p \in Prompts /\ result[<<v.scan, p>>] \in GapTypes
      BY <2>1, AnswersCounted
    <2>3. PICK a : a = result[<<v.scan, p>>]
      OBVIOUS
    <2> QED BY <2>1, <2>2, <2>3
  <1>5. PICK opened : opened = <<>>
    OBVIOUS
  <1>6. opened \in OpenedGaps
    <2>1. opened \in [{} -> GapRows]
      BY <1>5
    <2> QED BY <2>1 DEF OpenedGaps
  <1>7. PICK n : n = Cardinality(Answered(v.scan))
    OBVIOUS
  <1>8. PICK w : w = [pc |-> "opening", scan |-> v.scan, read |-> v.read, count |-> n,
                      shown |-> shown, todo |-> shown, opened |-> opened]
    OBVIOUS
  <1>9. w \in ScannerState /\ w.pc = "opening" /\ w.scan = v.scan /\ w.count = n
    <2>1. n \in Counts
      BY <1>7, AnswersCounted
    <2>2. w \in Opening
      BY <1>2, <1>4, <1>6, <1>8, <2>1 DEF Opening
    <2> QED BY <1>8, <2>2 DEF ScannerState
  <1>10. ScannerKnows(w)
    BY <1>7, <1>9 DEF ScannerKnows
  <1>11. Turns(q, w) /\ UNCHANGED <<scan, result, gap, gapActions, scansCrossed>>
    BY <1>1, <1>3, <1>5, <1>7, <1>8 DEF finalize_scan
  <1> QED BY <1>9, <1>10, <1>11, ScannerTurns

LEMMA ScanningFails ==
    ASSUME ScanIInv, NEW q \in Scanners, ScanRequestFails(q)
    PROVE  ScanIInv'
  <1>1. PICK w : w = Free
    OBVIOUS
  <1>2. w \in ScannerState /\ ScannerKnows(w)
    BY <1>1, FreeState DEF ScannerKnows
  <1> QED BY <1>1, <1>2, ScannerTurns DEF ScanRequestFails

LEMMA Counted ==
    ASSUME ScanIInv, NEW s \in Scans, NEW n \in Counts, NEW status \in ScanStatuses,
           scan' = [scan EXCEPT ![s].result_count = n,
                                ![s].status = IF status # "completed" THEN "completed" ELSE @]
    PROVE  /\ scan' \in [Scans -> ScanRows] /\ scan'[s].result_count = n
           /\ \A o \in Scans \ {s} : scan'[o] = scan[o]
  <1>1. PICK x : x = [[scan[s] EXCEPT !.result_count = n] EXCEPT
                        !.status = IF status # "completed" THEN "completed" ELSE @]
    OBVIOUS
  <1>2. scan[s] \in ScanRows
    BY DEF ScanIInv, ScanTypes
  <1>3. x \in ScanRows /\ x.result_count = n
    <2>1. PICK y : y = [scan[s] EXCEPT !.result_count = n]
      OBVIOUS
    <2>2. y \in ScanRows /\ y.result_count = n /\ y.status \in ScanStatuses
      BY <1>2, <2>1 DEF ScanRows
    <2>3. PICK z : z = IF status # "completed" THEN "completed" ELSE y.status
      OBVIOUS
    <2>4. z \in ScanStatuses
      BY <2>2, <2>3 DEF ScanStatuses
    <2>5. x = [y EXCEPT !.status = z]
      BY <1>1, <2>1, <2>3
    <2> QED BY <2>2, <2>4, <2>5 DEF ScanRows
  <1>4. scan' = [scan EXCEPT ![s] = x]
    BY <1>1, <1>2 DEF ScanIInv, ScanTypes, ScanRows
  <1> QED BY <1>2, <1>3, <1>4 DEF ScanIInv, ScanTypes

\* A commit crosses the others at work, or they know as much as before: nothing.
LEMMA ScanCommits ==
    ASSUME ScanIInv, NEW q \in Scanners, scanner[q].pc # "idle", NEW w \in ScannerState, Turns(q, w), CrossesScans(q),
           ScannerKnows(w)' \/ scansCrossed',
           scan' \in [Scans -> ScanRows], gap' \in [Gaps -> GapRows],
           result' \in [Scans \X Prompts -> GapTypes \cup {NoAnswer, "good"}],
           CompletedScansAreCounted', ActionsAreOfGaps'
    PROVE  ScanIInv'
  <1>1. /\ scanner' \in [Scanners -> ScannerState] /\ scanner'[q] = w
        /\ \A o \in Scanners \ {q} : scanner'[o] = scanner[o]
    BY OneTurns DEF ScanIInv
  <1>2. scansCrossed' \in BOOLEAN
    BY DEF CrossesScans
  <1>3. ScanTypes'
    BY <1>1, <1>2 DEF ScanTypes
  <1>4. ScannersKnow'
    <2> SUFFICES ASSUME ~scansCrossed', NEW o \in Scanners PROVE ScannerKnows(scanner[o])'
      BY DEF ScannersKnow
    <2>1. CASE o = q
      BY <1>1, <2>1 DEF ScannerKnows, Answered
    <2>2. CASE o # q
      BY <1>1, <2>2 DEF CrossesScans, ScannerKnows
    <2> QED BY <2>1, <2>2
  <1> QED BY <1>3, <1>4 DEF ScanIInv

LEMMA AnswerCommits ==
    ASSUME ScanIInv, NEW q \in Scanners, ingest_result(q)
    PROVE  ScanIInv'
  <1>1. PICK v : v = scanner[q]
    OBVIOUS
  <1>2. /\ v \in ScannerState /\ v.pc = "ingest" /\ v.scan \in Scans /\ v.read \in ScanStatuses
        /\ scansCrossed \/ ScannerKnows(v)
    BY <1>1, ScannerCases DEF ingest_result, ScanIInv, ScanTypes, ScannersKnow
  <1>3. PICK s \in Scans : s = v.scan
    BY <1>2
  <1>4. PICK x : x = [scan[s] EXCEPT !.status = IF v.read # "running" THEN "running" ELSE @]
    OBVIOUS
  <1>5. /\ x \in ScanRows /\ x.status = (IF v.read # "running" THEN "running" ELSE scan[s].status)
    BY <1>4 DEF ScanIInv, ScanTypes, ScanRows, ScanStatuses
  <1>6. scan' = [scan EXCEPT ![s] = x]
    BY <1>1, <1>3, <1>4 DEF ingest_result, StatusOfIngested
  <1>7. PICK p \in Prompts, answer \in GapTypes \cup {"good"} : result' = [result EXCEPT ![<<s, p>>] = answer]
    BY <1>1, <1>3 DEF ingest_result
  <1>8. /\ scan' \in [Scans -> ScanRows] /\ scan'[s] = x
        /\ \A o \in Scans \ {s} : scan'[o] = scan[o]
    BY <1>5, <1>6 DEF ScanIInv, ScanTypes
  <1>9. /\ result' \in [Scans \X Prompts -> GapTypes \cup {NoAnswer, "good"}]
        /\ \A o \in Scans \ {s}, r \in Prompts : result'[<<o, r>>] = result[<<o, r>>]
    BY <1>7 DEF ScanIInv, ScanTypes
  <1>10. /\ Turns(q, Free) /\ CrossesScans(q) /\ UNCHANGED <<gap, gapActions>>
    BY DEF ingest_result
  <1>11. CompletedScansAreCounted'
    <2> SUFFICES ASSUME NEW o \in Scans, scan'[o].status = "completed", ~scansCrossed'
                 PROVE  scan'[o].result_count = Cardinality(Answered(o)')
      BY DEF CompletedScansAreCounted
    <2>1. ~scansCrossed
      BY <1>10 DEF CrossesScans
    <2>2. o # s
      BY <1>2, <1>3, <1>5, <1>8, <2>1 DEF ScannerKnows
    <2>3. scan'[o] = scan[o] /\ Answered(o)' = Answered(o)
      BY <1>8, <1>9, <2>2 DEF Answered
    <2> QED BY <2>1, <2>3 DEF ScanIInv, CompletedScansAreCounted
  <1>12. ActionsAreOfGaps'
    BY <1>10 DEF ScanIInv, ActionsAreOfGaps
  <1>13. PICK w : w = Free
    OBVIOUS
  <1>14. w \in ScannerState /\ ScannerKnows(w)'
    BY <1>13, FreeState DEF ScannerKnows
  <1>15. gap' \in [Gaps -> GapRows]
    BY <1>10 DEF ScanIInv, ScanTypes
  <1>16. scanner[q].pc # "idle"
    BY <1>1, <1>2
  <1> QED BY <1>8, <1>9, <1>10, <1>11, <1>12, <1>13, <1>14, <1>15, <1>16, ScanCommits

\* The commits of a finalization: whoever counts has counted all the answers.
LEMMA FinalizationCommits ==
    ASSUME ScanIInv, NEW q \in Scanners, NEW v, v = scanner[q], v.pc = "opening", CountedScan(v),
           NEW w \in ScannerState, w.pc = "idle" \/ (w.pc = "opening" /\ w.scan = v.scan /\ w.count = v.count),
           Turns(q, w), CrossesScans(q), gap' \in [Gaps -> GapRows], UNCHANGED result, ActionsAreOfGaps'
    PROVE  ScanIInv'
  <1>1. /\ v \in ScannerState /\ v.scan \in Scans /\ v.read \in ScanStatuses /\ v.count \in Counts
        /\ scansCrossed \/ v.count = Cardinality(Answered(v.scan))
    BY ScannerCases DEF ScanIInv, ScanTypes, ScannersKnow, ScannerKnows
  <1>2. /\ scan' \in [Scans -> ScanRows] /\ scan'[v.scan].result_count = v.count
        /\ \A o \in Scans \ {v.scan} : scan'[o] = scan[o]
    BY <1>1, Counted DEF CountedScan
  <1>3. \A s : Answered(s)' = Answered(s)
    BY DEF Answered
  <1>4. CompletedScansAreCounted'
    <2> SUFFICES ASSUME NEW o \in Scans, scan'[o].status = "completed", ~scansCrossed'
                 PROVE  scan'[o].result_count = Cardinality(Answered(o))
      BY <1>3 DEF CompletedScansAreCounted
    <2>1. ~scansCrossed
      BY DEF CrossesScans
    <2>2. CASE o = v.scan
      BY <1>1, <1>2, <2>1, <2>2
    <2>3. CASE o # v.scan
      BY <1>2, <2>1, <2>3 DEF ScanIInv, CompletedScansAreCounted
    <2> QED BY <2>2, <2>3
  <1>5. ScannerKnows(w)' \/ scansCrossed'
    BY <1>1, <1>3 DEF ScannerKnows, CrossesScans
  <1>6. result' \in [Scans \X Prompts -> GapTypes \cup {NoAnswer, "good"}]
    BY DEF ScanIInv, ScanTypes
  <1>7. scanner[q].pc # "idle"
    OBVIOUS
  <1> QED BY <1>2, <1>4, <1>5, <1>6, <1>7, ScanCommits

LEMMA OpenedRows ==
    ASSUME ScanTypes, NEW g \in Gaps, NEW was \in GapRows, NEW linked \in BOOLEAN
    PROVE  OpenedGap(g, was, linked) \in GapRows
  <1>1. gap[g] \in GapRows /\ gap[g].action \in BOOLEAN /\ gap[g].status \in {"absent", "active", "resolved"}
    BY DEF ScanTypes, GapRows
  <1>2. PICK a, b : /\ a = (IF was.status # "active" THEN "active" ELSE gap[g].status)
                    /\ b = (gap[g].action \/ linked)
    OBVIOUS
  <1>3. a \in {"absent", "active", "resolved"} /\ b \in BOOLEAN
    BY <1>1, <1>2
  <1> QED BY <1>2, <1>3 DEF OpenedGap, GapRows

LEMMA GapOpens ==
    ASSUME ScanIInv, NEW q \in Scanners, OpenGap(q)
    PROVE  ScanIInv'
  <1>1. PICK v : v = scanner[q]
    OBVIOUS
  <1>2. /\ v \in Opening /\ v.pc = "opening" /\ v.scan \in Scans /\ v.todo \in SUBSET Gaps /\ v.opened \in OpenedGaps
        /\ scansCrossed \/ ScannerKnows(v)
    BY <1>1, ScannerCases DEF OpenGap, ScanIInv, ScanTypes, ScannersKnow
  <1>3. PICK D \in SUBSET Gaps : v.opened \in [D -> GapRows]
    BY <1>2 DEF OpenedGaps
  <1>chosen. PICK g \in v.todo :
            \E opened, w :
               /\ opened = [h \in DOMAIN v.opened \cup {g} |-> IF h = g THEN gap[g] ELSE v.opened[h]]
               /\ w = [v EXCEPT !.todo = @ \ {g}, !.opened = opened]
               /\ Turns(q, w)
               /\ \/ UNCHANGED <<scan, gap, gapActions, scansCrossed>>
                  \/ /\ CountedScan(v)
                     /\ gap' = [h \in Gaps |-> IF h \in DOMAIN opened THEN OpenedGap(h, opened[h], h # g) ELSE gap[h]]
                     /\ gapActions' = gapActions \cup {<<g, KeyOfGap(v.scan, g)>>}
                     /\ CrossesScans(q)
    BY <1>1 DEF OpenGap
  <1>4. PICK opened, w :
            /\ opened = [h \in DOMAIN v.opened \cup {g} |-> IF h = g THEN gap[g] ELSE v.opened[h]]
            /\ w = [v EXCEPT !.todo = @ \ {g}, !.opened = opened]
            /\ Turns(q, w)
            /\ \/ UNCHANGED <<scan, gap, gapActions, scansCrossed>>
               \/ /\ CountedScan(v)
                  /\ gap' = [h \in Gaps |-> IF h \in DOMAIN opened THEN OpenedGap(h, opened[h], h # g) ELSE gap[h]]
                  /\ gapActions' = gapActions \cup {<<g, KeyOfGap(v.scan, g)>>}
                  /\ CrossesScans(q)
    BY <1>chosen
  <1>5. UNCHANGED result
    BY DEF OpenGap
  <1>6. opened \in [D \cup {g} -> GapRows] /\ D \cup {g} \in SUBSET Gaps
    <2>1. gap[g] \in GapRows
      BY <1>2, <1>4 DEF ScanIInv, ScanTypes
    <2> QED BY <1>2, <1>3, <1>4, <2>1
  <1>7. opened \in OpenedGaps
    BY <1>6 DEF OpenedGaps
  <1>8. w \in Opening /\ w.pc = "opening" /\ w.scan = v.scan /\ w.count = v.count
    <2>1. v.todo \ {g} \in SUBSET Gaps
      BY <1>2
    <2> QED BY <1>2, <1>4, <1>7, <2>1 DEF Opening
  <1>9. w \in ScannerState
    BY <1>8 DEF ScannerState
  <1>10. CASE UNCHANGED <<scan, gap, gapActions, scansCrossed>>
    <2>1. ScannerKnows(w) \/ scansCrossed
      BY <1>2, <1>8 DEF ScannerKnows
    <2> QED BY <1>4, <1>5, <1>9, <1>10, <2>1, ScannerTurns
  <1>11. CASE /\ CountedScan(v)
              /\ gap' = [h \in Gaps |-> IF h \in DOMAIN opened THEN OpenedGap(h, opened[h], h # g) ELSE gap[h]]
              /\ gapActions' = gapActions \cup {<<g, KeyOfGap(v.scan, g)>>}
              /\ CrossesScans(q)
    <2>1. ActionsAreOfGaps'
      BY <1>2, <1>4, <1>11 DEF ScanIInv, ActionsAreOfGaps, KeyOfGap
    <2>2. ASSUME NEW h \in Gaps PROVE gap'[h] \in GapRows
      <3>1. CASE h \in DOMAIN opened
        <4>1. opened[h] \in GapRows /\ (h # g) \in BOOLEAN
          BY <1>6, <3>1
        <4>2. OpenedGap(h, opened[h], h # g) \in GapRows
          BY <4>1, OpenedRows DEF ScanIInv
        <4> QED BY <1>11, <3>1, <4>2
      <3>2. CASE h \notin DOMAIN opened
        BY <1>11, <3>2 DEF ScanIInv, ScanTypes
      <3> QED BY <3>1, <3>2
    <2>3. gap' \in [Gaps -> GapRows]
      BY <1>11, <2>2
    <2> QED BY <1>1, <1>2, <1>4, <1>5, <1>8, <1>9, <1>11, <2>1, <2>3, FinalizationCommits
  <1> QED BY <1>4, <1>10, <1>11

LEMMA ScanIsCommitted ==
    ASSUME ScanIInv, NEW q \in Scanners, CommitScan(q)
    PROVE  ScanIInv'
  <1>1. PICK v : v = scanner[q]
    OBVIOUS
  <1>2. v \in Opening /\ v.pc = "opening" /\ v.opened \in OpenedGaps
    BY <1>1, ScannerCases DEF CommitScan, ScanIInv, ScanTypes
  <1>3. PICK D \in SUBSET Gaps : v.opened \in [D -> GapRows]
    BY <1>2 DEF OpenedGaps
  <1>4. /\ CountedScan(v) /\ Turns(q, Free) /\ CrossesScans(q) /\ UNCHANGED <<result, gapActions>>
        /\ gap' = [g \in Gaps |->
              IF g \in DOMAIN v.opened THEN OpenedGap(g, v.opened[g], TRUE)
              ELSE IF v.shown # {} /\ g \notin v.shown /\ gap[g].status = "active"
                   THEN [gap[g] EXCEPT !.status = "resolved"] ELSE gap[g]]
    BY <1>1 DEF CommitScan
  <1>5. ASSUME NEW g \in Gaps PROVE gap'[g] \in GapRows
    <2>1. gap[g] \in GapRows /\ [gap[g] EXCEPT !.status = "resolved"] \in GapRows
      BY DEF ScanIInv, ScanTypes, GapRows
    <2>2. CASE g \in DOMAIN v.opened
      <3>1. OpenedGap(g, v.opened[g], TRUE) \in GapRows
        BY <1>3, <2>2, OpenedRows DEF ScanIInv
      <3> QED BY <1>4, <2>2, <3>1
    <2>3. CASE g \notin DOMAIN v.opened
      BY <1>4, <2>1, <2>3
    <2> QED BY <2>2, <2>3
  <1>6. gap' \in [Gaps -> GapRows]
    BY <1>4, <1>5
  <1>7. ActionsAreOfGaps'
    BY <1>4 DEF ScanIInv, ActionsAreOfGaps
  <1>8. PICK w : w = Free
    OBVIOUS
  <1> QED BY <1>1, <1>2, <1>4, <1>6, <1>7, <1>8, FreeState, FinalizationCommits
-----------------------------------------------------------------------------
LEMMA ScansStart == CitationsInit => ScanIInv
  <1> SUFFICES ASSUME CitationsInit PROVE ScanIInv
    OBVIOUS
  <1>1. PICK x, y : x = [status |-> "queued", result_count |-> 0] /\ y = NoGap
    OBVIOUS
  <1>2. x \in ScanRows /\ x.status = "queued" /\ y \in GapRows
    BY <1>1 DEF ScanRows, ScanStatuses, Counts, GapRows, NoGap
  <1>3. ScanTypes
    BY <1>1, <1>2, FreeState DEF CitationsInit, ScanTypes
  <1>4. \A s \in Scans : scan[s] = x
    BY <1>1 DEF CitationsInit
  <1>5. \A q \in Scanners : scanner[q].pc = "idle"
    BY FreeState DEF CitationsInit
  <1> QED BY <1>2, <1>3, <1>4, <1>5 DEF ScanIInv, ScannersKnow, ScannerKnows, CompletedScansAreCounted, ActionsAreOfGaps,
                                  CitationsInit

LEMMA ScansStep == ScanIInv /\ [CitationsNext]_scanVars => ScanIInv'
  <1> SUFFICES ASSUME ScanIInv, [CitationsNext]_scanVars PROVE ScanIInv'
    OBVIOUS
  <1>1. ASSUME NEW q \in Scanners,
               \/ \E s \in Scans, pc \in {"ingest", "finalize"} : ReadsScan(q, s, pc)
               \/ ingest_result(q) \/ finalize_scan(q)
               \/ OpenGap(q) \/ CommitScan(q)
               \/ ScanRequestFails(q)
        PROVE  ScanIInv'
    BY <1>1, ScanIsRead, AnswerCommits, FinalizationBegins, GapOpens, ScanIsCommitted, ScanningFails
  <1>2. CASE UNCHANGED scanVars
    <2>1. UNCHANGED <<scan, result, gap, gapActions, scanner, scansCrossed>>
      BY <1>2 DEF scanVars
    <2> QED BY <2>1 DEF ScanIInv, ScanTypes, ScannersKnow, ScannerKnows, CompletedScansAreCounted, ActionsAreOfGaps, Answered
  <1> QED BY <1>1, <1>2 DEF CitationsNext

\* The inductive invariant of the scans: unless two requests crossed, an answer
\* knows the status of its scan, and a finalization has counted all its answers.
THEOREM ScansInvariance == ScansSpec => []ScanIInv
  BY ScansStart, ScansStep, PTL DEF ScansSpec

\* A finalization of citation_intelligence_service.py can be repeated, whoever
\* ends early and however answers come: a completed scan has counted all its
\* answers, unless one came while it was finalized, and a gap has one action.
THEOREM ScansAreSound == ScansSpec => []ScanInv
  <1>1. ASSUME ScanIInv PROVE ScanInv
    BY <1>1 DEF ScanIInv, ActionsAreOfGaps, OneActionPerGap, ScanInv
  <1> QED BY <1>1, ScansInvariance, PTL
-----------------------------------------------------------------------------
\* TechnicalFindings.  What holds of the refreshes of findings has layers, each
\* under what the one before holds under and more: the types and what exists,
\* whatever happens (FindingBase); what a refresher read is what is, as long as
\* nothing crosses it (Uncrossed); what is out of date is about to be cancelled,
\* as long as no refresh is interrupted (Current); every finding is governed, as
\* long as the repository does not move back (Moved); and the budget comes
\* round, as long as nothing disturbs the refreshes at all (Budgets).
Views == [Findings -> Issue]

RefresherStates ==
    {Working}
    \cup [pc : {"reconciling"}, read : Views, new : Views]
    \cup [pc : {"stale"}, view : Views, doomed : SUBSET IdempotencyKeys, gone : SUBSET Findings]
    \cup [pc : {"ensuring"}, view : Views, doomed : SUBSET IdempotencyKeys, planned : Nat, limit : Nat,
          whole : BOOLEAN, new : SUBSET IdempotencyKeys, todo : SUBSET Findings, first : SUBSET Findings]

FindingCounts ==
    /\ moves \in Nat /\ decisions \in Nat /\ interruptions \in Nat
    /\ crossings \in 0..MaxCrossings

FindingTypes ==
    /\ repository \in Scopes \cup {Unmapped}
    /\ finding \in [Findings -> Issue]
    /\ action \in [IdempotencyKeys -> GovernedAction \cup {NoGoverned}]
    /\ refresher \in [Refreshers -> RefresherStates]
    /\ deferrals \in [Findings -> Nat]
    /\ FindingCounts

Exists(k) == action[k] # NoGoverned
Present(k) == k[2] = finding[k[1]].regression_count
IsActive(f) == finding[f].status \in ActiveFindingStatuses
IsUndecided(k) == Exists(k) /\ action[k].status \in Undecided
Withdrawn(k) == action[k].status = "cancelled" /\ action[k].by = "system"

Rows ==
    /\ \A f \in Findings : IsFiniteSet(Existing(f))
    /\ \A f \in Findings : \A k \in Existing(f) : action[k].born < Cardinality(Existing(f))

\* What a refresher remembers exists, whatever crosses it.
Remembers(r) ==
    LET s == refresher[r] IN
    /\ s.pc \in {"stale", "ensuring"} => \A k \in s.doomed : Exists(k)
    /\ s.pc = "ensuring" => \A k \in s.new : Exists(k)

\* What crosses nothing sees what is.
SeesFindings(s) ==
    s.pc = "reconciling" =>
        /\ s.read = finding
        /\ \E observed \in SUBSET Findings : s.new = [f \in Findings |-> Reconciled(finding[f], f \in observed)]

SeesStale(s) ==
    s.pc = "stale" =>
        /\ s.view = finding
        /\ \A f \in s.gone : finding[f].status = "resolved"
        /\ \A k \in s.doomed : IsUndecided(k) /\ finding[k[1]].status = "resolved"

SeesActive(s) ==
    s.pc = "ensuring" =>
        /\ s.view = finding
        /\ \A f \in s.todo : IsActive(f)
        /\ \A k \in s.doomed : IsUndecided(k)
        /\ \A k \in s.new : Exists(k) /\ action[k].status = "draft" /\ IsActive(k[1]) /\ Present(k)
        /\ s.new # {} => s.doomed = {} /\ \E k \in IdempotencyKeys : s.new = {k}

Sight(s) == SeesFindings(s) /\ SeesStale(s) /\ SeesActive(s)

Histories ==
    /\ \A f \in Findings : finding[f].status = "absent" => finding[f] = Unseen /\ Existing(f) = {}
    /\ \A k \in IdempotencyKeys : Exists(k) => k[2] <= finding[k[1]].regression_count

Uncrossed ==
    crossings = 0 => /\ Histories
                     /\ \A r \in Refreshers : Sight(refresher[r])

\* Someone is about to withdraw the action.
Ends(s, k) == s.pc = "stale" /\ (k[1] \in s.gone \/ k \in s.doomed)
Current ==
    crossings = 0 /\ interruptions = 0 =>
        \A k \in IdempotencyKeys : IsUndecided(k) /\ ~finding[k[1]].touched =>
            (IsActive(k[1]) /\ Present(k)) \/ \E r \in Refreshers : Ends(refresher[r], k)

\* The second part: as long as the repository does not move back.
PatchHere(k) == k[3] # Simulated /\ k[3] = repository /\ Present(k)
Standing(k) == Exists(k) /\ Present(k) /\ (~finding[k[1]].touched => ~Withdrawn(k))
Supersedes(l, k, doomed) == l[1] = k[1] /\ l[3] # Simulated /\ l \notin doomed /\ Standing(l)

DoomedAreSuperseded(s) ==
    s.pc = "ensuring" =>
        /\ \A k \in s.doomed : ~PatchHere(k) /\ \E l \in IdempotencyKeys : Supersedes(l, k, s.doomed)
        /\ moves = 0 => \A k \in s.doomed : k[3] = Simulated \/ ~Present(k)
        /\ \A k \in s.new : k[3] = Simulated \/ k[3] = repository
              \/ \A l \in IdempotencyKeys : l[1] = k[1] /\ l[3] = repository => ~(Exists(l) /\ Present(l))

Untroubled(f) == IsActive(f) /\ ~finding[f].touched
HasGoverned(f) ==
    \E k \in Existing(f) : action[k].status \in CurrentStatuses \/ (Present(k) /\ ~Withdrawn(k))

Patches ==
    /\ moves = 0 => \A k \in IdempotencyKeys : Exists(k) => k[3] \in {Simulated, repository}
    /\ \A k \in IdempotencyKeys : Exists(k) /\ PatchHere(k) /\ Untroubled(k[1]) => ~Withdrawn(k)
    /\ \A f \in Findings : Untroubled(f) /\ (\E k \in Existing(f) : Present(k)) => \E k \in Existing(f) : Present(k) /\ ~Withdrawn(k)

Ensures(s) ==
    s.pc = "ensuring" /\ s.whole => \A f \in Findings \ s.todo : Untroubled(f) => HasGoverned(f)

Moved ==
    crossings = 0 /\ moves < 2 =>
        /\ Patches
        /\ \A r \in Refreshers : DoomedAreSuperseded(refresher[r]) /\ Ensures(refresher[r])

\* The third part: nothing disturbs the refreshes.
EnoughPlans ==
    /\ IsFiniteSet(Patchable) /\ Cardinality(Patchable) <= 2 * PlanLimit
    /\ \A f \in Patchable : Mode[f] # "blocked"
Quiet == EnoughPlans /\ decisions = 0 /\ moves = 0 /\ crossings = 0 /\ interruptions = 0

Fallback(f) == <<f, finding[f].regression_count, Simulated>>
Patched(f) == \E k \in Existing(f) : Present(k) /\ k[3] # Simulated
PutOff == {f \in Findings : deferrals[f] # 0}
Settled(f) == IsActive(f) /\ (Patched(f) \/ (Exists(Fallback(f)) /\ action[Fallback(f)].reason = "declined"))
SettledPatches == {f \in Patchable : Settled(f)}
Unsettled == Patchable \ SettledPatches
Candidates == {f \in Unsettled : IsActive(f)}

FindingsUntouched == \A f \in Findings : ~finding[f].touched /\ finding[f].status # "dismissed"
ActionsUntouched ==
    \A k \in IdempotencyKeys : k[1] \in Patchable /\ Exists(k) => action[k].status \in Undecided \cup {"cancelled"}
PresentStand ==
    \A k \in IdempotencyKeys : k[1] \in Patchable /\ Exists(k) /\ IsActive(k[1]) /\ Present(k) =>
        action[k].status \in Undecided \/ (k[3] = Simulated /\ Patched(k[1]))
PatchesFollow ==
    \A k, l \in IdempotencyKeys :
        /\ k[1] \in Patchable /\ k[1] = l[1] /\ IsActive(k[1])
        /\ Exists(k) /\ Exists(l) /\ Present(k) /\ Present(l) /\ k[3] = Simulated /\ l[3] # Simulated
        => action[k].born < action[l].born
Waits(f) ==
    /\ deferrals[f] = 1 /\ f \in Patchable /\ IsActive(f) /\ ~Patched(f)
    /\ Exists(Fallback(f)) /\ action[Fallback(f)].reason = "budget"

Undisturbed ==
    /\ FindingsUntouched /\ ActionsUntouched /\ PresentStand /\ PatchesFollow
    /\ \A f \in PutOff : Waits(f)

PastCommit(s) == s.pc = "stale" \/ (s.pc = "ensuring" /\ s.whole)

Plans(s) ==
    /\ s.pc = "stale" /\ PutOff # {} => Cardinality(Candidates) <= PlanLimit
    /\ s.pc = "ensuring" /\ s.whole =>
          /\ s.limit = PlanLimit
          /\ PutOff \cap s.todo \subseteq s.first
          /\ PutOff \cap s.todo # {} => s.planned + Cardinality(s.todo \cap s.first \cap Patchable) <= PlanLimit
          /\ s.planned <= Cardinality(SettledPatches \ s.todo)
          /\ PutOff \ s.todo # {} => s.planned >= PlanLimit
    /\ s.pc = "ensuring" /\ ~s.whole => s.limit = 1 /\ (s.todo = {} \/ (s.planned = 0 /\ \E f \in Findings : s.todo = {f}))

NobodyPast == \A r \in Refreshers : ~PastCommit(refresher[r])
Budgets ==
    Quiet => /\ Undisturbed
             /\ \A r \in Refreshers : Plans(refresher[r])
             /\ \A r, q \in Refreshers : PastCommit(refresher[r]) /\ PastCommit(refresher[q]) => r = q
             /\ NobodyPast /\ PutOff # {} => Cardinality(Unsettled) <= PlanLimit

FindingBase == FindingTypes /\ Rows /\ \A r \in Refreshers : Remembers(r)
FindingInv == FindingBase /\ Uncrossed /\ Current /\ Moved /\ Budgets
-----------------------------------------------------------------------------
\* What the rows are.

LEMMA ConstantsAre ==
    /\ Findings \subseteq Nat /\ Patchable \subseteq Findings
    /\ Mode \in [Findings -> {"auto_approve", "manual_approval", "blocked"}]
    /\ PlanLimit \in Nat /\ MaxRegressions \in Nat /\ MaxMoves \in Nat
    /\ MaxDecisions \in Nat /\ MaxCrossings \in Nat /\ MaxInterruptions \in Nat
BY FindingConstants

LEMMA KeyParts ==
    ASSUME NEW k \in IdempotencyKeys
    PROVE  k[1] \in Findings /\ k[2] \in Regressions /\ k[3] \in Scopes \cup {Simulated} /\ k = <<k[1], k[2], k[3]>>
BY DEF IdempotencyKeys

LEMMA KeysDiffer ==
    ASSUME NEW k \in IdempotencyKeys, NEW l \in IdempotencyKeys,
           k[1] = l[1], k[2] = l[2], k[3] = l[3]
    PROVE  k = l
BY DEF IdempotencyKeys

LEMMA RegressionCounts == Regressions \subseteq Nat /\ 0 \in Regressions
BY ConstantsAre DEF Regressions

LEMMA GovernedFacts ==
    ASSUME NEW a \in GovernedAction
    PROVE  /\ a # NoGoverned
           /\ a.status \in ActionStatuses /\ a.reason \in {"budget", "declined", "ready"} /\ a.born \in Nat /\ a.by \in {"system", "user"}
           /\ a = [status |-> a.status, reason |-> a.reason, born |-> a.born, by |-> a.by]
<1>1. a.status # "absent"
  BY DEF GovernedAction, ActionStatuses, CurrentStatuses, Undecided
<1>2. NoGoverned.status = "absent"
  BY DEF NoGoverned
<1> QED BY <1>1, <1>2 DEF GovernedAction

LEMMA StateCases ==
    ASSUME NEW s \in RefresherStates
    PROVE  \/ s = Working /\ s.pc = "idle"
           \/ s.pc = "reconciling" /\ s \in [pc : {"reconciling"}, read : Views, new : Views]
           \/ s.pc = "stale" /\ s \in [pc : {"stale"}, view : Views, doomed : SUBSET IdempotencyKeys, gone : SUBSET Findings]
           \/ s.pc = "ensuring" /\ s \in [pc : {"ensuring"}, view : Views, doomed : SUBSET IdempotencyKeys, planned : Nat, limit : Nat,
                                          whole : BOOLEAN, new : SUBSET IdempotencyKeys, todo : SUBSET Findings, first : SUBSET Findings]
BY DEF RefresherStates, Working

LEMMA AtWork ==
    ASSUME NEW s \in RefresherStates
    PROVE  /\ s.pc \in {"idle", "reconciling", "stale", "ensuring"}
           /\ s.pc = "reconciling" => s.read \in Views /\ s.new \in Views
           /\ s.pc = "stale" => s.view \in Views /\ s.doomed \subseteq IdempotencyKeys /\ s.gone \subseteq Findings
           /\ s.pc = "ensuring" => /\ s.view \in Views /\ s.doomed \subseteq IdempotencyKeys /\ s.planned \in Nat /\ s.limit \in Nat
                                   /\ s.whole \in BOOLEAN /\ s.new \subseteq IdempotencyKeys
                                   /\ s.todo \subseteq Findings /\ s.first \subseteq Findings
BY StateCases

LEMMA WorkingState == Working \in RefresherStates /\ Working.pc = "idle"
BY DEF RefresherStates, Working

LEMMA IssueFacts ==
    ASSUME NEW i \in Issue
    PROVE  /\ i.status \in {"open", "regressed", "absent", "resolved", "dismissed"}
           /\ i.regression_count \in Regressions /\ i.touched \in BOOLEAN
           /\ i = [status |-> i.status, regression_count |-> i.regression_count, touched |-> i.touched]
BY DEF Issue, ActiveFindingStatuses

LEMMA UnseenIssue == Unseen \in Issue /\ Unseen.status = "absent" /\ Unseen.regression_count = 0 /\ ~Unseen.touched
BY RegressionCounts DEF Unseen, Issue

Turned(i, j) ==
    /\ i.status = "dismissed" => j = i
    /\ i.status \in ActiveFindingStatuses => j.regression_count = i.regression_count /\ j.status \in {i.status, "resolved"}
    /\ i.status = "resolved" =>
          \/ j.status = "resolved" /\ j.regression_count = i.regression_count
          \/ j.status = "regressed" /\ j.regression_count = i.regression_count + 1
    /\ i.status # "absent" => j.touched = i.touched /\ j.status # "absent" /\ i.regression_count <= j.regression_count
    /\ i.status = "absent" => j = i \/ (j.status = "open" /\ j.regression_count = 0 /\ ~j.touched)

LEMMA Reconciles ==
    ASSUME NEW i \in Issue, NEW f, NEW observed, NEW j, j = Reconciled(i, f \in observed), j.regression_count <= MaxRegressions
    PROVE  j \in Issue /\ Turned(i, j)
<1>1. PICK st, rc, t : i = [status |-> st, regression_count |-> rc, touched |-> t] /\ st \in {"open", "regressed", "absent", "resolved", "dismissed"}
                       /\ rc \in Regressions /\ t \in BOOLEAN
  BY IssueFacts
<1>2. rc \in Nat /\ MaxRegressions \in Nat
  BY <1>1, RegressionCounts, ConstantsAre
<1>3. \/ j = i /\ ~(st \in ActiveFindingStatuses /\ f \notin observed) /\ ~(st = "resolved" /\ f \in observed)
      \/ st = "absent" /\ j = [status |-> "open", regression_count |-> 0, touched |-> FALSE]
      \/ st = "resolved" /\ j = [status |-> "regressed", regression_count |-> rc + 1, touched |-> t]
      \/ st \in ActiveFindingStatuses /\ j = [status |-> "resolved", regression_count |-> rc, touched |-> t]
  <2>1. CASE f \in observed
    <3>1. CASE st = "absent"
      BY <2>1, <3>1, <1>1 DEF Reconciled, Unseen
    <3>2. CASE st = "resolved"
      BY <2>1, <3>2, <1>1 DEF Reconciled
    <3>3. CASE st \notin {"absent", "resolved"}
      BY <2>1, <3>3, <1>1 DEF Reconciled
    <3> QED BY <3>1, <3>2, <3>3
  <2>2. CASE f \notin observed
    BY <2>2, <1>1 DEF Reconciled, ActiveFindingStatuses
  <2> QED BY <2>1, <2>2
<1>4. j \in Issue
  <2>1. rc + 1 <= MaxRegressions => rc + 1 \in Regressions
    BY <1>2 DEF Regressions
  <2>2. 0 \in Regressions
    BY RegressionCounts
  <2>3. CASE j = i
    BY <2>3
  <2>4. CASE j = [status |-> "open", regression_count |-> 0, touched |-> FALSE]
    <3>1. "open" \in ActiveFindingStatuses \cup {"absent", "resolved", "dismissed"} /\ FALSE \in BOOLEAN
      BY DEF ActiveFindingStatuses
    <3>2. PICK no \in BOOLEAN : no = FALSE
      OBVIOUS
    <3>3. j = [status |-> "open", regression_count |-> 0, touched |-> no]
      BY <2>4, <3>2
    <3> QED BY <2>2, <3>1, <3>3 DEF Issue
  <2>5. CASE j = [status |-> "regressed", regression_count |-> rc + 1, touched |-> t]
    <3>1. rc + 1 \in Regressions
      BY <2>1, <2>5
    <3> QED BY <1>1, <2>5, <3>1 DEF Issue, ActiveFindingStatuses
  <2>6. CASE j = [status |-> "resolved", regression_count |-> rc, touched |-> t]
    BY <1>1, <2>6 DEF Issue, ActiveFindingStatuses
  <2> QED BY <1>3, <2>3, <2>4, <2>5, <2>6
<1> QED BY <1>1, <1>2, <1>3, <1>4 DEF ActiveFindingStatuses, Turned

\* The least of a set of findings.
LEMMA LeastFinding ==
    ASSUME NEW T \in SUBSET Findings, T # {}
    PROVE  \E n \in T : \A m \in T : n <= m
<1>1. T \in SUBSET Nat
  BY ConstantsAre
<1>2. PICK n \in T : \A m \in T : ~(<<m, n>> \in OpToRel(<, Nat))
  BY <1>1, WFMin, NatLessThanWellFounded, Zenon
<1>3. \A m \in T : ~(m < n)
  BY <1>1, <1>2 DEF OpToRel
<1> QED BY <1>1, <1>3

LEMMA NextIs ==
    ASSUME NEW s \in RefresherStates, s.pc = "ensuring", s.todo # {}
    PROVE  NextFinding(s) \in s.todo /\ (s.todo \cap s.first # {} => NextFinding(s) \in s.first)
<1>1. s.todo \subseteq Findings
  BY AtWork
<1>2. PICK group : group = (IF s.todo \cap s.first # {} THEN s.todo \cap s.first ELSE s.todo)
  OBVIOUS
<1>3. group \in SUBSET Findings /\ group # {} /\ group \subseteq s.todo
  BY <1>1, <1>2
<1>4. \E f \in group : \A g \in group : f <= g
  BY <1>3, LeastFinding
<1>5. NextFinding(s) \in group
  BY <1>2, <1>4 DEF NextFinding
<1> QED BY <1>2, <1>3, <1>5
-----------------------------------------------------------------------------
\* Steps: of a refresher, of an action.

LEMMA RefresherGoes ==
    ASSUME FindingTypes, NEW r \in Refreshers, NEW s \in RefresherStates, refresher' = [refresher EXCEPT ![r] = s]
    PROVE  /\ refresher' \in [Refreshers -> RefresherStates]
           /\ refresher'[r] = s
           /\ \A q \in Refreshers \ {r} : refresher'[q] = refresher[q]
BY DEF FindingTypes

\* One action is rewritten, and keeps its place.
ActionBecomes(k, a) == action' = [action EXCEPT ![k] = a]
ActionIs(k, a) ==
    /\ action' \in [IdempotencyKeys -> GovernedAction \cup {NoGoverned}]
    /\ action'[k] = a
    /\ \A l \in IdempotencyKeys : l # k => action'[l] = action[l]
    /\ \A l \in IdempotencyKeys : Exists(l)' <=> Exists(l)
    /\ \A l \in IdempotencyKeys : Exists(l) => action'[l].born = action[l].born

LEMMA ActionRewritten ==
    ASSUME FindingTypes, NEW k \in IdempotencyKeys, Exists(k), NEW a \in GovernedAction, a.born = action[k].born, ActionBecomes(k, a)
    PROVE  ActionIs(k, a)
<1>1. action \in [IdempotencyKeys -> GovernedAction \cup {NoGoverned}]
  BY DEF FindingTypes
<1>2. /\ action' \in [IdempotencyKeys -> GovernedAction \cup {NoGoverned}] /\ action'[k] = a
      /\ \A l \in IdempotencyKeys : l # k => action'[l] = action[l]
  BY <1>1 DEF ActionBecomes
<1>3. a # NoGoverned
  BY GovernedFacts
<1> QED BY <1>2, <1>3 DEF ActionIs, Exists

LEMMA ExistingAction ==
    ASSUME FindingTypes, NEW k \in IdempotencyKeys, Exists(k)
    PROVE  /\ action[k] \in GovernedAction
           /\ action[k].status \in ActionStatuses /\ action[k].reason \in {"budget", "declined", "ready"} /\ action[k].born \in Nat
           /\ action[k].by \in {"system", "user"}
           /\ action[k] = [status |-> action[k].status, reason |-> action[k].reason, born |-> action[k].born, by |-> action[k].by]
           /\ k \in Existing(k[1])
<1>1. action[k] \in GovernedAction
  BY DEF FindingTypes, Exists
<1>2. k \in Existing(k[1])
  BY DEF Existing, Of, Exists
<1> QED BY <1>1, <1>2, GovernedFacts

LEMMA ExistingKey ==
    ASSUME NEW f, NEW k \in Existing(f)
    PROVE  k \in IdempotencyKeys /\ k[1] = f /\ Exists(k)
BY DEF Existing, Of, Exists

LEMMA RowsKept ==
    ASSUME Rows, \A l \in IdempotencyKeys : Exists(l)' <=> Exists(l),
           \A l \in IdempotencyKeys : Exists(l) => action'[l].born = action[l].born
    PROVE  Rows' /\ \A f \in Findings : Existing(f)' = Existing(f)
<1>1. \A f \in Findings : Existing(f)' = Existing(f)
  BY DEF Existing, Of, Exists
<1>2. \A f \in Findings : IsFiniteSet(Existing(f)')
  BY <1>1 DEF Rows
<1>3. ASSUME NEW f \in Findings, NEW k \in Existing(f)' PROVE action'[k].born < Cardinality(Existing(f)')
  <2>1. k \in Existing(f)
    BY <1>1, <1>3
  <2>2. action'[k].born = action[k].born
    BY <2>1, ExistingKey
  <2>3. action[k].born < Cardinality(Existing(f))
    BY <2>1 DEF Rows
  <2>4. Cardinality(Existing(f)') = Cardinality(Existing(f))
    BY <1>1
  <2> QED BY <2>2, <2>3, <2>4
<1> QED BY <1>1, <1>2, <1>3 DEF Rows

\* A new action is the last of its finding.
DraftOf(k, outcome) == [status |-> "draft", reason |-> outcome, born |-> Cardinality(Existing(k[1])), by |-> "system"]
Created(k, a) ==
    /\ a \in GovernedAction
    /\ action' \in [IdempotencyKeys -> GovernedAction \cup {NoGoverned}]
    /\ action'[k] = a
    /\ \A l \in IdempotencyKeys : l # k => action'[l] = action[l]
    /\ \A l \in IdempotencyKeys : Exists(l)' <=> Exists(l) \/ l = k
    /\ \A l \in Existing(k[1]) : action[l].born < a.born

LEMMA ActionCreated ==
    ASSUME FindingTypes, Rows, NEW k \in IdempotencyKeys, ~Exists(k), NEW outcome \in {"budget", "declined", "ready"},
           NEW a, a = DraftOf(k, outcome), ActionBecomes(k, a)
    PROVE  Created(k, a) /\ Rows'
<1>0. k[1] \in Findings
  BY KeyParts
<1>1. PICK n : n = Cardinality(Existing(k[1]))
  OBVIOUS
<1>2. n \in Nat /\ IsFiniteSet(Existing(k[1])) /\ (\A l \in Existing(k[1]) : action[l].born < n)
  BY <1>0, <1>1, FS_CardinalityType DEF Rows
<1>3. a = [status |-> "draft", reason |-> outcome, born |-> n, by |-> "system"]
  BY <1>1 DEF DraftOf
<1>4. a \in GovernedAction
  BY <1>2, <1>3 DEF GovernedAction, ActionStatuses, CurrentStatuses, Undecided
<1>5. /\ action' \in [IdempotencyKeys -> GovernedAction \cup {NoGoverned}] /\ action'[k] = a
      /\ \A l \in IdempotencyKeys : l # k => action'[l] = action[l]
  BY <1>4 DEF FindingTypes, ActionBecomes
<1>6. a # NoGoverned
  BY <1>4, GovernedFacts
<1>7. Created(k, a)
  BY <1>2, <1>3, <1>4, <1>5, <1>6 DEF Created, Exists
<1>8. ASSUME NEW f \in Findings PROVE Existing(f)' = IF f = k[1] THEN Existing(f) \cup {k} ELSE Existing(f)
  BY <1>5, <1>6 DEF Existing, Of, Exists
<1>9. ASSUME NEW f \in Findings PROVE IsFiniteSet(Existing(f)') /\ \A l \in Existing(f)' : action'[l].born < Cardinality(Existing(f)')
  <2>1. CASE f = k[1]
    <3>1. k \notin Existing(k[1])
      BY DEF Existing, Exists
    <3>2. IsFiniteSet(Existing(f) \cup {k}) /\ Cardinality(Existing(f) \cup {k}) = n + 1
      BY <2>1, <3>1, <1>1, <1>2, FS_AddElement
    <3>3. IsFiniteSet(Existing(f)') /\ Cardinality(Existing(f)') = n + 1
      BY <2>1, <3>2, <1>8
    <3>4. ASSUME NEW l \in Existing(f)' PROVE action'[l].born < n + 1
      <4>1. CASE l = k
        BY <4>1, <1>2, <1>3, <1>5
      <4>2. CASE l # k
        <5>1. l \in Existing(k[1])
          BY <4>2, <2>1, <1>8
        <5>2. Exists(l) /\ l \in IdempotencyKeys
          BY <5>1, ExistingKey
        <5>3. action'[l] = action[l] /\ action[l].born < n /\ action[l].born \in Nat
          BY <4>2, <5>1, <5>2, <1>2, <1>5, ExistingAction
        <5> QED BY <5>3, <1>2
      <4> QED BY <4>1, <4>2
    <3> QED BY <3>3, <3>4
  <2>2. CASE f # k[1]
    <3>1. Existing(f)' = Existing(f)
      BY <2>2, <1>8
    <3>2. ASSUME NEW l \in Existing(f)' PROVE action'[l].born = action[l].born
      BY <2>2, <3>1, <1>5, ExistingKey
    <3> QED BY <3>1, <3>2 DEF Rows
  <2> QED BY <2>1, <2>2
<1> QED BY <1>7, <1>9 DEF Rows
-----------------------------------------------------------------------------
\* The steps, one by one, and what they leave.
\* Commits: what is at work besides is crossed.

OthersIdle(others) == \A q \in others : refresher[q].pc = "idle"

LEMMA CommitsFacts ==
    ASSUME FindingTypes, NEW others, Commits(others)
    PROVE  crossings' \in 0..MaxCrossings /\ (crossings' = 0 => crossings = 0 /\ OthersIdle(others))
BY ConstantsAre DEF Commits, FindingTypes, FindingCounts, OthersIdle

\* A refresher moves, and nothing else does.
Alone(r, s) ==
    /\ s \in RefresherStates
    /\ refresher' = [refresher EXCEPT ![r] = s]
    /\ finding' = finding /\ action' = action /\ repository' = repository
    /\ crossings' = crossings /\ moves' = moves /\ decisions' = decisions

LEMMA AloneKeepsTypes ==
    ASSUME FindingTypes, Rows, NEW r \in Refreshers, NEW s, Alone(r, s), \A q \in Refreshers : Remembers(q),
           deferrals' \in [Findings -> Nat], interruptions' \in Nat,
           s.pc \in {"stale", "ensuring"} => \A k \in s.doomed : Exists(k),
           s.pc = "ensuring" => \A k \in s.new : Exists(k)
    PROVE  FindingTypes' /\ Rows' /\ \A q \in Refreshers : Remembers(q)'
<1>1. s \in RefresherStates /\ refresher' = [refresher EXCEPT ![r] = s]
  BY DEF Alone
<1>2. refresher' \in [Refreshers -> RefresherStates] /\ refresher'[r] = s /\ \A q \in Refreshers \ {r} : refresher'[q] = refresher[q]
  BY <1>1, RefresherGoes
<1>3. FindingTypes'
  BY <1>2 DEF FindingTypes, FindingCounts, Alone
<1>4. Rows'
  BY DEF Rows, Existing, Of, Alone
<1>5. ASSUME NEW q \in Refreshers PROVE Remembers(q)'
  <2>1. CASE q = r
    BY <2>1, <1>2 DEF Remembers, Exists, Alone
  <2>2. CASE q # r
    BY <2>2, <1>2 DEF Remembers, Exists, Alone
  <2> QED BY <2>1, <2>2
<1> QED BY <1>3, <1>4, <1>5

\* A refresher rewrites an action.
Rewrites(r, s, k, a) ==
    /\ s \in RefresherStates
    /\ refresher' = [refresher EXCEPT ![r] = s]
    /\ k \in IdempotencyKeys /\ Exists(k) /\ a \in GovernedAction /\ a.born = action[k].born
    /\ ActionBecomes(k, a)
    /\ finding' = finding /\ repository' = repository
    /\ Commits(Refreshers \ {r})
    /\ moves' = moves /\ decisions' = decisions /\ interruptions' = interruptions

LEMMA RewritesKeepTypes ==
    ASSUME FindingTypes, Rows, NEW r \in Refreshers, NEW s, NEW k, NEW a, Rewrites(r, s, k, a), \A q \in Refreshers : Remembers(q),
           deferrals' \in [Findings -> Nat],
           s.pc \in {"stale", "ensuring"} => \A l \in s.doomed : Exists(l),
           s.pc = "ensuring" => \A l \in s.new : Exists(l)
    PROVE  FindingTypes' /\ Rows' /\ \A q \in Refreshers : Remembers(q)'
<1>1. s \in RefresherStates /\ refresher' = [refresher EXCEPT ![r] = s]
  BY DEF Rewrites
<1>2. refresher' \in [Refreshers -> RefresherStates] /\ refresher'[r] = s /\ \A q \in Refreshers \ {r} : refresher'[q] = refresher[q]
  BY <1>1, RefresherGoes
<1>3. ActionIs(k, a)
  BY ActionRewritten DEF Rewrites
<1>4. crossings' \in 0..MaxCrossings
  BY CommitsFacts DEF Rewrites
<1>5. FindingTypes'
  BY <1>2, <1>3, <1>4 DEF FindingTypes, FindingCounts, Rewrites, ActionIs
<1>6. Rows'
  BY <1>3, RowsKept DEF ActionIs
<1>7. \A q \in Refreshers : refresher[q] \in RefresherStates
  BY DEF FindingTypes
<1>8. ASSUME NEW q \in Refreshers PROVE Remembers(q)'
  <2>1. \A l \in IdempotencyKeys : Exists(l) => Exists(l)'
    BY <1>3 DEF ActionIs
  <2>2. CASE q = r
    <3>1. s.pc \in {"stale", "ensuring"} => s.doomed \subseteq IdempotencyKeys
      BY <1>1, AtWork
    <3>2. s.pc = "ensuring" => s.new \subseteq IdempotencyKeys
      BY <1>1, AtWork
    <3> QED BY <2>1, <2>2, <3>1, <3>2, <1>2 DEF Remembers
  <2>3. CASE q # r
    <3>1. PICK t : t = refresher[q]
      OBVIOUS
    <3>2. t \in RefresherStates /\ refresher'[q] = t
      BY <3>1, <2>3, <1>2, <1>7
    <3>3. t.pc \in {"stale", "ensuring"} => t.doomed \subseteq IdempotencyKeys
      BY <3>2, AtWork
    <3>4. t.pc = "ensuring" => t.new \subseteq IdempotencyKeys
      BY <3>2, AtWork
    <3> QED BY <2>1, <3>1, <3>2, <3>3, <3>4 DEF Remembers
  <2> QED BY <2>2, <2>3
<1> QED BY <1>5, <1>6, <1>8

\* A refresher creates an action.
Creates(r, s, k, outcome) ==
    /\ s \in RefresherStates
    /\ refresher' = [refresher EXCEPT ![r] = s]
    /\ k \in IdempotencyKeys /\ ~Exists(k) /\ outcome \in {"budget", "declined", "ready"}
    /\ ActionBecomes(k, DraftOf(k, outcome))
    /\ finding' = finding /\ repository' = repository
    /\ Commits(Refreshers \ {r})
    /\ moves' = moves /\ decisions' = decisions /\ interruptions' = interruptions

LEMMA CreatesKeepTypes ==
    ASSUME FindingTypes, Rows, NEW r \in Refreshers, NEW s, NEW k, NEW outcome, Creates(r, s, k, outcome),
           \A q \in Refreshers : Remembers(q), deferrals' \in [Findings -> Nat],
           s.pc = "ensuring", s.doomed = {}, s.new = {k}
    PROVE  FindingTypes' /\ Rows' /\ \A q \in Refreshers : Remembers(q)'
<1>1. s \in RefresherStates /\ refresher' = [refresher EXCEPT ![r] = s]
  BY DEF Creates
<1>2. refresher' \in [Refreshers -> RefresherStates] /\ refresher'[r] = s /\ \A q \in Refreshers \ {r} : refresher'[q] = refresher[q]
  BY <1>1, RefresherGoes
<1>3. PICK a : a = DraftOf(k, outcome)
  OBVIOUS
<1>4. k \in IdempotencyKeys /\ ~Exists(k) /\ outcome \in {"budget", "declined", "ready"} /\ ActionBecomes(k, a)
  BY <1>3 DEF Creates
<1>5. Created(k, a) /\ Rows'
  BY <1>3, <1>4, ActionCreated
<1>6. crossings' \in 0..MaxCrossings
  BY CommitsFacts DEF Creates
<1>7. FindingTypes'
  BY <1>2, <1>5, <1>6 DEF FindingTypes, FindingCounts, Creates, Created
<1>8. \A q \in Refreshers : refresher[q] \in RefresherStates
  BY DEF FindingTypes
<1>9. \A l \in IdempotencyKeys : Exists(l) \/ l = k => Exists(l)'
  BY <1>5 DEF Created
<1>10. ASSUME NEW q \in Refreshers PROVE Remembers(q)'
  <2>2. CASE q = r
    BY <2>2, <1>2, <1>4, <1>9 DEF Remembers
  <2>3. CASE q # r
    <3>1. PICK t : t = refresher[q]
      OBVIOUS
    <3>2. t \in RefresherStates /\ refresher'[q] = t
      BY <3>1, <2>3, <1>2, <1>8
    <3>3. t.pc \in {"stale", "ensuring"} => t.doomed \subseteq IdempotencyKeys
      BY <3>2, AtWork
    <3>4. t.pc = "ensuring" => t.new \subseteq IdempotencyKeys
      BY <3>2, AtWork
    <3> QED BY <1>9, <3>1, <3>2, <3>3, <3>4 DEF Remembers
  <2> QED BY <2>2, <2>3
<1> QED BY <1>5, <1>7, <1>10
-----------------------------------------------------------------------------
\* The actions have these shapes.

Calm == deferrals' = deferrals /\ interruptions' = interruptions

Reads(r, s) ==
    /\ refresher[r].pc = "idle"
    /\ s.pc = "reconciling" /\ s.read = finding
    /\ \E observed \in SUBSET Findings : s.new = [f \in Findings |-> Reconciled(finding[f], f \in observed)]

LEMMA ReadsShape ==
    ASSUME FindingBase, NEW r \in Refreshers, NEW observed \in SUBSET Findings, reconcile_findings(r, observed)
    PROVE  (\E s : Alone(r, s) /\ Reads(r, s)) /\ Calm /\ FindingBase'
<1>1. PICK new : new = [f \in Findings |-> Reconciled(finding[f], f \in observed)]
  OBVIOUS
<1>2. PICK s : s = [pc |-> "reconciling", read |-> finding, new |-> new]
  OBVIOUS
<1>3. ASSUME NEW f \in Findings PROVE new[f] \in Issue
  <2>1. PICK j : j = Reconciled(finding[f], f \in observed)
    OBVIOUS
  <2>2. new[f] = j /\ j.regression_count <= MaxRegressions
    BY <1>1, <2>1 DEF reconcile_findings
  <2>3. finding[f] \in Issue
    BY DEF FindingBase, FindingTypes
  <2> QED BY <2>1, <2>2, <2>3, Reconciles
<1>4. new \in Views /\ finding \in Views
  BY <1>1, <1>3 DEF Views, FindingBase, FindingTypes
<1>5. s \in RefresherStates
  BY <1>2, <1>4 DEF RefresherStates
<1>6. refresher' = [refresher EXCEPT ![r] = s] /\ refresher[r].pc = "idle"
  BY <1>1, <1>2 DEF reconcile_findings, Goes
<1>7. Alone(r, s) /\ Calm
  BY <1>5, <1>6 DEF Alone, Calm, reconcile_findings, counters
<1>8. Reads(r, s)
  BY <1>1, <1>2, <1>6 DEF Reads
<1>9. FindingBase'
  BY <1>2, <1>7, AloneKeepsTypes DEF FindingBase, Calm, FindingTypes, FindingCounts
<1> QED BY <1>7, <1>8, <1>9

StaleTurns(r, s) ==
    LET old == refresher[r] IN
    /\ old.pc = "stale" /\ old.doomed = {}
    /\ s.pc = "stale" /\ s.view = old.view
    /\ \E f \in old.gone : s.gone = old.gone \ {f} /\ s.doomed = Doomed(f)

LEMMA DoomedFacts ==
    ASSUME NEW f, NEW k \in Doomed(f)
    PROVE  k \in IdempotencyKeys /\ k[1] = f /\ IsUndecided(k)
BY DEF Doomed, Having, Existing, Of, IsUndecided, Exists

LEMMA DoomedKeys ==
    ASSUME NEW k \in IdempotencyKeys, IsUndecided(k)
    PROVE  k \in Doomed(k[1])
BY DEF Doomed, Having, Existing, Of, IsUndecided, Exists

LEMMA StaleShape ==
    ASSUME FindingBase, NEW r \in Refreshers, _cancel_stale_actions(r)
    PROVE  (\E s : Alone(r, s) /\ StaleTurns(r, s)) /\ Calm /\ FindingBase'
<1>0. PICK old : old = refresher[r]
  OBVIOUS
<1>1. old \in RefresherStates /\ old.pc = "stale" /\ old.doomed = {}
  BY <1>0 DEF FindingBase, FindingTypes, _cancel_stale_actions
<1>2. /\ old \in [pc : {"stale"}, view : Views, doomed : SUBSET IdempotencyKeys, gone : SUBSET Findings]
      /\ old.view \in Views /\ old.gone \subseteq Findings
  BY <1>1, StateCases
<1>3. PICK f \in old.gone : refresher' = [refresher EXCEPT ![r] = [old EXCEPT !.gone = @ \ {f}, !.doomed = Doomed(f)]]
  BY <1>0 DEF _cancel_stale_actions, Goes
<1>4. PICK s : s = [old EXCEPT !.gone = @ \ {f}, !.doomed = Doomed(f)]
  OBVIOUS
<1>5. s.pc = "stale" /\ s.view = old.view /\ s.doomed = Doomed(f) /\ s.gone = old.gone \ {f}
  BY <1>2, <1>4
<1>6. s \in RefresherStates
  <2>1. Doomed(f) \subseteq IdempotencyKeys
    BY DoomedFacts
  <2>2. s \in [pc : {"stale"}, view : Views, doomed : SUBSET IdempotencyKeys, gone : SUBSET Findings]
    BY <2>1, <1>2, <1>4
  <2> QED BY <2>2 DEF RefresherStates
<1>7. Alone(r, s) /\ Calm
  BY <1>3, <1>4, <1>6 DEF Alone, Calm, _cancel_stale_actions, counters
<1>8. StaleTurns(r, s)
  BY <1>0, <1>1, <1>5 DEF StaleTurns
<1>9. \A k \in s.doomed : Exists(k)
  BY <1>5, DoomedFacts DEF IsUndecided
<1>10. FindingBase'
  BY <1>5, <1>7, <1>9, AloneKeepsTypes DEF FindingBase, Calm, FindingTypes, FindingCounts
<1> QED BY <1>7, <1>8, <1>10

Carries(old, s) ==
    /\ s.pc = old.pc
    /\ s.pc = "stale" => s.view = old.view /\ s.gone = old.gone
    /\ s.pc = "ensuring" =>
          /\ s.view = old.view /\ s.limit = old.limit /\ s.whole = old.whole /\ s.first = old.first
          /\ s.planned = old.planned /\ s.todo = old.todo

Cancels(r, s, k, a) ==
    LET old == refresher[r] IN
    /\ old.pc \in {"stale", "ensuring"} /\ k \in old.doomed
    /\ Carries(old, s) /\ s.doomed = old.doomed \ {k}
    /\ s.pc = "ensuring" => s.new = old.new
    /\ a = [status |-> "cancelled", reason |-> action[k].reason, born |-> action[k].born, by |-> "system"]

LEMMA CancelShape ==
    ASSUME FindingBase, NEW r \in Refreshers, cancel_action(r)
    PROVE  (\E s, k, a : Rewrites(r, s, k, a) /\ Cancels(r, s, k, a)) /\ Calm /\ FindingBase'
<1>0. PICK old : old = refresher[r]
  OBVIOUS
<1>1. old \in RefresherStates /\ old.pc \in {"stale", "ensuring"}
  BY <1>0 DEF FindingBase, FindingTypes, cancel_action
<1>2. PICK k \in old.doomed : /\ action' = [action EXCEPT ![k].status = "cancelled", ![k].by = "system"]
                              /\ refresher' = [refresher EXCEPT ![r] = [old EXCEPT !.doomed = @ \ {k}]]
  BY <1>0 DEF cancel_action, Goes
<1>3. k \in IdempotencyKeys /\ Exists(k)
  <2>1. k \in IdempotencyKeys
    BY <1>1, <1>2, AtWork
  <2>2. Exists(k)
    BY <1>0, <1>1, <1>2 DEF FindingBase, Remembers
  <2> QED BY <2>1, <2>2
<1>4. action[k] \in GovernedAction /\ action[k] = [status |-> action[k].status, reason |-> action[k].reason, born |-> action[k].born, by |-> action[k].by]
  BY <1>3, ExistingAction DEF FindingBase
<1>5. PICK a : a = [status |-> "cancelled", reason |-> action[k].reason, born |-> action[k].born, by |-> "system"]
  OBVIOUS
<1>6. a \in GovernedAction /\ a.born = action[k].born
  BY <1>4, <1>5 DEF GovernedAction, ActionStatuses
<1>7. ActionBecomes(k, a)
  <2>1. action \in [IdempotencyKeys -> GovernedAction \cup {NoGoverned}]
    BY DEF FindingBase, FindingTypes
  <2>2. action'[k] = a
    BY <2>1, <1>2, <1>3, <1>4, <1>5
  <2>3. /\ DOMAIN action' = IdempotencyKeys /\ action' = [l \in IdempotencyKeys |-> action'[l]]
        /\ \A l \in IdempotencyKeys : l # k => action'[l] = action[l]
    BY <2>1, <1>2, <1>3
  <2> QED BY <2>1, <2>2, <2>3, <1>3 DEF ActionBecomes
<1>8. PICK s : s = [old EXCEPT !.doomed = @ \ {k}]
  OBVIOUS
<1>9. s \in RefresherStates /\ Carries(old, s) /\ s.doomed = old.doomed \ {k} /\ (s.pc = "ensuring" => s.new = old.new)
  <2>1. CASE old.pc = "stale"
    <3>1. old \in [pc : {"stale"}, view : Views, doomed : SUBSET IdempotencyKeys, gone : SUBSET Findings]
      BY <2>1, <1>1, StateCases
    <3> QED BY <3>1, <1>8 DEF RefresherStates, Carries
  <2>2. CASE old.pc = "ensuring"
    <3>1. old \in [pc : {"ensuring"}, view : Views, doomed : SUBSET IdempotencyKeys, planned : Nat, limit : Nat,
                   whole : BOOLEAN, new : SUBSET IdempotencyKeys, todo : SUBSET Findings, first : SUBSET Findings]
      BY <2>2, <1>1, StateCases
    <3>2. s \in [pc : {"ensuring"}, view : Views, doomed : SUBSET IdempotencyKeys, planned : Nat, limit : Nat,
                   whole : BOOLEAN, new : SUBSET IdempotencyKeys, todo : SUBSET Findings, first : SUBSET Findings]
      BY <3>1, <1>8
    <3>3. s.doomed = old.doomed \ {k} /\ s.new = old.new /\ Carries(old, s)
      BY <3>1, <1>8 DEF Carries
    <3> QED BY <3>2, <3>3 DEF RefresherStates
  <2> QED BY <1>1, <2>1, <2>2
<1>10. Rewrites(r, s, k, a) /\ Calm
  BY <1>2, <1>3, <1>6, <1>7, <1>8, <1>9 DEF Rewrites, Calm, cancel_action, counters
<1>11. Cancels(r, s, k, a)
  BY <1>0, <1>1, <1>2, <1>5, <1>9 DEF Cancels
<1>12. /\ s.pc \in {"stale", "ensuring"} => \A l \in s.doomed : Exists(l)
       /\ s.pc = "ensuring" => \A l \in s.new : Exists(l)
  BY <1>0, <1>1, <1>9 DEF FindingBase, Remembers, Carries
<1>13. FindingBase'
  BY <1>10, <1>12, RewritesKeepTypes DEF FindingBase, Calm, FindingTypes
<1> QED BY <1>10, <1>11, <1>13

Collects(r, s) ==
    LET old == refresher[r] IN
    /\ old.pc = "stale" /\ old.doomed = {} /\ old.gone = {}
    /\ s.pc = "ensuring" /\ s.view = old.view /\ s.doomed = {} /\ s.new = {}
    /\ s.planned = 0 /\ s.limit = PlanLimit /\ s.whole
    /\ s.todo = {f \in Findings : IsActive(f) /\ ~Ready(f)}
    /\ s.first = {f \in Findings : IsActive(f) /\ Deferred(f)}

LEMMA CollectShape ==
    ASSUME FindingBase, NEW r \in Refreshers, CollectActive(r)
    PROVE  (\E s : Alone(r, s) /\ Collects(r, s)) /\ Calm /\ FindingBase'
<1>0. PICK old : old = refresher[r]
  OBVIOUS
<1>1. old \in RefresherStates /\ old.pc = "stale" /\ old.doomed = {} /\ old.gone = {}
  BY <1>0 DEF FindingBase, FindingTypes, CollectActive
<1>2. old.view \in Views
  BY <1>1, AtWork
<1>3. PICK todo : todo = {f \in Findings : IsActive(f) /\ ~Ready(f)}
  OBVIOUS
<1>4. PICK first : first = {f \in Findings : IsActive(f) /\ Deferred(f)}
  OBVIOUS
<1>5. PICK s : s = [pc |-> "ensuring", view |-> old.view, doomed |-> {}, planned |-> 0, limit |-> PlanLimit, whole |-> TRUE, new |-> {},
                    todo |-> todo, first |-> first]
  OBVIOUS
<1>6. PICK active : active = {f \in Findings : finding[f].status \in ActiveFindingStatuses}
  OBVIOUS
<1>7. {f \in active : ~Ready(f)} = todo /\ {f \in active : Deferred(f)} = first
  BY <1>3, <1>4, <1>6 DEF IsActive
<1>8. refresher' = [refresher EXCEPT ![r] = s]
  BY <1>0, <1>5, <1>6, <1>7 DEF CollectActive, Goes
<1>9. s \in RefresherStates
  <2>1. PICK yes \in BOOLEAN : yes = TRUE
    OBVIOUS
  <2>2. todo \subseteq Findings /\ first \subseteq Findings /\ PlanLimit \in Nat
    BY <1>3, <1>4, ConstantsAre
  <2>3. s \in [pc : {"ensuring"}, view : Views, doomed : SUBSET IdempotencyKeys, planned : Nat, limit : Nat,
               whole : BOOLEAN, new : SUBSET IdempotencyKeys, todo : SUBSET Findings, first : SUBSET Findings]
    BY <1>2, <1>5, <2>1, <2>2
  <2> QED BY <2>3 DEF RefresherStates
<1>10. Alone(r, s) /\ Calm
  BY <1>8, <1>9 DEF Alone, Calm, CollectActive, counters
<1>11. Collects(r, s)
  BY <1>0, <1>1, <1>3, <1>4, <1>5 DEF Collects
<1>12. FindingBase'
  BY <1>5, <1>10, AloneKeepsTypes DEF FindingBase, Calm, FindingTypes, FindingCounts
<1> QED BY <1>10, <1>11, <1>12

Asks(r, s, f) ==
    /\ refresher[r].pc = "idle" /\ IsActive(f) /\ f \in Findings
    /\ s.pc = "ensuring" /\ s.view = finding /\ s.doomed = {} /\ s.new = {}
    /\ s.planned = 0 /\ s.limit = 1 /\ ~s.whole /\ s.todo = {f} /\ s.first = {}

LEMMA AskShape ==
    ASSUME FindingBase, NEW r \in Refreshers, NEW f \in Findings, create_finding_action(r, f)
    PROVE  (\E s : Alone(r, s) /\ Asks(r, s, f)) /\ Calm /\ FindingBase'
<1>1. PICK s : s = [pc |-> "ensuring", view |-> finding, doomed |-> {}, planned |-> 0, limit |-> 1, whole |-> FALSE, new |-> {},
                    todo |-> {f}, first |-> {}]
  OBVIOUS
<1>2. refresher' = [refresher EXCEPT ![r] = s]
  BY <1>1 DEF create_finding_action, Goes
<1>3. s \in RefresherStates
  <2>1. PICK no \in BOOLEAN : no = FALSE
    OBVIOUS
  <2>2. finding \in Views
    BY DEF Views, FindingBase, FindingTypes
  <2>3. s \in [pc : {"ensuring"}, view : Views, doomed : SUBSET IdempotencyKeys, planned : Nat, limit : Nat,
               whole : BOOLEAN, new : SUBSET IdempotencyKeys, todo : SUBSET Findings, first : SUBSET Findings]
    BY <1>1, <2>1, <2>2
  <2> QED BY <2>3 DEF RefresherStates
<1>4. Alone(r, s) /\ Calm
  BY <1>2, <1>3 DEF Alone, Calm, create_finding_action, counters
<1>5. Asks(r, s, f)
  BY <1>1 DEF Asks, create_finding_action, IsActive
<1>6. FindingBase'
  BY <1>1, <1>4, AloneKeepsTypes DEF FindingBase, Calm, FindingTypes, FindingCounts
<1> QED BY <1>4, <1>5, <1>6

Rests(r, s) == s = Working

LEMMA RestShape ==
    ASSUME FindingBase, NEW r \in Refreshers, Refreshed(r) \/ Interrupted(r)
    PROVE  /\ \E s : Alone(r, s) /\ Rests(r, s)
           /\ deferrals' = deferrals /\ interruptions' \in Nat
           /\ refresher[r].pc # "idle"
           /\ \/ interruptions' = interruptions /\ refresher[r].pc = "ensuring" /\ refresher[r].todo = {} /\ refresher[r].doomed = {}
                 /\ refresher[r].new = {}
              \/ interruptions' # 0
           /\ FindingBase'
<1>1. interruptions' \in Nat /\ deferrals' = deferrals
  BY DEF FindingBase, FindingTypes, FindingCounts, Refreshed, Interrupted, counters
<1>2. refresher' = [refresher EXCEPT ![r] = Working]
  BY DEF Refreshed, Interrupted, Goes
<1>3. Working \in RefresherStates /\ Working.pc = "idle"
  BY WorkingState
<1>4. Alone(r, Working)
  BY <1>2, <1>3 DEF Alone, Refreshed, Interrupted, counters
<1>5. FindingBase'
  BY <1>1, <1>3, <1>4, AloneKeepsTypes DEF FindingBase, FindingTypes
<1>6. CASE Refreshed(r)
  BY <1>1, <1>4, <1>5, <1>6 DEF Refreshed, Rests, counters
<1>7. CASE Interrupted(r)
  <2>1. interruptions' # 0
    BY <1>7 DEF Interrupted, FindingBase, FindingTypes, FindingCounts
  <2>2. refresher[r].pc # "idle"
    BY <1>7 DEF Interrupted
  <2> QED BY <2>1, <2>2, <1>1, <1>4, <1>5 DEF Rests
<1> QED BY <1>6, <1>7

ProposedStatus(k) ==
    CASE Mode[k[1]] = "blocked" -> "blocked"
      [] Mode[k[1]] = "auto_approve" /\ k[3] = Simulated -> "approved"
      [] OTHER -> "needs_approval"

Proposes(r, s, k, a) ==
    LET old == refresher[r] IN
    /\ old.pc = "ensuring" /\ k \in old.new
    /\ Carries(old, s) /\ s.new = {}
    /\ s.doomed = IF k[3] = Simulated THEN {} ELSE Doomed(k[1]) \ {k}
    /\ a = [status |-> ProposedStatus(k), reason |-> action[k].reason, born |-> action[k].born, by |-> action[k].by]

LEMMA ProposedStatuses ==
    ASSUME NEW k
    PROVE  /\ ProposedStatus(k) \in {"blocked", "approved", "needs_approval"}
           /\ Mode[k[1]] # "blocked" => ProposedStatus(k) \in {"approved", "needs_approval"}
BY DEF ProposedStatus

LEMMA ProposeShape ==
    ASSUME FindingBase, NEW r \in Refreshers, propose_action(r)
    PROVE  (\E s, k, a : Rewrites(r, s, k, a) /\ Proposes(r, s, k, a)) /\ Calm /\ FindingBase'
<1>0. PICK old : old = refresher[r]
  OBVIOUS
<1>1. old \in RefresherStates /\ old.pc = "ensuring"
  BY <1>0 DEF FindingBase, FindingTypes, propose_action
<1>2. PICK k \in old.new :
         /\ action' = [action EXCEPT ![k].status = ProposedStatus(k)]
         /\ refresher' = [refresher EXCEPT ![r] = [old EXCEPT !.new = {}, !.doomed = IF k[3] = Simulated THEN {} ELSE Doomed(k[1]) \ {k}]]
  BY <1>0 DEF propose_action, Goes, ProposedStatus
<1>3. k \in IdempotencyKeys /\ Exists(k)
  <2>1. k \in IdempotencyKeys
    BY <1>1, <1>2, AtWork
  <2>2. Exists(k)
    BY <1>0, <1>1, <1>2 DEF FindingBase, Remembers
  <2> QED BY <2>1, <2>2
<1>4. action[k] \in GovernedAction /\ action[k] = [status |-> action[k].status, reason |-> action[k].reason, born |-> action[k].born, by |-> action[k].by]
  BY <1>3, ExistingAction DEF FindingBase
<1>5. PICK st : st = ProposedStatus(k)
  OBVIOUS
<1>6. st \in ActionStatuses
  BY <1>5, ProposedStatuses DEF ActionStatuses, CurrentStatuses, Undecided
<1>7. PICK a : a = [status |-> st, reason |-> action[k].reason, born |-> action[k].born, by |-> action[k].by]
  OBVIOUS
<1>8. a \in GovernedAction /\ a.born = action[k].born
  BY <1>4, <1>6, <1>7 DEF GovernedAction
<1>9. ActionBecomes(k, a)
  <2>1. action \in [IdempotencyKeys -> GovernedAction \cup {NoGoverned}]
    BY DEF FindingBase, FindingTypes
  <2>2. action'[k] = a
    BY <2>1, <1>2, <1>3, <1>4, <1>5, <1>7
  <2>3. /\ DOMAIN action' = IdempotencyKeys /\ action' = [l \in IdempotencyKeys |-> action'[l]]
        /\ \A l \in IdempotencyKeys : l # k => action'[l] = action[l]
    BY <2>1, <1>2, <1>3
  <2> QED BY <2>1, <2>2, <2>3, <1>3 DEF ActionBecomes
<1>10. PICK doomed : doomed = IF k[3] = Simulated THEN {} ELSE Doomed(k[1]) \ {k}
  OBVIOUS
<1>11. doomed \subseteq IdempotencyKeys /\ \A l \in doomed : Exists(l)
  BY <1>10, DoomedFacts DEF IsUndecided
<1>12. PICK s : s = [old EXCEPT !.new = {}, !.doomed = doomed]
  OBVIOUS
<1>13. s \in RefresherStates /\ Carries(old, s) /\ s.new = {} /\ s.doomed = doomed
    <3>1. old \in [pc : {"ensuring"}, view : Views, doomed : SUBSET IdempotencyKeys, planned : Nat, limit : Nat,
                   whole : BOOLEAN, new : SUBSET IdempotencyKeys, todo : SUBSET Findings, first : SUBSET Findings]
      BY <1>1, StateCases
    <3>2. s \in [pc : {"ensuring"}, view : Views, doomed : SUBSET IdempotencyKeys, planned : Nat, limit : Nat,
                   whole : BOOLEAN, new : SUBSET IdempotencyKeys, todo : SUBSET Findings, first : SUBSET Findings]
      BY <3>1, <1>11, <1>12
    <3>3. s.doomed = doomed /\ s.new = {} /\ Carries(old, s)
      BY <3>1, <1>12 DEF Carries
    <3> QED BY <3>2, <3>3 DEF RefresherStates
<1>14. Rewrites(r, s, k, a) /\ Calm
  BY <1>2, <1>3, <1>8, <1>9, <1>10, <1>12, <1>13 DEF Rewrites, Calm, propose_action, counters
<1>15. Proposes(r, s, k, a)
  BY <1>0, <1>1, <1>2, <1>5, <1>7, <1>10, <1>13 DEF Proposes
<1>16. /\ s.pc \in {"stale", "ensuring"} => \A l \in s.doomed : Exists(l)
       /\ s.pc = "ensuring" => \A l \in s.new : Exists(l)
  BY <1>11, <1>13
<1>17. FindingBase'
  BY <1>14, <1>16, RewritesKeepTypes DEF FindingBase, Calm, FindingTypes
<1> QED BY <1>14, <1>15, <1>17

Allowed(old, f) == f \notin Patchable \/ old.planned < old.limit
Outcome(old, f, outcome) ==
    /\ outcome \in {"budget", "declined", "ready"}
    /\ outcome = "budget" <=> ~Allowed(old, f)
    /\ outcome = "ready" => f \in Patchable /\ repository # Unmapped
Deferrals(f, outcome) ==
    deferrals' = [deferrals EXCEPT ![f] = IF outcome # "budget" THEN 0 ELSE IF @ < 2 THEN @ + 1 ELSE @]

Ensuring(r, s, f) ==
    LET old == refresher[r] IN
    /\ s \in RefresherStates /\ refresher' = [refresher EXCEPT ![r] = s]
    /\ old.pc = "ensuring" /\ old.doomed = {} /\ old.new = {} /\ f \in old.todo /\ f = NextFinding(old) /\ f \in Findings
    /\ s.pc = "ensuring" /\ s.view = old.view /\ s.limit = old.limit /\ s.whole = old.whole /\ s.first = old.first
    /\ s.todo = old.todo \ {f}
    /\ s.planned = IF f \in Patchable /\ Allowed(old, f) THEN old.planned + 1 ELSE old.planned

EnsuresReady(r, s, f) ==
    Ensuring(r, s, f) /\ Alone(r, s) /\ Ready(f) /\ s.doomed = {} /\ s.new = {} /\ deferrals' = deferrals

Plan(r, f, k, outcome) ==
    /\ ~Ready(f) /\ Outcome(refresher[r], f, outcome) /\ Deferrals(f, outcome)
    /\ k = KeyOf(f, refresher[r].view[f].regression_count, outcome) /\ k \in IdempotencyKeys
    /\ k[1] = f /\ k[2] = refresher[r].view[f].regression_count
    /\ k[3] = IF outcome = "ready" THEN repository ELSE Simulated

EnsuresNew(r, s, f, k, outcome) ==
    Ensuring(r, s, f) /\ Plan(r, f, k, outcome) /\ Creates(r, s, k, outcome) /\ s.doomed = {} /\ s.new = {k}

EnsuresPatch(r, s, f, k) ==
    Ensuring(r, s, f) /\ Plan(r, f, k, "ready") /\ Alone(r, s) /\ Exists(k) /\ s.doomed = Doomed(f) \ {k} /\ s.new = {}

EnsuresFallback(r, s, f, k, a, outcome) ==
    /\ Ensuring(r, s, f) /\ Plan(r, f, k, outcome) /\ outcome # "ready" /\ Rewrites(r, s, k, a) /\ s.doomed = {} /\ s.new = {}
    /\ a = [status |-> action[k].status, reason |-> IF action[k].status \in Undecided THEN outcome ELSE action[k].reason,
            born |-> action[k].born, by |-> action[k].by]

EnsureShapes(r) ==
    \/ \E s, f : EnsuresReady(r, s, f)
    \/ \E s, f, k, outcome : EnsuresNew(r, s, f, k, outcome)
    \/ \E s, f, k : EnsuresPatch(r, s, f, k)
    \/ \E s, f, k, a, outcome : EnsuresFallback(r, s, f, k, a, outcome)

LEMMA SimulatedIsNoRepository == Simulated # Unmapped /\ Simulated \notin Scopes /\ Unmapped \notin Scopes
BY DEF Simulated, Unmapped, Scopes

LEMMA DeferralsType ==
    ASSUME FindingTypes, NEW f \in Findings, NEW outcome, Deferrals(f, outcome)
    PROVE  /\ deferrals' \in [Findings -> Nat]
           /\ \A g \in Findings \ {f} : deferrals'[g] = deferrals[g]
           /\ outcome # "budget" => deferrals'[f] = 0
           /\ outcome = "budget" /\ deferrals[f] = 0 => deferrals'[f] = 1
BY DEF FindingTypes, Deferrals

LEMMA EnsureShape ==
    ASSUME FindingBase, NEW r \in Refreshers, ensure_action_for_finding(r)
    PROVE  EnsureShapes(r) /\ interruptions' = interruptions /\ FindingBase'
<1>0. PICK old : old = refresher[r]
  OBVIOUS
<1>1. old \in RefresherStates /\ old.pc = "ensuring" /\ old.doomed = {} /\ old.new = {} /\ old.todo # {}
  BY <1>0 DEF FindingBase, FindingTypes, ensure_action_for_finding
<1>2. old \in [pc : {"ensuring"}, view : Views, doomed : SUBSET IdempotencyKeys, planned : Nat, limit : Nat,
               whole : BOOLEAN, new : SUBSET IdempotencyKeys, todo : SUBSET Findings, first : SUBSET Findings]
  BY <1>1, StateCases
<1>3. PICK f : f = NextFinding(old)
  OBVIOUS
<1>4. f \in old.todo /\ f \in Findings
  BY <1>1, <1>2, <1>3, NextIs
<1>5. PICK next : next = [old EXCEPT !.todo = @ \ {f}, !.planned = IF f \in Patchable /\ (f \notin Patchable \/ old.planned < old.limit) THEN @ + 1 ELSE @]
  OBVIOUS
<1>6. interruptions' = interruptions /\ finding' = finding /\ repository' = repository /\ moves' = moves /\ decisions' = decisions
  BY DEF ensure_action_for_finding, counters
<1>7. old.planned + 1 \in Nat /\ old.planned \in Nat
  BY <1>2
<1>8. next \in [pc : {"ensuring"}, view : Views, doomed : SUBSET IdempotencyKeys, planned : Nat, limit : Nat,
               whole : BOOLEAN, new : SUBSET IdempotencyKeys, todo : SUBSET Findings, first : SUBSET Findings]
  BY <1>2, <1>5, <1>7
<1>9. /\ next.view = old.view /\ next.doomed = {} /\ next.new = {} /\ next.limit = old.limit /\ next.whole = old.whole /\ next.first = old.first
      /\ next.todo = old.todo \ {f} /\ next.planned = IF f \in Patchable /\ Allowed(old, f) THEN old.planned + 1 ELSE old.planned
  BY <1>1, <1>2, <1>5 DEF Allowed
<1>10. ASSUME NEW s, NEW doomed \in SUBSET IdempotencyKeys, NEW new \in SUBSET IdempotencyKeys,
              s = [next EXCEPT !.doomed = doomed, !.new = new], refresher' = [refresher EXCEPT ![r] = s]
       PROVE  Ensuring(r, s, f) /\ s.doomed = doomed /\ s.new = new
  <2>1. s \in [pc : {"ensuring"}, view : Views, doomed : SUBSET IdempotencyKeys, planned : Nat, limit : Nat,
               whole : BOOLEAN, new : SUBSET IdempotencyKeys, todo : SUBSET Findings, first : SUBSET Findings]
    BY <1>8, <1>10
  <2>2. s \in RefresherStates
    BY <2>1 DEF RefresherStates
  <2>3. /\ s.pc = "ensuring" /\ s.view = next.view /\ s.limit = next.limit /\ s.whole = next.whole /\ s.first = next.first
        /\ s.todo = next.todo /\ s.planned = next.planned /\ s.doomed = doomed /\ s.new = new
    BY <1>8, <1>10
  <2> QED BY <1>0, <1>1, <1>3, <1>4, <1>9, <1>10, <2>2, <2>3 DEF Ensuring
<1>11. next = [next EXCEPT !.doomed = {}, !.new = {}]
  BY <1>8, <1>9
<1>12. {} \in SUBSET IdempotencyKeys
  OBVIOUS
<1>13. CASE Ready(f)
  <2>1. refresher' = [refresher EXCEPT ![r] = next] /\ action' = action /\ deferrals' = deferrals /\ crossings' = crossings
    BY <1>0, <1>3, <1>5, <1>13 DEF ensure_action_for_finding, Goes
  <2>2. Ensuring(r, next, f)
    BY <1>10, <1>11, <1>12, <2>1
  <2>3. Alone(r, next)
    BY <2>1, <2>2, <1>6 DEF Alone, Ensuring
  <2>4. EnsuresReady(r, next, f)
    BY <2>1, <2>2, <2>3, <1>9, <1>13 DEF EnsuresReady
  <2>5. FindingBase'
    BY <2>1, <2>3, <1>6, <1>9, AloneKeepsTypes DEF FindingBase, FindingTypes, FindingCounts
  <2> QED BY <2>4, <2>5, <1>6 DEF EnsureShapes
<1>14. CASE ~Ready(f)
  <2>1. PICK outcome, k :
          /\ outcome \in PlanOutcomes(f, f \notin Patchable \/ old.planned < old.limit)
          /\ k = KeyOf(f, old.view[f].regression_count, outcome)
          /\ Deferrals(f, outcome)
          /\ IF action[k] = NoGoverned
             THEN /\ action' = [action EXCEPT ![k] = [status |-> "draft", reason |-> outcome, born |-> Cardinality(Existing(f)), by |-> "system"]]
                  /\ refresher' = [refresher EXCEPT ![r] = [next EXCEPT !.new = {k}]]
                  /\ Commits(Refreshers \ {r})
             ELSE IF outcome = "ready"
             THEN /\ refresher' = [refresher EXCEPT ![r] = [next EXCEPT !.doomed = Doomed(f) \ {k}]]
                  /\ UNCHANGED <<action, crossings>>
             ELSE /\ action' = [action EXCEPT ![k].reason = IF action[k].status \in Undecided THEN outcome ELSE @]
                  /\ refresher' = [refresher EXCEPT ![r] = next]
                  /\ Commits(Refreshers \ {r})
    <3>1. PICK outcome \in PlanOutcomes(f, f \notin Patchable \/ old.planned < old.limit) :
          /\ Deferrals(f, outcome)
          /\ IF action[KeyOf(f, old.view[f].regression_count, outcome)] = NoGoverned
             THEN /\ action' = [action EXCEPT ![KeyOf(f, old.view[f].regression_count, outcome)] = [status |-> "draft", reason |-> outcome, born |-> Cardinality(Existing(f)), by |-> "system"]]
                  /\ refresher' = [refresher EXCEPT ![r] = [next EXCEPT !.new = {KeyOf(f, old.view[f].regression_count, outcome)}]]
                  /\ Commits(Refreshers \ {r})
             ELSE IF outcome = "ready"
             THEN /\ refresher' = [refresher EXCEPT ![r] = [next EXCEPT !.doomed = Doomed(f) \ {KeyOf(f, old.view[f].regression_count, outcome)}]]
                  /\ UNCHANGED <<action, crossings>>
             ELSE /\ action' = [action EXCEPT ![KeyOf(f, old.view[f].regression_count, outcome)].reason =
                         IF action[KeyOf(f, old.view[f].regression_count, outcome)].status \in Undecided THEN outcome ELSE @]
                  /\ refresher' = [refresher EXCEPT ![r] = next]
                  /\ Commits(Refreshers \ {r})
      BY <1>0, <1>3, <1>5, <1>14, Zenon DEF ensure_action_for_finding, Goes, Deferrals
    <3> QED BY <3>1
  <2>2. Outcome(old, f, outcome)
    BY <2>1 DEF PlanOutcomes, Outcome, Allowed
  <2>3. k \in IdempotencyKeys /\ k[1] = f /\ k[2] = old.view[f].regression_count /\ k[3] = IF outcome = "ready" THEN repository ELSE Simulated
    <3>1. old.view[f] \in Issue
      BY <1>2, <1>4 DEF Views
    <3>2. old.view[f].regression_count \in Regressions
      BY <3>1, IssueFacts
    <3>3. PICK scope : scope = IF outcome = "ready" THEN repository ELSE Simulated
      OBVIOUS
    <3>4. scope \in Scopes \cup {Simulated}
      BY <2>2, <3>3 DEF Outcome, FindingBase, FindingTypes
    <3>5. k = <<f, old.view[f].regression_count, scope>>
      BY <2>1, <3>3 DEF KeyOf
    <3> QED BY <3>2, <3>3, <3>4, <3>5, <1>4 DEF IdempotencyKeys
  <2>4. Plan(r, f, k, outcome)
    BY <2>1, <2>2, <2>3, <1>0, <1>14 DEF Plan
  <2>5. deferrals' \in [Findings -> Nat]
    BY <2>1, <1>4, DeferralsType DEF FindingBase
  <2>6. CASE ~Exists(k)
    <3>1. PICK s : s = [next EXCEPT !.new = {k}]
      OBVIOUS
    <3>2. s = [next EXCEPT !.doomed = {}, !.new = {k}]
      BY <3>1, <1>8, <1>9
    <3>3. refresher' = [refresher EXCEPT ![r] = s] /\ Commits(Refreshers \ {r})
      BY <2>1, <2>6, <3>1 DEF Exists
    <3>4. Ensuring(r, s, f) /\ s.doomed = {} /\ s.new = {k}
      <4>1. PICK new : new = {k}
        OBVIOUS
      <4>2. new \in SUBSET IdempotencyKeys /\ s = [next EXCEPT !.doomed = {}, !.new = new]
        BY <4>1, <2>3, <3>2
      <4>3. Ensuring(r, s, f) /\ s.doomed = {} /\ s.new = new
        BY <4>2, <1>10, <1>12, <3>3
      <4> QED BY <4>1, <4>3
    <3>5. ActionBecomes(k, DraftOf(k, outcome))
      BY <2>1, <2>3, <2>6 DEF ActionBecomes, DraftOf, Exists
    <3>6. Creates(r, s, k, outcome)
      BY <1>6, <2>2, <2>3, <2>6, <3>3, <3>4, <3>5 DEF Creates, Ensuring, Outcome
    <3>7. EnsuresNew(r, s, f, k, outcome)
      BY <2>4, <3>4, <3>6 DEF EnsuresNew
    <3>8. FindingBase'
      BY <2>5, <3>4, <3>6, CreatesKeepTypes DEF FindingBase, Ensuring
    <3> QED BY <3>7, <3>8, <1>6 DEF EnsureShapes
  <2>7. CASE Exists(k) /\ outcome = "ready"
    <3>1. PICK doomed : doomed = Doomed(f) \ {k}
      OBVIOUS
    <3>2. doomed \in SUBSET IdempotencyKeys /\ \A l \in doomed : Exists(l)
      BY <3>1, DoomedFacts DEF IsUndecided
    <3>3. PICK s : s = [next EXCEPT !.doomed = doomed]
      OBVIOUS
    <3>4. s = [next EXCEPT !.doomed = doomed, !.new = {}]
      BY <3>3, <1>8, <1>9
    <3>5. refresher' = [refresher EXCEPT ![r] = s] /\ action' = action /\ crossings' = crossings
      BY <2>1, <2>7, <3>1, <3>3 DEF Exists
    <3>6. Ensuring(r, s, f) /\ s.doomed = doomed /\ s.new = {}
      BY <1>10, <1>12, <3>2, <3>4, <3>5
    <3>7. Alone(r, s)
      BY <3>5, <3>6, <1>6 DEF Alone, Ensuring
    <3>8. EnsuresPatch(r, s, f, k)
      BY <2>4, <2>7, <3>1, <3>6, <3>7 DEF EnsuresPatch
    <3>9. FindingBase'
      BY <2>5, <3>2, <3>6, <3>7, <1>6, AloneKeepsTypes DEF FindingBase, FindingTypes, FindingCounts
    <3> QED BY <3>8, <3>9, <1>6 DEF EnsureShapes
  <2>8. CASE Exists(k) /\ outcome # "ready"
    <3>1. /\ action[k] \in GovernedAction
          /\ action[k] = [status |-> action[k].status, reason |-> action[k].reason, born |-> action[k].born, by |-> action[k].by]
      BY <2>3, <2>8, ExistingAction DEF FindingBase
    <3>2. PICK reason : reason = IF action[k].status \in Undecided THEN outcome ELSE action[k].reason
      OBVIOUS
    <3>3. PICK a : a = [status |-> action[k].status, reason |-> reason, born |-> action[k].born, by |-> action[k].by]
      OBVIOUS
    <3>4. reason \in {"budget", "declined", "ready"}
      BY <2>2, <3>1, <3>2 DEF Outcome, GovernedAction
    <3>5. a \in GovernedAction /\ a.born = action[k].born
      BY <3>1, <3>3, <3>4 DEF GovernedAction
    <3>6. action' = [action EXCEPT ![k].reason = reason] /\ refresher' = [refresher EXCEPT ![r] = next] /\ Commits(Refreshers \ {r})
      <4>1. action' = [action EXCEPT ![k].reason = IF action[k].status \in Undecided THEN outcome ELSE @]
        BY <2>1, <2>8 DEF Exists
      <4> QED BY <4>1, <2>1, <2>8, <3>2 DEF Exists
    <3>7. ActionBecomes(k, a)
      <4>1. action \in [IdempotencyKeys -> GovernedAction \cup {NoGoverned}]
        BY DEF FindingBase, FindingTypes
      <4>2. action'[k] = a
        BY <4>1, <2>3, <3>1, <3>3, <3>6
      <4>3. /\ DOMAIN action' = IdempotencyKeys /\ action' = [l \in IdempotencyKeys |-> action'[l]]
            /\ \A l \in IdempotencyKeys : l # k => action'[l] = action[l]
        BY <4>1, <3>6, <2>3
      <4> QED BY <4>1, <4>2, <4>3, <2>3 DEF ActionBecomes
    <3>8. Ensuring(r, next, f)
      BY <1>10, <1>11, <1>12, <3>6
    <3>9. Rewrites(r, next, k, a)
      BY <1>6, <2>3, <2>8, <3>5, <3>6, <3>7, <3>8 DEF Rewrites, Ensuring
    <3>10. EnsuresFallback(r, next, f, k, a, outcome)
      BY <2>4, <2>8, <3>2, <3>3, <3>8, <3>9, <1>9 DEF EnsuresFallback
    <3>11. FindingBase'
      BY <2>5, <3>9, <1>9, RewritesKeepTypes DEF FindingBase
    <3> QED BY <3>10, <3>11, <1>6 DEF EnsureShapes
  <2> QED BY <2>6, <2>7, <2>8
<1> QED BY <1>13, <1>14

\* The findings are committed, and a user comes between.
Written(f, old) ==
    [status |-> IF old.new[f].status # old.read[f].status THEN old.new[f].status ELSE finding[f].status,
     regression_count |-> IF old.new[f].regression_count # old.read[f].regression_count
                          THEN old.new[f].regression_count ELSE finding[f].regression_count,
     touched |-> finding[f].touched]

WritesFindings(r, s) ==
    LET old == refresher[r] IN
    /\ s \in RefresherStates /\ refresher' = [refresher EXCEPT ![r] = s]
    /\ old.pc = "reconciling"
    /\ s.pc = "stale" /\ s.view = old.new /\ s.doomed = {}
    /\ s.gone = {f \in Findings : old.new[f].status = "resolved" /\ old.read[f].status # "resolved"}
    /\ finding' = [f \in Findings |-> Written(f, old)]
    /\ deferrals' = [f \in Findings |-> IF old.new[f].status = "resolved" THEN 0 ELSE deferrals[f]]
    /\ Commits(Refreshers \ {r})
    /\ action' = action /\ repository' = repository
    /\ moves' = moves /\ decisions' = decisions /\ interruptions' = interruptions

LEMMA CommitShape ==
    ASSUME FindingBase, NEW r \in Refreshers, CommitFindings(r)
    PROVE  (\E s : WritesFindings(r, s)) /\ FindingBase'
<1>0. PICK old : old = refresher[r]
  OBVIOUS
<1>1. old \in RefresherStates /\ old.pc = "reconciling"
  BY <1>0 DEF FindingBase, FindingTypes, CommitFindings
<1>2. old.read \in Views /\ old.new \in Views
  BY <1>1, AtWork
<1>3. PICK gone : gone = {f \in Findings : old.new[f].status = "resolved" /\ old.read[f].status # "resolved"}
  OBVIOUS
<1>4. PICK s : s = [pc |-> "stale", view |-> old.new, doomed |-> {}, gone |-> gone]
  OBVIOUS
<1>5. s \in RefresherStates
  <2>1. gone \subseteq Findings
    BY <1>3
  <2>2. s \in [pc : {"stale"}, view : Views, doomed : SUBSET IdempotencyKeys, gone : SUBSET Findings]
    BY <1>2, <1>4, <2>1
  <2> QED BY <2>2 DEF RefresherStates
<1>6. refresher' = [refresher EXCEPT ![r] = s]
  BY <1>0, <1>3, <1>4 DEF CommitFindings, Goes
<1>7. ASSUME NEW f \in Findings
      PROVE  /\ finding'[f] = Written(f, old) /\ Written(f, old) \in Issue
  <2>1. finding[f] \in Issue /\ old.new[f] \in Issue
    BY <1>2 DEF FindingBase, FindingTypes, Views
  <2>2. /\ finding[f] = [status |-> finding[f].status, regression_count |-> finding[f].regression_count, touched |-> finding[f].touched]
        /\ finding[f].status \in {"open", "regressed", "absent", "resolved", "dismissed"}
        /\ finding[f].regression_count \in Regressions /\ finding[f].touched \in BOOLEAN
    BY <2>1, IssueFacts
  <2>3. old.new[f].status \in {"open", "regressed", "absent", "resolved", "dismissed"} /\ old.new[f].regression_count \in Regressions
    BY <2>1, IssueFacts
  <2>4. PICK st : st = IF old.new[f].status # old.read[f].status THEN old.new[f].status ELSE finding[f].status
    OBVIOUS
  <2>5. PICK rc : rc = IF old.new[f].regression_count # old.read[f].regression_count
                       THEN old.new[f].regression_count ELSE finding[f].regression_count
    OBVIOUS
  <2>6. finding'[f] = [finding[f] EXCEPT !.status = st, !.regression_count = rc]
    BY <1>0, <2>4, <2>5 DEF CommitFindings
  <2>7. PICK t : t = finding[f].touched
    OBVIOUS
  <2>8. Written(f, old) = [status |-> st, regression_count |-> rc, touched |-> t]
    BY <2>4, <2>5, <2>7 DEF Written
  <2>9. finding'[f] = [status |-> st, regression_count |-> rc, touched |-> t]
    BY <2>2, <2>6, <2>7
  <2>10. st \in {"open", "regressed", "absent", "resolved", "dismissed"} /\ rc \in Regressions /\ t \in BOOLEAN
    BY <2>2, <2>3, <2>4, <2>5, <2>7
  <2>11. [status |-> st, regression_count |-> rc, touched |-> t] \in Issue
    BY <2>10 DEF Issue, ActiveFindingStatuses
  <2> QED BY <2>8, <2>9, <2>11
<1>8. finding' = [f \in Findings |-> Written(f, old)]
  <2>1. finding' = [f \in Findings |-> finding'[f]]
    BY DEF CommitFindings
  <2> QED BY <2>1, <1>7
<1>9. deferrals' = [f \in Findings |-> IF old.new[f].status = "resolved" THEN 0 ELSE deferrals[f]]
  BY <1>0 DEF CommitFindings
<1>10. WritesFindings(r, s)
  BY <1>0, <1>1, <1>3, <1>4, <1>5, <1>6, <1>8, <1>9 DEF WritesFindings, CommitFindings, counters
<1>11. refresher' \in [Refreshers -> RefresherStates] /\ refresher'[r] = s /\ \A q \in Refreshers \ {r} : refresher'[q] = refresher[q]
  BY <1>5, <1>6, RefresherGoes DEF FindingBase
<1>12. crossings' \in 0..MaxCrossings
  BY CommitsFacts DEF FindingBase, CommitFindings
<1>13. finding' \in [Findings -> Issue]
  BY <1>7, <1>8
<1>14. deferrals' \in [Findings -> Nat]
  BY <1>9 DEF FindingBase, FindingTypes
<1>15. FindingTypes'
  BY <1>11, <1>12, <1>13, <1>14 DEF FindingBase, FindingTypes, FindingCounts, CommitFindings, counters
<1>16. action' = action
  BY DEF CommitFindings
<1>17. Rows'
  BY <1>16 DEF FindingBase, Rows, Existing, Of
<1>18. ASSUME NEW q \in Refreshers PROVE Remembers(q)'
  <2>1. CASE q = r
    BY <2>1, <1>4, <1>11 DEF Remembers
  <2>2. CASE q # r
    BY <2>2, <1>11, <1>16 DEF FindingBase, Remembers, Exists
  <2> QED BY <2>1, <2>2
<1> QED BY <1>10, <1>15, <1>17, <1>18 DEF FindingBase

LEMMA MoveShape ==
    ASSUME FindingBase, RepositoryMoves
    PROVE  /\ FindingBase' /\ moves' = moves + 1 /\ moves \in Nat /\ repository' # repository
           /\ UNCHANGED <<finding, action, refresher, deferrals, crossings, decisions, interruptions>>
<1>1. FindingTypes'
  BY DEF RepositoryMoves, FindingBase, FindingTypes, FindingCounts
<1>2. Rows' /\ \A q \in Refreshers : Remembers(q)'
  BY DEF RepositoryMoves, FindingBase, Rows, Existing, Of, Remembers, Exists
<1> QED BY <1>1, <1>2 DEF RepositoryMoves, FindingBase, FindingTypes, FindingCounts

UserSets(f, status) ==
    /\ f \in Findings /\ status \in {"open", "regressed", "resolved", "dismissed"}
    /\ finding[f].status # "absent"
    /\ finding' \in [Findings -> Issue]
    /\ finding'[f].touched /\ finding'[f].status = status /\ finding'[f].regression_count = finding[f].regression_count
    /\ \A g \in Findings : g # f => finding'[g] = finding[g]
    /\ action' = action

UserRewrites(k, a) ==
    /\ k \in IdempotencyKeys /\ Exists(k) /\ a \in GovernedAction /\ ActionBecomes(k, a) /\ ActionIs(k, a)
    /\ a.born = action[k].born /\ a.reason = action[k].reason /\ a.by = "user"
    /\ action[k].status \in Undecided \cup {"executing"} /\ (a.status \in Undecided => action[k].status \in Undecided)
    /\ finding' = finding

Between ==
    /\ Commits(Refreshers) /\ decisions' = decisions + 1 /\ decisions' # 0
    /\ repository' = repository /\ refresher' = refresher /\ deferrals' = deferrals /\ moves' = moves /\ interruptions' = interruptions

LEMMA BetweenFacts ==
    ASSUME FindingBase, Decides
    PROVE  Between /\ decisions' \in Nat /\ crossings' \in 0..MaxCrossings
<1>1. crossings' \in 0..MaxCrossings
  BY CommitsFacts DEF FindingBase, Decides
<1> QED BY <1>1 DEF FindingBase, FindingTypes, FindingCounts, Decides, Between

LEMMA UserSetsShape ==
    ASSUME FindingBase, NEW f \in Findings, NEW status \in {"open", "regressed", "resolved", "dismissed"}, update_finding_status(f, status)
    PROVE  UserSets(f, status) /\ Between /\ FindingBase'
<1>1. Between /\ decisions' \in Nat /\ crossings' \in 0..MaxCrossings
  BY BetweenFacts DEF update_finding_status
<1>2. finding \in [Findings -> Issue]
  BY DEF FindingBase, FindingTypes
<1>3. /\ finding[f] = [status |-> finding[f].status, regression_count |-> finding[f].regression_count, touched |-> finding[f].touched]
      /\ finding[f].regression_count \in Regressions
  BY <1>2, IssueFacts
<1>4. PICK yes \in BOOLEAN : yes = TRUE
  OBVIOUS
<1>5. finding' = [finding EXCEPT ![f].status = status, ![f].touched = yes]
  BY <1>4 DEF update_finding_status
<1>6. PICK i : i = [status |-> status, regression_count |-> finding[f].regression_count, touched |-> yes]
  OBVIOUS
<1>7. i \in Issue
  BY <1>3, <1>4, <1>6 DEF Issue, ActiveFindingStatuses
<1>8. finding'[f] = i /\ DOMAIN finding' = Findings /\ finding' = [g \in Findings |-> finding'[g]]
  BY <1>2, <1>3, <1>5, <1>6
<1>9. \A g \in Findings : g # f => finding'[g] = finding[g]
  BY <1>2, <1>5
<1>10. finding' \in [Findings -> Issue]
  BY <1>2, <1>7, <1>8, <1>9
<1>11. UserSets(f, status)
  BY <1>4, <1>6, <1>8, <1>9, <1>10 DEF UserSets, update_finding_status
<1>12. FindingTypes'
  BY <1>1, <1>10, <1>11 DEF Between, UserSets, FindingBase, FindingTypes, FindingCounts
<1>13. Rows' /\ \A q \in Refreshers : Remembers(q)'
  BY <1>1, <1>11 DEF Between, UserSets, FindingBase, Rows, Existing, Of, Remembers, Exists
<1> QED BY <1>1, <1>11, <1>12, <1>13 DEF FindingBase

LEMMA UserRewritesShape ==
    ASSUME FindingBase, NEW k \in IdempotencyKeys, UserMoves(k)
    PROVE  (\E a : UserRewrites(k, a)) /\ Between /\ FindingBase'
<1>1. Between /\ decisions' \in Nat /\ crossings' \in 0..MaxCrossings
  BY BetweenFacts DEF UserMoves
<1>2. Exists(k)
  BY DEF UserMoves, Exists
<1>3. action[k] \in GovernedAction /\ action[k] = [status |-> action[k].status, reason |-> action[k].reason, born |-> action[k].born, by |-> action[k].by]
  BY <1>2, ExistingAction DEF FindingBase
<1>4. PICK status \in {"needs_approval", "cancelled", "approved", "rejected", "executing", "succeeded", "failed"} :
         /\ action' = [action EXCEPT ![k].status = status, ![k].by = "user"]
         /\ status \in Undecided => action[k].status \in Undecided
  BY DEF UserMoves, Undecided
<1>5. action[k].status \in Undecided \cup {"executing"}
  BY DEF UserMoves, Undecided
<1>6. PICK a : a = [status |-> status, reason |-> action[k].reason, born |-> action[k].born, by |-> "user"]
  OBVIOUS
<1>7. a \in GovernedAction /\ a.born = action[k].born
  BY <1>3, <1>6 DEF GovernedAction, ActionStatuses, CurrentStatuses, Undecided
<1>8. ActionBecomes(k, a)
  <2>1. action \in [IdempotencyKeys -> GovernedAction \cup {NoGoverned}]
    BY DEF FindingBase, FindingTypes
  <2>2. action'[k] = a
    BY <2>1, <1>3, <1>4, <1>6
  <2>3. /\ DOMAIN action' = IdempotencyKeys /\ action' = [l \in IdempotencyKeys |-> action'[l]]
        /\ \A l \in IdempotencyKeys : l # k => action'[l] = action[l]
    BY <2>1, <1>4
  <2> QED BY <2>1, <2>2, <2>3 DEF ActionBecomes
<1>9. ActionIs(k, a)
  BY <1>2, <1>7, <1>8, ActionRewritten DEF FindingBase
<1>10. UserRewrites(k, a)
  BY <1>2, <1>4, <1>5, <1>6, <1>7, <1>8, <1>9 DEF UserRewrites, UserMoves
<1>11. FindingTypes'
  BY <1>1, <1>9, <1>10 DEF Between, UserRewrites, ActionIs, FindingBase, FindingTypes, FindingCounts
<1>12. Rows'
  BY <1>9, RowsKept DEF ActionIs, FindingBase
<1>13. \A q \in Refreshers : refresher[q] \in RefresherStates
  BY DEF FindingBase, FindingTypes
<1>14. \A l \in IdempotencyKeys : Exists(l) => Exists(l)'
  BY <1>9 DEF ActionIs
<1>15. ASSUME NEW q \in Refreshers PROVE Remembers(q)'
  <2>1. PICK t : t = refresher[q]
    OBVIOUS
  <2>2. refresher'[q] = t /\ t \in RefresherStates
    BY <2>1, <1>1, <1>13 DEF Between
  <2>3. t.pc \in {"stale", "ensuring"} => t.doomed \subseteq IdempotencyKeys
    BY <2>2, AtWork
  <2>4. t.pc = "ensuring" => t.new \subseteq IdempotencyKeys
    BY <2>2, AtWork
  <2> QED BY <1>14, <2>1, <2>2, <2>3, <2>4 DEF FindingBase, Remembers
<1> QED BY <1>1, <1>10, <1>11, <1>12, <1>15 DEF FindingBase
-----------------------------------------------------------------------------
\* What crosses nothing sees what is.

LEMMA SightKept ==
    ASSUME NEW s, Sight(s), finding' = finding, action' = action
    PROVE  Sight(s)'
BY DEF Sight, SeesFindings, SeesStale, SeesActive, IsUndecided, Exists, IsActive, Present

LEMMA SightAtRest ==
    ASSUME NEW s, s.pc = "idle"
    PROVE  Sight(s) /\ Sight(s)'
BY DEF Sight, SeesFindings, SeesStale, SeesActive

LEMMA SightOf ==
    ASSUME NEW q, NEW s, refresher'[q] = s, Sight(s)'
    PROVE  Sight(refresher[q])'
BY DEF Sight, SeesFindings, SeesStale, SeesActive, IsUndecided, Exists, IsActive, Present

LEMMA HistoriesKept ==
    ASSUME FindingTypes, Histories, finding' = finding,
           \A k \in IdempotencyKeys : Exists(k)' => Exists(k) \/ (finding[k[1]].status # "absent" /\ k[2] <= finding[k[1]].regression_count)
    PROVE  Histories'
<1>1. ASSUME NEW f \in Findings, finding[f].status = "absent" PROVE finding'[f] = Unseen /\ Existing(f)' = {}
  <2>1. finding[f] = Unseen /\ Existing(f) = {}
    BY <1>1 DEF Histories
  <2>2. \A k \in IdempotencyKeys : k[1] = f => ~Exists(k)
    BY <2>1 DEF Existing, Of, Exists
  <2>3. \A k \in IdempotencyKeys : k[1] = f => ~Exists(k)'
    BY <1>1, <2>2
  <2> QED BY <2>1, <2>3 DEF Existing, Of, Exists
<1>2. ASSUME NEW k \in IdempotencyKeys, Exists(k)' PROVE k[2] <= finding'[k[1]].regression_count
  BY <1>2 DEF Histories
<1> QED BY <1>1, <1>2 DEF Histories

LEMMA AloneSees ==
    ASSUME FindingBase, Uncrossed, NEW r \in Refreshers, NEW s, Alone(r, s), crossings = 0 => Sight(s)
    PROVE  Uncrossed'
<1>1. SUFFICES ASSUME crossings' = 0 PROVE Histories' /\ \A q \in Refreshers : Sight(refresher[q])'
  BY DEF Uncrossed
<1>2. crossings = 0 /\ finding' = finding /\ action' = action /\ s \in RefresherStates /\ refresher' = [refresher EXCEPT ![r] = s]
  BY <1>1 DEF Alone
<1>3. Histories'
  BY <1>2, HistoriesKept DEF Uncrossed, FindingBase, Exists
<1>4. ASSUME NEW q \in Refreshers PROVE Sight(refresher[q])'
  <2>1. PICK t : t = refresher'[q]
    OBVIOUS
  <2>2. Sight(t)
    <3>1. CASE q = r
      BY <3>1, <2>1, <1>2, RefresherGoes DEF FindingBase
    <3>2. CASE q # r
      <4>1. t = refresher[q]
        BY <3>2, <2>1, <1>2, RefresherGoes DEF FindingBase
      <4> QED BY <4>1, <1>2 DEF Uncrossed
    <3> QED BY <3>1, <3>2
  <2>3. Sight(t)'
    BY <2>2, <1>2, SightKept
  <2> QED BY <2>1, <2>3, SightOf
<1> QED BY <1>3, <1>4

\* A commit that crosses nothing is the only one at work.
LEMMA CommitterSees ==
    ASSUME FindingBase, Uncrossed, NEW r \in Refreshers, NEW s \in RefresherStates, refresher' = [refresher EXCEPT ![r] = s],
           Commits(Refreshers \ {r}), crossings' = 0 => Histories' /\ Sight(s)'
    PROVE  Uncrossed'
<1>1. SUFFICES ASSUME crossings' = 0 PROVE \A q \in Refreshers : Sight(refresher[q])'
  BY DEF Uncrossed
<1>2. OthersIdle(Refreshers \ {r})
  BY <1>1, CommitsFacts DEF FindingBase
<1>3. ASSUME NEW q \in Refreshers PROVE Sight(refresher[q])'
  <2>1. PICK t : t = refresher'[q]
    OBVIOUS
  <2>2. Sight(t)'
    <3>1. CASE q = r
      BY <3>1, <2>1, <1>1, RefresherGoes DEF FindingBase
    <3>2. CASE q # r
      <4>1. t = refresher[q]
        BY <3>2, <2>1, RefresherGoes DEF FindingBase
      <4>2. t.pc = "idle"
        BY <4>1, <3>2, <1>2 DEF OthersIdle
      <4> QED BY <4>2, SightAtRest
    <3> QED BY <3>1, <3>2
  <2> QED BY <2>1, <2>2, SightOf
<1> QED BY <1>3

LEMMA RefresherSees ==
    ASSUME Uncrossed, crossings = 0, NEW r \in Refreshers
    PROVE  Sight(refresher[r]) /\ Histories
BY DEF Uncrossed

LEMMA ReadSees ==
    ASSUME FindingBase, Uncrossed, NEW r \in Refreshers, NEW s, Alone(r, s), Reads(r, s)
    PROVE  Uncrossed'
<1>1. Sight(s)
  BY DEF Reads, Sight, SeesFindings, SeesStale, SeesActive
<1> QED BY <1>1, AloneSees

LEMMA StaleSees ==
    ASSUME FindingBase, Uncrossed, NEW r \in Refreshers, NEW s, Alone(r, s), StaleTurns(r, s)
    PROVE  Uncrossed'
<1>1. ASSUME crossings = 0 PROVE Sight(s)
  <2>1. PICK old : old = refresher[r]
    OBVIOUS
  <2>2. SeesStale(old) /\ old.pc = "stale"
    BY <2>1, <1>1, RefresherSees DEF Sight, StaleTurns
  <2>3. PICK f \in old.gone : s.pc = "stale" /\ s.view = old.view /\ s.gone = old.gone \ {f} /\ s.doomed = Doomed(f)
    BY <2>1 DEF StaleTurns
  <2>4. \A k \in s.doomed : k[1] = f /\ IsUndecided(k)
    BY <2>3, DoomedFacts
  <2> QED BY <2>2, <2>3, <2>4 DEF Sight, SeesFindings, SeesStale, SeesActive
<1> QED BY <1>1, AloneSees

LEMMA CollectSees ==
    ASSUME FindingBase, Uncrossed, NEW r \in Refreshers, NEW s, Alone(r, s), Collects(r, s)
    PROVE  Uncrossed'
<1>1. ASSUME crossings = 0 PROVE Sight(s)
  <2>1. SeesStale(refresher[r])
    BY <1>1, RefresherSees DEF Sight
  <2> QED BY <2>1 DEF Sight, SeesFindings, SeesStale, SeesActive, Collects
<1> QED BY <1>1, AloneSees

LEMMA AskSees ==
    ASSUME FindingBase, Uncrossed, NEW r \in Refreshers, NEW f, NEW s, Alone(r, s), Asks(r, s, f)
    PROVE  Uncrossed'
<1>1. Sight(s)
  BY DEF Sight, SeesFindings, SeesStale, SeesActive, Asks
<1> QED BY <1>1, AloneSees

LEMMA RestSees ==
    ASSUME FindingBase, Uncrossed, NEW r \in Refreshers, NEW s, Alone(r, s), Rests(r, s)
    PROVE  Uncrossed'
<1>1. Sight(s)
  BY WorkingState, SightAtRest DEF Rests
<1> QED BY <1>1, AloneSees

LEMMA EnsuringActive ==
    ASSUME FindingBase, Uncrossed, crossings = 0, NEW r \in Refreshers, NEW s, NEW f, Ensuring(r, s, f)
    PROVE  /\ s.view = finding /\ (\A g \in s.todo : IsActive(g)) /\ s.pc = "ensuring"
           /\ refresher[r].view = finding /\ IsActive(f) /\ (\A g \in refresher[r].todo : IsActive(g))
<1>1. SeesActive(refresher[r])
  BY RefresherSees DEF Sight
<1> QED BY <1>1 DEF SeesActive, Ensuring

LEMMA EnsureReadySees ==
    ASSUME FindingBase, Uncrossed, NEW r \in Refreshers, NEW s, NEW f, EnsuresReady(r, s, f)
    PROVE  Uncrossed'
<1>1. ASSUME crossings = 0 PROVE Sight(s)
  BY <1>1, EnsuringActive DEF Sight, SeesFindings, SeesStale, SeesActive, EnsuresReady
<1> QED BY <1>1, AloneSees DEF EnsuresReady

LEMMA EnsurePatchSees ==
    ASSUME FindingBase, Uncrossed, NEW r \in Refreshers, NEW s, NEW f, NEW k, EnsuresPatch(r, s, f, k)
    PROVE  Uncrossed'
<1>1. ASSUME crossings = 0 PROVE Sight(s)
  <2>1. \A l \in s.doomed : IsUndecided(l)
    BY DoomedFacts DEF EnsuresPatch
  <2> QED BY <1>1, <2>1, EnsuringActive DEF Sight, SeesFindings, SeesStale, SeesActive, EnsuresPatch
<1> QED BY <1>1, AloneSees DEF EnsuresPatch

LEMMA EnsureFallbackSees ==
    ASSUME FindingBase, Uncrossed, NEW r \in Refreshers, NEW s, NEW f, NEW k, NEW a, NEW outcome, EnsuresFallback(r, s, f, k, a, outcome)
    PROVE  Uncrossed'
<1>1. Rewrites(r, s, k, a)
  BY DEF EnsuresFallback
<1>2. ActionIs(k, a) /\ finding' = finding
  BY <1>1, ActionRewritten DEF Rewrites, FindingBase
<1>3. ASSUME crossings' = 0 PROVE Histories' /\ Sight(s)'
  <2>1. crossings = 0
    BY <1>1, <1>3, CommitsFacts DEF Rewrites, FindingBase
  <2>2. Histories'
    BY <2>1, <1>2, HistoriesKept DEF Uncrossed, FindingBase, ActionIs
  <2>3. Sight(s)'
    BY <2>1, <1>2, EnsuringActive DEF Sight, SeesFindings, SeesStale, SeesActive, EnsuresFallback, IsActive
  <2> QED BY <2>2, <2>3
<1> QED BY <1>1, <1>3, CommitterSees DEF Rewrites

LEMMA EnsureNewSees ==
    ASSUME FindingBase, Uncrossed, NEW r \in Refreshers, NEW s, NEW f, NEW k, NEW outcome, EnsuresNew(r, s, f, k, outcome)
    PROVE  Uncrossed'
<1>1. Creates(r, s, k, outcome) /\ Ensuring(r, s, f) /\ Plan(r, f, k, outcome) /\ s.doomed = {} /\ s.new = {k}
  BY DEF EnsuresNew
<1>2. PICK a : a = DraftOf(k, outcome)
  OBVIOUS
<1>3. Created(k, a) /\ finding' = finding /\ k \in IdempotencyKeys
  BY <1>1, <1>2, ActionCreated DEF Creates, FindingBase
<1>4. a.status = "draft"
  BY <1>2 DEF DraftOf
<1>5. ASSUME crossings' = 0 PROVE Histories' /\ Sight(s)'
  <2>1. crossings = 0
    BY <1>1, <1>5, CommitsFacts DEF Creates, FindingBase
  <2>2. refresher[r].view = finding /\ IsActive(f) /\ s.view = finding /\ (\A g \in s.todo : IsActive(g)) /\ s.pc = "ensuring"
    BY <1>1, <2>1, EnsuringActive
  <2>3. k[1] = f /\ k[2] = finding[f].regression_count
    BY <1>1, <2>2 DEF Plan
  <2>4. k[2] \in Nat /\ finding[f].status # "absent"
    BY <1>3, <2>2, KeyParts, RegressionCounts DEF IsActive, ActiveFindingStatuses
  <2>5. Histories'
    BY <1>3, <2>1, <2>3, <2>4, HistoriesKept DEF Uncrossed, FindingBase, Created
  <2>6. Exists(k)' /\ action'[k].status = "draft" /\ IsActive(k[1])' /\ Present(k)'
    BY <1>3, <1>4, <2>2, <2>3 DEF Created, IsActive, Present
  <2>7. Sight(s)'
    BY <1>1, <1>3, <2>2, <2>6 DEF Sight, SeesFindings, SeesStale, SeesActive, IsActive
  <2> QED BY <2>5, <2>7
<1> QED BY <1>1, <1>5, CommitterSees DEF Creates

LEMMA CancelSees ==
    ASSUME FindingBase, Uncrossed, NEW r \in Refreshers, NEW s, NEW k, NEW a, Rewrites(r, s, k, a), Cancels(r, s, k, a)
    PROVE  Uncrossed'
<1>1. ActionIs(k, a) /\ finding' = finding /\ k \in IdempotencyKeys /\ s \in RefresherStates
  BY ActionRewritten DEF Rewrites, FindingBase
<1>2. ASSUME crossings' = 0 PROVE Histories' /\ Sight(s)'
  <2>1. crossings = 0
    BY <1>2, CommitsFacts DEF Rewrites, FindingBase
  <2>2. Histories'
    BY <2>1, <1>1, HistoriesKept DEF Uncrossed, FindingBase, ActionIs
  <2>3. PICK old : old = refresher[r]
    OBVIOUS
  <2>4. SeesStale(old) /\ SeesActive(old) /\ old.pc \in {"stale", "ensuring"} /\ k \in old.doomed
    BY <2>1, <2>3, RefresherSees DEF Sight, Cancels
  <2>5. Carries(old, s) /\ s.doomed = old.doomed \ {k} /\ (s.pc = "ensuring" => s.new = old.new)
    BY <2>3 DEF Cancels
  <2>6. s.doomed \subseteq IdempotencyKeys
    BY <1>1, <2>4, <2>5, AtWork DEF Carries
  <2>7. \A l \in s.doomed : IsUndecided(l) /\ IsUndecided(l)'
    <3>1. \A l \in s.doomed : IsUndecided(l) /\ l # k
      BY <2>4, <2>5 DEF SeesStale, SeesActive
    <3> QED BY <3>1, <2>6, <1>1 DEF IsUndecided, Exists, ActionIs
  <2>8. s.pc = "stale" => SeesStale(s)'
    BY <2>4, <2>5, <2>7, <1>1 DEF SeesStale, Carries
  <2>9. s.pc = "ensuring" => SeesActive(s)'
    <3>1. s.pc = "ensuring" => old.new = {}
      BY <2>4, <2>5 DEF SeesActive, Carries
    <3> QED BY <3>1, <2>4, <2>5, <2>7, <1>1 DEF SeesActive, Carries, IsActive
  <2>10. Sight(s)'
    BY <2>4, <2>5, <2>8, <2>9 DEF Sight, SeesFindings, SeesStale, SeesActive, Carries
  <2> QED BY <2>2, <2>10
<1> QED BY <1>1, <1>2, CommitterSees DEF Rewrites

LEMMA ProposeSees ==
    ASSUME FindingBase, Uncrossed, NEW r \in Refreshers, NEW s, NEW k, NEW a, Rewrites(r, s, k, a), Proposes(r, s, k, a)
    PROVE  Uncrossed'
<1>1. ActionIs(k, a) /\ finding' = finding /\ k \in IdempotencyKeys /\ s \in RefresherStates
  BY ActionRewritten DEF Rewrites, FindingBase
<1>2. ASSUME crossings' = 0 PROVE Histories' /\ Sight(s)'
  <2>1. crossings = 0
    BY <1>2, CommitsFacts DEF Rewrites, FindingBase
  <2>2. Histories'
    BY <2>1, <1>1, HistoriesKept DEF Uncrossed, FindingBase, ActionIs
  <2>3. PICK old : old = refresher[r]
    OBVIOUS
  <2>4. SeesActive(old) /\ old.pc = "ensuring"
    BY <2>1, <2>3, RefresherSees DEF Sight, Proposes
  <2>5. Carries(old, s) /\ s.new = {} /\ s.pc = "ensuring"
    BY <2>3 DEF Proposes, Carries
  <2>6. \A l \in s.doomed : l \in IdempotencyKeys /\ l # k /\ IsUndecided(l)
    BY DoomedFacts DEF Proposes
  <2>7. \A l \in s.doomed : IsUndecided(l)'
    BY <2>6, <1>1 DEF IsUndecided, Exists, ActionIs
  <2>8. SeesActive(s)'
    BY <2>4, <2>5, <2>7, <1>1 DEF SeesActive, Carries, IsActive
  <2> QED BY <2>2, <2>5, <2>8 DEF Sight, SeesFindings, SeesStale
<1> QED BY <1>1, <1>2, CommitterSees DEF Rewrites

\* A commit that crosses nothing writes what it has read.
LEMMA CommitTurns ==
    ASSUME FindingBase, Uncrossed, crossings = 0, NEW r \in Refreshers, NEW s, WritesFindings(r, s)
    PROVE  /\ \A f \in Findings : Turned(finding[f], finding'[f])
           /\ s.view = finding' /\ s.pc = "stale" /\ s.doomed = {}
           /\ s.gone = {f \in Findings : finding'[f].status = "resolved" /\ finding[f].status # "resolved"}
           /\ deferrals' = [f \in Findings |-> IF finding'[f].status = "resolved" THEN 0 ELSE deferrals[f]]
<1>0. PICK old : old = refresher[r]
  OBVIOUS
<1>1. SeesFindings(old) /\ Histories
  BY <1>0, RefresherSees DEF Sight
<1>2. old \in RefresherStates /\ old.pc = "reconciling"
  BY <1>0 DEF WritesFindings, FindingBase, FindingTypes
<1>3. old.read = finding /\ old.new \in Views
  BY <1>1, <1>2, AtWork DEF SeesFindings
<1>4. PICK observed \in SUBSET Findings : old.new = [f \in Findings |-> Reconciled(finding[f], f \in observed)]
  BY <1>1, <1>2 DEF SeesFindings
<1>5. ASSUME NEW f \in Findings PROVE finding'[f] = old.new[f] /\ Turned(finding[f], old.new[f])
  <2>1. PICK j : j = Reconciled(finding[f], f \in observed)
    OBVIOUS
  <2>2. old.new[f] = j
    BY <1>4, <2>1
  <2>3. j \in Issue /\ finding[f] \in Issue
    BY <1>3, <2>2 DEF Views, FindingBase, FindingTypes
  <2>4. j.regression_count <= MaxRegressions
    BY <2>3, IssueFacts, ConstantsAre DEF Regressions
  <2>5. Turned(finding[f], j)
    BY <2>1, <2>3, <2>4, Reconciles
  <2>6. j.touched = finding[f].touched
    <3>1. CASE finding[f].status = "absent"
      <4>1. finding[f] = Unseen
        BY <3>1, <1>1 DEF Histories
      <4>2. ~finding[f].touched
        BY <4>1, UnseenIssue
      <4>3. j = finding[f] \/ ~j.touched
        BY <3>1, <2>5 DEF Turned
      <4>4. j.touched \in BOOLEAN /\ finding[f].touched \in BOOLEAN
        BY <2>3, IssueFacts
      <4> QED BY <4>2, <4>3, <4>4
    <3>2. CASE finding[f].status # "absent"
      BY <3>2, <2>5 DEF Turned
    <3> QED BY <3>1, <3>2
  <2>7. finding'[f] = [status |-> j.status, regression_count |-> j.regression_count, touched |-> j.touched]
    <3>1. finding'[f] = Written(f, old)
      BY <1>0 DEF WritesFindings
    <3>2. PICK st : st = j.status
      OBVIOUS
    <3>3. PICK rc : rc = j.regression_count
      OBVIOUS
    <3>4. st = IF old.new[f].status # old.read[f].status THEN old.new[f].status ELSE finding[f].status
      BY <3>2, <2>2, <1>3
    <3>5. rc = IF old.new[f].regression_count # old.read[f].regression_count THEN old.new[f].regression_count ELSE finding[f].regression_count
      BY <3>3, <2>2, <1>3
    <3> QED BY <3>1, <3>2, <3>3, <3>4, <3>5, <2>6 DEF Written
  <2> QED BY <2>2, <2>3, <2>5, <2>7, IssueFacts
<1>6. old.new = finding'
  <2>1. finding' = [f \in Findings |-> finding'[f]]
    BY DEF WritesFindings
  <2>2. old.new = [f \in Findings |-> old.new[f]]
    BY <1>3 DEF Views
  <2> QED BY <2>1, <2>2, <1>5
<1> QED BY <1>0, <1>3, <1>5, <1>6 DEF WritesFindings

LEMMA CommitSees ==
    ASSUME FindingBase, FindingBase', Uncrossed, NEW r \in Refreshers, NEW s, WritesFindings(r, s)
    PROVE  Uncrossed'
<1>1. s \in RefresherStates /\ refresher' = [refresher EXCEPT ![r] = s] /\ Commits(Refreshers \ {r}) /\ action' = action
  BY DEF WritesFindings
<1>2. ASSUME crossings' = 0 PROVE Histories' /\ Sight(s)'
  <2>1. crossings = 0 /\ Histories
    BY <1>1, <1>2, CommitsFacts DEF FindingBase, Uncrossed
  <2>2. /\ \A f \in Findings : Turned(finding[f], finding'[f])
        /\ s.view = finding' /\ s.pc = "stale" /\ s.doomed = {}
        /\ s.gone = {f \in Findings : finding'[f].status = "resolved" /\ finding[f].status # "resolved"}
    BY <2>1, CommitTurns
  <2>3. Sight(s)'
    BY <2>2 DEF Sight, SeesFindings, SeesStale, SeesActive
  <2>4. ASSUME NEW f \in Findings, finding'[f].status = "absent" PROVE finding'[f] = Unseen /\ Existing(f)' = {}
    <3>1. finding[f].status = "absent"
      BY <2>2, <2>4 DEF Turned
    <3>2. finding'[f] = finding[f]
      BY <2>2, <2>4, <3>1 DEF Turned
    <3> QED BY <3>1, <3>2, <2>1, <1>1 DEF Histories, Existing, Of
  <2>5. ASSUME NEW k \in IdempotencyKeys, Exists(k)' PROVE k[2] <= finding'[k[1]].regression_count
    <3>1. Exists(k) /\ k[1] \in Findings /\ k[2] \in Nat
      BY <2>5, <1>1, KeyParts, RegressionCounts DEF Exists
    <3>2. finding[k[1]].status # "absent"
      BY <3>1, <2>1 DEF Histories, Existing, Of, Exists
    <3>3. k[2] <= finding[k[1]].regression_count /\ finding[k[1]].regression_count <= finding'[k[1]].regression_count
      BY <3>1, <3>2, <2>1, <2>2 DEF Histories, Turned
    <3>4. finding[k[1]].regression_count \in Nat /\ finding'[k[1]].regression_count \in Nat
      BY <3>1, IssueFacts, RegressionCounts DEF FindingBase, FindingTypes
    <3> QED BY <3>1, <3>3, <3>4
  <2>6. Histories'
    BY <2>4, <2>5 DEF Histories
  <2> QED BY <2>3, <2>6
<1> QED BY <1>1, <1>2, CommitterSees

LEMMA MoveSees ==
    ASSUME FindingBase, Uncrossed, UNCHANGED <<finding, action, refresher, crossings>>
    PROVE  Uncrossed'
<1>1. SUFFICES ASSUME crossings' = 0 PROVE Histories' /\ \A q \in Refreshers : Sight(refresher[q])'
  BY DEF Uncrossed
<1>2. Histories'
  BY <1>1, HistoriesKept DEF Uncrossed, FindingBase, Exists
<1>3. ASSUME NEW q \in Refreshers PROVE Sight(refresher[q])'
  <2>1. PICK t : t = refresher[q]
    OBVIOUS
  <2>2. Sight(t)
    BY <2>1, <1>1 DEF Uncrossed
  <2>3. Sight(t)'
    BY <2>2, SightKept
  <2> QED BY <2>1, <2>3, SightOf
<1> QED BY <1>2, <1>3

LEMMA BetweenIsCalm ==
    ASSUME FindingBase, Between, crossings' = 0
    PROVE  crossings = 0 /\ (\A q \in Refreshers : refresher[q].pc = "idle" /\ refresher'[q].pc = "idle")
           /\ (\A q \in Refreshers : Sight(refresher[q])')
<1>1. crossings = 0 /\ \A q \in Refreshers : refresher[q].pc = "idle" /\ refresher'[q] = refresher[q]
  BY CommitsFacts DEF FindingBase, Between, OthersIdle
<1>2. ASSUME NEW q \in Refreshers PROVE Sight(refresher[q])'
  <2>1. PICK t : t = refresher[q]
    OBVIOUS
  <2>2. Sight(t)'
    BY <2>1, <1>1, SightAtRest
  <2> QED BY <2>1, <2>2, <1>1, SightOf
<1> QED BY <1>1, <1>2

LEMMA UserSetsSees ==
    ASSUME FindingBase, Uncrossed, NEW f, NEW status, UserSets(f, status), Between
    PROVE  Uncrossed'
<1>1. SUFFICES ASSUME crossings' = 0 PROVE Histories'
  BY BetweenIsCalm DEF Uncrossed
<1>2. Histories
  BY <1>1, BetweenIsCalm DEF Uncrossed
<1>3. action' = action /\ f \in Findings /\ finding'[f].status # "absent" /\ finding'[f].regression_count = finding[f].regression_count
      /\ \A g \in Findings : g # f => finding'[g] = finding[g]
  BY DEF UserSets
<1>4. \A g \in Findings : finding'[g].regression_count = finding[g].regression_count
  BY <1>3
<1>5. ASSUME NEW k \in IdempotencyKeys, Exists(k)' PROVE k[2] <= finding'[k[1]].regression_count
  BY <1>2, <1>3, <1>4, <1>5, KeyParts DEF Histories, Exists
<1>6. ASSUME NEW g \in Findings, finding'[g].status = "absent" PROVE finding'[g] = Unseen /\ Existing(g)' = {}
  BY <1>2, <1>3, <1>6 DEF Histories, Existing, Of
<1> QED BY <1>5, <1>6 DEF Histories

LEMMA UserRewritesSees ==
    ASSUME FindingBase, Uncrossed, NEW k, NEW a, UserRewrites(k, a), Between
    PROVE  Uncrossed'
<1>1. SUFFICES ASSUME crossings' = 0 PROVE Histories'
  BY BetweenIsCalm DEF Uncrossed
<1>2. Histories
  BY <1>1, BetweenIsCalm DEF Uncrossed
<1> QED BY <1>2, HistoriesKept DEF UserRewrites, ActionIs, FindingBase
-----------------------------------------------------------------------------
\* No approval outlives what it was given for.

AloneNotInterrupted == interruptions' = interruptions \/ interruptions' # 0

LEMMA AloneKeepsCurrent ==
    ASSUME FindingBase, Current, NEW r \in Refreshers, NEW s, Alone(r, s), AloneNotInterrupted,
           interruptions' = 0 => \A k \in IdempotencyKeys : IsUndecided(k) /\ Ends(refresher[r], k) => Ends(s, k)
    PROVE  Current'
<1>1. SUFFICES ASSUME crossings' = 0, interruptions' = 0, NEW k \in IdempotencyKeys, IsUndecided(k)', ~finding'[k[1]].touched,
                      ~(IsActive(k[1])' /\ Present(k)')
               PROVE  \E q \in Refreshers : Ends(refresher[q], k)'
  BY DEF Current
<1>2. finding' = finding /\ action' = action /\ crossings = 0 /\ interruptions = 0 /\ s \in RefresherStates
      /\ refresher' = [refresher EXCEPT ![r] = s]
  BY <1>1 DEF Alone, AloneNotInterrupted
<1>3. IsUndecided(k) /\ ~finding[k[1]].touched /\ ~(IsActive(k[1]) /\ Present(k))
  BY <1>1, <1>2 DEF IsUndecided, Exists, IsActive, Present
<1>4. PICK q \in Refreshers : Ends(refresher[q], k)
  BY <1>2, <1>3 DEF Current
<1>5. CASE q = r
  <2>1. Ends(s, k) /\ refresher'[r] = s
    BY <1>1, <1>2, <1>3, <1>4, <1>5, RefresherGoes DEF FindingBase
  <2> QED BY <2>1 DEF Ends
<1>6. CASE q # r
  <2>1. refresher'[q] = refresher[q]
    BY <1>2, <1>6, RefresherGoes DEF FindingBase
  <2> QED BY <2>1, <1>4 DEF Ends
<1> QED BY <1>5, <1>6

\* An action that stays open has been, or is of the present return.
LEMMA CommitterKeepsCurrent ==
    ASSUME FindingBase, Current, NEW r \in Refreshers, NEW s \in RefresherStates, refresher' = [refresher EXCEPT ![r] = s],
           Commits(Refreshers \ {r}), finding' = finding, interruptions' = interruptions,
           crossings' = 0 => \A k \in IdempotencyKeys : IsUndecided(k)' =>
               \/ IsActive(k[1]) /\ Present(k)
               \/ IsUndecided(k) /\ (Ends(refresher[r], k) => Ends(s, k))
    PROVE  Current'
<1>1. SUFFICES ASSUME crossings' = 0, interruptions' = 0, NEW k \in IdempotencyKeys, IsUndecided(k)', ~finding'[k[1]].touched,
                      ~(IsActive(k[1])' /\ Present(k)')
               PROVE  \E q \in Refreshers : Ends(refresher[q], k)'
  BY DEF Current
<1>2. crossings = 0 /\ OthersIdle(Refreshers \ {r})
  BY <1>1, CommitsFacts DEF FindingBase
<1>3. ~finding[k[1]].touched /\ ~(IsActive(k[1]) /\ Present(k))
  BY <1>1 DEF IsActive, Present
<1>4. IsUndecided(k) /\ (Ends(refresher[r], k) => Ends(s, k))
  BY <1>1, <1>3
<1>5. PICK q \in Refreshers : Ends(refresher[q], k)
  BY <1>1, <1>2, <1>3, <1>4 DEF Current
<1>6. q = r
  BY <1>2, <1>5 DEF Ends, OthersIdle
<1>7. Ends(s, k) /\ refresher'[r] = s
  BY <1>4, <1>5, <1>6, RefresherGoes DEF FindingBase
<1> QED BY <1>7 DEF Ends

LEMMA ReadKeepsCurrent ==
    ASSUME FindingBase, Current, NEW r \in Refreshers, NEW s, Alone(r, s), Calm,
           refresher[r].pc \in {"idle", "ensuring"} \/ StaleTurns(r, s) \/ Collects(r, s)
    PROVE  Current'
<1>1. AloneNotInterrupted
  BY DEF Calm, AloneNotInterrupted
<1>2. ASSUME NEW k \in IdempotencyKeys, IsUndecided(k), Ends(refresher[r], k) PROVE Ends(s, k)
  BY <1>2, DoomedKeys DEF Ends, StaleTurns, Collects
<1> QED BY <1>1, <1>2, AloneKeepsCurrent

LEMMA EnsureAloneKeepsCurrent ==
    ASSUME FindingBase, Current, NEW r \in Refreshers, NEW s, Alone(r, s), AloneNotInterrupted,
           interruptions' = 0 => refresher[r].pc = "ensuring"
    PROVE  Current'
BY AloneKeepsCurrent DEF Ends

LEMMA EnsureFallbackKeepsCurrent ==
    ASSUME FindingBase, Current, NEW r \in Refreshers, NEW s, NEW f, NEW k, NEW a, NEW outcome, EnsuresFallback(r, s, f, k, a, outcome)
    PROVE  Current'
<1>1. Rewrites(r, s, k, a) /\ a.status = action[k].status /\ refresher[r].pc = "ensuring"
  BY DEF EnsuresFallback, Ensuring
<1>2. ActionIs(k, a)
  BY <1>1, ActionRewritten DEF Rewrites, FindingBase
<1>3. \A l \in IdempotencyKeys : IsUndecided(l)' => IsUndecided(l)
  BY <1>1, <1>2 DEF IsUndecided, Exists, ActionIs
<1> QED BY <1>1, <1>3, CommitterKeepsCurrent DEF Rewrites, Ends

LEMMA EnsureNewKeepsCurrent ==
    ASSUME FindingBase, Uncrossed, Current, NEW r \in Refreshers, NEW s, NEW f, NEW k, NEW outcome, EnsuresNew(r, s, f, k, outcome)
    PROVE  Current'
<1>1. Creates(r, s, k, outcome) /\ Ensuring(r, s, f) /\ Plan(r, f, k, outcome)
  BY DEF EnsuresNew
<1>2. PICK a : a = DraftOf(k, outcome)
  OBVIOUS
<1>3. Created(k, a)
  BY <1>1, <1>2, ActionCreated DEF Creates, FindingBase
<1>4. ASSUME crossings' = 0, NEW l \in IdempotencyKeys, IsUndecided(l)'
      PROVE  (IsActive(l[1]) /\ Present(l)) \/ (IsUndecided(l) /\ ~Ends(refresher[r], l))
  <2>1. crossings = 0
    BY <1>1, <1>4, CommitsFacts DEF Creates, FindingBase
  <2>2. refresher[r].view = finding /\ IsActive(f)
    BY <1>1, <2>1, EnsuringActive
  <2>3. CASE l = k
    BY <2>2, <2>3, <1>1 DEF Plan, Present
  <2>4. CASE l # k
    BY <2>4, <1>1, <1>3, <1>4 DEF Created, IsUndecided, Exists, Ends, Ensuring
  <2> QED BY <2>3, <2>4
<1> QED BY <1>1, <1>4, CommitterKeepsCurrent DEF Creates

LEMMA CancelKeepsCurrent ==
    ASSUME FindingBase, Current, NEW r \in Refreshers, NEW s, NEW k, NEW a, Rewrites(r, s, k, a), Cancels(r, s, k, a)
    PROVE  Current'
<1>1. ActionIs(k, a)
  BY ActionRewritten DEF Rewrites, FindingBase
<1>2. PICK old : old = refresher[r]
  OBVIOUS
<1>3. a.status = "cancelled" /\ Carries(old, s) /\ s.doomed = old.doomed \ {k}
  BY <1>2 DEF Cancels
<1>4. ASSUME NEW l \in IdempotencyKeys, IsUndecided(l)'
      PROVE  IsUndecided(l) /\ (Ends(old, l) => Ends(s, l))
  <2>1. l # k
    BY <1>1, <1>3, <1>4 DEF IsUndecided, ActionIs, Undecided
  <2>2. IsUndecided(l)
    BY <2>1, <1>1, <1>4 DEF IsUndecided, ActionIs, Exists
  <2> QED BY <2>1, <2>2, <1>3 DEF Ends, Carries
<1> QED BY <1>2, <1>4, CommitterKeepsCurrent DEF Rewrites

LEMMA ProposeKeepsCurrent ==
    ASSUME FindingBase, Uncrossed, Current, NEW r \in Refreshers, NEW s, NEW k, NEW a, Rewrites(r, s, k, a), Proposes(r, s, k, a)
    PROVE  Current'
<1>1. ActionIs(k, a)
  BY ActionRewritten DEF Rewrites, FindingBase
<1>2. ASSUME crossings' = 0, NEW l \in IdempotencyKeys, IsUndecided(l)'
      PROVE  (IsActive(l[1]) /\ Present(l)) \/ (IsUndecided(l) /\ ~Ends(refresher[r], l))
  <2>1. crossings = 0
    BY <1>2, CommitsFacts DEF Rewrites, FindingBase
  <2>2. SeesActive(refresher[r]) /\ refresher[r].pc = "ensuring" /\ k \in refresher[r].new
    BY <2>1, RefresherSees DEF Sight, Proposes
  <2>3. CASE l = k
    BY <2>2, <2>3 DEF SeesActive
  <2>4. CASE l # k
    BY <2>2, <2>4, <1>1, <1>2 DEF IsUndecided, ActionIs, Exists, Ends
  <2> QED BY <2>3, <2>4
<1> QED BY <1>2, CommitterKeepsCurrent DEF Rewrites

LEMMA CommitKeepsCurrent ==
    ASSUME FindingBase, Uncrossed, Current, NEW r \in Refreshers, NEW s, WritesFindings(r, s)
    PROVE  Current'
<1>1. SUFFICES ASSUME crossings' = 0, interruptions' = 0, NEW k \in IdempotencyKeys, IsUndecided(k)', ~finding'[k[1]].touched,
                      ~(IsActive(k[1])' /\ Present(k)')
               PROVE  \E q \in Refreshers : Ends(refresher[q], k)'
  BY DEF Current
<1>2. crossings = 0 /\ OthersIdle(Refreshers \ {r})
  BY <1>1, CommitsFacts DEF FindingBase, WritesFindings
<1>3. interruptions = 0 /\ IsUndecided(k) /\ k[1] \in Findings
  BY <1>1, KeyParts DEF WritesFindings, IsUndecided, Exists
<1>4. Turned(finding[k[1]], finding'[k[1]]) /\ s.pc = "stale"
      /\ s.gone = {f \in Findings : finding'[f].status = "resolved" /\ finding[f].status # "resolved"}
  BY <1>2, <1>3, CommitTurns
<1>5. finding[k[1]].status # "absent"
  BY <1>2, <1>3 DEF Uncrossed, Histories, IsUndecided, Existing, Of, Exists
<1>6. ~finding[k[1]].touched
  BY <1>1, <1>4, <1>5 DEF Turned
<1>7. \A q \in Refreshers : ~Ends(refresher[q], k)
  BY <1>2 DEF Ends, OthersIdle, WritesFindings
<1>8. IsActive(k[1]) /\ Present(k)
  BY <1>2, <1>3, <1>6, <1>7 DEF Current
<1>9. finding'[k[1]].regression_count = finding[k[1]].regression_count /\ finding'[k[1]].status \in {finding[k[1]].status, "resolved"}
  BY <1>4, <1>8 DEF Turned, IsActive
<1>10. finding'[k[1]].status = "resolved"
  BY <1>1, <1>8, <1>9 DEF IsActive, Present
<1>11. k[1] \in s.gone
  BY <1>3, <1>4, <1>8, <1>10 DEF IsActive, ActiveFindingStatuses
<1>12. refresher'[r] = s
  BY RefresherGoes DEF FindingBase, WritesFindings
<1> QED BY <1>4, <1>11, <1>12 DEF Ends

LEMMA MoveKeepsCurrent ==
    ASSUME Current, UNCHANGED <<finding, action, refresher, crossings, interruptions>>
    PROVE  Current'
BY DEF Current, IsUndecided, Exists, IsActive, Present, Ends

LEMMA UserSetsKeepsCurrent ==
    ASSUME FindingBase, Current, NEW f, NEW status, UserSets(f, status), Between
    PROVE  Current'
<1>1. SUFFICES ASSUME crossings' = 0, interruptions' = 0, NEW k \in IdempotencyKeys, IsUndecided(k)', ~finding'[k[1]].touched
               PROVE  IsActive(k[1])' /\ Present(k)'
  BY DEF Current
<1>2. crossings = 0 /\ interruptions = 0 /\ \A q \in Refreshers : ~Ends(refresher[q], k)
  BY <1>1, BetweenIsCalm DEF Ends, Between
<1>3. k[1] # f /\ finding'[k[1]] = finding[k[1]] /\ IsUndecided(k)
  BY <1>1, KeyParts DEF UserSets, IsUndecided, Exists
<1> QED BY <1>1, <1>2, <1>3 DEF Current, IsActive, Present

LEMMA UserRewritesKeepsCurrent ==
    ASSUME FindingBase, Current, NEW k, NEW a, UserRewrites(k, a), Between
    PROVE  Current'
<1>1. SUFFICES ASSUME crossings' = 0, interruptions' = 0, NEW l \in IdempotencyKeys, IsUndecided(l)', ~finding'[l[1]].touched
               PROVE  IsActive(l[1])' /\ Present(l)'
  BY DEF Current
<1>2. crossings = 0 /\ interruptions = 0 /\ \A q \in Refreshers : ~Ends(refresher[q], l)
  BY <1>1, BetweenIsCalm DEF Ends, Between
<1>3. IsUndecided(l) /\ finding' = finding
  BY <1>1 DEF UserRewrites, ActionIs, IsUndecided, Exists
<1> QED BY <1>1, <1>2, <1>3 DEF Current, IsActive, Present
-----------------------------------------------------------------------------
\* The repository does not move back.

Succession(s) == DoomedAreSuperseded(s) /\ Ensures(s)

LEMMA SuccessionAtRest ==
    ASSUME NEW s, s.pc # "ensuring"
    PROVE  Succession(s) /\ Succession(s)'
BY DEF Succession, DoomedAreSuperseded, Ensures

LEMMA SuccessionOf ==
    ASSUME NEW q, NEW s, refresher'[q] = s, Succession(s)'
    PROVE  DoomedAreSuperseded(refresher[q])' /\ Ensures(refresher[q])'
BY DEF Succession, DoomedAreSuperseded, Ensures, PatchHere, Supersedes, Standing, Exists, Present, Withdrawn, Untroubled,
       HasGoverned, IsActive, Existing, Of

LEMMA SuccessionKept ==
    ASSUME NEW s, Succession(s), finding' = finding, action' = action, repository' = repository, moves' = moves
    PROVE  Succession(s)'
BY DEF Succession, DoomedAreSuperseded, Ensures, PatchHere, Supersedes, Standing, Exists, Present, Withdrawn, Untroubled,
       HasGoverned, IsActive, Existing, Of

LEMMA AloneSucceeds ==
    ASSUME FindingBase, Moved, NEW r \in Refreshers, NEW s, Alone(r, s), crossings = 0 /\ moves < 2 => Succession(s)
    PROVE  Moved'
<1>1. SUFFICES ASSUME crossings' = 0, moves' < 2
               PROVE  Patches' /\ \A q \in Refreshers : DoomedAreSuperseded(refresher[q])' /\ Ensures(refresher[q])'
  BY DEF Moved
<1>2. /\ crossings = 0 /\ moves < 2 /\ finding' = finding /\ action' = action /\ repository' = repository /\ moves' = moves
      /\ s \in RefresherStates /\ refresher' = [refresher EXCEPT ![r] = s]
  BY <1>1 DEF Alone
<1>3. Patches'
  BY <1>2 DEF Moved, Patches, Exists, PatchHere, Present, Untroubled, IsActive, Withdrawn, Existing, Of
<1>4. ASSUME NEW q \in Refreshers PROVE DoomedAreSuperseded(refresher[q])' /\ Ensures(refresher[q])'
  <2>1. PICK t : t = refresher'[q]
    OBVIOUS
  <2>2. Succession(t)
    <3>1. CASE q = r
      BY <3>1, <2>1, <1>2, RefresherGoes DEF FindingBase
    <3>2. CASE q # r
      <4>1. t = refresher[q]
        BY <3>2, <2>1, <1>2, RefresherGoes DEF FindingBase
      <4> QED BY <4>1, <1>2 DEF Moved, Succession
    <3> QED BY <3>1, <3>2
  <2>3. Succession(t)'
    BY <2>2, <1>2, SuccessionKept
  <2> QED BY <2>1, <2>3, SuccessionOf
<1> QED BY <1>3, <1>4

LEMMA CommitterSucceeds ==
    ASSUME FindingBase, NEW r \in Refreshers, NEW s \in RefresherStates, refresher' = [refresher EXCEPT ![r] = s],
           Commits(Refreshers \ {r}), moves' = moves,
           crossings = 0 /\ crossings' = 0 /\ moves < 2 => Patches' /\ Succession(s)'
    PROVE  Moved'
<1>1. SUFFICES ASSUME crossings' = 0, moves' < 2
               PROVE  \A q \in Refreshers : DoomedAreSuperseded(refresher[q])' /\ Ensures(refresher[q])'
  <2>1. crossings' = 0 => crossings = 0
    BY CommitsFacts DEF FindingBase
  <2> QED BY <2>1 DEF Moved
<1>2. OthersIdle(Refreshers \ {r}) /\ crossings = 0
  BY <1>1, CommitsFacts DEF FindingBase
<1>3. ASSUME NEW q \in Refreshers PROVE DoomedAreSuperseded(refresher[q])' /\ Ensures(refresher[q])'
  <2>1. PICK t : t = refresher'[q]
    OBVIOUS
  <2>2. Succession(t)'
    <3>1. CASE q = r
      BY <3>1, <2>1, <1>1, <1>2, RefresherGoes DEF FindingBase
    <3>2. CASE q # r
      <4>1. t = refresher[q]
        BY <3>2, <2>1, RefresherGoes DEF FindingBase
      <4>2. t.pc = "idle"
        BY <4>1, <3>2, <1>2 DEF OthersIdle
      <4> QED BY <4>2, SuccessionAtRest
    <3> QED BY <3>1, <3>2
  <2> QED BY <2>1, <2>2, SuccessionOf
<1> QED BY <1>3

LEMMA NotEnsuringSucceeds ==
    ASSUME FindingBase, Moved, NEW r \in Refreshers, NEW s, Alone(r, s), s.pc # "ensuring"
    PROVE  Moved'
BY AloneSucceeds, SuccessionAtRest

LEMMA ReadyIsGoverned ==
    ASSUME NEW f, Ready(f)
    PROVE  HasGoverned(f)
BY DEF Ready, LatestActions, Having, HasGoverned

LEMMA CollectSucceeds ==
    ASSUME FindingBase, Moved, NEW r \in Refreshers, NEW s, Alone(r, s), Collects(r, s)
    PROVE  Moved'
<1>1. DoomedAreSuperseded(s)
  BY DEF DoomedAreSuperseded, Collects
<1>2. Ensures(s)
  BY ReadyIsGoverned DEF Ensures, Collects, Untroubled
<1> QED BY <1>1, <1>2, AloneSucceeds DEF Succession

LEMMA AskSucceeds ==
    ASSUME FindingBase, Moved, NEW r \in Refreshers, NEW f, NEW s, Alone(r, s), Asks(r, s, f)
    PROVE  Moved'
<1>1. Succession(s)
  BY DEF Succession, DoomedAreSuperseded, Ensures, Asks
<1> QED BY <1>1, AloneSucceeds

LEMMA EnsuresOthers ==
    ASSUME Moved, crossings = 0, moves < 2, NEW r \in Refreshers, NEW s, NEW f, Ensuring(r, s, f), s.whole,
           NEW g \in Findings \ s.todo, Untroubled(g), g # f
    PROVE  HasGoverned(g)
BY DEF Moved, Ensures, Ensuring

LEMMA EnsureReadySucceeds ==
    ASSUME FindingBase, Moved, NEW r \in Refreshers, NEW s, NEW f, EnsuresReady(r, s, f)
    PROVE  Moved'
<1>1. DoomedAreSuperseded(s)
  BY DEF DoomedAreSuperseded, EnsuresReady
<1>2. ASSUME crossings = 0, moves < 2 PROVE Ensures(s)
  BY <1>2, EnsuresOthers, ReadyIsGoverned DEF Ensures, EnsuresReady
<1> QED BY <1>1, <1>2, AloneSucceeds DEF Succession, EnsuresReady

LEMMA EnsurePatchSucceeds ==
    ASSUME FindingBase, Uncrossed, Moved, NEW r \in Refreshers, NEW s, NEW f, NEW k, EnsuresPatch(r, s, f, k)
    PROVE  Moved'
<1>1. ASSUME crossings = 0, moves < 2 PROVE Succession(s)
  <2>1. Ensuring(r, s, f) /\ Exists(k) /\ k \in IdempotencyKeys /\ s.doomed = Doomed(f) \ {k} /\ s.new = {}
        /\ k[1] = f /\ k[2] = refresher[r].view[f].regression_count /\ k[3] = repository /\ repository # Unmapped
    BY DEF EnsuresPatch, Plan, Outcome
  <2>2. refresher[r].view = finding /\ IsActive(f) /\ f \in Findings
    BY <1>1, <2>1, EnsuringActive DEF Ensuring
  <2>3. Present(k) /\ k[3] # Simulated
    BY <2>1, <2>2, SimulatedIsNoRepository DEF Present, FindingBase, FindingTypes
  <2>4. Patches
    BY <1>1 DEF Moved
  <2>5. ~finding[f].touched => ~Withdrawn(k)
    BY <2>1, <2>2, <2>3, <2>4 DEF Patches, PatchHere, Untroubled
  <2>6. ASSUME NEW l \in s.doomed
        PROVE  ~PatchHere(l) /\ Supersedes(k, l, s.doomed) /\ (moves = 0 => l[3] = Simulated \/ ~Present(l))
    <3>1. l \in IdempotencyKeys /\ l[1] = f /\ l # k /\ Exists(l)
      BY <2>1, <2>6, DoomedFacts DEF IsUndecided
    <3>2. l[3] = repository => ~Present(l)
      BY <3>1, <2>1, <2>3, KeysDiffer DEF Present
    <3>3. moves = 0 => l[3] \in {Simulated, repository}
      BY <3>1, <2>4 DEF Patches
    <3>4. Supersedes(k, l, s.doomed)
      BY <3>1, <2>1, <2>3, <2>5 DEF Supersedes, Standing
    <3> QED BY <3>2, <3>3, <3>4 DEF PatchHere
  <2>7. DoomedAreSuperseded(s)
    BY <2>1, <2>6 DEF DoomedAreSuperseded
  <2>8. ASSUME Untroubled(f) PROVE HasGoverned(f)
    BY <2>1, <2>3, <2>5, <2>8, ExistingAction DEF FindingBase, HasGoverned, Untroubled
  <2>9. Ensures(s)
    BY <1>1, <2>1, <2>8, EnsuresOthers DEF Ensures
  <2> QED BY <2>7, <2>9 DEF Succession
<1> QED BY <1>1, AloneSucceeds DEF EnsuresPatch

\* What is rewritten and not withdrawn leaves the patches as they are.
LEMMA PatchesKept ==
    ASSUME Patches, NEW k \in IdempotencyKeys, NEW a, ActionIs(k, a), finding' = finding, repository' = repository, moves' = moves,
           ~(a.status = "cancelled" /\ a.by = "system") \/ Withdrawn(k)
    PROVE  Patches'
<1>1. \A l \in IdempotencyKeys : (Exists(l)' <=> Exists(l)) /\ (Withdrawn(l)' => Withdrawn(l))
  BY DEF ActionIs, Withdrawn
<1>2. \A f \in Findings : Existing(f)' = Existing(f)
  BY <1>1 DEF Existing, Of, Exists
<1>3. \A l \in IdempotencyKeys : (Present(l)' <=> Present(l)) /\ (PatchHere(l)' <=> PatchHere(l))
  BY DEF Present, PatchHere
<1>4. \A f \in Findings : Untroubled(f)' <=> Untroubled(f)
  BY DEF Untroubled, IsActive
<1>5. moves' = 0 => \A l \in IdempotencyKeys : Exists(l)' => l[3] \in {Simulated, repository'}
  BY <1>1 DEF Patches
<1>6. \A l \in IdempotencyKeys : Exists(l)' /\ PatchHere(l)' /\ Untroubled(l[1])' => ~Withdrawn(l)'
  BY <1>1, <1>3, <1>4, KeyParts DEF Patches
<1>7. ASSUME NEW f \in Findings, Untroubled(f)', NEW l \in Existing(f)', Present(l)' PROVE \E e \in Existing(f)' : Present(e)' /\ ~Withdrawn(e)'
  <2>1. Untroubled(f) /\ l \in Existing(f) /\ Present(l)
    BY <1>2, <1>3, <1>4, <1>7, ExistingKey
  <2>2. PICK e \in Existing(f) : Present(e) /\ ~Withdrawn(e)
    BY <2>1 DEF Patches
  <2> QED BY <1>1, <1>2, <1>3, <2>2, ExistingKey
<1> QED BY <1>5, <1>6, <1>7 DEF Patches

\* What governs a finding governs it as long as it is not withdrawn.
LEMMA GovernedKept ==
    ASSUME NEW k \in IdempotencyKeys, NEW a, ActionIs(k, a), finding' = finding, NEW g, HasGoverned(g),
           k[1] = g => a.status \in CurrentStatuses \/ (a.status = action[k].status /\ a.by = action[k].by)
    PROVE  HasGoverned(g)'
<1>1. PICK e \in Existing(g) : action[e].status \in CurrentStatuses \/ (Present(e) /\ ~Withdrawn(e))
  BY DEF HasGoverned
<1>2. e \in IdempotencyKeys /\ e[1] = g /\ Exists(e)
  BY <1>1, ExistingKey
<1>3. e \in Existing(g)'
  BY <1>2 DEF ActionIs, Existing, Of, Exists
<1>4. action'[e].status \in CurrentStatuses \/ (Present(e)' /\ ~Withdrawn(e)')
  BY <1>1, <1>2 DEF ActionIs, Present, Withdrawn
<1> QED BY <1>3, <1>4 DEF HasGoverned

LEMMA EnsureFallbackSucceeds ==
    ASSUME FindingBase, Uncrossed, Moved, NEW r \in Refreshers, NEW s, NEW f, NEW k, NEW a, NEW outcome, EnsuresFallback(r, s, f, k, a, outcome)
    PROVE  Moved'
<1>1. Rewrites(r, s, k, a) /\ Ensuring(r, s, f) /\ Plan(r, f, k, outcome) /\ s.doomed = {} /\ s.new = {}
  BY DEF EnsuresFallback
<1>2. ActionIs(k, a) /\ k \in IdempotencyKeys /\ finding' = finding
  BY <1>1, ActionRewritten DEF Rewrites, FindingBase
<1>3. a.status = action[k].status /\ a.by = action[k].by
  BY DEF EnsuresFallback
<1>4. ASSUME crossings = 0, moves < 2 PROVE Patches' /\ Succession(s)'
  <2>1. Patches
    BY <1>4 DEF Moved
  <2>2. Patches'
    BY <2>1, <1>1, <1>2, <1>3, PatchesKept DEF Rewrites, Withdrawn
  <2>3. DoomedAreSuperseded(s)'
    BY <1>1 DEF DoomedAreSuperseded
  <2>4. refresher[r].view = finding /\ IsActive(f)
    BY <1>1, <1>4, EnsuringActive
  <2>5. Present(k) /\ Exists(k) /\ k[1] = f /\ f \in Findings
    BY <1>1, <2>4 DEF Plan, Present, Rewrites, Ensuring
  <2>6. k \in Existing(f)
    BY <1>2, <2>5, ExistingAction DEF FindingBase
  <2>7. Untroubled(f) => HasGoverned(f)
    BY <2>1, <2>5, <2>6 DEF Patches, HasGoverned
  <2>8. ASSUME s.whole, NEW g \in Findings \ s.todo, Untroubled(g)' PROVE HasGoverned(g)'
    <3>1. Untroubled(g)
      BY <2>8, <1>2 DEF Untroubled, IsActive
    <3>2. HasGoverned(g)
      BY <3>1, <2>7, <2>8, <1>1, <1>4, EnsuresOthers
    <3> QED BY <3>2, <1>2, <1>3, GovernedKept
  <2>9. Ensures(s)'
    BY <2>8 DEF Ensures
  <2> QED BY <2>2, <2>3, <2>9 DEF Succession
<1> QED BY <1>1, <1>4, CommitterSucceeds DEF Rewrites

LEMMA EnsureNewSucceeds ==
    ASSUME FindingBase, Uncrossed, Moved, NEW r \in Refreshers, NEW s, NEW f, NEW k, NEW outcome, EnsuresNew(r, s, f, k, outcome)
    PROVE  Moved'
<1>1. Creates(r, s, k, outcome) /\ Ensuring(r, s, f) /\ Plan(r, f, k, outcome) /\ s.doomed = {} /\ s.new = {k}
  BY DEF EnsuresNew
<1>2. PICK a : a = DraftOf(k, outcome)
  OBVIOUS
<1>3. Created(k, a) /\ finding' = finding /\ repository' = repository /\ moves' = moves /\ k \in IdempotencyKeys
  BY <1>1, <1>2, ActionCreated DEF Creates, FindingBase
<1>4. a.status = "draft"
  BY <1>2 DEF DraftOf
<1>5. ASSUME crossings = 0, moves < 2 PROVE Patches' /\ Succession(s)'
  <2>1. Patches /\ refresher[r].view = finding /\ IsActive(f) /\ f \in Findings
    BY <1>1, <1>5, EnsuringActive DEF Moved, Ensuring
  <2>2. k[1] = f /\ Present(k) /\ k[3] \in {Simulated, repository}
    BY <1>1, <2>1 DEF Plan, Present
  <2>3. \A l \in IdempotencyKeys : (Exists(l)' <=> Exists(l) \/ l = k) /\ (Withdrawn(l)' => Withdrawn(l) /\ l # k)
    BY <1>3, <1>4 DEF Created, Withdrawn
  <2>4. \A l \in IdempotencyKeys : (Present(l)' <=> Present(l)) /\ (PatchHere(l)' <=> PatchHere(l))
    BY <1>3 DEF Present, PatchHere
  <2>5. \A g \in Findings : Untroubled(g)' <=> Untroubled(g)
    BY <1>3 DEF Untroubled, IsActive
  <2>6. moves' = 0 => \A l \in IdempotencyKeys : Exists(l)' => l[3] \in {Simulated, repository'}
    BY <1>3, <2>1, <2>2, <2>3 DEF Patches
  <2>7. \A l \in IdempotencyKeys : Exists(l)' /\ PatchHere(l)' /\ Untroubled(l[1])' => ~Withdrawn(l)'
    BY <2>1, <2>3, <2>4, <2>5, KeyParts DEF Patches
  <2>8. k \in Existing(f)' /\ Present(k)' /\ ~Withdrawn(k)' /\ action'[k].status \in CurrentStatuses
    BY <1>3, <1>4, <2>2, <2>3, <2>4 DEF Created, Existing, Of, Exists, CurrentStatuses, Undecided
  <2>9. \A g \in Findings : \A l \in Existing(g) : l \in Existing(g)'
    BY <2>3 DEF Existing, Of, Exists
  <2>10. ASSUME NEW g \in Findings, Untroubled(g)', NEW l \in Existing(g)', Present(l)' PROVE \E e \in Existing(g)' : Present(e)' /\ ~Withdrawn(e)'
    <3>1. CASE g = f
      BY <3>1, <2>8
    <3>2. CASE g # f
      <4>1. Untroubled(g) /\ l \in Existing(g) /\ Present(l)
        BY <3>2, <2>2, <2>3, <2>4, <2>5, <2>10 DEF Existing, Of, Exists
      <4>2. PICK e \in Existing(g) : Present(e) /\ ~Withdrawn(e)
        BY <2>1, <4>1 DEF Patches
      <4> QED BY <4>2, <2>3, <2>4, <2>9, ExistingKey
    <3> QED BY <3>1, <3>2
  <2>11. Patches'
    BY <2>6, <2>7, <2>10 DEF Patches
  <2>12. DoomedAreSuperseded(s)'
    BY <1>1, <1>3, <2>2 DEF DoomedAreSuperseded
  <2>13. ASSUME s.whole, NEW g \in Findings \ s.todo, Untroubled(g)' PROVE HasGoverned(g)'
    <3>1. CASE g = f
      BY <3>1, <2>8 DEF HasGoverned
    <3>2. CASE g # f
      <4>1. Untroubled(g)
        BY <2>5, <2>13
      <4>2. HasGoverned(g)
        BY <3>2, <4>1, <2>13, <1>1, <1>5, EnsuresOthers
      <4>3. PICK e \in Existing(g) : action[e].status \in CurrentStatuses \/ (Present(e) /\ ~Withdrawn(e))
        BY <4>2 DEF HasGoverned
      <4>4. e \in IdempotencyKeys /\ e # k /\ e \in Existing(g)'
        BY <4>3, <3>2, <2>2, <2>9, ExistingKey
      <4>5. action'[e] = action[e]
        BY <4>4, <1>3 DEF Created
      <4> QED BY <4>3, <4>4, <4>5, <2>3, <2>4 DEF HasGoverned
    <3> QED BY <3>1, <3>2
  <2>14. Ensures(s)'
    BY <2>13 DEF Ensures
  <2> QED BY <2>11, <2>12, <2>14 DEF Succession
<1> QED BY <1>1, <1>5, CommitterSucceeds DEF Creates

LEMMA StandingKept ==
    ASSUME NEW k \in IdempotencyKeys, NEW a, ActionIs(k, a), finding' = finding, NEW m \in IdempotencyKeys, Standing(m), m # k
    PROVE  Standing(m)'
BY DEF Standing, ActionIs, Exists, Present, Withdrawn

LEMMA CancelSucceeds ==
    ASSUME FindingBase, Uncrossed, Moved, NEW r \in Refreshers, NEW s, NEW k, NEW a, Rewrites(r, s, k, a), Cancels(r, s, k, a)
    PROVE  Moved'
<1>1. ActionIs(k, a) /\ finding' = finding /\ repository' = repository /\ moves' = moves /\ k \in IdempotencyKeys /\ Exists(k)
      /\ s \in RefresherStates
  BY ActionRewritten DEF Rewrites, FindingBase
<1>2. PICK old : old = refresher[r]
  OBVIOUS
<1>3. /\ Carries(old, s) /\ s.doomed = old.doomed \ {k} /\ k \in old.doomed /\ old.pc \in {"stale", "ensuring"}
      /\ (s.pc = "ensuring" => s.new = old.new)
  BY <1>2 DEF Cancels
<1>4. k[1] \in Findings
  BY <1>1, KeyParts
<1>5. ASSUME crossings = 0, moves < 2 PROVE Patches' /\ Succession(s)'
  <2>1. Patches /\ DoomedAreSuperseded(old) /\ Ensures(old) /\ SeesStale(old) /\ SeesActive(old)
    BY <1>2, <1>5, RefresherSees DEF Moved, Sight
  <2>2. Untroubled(k[1]) =>
           /\ old.pc = "ensuring" /\ ~PatchHere(k)
           /\ \E m \in IdempotencyKeys : m # k /\ m[1] = k[1] /\ Standing(m) /\ ~Withdrawn(m)
    <3>1. CASE old.pc = "stale"
      BY <3>1, <1>3, <2>1 DEF SeesStale, Untroubled, IsActive, ActiveFindingStatuses
    <3>2. CASE old.pc = "ensuring"
      <4>1. PICK m \in IdempotencyKeys : ~PatchHere(k) /\ Supersedes(m, k, old.doomed)
        BY <3>2, <1>3, <2>1 DEF DoomedAreSuperseded
      <4>2. m # k /\ m[1] = k[1] /\ Standing(m)
        BY <4>1, <1>3 DEF Supersedes
      <4> QED BY <3>2, <4>1, <4>2 DEF Standing, Untroubled
    <3> QED BY <1>3, <3>1, <3>2
  <2>3. \A l \in IdempotencyKeys : (Exists(l)' <=> Exists(l)) /\ (l # k => (Withdrawn(l)' <=> Withdrawn(l)))
    BY <1>1 DEF ActionIs, Withdrawn
  <2>4. \A f \in Findings : Existing(f)' = Existing(f)
    BY <2>3 DEF Existing, Of, Exists
  <2>5. \A l \in IdempotencyKeys : (Present(l)' <=> Present(l)) /\ (PatchHere(l)' <=> PatchHere(l))
    BY <1>1 DEF Present, PatchHere
  <2>6. \A f \in Findings : Untroubled(f)' <=> Untroubled(f)
    BY <1>1 DEF Untroubled, IsActive
  <2>7. moves' = 0 => \A l \in IdempotencyKeys : Exists(l)' => l[3] \in {Simulated, repository'}
    BY <1>1, <2>1, <2>3 DEF Patches
  <2>8. \A l \in IdempotencyKeys : Exists(l)' /\ PatchHere(l)' /\ Untroubled(l[1])' => ~Withdrawn(l)'
    BY <2>1, <2>2, <2>3, <2>5, <2>6, KeyParts DEF Patches
  <2>9. ASSUME NEW f \in Findings, Untroubled(f), f = k[1]
        PROVE  \E e \in Existing(f)' : Present(e)' /\ ~Withdrawn(e)'
    <3>1. PICK m \in IdempotencyKeys : m # k /\ m[1] = k[1] /\ Standing(m) /\ ~Withdrawn(m)
      BY <2>2, <2>9
    <3>2. Exists(m) /\ Present(m)
      BY <3>1 DEF Standing
    <3>3. m \in Existing(f)'
      <4>1. m \in Existing(f)
        BY <2>9, <3>1, <3>2 DEF Existing, Of, Exists
      <4> QED BY <2>4, <4>1
    <3> QED BY <2>3, <2>5, <3>1, <3>2, <3>3
  <2>10. ASSUME NEW f \in Findings, Untroubled(f)', NEW l \in Existing(f)', Present(l)' PROVE \E e \in Existing(f)' : Present(e)' /\ ~Withdrawn(e)'
    <3>1. Untroubled(f) /\ l \in Existing(f) /\ Present(l)
      BY <2>4, <2>5, <2>6, <2>10, ExistingKey
    <3>2. PICK e \in Existing(f) : Present(e) /\ ~Withdrawn(e)
      BY <2>1, <3>1 DEF Patches
    <3>3. CASE e # k
      BY <2>3, <2>4, <2>5, <3>2, <3>3, ExistingKey
    <3>4. CASE e = k
      <4>1. f = k[1]
        BY <3>2, <3>4, ExistingKey
      <4> QED BY <4>1, <3>1, <2>9
    <3> QED BY <3>3, <3>4
  <2>11. Patches'
    BY <2>7, <2>8, <2>10 DEF Patches
  <2>12. ASSUME s.pc = "ensuring"
         PROVE  /\ \A l \in s.doomed : ~PatchHere(l)' /\ (\E m \in IdempotencyKeys : Supersedes(m, l, s.doomed)')
                                       /\ (moves' = 0 => l[3] = Simulated \/ ~Present(l)')
                /\ s.new = {}
    <3>1. old.pc = "ensuring" /\ s.new = {}
      BY <2>12, <1>3, <2>1 DEF SeesActive, Carries
    <3>2. s.doomed \subseteq IdempotencyKeys
      BY <1>1, <2>12, AtWork
    <3>3. ASSUME NEW l \in s.doomed PROVE \E m \in IdempotencyKeys : Supersedes(m, l, s.doomed)'
      <4>1. l \in old.doomed
        BY <3>3, <1>3
      <4>2. PICK m \in IdempotencyKeys : Supersedes(m, l, old.doomed)
        BY <4>1, <3>1, <2>1 DEF DoomedAreSuperseded
      <4>3. m # k /\ Standing(m) /\ m \notin s.doomed /\ m[1] = l[1] /\ m[3] # Simulated
        BY <4>2, <1>3 DEF Supersedes
      <4>4. Standing(m)'
        BY <4>3, <1>1, StandingKept
      <4> QED BY <4>3, <4>4 DEF Supersedes
    <3> QED
      <4>1. ASSUME NEW l \in s.doomed PROVE ~PatchHere(l)' /\ (moves' = 0 => l[3] = Simulated \/ ~Present(l)')
        <5>1. l \in old.doomed /\ l \in IdempotencyKeys
          BY <1>3, <3>2, <4>1
        <5> QED BY <5>1, <3>1, <1>1, <2>1, <2>5 DEF DoomedAreSuperseded
      <4> QED BY <3>1, <3>3, <4>1
  <2>13. DoomedAreSuperseded(s)'
    BY <2>12 DEF DoomedAreSuperseded
  <2>14. ASSUME s.pc = "ensuring", s.whole, NEW g \in Findings \ s.todo, Untroubled(g)' PROVE HasGoverned(g)'
    <3>1. Untroubled(g) /\ HasGoverned(g)
      BY <2>1, <2>6, <2>14, <1>3 DEF Ensures, Carries
    <3>2. CASE g = k[1]
      <4>1. \E e \in Existing(g)' : Present(e)' /\ ~Withdrawn(e)'
        BY <2>9, <3>1, <3>2
      <4> QED BY <4>1 DEF HasGoverned
    <3>3. CASE g # k[1]
      BY <3>1, <3>3, <1>1, GovernedKept
    <3> QED BY <3>2, <3>3
  <2>15. Ensures(s)'
    BY <2>14 DEF Ensures
  <2> QED BY <2>11, <2>13, <2>15 DEF Succession
<1> QED BY <1>5, CommitterSucceeds DEF Rewrites

LEMMA ProposeSucceeds ==
    ASSUME FindingBase, Uncrossed, Moved, NEW r \in Refreshers, NEW s, NEW k, NEW a, Rewrites(r, s, k, a), Proposes(r, s, k, a)
    PROVE  Moved'
<1>1. ActionIs(k, a) /\ finding' = finding /\ repository' = repository /\ moves' = moves /\ k \in IdempotencyKeys /\ Exists(k)
      /\ s \in RefresherStates
  BY ActionRewritten DEF Rewrites, FindingBase
<1>2. PICK old : old = refresher[r]
  OBVIOUS
<1>3. Carries(old, s) /\ k \in old.new /\ s.new = {} /\ old.pc = "ensuring" /\ s.pc = "ensuring"
      /\ s.doomed = IF k[3] = Simulated THEN {} ELSE Doomed(k[1]) \ {k}
  BY <1>2 DEF Proposes, Carries
<1>4. a.status \in CurrentStatuses /\ a.status # "cancelled"
  <2>1. a.status = ProposedStatus(k)
    BY DEF Proposes
  <2> QED BY <2>1, ProposedStatuses DEF CurrentStatuses, Undecided
<1>5. ASSUME crossings = 0, moves < 2 PROVE Patches' /\ Succession(s)'
  <2>1. Patches /\ DoomedAreSuperseded(old) /\ Ensures(old) /\ SeesActive(old)
    BY <1>2, <1>5, RefresherSees DEF Moved, Sight
  <2>2. Patches'
    BY <2>1, <1>1, <1>4, PatchesKept
  <2>3. Present(k) /\ action[k].status = "draft"
    BY <2>1, <1>3 DEF SeesActive
  <2>4. Exists(k)' /\ Present(k)' /\ ~Withdrawn(k)'
    BY <1>1, <1>4, <2>3 DEF ActionIs, Present, Withdrawn
  <2>5. Standing(k)'
    BY <2>4 DEF Standing
  <2>6. ASSUME NEW l \in s.doomed
        PROVE  ~PatchHere(l)' /\ Supersedes(k, l, s.doomed)' /\ (moves' = 0 => l[3] = Simulated \/ ~Present(l)')
    <3>1. k[3] # Simulated /\ l \in IdempotencyKeys /\ l[1] = k[1] /\ l # k /\ Exists(l) /\ k \notin s.doomed
      BY <1>3, <2>6, DoomedFacts DEF IsUndecided
    <3>2. l[3] = repository => ~Present(l)
      <4>1. CASE k[3] = repository
        BY <4>1, <3>1, <2>3, <1>1, KeysDiffer DEF Present
      <4>2. CASE k[3] # repository
        BY <4>2, <3>1, <2>1, <1>3 DEF DoomedAreSuperseded
      <4> QED BY <4>1, <4>2
    <3>3. moves = 0 => l[3] \in {Simulated, repository}
      BY <3>1, <2>1 DEF Patches
    <3>4. Supersedes(k, l, s.doomed)'
      BY <3>1, <2>5 DEF Supersedes
    <3> QED BY <3>2, <3>3, <3>4, <1>1 DEF PatchHere, Present
  <2>7. DoomedAreSuperseded(s)'
    BY <1>1, <1>3, <2>6 DEF DoomedAreSuperseded
  <2>8. ASSUME s.whole, NEW g \in Findings \ s.todo, Untroubled(g)' PROVE HasGoverned(g)'
    <3>1. Untroubled(g)
      BY <2>8, <1>1 DEF Untroubled, IsActive
    <3>2. HasGoverned(g)
      BY <3>1, <2>1, <2>8, <1>3 DEF Ensures, Carries
    <3> QED BY <3>2, <1>1, <1>4, GovernedKept
  <2>9. Ensures(s)'
    BY <2>8 DEF Ensures
  <2> QED BY <2>2, <2>7, <2>9 DEF Succession
<1> QED BY <1>5, CommitterSucceeds DEF Rewrites

\* A commit changes no return of what stays active.
LEMMA CommitPresent ==
    ASSUME FindingBase, FindingBase', Uncrossed, crossings = 0, NEW r \in Refreshers, NEW s, WritesFindings(r, s),
           NEW k \in IdempotencyKeys, Exists(k), Present(k)', IsActive(k[1])'
    PROVE  /\ IsActive(k[1]) /\ Present(k) /\ finding'[k[1]].touched = finding[k[1]].touched
           /\ finding'[k[1]].regression_count = finding[k[1]].regression_count
<1>1. PICK i, j : i = finding[k[1]] /\ j = finding'[k[1]]
  OBVIOUS
<1>2. k[1] \in Findings /\ k[2] \in Nat
  BY KeyParts, RegressionCounts
<1>3. Turned(i, j) /\ i \in Issue /\ j \in Issue
  BY <1>1, <1>2, CommitTurns DEF FindingBase, FindingTypes
<1>4. i.status # "absent" /\ k[2] <= i.regression_count
  BY <1>1, <1>2 DEF Uncrossed, Histories, Existing, Of, Exists
<1>5. i.regression_count \in Nat /\ j.regression_count \in Nat /\ i.status \in {"open", "regressed", "absent", "resolved", "dismissed"}
  BY <1>3, IssueFacts, RegressionCounts
<1>6. k[2] = j.regression_count /\ j.status \in ActiveFindingStatuses
  BY <1>1 DEF Present, IsActive
<1>7. i.status \in ActiveFindingStatuses
  <2>1. CASE i.status = "resolved"
    <3>1. j.regression_count = i.regression_count + 1
      BY <2>1, <1>3, <1>6 DEF Turned, ActiveFindingStatuses
    <3> QED BY <3>1, <1>4, <1>5, <1>6
  <2>2. CASE i.status = "dismissed"
    BY <2>2, <1>3, <1>6 DEF Turned, ActiveFindingStatuses
  <2> QED BY <2>1, <2>2, <1>4, <1>5 DEF ActiveFindingStatuses
<1>8. j.regression_count = i.regression_count /\ j.touched = i.touched
  BY <1>3, <1>4, <1>7 DEF Turned
<1> QED BY <1>1, <1>6, <1>7, <1>8 DEF IsActive, Present

LEMMA CommitSucceeds ==
    ASSUME FindingBase, FindingBase', Uncrossed, Moved, NEW r \in Refreshers, NEW s, WritesFindings(r, s)
    PROVE  Moved'
<1>1. s \in RefresherStates /\ refresher' = [refresher EXCEPT ![r] = s] /\ Commits(Refreshers \ {r}) /\ moves' = moves
      /\ action' = action /\ repository' = repository /\ s.pc = "stale"
  BY DEF WritesFindings
<1>2. ASSUME crossings = 0, moves < 2 PROVE Patches' /\ Succession(s)'
  <2>1. Patches
    BY <1>2 DEF Moved
  <2>2. ASSUME NEW k \in IdempotencyKeys, Exists(k), Present(k)', Untroubled(k[1])' PROVE Present(k) /\ Untroubled(k[1])
    BY <1>2, <2>2, CommitPresent DEF Untroubled
  <2>3. \A k \in IdempotencyKeys : Exists(k)' /\ PatchHere(k)' /\ Untroubled(k[1])' => ~Withdrawn(k)'
    BY <1>1, <2>1, <2>2 DEF Patches, Exists, PatchHere, Withdrawn
  <2>4. ASSUME NEW f \in Findings, Untroubled(f)', NEW l \in Existing(f)', Present(l)' PROVE \E e \in Existing(f)' : Present(e)' /\ ~Withdrawn(e)'
    <3>1. l \in Existing(f) /\ \A e \in IdempotencyKeys : Withdrawn(e)' <=> Withdrawn(e)
      BY <1>1, <2>4 DEF Existing, Of, Withdrawn
    <3>2. l \in IdempotencyKeys /\ l[1] = f /\ Exists(l)
      BY <3>1, ExistingKey
    <3>3. Present(l) /\ Untroubled(f)
      BY <2>2, <2>4, <3>2
    <3>4. finding'[f].regression_count = finding[f].regression_count
      BY <1>2, <2>4, <3>2, CommitPresent DEF Untroubled
    <3>5. PICK e \in Existing(f) : Present(e) /\ ~Withdrawn(e)
      BY <2>1, <3>1, <3>3 DEF Patches
    <3>6. e \in Existing(f)' /\ e[1] = f /\ e \in IdempotencyKeys
      BY <1>1, <3>5, ExistingKey DEF Existing, Of
    <3> QED BY <3>1, <3>4, <3>5, <3>6 DEF Present
  <2>5. moves' = 0 => \A k \in IdempotencyKeys : Exists(k)' => k[3] \in {Simulated, repository'}
    BY <1>1, <2>1 DEF Patches, Exists
  <2>6. Patches'
    BY <2>3, <2>4, <2>5 DEF Patches
  <2> QED BY <2>6, <1>1, SuccessionAtRest
<1> QED BY <1>1, <1>2, CommitterSucceeds

LEMMA MoveSucceeds ==
    ASSUME FindingBase, FindingBase', Uncrossed, Moved, moves' = moves + 1, moves \in Nat, repository' # repository,
           UNCHANGED <<finding, action, refresher, crossings>>
    PROVE  Moved'
<1>1. SUFFICES ASSUME crossings = 0, moves = 0
               PROVE  Patches' /\ \A q \in Refreshers : DoomedAreSuperseded(refresher[q])' /\ Ensures(refresher[q])'
  BY DEF Moved
<1>2. Patches /\ \A l \in IdempotencyKeys : Exists(l) => l[3] \in {Simulated, repository}
  BY <1>1 DEF Moved, Patches
<1>3. \A l \in IdempotencyKeys : Exists(l) => ~PatchHere(l)'
  BY <1>2 DEF PatchHere
<1>4. Simulated # repository'
  BY SimulatedIsNoRepository DEF FindingBase, FindingTypes
<1>5. \A l \in IdempotencyKeys : (Exists(l)' <=> Exists(l)) /\ (Present(l)' <=> Present(l)) /\ (Withdrawn(l)' <=> Withdrawn(l)) /\ (Standing(l)' <=> Standing(l))
  BY DEF Exists, Present, Withdrawn, Standing
<1>6. \A f \in Findings : Existing(f)' = Existing(f) /\ (Untroubled(f)' <=> Untroubled(f)) /\ (HasGoverned(f)' <=> HasGoverned(f))
  BY DEF Existing, Of, Untroubled, IsActive, HasGoverned, Present, Withdrawn
<1>7. Patches'
  <2>1. moves' # 0
    BY <1>1
  <2>2. \A k \in IdempotencyKeys : Exists(k)' /\ PatchHere(k)' /\ Untroubled(k[1])' => ~Withdrawn(k)'
    BY <1>3, <1>5
  <2>3. ASSUME NEW f \in Findings, Untroubled(f)', NEW l \in Existing(f)', Present(l)' PROVE \E e \in Existing(f)' : Present(e)' /\ ~Withdrawn(e)'
    <3>1. l \in Existing(f) /\ Present(l) /\ Untroubled(f)
      BY <1>5, <1>6, <2>3, ExistingKey
    <3>2. PICK e \in Existing(f) : Present(e) /\ ~Withdrawn(e)
      BY <3>1, <1>2 DEF Patches
    <3> QED BY <1>5, <1>6, <3>2, ExistingKey
  <2> QED BY <2>1, <2>2, <2>3 DEF Patches
<1>8. ASSUME NEW q \in Refreshers PROVE DoomedAreSuperseded(refresher[q])' /\ Ensures(refresher[q])'
  <2>1. PICK t : t = refresher[q]
    OBVIOUS
  <2>2. t \in RefresherStates /\ SeesActive(t) /\ DoomedAreSuperseded(t) /\ Ensures(t) /\ refresher'[q] = t
    BY <2>1, <1>1, RefresherSees DEF FindingBase, FindingTypes, Sight, Moved
  <2>3. ASSUME t.pc = "ensuring", NEW l \in t.doomed
        PROVE  ~PatchHere(l)' /\ \E m \in IdempotencyKeys : Supersedes(m, l, t.doomed)'
    <3>1. l \in IdempotencyKeys /\ Exists(l)
      BY <2>2, <2>3, AtWork DEF SeesActive, IsUndecided
    <3>2. PICK m \in IdempotencyKeys : Supersedes(m, l, t.doomed)
      BY <2>2, <2>3 DEF DoomedAreSuperseded
    <3>3. Supersedes(m, l, t.doomed)'
      BY <3>2, <1>5 DEF Supersedes
    <3> QED BY <3>1, <3>3, <1>3
  <2>4. ASSUME t.pc = "ensuring", NEW k \in t.new
        PROVE  k[3] = Simulated \/ \A l \in IdempotencyKeys : l[1] = k[1] /\ l[3] = repository' => ~(Exists(l)' /\ Present(l)')
    BY <1>2, <1>4, <1>5
  <2>5. DoomedAreSuperseded(t)'
    <3>1. moves' # 0
      BY <1>1
    <3> QED BY <2>3, <2>4, <3>1 DEF DoomedAreSuperseded
  <2>6. Ensures(t)'
    BY <2>2, <1>6 DEF Ensures
  <2> QED BY <2>2, <2>5, <2>6, SuccessionOf DEF Succession
<1> QED BY <1>7, <1>8

LEMMA UserSetsSucceeds ==
    ASSUME FindingBase, Moved, NEW f, NEW status, UserSets(f, status), Between
    PROVE  Moved'
<1>1. SUFFICES ASSUME crossings' = 0, moves' < 2
               PROVE  Patches' /\ \A q \in Refreshers : DoomedAreSuperseded(refresher[q])' /\ Ensures(refresher[q])'
  BY DEF Moved
<1>2. \A q \in Refreshers : DoomedAreSuperseded(refresher[q])' /\ Ensures(refresher[q])'
  <2>1. \A q \in Refreshers : refresher'[q].pc = "idle"
    BY <1>1, BetweenIsCalm
  <2> QED BY <2>1 DEF DoomedAreSuperseded, Ensures
<1>3. Patches
  BY <1>1, BetweenIsCalm DEF Moved, Between
<1>4. action' = action /\ repository' = repository /\ moves' = moves /\ \A g \in Findings : Untroubled(g)' => Untroubled(g) /\ finding'[g] = finding[g]
  BY DEF UserSets, Between, Untroubled, IsActive
<1>5. \A k \in IdempotencyKeys : Exists(k)' /\ PatchHere(k)' /\ Untroubled(k[1])' => ~Withdrawn(k)'
  BY <1>3, <1>4, KeyParts DEF Patches, Exists, PatchHere, Present, Withdrawn
<1>6. ASSUME NEW g \in Findings, Untroubled(g)', NEW l \in Existing(g)', Present(l)' PROVE \E e \in Existing(g)' : Present(e)' /\ ~Withdrawn(e)'
  <2>1. Existing(g)' = Existing(g) /\ finding'[g] = finding[g] /\ Untroubled(g)
    BY <1>4, <1>6 DEF Existing, Of
  <2>2. l \in Existing(g) /\ Present(l)
    BY <1>6, <2>1, ExistingKey DEF Present
  <2>3. PICK e \in Existing(g) : Present(e) /\ ~Withdrawn(e)
    BY <1>3, <2>1, <2>2 DEF Patches
  <2> QED BY <1>4, <2>1, <2>3, ExistingKey DEF Present, Withdrawn
<1>7. moves' = 0 => \A k \in IdempotencyKeys : Exists(k)' => k[3] \in {Simulated, repository'}
  BY <1>3, <1>4 DEF Patches, Exists
<1>8. Patches'
  BY <1>5, <1>6, <1>7 DEF Patches
<1> QED BY <1>2, <1>8

LEMMA UserRewritesSucceeds ==
    ASSUME FindingBase, Moved, NEW k, NEW a, UserRewrites(k, a), Between
    PROVE  Moved'
<1>1. SUFFICES ASSUME crossings' = 0, moves' < 2
               PROVE  Patches' /\ \A q \in Refreshers : DoomedAreSuperseded(refresher[q])' /\ Ensures(refresher[q])'
  BY DEF Moved
<1>2. \A q \in Refreshers : DoomedAreSuperseded(refresher[q])' /\ Ensures(refresher[q])'
  <2>1. \A q \in Refreshers : refresher'[q].pc = "idle"
    BY <1>1, BetweenIsCalm
  <2> QED BY <2>1 DEF DoomedAreSuperseded, Ensures
<1>3. Patches
  BY <1>1, BetweenIsCalm DEF Moved, Between
<1>4. Patches'
  BY <1>3, PatchesKept DEF UserRewrites, Between
<1> QED BY <1>2, <1>4
-----------------------------------------------------------------------------
\* Nothing disturbs the refreshes: the budget comes round.

LEMMA FallbackKey ==
    ASSUME FindingTypes, NEW f \in Findings
    PROVE  Fallback(f) \in IdempotencyKeys /\ Fallback(f)[1] = f /\ Present(Fallback(f)) /\ Fallback(f)[3] = Simulated
<1>1. finding[f].regression_count \in Regressions
  BY IssueFacts DEF FindingTypes
<1>2. PICK k : k = <<f, finding[f].regression_count, Simulated>>
  OBVIOUS
<1>3. k \in IdempotencyKeys /\ k[1] = f /\ k[2] = finding[f].regression_count /\ k[3] = Simulated
  BY <1>1, <1>2 DEF IdempotencyKeys
<1> QED BY <1>2, <1>3 DEF Fallback, Present

LEMMA FallbackIs ==
    ASSUME NEW k \in IdempotencyKeys, Present(k), k[3] = Simulated
    PROVE  k = Fallback(k[1])
BY KeyParts DEF Present, Fallback

Settles == FindingBase /\ Uncrossed /\ Current /\ Moved /\ Quiet /\ Undisturbed

LEMMA PatchableFindings == Patchable \subseteq Findings
BY ConstantsAre

LEMMA QuietPatches ==
    ASSUME Settles, NEW k \in IdempotencyKeys, Exists(k)
    PROVE  k[3] \in {Simulated, repository}
BY DEF Settles, Quiet, Moved, Patches

LEMMA OnePatch ==
    ASSUME Settles, NEW k \in IdempotencyKeys, NEW l \in IdempotencyKeys, Exists(k), Exists(l), Present(k), Present(l),
           k[1] = l[1], k[3] # Simulated, l[3] # Simulated
    PROVE  k = l
<1>1. k[3] = repository /\ l[3] = repository
  BY QuietPatches
<1>2. k[2] = l[2]
  BY DEF Present
<1> QED BY <1>1, <1>2, KeysDiffer

LEMMA CurrentIsPresent ==
    ASSUME Settles, NEW f \in Patchable, IsActive(f), NEW k \in Having(f, CurrentStatuses)
    PROVE  k \in IdempotencyKeys /\ k[1] = f /\ Exists(k) /\ Present(k) /\ action[k].status \in Undecided
<1>1. k \in IdempotencyKeys /\ k[1] = f /\ Exists(k) /\ action[k].status \in CurrentStatuses
  BY DEF Having, Existing, Of, Exists
<1>2. action[k].status \in Undecided
  BY <1>1 DEF Settles, Undisturbed, ActionsUntouched, CurrentStatuses, Undecided
<1>3. ASSUME NEW r \in Refreshers PROVE ~Ends(refresher[r], k)
  <2>1. SeesStale(refresher[r])
    BY RefresherSees DEF Settles, Quiet, Sight
  <2> QED BY <1>1, <2>1 DEF SeesStale, Ends, IsActive, ActiveFindingStatuses
<1>4. ~finding[f].touched
  BY PatchableFindings DEF Settles, Undisturbed, FindingsUntouched
<1>5. Present(k)
  BY <1>1, <1>2, <1>3, <1>4 DEF Settles, Current, Quiet, IsUndecided
<1> QED BY <1>1, <1>2, <1>5

LEMMA PatchedIsReady ==
    ASSUME Settles, NEW f \in Patchable, IsActive(f), Patched(f)
    PROVE  Ready(f)
<1>1. PICK k \in Existing(f) : Present(k) /\ k[3] # Simulated
  BY DEF Patched
<1>2. k \in IdempotencyKeys /\ k[1] = f /\ Exists(k)
  BY <1>1, ExistingKey
<1>3. action[k].status \in Undecided
  BY <1>1, <1>2 DEF Settles, Undisturbed, PresentStand
<1>4. k \in Having(f, CurrentStatuses) /\ action[k].status # "blocked"
  BY <1>1, <1>3 DEF Having, CurrentStatuses, Undecided
<1>5. ASSUME NEW l \in Having(f, CurrentStatuses) PROVE action[l].born <= action[k].born
  <2>1. l \in IdempotencyKeys /\ l[1] = f /\ Exists(l) /\ Present(l)
    BY CurrentIsPresent
  <2>2. action[l].born \in Nat /\ action[k].born \in Nat
    BY <1>2, <2>1, ExistingAction DEF Settles, FindingBase
  <2>3. CASE l[3] = Simulated
    <3>1. action[l].born < action[k].born
      BY <1>1, <1>2, <2>1, <2>3 DEF Settles, Undisturbed, PatchesFollow
    <3> QED BY <3>1, <2>2
  <2>4. CASE l[3] # Simulated
    <3>1. l = k
      BY <1>1, <1>2, <2>1, <2>4, OnePatch
    <3> QED BY <3>1, <2>2
  <2> QED BY <2>3, <2>4
<1>6. k \in LatestActions(f)
  BY <1>4, <1>5 DEF LatestActions
<1>7. k[3] = repository /\ repository # Unmapped
  BY <1>1, <1>2, QuietPatches, KeyParts, SimulatedIsNoRepository
<1> QED BY <1>1, <1>4, <1>6, <1>7 DEF Ready

LEMMA ReadyIsPatched ==
    ASSUME Settles, NEW f \in Patchable, IsActive(f), Ready(f)
    PROVE  Patched(f) /\ Settled(f)
<1>1. PICK k \in LatestActions(f) : k[3] # Simulated
  BY DEF Ready
<1>2. k \in Having(f, CurrentStatuses)
  BY <1>1 DEF LatestActions
<1>3. k \in Existing(f)
  BY <1>2 DEF Having
<1>4. Present(k)
  BY <1>2, CurrentIsPresent
<1> QED BY <1>1, <1>3, <1>4 DEF Patched, Settled

LEMMA LatestIsFallback ==
    ASSUME Settles, NEW f \in Patchable, IsActive(f), ~Patched(f), Exists(Fallback(f))
    PROVE  LatestActions(f) = {Fallback(f)}
<1>1. /\ Fallback(f) \in IdempotencyKeys /\ Fallback(f)[1] = f /\ Present(Fallback(f)) /\ Fallback(f)[3] = Simulated /\ f \in Findings
  BY FallbackKey, PatchableFindings DEF Settles, FindingBase
<1>2. PICK k : k = Fallback(f)
  OBVIOUS
<1>3. action[k].status \in Undecided
  BY <1>1, <1>2 DEF Settles, Undisturbed, PresentStand
<1>4. k \in Having(f, CurrentStatuses)
  BY <1>1, <1>2, <1>3 DEF Having, Existing, Of, Exists, CurrentStatuses
<1>5. ASSUME NEW l \in Having(f, CurrentStatuses) PROVE l = k
  <2>1. l \in IdempotencyKeys /\ l[1] = f /\ Exists(l) /\ Present(l)
    BY CurrentIsPresent
  <2>2. l[3] = Simulated
    <3>1. l \in Existing(f)
      BY <1>5 DEF Having
    <3> QED BY <3>1, <2>1 DEF Patched
  <2> QED BY <1>2, <2>1, <2>2, FallbackIs
<1>6. action[k].born \in Nat
  BY <1>1, <1>2, ExistingAction DEF Settles, FindingBase
<1>7. action[k].born <= action[k].born
  BY <1>6
<1>8. LatestActions(f) = {k}
  BY <1>4, <1>5, <1>7 DEF LatestActions
<1> QED BY <1>2, <1>8

LEMMA PutOffFacts ==
    ASSUME Settles, NEW f \in PutOff
    PROVE  f \in Patchable /\ f \in Findings /\ IsActive(f) /\ ~Patched(f) /\ ~Ready(f) /\ Deferred(f) /\ deferrals[f] = 1 /\ ~Settled(f)
<1>1. Waits(f)
  BY DEF Settles, Undisturbed
<1>2. LatestActions(f) = {Fallback(f)}
  BY <1>1, LatestIsFallback DEF Waits
<1>3. Deferred(f)
  BY <1>1, <1>2 DEF Deferred, Waits
<1>4. ~Ready(f)
  BY <1>1, ReadyIsPatched DEF Waits
<1> QED BY <1>1, <1>3, <1>4, PatchableFindings DEF Waits, Settled

LEMMA FirstIsCandidate ==
    ASSUME Settles, NEW f \in Patchable, IsActive(f), ~Ready(f), Deferred(f)
    PROVE  f \in Candidates
<1>1. ~Patched(f)
  BY PatchedIsReady
<1>2. ASSUME Exists(Fallback(f)), action[Fallback(f)].reason = "declined" PROVE FALSE
  <2>1. Fallback(f) \in LatestActions(f)
    BY <1>1, <1>2, LatestIsFallback
  <2> QED BY <1>2, <2>1 DEF Deferred
<1>3. ~Settled(f)
  BY <1>1, <1>2 DEF Settled
<1> QED BY <1>3 DEF Candidates, Unsettled, SettledPatches

\* Counting.
LEMMA FinitePatchable ==
    ASSUME EnoughPlans, NEW S, S \subseteq Patchable
    PROVE  IsFiniteSet(S) /\ Cardinality(S) \in Nat
BY FS_Subset, FS_CardinalityType DEF EnoughPlans

LEMMA CountedPlans ==
    ASSUME EnoughPlans, NEW S, NEW T, T \subseteq Patchable, S \subseteq T
    PROVE  Cardinality(S) <= Cardinality(T)
<1>1. IsFiniteSet(T)
  BY FinitePatchable
<1>2. S \in SUBSET T
  OBVIOUS
<1> QED BY <1>1, <1>2, FS_Subset

LEMMA OneFewer ==
    ASSUME EnoughPlans, NEW T, T \subseteq Patchable, NEW f \in T
    PROVE  Cardinality(T \ {f}) = Cardinality(T) - 1 /\ Cardinality(T) >= 1
<1>1. IsFiniteSet(T) /\ Cardinality(T) \in Nat
  BY FinitePatchable
<1>2. Cardinality(T \ {f}) = Cardinality(T) - 1
  BY <1>1, FS_RemoveElement
<1>3. Cardinality(T \ {f}) \in Nat
  BY FinitePatchable
<1> QED BY <1>1, <1>2, <1>3

LEMMA OneMore ==
    ASSUME EnoughPlans, NEW S, S \subseteq Patchable, NEW f \in Patchable, f \notin S
    PROVE  Cardinality(S \cup {f}) = Cardinality(S) + 1
BY FinitePatchable, FS_AddElement

LEMMA TheRest ==
    ASSUME EnoughPlans, NEW S, S \subseteq Patchable, Cardinality(S) >= PlanLimit
    PROVE  Cardinality(Patchable \ S) <= PlanLimit
<1>1. IsFiniteSet(Patchable) /\ Cardinality(Patchable) \in Nat /\ Cardinality(S) \in Nat /\ Cardinality(Patchable \ S) \in Nat
  BY FinitePatchable
<1>2. Cardinality(Patchable \ S) = Cardinality(Patchable) - Cardinality(Patchable \cap S)
  BY <1>1, FS_Difference
<1>3. Cardinality(Patchable \cap S) = Cardinality(S)
  <2>1. Patchable \cap S = S
    OBVIOUS
  <2> QED BY <2>1
<1>4. PlanLimit \in Nat /\ Cardinality(Patchable) <= 2 * PlanLimit
  BY ConstantsAre DEF EnoughPlans
<1>5. PICK all, some, rest : all = Cardinality(Patchable) /\ some = Cardinality(S) /\ rest = Cardinality(Patchable \ S)
  OBVIOUS
<1>6. all \in Nat /\ some \in Nat /\ rest \in Nat /\ rest = all - some /\ some >= PlanLimit /\ all <= 2 * PlanLimit
  BY <1>1, <1>2, <1>3, <1>4, <1>5
<1>7. rest <= PlanLimit
  BY <1>4, <1>6
<1> QED BY <1>5, <1>7
-----------------------------------------------------------------------------
\* What nothing disturbs, step by step.

LEMMA PlansAtRest ==
    ASSUME NEW s, s.pc \notin {"stale", "ensuring"}
    PROVE  Plans(s) /\ Plans(s)' /\ ~PastCommit(s)
BY DEF Plans, PastCommit

LEMMA PlansOf ==
    ASSUME NEW q, NEW s, refresher'[q] = s, Plans(s)'
    PROVE  Plans(refresher[q])'
BY DEF Plans

LEMMA DisturbedKept ==
    ASSUME finding' = finding, action' = action, deferrals' = deferrals
    PROVE  /\ Undisturbed => Undisturbed'
           /\ PutOff' = PutOff /\ Unsettled' = Unsettled /\ Candidates' = Candidates /\ SettledPatches' = SettledPatches
<1>1. PutOff' = PutOff
  BY DEF PutOff
<1>2. SettledPatches' = SettledPatches
  BY DEF SettledPatches, Settled, IsActive, Patched, Exists, Present, Existing, Of, Fallback
<1>3. Unsettled' = Unsettled
  BY <1>2 DEF Unsettled
<1>4. Candidates' = Candidates
  BY <1>3 DEF Candidates, IsActive
<1>5. ASSUME Undisturbed PROVE Undisturbed'
  <2>1. FindingsUntouched' /\ ActionsUntouched'
    BY <1>5 DEF Undisturbed, FindingsUntouched, ActionsUntouched, Exists
  <2>2. PresentStand' /\ PatchesFollow'
    BY <1>5 DEF Undisturbed, PresentStand, PatchesFollow, Exists, IsActive, Present, Patched, Existing, Of
  <2>3. \A f \in PutOff' : Waits(f)'
    BY <1>5, <1>1 DEF Undisturbed, Waits, Exists, IsActive, Present, Patched, Existing, Of, Fallback
  <2> QED BY <2>1, <2>2, <2>3 DEF Undisturbed
<1> QED BY <1>1, <1>2, <1>3, <1>4, <1>5

LEMMA PlansKept ==
    ASSUME NEW s, Plans(s), PutOff' = PutOff, Candidates' = Candidates, SettledPatches' = SettledPatches
    PROVE  Plans(s)'
BY DEF Plans

\* Only the refresher moves.
LEMMA BudgetAlone ==
    ASSUME FindingBase, Budgets, NEW r \in Refreshers, NEW s, Alone(r, s), deferrals' = deferrals, AloneNotInterrupted,
           Quiet /\ interruptions' = interruptions =>
               /\ Plans(s) /\ (PastCommit(s) => PastCommit(refresher[r]))
               /\ PastCommit(refresher[r]) /\ ~PastCommit(s) /\ PutOff # {} => Cardinality(Unsettled) <= PlanLimit
    PROVE  Budgets'
<1>1. SUFFICES ASSUME Quiet' PROVE Budgets'
  BY DEF Budgets
<1>2. /\ finding' = finding /\ action' = action /\ deferrals' = deferrals /\ interruptions' = interruptions
      /\ s \in RefresherStates /\ refresher' = [refresher EXCEPT ![r] = s]
  BY <1>1 DEF Alone, AloneNotInterrupted, Quiet
<1>3. Quiet
  BY <1>1, <1>2 DEF Quiet, Alone, EnoughPlans
<1>4. /\ Undisturbed' /\ PutOff' = PutOff /\ Unsettled' = Unsettled /\ Candidates' = Candidates /\ SettledPatches' = SettledPatches
  BY <1>2, <1>3, DisturbedKept DEF Budgets
<1>5. refresher'[r] = s /\ \A q \in Refreshers \ {r} : refresher'[q] = refresher[q]
  BY <1>2, RefresherGoes DEF FindingBase
<1>6. ASSUME NEW q \in Refreshers PROVE Plans(refresher[q])'
  <2>1. PICK t : t = refresher'[q]
    OBVIOUS
  <2>2. Plans(t)
    BY <2>1, <1>2, <1>3, <1>5 DEF Budgets
  <2> QED BY <2>1, <2>2, <1>4, PlansKept, PlansOf
<1>7. ASSUME NEW q \in Refreshers, PastCommit(refresher'[q]) PROVE PastCommit(refresher[q])
  BY <1>2, <1>3, <1>5, <1>7
<1>8. \A q, p \in Refreshers : PastCommit(refresher'[q]) /\ PastCommit(refresher'[p]) => q = p
  BY <1>3, <1>7 DEF Budgets
<1>9. ASSUME NobodyPast', PutOff' # {} PROVE Cardinality(Unsettled') <= PlanLimit
  <2>1. ~PastCommit(s)
    BY <1>9, <1>5 DEF NobodyPast, PastCommit
  <2>2. \A q \in Refreshers \ {r} : ~PastCommit(refresher[q])
    BY <1>9, <1>5 DEF NobodyPast, PastCommit
  <2>3. Cardinality(Unsettled) <= PlanLimit
    <3>1. CASE PastCommit(refresher[r])
      BY <3>1, <2>1, <1>2, <1>3, <1>4, <1>9
    <3>2. CASE ~PastCommit(refresher[r])
      BY <3>2, <2>2, <1>3, <1>4, <1>9 DEF NobodyPast, Budgets
    <3> QED BY <3>1, <3>2
  <2> QED BY <2>3, <1>4
<1> QED BY <1>4, <1>6, <1>8, <1>9 DEF Budgets, PastCommit

\* What commits and crosses nothing is alone at work.
LEMMA BudgetCommitter ==
    ASSUME FindingBase, Budgets, NEW r \in Refreshers, NEW s \in RefresherStates, refresher' = [refresher EXCEPT ![r] = s],
           Commits(Refreshers \ {r}), moves' = moves, decisions' = decisions, interruptions' = interruptions,
           Quiet /\ OthersIdle(Refreshers \ {r}) =>
               /\ Undisturbed' /\ Plans(s)'
               /\ ~PastCommit(s) /\ PutOff' # {} => Cardinality(Unsettled)' <= PlanLimit
    PROVE  Budgets'
<1>1. SUFFICES ASSUME Quiet' PROVE Budgets'
  BY DEF Budgets
<1>2. crossings = 0 /\ OthersIdle(Refreshers \ {r})
  BY <1>1, CommitsFacts DEF FindingBase, Quiet
<1>3. Quiet
  BY <1>1, <1>2 DEF Quiet, EnoughPlans
<1>4. Undisturbed' /\ Plans(s)' /\ (~PastCommit(s) /\ PutOff' # {} => Cardinality(Unsettled)' <= PlanLimit)
  BY <1>2, <1>3
<1>5. refresher'[r] = s /\ \A q \in Refreshers \ {r} : refresher'[q] = refresher[q]
  BY RefresherGoes DEF FindingBase
<1>6. ASSUME NEW q \in Refreshers PROVE Plans(refresher[q])' /\ (q # r => ~PastCommit(refresher'[q]))
  <2>1. PICK t : t = refresher'[q]
    OBVIOUS
  <2>2. CASE q = r
    BY <2>1, <2>2, <1>4, <1>5, PlansOf
  <2>3. CASE q # r
    <3>1. t.pc = "idle"
      BY <2>1, <2>3, <1>2, <1>5 DEF OthersIdle
    <3>2. Plans(t)' /\ ~PastCommit(t)
      BY <3>1, PlansAtRest
    <3> QED BY <3>2, <2>1, PlansOf
  <2> QED BY <2>2, <2>3
<1>7. \A q, p \in Refreshers : PastCommit(refresher'[q]) /\ PastCommit(refresher'[p]) => q = p
  BY <1>6
<1>8. ASSUME NobodyPast', PutOff' # {} PROVE Cardinality(Unsettled)' <= PlanLimit
  <2>1. ~PastCommit(s)
    BY <1>8, <1>5 DEF NobodyPast, PastCommit
  <2> QED BY <2>1, <1>4, <1>8
<1> QED BY <1>4, <1>6, <1>7, <1>8 DEF Budgets, PastCommit

LEMMA QuietSettles ==
    ASSUME FindingInv, Quiet
    PROVE  Settles /\ EnoughPlans
BY DEF FindingInv, Budgets, Settles, Quiet

LEMMA ReadBudgets ==
    ASSUME FindingInv, NEW r \in Refreshers, NEW s, Alone(r, s), Reads(r, s), Calm
    PROVE  Budgets'
<1>1. s.pc = "reconciling" /\ refresher[r].pc = "idle"
  BY DEF Reads
<1>2. Plans(s) /\ ~PastCommit(s) /\ ~PastCommit(refresher[r])
  BY <1>1, PlansAtRest
<1> QED BY <1>2, BudgetAlone DEF FindingInv, Calm, AloneNotInterrupted

LEMMA StaleBudgets ==
    ASSUME FindingInv, NEW r \in Refreshers, NEW s, Alone(r, s), StaleTurns(r, s), Calm
    PROVE  Budgets'
<1>1. s.pc = "stale" /\ refresher[r].pc = "stale"
  BY DEF StaleTurns
<1>2. PastCommit(s) /\ PastCommit(refresher[r])
  BY <1>1 DEF PastCommit
<1>3. Quiet => Plans(s)
  BY <1>1 DEF FindingInv, Budgets, Plans
<1> QED BY <1>2, <1>3, BudgetAlone DEF FindingInv, Calm, AloneNotInterrupted

LEMMA AskBudgets ==
    ASSUME FindingInv, NEW r \in Refreshers, NEW f, NEW s, Alone(r, s), Asks(r, s, f), Calm
    PROVE  Budgets'
<1>1. s.pc = "ensuring" /\ ~s.whole /\ refresher[r].pc = "idle" /\ s.limit = 1 /\ s.planned = 0 /\ s.todo = {f} /\ f \in Findings
  BY DEF Asks
<1>2. Plans(s) /\ ~PastCommit(s)
  BY <1>1 DEF PastCommit, Plans
<1>3. ~PastCommit(refresher[r])
  BY <1>1 DEF PastCommit
<1> QED BY <1>2, <1>3, BudgetAlone DEF FindingInv, Calm, AloneNotInterrupted

LEMMA CollectBudgets ==
    ASSUME FindingInv, NEW r \in Refreshers, NEW s, Alone(r, s), Collects(r, s), Calm
    PROVE  Budgets'
<1>1. /\ s.pc = "ensuring" /\ s.whole /\ refresher[r].pc = "stale" /\ s.limit = PlanLimit /\ s.planned = 0
      /\ s.todo = {f \in Findings : IsActive(f) /\ ~Ready(f)} /\ s.first = {f \in Findings : IsActive(f) /\ Deferred(f)}
  BY DEF Collects
<1>2. PastCommit(s) /\ PastCommit(refresher[r])
  BY <1>1 DEF PastCommit
<1>3. ASSUME Quiet PROVE Plans(s)
  <2>0. Settles /\ EnoughPlans
    BY <1>3, QuietSettles
  <2>1. PutOff \subseteq s.todo /\ PutOff \subseteq s.first
    BY <2>0, <1>1, PutOffFacts
  <2>2. ASSUME PutOff # {} PROVE s.planned + Cardinality(s.todo \cap s.first \cap Patchable) <= PlanLimit
    <3>1. Cardinality(Candidates) <= PlanLimit
      BY <2>2, <1>1, <1>3 DEF FindingInv, Budgets, Plans
    <3>2. PICK S : S = s.todo \cap s.first \cap Patchable
      OBVIOUS
    <3>3. S \subseteq Candidates
      BY <3>2, <2>0, <1>1, FirstIsCandidate
    <3>4. Candidates \subseteq Patchable
      BY DEF Candidates, Unsettled
    <3>5. Cardinality(S) <= Cardinality(Candidates)
      BY <3>3, <3>4, <2>0, CountedPlans
    <3>6. Cardinality(S) \in Nat /\ Cardinality(Candidates) \in Nat
      BY <3>3, <3>4, <2>0, FinitePatchable
    <3>7. 0 + Cardinality(S) <= PlanLimit
      BY <3>1, <3>5, <3>6, ConstantsAre
    <3> QED BY <3>2, <3>7, <1>1
  <2>3. s.planned <= Cardinality(SettledPatches \ s.todo)
    <3>1. Cardinality(SettledPatches \ s.todo) \in Nat
      BY <2>0, FinitePatchable DEF SettledPatches
    <3> QED BY <3>1, <1>1
  <2> QED BY <2>1, <2>2, <2>3, <1>1 DEF Plans
<1> QED BY <1>2, <1>3, BudgetAlone DEF FindingInv, Calm, AloneNotInterrupted

LEMMA RestBudgets ==
    ASSUME FindingInv, NEW r \in Refreshers, NEW s, Alone(r, s), Rests(r, s), deferrals' = deferrals, AloneNotInterrupted,
           interruptions' = 0 => refresher[r].pc = "ensuring" /\ refresher[r].todo = {}
    PROVE  Budgets'
<1>1. Plans(s) /\ ~PastCommit(s)
  BY PlansAtRest, WorkingState DEF Rests
<1>2. ASSUME Quiet, interruptions' = interruptions, PastCommit(refresher[r]), PutOff # {} PROVE Cardinality(Unsettled) <= PlanLimit
  <2>1. refresher[r].pc = "ensuring" /\ refresher[r].todo = {} /\ refresher[r].whole
    BY <1>2 DEF Quiet, PastCommit
  <2>2. PICK old : old = refresher[r]
    OBVIOUS
  <2>3. Plans(old) /\ old.planned \in Nat /\ EnoughPlans
    BY <1>2, <2>1, <2>2, AtWork, QuietSettles DEF FindingInv, Budgets, FindingBase, FindingTypes
  <2>4. PutOff \ old.todo # {} /\ SettledPatches \ old.todo = SettledPatches
    BY <1>2, <2>1, <2>2
  <2>5. old.planned <= Cardinality(SettledPatches) /\ old.planned >= PlanLimit
    BY <2>1, <2>2, <2>3, <2>4 DEF Plans
  <2>6. SettledPatches \subseteq Patchable
    BY DEF SettledPatches
  <2>7. Cardinality(SettledPatches) \in Nat
    BY <2>3, <2>6, FinitePatchable
  <2>8. Cardinality(SettledPatches) >= PlanLimit
    BY <2>3, <2>5, <2>7, ConstantsAre
  <2> QED BY <2>3, <2>6, <2>8, TheRest DEF Unsettled
<1> QED BY <1>1, <1>2, BudgetAlone DEF FindingInv
-----------------------------------------------------------------------------
\* What a plan costs.  P and Q are what is put off, S and T what is settled,
\* before and after the planning of f.

Elsewhere(f, P, Q) == \A g : g # f => (g \in Q <=> g \in P)
Budgeted(P, S, todo, first, n) ==
    /\ P \cap todo \subseteq first
    /\ P \cap todo # {} => n + Cardinality(todo \cap first \cap Patchable) <= PlanLimit
    /\ n <= Cardinality(S \ todo)
    /\ P \ todo # {} => n >= PlanLimit

LEMMA PlanCounts ==
    ASSUME EnoughPlans, NEW P, NEW Q, NEW S, NEW T, S \subseteq Patchable, T \subseteq Patchable,
           NEW todo, NEW first, NEW f \in todo, NEW n \in Nat, NEW m \in Nat,
           m = IF f \in Patchable /\ n < PlanLimit THEN n + 1 ELSE n,
           P \cap todo # {} => f \in first,
           Budgeted(P, S, todo, first, n), Elsewhere(f, P, Q), Elsewhere(f, S, T),
           f \in Patchable /\ n < PlanLimit => f \in T,
           f \in Q => f \in Patchable /\ ~(n < PlanLimit)
    PROVE  Budgeted(Q, T, todo \ {f}, first, m)
<1> USE DEF Elsewhere, Budgeted
<1>0. PlanLimit \in Nat
  BY ConstantsAre
<1>1. Q \cap (todo \ {f}) \subseteq first
  OBVIOUS
<1>2. ASSUME Q \cap (todo \ {f}) # {} PROVE m + Cardinality((todo \ {f}) \cap first \cap Patchable) <= PlanLimit
  <2>1. P \cap todo # {}
    BY <1>2
  <2>2. PICK A : A = todo \cap first \cap Patchable
    OBVIOUS
  <2>3. PICK B : B = (todo \ {f}) \cap first \cap Patchable
    OBVIOUS
  <2>4. A \subseteq Patchable /\ B \subseteq A /\ f \in first /\ n + Cardinality(A) <= PlanLimit
    BY <2>1, <2>2, <2>3
  <2>5. Cardinality(A) \in Nat /\ Cardinality(B) \in Nat
    BY <2>4, FinitePatchable
  <2>6. CASE f \in Patchable
    <3>1. f \in A /\ B = A \ {f}
      BY <2>2, <2>3, <2>4, <2>6
    <3>2. Cardinality(B) = Cardinality(A) - 1
      BY <3>1, <2>4, OneFewer
    <3>3. PICK a, b : a = Cardinality(A) /\ b = Cardinality(B)
      OBVIOUS
    <3>4. a \in Nat /\ b \in Nat /\ b = a - 1 /\ n + a <= PlanLimit /\ m <= n + 1
      BY <3>2, <3>3, <2>4, <2>5
    <3>5. m + b <= PlanLimit
      BY <3>4, <1>0
    <3> QED BY <3>5, <3>3, <2>3
  <2>7. CASE f \notin Patchable
    <3>1. m = n
      BY <2>7
    <3>2. Cardinality(B) <= Cardinality(A)
      BY <2>4, CountedPlans
    <3>3. m + Cardinality(B) <= PlanLimit
      BY <3>1, <3>2, <2>4, <2>5, <1>0
    <3> QED BY <3>3, <2>3
  <2> QED BY <2>6, <2>7
<1>3. m <= Cardinality(T \ (todo \ {f}))
  <2>1. PICK A : A = S \ todo
    OBVIOUS
  <2>2. PICK B : B = T \ (todo \ {f})
    OBVIOUS
  <2>3. A \subseteq B /\ B \subseteq Patchable /\ f \notin A /\ n <= Cardinality(A) /\ A \subseteq Patchable
    BY <2>1, <2>2
  <2>4. Cardinality(A) \in Nat /\ Cardinality(B) \in Nat
    BY <2>3, FinitePatchable
  <2>5. CASE f \in Patchable /\ n < PlanLimit
    <3>1. f \in B
      BY <2>2, <2>5
    <3>2. Cardinality(A \cup {f}) = Cardinality(A) + 1
      BY <2>3, <2>5, OneMore
    <3>3. A \cup {f} \subseteq B
      BY <3>1, <2>3
    <3>4. Cardinality(A \cup {f}) <= Cardinality(B)
      BY <3>3, <2>3, CountedPlans
    <3>5. Cardinality(A) + 1 <= Cardinality(B)
      BY <3>2, <3>4
    <3>6. m = n + 1
      BY <2>5
    <3>7. m <= Cardinality(B)
      BY <3>5, <3>6, <2>3, <2>4
    <3> QED BY <3>7, <2>2
  <2>6. CASE ~(f \in Patchable /\ n < PlanLimit)
    <3>1. m = n
      BY <2>6
    <3>2. Cardinality(A) <= Cardinality(B)
      BY <2>3, CountedPlans
    <3>3. m <= Cardinality(B)
      BY <3>1, <3>2, <2>3, <2>4
    <3> QED BY <3>3, <2>2
  <2> QED BY <2>5, <2>6
<1>4. ASSUME Q \ (todo \ {f}) # {} PROVE m >= PlanLimit
  <2>1. m >= n
    OBVIOUS
  <2>2. n >= PlanLimit
    <3>1. CASE f \in Q
      BY <3>1, <1>0
    <3>2. CASE f \notin Q
      <4>1. P \ todo # {}
        BY <1>4, <3>2
      <4> QED BY <4>1
    <3> QED BY <3>1, <3>2
  <2> QED BY <2>1, <2>2, <1>0
<1> QED BY <1>1, <1>2, <1>3, <1>4

LEMMA EnsuringFacts ==
    ASSUME FindingInv, Quiet, NEW r \in Refreshers, NEW s, NEW f, Ensuring(r, s, f)
    PROVE  /\ f \in Findings /\ IsActive(f) /\ refresher[r].view = finding
           /\ refresher[r].pc = "ensuring" /\ f \in refresher[r].todo /\ Plans(refresher[r])
           /\ refresher[r] \in RefresherStates /\ s \in RefresherStates /\ s.pc = "ensuring"
           /\ refresher[r].todo \cap refresher[r].first # {} => f \in refresher[r].first
           /\ PastCommit(s) <=> PastCommit(refresher[r])
           /\ ~PastCommit(refresher[r]) => Allowed(refresher[r], f)
<1>1. IsActive(f) /\ refresher[r].view = finding
  BY EnsuringActive DEF FindingInv, Quiet
<1>2. refresher[r] \in RefresherStates /\ Plans(refresher[r])
  BY DEF FindingInv, FindingBase, FindingTypes, Budgets
<1>3. refresher[r].pc = "ensuring" /\ f \in refresher[r].todo /\ f = NextFinding(refresher[r]) /\ f \in Findings /\ s \in RefresherStates
  BY DEF Ensuring
<1>4. refresher[r].todo \cap refresher[r].first # {} => f \in refresher[r].first
  BY <1>2, <1>3, NextIs
<1>5. PastCommit(s) <=> PastCommit(refresher[r])
  BY DEF Ensuring, PastCommit
<1>6. ASSUME ~PastCommit(refresher[r]) PROVE Allowed(refresher[r], f)
  <2>1. refresher[r].limit = 1 /\ refresher[r].planned = 0
    BY <1>2, <1>3, <1>6 DEF Plans, PastCommit
  <2> QED BY <2>1 DEF Allowed
<1> QED BY <1>1, <1>2, <1>3, <1>4, <1>5, <1>6 DEF Ensuring

LEMMA EnsurePlans ==
    ASSUME FindingInv, Quiet, NEW r \in Refreshers, NEW s, NEW f, Ensuring(r, s, f),
           \A g \in Findings : g # f => (g \in PutOff' <=> g \in PutOff) /\ (g \in SettledPatches' <=> g \in SettledPatches),
           f \in Patchable /\ Allowed(refresher[r], f) => f \in SettledPatches',
           f \in PutOff' => ~Allowed(refresher[r], f)
    PROVE  /\ Plans(s)'
           /\ OthersIdle(Refreshers \ {r}) /\ ~PastCommit(s) /\ PutOff' # {} => Cardinality(Unsettled)' <= PlanLimit
<1>0. PICK old : old = refresher[r]
  OBVIOUS
<1>1. /\ f \in Findings /\ old.pc = "ensuring" /\ f \in old.todo /\ Plans(old) /\ old \in RefresherStates /\ s \in RefresherStates
      /\ s.pc = "ensuring" /\ (old.todo \cap old.first # {} => f \in old.first) /\ (PastCommit(s) <=> PastCommit(old))
      /\ (~PastCommit(old) => Allowed(old, f))
  BY <1>0, EnsuringFacts
<1>2. /\ s.limit = old.limit /\ s.whole = old.whole /\ s.first = old.first /\ s.todo = old.todo \ {f}
      /\ s.planned = IF f \in Patchable /\ Allowed(old, f) THEN old.planned + 1 ELSE old.planned
  BY <1>0 DEF Ensuring
<1>3. PICK P, Q, S, T : P = PutOff /\ Q = PutOff' /\ S = SettledPatches /\ T = SettledPatches'
  OBVIOUS
<1>4. P \subseteq Findings /\ Q \subseteq Findings /\ S \subseteq Patchable /\ T \subseteq Patchable /\ Patchable \subseteq Findings
  BY <1>3, ConstantsAre DEF PutOff, SettledPatches
<1>5. /\ \A g : g # f => (g \in Q <=> g \in P) /\ (g \in T <=> g \in S)
      /\ f \in Patchable /\ Allowed(old, f) => f \in T
      /\ f \in Q => ~Allowed(old, f)
  BY <1>0, <1>3, <1>4
<1>6. EnoughPlans
  BY DEF Quiet
<1>7. CASE old.whole
  <2>1. PICK todo, first, n, m : todo = old.todo /\ first = old.first /\ n = old.planned /\ m = s.planned
    OBVIOUS
  <2>2. n \in Nat /\ m \in Nat /\ f \in todo
    BY <2>1, <1>1, AtWork
  <2>3. old.limit = PlanLimit /\ Budgeted(P, S, todo, first, n)
    BY <2>1, <1>1, <1>3, <1>7 DEF Plans, Budgeted
  <2>4. Allowed(old, f) <=> f \notin Patchable \/ n < PlanLimit
    BY <2>1, <2>3 DEF Allowed
  <2>5. m = IF f \in Patchable /\ n < PlanLimit THEN n + 1 ELSE n
    BY <2>1, <2>4, <1>2
  <2>6. P \cap todo # {} => f \in first
    BY <2>1, <2>3, <1>1 DEF Budgeted
  <2>7. f \in Patchable /\ n < PlanLimit => f \in T
    BY <2>4, <1>5
  <2>8. f \in Q => f \in Patchable /\ ~(n < PlanLimit)
    BY <2>4, <1>5
  <2>9. Budgeted(Q, T, todo \ {f}, first, m)
    <3>1. Elsewhere(f, P, Q) /\ Elsewhere(f, S, T)
      BY <1>5 DEF Elsewhere
    <3> QED BY <3>1, <2>2, <2>3, <2>5, <2>6, <2>7, <2>8, <1>4, <1>6, PlanCounts
  <2>10. Plans(s)'
    BY <2>1, <2>3, <2>9, <1>1, <1>2, <1>3, <1>7 DEF Plans, Budgeted
  <2>11. PastCommit(s)
    BY <1>1, <1>2, <1>7 DEF PastCommit
  <2> QED BY <2>10, <2>11
<1>8. CASE ~old.whole
  <2>1. old.limit = 1 /\ \E g \in Findings : old.todo = {g}
    BY <1>1, <1>8 DEF Plans
  <2>2. s.todo = {} /\ s.limit = 1 /\ ~s.whole
    BY <2>1, <1>1, <1>2, <1>8
  <2>3. Plans(s)'
    BY <2>2, <1>1 DEF Plans
  <2>4. ~PastCommit(old)
    BY <1>1, <1>8 DEF PastCommit
  <2>5. Allowed(old, f)
    BY <2>4, <1>1
  <2>6. ASSUME OthersIdle(Refreshers \ {r}), Q # {} PROVE Cardinality(Unsettled)' <= PlanLimit
    <3>1. P # {}
      BY <2>5, <2>6, <1>5
    <3>2. NobodyPast
      BY <2>4, <2>6, <1>0 DEF NobodyPast, PastCommit, OthersIdle
    <3>3. Cardinality(Unsettled) <= PlanLimit
      BY <3>1, <3>2, <1>3 DEF FindingInv, Budgets
    <3>4. PICK U, V : U = Unsettled /\ V = Unsettled'
      OBVIOUS
    <3>5. V \subseteq U /\ U \subseteq Patchable
      BY <3>4, <2>5, <1>3, <1>5 DEF Unsettled
    <3>6. Cardinality(V) <= Cardinality(U) /\ Cardinality(U) \in Nat /\ Cardinality(V) \in Nat
      BY <3>5, <1>6, CountedPlans, FinitePatchable
    <3>7. Cardinality(V) <= PlanLimit
      BY <3>3, <3>4, <3>6, ConstantsAre
    <3> QED BY <3>4, <3>7
  <2> QED BY <2>3, <2>6, <1>3
<1>9. old.whole \in BOOLEAN
  BY <1>1, AtWork
<1> QED BY <1>7, <1>8, <1>9

LEMMA EnsureReadyBudgets ==
    ASSUME FindingInv, NEW r \in Refreshers, NEW s, NEW f, EnsuresReady(r, s, f), interruptions' = interruptions
    PROVE  Budgets'
<1>1. Ensuring(r, s, f) /\ Alone(r, s) /\ Ready(f) /\ deferrals' = deferrals /\ finding' = finding /\ action' = action
  BY DEF EnsuresReady, Alone
<1>2. PutOff' = PutOff /\ SettledPatches' = SettledPatches /\ Candidates' = Candidates
  BY <1>1, DisturbedKept
<1>3. ASSUME Quiet PROVE Plans(s) /\ (PastCommit(s) <=> PastCommit(refresher[r]))
  <2>1. IsActive(f) /\ (PastCommit(s) <=> PastCommit(refresher[r])) /\ Settles
    BY <1>1, <1>3, EnsuringFacts, QuietSettles
  <2>2. f \notin PutOff
    BY <2>1, <1>1, PutOffFacts
  <2>3. f \in Patchable => f \in SettledPatches
    BY <2>1, <1>1, ReadyIsPatched DEF SettledPatches
  <2>4. Plans(s)'
    BY <2>2, <2>3, <1>1, <1>2, <1>3, EnsurePlans
  <2>5. Plans(s)
    BY <2>4, <1>2 DEF Plans
  <2> QED BY <2>1, <2>5
<1> QED BY <1>1, <1>3, BudgetAlone DEF FindingInv, AloneNotInterrupted

LEMMA EnsurePatchBudgets ==
    ASSUME FindingInv, NEW r \in Refreshers, NEW s, NEW f, NEW k, EnsuresPatch(r, s, f, k), interruptions' = interruptions
    PROVE  Budgets'
<1>1. Ensuring(r, s, f) /\ Plan(r, f, k, "ready") /\ Alone(r, s) /\ Exists(k)
  BY DEF EnsuresPatch
<1>2. ~Ready(f) /\ f \in Patchable /\ k \in IdempotencyKeys /\ k[1] = f /\ k[2] = refresher[r].view[f].regression_count /\ k[3] = repository
      /\ repository # Unmapped
  BY <1>1 DEF Plan, Outcome
<1>3. ASSUME Quiet PROVE FALSE
  <2>1. IsActive(f) /\ refresher[r].view = finding /\ Settles
    BY <1>1, <1>3, EnsuringFacts, QuietSettles
  <2>2. Present(k)
    BY <2>1, <1>2 DEF Present
  <2>3. k[3] # Simulated
    BY <1>2, SimulatedIsNoRepository DEF FindingInv, FindingBase, FindingTypes
  <2>4. k \in Existing(f)
    BY <1>1, <1>2 DEF Existing, Of, Exists
  <2>5. Patched(f)
    BY <2>2, <2>3, <2>4 DEF Patched
  <2> QED BY <2>1, <2>5, <1>2, PatchedIsReady
<1>4. Quiet' => Quiet
  BY <1>1 DEF Quiet, EnoughPlans, Alone
<1> QED BY <1>3, <1>4 DEF Budgets

\* What is planned for.
LEMMA PlannedKey ==
    ASSUME FindingInv, Quiet, NEW r \in Refreshers, NEW s, NEW f, NEW k, NEW outcome, Ensuring(r, s, f), Plan(r, f, k, outcome)
    PROVE  /\ Settles /\ f \in Findings /\ IsActive(f) /\ k \in IdempotencyKeys /\ k[1] = f /\ Present(k)
           /\ outcome # "ready" => k = Fallback(f) /\ k[3] = Simulated
           /\ outcome = "ready" => k[3] # Simulated /\ f \in Patchable
           /\ f \in Patchable => ~Patched(f)
           /\ outcome = "budget" => f \in Patchable /\ deferrals[f] = 0 /\ ~Allowed(refresher[r], f)
           /\ outcome # "budget" => Allowed(refresher[r], f)
<1>1. Settles /\ f \in Findings /\ IsActive(f) /\ refresher[r].view = finding
  BY QuietSettles, EnsuringFacts
<1>2. k \in IdempotencyKeys /\ k[1] = f /\ k[2] = finding[f].regression_count /\ k[3] = (IF outcome = "ready" THEN repository ELSE Simulated)
      /\ ~Ready(f) /\ (outcome = "budget" <=> ~Allowed(refresher[r], f)) /\ (outcome = "ready" => f \in Patchable /\ repository # Unmapped)
  BY <1>1 DEF Plan, Outcome
<1>3. Present(k)
  BY <1>2 DEF Present
<1>4. outcome # "ready" => k = Fallback(f) /\ k[3] = Simulated
  BY <1>2, <1>3, FallbackIs
<1>5. outcome = "ready" => k[3] # Simulated /\ f \in Patchable
  BY <1>2, SimulatedIsNoRepository DEF FindingInv, FindingBase, FindingTypes
<1>6. f \in Patchable => ~Patched(f)
  BY <1>1, <1>2, PatchedIsReady
<1>7. ASSUME outcome = "budget" PROVE f \in Patchable /\ deferrals[f] = 0
  <2>1. PICK old : old = refresher[r]
    OBVIOUS
  <2>2. f \in Patchable /\ ~(old.planned < old.limit) /\ PastCommit(old)
    BY <2>1, <1>2, <1>7, EnsuringFacts DEF Allowed
  <2>3. /\ old.pc = "ensuring" /\ f \in old.todo /\ Plans(old) /\ old \in RefresherStates /\ (old.todo \cap old.first # {} => f \in old.first)
    BY <2>1, EnsuringFacts
  <2>4. old.whole /\ old.planned \in Nat /\ old.limit = PlanLimit
    BY <2>2, <2>3, AtWork DEF PastCommit, Plans
  <2>5. ASSUME deferrals[f] # 0 PROVE FALSE
    <3>1. f \in PutOff
      BY <2>5, <1>1 DEF PutOff
    <3>2. PICK A : A = old.todo \cap old.first \cap Patchable
      OBVIOUS
    <3>3. old.planned + Cardinality(A) <= PlanLimit /\ PutOff \cap old.todo \subseteq old.first
      BY <3>1, <3>2, <2>3, <2>4 DEF Plans
    <3>4. f \in A /\ A \subseteq Patchable
      BY <3>1, <3>2, <3>3, <2>2, <2>3
    <3>5. Cardinality(A) \in Nat /\ Cardinality(A) >= 1
      BY <3>4, OneFewer, FinitePatchable DEF Quiet
    <3> QED BY <3>3, <3>5, <2>2, <2>4, ConstantsAre
  <2> QED BY <2>2, <2>5
<1> QED BY <1>1, <1>2, <1>3, <1>4, <1>5, <1>6, <1>7

\* What one finding gets leaves the others as they are.
LEMMA OthersKept ==
    ASSUME FindingTypes, NEW f \in Findings, finding' = finding, \A l \in IdempotencyKeys : l[1] # f => action'[l] = action[l],
           NEW g \in Findings, g # f
    PROVE  /\ Patched(g)' <=> Patched(g)
           /\ Settled(g)' <=> Settled(g)
           /\ deferrals'[g] = deferrals[g] /\ Waits(g) => Waits(g)'
<1>1. PICK b : b = Fallback(g)
  OBVIOUS
<1>2. b \in IdempotencyKeys /\ b[1] = g /\ b = Fallback(g)'
  BY <1>1, FallbackKey DEF Fallback
<1>3. action'[b] = action[b]
  BY <1>2
<1>4. Existing(g)' = Existing(g)
  BY DEF Existing, Of
<1>5. Patched(g)' <=> Patched(g)
  BY <1>4 DEF Patched, Present
<1>6. IsActive(g)' <=> IsActive(g)
  BY DEF IsActive
<1>7. Exists(b)' <=> Exists(b)
  BY <1>3 DEF Exists
<1>8. Settled(g)' <=> Settled(g)
  BY <1>1, <1>2, <1>3, <1>5, <1>6, <1>7 DEF Settled
<1>9. ASSUME deferrals'[g] = deferrals[g], Waits(g) PROVE Waits(g)'
  BY <1>1, <1>2, <1>3, <1>5, <1>6, <1>7, <1>9 DEF Waits
<1> QED BY <1>5, <1>8, <1>9

\* The refresher has an action for the finding it was at.
LEMMA EnsuredBudgets ==
    ASSUME FindingInv, NEW r \in Refreshers, NEW s, NEW f, NEW k, NEW outcome, Ensuring(r, s, f), Plan(r, f, k, outcome),
           Commits(Refreshers \ {r}), moves' = moves, decisions' = decisions, interruptions' = interruptions, finding' = finding,
           \A l \in IdempotencyKeys : l # k => action'[l] = action[l],
           \A l \in IdempotencyKeys : Exists(l)' <=> Exists(l) \/ l = k,
           Quiet /\ f \in Patchable => action'[k].reason = outcome /\ action'[k].status \in Undecided,
           \A l \in IdempotencyKeys : Exists(l) => action'[l].born = action[l].born,
           ~Exists(k) => \A l \in Existing(f) : action[l].born < action'[k].born
    PROVE  Budgets'
<1>1. ASSUME Quiet, OthersIdle(Refreshers \ {r})
      PROVE  Undisturbed' /\ Plans(s)' /\ (~PastCommit(s) /\ PutOff' # {} => Cardinality(Unsettled)' <= PlanLimit)
  <2>1. /\ Settles /\ f \in Findings /\ IsActive(f) /\ k \in IdempotencyKeys /\ k[1] = f /\ Present(k)
        /\ outcome # "ready" => k = Fallback(f) /\ k[3] = Simulated
        /\ outcome = "ready" => k[3] # Simulated /\ f \in Patchable
        /\ f \in Patchable => ~Patched(f)
        /\ outcome = "budget" => f \in Patchable /\ deferrals[f] = 0 /\ ~Allowed(refresher[r], f)
        /\ outcome # "budget" => Allowed(refresher[r], f)
    BY <1>1, PlannedKey
  <2>2. FindingTypes /\ Undisturbed
    BY <2>1 DEF Settles, FindingBase
  <2>3. /\ \A g \in Findings : g # f => deferrals'[g] = deferrals[g]
        /\ outcome # "budget" => deferrals'[f] = 0
        /\ outcome = "budget" => deferrals'[f] = 1
    BY <2>1, <2>2, DeferralsType DEF Plan
  <2>4. ASSUME NEW g \in Findings, g # f PROVE (Patched(g)' <=> Patched(g)) /\ (Settled(g)' <=> Settled(g)) /\ (Waits(g) => Waits(g)')
    BY <2>1, <2>2, <2>3, <2>4, OthersKept
  <2>5. Exists(k)' /\ Present(k)' /\ IsActive(f)' /\ k \in Existing(f)'
    BY <2>1 DEF Present, IsActive, Exists, Existing, Of
  <2>6. PICK b : b = Fallback(f)
    OBVIOUS
  <2>7. b = Fallback(f)' /\ (outcome # "ready" => k = b)
    BY <2>1, <2>6 DEF Fallback
  <2>8. ASSUME f \in Patchable, outcome # "budget" PROVE Settled(f)'
    <3>1. CASE outcome = "ready"
      <4>1. Patched(f)'
        BY <3>1, <2>1, <2>5 DEF Patched
      <4> QED BY <4>1, <2>5 DEF Settled
    <3>2. CASE outcome = "declined"
      <4>1. Exists(b)' /\ action'[b].reason = "declined"
        BY <3>2, <2>5, <2>7, <2>8, <1>1
      <4> QED BY <4>1, <2>5, <2>7 DEF Settled
    <3> QED BY <3>1, <3>2, <2>8 DEF Plan, Outcome
  <2>9. ASSUME f \in PutOff' PROVE outcome = "budget"
    BY <2>3, <2>9 DEF PutOff
  <2>10. ASSUME outcome = "budget" PROVE Waits(f)'
    <3>1. f \in Patchable /\ deferrals'[f] = 1 /\ k = b /\ k[3] = Simulated
      BY <2>1, <2>3, <2>7, <2>10
    <3>2. action'[b].reason = "budget" /\ Exists(b)'
      BY <3>1, <2>5, <2>10, <1>1
    <3>3. ~Patched(f)'
      <4>1. SUFFICES ASSUME NEW l \in Existing(f)', Present(l)', l[3] # Simulated PROVE FALSE
        BY DEF Patched
      <4>2. l \in IdempotencyKeys /\ l[1] = f /\ Exists(l)'
        BY DEF Existing, Of, Exists
      <4>3. l # k /\ Exists(l) /\ Present(l)
        BY <4>1, <4>2, <3>1 DEF Present
      <4>4. l \in Existing(f)
        BY <4>2, <4>3, ExistingAction, <2>2
      <4> QED BY <4>1, <4>3, <4>4, <3>1, <2>1 DEF Patched
    <3> QED BY <3>1, <3>2, <3>3, <2>5, <2>7 DEF Waits
  <2>11. ASSUME NEW g \in PutOff' PROVE Waits(g)'
    <3>1. g \in Findings /\ deferrals'[g] # 0
      BY DEF PutOff
    <3>2. CASE g = f
      BY <3>2, <2>9, <2>10, <2>11
    <3>3. CASE g # f
      <4>1. g \in PutOff
        BY <3>1, <3>3, <2>3 DEF PutOff
      <4>2. Waits(g)
        BY <4>1, <2>2 DEF Undisturbed
      <4> QED BY <4>2, <3>1, <3>3, <2>4
    <3> QED BY <3>2, <3>3
  <2>12. FindingsUntouched'
    BY <2>2 DEF Undisturbed, FindingsUntouched
  <2>13. ActionsUntouched'
    <3>1. SUFFICES ASSUME NEW l \in IdempotencyKeys, l[1] \in Patchable, Exists(l)' PROVE action'[l].status \in Undecided \cup {"cancelled"}
      BY DEF ActionsUntouched
    <3>2. CASE l = k
      BY <3>1, <3>2, <2>1, <1>1
    <3>3. CASE l # k
      BY <3>1, <3>3, <2>2 DEF Undisturbed, ActionsUntouched
    <3> QED BY <3>2, <3>3
  <2>14. PresentStand'
    <3>1. SUFFICES ASSUME NEW l \in IdempotencyKeys, l[1] \in Patchable, Exists(l)', IsActive(l[1])', Present(l)'
                   PROVE  action'[l].status \in Undecided \/ (l[3] = Simulated /\ Patched(l[1])')
      BY DEF PresentStand
    <3>2. CASE l = k
      BY <3>1, <3>2, <2>1, <1>1
    <3>3. CASE l # k
      <4>1. Exists(l) /\ IsActive(l[1]) /\ Present(l) /\ action'[l] = action[l]
        BY <3>1, <3>3 DEF IsActive, Present
      <4>2. action[l].status \in Undecided \/ (l[3] = Simulated /\ Patched(l[1]))
        BY <4>1, <3>1, <2>2 DEF Undisturbed, PresentStand
      <4>3. CASE l[1] = f
        BY <4>1, <4>2, <4>3, <3>1, <2>1
      <4>4. CASE l[1] # f
        <5>1. l[1] \in Findings
          BY KeyParts
        <5>2. Patched(l[1])' <=> Patched(l[1])
          <6>1. PICK g : g = l[1]
            OBVIOUS
          <6> QED BY <6>1, <5>1, <4>4, <2>4
        <5> QED BY <5>2, <4>1, <4>2
      <4> QED BY <4>3, <4>4
    <3> QED BY <3>2, <3>3
  <2>15. PatchesFollow'
    <3>1. SUFFICES ASSUME NEW l \in IdempotencyKeys, NEW m \in IdempotencyKeys, l[1] \in Patchable, l[1] = m[1], IsActive(l[1])',
                          Exists(l)', Exists(m)', Present(l)', Present(m)', l[3] = Simulated, m[3] # Simulated
                   PROVE  action'[l].born < action'[m].born
      BY DEF PatchesFollow
    <3>2. IsActive(l[1]) /\ Present(l) /\ Present(m)
      BY <3>1 DEF IsActive, Present
    <3>3. CASE Exists(l) /\ Exists(m)
      <4>1. action[l].born < action[m].born
        BY <3>1, <3>2, <3>3, <2>2 DEF Undisturbed, PatchesFollow
      <4> QED BY <4>1, <3>3
    <3>4. CASE ~Exists(l)
      <4>1. l = k /\ m # k /\ Exists(m)
        BY <3>1, <3>4
      <4>2. m \in Existing(f)
        BY <4>1, <3>1, <2>1, <2>2, ExistingAction
      <4>3. Patched(f)
        BY <4>2, <3>1, <3>2 DEF Patched
      <4> QED BY <4>1, <4>3, <3>1, <2>1
    <3>5. CASE Exists(l) /\ ~Exists(m)
      <4>1. m = k /\ l[1] = f
        BY <3>1, <3>5, <2>1
      <4>2. l \in Existing(f)
        BY <4>1, <3>5, <2>2, ExistingAction
      <4>3. action[l].born < action'[k].born
        BY <4>1, <4>2, <3>5
      <4> QED BY <4>1, <4>3, <3>5
    <3> QED BY <3>3, <3>4, <3>5
  <2>16. Undisturbed'
    BY <2>11, <2>12, <2>13, <2>14, <2>15 DEF Undisturbed
  <2>17. \A g \in Findings : g # f => (g \in PutOff' <=> g \in PutOff) /\ (g \in SettledPatches' <=> g \in SettledPatches)
    BY <2>3, <2>4 DEF PutOff, SettledPatches
  <2>18. f \in Patchable /\ Allowed(refresher[r], f) => f \in SettledPatches'
    BY <2>1, <2>8 DEF SettledPatches
  <2>19. f \in PutOff' => ~Allowed(refresher[r], f)
    BY <2>1, <2>9
  <2> QED BY <2>16, <2>17, <2>18, <2>19, <1>1, EnsurePlans
<1>2. s \in RefresherStates /\ refresher' = [refresher EXCEPT ![r] = s]
  BY DEF Ensuring
<1> QED BY <1>1, <1>2, BudgetCommitter DEF FindingInv

LEMMA EnsureNewBudgets ==
    ASSUME FindingInv, NEW r \in Refreshers, NEW s, NEW f, NEW k, NEW outcome, EnsuresNew(r, s, f, k, outcome)
    PROVE  Budgets'
<1>1. Ensuring(r, s, f) /\ Plan(r, f, k, outcome) /\ Creates(r, s, k, outcome) /\ k[1] = f
  BY DEF EnsuresNew, Plan
<1>2. PICK a : a = DraftOf(k, outcome)
  OBVIOUS
<1>3. /\ k \in IdempotencyKeys /\ ~Exists(k) /\ outcome \in {"budget", "declined", "ready"} /\ ActionBecomes(k, a) /\ finding' = finding
      /\ Commits(Refreshers \ {r}) /\ moves' = moves /\ decisions' = decisions /\ interruptions' = interruptions
  BY <1>1, <1>2 DEF Creates
<1>4. Created(k, a)
  BY <1>2, <1>3, ActionCreated DEF FindingInv, FindingBase
<1>5. /\ action'[k] = a /\ (\A l \in IdempotencyKeys : l # k => action'[l] = action[l])
      /\ (\A l \in IdempotencyKeys : Exists(l)' <=> Exists(l) \/ l = k) /\ \A l \in Existing(k[1]) : action[l].born < a.born
  BY <1>4 DEF Created
<1>6. a.reason = outcome /\ a.status = "draft"
  BY <1>2 DEF DraftOf
<1>7. \A l \in IdempotencyKeys : Exists(l) => action'[l].born = action[l].born
  BY <1>3, <1>5
<1>8. "draft" \in Undecided
  BY DEF Undecided
<1>9. \A l \in Existing(f) : action[l].born < action'[k].born
  BY <1>1, <1>5
<1> QED BY <1>1, <1>3, <1>5, <1>6, <1>7, <1>8, <1>9, EnsuredBudgets

LEMMA EnsureFallbackBudgets ==
    ASSUME FindingInv, NEW r \in Refreshers, NEW s, NEW f, NEW k, NEW a, NEW outcome, EnsuresFallback(r, s, f, k, a, outcome)
    PROVE  Budgets'
<1>1. Ensuring(r, s, f) /\ Plan(r, f, k, outcome) /\ Rewrites(r, s, k, a) /\ outcome # "ready"
      /\ a.reason = (IF action[k].status \in Undecided THEN outcome ELSE action[k].reason) /\ a.status = action[k].status
  BY DEF EnsuresFallback
<1>2. /\ k \in IdempotencyKeys /\ Exists(k) /\ a \in GovernedAction /\ a.born = action[k].born /\ ActionBecomes(k, a) /\ finding' = finding
      /\ Commits(Refreshers \ {r}) /\ moves' = moves /\ decisions' = decisions /\ interruptions' = interruptions
  BY <1>1 DEF Rewrites
<1>3. ActionIs(k, a)
  BY <1>2, ActionRewritten DEF FindingInv, FindingBase
<1>4. /\ action'[k] = a /\ (\A l \in IdempotencyKeys : l # k => action'[l] = action[l])
      /\ (\A l \in IdempotencyKeys : Exists(l)' <=> Exists(l) \/ l = k) /\ \A l \in IdempotencyKeys : Exists(l) => action'[l].born = action[l].born
  BY <1>2, <1>3 DEF ActionIs
<1>5. ASSUME Quiet, f \in Patchable PROVE a.reason = outcome /\ a.status \in Undecided
  <2>1. Settles /\ IsActive(f) /\ k[1] = f /\ Present(k) /\ ~Patched(f)
    BY <1>1, <1>5, PlannedKey
  <2>2. action[k].status \in Undecided
    BY <2>1, <1>2, <1>5 DEF Settles, Undisturbed, PresentStand
  <2> QED BY <2>2, <1>1
<1> QED BY <1>1, <1>2, <1>4, <1>5, EnsuredBudgets

\* An action is cancelled or proposed.
LEMMA RewrittenBudgets ==
    ASSUME FindingInv, NEW r \in Refreshers, NEW s, NEW k, NEW a, Rewrites(r, s, k, a), Carries(refresher[r], s), deferrals' = deferrals,
           a.reason = action[k].reason,
           Quiet /\ k[1] \in Patchable => a.status \in Undecided \cup {"cancelled"},
           Quiet /\ k[1] \in Patchable /\ IsActive(k[1]) /\ Present(k) => a.status \in Undecided \/ (k[3] = Simulated /\ Patched(k[1]))
    PROVE  Budgets'
<1>1. /\ k \in IdempotencyKeys /\ Exists(k) /\ a \in GovernedAction /\ a.born = action[k].born /\ ActionBecomes(k, a) /\ finding' = finding
      /\ Commits(Refreshers \ {r}) /\ moves' = moves /\ decisions' = decisions /\ interruptions' = interruptions
      /\ s \in RefresherStates /\ refresher' = [refresher EXCEPT ![r] = s]
  BY DEF Rewrites
<1>2. FindingTypes
  BY DEF FindingInv, FindingBase
<1>3. ActionIs(k, a)
  BY <1>1, <1>2, ActionRewritten
<1>4. /\ action'[k] = a /\ (\A l \in IdempotencyKeys : l # k => action'[l] = action[l])
      /\ (\A l \in IdempotencyKeys : Exists(l)' <=> Exists(l)) /\ \A l \in IdempotencyKeys : Exists(l) => action'[l].born = action[l].born
  BY <1>3 DEF ActionIs
<1>5. \A g : Existing(g)' = Existing(g)
  BY <1>4 DEF Existing, Of, Exists
<1>6. \A g : (Patched(g)' <=> Patched(g)) /\ (IsActive(g)' <=> IsActive(g))
  BY <1>1, <1>5 DEF Patched, Present, IsActive
<1>7. ASSUME NEW g \in Findings
      PROVE  /\ Fallback(g) \in IdempotencyKeys /\ Fallback(g)' = Fallback(g)
             /\ Exists(Fallback(g))' <=> Exists(Fallback(g))
             /\ action'[Fallback(g)].reason = action[Fallback(g)].reason
  <2>1. PICK b : b = Fallback(g)
    OBVIOUS
  <2>2. b \in IdempotencyKeys /\ b = Fallback(g)'
    BY <2>1, <1>1, <1>2, FallbackKey DEF Fallback
  <2>3. action'[b].reason = action[b].reason /\ (Exists(b)' <=> Exists(b))
    BY <2>2, <1>4
  <2> QED BY <2>1, <2>2, <2>3
<1>8. ASSUME NEW g \in Findings PROVE (Settled(g)' <=> Settled(g)) /\ (Waits(g) => Waits(g)')
  <2>1. PICK b : b = Fallback(g)
    OBVIOUS
  <2>2. b = Fallback(g)' /\ (Exists(b)' <=> Exists(b)) /\ action'[b].reason = action[b].reason
    BY <2>1, <1>7
  <2>3. Settled(g)' <=> Settled(g)
    BY <2>1, <2>2, <1>6 DEF Settled
  <2>4. Waits(g) => Waits(g)'
    BY <2>1, <2>2, <1>6 DEF Waits
  <2> QED BY <2>3, <2>4
<1>9. PutOff' = PutOff /\ PutOff \subseteq Findings
  BY DEF PutOff
<1>10. SettledPatches' = SettledPatches
  BY <1>8, ConstantsAre DEF SettledPatches
<1>11. Unsettled' = Unsettled
  BY <1>10 DEF Unsettled
<1>12. Candidates' = Candidates
  BY <1>6, <1>11 DEF Candidates
<1>13. ASSUME Quiet, OthersIdle(Refreshers \ {r})
       PROVE  Undisturbed' /\ Plans(s)' /\ (~PastCommit(s) /\ PutOff' # {} => Cardinality(Unsettled)' <= PlanLimit)
  <2>1. Undisturbed /\ Plans(refresher[r])
    BY <1>13 DEF FindingInv, Budgets
  <2>2. FindingsUntouched'
    BY <2>1, <1>1 DEF Undisturbed, FindingsUntouched
  <2>3. ActionsUntouched'
    <3>1. SUFFICES ASSUME NEW l \in IdempotencyKeys, l[1] \in Patchable, Exists(l) PROVE action'[l].status \in Undecided \cup {"cancelled"}
      BY <1>4 DEF ActionsUntouched
    <3>2. CASE l = k
      BY <3>1, <3>2, <1>4, <1>13
    <3>3. CASE l # k
      BY <3>1, <3>3, <2>1, <1>4 DEF Undisturbed, ActionsUntouched
    <3> QED BY <3>2, <3>3
  <2>4. PresentStand'
    <3>1. SUFFICES ASSUME NEW l \in IdempotencyKeys, l[1] \in Patchable, Exists(l), IsActive(l[1]), Present(l)
                   PROVE  action'[l].status \in Undecided \/ (l[3] = Simulated /\ Patched(l[1]))
      BY <1>1, <1>4, <1>6 DEF PresentStand, Present
    <3>2. CASE l = k
      BY <3>1, <3>2, <1>4, <1>13
    <3>3. CASE l # k
      BY <3>1, <3>3, <2>1, <1>4 DEF Undisturbed, PresentStand
    <3> QED BY <3>2, <3>3
  <2>5. PatchesFollow'
    <3>1. SUFFICES ASSUME NEW l \in IdempotencyKeys, NEW m \in IdempotencyKeys, l[1] \in Patchable, l[1] = m[1], IsActive(l[1]),
                          Exists(l), Exists(m), Present(l), Present(m), l[3] = Simulated, m[3] # Simulated
                   PROVE  action'[l].born < action'[m].born
      BY <1>1, <1>4, <1>6 DEF PatchesFollow, Present
    <3>2. action[l].born < action[m].born
      BY <3>1, <2>1 DEF Undisturbed, PatchesFollow
    <3> QED BY <3>1, <3>2, <1>4
  <2>6. \A g \in PutOff' : Waits(g)'
    BY <2>1, <1>8, <1>9 DEF Undisturbed
  <2>7. Undisturbed'
    BY <2>2, <2>3, <2>4, <2>5, <2>6 DEF Undisturbed
  <2>8. Plans(s)
    BY <2>1 DEF Plans, Carries
  <2>9. Plans(s)'
    BY <2>8, <1>9, <1>10, <1>12, PlansKept
  <2>10. ASSUME ~PastCommit(s), PutOff' # {} PROVE Cardinality(Unsettled)' <= PlanLimit
    <3>1. ~PastCommit(refresher[r])
      BY <2>10 DEF PastCommit, Carries
    <3>2. NobodyPast
      BY <3>1, <1>13 DEF NobodyPast, PastCommit, OthersIdle
    <3>3. Cardinality(Unsettled) <= PlanLimit
      BY <3>2, <2>10, <1>9, <1>13 DEF FindingInv, Budgets
    <3> QED BY <3>3, <1>11
  <2> QED BY <2>7, <2>9, <2>10
<1> QED BY <1>1, <1>13, BudgetCommitter DEF FindingInv

LEMMA CancelBudgets ==
    ASSUME FindingInv, NEW r \in Refreshers, NEW s, NEW k, NEW a, Rewrites(r, s, k, a), Cancels(r, s, k, a), deferrals' = deferrals
    PROVE  Budgets'
<1>1. /\ Carries(refresher[r], s) /\ a.reason = action[k].reason /\ a.status = "cancelled" /\ k \in refresher[r].doomed
      /\ refresher[r].pc \in {"stale", "ensuring"} /\ k \in IdempotencyKeys
  BY DEF Cancels, Rewrites
<1>2. ASSUME Quiet, k[1] \in Patchable, IsActive(k[1]), Present(k) PROVE k[3] = Simulated /\ Patched(k[1])
  <2>1. SeesStale(refresher[r]) /\ DoomedAreSuperseded(refresher[r])
    BY <1>2, RefresherSees DEF FindingInv, Moved, Quiet, Sight
  <2>2. CASE refresher[r].pc = "stale"
    BY <2>1, <2>2, <1>1, <1>2 DEF SeesStale, IsActive, ActiveFindingStatuses
  <2>3. CASE refresher[r].pc = "ensuring"
    <3>1. k[3] = Simulated
      BY <2>1, <2>3, <1>1, <1>2 DEF DoomedAreSuperseded, Quiet
    <3>2. PICK l \in IdempotencyKeys : Supersedes(l, k, refresher[r].doomed)
      BY <2>1, <2>3, <1>1 DEF DoomedAreSuperseded
    <3>3. l[1] = k[1] /\ l[3] # Simulated /\ Exists(l) /\ Present(l)
      BY <3>2 DEF Supersedes, Standing
    <3>4. l \in Existing(k[1])
      BY <3>3 DEF Existing, Of, Exists
    <3> QED BY <3>1, <3>3, <3>4 DEF Patched
  <2> QED BY <2>2, <2>3, <1>1
<1> QED BY <1>1, <1>2, RewrittenBudgets

LEMMA ProposeBudgets ==
    ASSUME FindingInv, NEW r \in Refreshers, NEW s, NEW k, NEW a, Rewrites(r, s, k, a), Proposes(r, s, k, a), deferrals' = deferrals
    PROVE  Budgets'
<1>1. Carries(refresher[r], s) /\ a.reason = action[k].reason /\ a.status = ProposedStatus(k)
  BY DEF Proposes
<1>2. ASSUME Quiet, k[1] \in Patchable PROVE a.status \in Undecided
  BY <1>1, <1>2, ProposedStatuses DEF Quiet, EnoughPlans, Undecided
<1> QED BY <1>1, <1>2, RewrittenBudgets

LEMMA CommitBudgets ==
    ASSUME FindingInv, FindingBase', NEW r \in Refreshers, NEW s, WritesFindings(r, s)
    PROVE  Budgets'
<1>1. /\ s \in RefresherStates /\ refresher' = [refresher EXCEPT ![r] = s] /\ Commits(Refreshers \ {r}) /\ moves' = moves
      /\ decisions' = decisions /\ interruptions' = interruptions /\ action' = action /\ s.pc = "stale" /\ refresher[r].pc = "reconciling"
  BY DEF WritesFindings
<1>2. ASSUME Quiet, OthersIdle(Refreshers \ {r})
      PROVE  Undisturbed' /\ Plans(s)'
  <2>1. /\ \A f \in Findings : Turned(finding[f], finding'[f])
        /\ deferrals' = [f \in Findings |-> IF finding'[f].status = "resolved" THEN 0 ELSE deferrals[f]]
    BY <1>2, CommitTurns DEF FindingInv, Quiet
  <2>2. Undisturbed /\ EnoughPlans
    BY <1>2 DEF FindingInv, Budgets, Quiet
  <2>3. \A f \in Findings : finding[f] \in Issue
    BY DEF FindingInv, FindingBase, FindingTypes
  <2>4. ASSUME NEW f \in Findings, IsActive(f), IsActive(f)' PROVE finding'[f].regression_count = finding[f].regression_count
    BY <2>1, <2>4 DEF Turned, IsActive
  <2>5. FindingsUntouched'
    <3>1. SUFFICES ASSUME NEW f \in Findings PROVE ~finding'[f].touched /\ finding'[f].status # "dismissed"
      BY DEF FindingsUntouched
    <3>2. ~finding[f].touched /\ finding[f].status # "dismissed" /\ Turned(finding[f], finding'[f])
      BY <2>1, <2>2 DEF Undisturbed, FindingsUntouched
    <3>3. PICK i, j : i = finding[f] /\ j = finding'[f]
      OBVIOUS
    <3>4. i.status \in {"open", "regressed", "absent", "resolved", "dismissed"} /\ Turned(i, j) /\ ~i.touched /\ i.status # "dismissed"
      BY <3>2, <3>3, <2>3, IssueFacts
    <3>5. ~j.touched
      BY <3>4 DEF Turned
    <3>6. j.status # "dismissed"
      BY <3>4 DEF Turned, ActiveFindingStatuses
    <3> QED BY <3>3, <3>5, <3>6
  <2>6. ActionsUntouched'
    BY <2>2, <1>1 DEF Undisturbed, ActionsUntouched, Exists
  <2>7. ASSUME NEW k \in IdempotencyKeys, Exists(k), Present(k)', IsActive(k[1])'
        PROVE  IsActive(k[1]) /\ Present(k) /\ finding'[k[1]].regression_count = finding[k[1]].regression_count
    BY <1>2, <2>7, CommitPresent DEF FindingInv, Quiet
  <2>8. \A k \in IdempotencyKeys : Exists(k)' <=> Exists(k)
    BY <1>1 DEF Exists
  <2>9. \A f : Existing(f)' = Existing(f)
    BY <1>1 DEF Existing, Of
  <2>10. ASSUME NEW f \in Findings, IsActive(f), IsActive(f)'
         PROVE (Patched(f)' <=> Patched(f)) /\ Fallback(f)' = Fallback(f)
    <3>1. finding'[f].regression_count = finding[f].regression_count
      BY <2>4, <2>10
    <3>2. \A k \in Existing(f) : Present(k)' <=> Present(k)
      BY <3>1, ExistingKey DEF Present
    <3> QED BY <3>1, <3>2, <2>9 DEF Patched, Fallback
  <2>11. PresentStand'
    <3>1. SUFFICES ASSUME NEW k \in IdempotencyKeys, k[1] \in Patchable, Exists(k), IsActive(k[1])', Present(k)'
                   PROVE  action[k].status \in Undecided \/ (k[3] = Simulated /\ Patched(k[1])')
      BY <1>1, <2>8 DEF PresentStand
    <3>2. IsActive(k[1]) /\ Present(k) /\ k[1] \in Findings
      BY <3>1, <2>7, KeyParts
    <3>3. action[k].status \in Undecided \/ (k[3] = Simulated /\ Patched(k[1]))
      BY <3>1, <3>2, <2>2 DEF Undisturbed, PresentStand
    <3>4. PICK g : g = k[1]
      OBVIOUS
    <3>5. Patched(g)' <=> Patched(g)
      BY <3>1, <3>2, <3>4, <2>10
    <3> QED BY <3>3, <3>4, <3>5
  <2>12. PatchesFollow'
    <3>1. SUFFICES ASSUME NEW k \in IdempotencyKeys, NEW l \in IdempotencyKeys, k[1] \in Patchable, k[1] = l[1], IsActive(k[1])',
                          Exists(k), Exists(l), Present(k)', Present(l)', k[3] = Simulated, l[3] # Simulated
                   PROVE  action[k].born < action[l].born
      BY <1>1, <2>8 DEF PatchesFollow
    <3>2. IsActive(k[1]) /\ Present(k) /\ Present(l)
      BY <3>1, <2>7
    <3> QED BY <3>1, <3>2, <2>2 DEF Undisturbed, PatchesFollow
  <2>13. ASSUME NEW f \in PutOff' PROVE f \in PutOff /\ Waits(f)'
    <3>1. f \in Findings /\ finding'[f].status # "resolved" /\ deferrals'[f] = deferrals[f] /\ deferrals[f] # 0
      BY <2>1 DEF PutOff
    <3>2. f \in PutOff /\ Waits(f)
      BY <3>1, <2>2 DEF PutOff, Undisturbed
    <3>3. PICK i, j : i = finding[f] /\ j = finding'[f]
      OBVIOUS
    <3>4. j.status \in ActiveFindingStatuses
      <4>1. i.status \in ActiveFindingStatuses /\ Turned(i, j) /\ j.status # "resolved"
        BY <3>1, <3>2, <3>3, <2>1 DEF Waits, IsActive
      <4> QED BY <4>1 DEF Turned
    <3>5. IsActive(f)' /\ IsActive(f)
      BY <3>2, <3>3, <3>4 DEF IsActive, Waits
    <3>6. PICK b : b = Fallback(f)
      OBVIOUS
    <3>7. b = Fallback(f)' /\ (Patched(f)' <=> Patched(f)) /\ (Exists(b)' <=> Exists(b))
      BY <3>1, <3>5, <3>6, <2>10, <1>1 DEF Exists
    <3>8. Waits(f)'
      BY <3>1, <3>2, <3>5, <3>6, <3>7, <1>1 DEF Waits
    <3> QED BY <3>2, <3>8
  <2>14. Undisturbed'
    BY <2>5, <2>6, <2>11, <2>12, <2>13 DEF Undisturbed
  <2>15. ASSUME PutOff' # {} PROVE Cardinality(Candidates)' <= PlanLimit
    <3>1. PutOff # {}
      BY <2>13, <2>15
    <3>2. NobodyPast
      BY <1>1, <1>2 DEF NobodyPast, PastCommit, OthersIdle
    <3>3. Cardinality(Unsettled) <= PlanLimit
      BY <3>1, <3>2, <1>2 DEF FindingInv, Budgets
    <3>4. PICK U, V : U = Unsettled /\ V = Candidates'
      OBVIOUS
    <3>5. ASSUME NEW f \in V PROVE f \in U
      <4>1. f \in Patchable /\ f \in Findings /\ IsActive(f)' /\ ~Settled(f)'
        BY <3>4, ConstantsAre DEF Candidates, Unsettled, SettledPatches
      <4>2. ASSUME Settled(f) PROVE FALSE
        <5>1. IsActive(f)
          BY <4>2 DEF Settled
        <5>2. PICK b : b = Fallback(f)
          OBVIOUS
        <5>3. b = Fallback(f)' /\ (Patched(f)' <=> Patched(f)) /\ (Exists(b)' <=> Exists(b))
          BY <5>1, <5>2, <4>1, <2>10, <1>1 DEF Exists
        <5> QED BY <5>2, <5>3, <4>1, <4>2, <1>1 DEF Settled
      <4> QED BY <4>1, <4>2, <3>4 DEF Unsettled, SettledPatches
    <3>6. U \subseteq Patchable /\ V \subseteq U
      BY <3>4, <3>5 DEF Unsettled
    <3>7. Cardinality(V) <= Cardinality(U) /\ Cardinality(U) \in Nat /\ Cardinality(V) \in Nat
      BY <3>6, <2>2, CountedPlans, FinitePatchable
    <3>8. Cardinality(V) <= PlanLimit
      BY <3>3, <3>4, <3>7, ConstantsAre
    <3> QED BY <3>4, <3>8
  <2>16. Plans(s)'
    BY <2>15, <1>1 DEF Plans
  <2> QED BY <2>14, <2>16
<1>3. PastCommit(s)
  BY <1>1 DEF PastCommit
<1> QED BY <1>1, <1>2, <1>3, BudgetCommitter DEF FindingInv
-----------------------------------------------------------------------------
\* Every step keeps what holds.

LEMMA FindingsStart == FindingsInit => FindingInv
<1> SUFFICES ASSUME FindingsInit PROVE FindingInv
  OBVIOUS
<1>1. /\ repository \in Scopes \cup {Unmapped}
      /\ finding = [f \in Findings |-> Unseen]
      /\ action = [k \in IdempotencyKeys |-> NoGoverned]
      /\ refresher = [r \in Refreshers |-> Working]
      /\ deferrals = [f \in Findings |-> 0]
      /\ moves = 0 /\ decisions = 0 /\ crossings = 0 /\ interruptions = 0
  BY DEF FindingsInit
<1>2. \A k \in IdempotencyKeys : ~Exists(k)
  BY <1>1 DEF Exists
<1>3. \A f : Existing(f) = {}
  BY <1>2 DEF Existing, Of, Exists
<1>4. \A r \in Refreshers : refresher[r].pc = "idle"
  BY <1>1, WorkingState
<1>5. FindingTypes
  <2>1. finding \in [Findings -> Issue]
    BY <1>1, UnseenIssue
  <2>2. refresher \in [Refreshers -> RefresherStates]
    BY <1>1, WorkingState
  <2>3. FindingCounts
    BY <1>1, ConstantsAre DEF FindingCounts
  <2> QED BY <1>1, <2>1, <2>2, <2>3 DEF FindingTypes
<1>6. FindingBase
  <2>1. Rows
    BY <1>3, FS_EmptySet DEF Rows
  <2> QED BY <2>1, <1>4, <1>5 DEF FindingBase, Remembers
<1>7. Uncrossed
  <2>1. Histories
    BY <1>1, <1>2, <1>3 DEF Histories
  <2>2. \A r \in Refreshers : Sight(refresher[r])
    BY <1>4, SightAtRest
  <2> QED BY <2>1, <2>2 DEF Uncrossed
<1>8. Current
  BY <1>2 DEF Current, IsUndecided
<1>9. Moved
  <2>1. Patches
    BY <1>2, <1>3 DEF Patches
  <2> QED BY <2>1, <1>4 DEF Moved, DoomedAreSuperseded, Ensures
<1>10. Budgets
  <2>1. PutOff = {}
    BY <1>1 DEF PutOff
  <2>2. FindingsUntouched
    BY <1>1, UnseenIssue DEF FindingsUntouched
  <2>3. ActionsUntouched /\ PresentStand /\ PatchesFollow
    BY <1>2 DEF ActionsUntouched, PresentStand, PatchesFollow
  <2>4. \A r \in Refreshers : Plans(refresher[r]) /\ ~PastCommit(refresher[r])
    BY <1>4, PlansAtRest
  <2> QED BY <2>1, <2>2, <2>3, <2>4 DEF Budgets, Undisturbed
<1> QED BY <1>6, <1>7, <1>8, <1>9, <1>10 DEF FindingInv

LEMMA ReconcilesKeep ==
    ASSUME FindingInv, NEW r \in Refreshers, NEW observed \in SUBSET Findings, reconcile_findings(r, observed)
    PROVE  FindingInv'
<1>1. FindingBase
  BY DEF FindingInv
<1>2. PICK s : Alone(r, s) /\ Reads(r, s)
  BY <1>1, ReadsShape
<1>3. Calm /\ FindingBase'
  BY <1>1, ReadsShape
<1>4. refresher[r].pc = "idle" /\ s.pc # "ensuring"
  BY <1>2 DEF Reads
<1>5. Uncrossed' /\ Current' /\ Moved'
  BY <1>2, <1>3, <1>4, ReadSees, ReadKeepsCurrent, NotEnsuringSucceeds DEF FindingInv
<1>6. Budgets'
  BY <1>2, <1>3, ReadBudgets
<1> QED BY <1>3, <1>5, <1>6 DEF FindingInv

LEMMA CommitKeeps ==
    ASSUME FindingInv, NEW r \in Refreshers, CommitFindings(r)
    PROVE  FindingInv'
<1>1. FindingBase
  BY DEF FindingInv
<1>2. PICK s : WritesFindings(r, s)
  BY <1>1, CommitShape
<1>3. FindingBase'
  BY <1>1, CommitShape
<1>4. Uncrossed' /\ Current' /\ Moved'
  BY <1>2, <1>3, CommitSees, CommitKeepsCurrent, CommitSucceeds DEF FindingInv
<1>5. Budgets'
  BY <1>2, <1>3, CommitBudgets
<1> QED BY <1>3, <1>4, <1>5 DEF FindingInv

LEMMA StaleKeeps ==
    ASSUME FindingInv, NEW r \in Refreshers, _cancel_stale_actions(r)
    PROVE  FindingInv'
<1>1. FindingBase
  BY DEF FindingInv
<1>2. PICK s : Alone(r, s) /\ StaleTurns(r, s)
  BY <1>1, StaleShape
<1>3. Calm /\ FindingBase'
  BY <1>1, StaleShape
<1>4. s.pc # "ensuring"
  BY <1>2 DEF StaleTurns
<1>5. Uncrossed' /\ Current' /\ Moved'
  BY <1>2, <1>3, <1>4, StaleSees, ReadKeepsCurrent, NotEnsuringSucceeds DEF FindingInv
<1>6. Budgets'
  BY <1>2, <1>3, StaleBudgets
<1> QED BY <1>3, <1>5, <1>6 DEF FindingInv

LEMMA CancelKeeps ==
    ASSUME FindingInv, NEW r \in Refreshers, cancel_action(r)
    PROVE  FindingInv'
<1>1. FindingBase
  BY DEF FindingInv
<1>2. PICK s, k, a : Rewrites(r, s, k, a) /\ Cancels(r, s, k, a)
  BY <1>1, CancelShape
<1>3. Calm /\ FindingBase'
  BY <1>1, CancelShape
<1>4. Uncrossed' /\ Current' /\ Moved'
  BY <1>2, <1>3, CancelSees, CancelKeepsCurrent, CancelSucceeds DEF FindingInv
<1>5. Budgets'
  BY <1>2, <1>3, CancelBudgets DEF Calm
<1> QED BY <1>3, <1>4, <1>5 DEF FindingInv

LEMMA CollectKeeps ==
    ASSUME FindingInv, NEW r \in Refreshers, CollectActive(r)
    PROVE  FindingInv'
<1>1. FindingBase
  BY DEF FindingInv
<1>2. PICK s : Alone(r, s) /\ Collects(r, s)
  BY <1>1, CollectShape
<1>3. Calm /\ FindingBase'
  BY <1>1, CollectShape
<1>4. Uncrossed' /\ Current' /\ Moved'
  BY <1>2, <1>3, CollectSees, ReadKeepsCurrent, CollectSucceeds DEF FindingInv
<1>5. Budgets'
  BY <1>2, <1>3, CollectBudgets
<1> QED BY <1>3, <1>4, <1>5 DEF FindingInv

LEMMA AskKeeps ==
    ASSUME FindingInv, NEW r \in Refreshers, NEW f \in Findings, create_finding_action(r, f)
    PROVE  FindingInv'
<1>1. FindingBase
  BY DEF FindingInv
<1>2. PICK s : Alone(r, s) /\ Asks(r, s, f)
  BY <1>1, AskShape
<1>3. Calm /\ FindingBase'
  BY <1>1, AskShape
<1>4. refresher[r].pc = "idle"
  BY <1>2 DEF Asks
<1>5. Uncrossed' /\ Current' /\ Moved'
  BY <1>2, <1>3, <1>4, AskSees, ReadKeepsCurrent, AskSucceeds DEF FindingInv
<1>6. Budgets'
  BY <1>2, <1>3, AskBudgets
<1> QED BY <1>3, <1>5, <1>6 DEF FindingInv

LEMMA EnsureKeeps ==
    ASSUME FindingInv, NEW r \in Refreshers, ensure_action_for_finding(r)
    PROVE  FindingInv'
<1>1. FindingBase
  BY DEF FindingInv
<1>2. EnsureShapes(r) /\ interruptions' = interruptions /\ FindingBase'
  BY <1>1, EnsureShape
<1>3. ASSUME NEW s, NEW f, EnsuresReady(r, s, f) PROVE Uncrossed' /\ Current' /\ Moved' /\ Budgets'
  <2>1. Alone(r, s) /\ refresher[r].pc = "ensuring"
    BY <1>3 DEF EnsuresReady, Ensuring
  <2>2. Uncrossed' /\ Current' /\ Moved'
    BY <1>2, <1>3, <2>1, EnsureReadySees, EnsureAloneKeepsCurrent, EnsureReadySucceeds DEF FindingInv, AloneNotInterrupted
  <2>3. Budgets'
    BY <1>2, <1>3, EnsureReadyBudgets
  <2> QED BY <2>2, <2>3
<1>4. ASSUME NEW s, NEW f, NEW k, NEW outcome, EnsuresNew(r, s, f, k, outcome) PROVE Uncrossed' /\ Current' /\ Moved' /\ Budgets'
  <2>1. Uncrossed' /\ Current' /\ Moved'
    BY <1>4, EnsureNewSees, EnsureNewKeepsCurrent, EnsureNewSucceeds DEF FindingInv
  <2>2. Budgets'
    BY <1>4, EnsureNewBudgets
  <2> QED BY <2>1, <2>2
<1>5. ASSUME NEW s, NEW f, NEW k, EnsuresPatch(r, s, f, k) PROVE Uncrossed' /\ Current' /\ Moved' /\ Budgets'
  <2>1. Alone(r, s) /\ refresher[r].pc = "ensuring"
    BY <1>5 DEF EnsuresPatch, Ensuring
  <2>2. Uncrossed' /\ Current' /\ Moved'
    BY <1>2, <1>5, <2>1, EnsurePatchSees, EnsureAloneKeepsCurrent, EnsurePatchSucceeds DEF FindingInv, AloneNotInterrupted
  <2>3. Budgets'
    BY <1>2, <1>5, EnsurePatchBudgets
  <2> QED BY <2>2, <2>3
<1>6. ASSUME NEW s, NEW f, NEW k, NEW a, NEW outcome, EnsuresFallback(r, s, f, k, a, outcome)
      PROVE  Uncrossed' /\ Current' /\ Moved' /\ Budgets'
  <2>1. Uncrossed' /\ Current' /\ Moved'
    BY <1>6, EnsureFallbackSees, EnsureFallbackKeepsCurrent, EnsureFallbackSucceeds DEF FindingInv
  <2>2. Budgets'
    BY <1>6, EnsureFallbackBudgets
  <2> QED BY <2>1, <2>2
<1> QED BY <1>2, <1>3, <1>4, <1>5, <1>6 DEF FindingInv, EnsureShapes

LEMMA ProposeKeeps ==
    ASSUME FindingInv, NEW r \in Refreshers, propose_action(r)
    PROVE  FindingInv'
<1>1. FindingBase
  BY DEF FindingInv
<1>2. PICK s, k, a : Rewrites(r, s, k, a) /\ Proposes(r, s, k, a)
  BY <1>1, ProposeShape
<1>3. Calm /\ FindingBase'
  BY <1>1, ProposeShape
<1>4. Uncrossed' /\ Current' /\ Moved'
  BY <1>2, <1>3, ProposeSees, ProposeKeepsCurrent, ProposeSucceeds DEF FindingInv
<1>5. Budgets'
  BY <1>2, <1>3, ProposeBudgets DEF Calm
<1> QED BY <1>3, <1>4, <1>5 DEF FindingInv

LEMMA RestKeeps ==
    ASSUME FindingInv, NEW r \in Refreshers, Refreshed(r) \/ Interrupted(r)
    PROVE  FindingInv'
<1>1. FindingBase
  BY DEF FindingInv
<1>2. PICK s : Alone(r, s) /\ Rests(r, s)
  BY <1>1, RestShape
<1>3. /\ deferrals' = deferrals /\ FindingBase'
      /\ \/ interruptions' = interruptions /\ refresher[r].pc = "ensuring" /\ refresher[r].todo = {}
         \/ interruptions' # 0
  BY <1>1, RestShape
<1>4. s.pc # "ensuring" /\ AloneNotInterrupted /\ (interruptions' = 0 => refresher[r].pc = "ensuring" /\ refresher[r].todo = {})
  BY <1>2, <1>3, WorkingState DEF Rests, AloneNotInterrupted
<1>5. Uncrossed' /\ Current' /\ Moved'
  BY <1>2, <1>3, <1>4, RestSees, EnsureAloneKeepsCurrent, NotEnsuringSucceeds DEF FindingInv
<1>6. Budgets'
  BY <1>2, <1>3, <1>4, RestBudgets
<1> QED BY <1>3, <1>5, <1>6 DEF FindingInv

LEMMA MoveKeeps ==
    ASSUME FindingInv, RepositoryMoves
    PROVE  FindingInv'
<1>1. FindingBase
  BY DEF FindingInv
<1>2. /\ FindingBase' /\ moves' = moves + 1 /\ moves \in Nat /\ repository' # repository
      /\ UNCHANGED <<finding, action, refresher, deferrals, crossings, decisions, interruptions>>
  BY <1>1, MoveShape
<1>3. Uncrossed' /\ Current' /\ Moved'
  BY <1>2, MoveSees, MoveKeepsCurrent, MoveSucceeds DEF FindingInv
<1>4. moves' # 0
  BY <1>2
<1>5. Budgets'
  BY <1>4 DEF Budgets, Quiet
<1> QED BY <1>2, <1>3, <1>5 DEF FindingInv

LEMMA UserKeeps ==
    ASSUME FindingInv,
           \/ \E f \in Findings, status \in {"open", "regressed", "resolved", "dismissed"} : update_finding_status(f, status)
           \/ \E k \in IdempotencyKeys : UserMoves(k)
    PROVE  FindingInv'
<1>1. FindingBase
  BY DEF FindingInv
<1>2. ASSUME Between PROVE Budgets'
  BY <1>2 DEF Between, Budgets, Quiet
<1>3. ASSUME NEW f \in Findings, NEW status \in {"open", "regressed", "resolved", "dismissed"}, update_finding_status(f, status)
      PROVE  FindingInv'
  <2>1. UserSets(f, status) /\ Between /\ FindingBase'
    BY <1>1, <1>3, UserSetsShape
  <2>2. Uncrossed' /\ Current' /\ Moved'
    BY <2>1, UserSetsSees, UserSetsKeepsCurrent, UserSetsSucceeds DEF FindingInv
  <2> QED BY <2>1, <2>2, <1>2 DEF FindingInv
<1>4. ASSUME NEW k \in IdempotencyKeys, UserMoves(k) PROVE FindingInv'
  <2>1. PICK a : UserRewrites(k, a)
    BY <1>1, <1>4, UserRewritesShape
  <2>2. Between /\ FindingBase'
    BY <1>1, <1>4, UserRewritesShape
  <2>3. Uncrossed' /\ Current' /\ Moved'
    BY <2>1, <2>2, UserRewritesSees, UserRewritesKeepsCurrent, UserRewritesSucceeds DEF FindingInv
  <2> QED BY <2>2, <2>3, <1>2 DEF FindingInv
<1> QED BY <1>3, <1>4

LEMMA FindingsStutter ==
    ASSUME FindingInv, UNCHANGED findingVars
    PROVE  FindingInv'
<1>1. /\ finding' = finding /\ action' = action /\ repository' = repository /\ refresher' = refresher /\ deferrals' = deferrals
      /\ moves' = moves /\ decisions' = decisions /\ crossings' = crossings /\ interruptions' = interruptions
  BY DEF findingVars
<1>2. FindingBase'
  BY <1>1 DEF FindingInv, FindingBase, FindingTypes, FindingCounts, Rows, Remembers, Existing, Of, Exists
<1>3. Uncrossed'
  BY <1>1, MoveSees DEF FindingInv
<1>4. Current'
  BY <1>1, MoveKeepsCurrent DEF FindingInv
<1>5. Moved'
  <2>1. SUFFICES ASSUME crossings = 0, moves < 2
                 PROVE  Patches' /\ \A r \in Refreshers : DoomedAreSuperseded(refresher[r])' /\ Ensures(refresher[r])'
    BY <1>1 DEF Moved
  <2>2. Patches'
    BY <2>1, <1>1 DEF FindingInv, Moved, Patches, Exists, PatchHere, Present, Untroubled, IsActive, Withdrawn, Existing, Of
  <2>3. ASSUME NEW r \in Refreshers PROVE DoomedAreSuperseded(refresher[r])' /\ Ensures(refresher[r])'
    <3>1. PICK t : t = refresher[r] /\ t = refresher'[r]
      BY <1>1
    <3>2. Succession(t)
      BY <3>1, <2>1 DEF FindingInv, Moved, Succession
    <3>3. Succession(t)'
      BY <3>2, <1>1, SuccessionKept
    <3> QED BY <3>1, <3>3, SuccessionOf
  <2> QED BY <2>2, <2>3
<1>6. Budgets'
  <2>1. SUFFICES ASSUME Quiet PROVE Budgets'
    BY <1>1 DEF Budgets, Quiet, EnoughPlans
  <2>2. /\ Undisturbed' /\ PutOff' = PutOff /\ Unsettled' = Unsettled /\ Candidates' = Candidates /\ SettledPatches' = SettledPatches
    BY <2>1, <1>1, DisturbedKept DEF FindingInv, Budgets
  <2>3. ASSUME NEW r \in Refreshers PROVE Plans(refresher[r])'
    <3>1. PICK t : t = refresher[r] /\ t = refresher'[r]
      BY <1>1
    <3>2. Plans(t)
      BY <3>1, <2>1 DEF FindingInv, Budgets
    <3> QED BY <3>1, <3>2, <2>2, PlansKept, PlansOf
  <2>4. NobodyPast' <=> NobodyPast
    BY <1>1 DEF NobodyPast, PastCommit
  <2> QED BY <1>1, <2>1, <2>2, <2>3, <2>4 DEF FindingInv, Budgets, PastCommit
<1> QED BY <1>2, <1>3, <1>4, <1>5, <1>6 DEF FindingInv

LEMMA FindingsStep == FindingInv /\ [FindingsNext]_findingVars => FindingInv'
<1> SUFFICES ASSUME FindingInv, [FindingsNext]_findingVars PROVE FindingInv'
  OBVIOUS
<1>1. CASE UNCHANGED findingVars
  BY <1>1, FindingsStutter
<1>2. CASE FindingsNext
  BY <1>2, ReconcilesKeep, CommitKeeps, StaleKeeps, CancelKeeps, CollectKeeps, AskKeeps, EnsureKeeps, ProposeKeeps, RestKeeps,
     MoveKeeps, UserKeeps DEF FindingsNext
<1> QED BY <1>1, <1>2

FindingsSpec == FindingsInit /\ [][FindingsNext]_findingVars

\* What holds whenever the findings are refreshed, however the refreshes, the
\* users and the repository take turns.
THEOREM FindingsInvariance == FindingsSpec => []FindingInv
  BY FindingsStart, FindingsStep, PTL DEF FindingsSpec
-----------------------------------------------------------------------------
\* What follows from it.

LEMMA FindingsTyped == FindingInv => FindingsTypeOK
BY DEF FindingInv, FindingBase, FindingTypes, FindingsTypeOK, FindingCounts

LEMMA OpenActionsStayCurrent == FindingInv => OpenActionsAreCurrent
<1> SUFFICES ASSUME FindingInv, AtRest, crossings = 0, interruptions = 0, NEW k \in IdempotencyKeys,
                    action[k] # NoGoverned, action[k].status \in Undecided, ~finding[k[1]].touched
             PROVE  finding[k[1]].status \in ActiveFindingStatuses /\ k[2] = finding[k[1]].regression_count
  BY DEF OpenActionsAreCurrent
<1>1. IsUndecided(k)
  BY DEF IsUndecided, Exists
<1>2. \A r \in Refreshers : ~Ends(refresher[r], k)
  BY DEF AtRest, Ends
<1>3. IsActive(k[1]) /\ Present(k)
  BY <1>1, <1>2 DEF FindingInv, Current
<1> QED BY <1>3 DEF IsActive, Present

LEMMA BudgetComesRound == FindingInv => DeferredComesNext
<1> SUFFICES ASSUME FindingInv, Quiet, NEW f \in Findings PROVE deferrals[f] <= 1
  BY DEF DeferredComesNext, Quiet, EnoughPlans
<1>1. CASE f \in PutOff
  BY <1>1 DEF FindingInv, Budgets, Undisturbed, Waits
<1>2. CASE f \notin PutOff
  BY <1>2 DEF PutOff
<1> QED BY <1>1, <1>2

\* What a refresher leaves as users have decided it.
LeavesDecisions ==
    /\ \A f \in Findings : finding[f].status = "dismissed" => finding'[f].status = "dismissed"
    /\ \A k \in IdempotencyKeys :
          action[k] # NoGoverned /\ action'[k].status # action[k].status => action[k].status \in Undecided

LEMMA NothingDecided ==
    ASSUME finding' = finding, action' = action
    PROVE  LeavesDecisions
BY DEF LeavesDecisions

LEMMA OneDecided ==
    ASSUME FindingTypes, NEW r \in Refreshers, NEW s, NEW k, NEW a, Rewrites(r, s, k, a),
           a.status # action[k].status => action[k].status \in Undecided
    PROVE  LeavesDecisions
<1>1. k \in IdempotencyKeys /\ Exists(k) /\ a \in GovernedAction /\ a.born = action[k].born /\ ActionBecomes(k, a) /\ finding' = finding
  BY DEF Rewrites
<1>2. action'[k] = a /\ \A l \in IdempotencyKeys : l # k => action'[l] = action[l]
  BY <1>1, ActionRewritten DEF ActionIs
<1> QED BY <1>1, <1>2 DEF LeavesDecisions

LEMMA RefreshLeaves ==
    ASSUME FindingInv, crossings = 0, NEW r \in Refreshers,
           \/ \E observed \in SUBSET Findings : reconcile_findings(r, observed)
           \/ CommitFindings(r)
           \/ _cancel_stale_actions(r) \/ cancel_action(r)
           \/ CollectActive(r) \/ ensure_action_for_finding(r) \/ propose_action(r)
           \/ Refreshed(r) \/ Interrupted(r)
           \/ \E f \in Findings : create_finding_action(r, f)
    PROVE  LeavesDecisions
<1>1. FindingBase /\ FindingTypes
  BY DEF FindingInv, FindingBase
<1>2. Sight(refresher[r]) /\ refresher[r] \in RefresherStates
  BY <1>1, RefresherSees DEF FindingInv, FindingTypes
<1>3. CASE \/ \E observed \in SUBSET Findings : reconcile_findings(r, observed)
           \/ _cancel_stale_actions(r) \/ CollectActive(r) \/ Refreshed(r) \/ Interrupted(r)
           \/ \E f \in Findings : create_finding_action(r, f)
  <2>1. finding' = finding /\ action' = action
    BY <1>3 DEF reconcile_findings, _cancel_stale_actions, CollectActive, Refreshed, Interrupted, create_finding_action
  <2> QED BY <2>1, NothingDecided
<1>4. CASE CommitFindings(r)
  <2>1. PICK s : WritesFindings(r, s)
    BY <1>1, <1>4, CommitShape
  <2>2. action' = action /\ \A f \in Findings : Turned(finding[f], finding'[f])
    BY <2>1, <1>1, CommitTurns DEF WritesFindings, FindingInv
  <2> QED BY <2>2 DEF LeavesDecisions, Turned
<1>5. CASE cancel_action(r)
  <2>1. PICK s, k, a : Rewrites(r, s, k, a) /\ Cancels(r, s, k, a)
    BY <1>1, <1>5, CancelShape
  <2>2. k \in refresher[r].doomed /\ refresher[r].pc \in {"stale", "ensuring"}
    BY <2>1 DEF Cancels
  <2>3. action[k].status \in Undecided
    BY <2>2, <1>2 DEF Sight, SeesStale, SeesActive, IsUndecided
  <2> QED BY <2>1, <2>3, <1>1, OneDecided
<1>6. CASE propose_action(r)
  <2>1. PICK s, k, a : Rewrites(r, s, k, a) /\ Proposes(r, s, k, a)
    BY <1>1, <1>6, ProposeShape
  <2>2. k \in refresher[r].new /\ refresher[r].pc = "ensuring"
    BY <2>1 DEF Proposes
  <2>3. action[k].status \in Undecided
    BY <2>2, <1>2 DEF Sight, SeesActive, Undecided
  <2> QED BY <2>1, <2>3, <1>1, OneDecided
<1>7. CASE ensure_action_for_finding(r)
  <2>1. EnsureShapes(r)
    BY <1>1, <1>7, EnsureShape
  <2>2. ASSUME NEW s, Alone(r, s) PROVE LeavesDecisions
    BY <2>2, NothingDecided DEF Alone
  <2>3. ASSUME NEW s, NEW f, NEW k, NEW outcome, EnsuresNew(r, s, f, k, outcome) PROVE LeavesDecisions
    <3>1. k \in IdempotencyKeys /\ ~Exists(k) /\ outcome \in {"budget", "declined", "ready"} /\ ActionBecomes(k, DraftOf(k, outcome))
          /\ finding' = finding
      BY <2>3 DEF EnsuresNew, Creates
    <3>2. PICK a : a = DraftOf(k, outcome)
      OBVIOUS
    <3>3. Created(k, a)
      BY <3>1, <3>2, ActionCreated DEF FindingInv, FindingBase
    <3>4. \A l \in IdempotencyKeys : l # k => action'[l] = action[l]
      BY <3>3 DEF Created
    <3> QED BY <3>1, <3>4 DEF LeavesDecisions, Exists
  <2>4. ASSUME NEW s, NEW f, NEW k, NEW a, NEW outcome, EnsuresFallback(r, s, f, k, a, outcome) PROVE LeavesDecisions
    <3>1. Rewrites(r, s, k, a) /\ a.status = action[k].status
      BY <2>4 DEF EnsuresFallback
    <3> QED BY <3>1, <1>1, OneDecided
  <2> QED BY <2>1, <2>2, <2>3, <2>4 DEF EnsureShapes, EnsuresReady, EnsuresPatch
<1> QED BY <1>3, <1>4, <1>5, <1>6, <1>7

DecisionsStand ==
    \A r \in Refreshers : refresher[r].pc # "idle" /\ refresher'[r] # refresher[r] /\ crossings = 0 =>
          /\ \A f \in Findings : finding[f].status = "dismissed" => finding'[f].status = "dismissed"
          /\ \A k \in IdempotencyKeys :
                action[k] # NoGoverned /\ action'[k].status # action[k].status => action[k].status \in Undecided

LEMMA DecisionsAreLeft == FindingInv /\ [FindingsNext]_findingVars => [DecisionsStand]_findingVars
<1> SUFFICES ASSUME FindingInv, FindingsNext, NEW r \in Refreshers, refresher'[r] # refresher[r], crossings = 0 PROVE LeavesDecisions
  BY DEF DecisionsStand, LeavesDecisions
<1>1. ~RepositoryMoves
  BY DEF RepositoryMoves
<1>2. ~(\E f \in Findings, status \in {"open", "regressed", "resolved", "dismissed"} : update_finding_status(f, status))
  BY DEF update_finding_status, Decides
<1>3. ~(\E k \in IdempotencyKeys : UserMoves(k))
  BY DEF UserMoves, Decides
<1> QED BY <1>1, <1>2, <1>3, RefreshLeaves DEF FindingsNext

\* Refreshes neither leave what is out of date nor undo what users decided, and
\* the budget of technical_finding_service.py comes round: of twice as many
\* findings as one refresh may plan for, none is put off twice.
THEOREM FindingsAreSafe == FindingsSpec => FindingSafety
<1>1. FindingInv => FindingsTypeOK /\ OpenActionsAreCurrent /\ DeferredComesNext
  BY FindingsTyped, OpenActionsStayCurrent, BudgetComesRound
<1>2. FindingsSpec => [](FindingsTypeOK /\ OpenActionsAreCurrent /\ DeferredComesNext)
  BY <1>1, FindingsInvariance, PTL
<1>3. FindingsSpec => [][DecisionsStand]_findingVars
  BY DecisionsAreLeft, FindingsInvariance, PTL DEF FindingsSpec
<1> QED BY <1>2, <1>3 DEF FindingSafety, RefreshesLeaveDecisions, DecisionsStand

GovernedAtTheEnd ==
    \A r \in Refreshers : Refreshed(r) /\ refresher[r].whole /\ crossings = 0 /\ moves < 2 =>
          \A f \in Findings :
              finding[f].status \in ActiveFindingStatuses /\ ~finding[f].touched
              => \E k \in Existing(f) :
                    \/ action[k].status \in CurrentStatuses
                    \/ k[2] = finding[f].regression_count /\ ~(action[k].status = "cancelled" /\ action[k].by = "system")

LEMMA RefreshGoverns == FindingInv => [GovernedAtTheEnd]_findingVars
<1> SUFFICES ASSUME FindingInv, NEW r \in Refreshers, Refreshed(r), refresher[r].whole, crossings = 0, moves < 2,
                    NEW f \in Findings, finding[f].status \in ActiveFindingStatuses, ~finding[f].touched
             PROVE  \E k \in Existing(f) :
                       \/ action[k].status \in CurrentStatuses
                       \/ k[2] = finding[f].regression_count /\ ~(action[k].status = "cancelled" /\ action[k].by = "system")
  BY DEF GovernedAtTheEnd
<1>1. refresher[r].pc = "ensuring" /\ refresher[r].todo = {}
  BY DEF Refreshed
<1>2. Ensures(refresher[r])
  BY DEF FindingInv, Moved
<1>3. HasGoverned(f)
  BY <1>1, <1>2 DEF Ensures, Untroubled, IsActive
<1>4. \A k \in Existing(f) : Present(k) <=> k[2] = finding[f].regression_count
  BY ExistingKey DEF Present
<1> QED BY <1>3, <1>4 DEF HasGoverned, Withdrawn

\* A refresh that ends leaves every active finding its governed action, however
\* earlier refreshes were interrupted.
THEOREM FindingsAreGoverned == FindingsSpec => ActiveFindingsAreGoverned
<1>1. FindingsSpec => [][GovernedAtTheEnd]_findingVars
  BY RefreshGoverns, FindingsInvariance, PTL
<1> QED BY <1>1 DEF ActiveFindingsAreGoverned, GovernedAtTheEnd
=============================================================================
