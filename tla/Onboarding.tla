----------------------------- MODULE Onboarding -----------------------------
(*****************************************************************************)
(* The onboarding wizard of onboarding_service.py and the launch that        *)
(* routers/onboarding.py ends it with, beside all else that Sites does to    *)
(* the sites: a step commits the site before it commits the answer.          *)
(*****************************************************************************)
EXTENDS Sites

CONSTANT Founders  \* workspaces whose first user is in the wizard

ASSUME OnboardingConstants == Founders \subseteq Tenants

VARIABLE wizard  \* onboarding_states: the row of one user per workspace

onboardingVars == <<siteVars, wizard>>
-----------------------------------------------------------------------------
ONBOARDING_STEPS == {"profile", "site", "cms", "google", "goals", "review"}
Required == {"profile", "site", "goals"}
Answers == [site : SiteIds \cup {Null}, launch : {"none", "queued", "running", "failed"}]
OnboardingState ==
    [steps : SUBSET ONBOARDING_STEPS, answers : Answers, status : {"in_progress", "completed"}]

\* get_or_create_onboarding
FreshState == [steps |-> {}, answers |-> [site |-> Null, launch |-> "none"], status |-> "in_progress"]

OnboardingInit == SitesInit /\ wizard = [w \in Founders |-> FreshState]

\* What an UPDATE leaves of a row: it names the columns that changed.  The answers
\* have more in them than the site and the launch: text says that it changed.
Write(w, read, new, text) ==
    LET changed == {f \in DOMAIN new : new[f] # read[f] \/ (text /\ f = "answers")} IN
    wizard' = [wizard EXCEPT ![w] = [f \in DOMAIN new |-> IF f \in changed THEN new[f] ELSE @[f]]]

Own(i, w) == i \in OwnedBy(w)
-----------------------------------------------------------------------------
\* Steps of the wizard.

\* Mutant of save_onboarding_step: a completed wizard stays so.
SavedCompleted(read, step, done, id) ==
    [steps |-> read.steps \cup (IF done THEN {step} ELSE {}),
     answers |-> IF step = "site" THEN [read.answers EXCEPT !.site = id] ELSE read.answers,
     status |-> read.status]

\* merge_step_answers, and the steps that are done.
save_onboarding_step(read, step, done, id) ==
    [steps |-> read.steps \cup (IF done THEN {step} ELSE {}),
     answers |-> IF step = "site" THEN [read.answers EXCEPT !.site = id] ELSE read.answers,
     status |-> "in_progress"]

\* The site that the client's answers name: none, or any that is or was.
Named == {Null} \cup {i \in SiteIds : site[i] # Null}

\* Any step but a completed "site".  The answers of a draft are merged as they
\* are: a draft of "site" may name a site, or leave the name as it is.
save_step(t, w, step, done) ==
    /\ step = "site" => ~done
    /\ \E id \in (IF step = "site" THEN Named \cup {wizard[w].answers.site} ELSE {Null}) :
          Opens(t, [Closed EXCEPT !.pc = "answer", !.by = w, !.id = id,
                                  !.read = [state |-> wizard[w], step |-> step, done |-> done]])
    /\ UNCHANGED <<rows, wizard>>

\* "This domain already belongs to another workspace"
Available(d, w) == \A i \in At(d) : Own(i, w)

\* The step "site": the site of the domain if it is the workspace's own, else
\* the site of an earlier answer, else a new one.
ReadSiteStep(t, w, d) ==
    LET before == {i \in OwnedBy(w) : i = wizard[w].answers.site}
        choice == IF At(d) # {} THEN At(d) ELSE before
    IN
    /\ Available(d, w)
    /\ choice = {} => HasSeat(w)
    /\ \E i \in (IF choice = {} THEN {Null} ELSE choice) :
          Opens(t, [Closed EXCEPT !.pc = "site", !.by = w, !.domain = d, !.id = i,
                                  !.read = [state |-> wizard[w], step |-> "site", done |-> TRUE]])
    /\ UNCHANGED <<rows, wizard>>

\* The site is committed first.
_apply_site(t) ==
    LET r == tab[t] IN
    /\ r.pc = "site"
    /\ \E i \in SiteIds :
          /\ \/ r.id = Null /\ Insert(i, r.by, r.domain)
             \/ /\ r.id = i /\ Exists(i) /\ At(r.domain) \subseteq {i}
                /\ site' = [site EXCEPT ![i].domain = r.domain]
          /\ tab' = [tab EXCEPT ![t].pc = "answer", ![t].id = i]
    /\ UNCHANGED <<claims, won, audit, wizard, clashes>>

CommitStep(t) ==
    LET r == tab[t] s == r.read.state IN
    /\ r.pc = "answer"
    /\ \E text \in BOOLEAN : Write(r.by, s, save_onboarding_step(s, r.read.step, r.read.done, r.id), text)
    /\ Closes(t)
    /\ UNCHANGED rows
-----------------------------------------------------------------------------
\* Completion and launch.

Ready(w) == Required \subseteq wizard[w].steps /\ wizard[w].answers.site # Null

complete_onboarding(t, w) ==
    /\ Ready(w) /\ Own(wizard[w].answers.site, w)
    /\ Opens(t, [Closed EXCEPT !.pc = "complete", !.by = w,
                            !.read = [state |-> wizard[w], step |-> "review", done |-> TRUE]])
    /\ UNCHANGED <<rows, wizard>>

\* The wizard is completed; then the launch, if it was asked for.
CommitCompletion(t) ==
    LET r == tab[t]
        s == r.read.state
        new == [steps |-> s.steps \cup {"review"}, answers |-> [s.answers EXCEPT !.launch = "queued"],
                status |-> "completed"]
    IN
    /\ r.pc = "complete"
    /\ Write(r.by, s, new, TRUE)
    /\ \/ Closes(t)
       \/ tab' = [tab EXCEPT ![t].pc = "launch", ![t].read.state = wizard'[r.by]] /\ UNCHANGED clashes
    /\ UNCHANGED rows

\* queue_initial_crawl finds the site, and the launch is on its way.
finish_onboarding(t) ==
    LET r == tab[t] s == r.read.state IN
    /\ r.pc = "launch" /\ Own(s.answers.site, r.by)
    /\ \E text \in BOOLEAN : Write(r.by, s, [s EXCEPT !.answers.launch = "running"], text)
    /\ Closes(t)
    /\ UNCHANGED rows

Reopened(s) == [steps |-> s.steps \ {"review"}, answers |-> [s.answers EXCEPT !.launch = "failed"],
                status |-> "in_progress"]

\* The site is gone, or its crawl is refused: the wizard is open again.
_mark_launch_failed(t) ==
    LET r == tab[t] IN
    /\ r.pc = "launch"
    /\ \E text \in BOOLEAN : Write(r.by, r.read.state, Reopened(r.read.state), text)
    /\ Closes(t)
    /\ UNCHANGED rows
-----------------------------------------------------------------------------
OnboardingNext ==
    \/ SitesNext /\ UNCHANGED wizard
    \/ \E t \in Tabs :
          \/ \E w \in Founders :
                \/ \E step \in ONBOARDING_STEPS, done \in BOOLEAN : save_step(t, w, step, done)
                \/ \E d \in Domains : ReadSiteStep(t, w, d)
                \/ complete_onboarding(t, w)
          \/ _apply_site(t) \/ CommitStep(t) \/ CommitCompletion(t)
          \/ finish_onboarding(t) \/ _mark_launch_failed(t)
-----------------------------------------------------------------------------
\* Properties.

OnboardingTypeOK ==
    /\ wizard \in [Founders -> OnboardingState]
    /\ \A t \in Tabs : tab[t].pc \in {"idle", "create", "lookup", "verified", "audit", "site", "answer", "complete", "launch"}

\* "Complete required onboarding steps first": until requests clash, a completed
\* wizard has the required steps and its review, no failed launch, and a site
\* that was the workspace's own when it was completed: whatever a draft named
\* before, a later step has opened it again, and since then the site has at
\* most been deleted.
CompletedIsReady ==
    clashes = 0 => \A w \in Founders : wizard[w].status = "completed" =>
        /\ Required \cup {"review"} \subseteq wizard[w].steps
        /\ wizard[w].answers.launch \in {"queued", "running"}
        /\ wizard[w].answers.site # Null
        /\ LET i == wizard[w].answers.site IN Own(i, w) \/ site[i] = Deleted

\* The wizard says how far the workspace has come, although steps, sites and
\* launches commit one by one.
WizardInv == OnboardingTypeOK /\ CompletedIsReady
=============================================================================
