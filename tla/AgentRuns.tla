------------------------------ MODULE AgentRuns ------------------------------
(*****************************************************************************)
(* An agent run waits for a crawl of its site and is then analysed: started  *)
(* by routers/agent.py, taken on under a lease by the reconciliation of      *)
(* crawl_job_service.py, analysed and reported by agent_graph.py.            *)
(*                                                                           *)
(* The reconciliation locks the runs it has chosen.  The report does not: it *)
(* reads the run, looks at the owner of the lease, and writes later.         *)
(*****************************************************************************)
EXTENDS Integers, FiniteSets

CONSTANTS
    RunSites,
    MaxRuns,        \* bound: agent_runs, in the order of started_at
    MaxCrawls,      \* bound: crawl jobs, in the order in which they are made
    Analysts,       \* processes that reconcile and analyse
    ReconcileLimit, \* runs that a reconciliation chooses
    MaxResumes,     \* bound: crawls taken up again
    MaxStops,       \* bound: processes that stop
    MaxOvertakes    \* bound: leases that end while their analysis is at work

ASSUME AgentConstants == MaxStops < ReconcileLimit /\ MaxRuns \in Nat /\ MaxCrawls \in Nat

VARIABLES
    run,        \* agent_runs
    crawl,      \* job_queue, the jobs of type crawl
    starter,    \* the request of start_agent_run that is at work
    scheduled,  \* the run that scheduled_agent_run analyses, or 0
    analyst,
    resumes, stops, overtakes,
    pagesRetried, \* history: a crawl was taken up by retry_failed_crawl_pages
    resumedMeanwhile, \* history: a crawl was resumed while a reconciliation had read it
    leasedMeanwhile \* history: a run was leased anew between a report's read and its write

jobVars == <<crawl, resumes, pagesRetried, resumedMeanwhile>>
agentVars == <<run, jobVars, starter, scheduled, analyst, stops, overtakes, leasedMeanwhile>>
-----------------------------------------------------------------------------
Runs == 1..MaxRuns
Crawls == 1..MaxCrawls
NoRun == [status |-> "absent"]
NoCrawl == [status |-> "absent"]
AtRest == [pc |-> "idle"]
Unlinked == 0

\* link: crawl_job_id in meta.  owner: analysis_lease_owner, 0 for none.
NewRun(site, status) == [site |-> site, status |-> status, link |-> Unlinked, owner |-> 0, leased |-> FALSE]
IsActive(r) == run[r].status \in {"crawling", "running"}
RunHasEnded(r) == run[r].status \in {"completed", "failed"}
ActiveCrawls(s) == {c \in Crawls : crawl[c].status = "active" /\ crawl[c].site = s}

AgentInit ==
    /\ run = [r \in Runs |-> NoRun]
    /\ crawl = [c \in Crawls |-> NoCrawl]
    /\ starter = AtRest /\ scheduled = 0
    /\ analyst = [a \in Analysts |-> AtRest]
    /\ resumes = 0 /\ stops = 0 /\ overtakes = 0
    /\ pagesRetried = FALSE /\ resumedMeanwhile = FALSE /\ leasedMeanwhile = FALSE

Goes(a, state) == analyst' = [analyst EXCEPT ![a] = state]
Locked(r) == \E a \in Analysts : analyst[a].pc = "reconcile" /\ r \in analyst[a].rows
First(rows) == CHOOSE r \in rows : \A o \in rows : r <= o
Vacant(rows, None) == {i \in DOMAIN rows : rows[i] = None}
-----------------------------------------------------------------------------
\* start_agent_run: a site whose run is active gets no other one.  The run is
\* committed with its crawl, and linked to it by a second commit.
start_agent_run(s) ==
    /\ starter.pc = "idle"
    /\ ~ \E r \in Runs : IsActive(r) /\ run[r].site = s
    /\ starter' = [pc |-> "start", site |-> s, active |-> ActiveCrawls(s)]
    /\ UNCHANGED <<run, scheduled, analyst, stops, overtakes, jobVars, leasedMeanwhile>>

\* The crawl that was read is taken, ended or not; or enqueue_crawl_job finds
\* one or makes one.
CommitRun ==
    /\ starter.pc = "start"
    /\ Vacant(run, NoRun) # {}
    /\ LET r == First(Vacant(run, NoRun))
           found == IF starter.active # {} THEN starter.active ELSE ActiveCrawls(starter.site)
       IN
       /\ run' = [run EXCEPT ![r] = NewRun(starter.site, "crawling")]
       /\ IF found # {}
          THEN /\ starter' = [pc |-> "link", run |-> r, crawl |-> First(found)]
               /\ UNCHANGED crawl
          ELSE /\ Vacant(crawl, NoCrawl) # {}
               /\ LET c == First(Vacant(crawl, NoCrawl)) IN
                  /\ starter' = [pc |-> "link", run |-> r, crawl |-> c]
                  /\ crawl' = [crawl EXCEPT ![c] = [site |-> starter.site, status |-> "active"]]
    /\ UNCHANGED <<scheduled, analyst, resumes, stops, overtakes, pagesRetried, resumedMeanwhile, leasedMeanwhile>>

LinkRun ==
    /\ starter.pc = "link"
    /\ ~Locked(starter.run)
    /\ run' = [run EXCEPT ![starter.run].link = starter.crawl]
    /\ starter' = AtRest
    /\ UNCHANGED <<scheduled, analyst, stops, overtakes, jobVars, leasedMeanwhile>>

\* A request that is refused for want of pages, or whose process stops.
StartFails ==
    /\ starter.pc # "idle" /\ starter' = AtRest
    /\ IF starter.pc = "link" THEN stops < MaxStops /\ stops' = stops + 1 ELSE UNCHANGED stops
    /\ UNCHANGED <<run, scheduled, analyst, overtakes, jobVars, leasedMeanwhile>>
-----------------------------------------------------------------------------
\* scheduled_agent_run: a run without crawl and without lease, one at a time.
scheduled_agent_run(s) ==
    /\ scheduled = 0 /\ Vacant(run, NoRun) # {}
    /\ LET r == First(Vacant(run, NoRun)) IN
       /\ run' = [run EXCEPT ![r] = NewRun(s, "running")]
       /\ scheduled' = r
    /\ UNCHANGED <<starter, analyst, stops, overtakes, jobVars, leasedMeanwhile>>

ScheduledReport ==
    /\ scheduled # 0 /\ ~Locked(scheduled)
    /\ \E end \in {"completed", "failed"} : run' = [run EXCEPT ![scheduled].status = end]
    /\ scheduled' = 0
    /\ UNCHANGED <<starter, analyst, stops, overtakes, jobVars, leasedMeanwhile>>

SchedulerStops ==
    /\ scheduled # 0 /\ stops < MaxStops
    /\ stops' = stops + 1 /\ scheduled' = 0
    /\ UNCHANGED <<run, starter, analyst, overtakes, jobVars, leasedMeanwhile>>
-----------------------------------------------------------------------------
\* A crawl ends; cancelled crawls count as failed ones.
CrawlEnds(c) ==
    /\ crawl[c].status = "active"
    /\ \E end \in {"completed", "failed"} : crawl' = [crawl EXCEPT ![c].status = end]
    /\ UNCHANGED <<run, starter, scheduled, analyst, resumes, stops, overtakes, pagesRetried, resumedMeanwhile, leasedMeanwhile>>

Decided(c) == \E a \in Analysts : analyst[a].pc = "reconcile" /\ \E r \in DOMAIN analyst[a].decided : run[r].link = c

Revived(c) ==
    [r \in Runs |-> IF run[r].status = "failed" /\ run[r].link = c THEN [run[r] EXCEPT !.status = "crawling"] ELSE run[r]]

ResumeCrawl(c) ==
    /\ resumes < MaxResumes
    /\ crawl[c].status = "failed" /\ ActiveCrawls(crawl[c].site) = {}
    /\ crawl' = [crawl EXCEPT ![c].status = "active"]
    /\ run' = Revived(c)
    /\ resumes' = resumes + 1
    /\ resumedMeanwhile' = (resumedMeanwhile \/ Decided(c))
    /\ UNCHANGED <<starter, scheduled, analyst, stops, overtakes, pagesRetried, leasedMeanwhile>>

RetryPages(c) ==
    /\ resumes < MaxResumes
    /\ crawl[c].status \in {"completed", "failed"} /\ ActiveCrawls(crawl[c].site) = {}
    /\ crawl' = [crawl EXCEPT ![c].status = "active"]
    /\ resumes' = resumes + 1
    /\ pagesRetried' = TRUE
    /\ UNCHANGED <<run, starter, scheduled, analyst, stops, overtakes, resumedMeanwhile, leasedMeanwhile>>
-----------------------------------------------------------------------------
\* Mutant of LeaseHolds: a lease holds until its analysis reports.
LeaseHoldsForever(r) == run[r].owner # 0

LeaseHolds(r) == run[r].leased

\* reconcile_agent_runs_waiting_for_crawl: the first runs that nobody has locked;
\* of these, those that are not under analysis and whose crawl has ended.
Chosen ==
    LET free == {r \in Runs : IsActive(r) /\ ~Locked(r)} IN
    {r \in free : Cardinality({o \in free : o < r}) < ReconcileLimit}
IsDue(r) ==
    /\ ~(run[r].status = "running" /\ LeaseHolds(r))
    /\ run[r].link # Unlinked
    /\ crawl[run[r].link].status \in {"completed", "failed"}

\* A run fails with its crawl, or when the site has no pages; pages stay, so that
\* a site whose run was once leased has some.
Decisions(due) ==
    {d \in [due -> {"failed", "running"}] :
        \A r \in due : /\ crawl[run[r].link].status = "failed" => d[r] = "failed"
                       /\ crawl[run[r].link].status = "completed" /\ run[r].owner # 0 => d[r] = "running"}

reconcile_agent_runs(a) ==
    LET due == {r \in Chosen : IsDue(r)} IN
    /\ analyst[a].pc = "idle" /\ due # {}
    /\ \E decided \in Decisions(due) : Goes(a, [pc |-> "reconcile", rows |-> Chosen, decided |-> decided])
    /\ UNCHANGED <<run, starter, scheduled, stops, overtakes, jobVars, leasedMeanwhile>>

\* run_agent_graph analyses one run after the other.
AtWork(a) == First(DOMAIN analyst[a].owners)

\* Every decision is committed at once: runs fail, or are leased for analysis.
\* The owner of a lease is new each time.
CommitDecisions(a) ==
    LET w == analyst[a]
        taken == {r \in DOMAIN w.decided : w.decided[r] = "running"}
    IN
    /\ w.pc = "reconcile"
    /\ run' = [r \in Runs |->
          IF r \notin DOMAIN w.decided THEN run[r]
          ELSE IF r \in taken THEN [run[r] EXCEPT !.status = "running", !.owner = @ + 1, !.leased = TRUE]
          ELSE [run[r] EXCEPT !.status = "failed"]]
    /\ Goes(a, IF taken = {} THEN AtRest
               ELSE [pc |-> "analyse", owners |-> [r \in taken |-> run[r].owner + 1]])
    /\ leasedMeanwhile' = (leasedMeanwhile \/ \E o \in Analysts : analyst[o].pc = "report" /\ AtWork(o) \in taken)
    /\ UNCHANGED <<starter, scheduled, stops, overtakes, jobVars>>

Rest(a) ==
    LET left == DOMAIN analyst[a].owners \ {AtWork(a)} IN
    IF left = {} THEN AtRest ELSE [pc |-> "analyse", owners |-> [r \in left |-> analyst[a].owners[r]]]

\* Mutant of MayReport: any analysis reports.
MayReportAnyway(r, owner) == TRUE

MayReport(r, owner) == run[r].owner = owner

\* report_node reads the run, and discards its report unless it owns the lease.
report_node(a) ==
    /\ analyst[a].pc = "analyse"
    /\ Goes(a, IF MayReport(AtWork(a), analyst[a].owners[AtWork(a)]) THEN [analyst[a] EXCEPT !.pc = "report"] ELSE Rest(a))
    /\ UNCHANGED <<run, starter, scheduled, stops, overtakes, jobVars, leasedMeanwhile>>

\* What is written includes meta as it was read, with the owner.
CommitReport(a) ==
    /\ analyst[a].pc = "report" /\ ~Locked(AtWork(a))
    /\ \E end \in {"completed", "failed"} :
          run' = [run EXCEPT ![AtWork(a)].status = end, ![AtWork(a)].owner = analyst[a].owners[AtWork(a)]]
    /\ Goes(a, Rest(a))
    /\ UNCHANGED <<starter, scheduled, stops, overtakes, jobVars, leasedMeanwhile>>

AnalystStops(a) ==
    /\ analyst[a].pc # "idle" /\ stops < MaxStops
    /\ stops' = stops + 1 /\ Goes(a, AtRest)
    /\ UNCHANGED <<run, starter, scheduled, overtakes, jobVars, leasedMeanwhile>>

\* A heartbeat keeps the lease of the run at work, and of no other.
KeptAlive(r) ==
    \E a \in Analysts : /\ analyst[a].pc \in {"analyse", "report"}
                        /\ r = AtWork(a) /\ analyst[a].owners[r] = run[r].owner
LeaseEnds(r) ==
    /\ run[r].status = "running" /\ run[r].leased
    /\ run' = [run EXCEPT ![r].leased = FALSE]
    /\ IF KeptAlive(r) THEN overtakes < MaxOvertakes /\ overtakes' = overtakes + 1 ELSE UNCHANGED overtakes
    /\ UNCHANGED <<starter, scheduled, analyst, stops, jobVars, leasedMeanwhile>>

AgentNext ==
    \/ \E s \in RunSites : start_agent_run(s) \/ scheduled_agent_run(s)
    \/ CommitRun \/ LinkRun \/ StartFails \/ ScheduledReport \/ SchedulerStops
    \/ \E c \in Crawls : CrawlEnds(c) \/ ResumeCrawl(c) \/ RetryPages(c)
    \/ \E a \in Analysts :
          \/ reconcile_agent_runs(a) \/ CommitDecisions(a)
          \/ report_node(a) \/ CommitReport(a) \/ AnalystStops(a)
    \/ \E r \in Runs : LeaseEnds(r)

\* Crawls end (CrawlJobs has that as a property); workers tick for ever, an
\* analysis comes to its end, and so do requests.
LeaseEndsAlone(r) == LeaseEnds(r) /\ ~KeptAlive(r)
Reports(a) == report_node(a) \/ CommitReport(a)
AgentFairness ==
    /\ \A c \in Crawls : WF_agentVars(CrawlEnds(c))
    /\ \A a \in Analysts : WF_agentVars(reconcile_agent_runs(a)) /\ WF_agentVars(CommitDecisions(a)) /\ WF_agentVars(Reports(a))
    /\ WF_agentVars(ScheduledReport) /\ WF_agentVars(LinkRun)
    /\ \A r \in Runs : WF_agentVars(LeaseEndsAlone(r))
-----------------------------------------------------------------------------
\* Properties.

\* A run that has ended is ended once: two analyses of it, one of which has lost
\* its lease, do not both report; only a resumed crawl takes a failed run up
\* again.  (Unless the lease is lost between the report's read and its write, or
\* a page retry fails the crawl of a run that waits for its analysis: the report
\* looks at the owner of the lease and not at the status.)
EndedRunsStayEnded ==
    [][\A r \in Runs : RunHasEnded(r) /\ run[r].status # run'[r].status /\ ~leasedMeanwhile' /\ ~pagesRetried' =>
          run[r].status = "failed" /\ run'[r].status = "crawling" /\ crawl'[run[r].link].status = "active"]_agentVars

\* While its crawl goes on, the run waits and has not failed: a resume revives
\* what the crawl had failed; unless it came between a reconciliation's read
\* and its commit, or only pages are retried.
FailedRunsWaitForNothing ==
    resumedMeanwhile \/ pagesRetried \/
        \A r \in Runs : run[r].status = "failed" /\ run[r].link # Unlinked => crawl[run[r].link].status # "active"

\* Every run that was linked to its crawl ends, whatever processes stop, as long
\* as fewer runs are stuck without a link than a reconciliation chooses.
LinkedRunsEnd ==
    \A r \in Runs : (run[r].status \in {"crawling", "running"} /\ run[r].link # Unlinked) ~> run[r].status \in {"completed", "failed"}

\* A run ends once, and not before what it waits for.
RunsEndOnce == []FailedRunsWaitForNothing /\ EndedRunsStayEnded
=============================================================================
