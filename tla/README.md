# Verification of the search growth backend

TLA+ models, model checks and proofs for the FastAPI backend in `src/backend/app`.
The backend proposes changes to a website ("operator actions"), has them
approved, executes them through durable jobs in PostgreSQL, validates them,
rolls them back, and feeds this cycle from crawls, Search Console data and
analyses that run as durable jobs of their own. Everything that can go wrong
between two commits goes wrong here: request handlers on stale reads, workers
whose leases expire, crashes between a provider call and the commit that records
it, retries of what was already done.

## 1. Inventory

Rows of PostgreSQL are the only shared state; Redis only wakes workers up.
Sessions run at READ COMMITTED with `expire_on_commit=False` and autoflush
(`database.py`): a handler works on the rows it has read until it commits, and
what it writes is what it computed, not what the row holds by then.

### Governed execution (the core)

| Part | State | Operations |
|---|---|---|
| Operator actions, `operator_action_service.py` | `operator_actions`: status, version, approval | create, propose, decide, cancel |
| Action policy, `action_policy_service.py` | none | risk score to mode: blocked, automatic, manual |
| Durable execution queue, `execution_service.py` | `execution_jobs`, `execution_attempts`, `execution_snapshots` | enqueue, enqueue rollback, cancel, recover leases, claim, process |
| Execution adapters, `execution_adapters.py`, `github_execution_service.py` | what the provider holds; `github_executions` | preflight, capture, apply, validate, rollback |
| Scheduler, `scheduler.py` | none | one tick per queue every few seconds, analysis and sync once a day |

A request proposes, decides or cancels an action and enqueues a job; a worker
claims the job, calls the provider and settles job and action in one transaction;
a successful execution enqueues its own validation. *Hard*: the version check and
the status checks of handlers are not repeated at their writes; a lease may
expire between claim and attempt, or while the attempt runs; a crash undoes the
attempt in the database but not at the provider. *Correct* means: nothing is done
that was not approved, at most one worker at a time attempts a job, the retry
budget holds, an ended job stays ended, an execution is followed by exactly one
validation, and nobody waits for ever.

### Crawling

| Part | State | Operations |
|---|---|---|
| Crawl jobs, `crawl_job_service.py` | `job_queue` (type crawl), `crawl_attempts` | enqueue with page reservation, cancel, resume, retry failed pages, recover, claim, heartbeat, process |
| Frontier and crawler, `first_party_crawler.py`, `rendered_crawler.py` | `crawl_frontier`, `crawl_snapshots`, `pages` | add URLs, take a batch, settle each, finish the snapshot |
| Agent runs, `agent_graph.py`, `routers/agent.py` | `agent_runs` | start with a crawl, reconcile runs that wait for one, analyse under a lease, report |

Unlike the execution worker, the crawl worker holds no row lock while it works:
it renews its lease by a conditional UPDATE and checks it again before it
finalizes. *Hard*: two workers that both believe they own a job; cancellation
that races completion; page allowance reserved by queued jobs and charged by
completed ones. *Correct* means: one active crawl per site, only the lease owner
finalizes, a crawl is charged once, reservations never exceed the allowance, the
frontier loses no URL when a worker dies.

### Search data

| Part | State | Operations |
|---|---|---|
| Search Console sync, `search_performance_service.py` | `job_queue` (type sync), daily metrics | enqueue, claim, fetch, store per day, commit the lookback, recover |
| Opportunities, same file | `search_opportunities`, drafts among `operator_actions` | detect, reconcile, create and cancel drafts |
| Action measurement, same file | measurement windows per action | freeze baselines, refreeze, refresh, classify the outcome |
| URL inspection, `url_inspection_service.py` | `job_queue` (type inspection), results | enqueue within a budget, inspect, reconcile |
| Technical findings, `technical_finding_service.py` | `issues`, drafts among `operator_actions` | detect, reconcile, plan an action, cancel superseded and stale ones |
| GitHub patch planner, `github_patch_planner.py` | none | find the one source file of an affected URL |

These write `operator_actions` too: reconciliation moves an action it created
between draft and cancelled without a lock. *Correct* means: an action of a
finding that is gone ends, one that came back is not created twice, and a window
is measured on complete days only.

### Money, people and providers

| Part | State | Hard, and what must hold |
|---|---|---|
| Entitlements, `entitlement_service.py` | `usage_counters`, `usage_events` | check and increment are two steps; the counter equals the sum of its events |
| AI gateway, SERP, `ai_gateway.py`, `serpapi_service.py` | none | metered calls: what was spent is recorded |
| Billing, `billing_service.py` | `subscriptions`, `stripe_webhook_events` | redelivered and reordered events; the plan follows Stripe |
| Membership, `workspace_management.py` | `memberships`, `workspace_invitations` | a workspace keeps an owner; an invitation is used once |
| Identity, `oauth_service.py`, `auth_service.py` | `users`, `oauth_identities`, `oauth_link_intents` | an intent is consumed once, one account per provider |
| Site claims, `site_claim_service.py` | claim fields of `sites` | checks before and after a DNS lookup; one owner |
| Free audits, `free_audit_service.py` | `free_audit_requests` | a background task without a lease; one claim |
| GitHub App, `github_app_service.py` | installations, repository connections | a state token is used once; disconnecting against connecting |
| Google data, integrations, vault | tokens, credentials | one row each; mostly provider input and output |
| Content creation, content and citation intelligence | drafts and versions, insights, scans and gaps | a draft in approval is not edited; results against finalization |
| Onboarding, sites, chat, frontend | one row, or none | last write wins |
| Legacy fix pipeline, `fix_*.py`, `codex_agent.py` | `fix_actions` | its mutating routes answer 410 (`main.py:102`) |

`PROJECT.json` names the sources and the status of every component, and lists the
hazards at their lines.

## 2. Modules and runs

| Module | What it models | Section |
|---|---|---|
| `DurableQueue` | abstract: what a database-backed queue promises | 3, 8 |
| `GovernedExecution`, `GovernedExecutionProofs` (and `ActionPolicy`) | actions, execution jobs, workers, provider | 3, 12 |
| `CrawlJobs`, `CrawlJobsProofs` | crawl jobs with heartbeats, reservations, charges, and the frontier rows a crawl takes and settles | 4, 12 |
| `AgentRuns` (proofs in `GitHubAdapterProofs`) | runs that wait for a crawl and are analysed under a lease | 4, 12 |
| `GitHubAdapter`, `GitHubAdapterProofs` | branch, commit and pull request of an action, between calls of the worker and acts of people | 5, 12 |
| `Installations`, `TenancyProofs` | installations of the GitHub App and the repositories of sites | 5, 12 |
| `Billing`, `BillingProofs` | webhook deliveries, checkout, metered calls | 6, 12 |
| `Workspaces`, `Accounts`, `TenancyProofs` | members and invitations; accounts and linked identities | 7, 12 |
| `Sites`, `Onboarding` | who a site belongs to; the wizard that ends in a launch (proofs in `TenancyProofs`) | 7, 12 |
| `FreeAudits`, `FreeAuditsProofs` | public audits | 7, 12 |
| `GoogleConnection`, `SearchJobs`, `SearchProofs` | the connection to Search Console; its syncs and inspections | 8, 12 |
| `Measurements`; `Opportunities`, `SearchSignals`, `SearchProofs` | whether an action helped; drafts for opportunities; detectors | 9, 12 |
| `TechnicalFindings` (proofs in `ContentProofs`), `FindingDetectors`, `PatchPlanner`, `ActionPolicy` | findings and their actions; detectors; patches; policy | 10, 12 |
| `ContentDrafts`, `CitationScans`, `ContentProofs` | drafts with versions and approval; answers, scans and gaps | 11, 12 |

*Composition.* `GovernedExecution` and the queue of `SearchJobs` implement
`DurableQueue`. `SearchJobs` extends `GoogleConnection` and `Onboarding` extends
`Sites`, since they change each other's rows. Components that change no common row
are composed as a sum: the MC module extends them, a variable `side` says which of
them a behaviour is about, and one run has all of them. Nothing is lost: what they
share is read-only, or is an input that each of them enumerates.

| Run | Sides |
|---|---|
| `ge_workers`, `ge_requests`, `ge_liveness` | `GovernedExecution` |
| `cr_allowance` | `CrawlJobs` |
| `cr_liveness` | `CrawlJobs`, fair |
| `work_ends` | `GitHubAdapter`; `AgentRuns`, which assumes of a crawl what `cr_liveness` shows |
| `billing_content` | `Billing`; `Installations`; `ContentDrafts`; `CitationScans` |
| `tenancy` | `Workspaces`; `Accounts`; `Sites` with DNS claims; `Onboarding` |
| `audits` | `FreeAudits` |
| `search` | `GoogleConnection`; `SearchJobs` with syncs; with inspections |
| `growth` | `Measurements`; `Opportunities`; `SearchSignals` |
| `findings` | safety of `CrawlJobs`; `TechnicalFindings`; `PatchPlanner`; `FindingDetectors`; `ActionPolicy` |

*Properties.* A run checks few names: where several promises of one module are kept by the
same handlers, they are the named parts of one invariant (`...Inv`) or, with action
properties among them, of one temporal formula (`...Safety`). Each part is stated, and
commented, by itself; the tables below list the parts.

*History variables.* Where the code keeps a promise only as long as requests do not
overlap, the model lets them overlap and a history variable (`crossed`, `races`,
`clashes`, `overtakings`, `crossings`, `scansCrossed`, `crossedSites`, ...) says that
they did. A property names what it excludes, and each section says what the model
reaches beyond.

Section 12 lists what is proved and what is model-checked only.

## 3. GovernedExecution

`policy`, `action`, `job`, `snaps` are columns of the tables above; `external` is
what the provider holds for the action; `worker` and `request` are the program
counters and the local variables of worker ticks and request handlers.

* **A handler is two actions, or three.** `ReadAction` is the SELECT of
  `get_action` with the version and status checks (a request that fails them
  changes nothing and is left out); `propose_action`, `decide_approve`,
  `decide_reject`, `cancel_action`, `enqueue_execution`, `enqueue_rollback` are
  its commit, computed from what was read. The UPDATE waits for a row that a
  worker has locked (`ActionLocked`) and then overwrites it. `request_job_cancellation`
  reads the job, has it locked by the autoflush of `cancellation_requested`
  before it reads the action (`Flushed`), and commits.
* **A worker** recovers expired leases (`recover_expired_leases`, all that are not
  locked), commits a claim (`claim_next_job`), then runs the attempt in one
  transaction under the row locks of job and action (`BeginAttempt`,
  `CallProvider`, then one of `FinishExecute`, `FinishValidate`, `FinishRollback`,
  `FailAttempt`). Intermediate statuses such as `executing` are written and
  overwritten inside this transaction, so they are never visible and have no
  place in the model; the provider's effect is visible at once.
* **Faults.** `WorkerDies` takes back the transaction but not the effect;
  `LeaseExpires` may hit a worker that stalls between claim and attempt;
  `RequestFails` ends a handler before its commit.
* **Indexes.** `KeyExists` is the unique idempotency key, `ActiveExists` the partial
  unique index of one active job per action and type.

Abstracted: the policy's score (an arbitrary fixed mode per action; its inputs do
not change after creation), times (`due`, `live` say how they compare with now),
snapshot contents (their number), what the attempt writes to events, attempts and
measurements, the priorities of jobs. Not covered here: reconciliation by the
analysis services, which may put an action of their own from draft to cancelled
and back; the properties speak of actions that only handlers and workers write.

### Runs

| Run | Instance | Shows |
|---|---|---|
| `ge_workers` | 2 workers, 1 handler, 2 jobs, 2 attempts, 2 faults | `QueueInv` = `AttemptBudget`, `LeaseMatchesStatus`, types; `ExclusiveAttempt`; and `ImplementsDurableQueue`: every step is a step of `DurableQueue` or none |
| `ge_requests` | 1 worker, 2 handlers, 4 jobs, 1 attempt, no fault | `GovernedEffect`; `HistoryInOrder` = `OneJobPerType`, `ValidationFollowsExecution`, `SnapshotBeforeEffect`; `EndedJobsStayEnded` |
| `ge_liveness` | 1 worker, 1 handler, 2 jobs, 2 attempts, 1 fault, fair | `QueueDrains` = `LeasesAreReleased`, `UncancelledJobsEnd` |

*Why the bounds are enough.* One action: nothing relates two actions except that
workers pick among all jobs, and the proofs hold for any set. Three jobs are all
an action can have: with `MaxJobs = 4` the run `ge_requests` satisfies
`OneJobPerType`, one execute, one validate and one rollback job. Two attempts
show a retry and the exhausted budget; two faults let both workers die or
stall at every point. Two handlers are a stale read and the write
that makes it stale. `MaxFaults` also bounds what is not code; `CHECK_DEADLOCK
FALSE` because the system may stop: every job is ended and no request need come.

*Fairness.* The scheduler starts a tick every `execution_worker_poll_seconds` and
APScheduler never stops; a tick recovers, then claims in order of priority and
age, so a job that is claimable again and again is claimed (strong fairness of
recovery and, per job, of claiming: both need an idle worker, which other jobs
take in between). An attempt needs row locks that PostgreSQL grants in order
(strong fairness of each worker's attempt). A handler that holds a row lock ends,
by its commit or by its failure. Clocks advance. Nothing is assumed of requests
that hold no lock, and nothing of faults.

*What the branches show.* Three refusals of the code are never taken in any
instance: `enqueue_rollback` without a snapshot, and a validation that is
refused by the active-job index or found by its key. The model keeps them; that
they are defensive is what `SnapshotBeforeEffect` and `OneJobPerType` say.

### Disagreements found

The model reaches each of these; the properties above are stated so that they hold
beside them.

* *Ended actions are executed* (`execution_service.py:573`). `TERMINAL_STATUSES`
  counts `cancelled` and `rejected` as ended (`operator_action_service.py:21`), and
  `cancel_action` accepts an action whose job is queued: the job stays, and the
  attempt asks for the status of the job only.
* *Versions may shrink* (`operator_action_service.py:134`). "Action changed since it
  was loaded" compares with what a plain SELECT has read. A stale write wins, and its
  version is one more than the old one.
* *A running job that is asked to cancel may never end* (`execution_service.py:474`).
  The runbook lets active jobs finish or be cancelled
  (`docs/verification/phase-06-slice-02-governed-github-execution.md:159`); an
  attempt that fails retryably puts such a job to `retry_wait`, and
  `claim_next_job` passes over jobs with the flag. Hence `UncancelledJobsEnd`.

Also: the refusal of `cancel_action`
for `executing` never applies, because that status is never committed while the
attempt runs; an action that is cancelled after `enqueue_execution` has read it is
enqueued; and a lapsed lease counts no attempt, so that recovery's "lease expired
after the final attempt" is never reached.

## 4. CrawlJobs

`job` is a row of `job_queue` with the page counts of its payload, result and
snapshot; `log` its `crawl_attempts`; `frontier` its `crawl_frontier` rows;
`stored` the pages that `_pages_crawled_for_snapshot` would count, which are pages
of the *site*: a later crawl of the same site adds to the count of an older
snapshot. `usage` is the `monthly_crawl_pages` counter.

* **Requests are one action each.** `enqueue_crawl_job`, `resume_crawl_job` and
  `retry_failed_crawl_pages` lock the workspace row first and read the job again
  after locking it; `request_crawl_cancellation` locks the job. `Room` is what the
  allowance leaves after charges and reservations (`Reserved`, the number of `ReservedPages`). A page retry does
  not ask for `Room` and does not look for another active crawl; the unique index
  refuses it then.
* **A worker holds no lock while it crawls.** `BeginAttempt` numbers the attempt;
  then every step waits for `control()` (`Control`): the lease is renewed and the
  next step granted, or it is lost and the worker leaves, or the crawl is found
  cancelled. Steps: `OpenSnapshot`, `SeedFrontier`, `TakeBatch` (cut to what is
  left of `max_pages`), `SettleBatch`, `NoMoreRows`, `EndCrawl` (which defers what
  the cap leaves), `Finalize` behind its fence (lease and attempt), `FailCrawl`
  behind its own (lease only). Between the grant and the step a lease may run out:
  the step then writes without one.
* **Faults**, by kind: `crash` (`WorkerDies`), `stall` (`LeaseExpires` under a
  worker that is still in the crawl), `error` (`StepAborts`: the database aborts a
  step, as it will when finalization and a resume lock job and workspace in
  opposite order; `fail_claimed_job`: the failure path fails), `throttle` (rows go
  back after a 429 or a bot block, three times at most in the code).

Abstracted: `blocked` rows are `failed` ones (every reader treats them alike); on
cancellation rows that robots.txt had blocked in the same batch count as not
fetched; the frontier's limit of five rows per page is beyond two pages; any job
that is due may be claimed next and any queued row taken next; concurrency of
fetches, pacing, rendering, statistics, `site.status` and Redis signals are left out,
and so is the payload as one JSON value; agent runs follow below.

| Run | Instance | Shows |
|---|---|---|
| `findings`, side `crawls` | 1 job, 2 workers, 2 pages, 2 attempts, 1 crash, stall or error, 1 reopening | `CrawlSafety` = `WaitingIsClaimable`, `CompletedWasNotCancelled`, `AttemptsWithinCap`, `LeaseHoldersAttempt`, `OnlyOperatorsReopen`, types |
| `cr_allowance` | 2 jobs of 1 or 2 sites that ask for 2 pages each of 3, 1 worker, 1 attempt, 1 crash, 1 reopening | `CrawlsSettle` = `OneActiveCrawl`, `FreshCrawlsKeepAllowance`, `CompletedCrawlsLeaveNoRow` |
| `cr_liveness` | 1 job, 2 workers, 1 page, 2 attempts, 1 fault of any kind, 1 reopening, fair | `CrawlsEnd` |

*Why the bounds are enough.* Two workers are the one that lost a lease and its
successor; without stalls workers meet only in the queue, and one is enough; two pages are one stored and one that fails, or one in each of two
hands; one fault may fall between any two steps; one reopening gives a second
life to each terminal state; an allowance of three for two requests of two makes
the second reservation smaller than asked. `cr_allowance` has no stalls and no
errors: with a stall `FreshCrawlsKeepAllowance` fails (a worker stalled
after `control()` stores its batch beside its successor's, and both are charged), and an error in the
failure path leaves rows `fetching` that a page retry does not pick up. The system
may stop (`CHECK_DEADLOCK FALSE`): every crawl has ended.

*Fairness.* As above: ticks of every worker, recovery and claims again and again
(strong fairness of each, which need an idle worker), clocks, and the leases of
workers that have left. A stall is never forced.

What the model also reaches, and `FreshCrawlsKeepAllowance` therefore excludes:

* A page retry checks the pages to retry (`crawl_job_service.py:412`), and the
  completion posts all pages of the snapshot, those charged before included: an
  allowance of two pages is charged three, although the retry "does not bypass"
  the quota (`docs/verification/phase-09-crawl-frontier-retry.md:33-35`).
* `resume_crawl_job` takes the pages already crawled from `job.result`
  (`crawl_job_service.py:303`), which a cancelled or failed crawl has not written.
  It then reserves less than the crawl has stored, and the completion posts more
  than was reserved, although the comment at `:94` calls `max_pages` a durable
  reservation until the usage is posted.
* A page retry raises the cap by the pages to retry (`:472`) and not by rows that
  were still queued. Such a row may use up the cap, and the page that was to be
  retried is deferred. A newer crawl of the same site has the same effect: the
  pages it stores count for the older snapshot, whose retry finds its cap reached.

### AgentRuns

`run` is a row of `agent_runs` with what its `meta` holds: the crawl it waits for
(`link`) and the owner of its analysis lease. `crawl` is what a run sees of a crawl:
it is active, or ended well or badly. `starter`, `scheduled` and `analyst` are the
request, the daily task and the worker ticks.

* **A start is three steps**: the check for an active run (`start_agent_run`), the
  commit of the run with its crawl (`CommitRun`) and of the link (`LinkRun`).
* **A reconciliation** locks the first `ReconcileLimit` active runs that are not locked,
  decides on those whose crawl has ended and whose lease is not live, and commits
  (`reconcile_agent_runs`, `CommitDecisions`). Then it analyses one run after the other.
* **A report** reads the run, compares the owner, and writes later without a lock
  (`report_node`, `CommitReport`).
* **Leases** of the run at work are renewed by a heartbeat, which starts after its
  first interval: a lease may still end under it (`LeaseEnds`, bounded by
  `MaxOvertakes`), and those of runs that wait behind it simply lapse.

| Run | Instance | Shows |
|---|---|---|
| `work_ends`, side `agents` | 2 runs, 2 crawls of 2 sites, 2 analysts, a reconciliation of 2, and one of: a resume or page retry, a process that stops, a lease that ends under its analysis | `RunsEndOnce` = `FailedRunsWaitForNothing`, `EndedRunsStayEnded`; `LinkedRunsEnd` |

*Fairness.* Ticks of every analyst and the crawl's end (`CrawlsEnd` is what
`cr_liveness` shows); leases of runs that nobody renews; requests that have committed a run go
on. `ASSUME MaxStops < ReconcileLimit`: every process that stops may leave a run that
is never linked.

What the model reaches beyond:

* A run without a link (its request died, or the scheduler's process stopped) stays
  active for ever: it bars new starts for its site (`routers/agent.py:58`), and five of
  them fill the head of every reconciliation.
* A resume between a reconciliation's read and its commit leaves a failed run whose
  crawl goes on. A page retry revives no run at all, and a retry that fails can
  fail a run whose analysis is waiting; its report then sets the run to completed, as it
  looks at the owner and not at the status.
* A lease that ends between the read and the write of a report lets two analyses report.

## 5. GitHubAdapter

One action that `GovernedExecution` executes, validates and rolls back through
`github_execution_service.py`. `stage` is the job in the queue (an execution is
followed by its validation, a rollback by request), `attempts` its count, `record`
the `github_executions` row, `worker` the attempt with what its uncommitted
transaction holds (`row`) and what it has read. `commits`, `base`, `branch` and
`pulls` are GitHub's: they change with the call and are never rolled back.

* **One action per provider call that matters.** `CaptureBefore` reads the head of
  the base branch; `CheckBase` compares it again; `ReadBranch` looks for the branch
  and adopts a commit that names the action and lies on the base, or makes one;
  `CreateRef`, after a 422 `ReadRacedRef`; `FindPull`, `CreatePull`; then
  `ReadRefForValidation`, `CheckPull`, `FinishValidate` ("after" snapshot), and
  `ReadPull`, `ClosePull`, `ReadRefForRollback`, `DeleteRef`. Reads of objects that
  nobody changes (commits, trees, blobs) belong to the call they follow.
* **How attempts end.** `Refuses` is an error that is not retryable, `Fail(TRUE)` one
  that is; the handler of `process_execution_job` commits in both cases, with what
  the adapter has written. `WorkerDies` takes the transaction back and leaves
  GitHub as it is. `AnswerLost` is a timeout, a 5xx or a broken answer after GitHub has
  done what it was asked, `ProviderUnavailable` the same before.
* **People** push to the base branch or the action's branch, amend the commit (same
  message, same parent), delete the branch, open a pull request of their own, close,
  reopen, un-draft and merge one, take permissions away, and disconnect or
  reconnect the repository, between any two steps.

Abstracted: file contents. The plan was approved for commit 1; once the base
branch has moved, it may or may not still apply (`PlanRefused`), and it changes
something. The branch has no name, since there is one action. The base of a pull request does not
change, a connection is not moved to another repository, and a branch that was deleted is not
restored at its old commit; all three are acts of people on what the record names.

| Run | Instance | Shows |
|---|---|---|
| `work_ends`, side `adapter` | 2 attempts per job, 2 faults of any kind, 3 acts of any kind, fair | `RecordedCommitIsGoverned`, `UndisturbedNeverFails`, `RollbackLeavesNothing`; `JobsEnd`, as `ActionJobsEnd`; `NeverForcePushes` and the types are proved (section 12) |

*Why the bounds are enough.* Two attempts are one that leaves something at GitHub
and one that finds it; two faults let a job lose its budget or one attempt each of two
jobs. An unfavourable history of people needs three acts: open, un-draft and
merge a pull request, or delete, recreate and reopen. `UndisturbedNeverFails` speaks of
fewer faults than attempts, since each fault may cost one. The run stops when
the action has ended (`CHECK_DEADLOCK FALSE`).

*Fairness.* The worker's ticks never stop and every provider call returns or times
out, so an attempt that can go on goes on (weak fairness of `AdapterStep` as a whole:
there is one worker). Nothing is assumed of people and faults.

Consequences worth knowing. "A branch advanced by a human is never force-pushed or
deleted" (the runbook of phase 6, line 148): `rollback` compares the head
(`github_execution_service.py:985`) and then deletes the branch by its name, so that a
push in between is deleted with it. And, ruled out by no document: an amended commit is adopted, because message and parent are all that is compared; and an
action that fails for good between the creation of its pull request and its record
leaves the pull request open, with rollback refused.

### Installations

`install_intent`, `installation`, `connection` and `github_repo` are the rows of
`github_app_install_intents`, `github_app_installations`,
`github_repository_connections` and the column `sites.github_repo`; `connector` is a
request with what it has read before it asks GitHub. `complete_installation` locks
its intent while GitHub is asked (`IntentLocked`), `disconnect_installation` its
installation; `connect_authorized_repository` locks nothing. Each commits in a second
step (`CommitInstallation`, `CommitConnection`, `CommitDisconnection`) the columns that
differ from what it has read, or ends (`ConnectorEnds`). A public repository has no
installation (`Public`).

| Run | Instance | Shows |
|---|---|---|
| `billing_content`, side `installations` | 2 intents and 2 workspaces, 2 installations, 2 repositories, 1 site, 2 requests | `InstallationInv` = `ConnectionsStayInTheirWorkspace`, `IntentSpentOnce`, `RevokedIsGone` |

One site is enough: a connection belongs to one site, and a disconnection writes
each of its sites alone. Two intents give each of two workspaces an installation, or one
of them two. `RevokedIsGone` excludes the sites whose requests overlapped (`crossedSites`),
and has to:

* A connection that was read before a disconnection commits after it and is active
  on a revoked installation. A disconnection that was read before a reconnection revokes
  the new one.
* `site.github_repo` is written only if it differs from what was read, so that the site
  may show no repository beside an active connection.

## 6. Billing

`stripe`, `events` and `acked` are Stripe's: its subscriptions, what it has emitted
and what it has been told. `row` is the workspace's row of `subscriptions`, `record` the
`stripe_webhook_events`, `usage` the counters; `handler` and `caller` are the requests
in progress with what they have read.

* **An UPDATE names the columns that differ from the read** (`Written`): SQLAlchemy
  compares, the database does not. Two requests on one row leave a mixture of columns.
* **A webhook** finds the event id unrecorded (`DeliverEvent`), inserts it
  (`InsertRecord`, which waits for a concurrent delivery and fails if that one commits),
  reads the row (`ReadRow`), asks Stripe if the event is a checkout
  (`FetchSubscription`), and commits the row with the record (`CommitRow`). A failure
  is recorded and answered with an error (`StripeUnavailable`); the redelivery is then
  a duplicate (`DeliverRecorded`). `confirm_checkout_session` asks first and reads then.
* **A metered call** checks (`BeginCall`), calls and records. The session keeps the row
  it has read: what is charged is charged to that period. A lapsed plan is set to audit
  by the check, flushed by the next SELECT and committed with the counters, so that the
  row is locked while the provider works (`RowLocked`).

| Run | Instance | Shows |
|---|---|---|
| `billing_content`, side `billing` | 4 events of 2 subscriptions, 2 requests, 2 calls at a time, 3 in all (the last event and the last call do not meet), 1 fault | `PlanFollowsStripe` = `NothingBeforePayment`, `UndisturbedPlanFollowsStripe`; `BillingInv` = `EventsApplyOnce`, `AckedEventsAreRecorded`, `OvershootIsBounded`, `AnswersAreMetered`, `TypeOK` |

*Why the bounds are enough.* The run starts with no subscription or with one in any state,
so four events are a first state and three changes, or a checkout (two events), a failed
payment and a change.
Two requests and one fault are any overlap or reordering of two. Limits of one request
on either plan make the second of two calls the one that overshoots, and a third the
one that may not start. `serp_queries` follow the path of `ai_requests` and stay out of the instance.

Both properties except a payment that failed, and have to, with no fault at all: Stripe sends
`invoice.payment_failed` for a first invoice too (`ChangeSubscription`), the code writes
`past_due` whatever the subscription is (`billing_service.py:455`) beside the plan that the
synchronization has stored (`billing_service.py:376`), and `past_due` entitles. An
`incomplete` subscription that nobody has paid is effective from then on until its next event
(`FirstPaymentFailed`).

`UndisturbedPlanFollowsStripe` needs every exclusion it names; with one `disorder` the
model reaches each of these (none contradicts a document of the repository, so they have no run):

* A subscription is `incomplete`; a metered call sets the lapsed plan to audit and waits
  for the provider; the webhook that activates it has read the row before and
  writes the status only. The workspace has paid and stays on audit until the next event.
* An event whose GET failed once is never applied (`billing_service.py:469`).
* Two checkout sessions opened before either is paid make two live subscriptions; the
  row follows the last event of either, and the end of one takes the plan of the other.
* A success page of an ended subscription that is loaded again overwrites the
  row with that subscription (`confirm_checkout_session` compares the workspace only).

## 7. Tenancy

**`Workspaces`.** `member` and `invitation` are the rows of one workspace, `request` a
handler: it reads its own membership (`get_current_workspace`), then the rows it decides
on (`invite_member`, `change_member_role`, `remove_member`, ...), then commits what its
service function computes (`create_workspace_invitation`, `change_workspace_member_role`,
...). No row is locked. A crossing is a read beside another handler that has read and
not committed; `MaxCrossings` bounds them and the properties say what a crossing may cost.

**`Accounts`.** `account`, `linked` and `intent` are `users`, `oauth_identities` and
`oauth_link_intents`. `register_user`, `exchange_oauth_identity` and
`confirm_oauth_link` read; their commits meet the unique indexes (`Unique`,
`_create_identity`) and fail or go back to the read. Passwords and provider tokens are taken
to be what they say; `proven` remembers which links a password confirmed.

**`Sites`.** `site` is a row with its owner and the claim that is under way; `dns` says
which tokens the TXT records show, `audit` who claimed the free audit of a domain.
`verify_claim` reads, `dns_txt_contains` waits for the resolver, and
`verify_and_complete_site_claim` selects FOR UPDATE but judges by the values the session
read first. Tokens expire a fixed time after they are issued, so they lapse in the order in
which they were issued: a workspace that renewed its claim does not lose it while its first
token lives. **`Onboarding`** extends it: any of the six steps is saved, completed or as a draft
(`save_step`), whatever the launch says. A completed step "site" commits the site
(`_apply_site`) and then the answer (`CommitStep`); a draft of it merges the client's answers as
they are, so that it may name no site or another workspace's (`Named`). The launch commits the completion and then starts a crawl, and
takes the completion back if that fails (`_mark_launch_failed`).

**`FreeAudits`.** The audits of one address and one domain: a submission (`visit`) finds
a duplicate or inserts a row and starts a background task (`task`), which takes the row,
fetches and completes or fails. A restart (`Restart`) loses all tasks and no row.

| Run | Instance | Shows |
|---|---|---|
| `tenancy`, side `workspaces` | 3 people, 2 requests, 2 invitations, a quota of 1, 1 crossing | `AnOwnerRemains`; `MembershipSafety` = `SeatsWithinQuota`, `NoInvitationForMembers`, `OneInvitationPerAddress`, `OwnersYieldToOwners`, `SettledInvitationsStay`, types |
| side `accounts` | 2 addresses, 3 identities of 2 providers, 2 intents, 2 browsers, 1 race | `AccountInv` = `LinksAreOneToOne`, `PasswordComesFirst`, `AccountsAreWhole`, `IntentsReplaceEachOther`, `IntentsWorkOnce`, types |
| sides `claims`, `wizard` | 2 workspaces, 2 domains (one that both control), 3 sites, 2 tabs, a quota of 1, 2 tokens (1 beside a claimed audit), 1 clash | `SiteSafety` = `OwnersKeepSites`, `ClaimsAreProven`, `AuditClaimsStay`, `SitesWithinQuota`, `ClaimedSitesAreOwn`, types; `WizardInv` = `CompletedIsReady`, types |
| `audits` | 2 submissions, 2 tasks, 2 audits, 1 overlap, 1 restart, fair | `AuditInv` = `SubmissionsShareAnAudit`, `UnfinishedIsInHand`, `ClaimedReportsStay`, `ScoresCompare`, types; `AuditsEnd` |

*Why the bounds are enough.* Two requests are a stale read and the write that makes it
stale, and one crossing lets that happen at every point once: a second crossing
repeats it. Three people are the two owners of a race and one who is invited. Three
identities of two providers are two of one provider and one of another. Two domains,
one of them in the hands of one workspace alone, tell a proven claim from any other.
`claims` and `wizard` are two sides because their product adds no step that either lacks.
The side `wizard` has drafts of the step "site" only (a draft of another does what its repetition
does), and not the step "google", which does what "cms" does (`WizardSide`).

*Fairness* (`audits`). The event loop gets to every request and every task, and a fetch has
a timeout. Tasks are unlimited in the program; where two stand for them, one that
waits for a place gets it (strong fairness). `AuditsEnd` excludes restarts: an audit that
was interrupted stays queued or running, and is returned as the duplicate of later
submissions for six hours.

What the models reach beyond:

* With one crossing two owners demote each other, and no owner remains; a member may be
  invited, or an invitation accepted after it was revoked.
* Two exchanges that read the same intent both confirm it; the links stay one to one,
  because the indexes hold.
* A launch that failed does not stay on record as the reason why the wizard is open: the step
  "review", saved again, is done, beside a failed launch; and a draft may name a
  site that is not the workspace's. Either opens a completed wizard, and `complete_onboarding` looks
  at the site again; that is why `CompletedIsReady` speaks of completed wizards only.
* A site that is won through DNS is beyond the quota, and two requests at a time may
  make one more than the quota has.
* The owner and the token that `verify_and_complete_site_claim` checks are those of the
  first read. Nobody loses a site by it: another claim replaces one only after its
  thirty minutes, and the time is checked again after the lookup (`StillLive`).

## 8. Search

`GoogleConnection` has the one row of `google_data_connections` (`conn`) and the requests
that wait for Google with the row as they read it (`call`): the OAuth exchange, the list
of properties and the baseline. `Update` writes the columns that differ from the read,
and tokens always, since every ciphertext is new.

`SearchJobs` extends it with `job_queue` and its attempts for syncs and inspections
of one site, the workers with their leases, `metrics` (the property whose days are
stored) and `inspected`. Both kinds go through `enqueue`, `claim`, renewals, work,
the end and `recover_expired_leases`. A sync reads its row anew under the lock and holds
it from the first day it writes to its commit; an inspection commits URL by URL and
checks the status and the owner that its session read first.

| Run | Instance | Shows |
|---|---|---|
| `search`, side `connection` | 2 properties, 2 requests, 2 authorizations, 1 interruption | `SearchInv` = `DisconnectedForgets`, `BaselineIsOfTheProperty`, `OneActiveJob`, `CompletedInspectionsHaveResults`, `EndedJobsHaveNoOpenAttempt`, types |
| sides `sync`, `inspection` | 2 jobs, 2 workers, 2 attempts, 2 URLs, 1 lost lease or dead worker; beside a sync, 1 request that changes the connection; fair | the same; `MetricsAreTheHolders` = `MetricsComeFromTheProperty`, `SyncsEndByTheirHolder`; `JobsEnd`; `JobsAreQueued` |

`JobsAreQueued` is the refinement of `DurableQueue`: a job waits while it is queued or in
backoff, is held while it runs, and has used the attempts that were begun before
the present one. `GovernedExecution` counts an attempt when it ends, this
queue when it begins; the abstract queue admits both, and the budget holds in both.

*Why the bounds are enough.* Of two jobs the second one is that which a request adds after
or beside the first. Two attempts are a retry and an exhausted budget. One fault
lets a lease be lost, or a worker die, between any two steps. Of two properties one covers
the site and the other does not.

*Fairness.* Ticks of every process for each kind, clocks, and Google, which answers or
fails (weak fairness of claim, recovery and work per worker and kind). Nothing is assumed of
requests.

What the model reaches beyond: a request that waited for Google while the workspace
disconnected writes tokens or a property back; an inspection whose lease was lost goes on
beside its successor and sets its progress back, and completes the job for it: the results
are there, the attempt of the successor stays open.

## 9. Growth

**`Measurements`.** One action and its windows of days. `synced` are the ranges of
completed syncs, `treated` the action with its days, `measurement` the record of each
window. `enqueue_execution` freezes the baseline, the attempts mark what was executed
and undone, and refreshes (of the sync and of an operator) read, compute and write the columns
that differ. `_ranges_cover_window` is translated with its cursor.

**`Opportunities`.** `opportunity` and `draft` per key; a reconciler reads both (`reconcile`)
and commits later (`CommitReconciliation`), search and inspection each for its own keys;
people propose, decide and withdraw meanwhile.

**`SearchSignals`.** Both detectors over the metrics of two halves of a period, the one in
Python and the one in SQL, and the classification of an outcome, with products for ratios.

| Run | Instance | Shows |
|---|---|---|
| `growth`, side `measurements` | windows of 1 and 2 days, 5 days, 2 syncs with a lookback of 3 and a lag of 2, 2 refreshers, 2 overtakings | `MeasurementInv` = `CoverageMeansEveryDay`, `MeasuredIsFair`, `MeasuredWasApplied`, `RollbackCensors`, types |
| side `opportunities` | 2 search keys, 1 inspection key, 2 shown at a time, 2 reconcilers, room for 1 draft, 1 crossing | `OpportunitySafety` = `ResolvedLeavesNoDraft`, `WithdrawnStaysCancelled`, `CancelledDraftsAreMarked`, `ReconcilersLeaveDecisions`, `OwnOpportunitiesOnly`, types |
| side `signals` | 1 query or none, 2 pages, metrics at the thresholds of the detectors | `SignalInv` = `DetectorsAgree`, `MoreClicksAreNoWorse` |

*Why the bounds are enough.* Two windows are one that is complete while the other waits.
Five days hold a baseline of two, the change, and two days after it, with the lag of
finalization. Two overtakings are a commit and a rollback that one refresh has missed, or the two
commits that leave a status and a comparison of different transactions. Ranges that overlap, touch and leave a gap all occur between two syncs of
three days. Limit 1 of two keys lets one take the place of the other.

What the model reaches beyond: a refresh that crosses an attempt leaves metrics of the window
before (`overtakings`); three transactions that overtake refreshes can leave a measured outcome
with the comparison that a rollback cut (two refreshes that had read before the rollback and one after
it each write the columns in which they differ from what they read), which
is why `MeasuredIsFair` and `RollbackCensors` speak of two at most; a reconciler cancels the action that a user proposed or approved
after it was read.

## 10. Findings

**`TechnicalFindings`.** `finding` is a row of `issues` per fingerprint, `action` an operator
action per idempotency key: the finding, its return, and the repository with the branch and the
sha of the file. A refresh commits the findings (`CommitFindings`), cancels stale actions one
commit at a time (`_cancel_stale_actions`, `cancel_action`), and creates and proposes
actions one commit at a time (`ensure_action_for_finding`, `propose_action`); it may be
interrupted after each. Users set statuses, decide and withdraw; the mapping changes.

**`FindingDetectors`** and **`PatchPlanner`**: the detectors with their thresholds over
facts of pages, the fingerprint, the choice of a source file among candidates, the walk
through imports file by file while somebody pushes, and the acceptance of a patch.
**`ActionPolicy`**: the score and the mode of a proposal.

| Run | Instance | Shows |
|---|---|---|
| `findings`, side `pipeline` | 2 findings, 1 refresher, a budget of 1 plan, 2 branches, 1 return, and 2 of: 1 move, 2 decisions, 1 interruption, 1 crossing; with two findings undisturbed | `ActiveFindingsAreGoverned`; `FindingSafety` = `OpenActionsAreCurrent`, `DeferredComesNext`, `RefreshesLeaveDecisions` (an approved action is not yet a decision: a refresh may cancel it until it executes), types |
| side `planner` | 3 files that import each other and themselves, 1 push, 2 files to read at most | `ReadyPlansAreExact` = `ReadyPlansDoNotGuess`, `ReadyPlansNameAVersion` |
| sides `detectors`, `patch` | 2 pages, texts and pages at every threshold, one and the other side | `PatchesAnswerFindings` = `FingerprintsTellFindingsApart`, `AcceptedPatchesResolve` |
| side `policy` | every proposal with risks and pages at the thresholds | `PolicyIsStrict` = `ReachIsNeverAutoApproved`, `PolicyIsMonotone` |

*Why the bounds are enough.* A finding has an action of its own; two findings meet only
in the budget, so that two of them with a budget of one show all there is without
disturbances, and one shows the disturbances, two at a time. The pure sides
enumerate their inputs at and beside every threshold of the code.

What the model reaches beyond:

* An interruption between the findings' commit and the cancellations leaves the action of a
  resolved finding open; no later refresh looks for it.
* A mapping that goes from one branch to another and back finds the cancelled action under its old key
  and cancels the present one: the finding is active and has no action, although "an
  interrupted prior run cannot leave an active finding without its governed action"
  (`technical_finding_service.py:948`). The same after a user reopens a resolved finding.
* With more patchable findings than twice the budget some may wait for ever, and a finding
  whose action was withdrawn takes its place in the budget every time.
* A ready patch that the policy blocks (`PROTECTED_PATH_MARKERS`) has no reason code, which
  `_planning_priority` (`technical_finding_service.py:775`) reads as put off: it is planned
  anew by every refresh, first, and can put off another finding for ever. Hence the premise
  of `DeferredComesNext` on `Mode`.
* Files too large to be read are passed over, so that an ambiguity in them goes unnoticed. A
  patch for several headings need not leave one, and no patch checks a long description.

## 11. Content

**`ContentDrafts`.** `draft`, `versions` and `publication` are the rows of a draft, of its
versions and of the actions that publish them. `generate_draft`, `update_draft`,
`run_quality_check` and `submit_for_approval` read; `CommitBody`, `CommitCheck`, `create_action`
and `CommitSubmission` commit. A version is unique per draft (`Kept`), which is what refuses
the second of two edits. A text is a body and a heading: title, `meta_title` and
`meta_description`, which a generation takes from the brief.

**`CitationScans`.** Answers are ingested in any order (`ingest_result`); `finalize_scan`
reads them, opens gaps with one committed action each (`OpenGap`) and completes
the scan (`CommitScan`); it may end in between.

| Run | Instance | Shows |
|---|---|---|
| `billing_content`, side `drafts` | 1 draft, 2 bodies, 2 headings, 3 of the 4 texts good, 2 versions, 2 requests | `DraftInv` = `NoBodyIsLost`, `AwaitingShowsItsVersion`, `SubmittedIsGood`, types |
| side `citations` | 2 scans, 1 prompt, 2 gap types, 2 requests, 1 that ends early | `ScanInv` = `CompletedScansAreCounted`, `OneActionPerGap` |

*Why the bounds are enough.* Two requests are the two edits of one version, or an edit
and a submission. Two versions are a draft and an edit of it before, beside or after a
submission; generations that write no version come without a bound. Two scans are one that shows a gap and a later one that does not.

What the models reach beyond:

* A generation decides on a new version by the body alone, and overwrites title and meta
  fields always (`content_creation_service.py:445`). If they were edited (`update_draft`,
  which keeps a version) and the body is the same, the edit is lost from the draft, which differs from
  its version and may be poorer than it. `NoBodyIsLost` therefore speaks of the body, and lets the
  heading be the version's or the brief's.
* A new generation of a draft that awaits approval takes it back silently, and its
  action stays open; an edit that crosses a submission leaves the action of an older version.
* `quality_summary` is that of the last check, whatever was edited since; the submission
  checks again, which is why `SubmittedIsGood` holds.
* A scan that shows no gap resolves none (`if active_keys`,
  `citation_intelligence_service.py:352`), and the finalization of an older scan resolves the gaps
  of a newer one. The key of a gap does not name the site, so that two sites of a
  workspace share its action; and an action that has ended is not made again when the gap
  returns.

## 12. Proofs

Every theorem holds for every value of the constants that the named assumptions of
its module allow; TLC evaluates those assumptions in the runs. Each rests on an
inductive invariant, which is stated before the lemmas and explained here. There is one
lemma per action or group of actions, and lemmas on sets, rows and numbers for what they share.

### Governed execution

From `ConstantsAssumption`:

| Theorem | Property |
|---|---|
| `TypeCorrectness` | `TypeOK` |
| `AttemptsAreBounded` | `AttemptBudget` |
| `LeasesMatchStatus` | `LeaseMatchesStatus` |
| `QueueIsSound` | `QueueInv`, the three together |
| `AttemptsAreExclusive` | `ExclusiveAttempt` |
| `JobsStayEnded` | `EndedJobsStayEnded` |
| `EffectsAreGoverned` | `GovernedEffect` |
| `HistoriesAreInOrder` | `HistoryInOrder` |
| `ImplementsTheQueue` | `ImplementsDurableQueue` |

The first five rest on one inductive invariant, `LeaseInv`: the three properties
support each other (a budget is only safe if an active job is settled by its one
lease holder; exclusion needs that a running row names its owner; recovery and
cancellation keep both only because they respect the row locks), and three
formation facts close the induction: rows are inserted in order and belong to an
action (`JobsInOrder`), a busy worker has a job and only an execute or rollback
attempt has called the provider (`WorkersFormed`), and a cancellation that has
locked its row excludes an attempt on it (`RequestsFormed`).
`JobsStayEnded` follows from `LeaseInv` step by step: only a worker inside an
attempt, a claim, a recovery or a cancellation writes a status, and the first
three find the row active. `EffectsAreGoverned` adds `GovernedInv`: an action in
a status from which it can be enqueued, a handler that has read such a status,
every row and every effect all witness `approved` and a policy that does not
block, and neither is ever taken back.

`HistoriesAreInOrder` is about handlers that commit late. The unique key of a job contains
the version of its action, so that one execution per action needs the version to be
the same whenever somebody enqueues. `HistoryInv` says why it is: an action is approved
at one version only (`ApprovedAt`), since a late handler writes the version it computed
from its read and can put the action back, but never to another version; and nobody
has seen the action succeeded before its only validation ended, which fixes the
version and the snapshot of every rollback.

`ImplementsTheQueue` is the refinement, step by step: the rows map to the abstract
queue (`RowPhase`), initial states to initial states, and every step to a step of
`DurableQueue` or to a stutter. `LeaseInv` is needed where a step is only
abstract if the worker still owns its row.

### Crawls

From `CrawlConstants` (`CrawlJobsProofs`):

| Theorem | Property |
|---|---|
| `CrawlsAreAlone` | `OneActiveCrawl`, a part of `CrawlsSettle` |
| `EndedCrawlsStayEnded` | `OnlyOperatorsReopen` |
| `CrawlsAreSafe` | `CrawlSafety` |
| `FreshCrawlsStayWithinAllowance`, without stalls | `FreshCrawlsKeepAllowance` |
| `CrawlsDoSettle`, without stalls and failing error handlers | `CrawlsSettle` |

`CrawlInv` adds to the properties that a running job is owned and a busy worker is in a job
(`OwnersAndJobs`), and that what waits, or has just been claimed, has an attempt left
(`BudgetLeft`).

`SettleInv` is about pages. The reservations of all crawls are one set of slots
(`ReservedPages`), so that a step on one crawl changes its slots only, and the sum with the
charges changes by what that crawl gives back. A worker charges pages while its job
still reserves them; that the two together do not pass the allowance needs that it
works with the limit of its lease, has taken no more than the limit leaves, and closes with
the pages it has stored (`WorkerOK`). All of this fails for a worker that outlives
its lease, which is why the theorem assumes that `stall` is no fault, and the run
`cr_allowance` with it; a completed crawl without rows needs also that no error handler
fails (`error`). The other faults, crashes and throttled pages among them, remain.

### GitHub adapter

From `AdapterConstants`:

| Theorem | Property |
|---|---|
| `TypeCorrectness` | `TypeOK` |
| `RecordsAreGoverned` | `RecordedCommitIsGoverned` |
| `NothingIsForced` | `NeverForcePushes` |
| `RollbacksLeaveNothing` | `RollbackLeavesNothing` |
| `RetriesReuseTheirWork` | `UndisturbedNeverFails` |

`AdapterInv` carries the first three. An attempt works for the job in the queue and
has, from the branch on, a commit on its base in hand (`WorkerInv`); the queue's row is
that of such a commit (`QueueInv`); and commits are never taken back
(`CommitsStay`). The steps fall into those that go on with an attempt
(`AttemptGoesOn`), those that end it (`AttemptFails`, `AttemptsBeginAndEnd`) and those of
people. `RepositorySteps` lists the seven things a step can do to the branch and its
pull requests; `NothingIsForced` reads off it, and `RollbackInv` is stable under each:
`NothingLeft` adds that the closed pull request's head is at a commit no branch
will have again, without which a reopening could not be excluded.

`RetriesReuseTheirWork` needs `UndisturbedInv`: as long as nobody else has acted, GitHub
holds what the attempts made and nothing else (`OwnRepository`), what an attempt has read
is still so (`OwnAttempt`), the rows say what the repository says (`OwnRows`), and every
attempt that ended without success has cost a fault (`FaultsCounted`). From these no step
of an attempt finds anything to refuse (`NothingIsRefused`): the replays recognise what a crash
or a lost answer has left behind. A job that is out of attempts was out of luck as often.

### Billing

From `BillingConstants` (an event and a caller at least, finitely many callers) and
`NoneIsNoObject`:

| Theorem | Property |
|---|---|
| `PlansFollowStripe` | `PlanFollowsStripe` |
| `BillingIsSafe` | `BillingInv` |

Two invariants. `RowInv` (`RowInvariance`) is about the row and the events:

* *Events are applied once* (`OnceInv`): a delivery that has inserted its record holds the event
  (`Holds`), nobody else does, and the record is not there for others before the commit.
* *Nothing before payment* (`UnpaidInv`): while no event was active and no payment has failed,
  nobody writes an active status; and whoever has read an inactive one finds an inactive one, so that the column it
  leaves out of its UPDATE is inactive too. This holds for any mixture of columns.
* *Undisturbed, the row follows Stripe* (`UndisturbedInv`, while `faults` is 0). `AloneInv`: one
  request on the row at a time, which has read what is there, and a prefix of the events
  acknowledged. `FollowInv`: among the events there is a newest change (`Newest`), which all later
  ones repeat; once it is applied the row agrees with Stripe (`Agrees`), or says past_due of a
  subscription whose first payment failed (`Misled`), and whoever writes the row
  from then on writes the same, be it a payment event, a checkout that asks Stripe, a
  confirmation, or a metered call that sets a lapsed plan to audit.

`UsageInv` (`UsageInvariance`) is about the counters: the usage with the calls in progress
(`Beside`), each of which may still add a request and its tokens, stays below the largest
limit and the number of callers. A call that begins has found room for one, whatever
was counted before it. For tokens that is a sum of products, and it holds from the first
call on only, because a period nobody used has no room to have been found.

### Membership

From `WorkspaceConstants` and `NobodyIsNoRow`, for `WorkspaceSpec`, which is the specification
of `Workspaces` without the other sides of its run:

| Theorem | Property |
|---|---|
| `AWorkspaceKeepsAnOwner` | `AnOwnerRemains` |
| `MembershipIsSafe` | `MembershipSafety` |

`MemberInv` says what a request knows of rows that are never deleted, whatever was
committed since (`Known`), what still holds if no request crossed another
(`UncrossedInv`), and what seats are paid for. That last part is why the invariant is no
simple bound: requests in progress may take a seat each, or give up, in any combination. `SeatsPaid`
therefore quantifies over every set of growing requests: the seats taken and those
the set may add stay within the quota, one for each crossing, and the seats the set gives
up in exchange (`Credit`). `InvitationsPaid` says the same of one address.

### Accounts

From `AccountConstants` and `AbsentIsNoRow` (what stands for a missing row is no row), for
`AccountSpec`:

| Theorem | Property |
|---|---|
| `AccountsAreSound` | `AccountInv` |

`AccountIInv` has two parts. `LinkInv` is about accounts and identities: what a request has
read of rows that are never deleted (`Formed`), that what is linked, or intended, has an
account (`UsersExist`), and that an account with a password is verified by a confirmation
with that password only (`VerifiedByPassword`). That links are one to one is then the
unique columns' doing, at the commit, whatever the requests had read. `IntentInv` is about
the intents, which no constraint of the database protects. It counts: the requests at work
are at most one and one per race (`BusyFew`), the open intents that one of them did not see
when it superseded the others are, with the requests at work, no more than that
(`MissedFew`), and neither are the confirmations of an intent with those under way
(`ConfirmedFew`). A property that says "one, and one more per race" is not inductive without
what the requests under way may still add.

### Installations

From `InstallationConstants` and `NamesAreApart` (GitHub's ids are numbers, a repository
has a name), for `InstallSpec`:

| Theorem | Property |
|---|---|
| `InstallationsAreSound` | `InstallationInv` |

`InstallIInv` says of each request what it read that no commit takes back (`ConnectorKnows`: rows are
not deleted, and `installation_id` stays with its workspace) and what is still as it
read it (`Current`): for a connection the site's repository and the installation that is
not revoked, for a removal exactly the sites that the installation has, those that are active
and those that show a repository. `Current` speaks of the sites outside `crossedSites`, and
the heart of the proof is that a commit changes it for crossed sites only (`Crosses`):
two requests share a site, or are about one installation. `IntentsHeld` is the row lock on
the intent, kept from the read to the commit.

### Sites and the wizard

| Theorem (in `TenancyProofs`) | Property | Assumptions |
|---|---|---|
| `SiteInvariance` | (inductive invariant `SiteIInv`) | `SiteConstants`, `NullIsNoSite`, `OnboardingConstants` |
| `SitesAreSafe` | `SiteSafety` | the same |
| `WizardIsSound` | `WizardInv` | the same |

`OnboardingSpec` has DNS claims, audit claims and the wizard all at once; the run takes them
in two sides. `NullIsNoSite` says that no row is the absent one.

The property is about commits, and a commit writes what was read earlier; so most of
`SiteIInv` is what a request at work still knows of the sites it read (`Knows`). A site that was
the workspace's own is its own or deleted (`OwnOrGone`). A claim that was found live, on a token
that has not lapsed since, is live or has been completed by the same workspace, for nobody
else may start a claim there before it lapses (`LiveOrGone`): that is why the stale values in
`verify_and_complete_site_claim` cost nobody a site. `LiveOrGone` needs that tokens lapse in order
(`RowsOK`); the proof did not go through while the model let a later token lapse before an
earlier one, and TLC found the site lost with three tokens. `AuditsLocked` is the row lock of
`claim_free_audit`. For the quota, `QuotaOK` counts the owned sites that DNS did not win together
with the requests that found room, and lets a clash add one. `Alone` says that before the first
clash there is one request at work and the wizard is as it read it; `CompletedIsReady`
follows from it, since a save always opens the wizard and a completion reads the site itself.

### Content

From `DraftConstants` and `NothingIsNoBody` (a draft that is new has no body), for
`DraftsSpec` and `ScansSpec`, each without the other sides of their run:

| Theorem | Property |
|---|---|
| `DraftsAreSound` | `DraftInv` |
| `ScansAreSound` | `ScanInv` |

*Drafts.* A commit writes the columns that differ from what was read into a row that others
have written since (`Writes`), so that a mixture of two requests has to be a good row. What
saves it is the unique key of a version: a draft has all versions up to its own, and
its own is at least the one that was read (`ReadOf`); if the next one is new, nobody has
written since, and a body that equals the one that was read is still the one in the row
(`BodyCommits`), while its heading may be the brief's by now (`ReadOf`). An action is never taken back once the draft has one (`ActionsShow`), what
it shows was written and is good (`PublishedWasWritten`), and the submission knows that it
has created its own (`EditorKnows`).

*Scans.* Unless two requests crossed, an answer has read the status the scan has, so that
a completed one is put back to running, and a finalization has counted the answers there
are (`ScannersKnow`). That a gap has one action is the key's doing (`ActionsAreOfGaps`).

### Findings

From `FindingConstants` (`ContentProofs`), for `FindingsSpec`, the refreshes without the other
sides of the run `findings` and without its bound on what disturbs them:

| Theorem | Property |
|---|---|
| `FindingsInvariance` | the inductive invariant `FindingInv` |
| `FindingsAreSafe` | `FindingSafety` |
| `FindingsAreGoverned` | `ActiveFindingsAreGoverned` |

Each of the properties holds under premises of its own, so `FindingInv` has layers, each
under what the one before holds under and more:

* `FindingBase`, whatever happens: the types, an age for every action below the number its finding
  has, and that whatever a refresher remembers exists.
* `Uncrossed`, as long as nothing crosses a refresh: what was read is what is there
  (`SeesFindings`, `SeesStale`, `SeesActive`), an action is of no return later than the present,
  and what a refresh is about to cancel is undecided. `RefreshesLeaveDecisions` follows.
* `Current`, as long as no refresh is interrupted: an open action is of the present return
  of an active finding, or some refresh is about to withdraw it (`Ends`). At rest nobody is:
  `OpenActionsAreCurrent`.
* `Moved`, as long as the repository moves less than twice: a patch for the mapped commit is never
  withdrawn by the system while its finding is active (`Patches`), because whatever supersedes an
  action is a patch that stands and is not about to be cancelled itself (`DoomedAreSuperseded`).
  So a finding that the refresh has passed is governed (`Ensures`), and
  `ActiveFindingsAreGoverned` is the case that none is left.
* `Budgets`, when nothing disturbs the refreshes: who is put off has a fallback for lack of budget,
  and nothing else (`Waits`). The count that carries it is in `Plans`: between two refreshes, once
  anything is put off, at most `PlanLimit` patchable findings are unsettled; a refresh takes those
  that were put off first, so that they fit its budget, and what it plans for it settles, so that
  one that puts anything off has settled at least `PlanLimit` and, of `2 * PlanLimit`, leaves at
  most `PlanLimit` (`TheRest`). `PlanCounts` is one step of it.

TLC checked `FindingInv` first: with one finding and two refreshers, two disturbances of each kind
(700 000 states), and with two findings, two refreshers and an interruption or none (2 million).
The proof needed that `Patchable` is finite, which is now a premise of `DeferredComesNext`: of
an infinite set the cardinality says nothing.

### Agent runs

From `AgentConstants` (`GitHubAdapterProofs`), for `AgentSpec`, without fairness and without the
bound of the run `work_ends` on what befalls the runs:

| Theorem | Property |
|---|---|
| `AgentInvariance` | the inductive invariant `AgentInv` |
| `RunsAreEndedOnce` | `RunsEndOnce` = `[]FailedRunsWaitForNothing /\ EndedRunsStayEnded` |

*Two kinds of protection.* What is read under a lock stays right because of the lock, and what is
read without one because of the lease. `AgentInv` has a part for each:

* `LocksExclude` and `DecisionsStand`: the rows of two reconciliations are disjoint, and what one
  has decided is right when it commits. Its run cannot end meanwhile, since every writer of its status but
  a resume waits for the lock. Its crawl can begin again only by a resume, which is noted, or by a page retry.
* `FreshRuns`: the link of a run is written by a request that read it earlier. Nobody else touches the
  run in between because a run without a link is never decided about.
* `LeasesAreOwned`, `OwnersDiffer` and `LeasedStayLeased`, as long as no lease was given between a
  report's read and its write: the owner in a row never falls below one that somebody
  holds, no two analysts hold the same one, and who still owns a run has one that is running. The
  last is why an ended run is not ended again: an analysis that has lost its lease has an older owner.
  `LeasedStayLeased` closes the gap that a later reconciliation might fail a run under analysis:
  the run has pages, so that the decision can only be to analyse it again.

`EndedRunsStayEnded` then follows from what a step can make of one row (`RowGoesOn`). TLC checked
`AgentInv` first, with two runs, two sites, two crawls, two resumes, a process that stops and a
lease that ends (380 000 states), and with three runs of which a reconciliation chooses one
(198 000). For the proof, `Chosen` is now stated as a set, the runs with fewer than
`ReconcileLimit` free ones before them, where it was a prefix of a selected sequence.

### Public audits

From `AuditConstants` and `NullIsNoRow` (`FreeAuditsProofs`):

| Theorem | Property |
|---|---|
| `AuditsInvariance` | the inductive invariant `AuditIInv` |
| `AuditsAreShared` | `AuditInv` |

*Sharing.* `SubmissionsShareAnAudit` bounds the audits that submissions share by the
overlaps. It is not inductive: a submission that found no audit is still to insert one
(`Inserting`), and a task that works on an audit which has failed meanwhile may complete it
and so make it shared again (`Working`). An audit that was not revived is owed one task;
it is `Covered` while such a task is taking it, or fetching it before it has failed. So
shared audits, insertions and tasks are at most one more than the overlaps and the
covered audits, and the tasks at most as many as those (`AuditsFew`): a second reader
raises the overlaps, the first one finds no other task that covers the audit, because a
queued audit is not being fetched (`FetchedIsTaken`). A restart takes away what is in
memory, which is at least one task per covered audit (`CoveredIsWork`, a surjection).

*Hands and reports.* Before a restart, a queued audit has a submission or a task that is
yet to take it, and a running one a task that fetches (`HandInv`). Without overlaps an audit
has one task, whose step its status tells, and it is completed once (`Alone`), so that no
task touches a claimed report. `Scores` compares reports by linear arithmetic.

### Search

From `ConnectionConstants`, `SearchJobConstants` and `NullIsNoJob` (`SearchProofs`), for
`SearchSpec`, in which syncs and inspections run beside every request, where the run
`search` takes them one at a time:

| Theorem | Property |
|---|---|
| `SearchAgrees` | `SearchInv` |
| `MetricsOfTheHolder` | `MetricsAreTheHolders` |
| `SearchJobsAreQueued` | `JobsAreQueued` |

`SearchIInv` has a part for the connection and one for the jobs. Unless requests crossed, there
is one request, the row is as it has read it but for tokens that expired since (`AsRead`), and
who is not connected has left nothing behind (`Undisturbed`). Of the jobs, it says what a
worker knows whether or not it still holds the lease: a job of its kind, an attempt in it, and
as many results as it counts (`AtWork`): results only grow, so that even the progress set back
by a stale worker has its results (`ProgressOK`). That one job is active rests on the lock of
the site, from the read to the commit of an enqueueing request (`Enqueuing`); that ended
jobs have no open attempt on `NothingLost`: before the first lost lease, whoever works
holds the job in its last attempt, and nothing else is open.

`MetricsOfTheHolder` follows step by step: only a sync that is writing changes metrics, and
what it found under the lock of its row, which it keeps to the commit, names it as the
holder and the property as chosen. `SearchJobsAreQueued` maps rows to tasks and proves each
step abstract, or a stutter: renewals, progress, stale writes and requests that wait.

### Opportunities, signals and the policy

| Theorem | Property | From |
|---|---|---|
| `OpportunitiesAreSafe` | `OpportunitySafety` | `OpportunityConstants` |
| `SignalsAreSound` | `SignalInv` | `SignalConstants` |
| `PolicyIsSound` (`GovernedExecutionProofs`) | `PolicyIsStrict` | `PolicyConstants` |

`OpportunityIInv` says of every reconciler that nobody has crossed that it has read what is
there (`ReadOfNow`), and that what it is about to write is in step: no draft without an active
opportunity, the mark of a resolved opportunity on what a reconciler cancelled and on nothing
else. Once a commit crosses, nothing is claimed of what it wrote, as in the properties.

The two detectors and the outcome have no steps: their theorems hold in every initial
state, for metrics of any size. The detectors agree because every candidate of a page asks
for the impressions or the clicks that `HAVING` lets through. That more clicks are no worse
is proved on cross-multiplied products, which the solver sees as atoms of linear arithmetic.
The score of a proposal is the maximum of six respects (`Respected`), each of which can only
rise with the reach of the proposal, and the mode only hardens with the score.

### Measurements

| Theorem | Property | From |
|---|---|---|
| `CoverageIsEveryDay` | the equivalence in `CoverageMeansEveryDay` | nothing but finiteness |
| `MeasurementsAreFair` | `MeasurementInv` | `MeasurementConstants` |

`CoverageIsEveryDay` is an induction over a finite set of ranges: the cursor after the ranges
that sort first (`Cursors`) either stands at the end of what they cover without a gap from
`start`, or has met a day that none of them covers (`Stands`). The library's induction theorems
take an operator as a parameter; the proof uses none of them, but the least
counterexample of a set of natural numbers (`Least`), which is well-foundedness of `<`.

`MeasurementIInv` has the days of the action in their order (`ActionOK`), and says of every
comparison, stored or about to be, that it is empty, whole (`Whole`: after the change, of full
length, synced, ended by the day of its making, and before a rollback) or cut by the rollback
(`Cut`). A refresh writes only the columns that it changed, so that status and comparison of a record may be
of different transactions (`Torn`, `TornBack`), and a refresh may be about to make an outcome
of a comparison that it leaves alone (`Armed`). `TornCosts` and `PendingCosts` say how many
overtakings each takes: one to leave a cut comparison without its status, three to make an outcome
of it. While nothing is overtaken, what was read is what is there, and a whole comparison is
measured (`Settled`, `Untouched`). A comparison once whole stays so because the days that it needs
had ended `Lag` days before it was made: no later rollback reaches them.

### What is only model-checked

* Liveness under fairness: `QueueDrains`, `LinkedRunsEnd`, `ActionJobsEnd` (of the adapter) and
  the liveness of crawls. Temporal proofs of this kind are beyond the provers used.
* `ReadyPlansAreExact` and `PatchesAnswerFindings`: `PatchPlanner` is a recursion over data, and
  the second property composes `FindingDetectors` with it.

## 13. Not modelled

* Parsing, rendering, scoring and prompts: functions of data, covered by unit tests.
  What decides (the thresholds of detectors, policy and patches) is in section 10.
* Content opportunities, briefs and content intelligence: upserts of rows that no
  decision reads back. Prompt sets: edited in one request.
* Integrations and the credential vault: one row that is created, rotated and revoked, and
  a cipher.
* Agent chat, the frontend, configuration: no state of their own. The legacy fix
  pipeline: its mutating routes answer 410.
* Provider protocols beyond the effects the code relies on; passwords, signatures and
  ciphers, which are taken to hold; deployment.
* Within modelled components: the priorities of jobs and Redis signals, which only change
  who is first; `site.status`, which is written and shown; statistics and events.
