----------------------------- MODULE CrawlJobs -----------------------------
(*****************************************************************************)
(* Crawl jobs of one workspace: crawl_job_service.py (the queue, its leases, *)
(* heartbeats and finalization) and the control loop of                      *)
(* first_party_crawler.py (the frontier rows one crawl takes and settles).   *)
(*                                                                           *)
(* enqueue, resume and retry hold the workspace row from their first read to *)
(* their commit, cancellation the job row: each is one action.  A worker     *)
(* holds no row while it crawls; between two commits it asks control(),      *)
(* which renews its lease or tells it that it has lost it, and then works on *)
(* that answer.  A worker stalled after the answer writes without a lease.   *)
(*****************************************************************************)
EXTENDS Naturals, Sequences, FiniteSets, FiniteSetsExt

CONSTANTS
    Sites,        \* sites of the workspace
    Workers,      \* worker processes
    None,         \* NULL
    Urls,         \* pages of a site
    PageCounts,   \* values of max_pages a request may ask for
    Limit,        \* entitlement monthly_crawl_pages
    MaxJobs,      \* bound: rows of job_queue
    MaxAttempts,  \* settings.crawl_job_max_attempts
    MaxReopens,   \* bound: resumes and page retries
    FaultKinds,   \* which faults may happen
    MaxFaults     \* bound: faults

ASSUME CrawlConstants ==
    /\ None \notin Workers
    /\ PageCounts \subseteq Nat
    /\ Limit \in Nat
    /\ {MaxJobs, MaxAttempts} \subseteq Nat \ {0}
    /\ {MaxReopens, MaxFaults} \subseteq Nat
    /\ FaultKinds \subseteq {"crash", "stall", "error", "throttle"}
    /\ IsFiniteSet(Urls)

VARIABLES
    job,       \* job_queue, with what its payload, result and snapshot say of pages
    log,       \* crawl_attempts of each job, in order of attempt_number
    frontier,  \* crawl_frontier: the status of each URL of each job
    stored,    \* pages of the job's site stored since the job's snapshot began
    usage,     \* the monthly_crawl_pages counter
    worker,    \* per worker: where its crawl is
    reopens,   \* resumes and page retries so far
    faults     \* faults so far

vars == <<job, log, frontier, stored, usage, worker, reopens, faults>>
-----------------------------------------------------------------------------
JobIds == 1..MaxJobs

ACTIVE_CRAWL_STATUSES == {"queued", "running", "retry_wait"}
TERMINAL_CRAWL_STATUSES == {"completed", "failed", "cancelled"}

\* "failed" stands for the rows that failed and for those that were blocked:
\* every reader of the queue treats the two alike.
RowStatuses == {"absent", "queued", "fetching", "completed", "failed", "deferred"}

\* due is run_after <= now, live is lease_expires_at >= now, snapshot says that
\* payload.snapshot_id is set, snapPages is the pages_crawled its snapshot has
\* committed, resultPages is result.pages_crawled.
CrawlJob ==
    [site : Sites \cup {None}, status : ACTIVE_CRAWL_STATUSES \cup TERMINAL_CRAWL_STATUSES \cup {"absent"},
     cap : Nat, owner : Workers \cup {None}, live : BOOLEAN, due : BOOLEAN, cancelReq : BOOLEAN,
     maxPages : Nat, snapshot : BOOLEAN, snapPages : Nat, resultPages : Nat]

NoCrawlJob ==
    [site |-> None, status |-> "absent", cap |-> MaxAttempts, owner |-> None, live |-> FALSE,
     due |-> TRUE, cancelReq |-> FALSE, maxPages |-> 0, snapshot |-> FALSE,
     snapPages |-> 0, resultPages |-> 0]

Steps == {"opening", "seeding", "picking", "settling", "ending", "closing"}

\* granted: control() has answered, and the step it allows is still to come.
\* limit is the max_pages the attempt began with, pages what its crawl ended with.
CrawlWorker ==
    [pc : {"idle", "claimed", "failing"} \cup Steps, job : 0..MaxJobs, granted : BOOLEAN,
     batch : SUBSET Urls, limit : Nat, pages : Nat]

Idle == [pc |-> "idle", job |-> 0, granted |-> FALSE, batch |-> {}, limit |-> 0, pages |-> 0]

TypeOK ==
    /\ job \in [JobIds -> CrawlJob]
    /\ log \in [JobIds -> Seq([by : Workers, running : BOOLEAN])]
    /\ frontier \in [JobIds -> [Urls -> RowStatuses]]
    /\ stored \in [JobIds -> SUBSET Urls]
    /\ usage \in Nat
    /\ worker \in [Workers -> CrawlWorker]
    /\ reopens \in 0..MaxReopens
    /\ faults \in 0..MaxFaults

Init ==
    /\ job = [j \in JobIds |-> NoCrawlJob]
    /\ log = [j \in JobIds |-> <<>>]
    /\ frontier = [j \in JobIds |-> [u \in Urls |-> "absent"]]
    /\ stored = [j \in JobIds |-> {}]
    /\ usage = 0
    /\ worker = [w \in Workers |-> Idle]
    /\ reopens = 0
    /\ faults = 0
-----------------------------------------------------------------------------
\* What the handlers read.

Active(j) == job[j].status \in ACTIVE_CRAWL_STATUSES
Terminal(j) == job[j].status \in TERMINAL_CRAWL_STATUSES

\* The other jobs that hold the partial unique index of the site.
ActiveOnSite(s) == {k \in JobIds : Active(k) /\ job[k].site = s}

\* The pages the active crawls may still be charged for, each with its crawl:
\* their number is the sum of max_pages over the active crawls.
ReservedPages == UNION {{k} \X (1..job[k].maxPages) : k \in {k \in JobIds : Active(k)}}
Reserved == Cardinality(ReservedPages)

\* available, or 0 when usage and reservations exceed the limit.
Room == IF usage + Reserved <= Limit THEN Limit - usage - Reserved ELSE 0

AtLeast(a, b) == IF a < b THEN b ELSE a
AtMost(a, b) == IF a < b THEN a ELSE b

Rows(j, statuses) == {u \in Urls : frontier[j][u] \in statuses}
WithRows(j, us, status) == [u \in Urls |-> IF u \in us THEN status ELSE frontier[j][u]]
SetRows(j, us, status) == frontier' = [frontier EXCEPT ![j] = WithRows(j, us, status)]

Fault(kind) ==
    /\ kind \in FaultKinds
    /\ faults < MaxFaults
    /\ faults' = faults + 1
-----------------------------------------------------------------------------
\* Requests.  One that is refused changes nothing, and one that finds an active
\* crawl of the site returns it: only those that write are modelled.

\* Mutant of enqueue_crawl_job: reservations of the crawls under way are ignored.
enqueue_ignoring_reservations(s, pages) ==
    \E j \in JobIds :
        /\ job[j].status = "absent"
        /\ \A k \in 1..(j - 1) : job[k].status # "absent"
        /\ ActiveOnSite(s) = {}
        /\ usage < Limit
        /\ job' = [job EXCEPT ![j].site = s, ![j].status = "queued",
                              ![j].maxPages = AtMost(AtLeast(1, pages), Limit - usage)]
        /\ UNCHANGED <<log, frontier, stored, usage, worker, reopens, faults>>

enqueue_crawl_job(s, pages) ==
    \E j \in JobIds :
        /\ job[j].status = "absent"
        /\ \A k \in 1..(j - 1) : job[k].status # "absent"
        /\ ActiveOnSite(s) = {}
        /\ Room >= 1
        /\ job' = [job EXCEPT ![j].site = s, ![j].status = "queued",
                              ![j].maxPages = AtMost(AtLeast(1, pages), Room)]
        /\ UNCHANGED <<log, frontier, stored, usage, worker, reopens, faults>>

request_crawl_cancellation(j) ==
    /\ Active(j)
    /\ ~job[j].cancelReq
    /\ job' = [job EXCEPT ![j].cancelReq = TRUE,
                          ![j].status = IF @ = "running" THEN @ ELSE "cancelled",
                          ![j].owner = IF job[j].status = "running" THEN @ ELSE None]
    /\ UNCHANGED <<log, frontier, stored, usage, worker, reopens, faults>>

\* What a resume and a page retry both leave: a waiting job and a fresh budget.
Reopen(j, maxPages) ==
    /\ reopens < MaxReopens
    /\ reopens' = reopens + 1
    /\ job' = [job EXCEPT ![j].status = "queued", ![j].cancelReq = FALSE, ![j].due = TRUE,
                          ![j].owner = None, ![j].live = FALSE, ![j].maxPages = maxPages,
                          ![j].cap = AtLeast(@, Len(log[j]) + MaxAttempts)]

resume_crawl_job(j) ==
    /\ job[j].status \in {"failed", "cancelled"}
    /\ ActiveOnSite(job[j].site) = {}
    /\ Room >= AtLeast(1, job[j].resultPages)
    /\ Reopen(j, AtMost(AtLeast(1, job[j].maxPages), Room))
    /\ SetRows(j, Rows(j, {"fetching", "failed"}), "queued")
    /\ UNCHANGED <<log, stored, usage, worker, faults>>

\* The site's unique index refuses the retry of a job while another is active:
\* there is no check of its own, and the quota check does not count reservations.
retry_failed_crawl_pages(j) ==
    LET retryable == Rows(j, {"failed"})
        baseline == AtLeast(job[j].resultPages, job[j].snapPages)
    IN  /\ Terminal(j)
        /\ ActiveOnSite(job[j].site) = {}
        /\ retryable # {}
        /\ usage + Cardinality(retryable) <= Limit
        /\ Reopen(j, AtLeast(1, baseline + Cardinality(retryable)))
        /\ SetRows(j, retryable, "queued")
        /\ UNCHANGED <<log, stored, usage, worker, faults>>
-----------------------------------------------------------------------------
\* The tick: recover_expired_crawl_leases and claim_next_crawl_job.

RunningAttempts(j) == {n \in 1..Len(log[j]) : log[j][n].running}
CloseLatestRunning(j) ==
    log' = [log EXCEPT ![j] =
               IF RunningAttempts(j) = {} THEN @
               ELSE [@ EXCEPT ![Max(RunningAttempts(j))].running = FALSE]]

\* Mutant of Recovered: the pending cancellation is overlooked.
RecoveredForRetry(j) == IF Len(log[j]) >= job[j].cap THEN "failed" ELSE "retry_wait"

\* Where a recovered job goes.
Recovered(j) ==
    IF job[j].cancelReq THEN "cancelled"
    ELSE IF Len(log[j]) >= job[j].cap THEN "failed" ELSE "retry_wait"

recover_expired_crawl_leases(j) ==
    /\ \E w \in Workers : worker[w].pc = "idle"
    /\ job[j].status = "running"
    /\ ~job[j].live
    /\ CloseLatestRunning(j)
    /\ SetRows(j, Rows(j, {"fetching"}), "queued")
    /\ job' = [job EXCEPT ![j].status = Recovered(j), ![j].owner = None, ![j].due = TRUE]
    /\ UNCHANGED <<stored, usage, worker, reopens, faults>>

\* Priorities and creation times are left out: any job that is due may be next.
claim_next_crawl_job(w, j) ==
    /\ worker[w].pc = "idle"
    /\ job[j].status \in {"queued", "retry_wait"}
    /\ job[j].due
    /\ ~job[j].cancelReq
    /\ job' = [job EXCEPT ![j].status = "running", ![j].owner = w, ![j].live = TRUE]
    /\ worker' = [worker EXCEPT ![w] = [Idle EXCEPT !.pc = "claimed", !.job = j]]
    /\ UNCHANGED <<log, frontier, stored, usage, reopens, faults>>
-----------------------------------------------------------------------------
\* process_crawl_job: the attempt, and the crawl inside it.

Release(w) == worker' = [worker EXCEPT ![w] = Idle]
MoveTo(w, pc) == worker' = [worker EXCEPT ![w].pc = pc, ![w].granted = FALSE]

\* The lease is named by the claim, so a job a worker owns is the one it is in.
Owns(w) == LET j == worker[w].job IN job[j].status = "running" /\ job[j].owner = w

\* Mutant of HoldsLease: whoever is in the job is trusted.
TrustsAnyWorker(w) == job[worker[w].job].status # "absent"

\* The fence of the heartbeat, of finalization and of the failure path.
HoldsLease(w) == Owns(w) /\ job[worker[w].job].live

\* The start does not look at the expiry of the lease.
BeginAttempt(w) ==
    LET j == worker[w].job IN
    /\ worker[w].pc = "claimed"
    /\ \/ /\ Owns(w)
          /\ log' = [log EXCEPT ![j] = Append(@, [by |-> w, running |-> TRUE])]
          /\ worker' = [worker EXCEPT ![w].pc = "opening", ![w].limit = job[j].maxPages]
       \/ ~Owns(w) /\ Release(w) /\ UNCHANGED log
    /\ UNCHANGED <<job, frontier, stored, usage, reopens, faults>>

\* What a handler of run_crawl writes of the pages stored, when it ends early.
CommitPages(j) == job' = [job EXCEPT ![j].snapPages = Cardinality(stored[j])]

InCrawl(w) == worker[w].pc \in {"seeding", "picking", "settling", "ending"}

\* control(): the lease is renewed, or lost, or the crawl is found cancelled.
Control(w) ==
    LET j == worker[w].job IN
    /\ worker[w].pc \in Steps
    /\ ~worker[w].granted
    /\ \/ /\ ~HoldsLease(w)
          /\ Release(w)
          /\ UNCHANGED job
       \/ /\ HoldsLease(w)
          /\ job[j].cancelReq
          /\ MoveTo(w, "failing")
          /\ IF InCrawl(w) THEN CommitPages(j) ELSE UNCHANGED job
       \/ /\ HoldsLease(w)
          /\ ~job[j].cancelReq
          /\ worker' = [worker EXCEPT ![w].granted = TRUE]
          /\ UNCHANGED job
    /\ UNCHANGED <<log, frontier, stored, usage, reopens, faults>>

At(w, pc) == worker[w].pc = pc /\ worker[w].granted

\* _crawl_snapshot_for_job: the first attempt opens the snapshot the others keep.
OpenSnapshot(w) ==
    LET j == worker[w].job IN
    /\ At(w, "opening")
    /\ MoveTo(w, "seeding")
    /\ job' = [job EXCEPT ![j].snapshot = TRUE]
    /\ UNCHANGED <<log, frontier, stored, usage, reopens, faults>>

\* The homepage and what the sitemaps list.  _add_frontier_urls skips the rows
\* there are; its limit of five rows a page is beyond Urls.
SeedFrontier(w) ==
    LET j == worker[w].job IN
    /\ At(w, "seeding")
    /\ MoveTo(w, "picking")
    /\ \E us \in SUBSET Urls :
          /\ us # {}
          /\ SetRows(j, us \cap Rows(j, {"absent"}), "queued")
    /\ UNCHANGED <<job, log, stored, usage, reopens, faults>>

CapReached(w) == Cardinality(stored[worker[w].job]) >= worker[w].limit

\* The limit _next_frontier_batch gets; the pacing of the origin may lower it.
BatchRoom(w) == worker[w].limit - Cardinality(stored[worker[w].job])

TakeBatch(w) ==
    LET j == worker[w].job IN
    /\ At(w, "picking")
    /\ ~CapReached(w)
    /\ \E us \in SUBSET Rows(j, {"queued"}) :
          /\ us # {}
          /\ Cardinality(us) <= BatchRoom(w)
          /\ SetRows(j, us, "fetching")
          /\ worker' = [worker EXCEPT ![w].pc = "settling", ![w].granted = FALSE, ![w].batch = us]
    /\ UNCHANGED <<job, log, stored, usage, reopens, faults>>

NoMoreRows(w) ==
    /\ At(w, "picking")
    /\ CapReached(w) \/ Rows(worker[w].job, {"queued"}) = {}
    /\ MoveTo(w, "ending")
    /\ UNCHANGED <<job, log, frontier, stored, usage, reopens, faults>>

\* The pages of a batch count for every snapshot of the site that has begun.
StorePages(j, us) ==
    stored' = [k \in JobIds |-> IF job[k].snapshot /\ job[k].site = job[j].site
                                THEN stored[k] \cup us ELSE stored[k]]

\* One transaction settles the rows us of a batch: those of done are stored and
\* add the rows they link to, those of again go back after a 429 or a bot block
\* (frontier.attempt_count < 3, here a fault), the rest failed or were blocked.
SettleRows(w, us, done, again) ==
    LET j == worker[w].job IN
    \E links \in SUBSET Rows(j, {"absent"}) :
        /\ done = {} => links = {}
        /\ frontier' = [frontier EXCEPT ![j] =
              [u \in Urls |-> IF u \in done THEN "completed"
                              ELSE IF u \in again \cup links THEN "queued"
                              ELSE IF u \in us THEN "failed" ELSE frontier[j][u]]]
        /\ StorePages(j, done)

\* A page that raises ends the crawl: what came before it in the batch is
\* flushed and committed by the handler of the exception.
SettleBatch(w) ==
    LET j == worker[w].job
        batch == worker[w].batch IN
    /\ At(w, "settling")
    /\ \E us \in SUBSET batch : \E done \in SUBSET us : \E again \in SUBSET (us \ done) :
          /\ SettleRows(w, us, done, again)
          /\ IF again = {} THEN UNCHANGED faults ELSE Fault("throttle")
          /\ worker' = [worker EXCEPT ![w].pc = IF us = batch THEN "picking" ELSE "failing",
                                      ![w].granted = FALSE, ![w].batch = {}]
    /\ job' = [job EXCEPT ![j].snapPages = Cardinality(stored'[j])]
    /\ UNCHANGED <<log, usage, reopens>>

\* robots.txt disallows the whole batch: it is committed without asking control().
RobotsBlockBatch(w) ==
    LET j == worker[w].job IN
    /\ worker[w].pc = "settling"
    /\ ~worker[w].granted
    /\ SetRows(j, worker[w].batch, "failed")
    /\ worker' = [worker EXCEPT ![w].pc = "picking", ![w].batch = {}]
    /\ UNCHANGED <<job, log, stored, usage, reopens, faults>>

\* The homepage does not resolve, or the sitemaps cannot be read.
SeedingFails(w) ==
    /\ At(w, "seeding")
    /\ MoveTo(w, "failing")
    /\ CommitPages(worker[w].job)
    /\ UNCHANGED <<log, frontier, stored, usage, reopens, faults>>

\* The end of the crawl: the snapshot's final count, and the rows beyond the cap.
EndCrawl(w) ==
    LET j == worker[w].job
        pages == Cardinality(stored[j]) IN
    /\ At(w, "ending")
    /\ SetRows(j, IF CapReached(w) THEN Rows(j, {"queued"}) ELSE {}, "deferred")
    /\ CommitPages(j)
    /\ worker' = [worker EXCEPT ![w].pc = IF pages > 0 THEN "closing" ELSE "failing",
                                ![w].granted = FALSE, ![w].pages = pages]
    /\ UNCHANGED <<log, stored, usage, reopens, faults>>

\* The attempt with number attempt_count is this worker's and is running.
AttemptIsCurrent(w) ==
    LET attempts == log[worker[w].job] IN
    attempts # <<>> /\ attempts[Len(attempts)] = [by |-> w, running |-> TRUE]

CloseLast(j) ==
    log' = [log EXCEPT ![j] = IF @ = <<>> THEN @ ELSE [@ EXCEPT ![Len(@)].running = FALSE]]

EndLease(j, status) ==
    [job EXCEPT ![j].status = status, ![j].owner = None, ![j].live = FALSE]

\* The terminal state and the metering, in one transaction behind the fence.
Finalize(w) ==
    LET j == worker[w].job
        pages == worker[w].pages
        status == IF job[j].cancelReq THEN "cancelled" ELSE "completed"
        charge == IF job[j].cancelReq THEN 0 ELSE pages IN
    /\ At(w, "closing")
    /\ Release(w)
    /\ IF HoldsLease(w) /\ AttemptIsCurrent(w)
       THEN /\ CloseLast(j)
            /\ job' = [EndLease(j, status) EXCEPT ![j].resultPages = pages]
            /\ usage' = usage + charge
       ELSE UNCHANGED <<job, log, usage>>
    /\ UNCHANGED <<frontier, stored, reopens, faults>>

\* Where a failed attempt leaves its job.
FailedTo(j) ==
    IF job[j].cancelReq THEN "cancelled"
    ELSE IF Len(log[j]) < job[j].cap THEN "retry_wait" ELSE "failed"

\* The failure path: behind the same fence, which does not look at the attempt.
FailCrawl(w) ==
    LET j == worker[w].job IN
    /\ worker[w].pc = "failing"
    /\ Release(w)
    /\ IF HoldsLease(w)
       THEN /\ CloseLast(j)
            /\ job' = [EndLease(j, FailedTo(j)) EXCEPT ![j].due = FALSE]
            /\ SetRows(j, Rows(j, {"fetching"}), "queued")
       ELSE UNCHANGED <<job, log, frontier>>
    /\ UNCHANGED <<stored, usage, reopens, faults>>
-----------------------------------------------------------------------------
\* Faults and time.

\* The database aborts a step: finalization locks the job and then the
\* workspace, resume and retry lock them the other way round.
StepAborts(w) ==
    /\ Fault("error")
    /\ worker[w].pc \in Steps
    /\ worker[w].granted
    /\ MoveTo(w, "failing")
    /\ UNCHANGED <<job, log, frontier, stored, usage, reopens>>

\* An error at the start of the attempt, or inside the failure path.
fail_claimed_job(w) ==
    LET j == worker[w].job IN
    /\ Fault("error")
    /\ worker[w].pc \in {"claimed", "failing"}
    /\ Release(w)
    /\ job' = IF Owns(w) THEN EndLease(j, "failed") ELSE job
    /\ UNCHANGED <<log, frontier, stored, usage, reopens>>

WorkerDies(w) ==
    /\ Fault("crash")
    /\ worker[w].pc # "idle"
    /\ Release(w)
    /\ UNCHANGED <<job, log, frontier, stored, usage, reopens>>

\* A lease runs out.  Under a worker that is still in the crawl it takes a
\* stall: the heartbeat renews it three times before it expires.
LeaseExpires(j) ==
    /\ job[j].status = "running"
    /\ job[j].live
    /\ IF worker[job[j].owner].job = j THEN Fault("stall") ELSE UNCHANGED faults
    /\ job' = [job EXCEPT ![j].live = FALSE]
    /\ UNCHANGED <<log, frontier, stored, usage, worker, reopens>>

BackoffEnds(j) ==
    /\ job[j].status = "retry_wait"
    /\ ~job[j].due
    /\ job' = [job EXCEPT ![j].due = TRUE]
    /\ UNCHANGED <<log, frontier, stored, usage, worker, reopens, faults>>
-----------------------------------------------------------------------------
Request ==
    \/ \E s \in Sites, pages \in PageCounts : enqueue_crawl_job(s, pages)
    \/ \E j \in JobIds : \/ request_crawl_cancellation(j)
                         \/ resume_crawl_job(j)
                         \/ retry_failed_crawl_pages(j)

CrawlStep(w) ==
    \/ BeginAttempt(w) \/ Control(w) \/ OpenSnapshot(w) \/ SeedFrontier(w) \/ SeedingFails(w)
    \/ TakeBatch(w) \/ NoMoreRows(w) \/ SettleBatch(w) \/ RobotsBlockBatch(w)
    \/ EndCrawl(w) \/ Finalize(w) \/ FailCrawl(w)

Claim(w) == \E j \in JobIds : claim_next_crawl_job(w, j)

Next ==
    \/ Request
    \/ \E w \in Workers : Claim(w) \/ CrawlStep(w) \/ StepAborts(w) \/ fail_claimed_job(w) \/ WorkerDies(w)
    \/ \E j \in JobIds : recover_expired_crawl_leases(j) \/ LeaseExpires(j) \/ BackoffEnds(j)

Spec == Init /\ [][Next]_vars

\* APScheduler runs the tick of every worker again and again, a tick in progress
\* goes on, and time passes.  No request has to come.
Fairness ==
    /\ \A w \in Workers : WF_vars(Claim(w)) /\ WF_vars(CrawlStep(w))
    /\ \A j \in JobIds : /\ SF_vars(recover_expired_crawl_leases(j))
                         /\ SF_vars(\E w \in Workers : claim_next_crawl_job(w, j))
                         /\ WF_vars(LeaseExpires(j) /\ UNCHANGED faults)
                         /\ WF_vars(BackoffEnds(j))

FairSpec == Spec /\ Fairness
-----------------------------------------------------------------------------
\* Properties.

\* At most one crawl of a site is waiting or running, whatever mix of starts,
\* resumes and page retries reached the service (uq_job_queue_active_crawl_per_site
\* is the last line; enqueue and resume look first).
OneActiveCrawl ==
    \A j, k \in JobIds :
        Active(j) /\ Active(k) /\ job[j].site = job[k].site => j = k

\* A waiting crawl has no pending cancellation: claim_next_crawl_job would skip
\* it for ever, and as an active crawl it would bar its site from any other.
WaitingIsClaimable ==
    \A j \in JobIds : job[j].status \in {"queued", "retry_wait"} => ~job[j].cancelReq

\* A crawl whose cancellation was accepted while it ran is never completed, and
\* so never charged: finalization reads the flag again under the row lock.
CompletedWasNotCancelled ==
    \A j \in JobIds : job[j].status = "completed" => ~job[j].cancelReq

\* Attempts stay within max_attempts, and every resume or page retry grants at
\* most one more budget, across expiries, failures and recoveries.
AttemptsWithinCap ==
    \A j \in JobIds : /\ Len(log[j]) <= job[j].cap
                      /\ job[j].cap <= MaxAttempts * (1 + reopens)

\* While a worker that began its attempt owns the job, the newest attempt row is
\* its own and is running: what finalization compares is never another's row.
LeaseHoldersAttempt ==
    \A w \in Workers :
        worker[w].pc \in Steps \cup {"failing"} /\ Owns(w) => AttemptIsCurrent(w)

\* Terminal crawls start again by a resume or a page retry only: no worker that
\* lost its lease, and no recovery, brings one back.
OnlyOperatorsReopen ==
    [][\A j \in JobIds : Terminal(j) => Terminal(j)' \/ reopens' > reopens]_vars

\* "Active job max_pages values are durable reservations": as long as nothing is
\* reopened and no worker outlives its lease, the pages charged and the pages
\* reserved stay within the monthly allowance, through crashes and recoveries.
FreshCrawlsKeepAllowance == reopens = 0 => usage + Reserved <= Limit

\* Without stalled workers and failing error handlers, every page a crawl has
\* found is settled when the crawl is completed: fetched, failed or deferred.
CompletedCrawlsLeaveNoRow ==
    \A j \in JobIds : job[j].status = "completed" => Rows(j, {"queued", "fetching"}) = {}

\* Every crawl that waits or runs ends: leases of dead workers come back and
\* their attempts run out.
CrawlsEnd == \A j \in JobIds : Active(j) ~> Terminal(j)

\* What a crawl keeps whatever crashes, stalls, cancellations, resumes and page
\* retries come between its claims and its commits.
CrawlSafety ==
    [](TypeOK /\ WaitingIsClaimable /\ AttemptsWithinCap /\ LeaseHoldersAttempt
       /\ CompletedWasNotCancelled) /\ OnlyOperatorsReopen

\* Where crashes are all that befalls the workers, a crawl that ends has settled
\* all its rows and is charged within the allowance, alone on its site till then.
CrawlsSettle == OneActiveCrawl /\ FreshCrawlsKeepAllowance /\ CompletedCrawlsLeaveNoRow
=============================================================================
