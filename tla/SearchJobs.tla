----------------------------- MODULE SearchJobs -----------------------------
(*****************************************************************************)
(* The leased jobs of Search Console: the sync of search metrics of          *)
(* search_performance_service.py and the URL inspection of                   *)
(* url_inspection_service.py, for one site, beside all that happens to the   *)
(* connection.                                                               *)
(*                                                                           *)
(* Both check the lease under the lock of the row.  The sync reads the row   *)
(* anew (populate_existing) and, from its first day on, holds the lock; the  *)
(* inspection commits URL by URL, and checks the values its session read     *)
(* when it began.                                                            *)
(*****************************************************************************)
EXTENDS GoogleConnection, Sequences

CONSTANTS
    Kinds,        \* a subset of {"sync", "inspection"}
    Workers,      \* processes: one job of each kind at a time
    Covering,     \* the properties that cover the site
    MaxAttempts,
    Urls,         \* URLs of an inspection
    MaxJobs,      \* bound: jobs ever created
    MaxFaults     \* bound: leases that expire under a live worker, and workers that die

ASSUME SearchJobConstants ==
    /\ Kinds \subseteq {"sync", "inspection"}
    /\ Covering \subseteq Properties
    /\ MaxAttempts \in Nat \ {0}
    /\ {Urls, MaxJobs, MaxFaults} \subseteq Nat

VARIABLES
    job,        \* job_queue, and the attempts of a job
    worker,     \* what a process does for each kind
    metrics,    \* the property of the metrics of the last sync, or Null
    inspected,  \* history: the URLs inspected for each job
    lost,       \* leases lost so far by live workers
    deaths      \* workers died so far

jobVars == <<job, worker, metrics, inspected, lost, deaths>>
searchVars == <<connectionVars, jobVars>>
-----------------------------------------------------------------------------
JobIds == 1..MaxJobs
ACTIVE_STATUSES == {"queued", "running", "retry_wait"}
JobQueue ==
    [kind : Kinds, property : Properties,
     status : ACTIVE_STATUSES \cup {"completed", "failed"}, recent : BOOLEAN,
     owner : Workers \cup {Null}, live : BOOLEAN, processed : 0..Urls,
     attempts : Seq({"running", "completed", "failed"})]

ASSUME NullIsNoJob == Null \notin JobQueue

Free == [pc |-> "idle", job |-> 0, attempt |-> 0, done |-> 0]

JobInit ==
    /\ job = [j \in JobIds |-> Null]
    /\ worker = [w \in Workers |-> [k \in Kinds |-> Free]]
    /\ metrics = Null
    /\ inspected = [j \in JobIds |-> {}]
    /\ lost = 0 /\ deaths = 0

SearchInit == ConnectionInit /\ JobInit

Jobs(k) == {j \in JobIds : job[j] # Null /\ job[j].kind = k}
Running(j) == job[j] # Null /\ job[j].status = "running"
Holds(w, j) == Running(j) /\ job[j].owner = w

\* The lock of the row is held by the open transaction of a worker in V.
LockedBy(V, j) == "sync" \in Kinds /\ \E w \in V : worker[w]["sync"].pc = "writing" /\ worker[w]["sync"].job = j
Locked(j) == LockedBy(Workers, j)

\* invalid_sync_scope, invalid_inspection_scope: the connection is still the
\* one the job was made for.
InScope(r, property) == r.status = "configured" /\ r.property = property /\ property \in Covering
-----------------------------------------------------------------------------
\* Requests, and the scheduler once a day.

\* with_for_update on the site: one request at a time.
SiteUnlocked == \A c \in Calls : call[c].pc \notin Kinds

\* enqueue_search_sync and enqueue_url_inspection: an active job is reused, and
\* so is a recent one; a recent one that failed refuses.
enqueue(c, k) ==
    /\ SiteUnlocked
    /\ conn.status = "configured" /\ conn.property \in Covering
    /\ \A j \in Jobs(k) : job[j].status \notin ACTIVE_STATUSES /\ ~job[j].recent
    /\ Calling(c, k)
    /\ UNCHANGED jobVars

CommitJob(c, k) ==
    /\ call[c].pc = k
    /\ \E j \in JobIds :
          /\ job[j] = Null /\ \A i \in JobIds : i < j => job[i] # Null
          /\ job' = [job EXCEPT ![j] =
                [kind |-> k, property |-> call[c].read.property, status |-> "queued", recent |-> TRUE,
                 owner |-> Null, live |-> FALSE, processed |-> 0, attempts |-> <<>>]]
    /\ Returns(c)
    /\ UNCHANGED <<conn, worker, metrics, inspected, lost, deaths>>

\* The interval between two jobs of a site is over.
CooldownEnds(j) ==
    /\ job[j] # Null /\ job[j].recent
    /\ job' = [job EXCEPT ![j].recent = FALSE]
    /\ UNCHANGED <<connectionVars, worker, metrics, inspected, lost, deaths>>
-----------------------------------------------------------------------------
\* Leases.

Waiting(j) == job[j] # Null /\ job[j].status \in {"queued", "retry_wait"}

\* Mutant of Claimable: a job is claimed once.
ClaimableOnce(j) == job[j].status = "queued" /\ ~Locked(j)

Claimable(j) == Waiting(j) /\ ~Locked(j)

\* _claim_search_sync_job and _claim_job: any waiting job whose time has come.
claim(w, k) ==
    /\ worker[w][k].pc = "idle"
    /\ \E j \in Jobs(k) :
          /\ Claimable(j)
          /\ job' = [job EXCEPT ![j].status = "running", ![j].owner = w, ![j].live = TRUE,
                                ![j].attempts = Append(@, "running")]
          /\ worker' = [worker EXCEPT ![w][k] = [Free EXCEPT !.pc = "claimed", !.job = j]]
    /\ UNCHANGED <<connectionVars, metrics, inspected, lost, deaths>>

\* Mutant of Ended: an expired job is always tried again.
EndedNever(r, status) ==
    [r EXCEPT !.status = "retry_wait", !.owner = Null, !.live = FALSE, !.attempts[Len(r.attempts)] = status]

\* An attempt that failed: another one, or none is left.
Ended(r, status) ==
    [r EXCEPT !.status = IF Len(r.attempts) < MaxAttempts THEN "retry_wait" ELSE "failed",
              !.owner = Null, !.live = FALSE, !.attempts[Len(r.attempts)] = status]

\* recover_expired_search_sync_leases and recover_expired_url_inspection_leases;
\* of a kind, one job is active.
recover_expired_leases(w, k) ==
    /\ worker[w][k].pc = "idle"
    /\ \E j \in Jobs(k) :
          /\ Running(j) /\ ~job[j].live /\ ~Locked(j)
          /\ job' = [job EXCEPT ![j] = Ended(@, "failed")]
    /\ UNCHANGED <<connectionVars, worker, metrics, inspected, lost, deaths>>

\* _heartbeat, while the row is not locked.
heartbeat(w, k) ==
    LET j == worker[w][k].job IN
    /\ worker[w][k].pc # "idle" /\ Holds(w, j) /\ ~job[j].live /\ ~Locked(j)
    /\ job' = [job EXCEPT ![j].live = TRUE]
    /\ UNCHANGED <<connectionVars, worker, metrics, inspected, lost, deaths>>

\* A lease outlives its owner, or its heartbeats: while the sync holds the
\* lock of the row they wait for it.
LeaseExpires(j) ==
    LET alive == \E w \in Workers, k \in Kinds : worker[w][k].job = j /\ Holds(w, j) IN
    /\ Running(j) /\ job[j].live
    /\ alive /\ ~Locked(j) => lost + deaths < MaxFaults
    /\ lost' = IF alive /\ ~Locked(j) THEN lost + 1 ELSE lost
    /\ job' = [job EXCEPT ![j].live = FALSE]
    /\ UNCHANGED <<connectionVars, worker, metrics, inspected, deaths>>

\* Its transactions are rolled back; the process that follows knows nothing of
\* its jobs.
WorkerDies(w) ==
    /\ lost + deaths < MaxFaults
    /\ \E k \in Kinds : worker[w][k].pc # "idle"
    /\ deaths' = deaths + 1
    /\ worker' = [worker EXCEPT ![w] = [k \in Kinds |-> Free]]
    /\ UNCHANGED <<connectionVars, job, metrics, inspected, lost>>
-----------------------------------------------------------------------------
\* The work.

\* Mutant of Resumed: the URL after the last one is skipped.
ResumedAfter(r) == IF r.processed = 0 THEN 0 ELSE r.processed + 1

\* Where an attempt goes on.
Resumed(r) == r.processed

\* The session reads the job and the connection, whose tokens may be about to
\* expire.
Begin(w, k) ==
    LET j == worker[w][k].job IN
    /\ worker[w][k].pc = "claimed"
    /\ Holds(w, j) /\ InScope(conn, job[j].property) /\ conn.tokens
    /\ \E pc \in {"working", "renewing"} :
          worker' = [worker EXCEPT ![w][k] = [pc |-> pc, job |-> j, attempt |-> Len(job[j].attempts),
                                              done |-> Resumed(job[j])]]
    /\ UNCHANGED <<connectionVars, job, metrics, inspected, lost, deaths>>

\* New tokens are written, whatever became of the row; then the scope is checked
\* as the session read it first.
renew(w, k) ==
    /\ worker[w][k].pc = "renewing"
    /\ ~conn.tokens => interruptions < MaxInterruptions
    /\ interruptions' = IF conn.tokens THEN interruptions ELSE interruptions + 1
    /\ conn' = [conn EXCEPT !.tokens = TRUE]
    /\ worker' = [worker EXCEPT ![w][k].pc = "working"]
    /\ UNCHANGED <<started, call, job, metrics, inspected, lost, deaths>>

\* An error.  What was not committed is rolled back; if the lease is still the
\* worker's the attempt has failed, for good unless it may be retried.
fail(w, k, retryable) ==
    LET j == worker[w][k].job
        r == job[j]
        given == [r EXCEPT !.status = "failed", !.owner = Null, !.live = FALSE, !.attempts[Len(r.attempts)] = "failed"]
    IN
    /\ worker[w][k].pc # "idle" /\ ~LockedBy(Workers \ {w}, j)
    /\ worker' = [worker EXCEPT ![w][k] = Free]
    /\ job' = [job EXCEPT ![j] = IF ~Holds(w, j) THEN @ ELSE IF retryable THEN Ended(@, "failed") ELSE given]
    /\ \/ UNCHANGED conn
       \/ worker[w][k].pc = "renewing" /\ retryable /\ conn' = [conn EXCEPT !.status = "expired"]
    /\ UNCHANGED <<started, call, interruptions, metrics, inspected, lost, deaths>>

\* The first day of a sync is replaced: from here on the row is locked.
_persist_search_rows(w) ==
    LET s == worker[w]["sync"] IN
    /\ s.pc = "working" /\ ~Locked(s.job)
    /\ worker' = [worker EXCEPT ![w]["sync"].pc = "writing"]
    /\ UNCHANGED <<connectionVars, job, metrics, inspected, lost, deaths>>

StillHolds(w, j) == Holds(w, j)

\* Mutant of StillInScope: the connection is checked as the session read it first.
ScopeBefore(j) == TRUE

StillInScope(j) == InScope(conn, job[j].property)

Completed(r, attempt, n) ==
    [r EXCEPT !.status = "completed", !.owner = Null, !.live = FALSE, !.processed = n,
              !.attempts[attempt] = "completed"]

\* All days are there; lease and scope are read anew, and the metrics, the
\* baseline and the job are committed together.
_process_search_sync_job(w) ==
    LET s == worker[w]["sync"] IN
    /\ s.pc = "writing" /\ StillHolds(w, s.job) /\ StillInScope(s.job)
    /\ job' = [job EXCEPT ![s.job] = Completed(@, Len(@.attempts), @.processed)]
    /\ metrics' = job[s.job].property
    /\ conn' = [conn EXCEPT !.baseline = "ready", !.summary = conn.property]
    /\ worker' = [worker EXCEPT ![w]["sync"] = Free]
    /\ Crosses(Calls)
    /\ UNCHANGED <<started, call, inspected, lost, deaths>>

\* One URL, its result, and the progress of the job, whoever leases it by now.
_inspect_url(w) ==
    LET s == worker[w]["inspection"]
        u == s.done + 1
    IN
    /\ s.pc = "working" /\ u <= Urls
    /\ inspected' = [inspected EXCEPT ![s.job] = @ \cup {u}]
    /\ job' = [job EXCEPT ![s.job].processed = u]
    /\ worker' = [worker EXCEPT ![w]["inspection"].done = u]
    /\ UNCHANGED <<connectionVars, metrics, lost, deaths>>

\* All URLs are inspected: the columns that differ from what the session read.
_process_job(w) ==
    LET s == worker[w]["inspection"] IN
    /\ s.pc = "working" /\ s.done >= Urls
    /\ job' = [job EXCEPT ![s.job] = Completed(@, s.attempt, @.processed)]
    /\ worker' = [worker EXCEPT ![w]["inspection"] = Free]
    /\ UNCHANGED <<connectionVars, metrics, inspected, lost, deaths>>
-----------------------------------------------------------------------------
Work(w, k) ==
    \/ Begin(w, k) \/ renew(w, k) \/ \E retryable \in BOOLEAN : fail(w, k, retryable)
    \/ k = "sync" /\ (_persist_search_rows(w) \/ _process_search_sync_job(w))
    \/ k = "inspection" /\ (_inspect_url(w) \/ _process_job(w))

JobNext(k) ==
    \/ \E c \in Calls : enqueue(c, k) \/ CommitJob(c, k)
    \/ \E w \in Workers :
          claim(w, k) \/ recover_expired_leases(w, k) \/ heartbeat(w, k) \/ Work(w, k)
    \/ \E j \in JobIds : CooldownEnds(j) \/ LeaseExpires(j)
    \/ \E w \in Workers : WorkerDies(w)

SearchNext == (\E k \in Kinds : JobNext(k)) \/ (ConnectionNext /\ UNCHANGED jobVars)

\* A tick comes every few seconds, in every process; leases expire when nobody
\* renews them; and Google answers or fails.
SearchFairness ==
    /\ \A w \in Workers, k \in Kinds :
          WF_searchVars(claim(w, k)) /\ WF_searchVars(recover_expired_leases(w, k)) /\ WF_searchVars(Work(w, k))
    /\ \A j \in JobIds : WF_searchVars(LeaseExpires(j))
-----------------------------------------------------------------------------
\* Properties.

SearchTypeOK ==
    /\ \A j \in JobIds : job[j] # Null => job[j] \in JobQueue
    /\ \A w \in Workers, k \in Kinds : worker[w][k].pc \in {"idle", "claimed", "renewing", "working", "writing"}
    /\ metrics \in Properties \cup {Null}

\* A site has one active job of a kind: requests and the scheduler share it.
OneActiveJob ==
    \A k \in Kinds : Cardinality({j \in Jobs(k) : job[j].status \in ACTIVE_STATUSES}) <= 1

\* "no metrics were replaced": metrics change only at the hand of the worker
\* that holds the lease, and come from the property that is chosen at the time.
MetricsComeFromTheProperty ==
    [][metrics' # metrics =>
          /\ conn.status = "configured" /\ metrics' = conn.property
          /\ \E j \in JobIds : Running(j) /\ job'[j].status = "completed" /\ job[j].property = metrics'
       ]_searchVars

\* A sync that lost its lease completes nothing: whoever completes a job is the
\* one who leases it.
SyncsEndByTheirHolder ==
    [][\A j \in JobIds : job[j] # Null /\ job[j].kind = "sync" /\ job[j].status # "completed" /\ job'[j].status = "completed"
          => \E w \in Workers : Holds(w, j) /\ worker[w]["sync"].job = j /\ worker'[w]["sync"].job # j]_searchVars

\* An inspection that is completed has a result for each of its URLs, although
\* a worker that lost its lease may set back the progress of the next one.
CompletedInspectionsHaveResults ==
    \A j \in JobIds : job[j] # Null /\ job[j].kind = "inspection" /\ job[j].status = "completed"
        => inspected[j] = 1..Urls

\* The attempts of a job that ended are ended, unless a lease was lost: then the
\* stale worker completes the job and the attempt of its successor stays open.
EndedJobsHaveNoOpenAttempt ==
    lost = 0 => \A j \in JobIds :
        job[j] # Null /\ ~Running(j) => \A n \in DOMAIN job[j].attempts : job[j].attempts[n] # "running"

\* Every job ends.
JobsEnd == \A j \in JobIds :
    (job[j] # Null) ~> (job[j] # Null /\ job[j].status \in {"completed", "failed"})

\* A search job is a task of a durable queue, whose attempts count when they
\* begin: an attempt that its worker did not survive counts, and a job that
\* fails its worker every time ends.  A stale worker that completes a waiting
\* job withdraws it.
SearchQueue == INSTANCE DurableQueue WITH
    Tasks <- JobIds, Holders <- Workers, None <- Null, Budget <- MaxAttempts,
    phase <- [j \in JobIds |-> IF job[j] = Null THEN "absent" ELSE IF Waiting(j) THEN "waiting"
                               ELSE IF Running(j) THEN "leased" ELSE "done"],
    holder <- [j \in JobIds |-> IF Running(j) THEN job[j].owner ELSE Null],
    used <- [j \in JobIds |-> IF job[j] = Null THEN 0 ELSE Len(job[j].attempts) - (IF Running(j) THEN 1 ELSE 0)]
JobsAreQueued == SearchQueue!QSpec

\* The connection and the jobs agree on the property and on what was done.
SearchInv ==
    ConnectionTypeOK /\ SearchTypeOK /\ DisconnectedForgets /\ BaselineIsOfTheProperty
    /\ OneActiveJob /\ CompletedInspectionsHaveResults /\ EndedJobsHaveNoOpenAttempt

\* Only the holder of the lease writes metrics, and only those of the property
\* that is chosen.
MetricsAreTheHolders == MetricsComeFromTheProperty /\ SyncsEndByTheirHolder
=============================================================================
