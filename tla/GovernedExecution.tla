------------------------- MODULE GovernedExecution -------------------------
(*****************************************************************************)
(* Operator actions and the durable jobs that execute them:                  *)
(* operator_action_service.py (propose, decide, cancel) and                  *)
(* execution_service.py (enqueue, cancel, recover, claim, process).          *)
(*                                                                           *)
(* A request handler reads its rows with a plain SELECT and writes what it   *)
(* computed from them at its commit, so every handler is two actions or more *)
(* and works on what it has seen.  A worker commits its claim, and then runs *)
(* the whole attempt in one transaction that holds the row locks of the job  *)
(* and of its action: what it writes is visible at its commit only, what it  *)
(* does at the provider is visible at once.                                  *)
(*****************************************************************************)
EXTENDS Naturals, FiniteSets

CONSTANTS
    Actions,      \* operator actions
    Workers,      \* worker processes, each with one tick at a time
    Handlers,     \* request handlers that may run at the same time
    None,         \* NULL
    MaxJobs,      \* bound: rows of execution_jobs
    MaxAttempts,  \* settings.execution_job_max_attempts
    MaxFaults     \* bound: worker crashes, aborted transactions and stalls

ASSUME ConstantsAssumption ==
    /\ MaxJobs \in Nat
    /\ MaxAttempts \in Nat \ {0}
    /\ MaxFaults \in Nat
    /\ None \notin Workers
    /\ None \notin Actions

VARIABLES
    policy,    \* mode evaluate_action_policy gives each action: its data is fixed
    action,    \* operator_actions: status, version, approved (approved_at is set)
    job,       \* execution_jobs
    nJobs,     \* rows inserted so far: job identities are given in order
    snaps,     \* "before" rows of execution_snapshots, per action
    external,  \* what the provider holds for the action
    worker,    \* per worker: where its tick is, and the job it has claimed
    request,   \* per handler: the operation, and what it has read
    faults     \* faults so far

vars == <<policy, action, job, nJobs, snaps, external, worker, request, faults>>
-----------------------------------------------------------------------------
JobIds == 1..MaxJobs

Modes == {"blocked", "auto_approve", "manual_approval"}

ActionStatuses ==
    {"absent", "draft", "needs_approval", "approved", "execution_queued", "validating",
     "rollback_queued", "rejected", "blocked", "succeeded", "failed", "cancelled",
     "rolled_back"}

TERMINAL_STATUSES == {"rejected", "blocked", "succeeded", "failed", "cancelled", "rolled_back"}

ACTIVE_JOB_STATUSES == {"queued", "running", "retry_wait"}
TERMINAL_JOB_STATUSES == {"succeeded", "failed", "cancelled"}
JobTypes == {"execute", "validate", "rollback"}

Action == [status : ActionStatuses, version : Nat, approved : BOOLEAN]

\* key stands for the rest of idempotency_key: the action version of an execute
\* job, the parent of a validate job, version and snapshot of a rollback job.
\* due is run_after <= now, live is lease_expires_at >= now.
Job == [type : JobTypes, action : Actions \cup {None}, key : Nat \X Nat,
        status : ACTIVE_JOB_STATUSES \cup TERMINAL_JOB_STATUSES \cup {"absent"},
        attempts : 0..MaxAttempts, owner : Workers \cup {None},
        cancelReq : BOOLEAN, due : BOOLEAN, live : BOOLEAN]

NoJob == [type |-> "execute", action |-> None, key |-> <<0, 0>>, status |-> "absent",
          attempts |-> 0, owner |-> None, cancelReq |-> FALSE, due |-> TRUE, live |-> TRUE]

Worker == [pc : {"idle", "claimed", "txn", "effect"}, job : 0..MaxJobs]
Idle == [pc |-> "idle", job |-> 0]

Operations == {"propose", "approve", "reject", "cancel_action",
               "enqueue_execution", "enqueue_rollback", "cancel_job"}

\* status and version are what the handler read of the action, jobStatus of the job.
Request == [op : Operations \cup {"none"}, action : Actions \cup {None}, job : 0..MaxJobs,
            jobStatus : ACTIVE_JOB_STATUSES \cup {"absent"}, version : Nat]
NoRequest == [op |-> "none", action |-> None, job |-> 0, jobStatus |-> "absent", version |-> 0]

TypeOK ==
    /\ policy \in [Actions -> Modes]
    /\ action \in [Actions -> Action]
    /\ job \in [JobIds -> Job]
    /\ nJobs \in 0..MaxJobs
    /\ snaps \in [Actions -> Nat]
    /\ external \in [Actions -> {"absent", "applied", "reverted"}]
    /\ worker \in [Workers -> Worker]
    /\ request \in [Handlers -> Request]
    /\ faults \in 0..MaxFaults

Init ==
    /\ policy \in [Actions -> Modes]
    /\ action = [a \in Actions |-> [status |-> "absent", version |-> 0, approved |-> FALSE]]
    /\ job = [j \in JobIds |-> NoJob]
    /\ nJobs = 0
    /\ snaps = [a \in Actions |-> 0]
    /\ external = [a \in Actions |-> "absent"]
    /\ worker = [w \in Workers |-> Idle]
    /\ request = [h \in Handlers |-> NoRequest]
    /\ faults = 0
-----------------------------------------------------------------------------
\* Row locks and indexes.

InTransaction(w) == worker[w].pc \in {"txn", "effect"}

\* SELECT ... FOR UPDATE of process_execution_job: the job row and its action row.
WorkerHolds(j) == \E w \in Workers : InTransaction(w) /\ worker[w].job = j
ActionLocked(a) == \E w \in Workers : InTransaction(w) /\ job[worker[w].job].action = a

\* A cancellation has its row locked once it reads the action: the session
\* flushes the UPDATE of cancellation_requested before that SELECT.
Flushed(h) == request[h].op = "cancel_job" /\ request[h].action # None
JobLocked(j) == WorkerHolds(j) \/ \E h \in Handlers : Flushed(h) /\ request[h].job = j

\* The unique index on (workspace_id, idempotency_key).
KeyExists(type, a, key) ==
    \E j \in JobIds : /\ job[j].status # "absent"
                      /\ job[j].type = type /\ job[j].action = a /\ job[j].key = key

\* The partial unique index uq_execution_jobs_active_action_type.
ActiveExists(type, a) ==
    \E j \in JobIds : /\ job[j].status \in ACTIVE_JOB_STATUSES
                      /\ job[j].type = type /\ job[j].action = a

QueuedJob(type, a, key) ==
    [NoJob EXCEPT !.type = type, !.action = a, !.key = key, !.status = "queued"]

\* What an UPDATE of the action row leaves: the status, and the version the
\* writer computed, whatever the row holds by now.
WriteAction(a, status, version) ==
    action' = [action EXCEPT ![a].status = status, ![a].version = version]
-----------------------------------------------------------------------------
\* Request handlers.  A request whose version or status check fails changes
\* nothing; only those that pass are modelled.

create_action(a) ==
    /\ action[a].status = "absent"
    /\ WriteAction(a, "draft", 1)
    /\ UNCHANGED <<policy, job, nJobs, snaps, external, worker, request, faults>>

\* Mutant of Accepts: an action that still needs approval can be enqueued.
AcceptsUnapproved(op, status) ==
    \/ op = "propose" /\ status = "draft"
    \/ op \in {"approve", "reject"} /\ status = "needs_approval"
    \/ op = "cancel_action" /\ status \notin TERMINAL_STATUSES \cup {"executing", "absent"}
    \/ op = "enqueue_execution" /\ status \in {"approved", "needs_approval"}
    \/ op = "enqueue_rollback" /\ status = "succeeded"

\* The status an action must be read in for the operation to go on.
Accepts(op, status) ==
    \/ op = "propose" /\ status = "draft"
    \/ op \in {"approve", "reject"} /\ status = "needs_approval"
    \/ op = "cancel_action" /\ status \notin TERMINAL_STATUSES \cup {"executing", "absent"}
    \/ op = "enqueue_execution" /\ status = "approved"
    \/ op = "enqueue_rollback" /\ status = "succeeded"

\* The SELECT of get_action, the version check and the status check.
ReadAction(h, a, op) ==
    /\ request[h].op = "none"
    /\ Accepts(op, action[a].status)
    /\ request' = [request EXCEPT ![h] =
                      [NoRequest EXCEPT !.op = op, !.action = a, !.version = action[a].version]]
    /\ UNCHANGED <<policy, action, job, nJobs, snaps, external, worker, faults>>

EndRequest(h) == request' = [request EXCEPT ![h] = NoRequest]

\* Handler h commits operation op on action a: the UPDATE waits for the row.
Commits(h, op) ==
    /\ request[h].op = op
    /\ ~ActionLocked(request[h].action)
    /\ EndRequest(h)

propose_action(h) ==
    LET a == request[h].action IN
    /\ Commits(h, "propose")
    /\ action' = [action EXCEPT
           ![a].status = CASE policy[a] = "blocked" -> "blocked"
                           [] policy[a] = "auto_approve" -> "approved"
                           [] policy[a] = "manual_approval" -> "needs_approval",
           ![a].version = request[h].version + 1,
           ![a].approved = @ \/ policy[a] = "auto_approve"]
    /\ UNCHANGED <<policy, job, nJobs, snaps, external, worker, faults>>

decide_approve(h) ==
    LET a == request[h].action IN
    /\ Commits(h, "approve")
    /\ action' = [action EXCEPT ![a].status = "approved",
                                ![a].version = request[h].version + 1,
                                ![a].approved = TRUE]
    /\ UNCHANGED <<policy, job, nJobs, snaps, external, worker, faults>>

decide_reject(h) ==
    /\ Commits(h, "reject")
    /\ WriteAction(request[h].action, "rejected", request[h].version + 1)
    /\ UNCHANGED <<policy, job, nJobs, snaps, external, worker, faults>>

cancel_action(h) ==
    /\ Commits(h, "cancel_action")
    /\ WriteAction(request[h].action, "cancelled", request[h].version + 1)
    /\ UNCHANGED <<policy, job, nJobs, snaps, external, worker, faults>>

\* Both enqueues: an existing job of the same key is returned as it is, an
\* active job of the same type makes the INSERT fail; neither changes anything.
Enqueue(h, type, key, status) ==
    LET a == request[h].action IN
    \/ /\ KeyExists(type, a, key) \/ ActiveExists(type, a)
       /\ UNCHANGED <<job, nJobs, action>>
    \/ /\ ~KeyExists(type, a, key) /\ ~ActiveExists(type, a)
       /\ nJobs < MaxJobs
       /\ nJobs' = nJobs + 1
       /\ job' = [job EXCEPT ![nJobs + 1] = QueuedJob(type, a, key)]
       /\ WriteAction(a, status, request[h].version + 1)

enqueue_execution(h) ==
    /\ Commits(h, "enqueue_execution")
    /\ Enqueue(h, "execute", <<request[h].version, 0>>, "execution_queued")
    /\ UNCHANGED <<policy, snaps, external, worker, faults>>

\* Refused without a "before" snapshot.
enqueue_rollback(h) ==
    LET a == request[h].action IN
    /\ Commits(h, "enqueue_rollback")
    /\ IF snaps[a] = 0
       THEN UNCHANGED <<job, nJobs, action>>
       ELSE Enqueue(h, "rollback", <<request[h].version, snaps[a]>>, "rollback_queued")
    /\ UNCHANGED <<policy, snaps, external, worker, faults>>

\* request_job_cancellation reads the job, locks it, reads the action, and
\* writes what follows from the status it read first.
ReadJob(h, j) ==
    /\ request[h].op = "none"
    /\ job[j].status \in ACTIVE_JOB_STATUSES
    /\ request' = [request EXCEPT ![h] =
                      [NoRequest EXCEPT !.op = "cancel_job", !.job = j,
                                        !.jobStatus = job[j].status]]
    /\ UNCHANGED <<policy, action, job, nJobs, snaps, external, worker, faults>>

ReadActionOfJob(h) ==
    LET a == job[request[h].job].action IN
    /\ request[h].op = "cancel_job" /\ request[h].action = None
    /\ ~JobLocked(request[h].job)
    /\ request' = [request EXCEPT ![h].action = a, ![h].version = action[a].version]
    /\ UNCHANGED <<policy, action, job, nJobs, snaps, external, worker, faults>>

request_job_cancellation(h) ==
    LET j == request[h].job IN
    /\ Flushed(h)
    /\ \/ /\ request[h].jobStatus \in {"queued", "retry_wait"}
          /\ ~ActionLocked(request[h].action)
          /\ job' = [job EXCEPT ![j].cancelReq = TRUE, ![j].status = "cancelled"]
          /\ WriteAction(request[h].action, "cancelled", request[h].version + 1)
       \/ /\ request[h].jobStatus = "running"
          /\ job' = [job EXCEPT ![j].cancelReq = TRUE]
          /\ UNCHANGED action
    /\ EndRequest(h)
    /\ UNCHANGED <<policy, nJobs, snaps, external, worker, faults>>

\* The request fails before its commit (lost connection, deadlock, restart).
RequestFails(h) ==
    /\ request[h].op # "none"
    /\ EndRequest(h)
    /\ UNCHANGED <<policy, action, job, nJobs, snaps, external, worker, faults>>
-----------------------------------------------------------------------------
\* Workers: recover, claim, then process what was claimed.

\* Mutant of Expired: recovery does not skip locked rows.
ExpiredOrLocked == {j \in JobIds : job[j].status = "running" /\ ~job[j].live}

Expired ==
    {j \in JobIds : job[j].status = "running" /\ ~job[j].live /\ ~JobLocked(j)}

recover_expired_leases(w) ==
    /\ worker[w].pc = "idle"
    /\ Expired # {}
    /\ job' = [j \in JobIds |->
                  IF j \notin Expired THEN job[j]
                  ELSE [job[j] EXCEPT
                           !.owner = None, !.live = TRUE, !.due = TRUE,
                           !.status = IF job[j].attempts >= MaxAttempts
                                      THEN "failed" ELSE "retry_wait"]]
    /\ UNCHANGED <<policy, action, nJobs, snaps, external, worker, request, faults>>

\* Mutant of Claimable: a running job can be claimed from its owner.
ClaimableRunning(j) ==
    /\ job[j].status \in ACTIVE_JOB_STATUSES
    /\ job[j].due /\ ~job[j].cancelReq /\ ~JobLocked(j)

\* Mutant of Claimable: jobs in backoff are forgotten.
ClaimableQueuedOnly(j) ==
    /\ job[j].status = "queued"
    /\ job[j].due /\ ~job[j].cancelReq /\ ~JobLocked(j)

\* The Redis signal may name any of them first, so no order is kept.
Claimable(j) ==
    /\ job[j].status \in {"queued", "retry_wait"}
    /\ job[j].due
    /\ ~job[j].cancelReq
    /\ ~JobLocked(j)

claim_next_job(w, j) ==
    /\ worker[w].pc = "idle"
    /\ Claimable(j)
    /\ job' = [job EXCEPT ![j].status = "running", ![j].owner = w, ![j].live = TRUE]
    /\ worker' = [worker EXCEPT ![w] = [pc |-> "claimed", job |-> j]]
    /\ UNCHANGED <<policy, action, nJobs, snaps, external, request, faults>>

Release(w) == worker' = [worker EXCEPT ![w] = Idle]

\* Mutant of BeginAttempt: no fence against a lease that was lost or cancelled.
BeginUnfenced(w) ==
    LET j == worker[w].job
        a == job[j].action
    IN
    /\ worker[w].pc = "claimed"
    /\ ~JobLocked(j) /\ ~ActionLocked(a)
    /\ \/ /\ job[j].cancelReq
          /\ job' = [job EXCEPT ![j].attempts = @ + 1, ![j].status = "cancelled"]
          /\ WriteAction(a, "cancelled", action[a].version + 1)
          /\ Release(w)
       \/ /\ ~job[j].cancelReq
          /\ worker' = [worker EXCEPT ![w].pc = "txn"]
          /\ UNCHANGED <<action, job>>
    /\ UNCHANGED <<policy, nJobs, snaps, external, request, faults>>

\* The locked reads at the start of process_execution_job, and the three ways on:
\* not leased by this worker any more, cancellation requested, or an attempt.
BeginAttempt(w) ==
    LET j == worker[w].job
        a == job[j].action
    IN
    /\ worker[w].pc = "claimed"
    /\ ~JobLocked(j)
    /\ \/ /\ job[j].status # "running" \/ job[j].owner # w
          /\ Release(w)
          /\ UNCHANGED <<action, job>>
       \/ /\ job[j].status = "running" /\ job[j].owner = w
          /\ ~ActionLocked(a)
          /\ job[j].cancelReq
          /\ job' = [job EXCEPT ![j].attempts = @ + 1, ![j].status = "cancelled"]
          /\ WriteAction(a, "cancelled", action[a].version + 1)
          /\ Release(w)
       \/ /\ job[j].status = "running" /\ job[j].owner = w
          /\ ~ActionLocked(a)
          /\ ~job[j].cancelReq
          /\ worker' = [worker EXCEPT ![w].pc = "txn"]
          /\ UNCHANGED <<action, job>>
    /\ UNCHANGED <<policy, nJobs, snaps, external, request, faults>>

\* adapter.apply and adapter.rollback reach the provider before the commit.
\* Applying what is there, or reverting what is gone, changes nothing more.
CallProvider(w) ==
    LET j == worker[w].job
        a == job[j].action
    IN
    /\ worker[w].pc = "txn"
    /\ \/ /\ job[j].type = "execute"
          /\ external' = [external EXCEPT ![a] = IF @ = "absent" THEN "applied" ELSE @]
       \/ /\ job[j].type = "rollback"
          /\ external' = [external EXCEPT ![a] = IF @ = "applied" THEN "reverted" ELSE @]
    /\ worker' = [worker EXCEPT ![w].pc = "effect"]
    /\ UNCHANGED <<policy, action, job, nJobs, snaps, request, faults>>

Settled(j, status) ==
    [job[j] EXCEPT !.attempts = @ + 1, !.status = status, !.owner = None, !.live = TRUE]

\* Mutant of FinishExecute: no validation is put in the queue.
FinishWithoutValidation(w) ==
    LET j == worker[w].job
        a == job[j].action
    IN
    /\ worker[w].pc = "effect" /\ job[j].type = "execute"
    /\ job' = [job EXCEPT ![j] = Settled(j, "succeeded")]
    /\ snaps' = [snaps EXCEPT ![a] = @ + 1]
    /\ WriteAction(a, "validating", action[a].version + 2)
    /\ Release(w)
    /\ UNCHANGED <<policy, nJobs, external, request, faults>>

\* The execute job succeeds and puts its validation in the queue.  An active
\* validation of the same action makes the INSERT, and the transaction, fail:
\* nothing is written and the job keeps its lease.
FinishExecute(w) ==
    LET j == worker[w].job
        a == job[j].action
    IN
    /\ worker[w].pc = "effect" /\ job[j].type = "execute"
    /\ \/ /\ ActiveExists("validate", a)
          /\ UNCHANGED <<action, job, nJobs, snaps>>
       \/ /\ ~ActiveExists("validate", a)
          /\ IF KeyExists("validate", a, <<j, 0>>)
             THEN /\ job' = [job EXCEPT ![j] = Settled(j, "succeeded")]
                  /\ UNCHANGED nJobs
             ELSE /\ nJobs < MaxJobs
                  /\ nJobs' = nJobs + 1
                  /\ job' = [job EXCEPT ![j] = Settled(j, "succeeded"),
                                        ![nJobs + 1] = QueuedJob("validate", a, <<j, 0>>)]
          /\ snaps' = [snaps EXCEPT ![a] = @ + 1]
          /\ WriteAction(a, "validating", action[a].version + 2)
    /\ Release(w)
    /\ UNCHANGED <<policy, external, request, faults>>

\* Validation passes only if the provider still holds what was applied.
FinishValidate(w) ==
    LET j == worker[w].job
        a == job[j].action
    IN
    /\ worker[w].pc = "txn" /\ job[j].type = "validate"
    /\ snaps[a] > 0
    /\ external[a] = "applied"
    /\ job' = [job EXCEPT ![j] = Settled(j, "succeeded")]
    /\ WriteAction(a, "succeeded", action[a].version + 1)
    /\ Release(w)
    /\ UNCHANGED <<policy, nJobs, snaps, external, request, faults>>

FinishRollback(w) ==
    LET j == worker[w].job
        a == job[j].action
    IN
    /\ worker[w].pc = "effect" /\ job[j].type = "rollback"
    /\ snaps[a] > 0
    /\ job' = [job EXCEPT ![j] = Settled(j, "succeeded")]
    /\ WriteAction(a, "rolled_back", action[a].version + 2)
    /\ Release(w)
    /\ UNCHANGED <<policy, nJobs, snaps, external, request, faults>>

\* The exception path of process_execution_job commits what the attempt had
\* done so far together with its failure: started says that the attempt had
\* already written its first transition (and an execute job its snapshot).
StatusForRetry(type) ==
    CASE type = "execute" -> "execution_queued"
      [] type = "validate" -> "validating"
      [] type = "rollback" -> "rollback_queued"

\* Mutant of FailAttempt: the retry budget is off by one.
FailOneTooLate(w, retryable, started) ==
    LET j == worker[w].job
        a == job[j].action
        retry == retryable /\ job[j].attempts < MaxAttempts
    IN
    /\ InTransaction(w)
    /\ worker[w].pc = "effect" => started
    /\ job' = [job EXCEPT ![j] = [Settled(j, IF retry THEN "retry_wait" ELSE "failed")
                                     EXCEPT !.due = ~retry]]
    /\ WriteAction(a, IF retry THEN StatusForRetry(job[j].type) ELSE "failed",
                   action[a].version + 1)
    /\ snaps' = [snaps EXCEPT ![a] = IF started /\ job[j].type = "execute" THEN @ + 1 ELSE @]
    /\ Release(w)
    /\ UNCHANGED <<policy, nJobs, external, request, faults>>

FailAttempt(w, retryable, started) ==
    LET j == worker[w].job
        a == job[j].action
        retry == retryable /\ job[j].attempts + 1 < MaxAttempts
        steps == IF started /\ job[j].type # "validate" THEN 2 ELSE 1
    IN
    /\ InTransaction(w)
    /\ worker[w].pc = "effect" => started
    /\ job' = [job EXCEPT ![j] = [Settled(j, IF retry THEN "retry_wait" ELSE "failed")
                                     EXCEPT !.due = ~retry]]
    /\ WriteAction(a, IF retry THEN StatusForRetry(job[j].type) ELSE "failed",
                   action[a].version + steps)
    /\ snaps' = [snaps EXCEPT ![a] = IF started /\ job[j].type = "execute" THEN @ + 1 ELSE @]
    /\ Release(w)
    /\ UNCHANGED <<policy, nJobs, external, request, faults>>

\* A worker dies, or its transaction is rolled back: its locks and its writes
\* are gone, the lease stays in the row.
WorkerDies(w) ==
    /\ worker[w].pc # "idle"
    /\ faults < MaxFaults
    /\ faults' = faults + 1
    /\ Release(w)
    /\ UNCHANGED <<policy, action, job, nJobs, snaps, external, request>>
-----------------------------------------------------------------------------
\* Time.  A lease outlives the moment between claim and attempt unless the
\* worker stalls, which is a fault; behind the row lock its expiry is not seen.
LeaseExpires(j) ==
    LET stalled == \E w \in Workers : /\ worker[w] = [pc |-> "claimed", job |-> j]
                                      /\ job[j].owner = w
    IN
    /\ job[j].status = "running" /\ job[j].live /\ ~WorkerHolds(j)
    /\ stalled => faults < MaxFaults
    /\ faults' = IF stalled THEN faults + 1 ELSE faults
    /\ job' = [job EXCEPT ![j].live = FALSE]
    /\ UNCHANGED <<policy, action, nJobs, snaps, external, worker, request>>

BackoffEnds(j) ==
    /\ job[j].status = "retry_wait" /\ ~job[j].due
    /\ job' = [job EXCEPT ![j].due = TRUE]
    /\ UNCHANGED <<policy, action, nJobs, snaps, external, worker, request, faults>>
-----------------------------------------------------------------------------
HandlerStep(h) ==
    \/ \E a \in Actions, op \in Operations : ReadAction(h, a, op)
    \/ \E j \in JobIds : ReadJob(h, j)
    \/ ReadActionOfJob(h)
    \/ propose_action(h) \/ decide_approve(h) \/ decide_reject(h) \/ cancel_action(h)
    \/ enqueue_execution(h) \/ enqueue_rollback(h) \/ request_job_cancellation(h)
    \/ RequestFails(h)

AttemptStep(w) ==
    \/ BeginAttempt(w) \/ CallProvider(w)
    \/ FinishExecute(w) \/ FinishValidate(w) \/ FinishRollback(w)
    \/ \E retryable, started \in BOOLEAN : FailAttempt(w, retryable, started)

Claim(w) == \E j \in JobIds : claim_next_job(w, j)

Next ==
    \/ \E a \in Actions : create_action(a)
    \/ \E h \in Handlers : HandlerStep(h)
    \/ \E w \in Workers : \/ recover_expired_leases(w) \/ Claim(w)
                          \/ AttemptStep(w) \/ WorkerDies(w)
    \/ \E j \in JobIds : LeaseExpires(j) \/ BackoffEnds(j)

Spec == Init /\ [][Next]_vars

\* The scheduler starts a tick every few seconds, a tick recovers, then claims by
\* priority and age and processes; clocks advance.  Recovery and claims compete
\* for an idle worker and attempts for row locks, which PostgreSQL grants in
\* order, hence strong fairness.  Requests need not come and may fail, but one
\* that holds a row ends; faults get no fairness.
Fairness ==
    /\ SF_vars(\E w \in Workers : recover_expired_leases(w))
    /\ \A j \in JobIds : SF_vars(\E w \in Workers : claim_next_job(w, j))
    /\ \A w \in Workers : SF_vars(AttemptStep(w))
    /\ \A h \in Handlers : WF_vars(Flushed(h) /\ (request_job_cancellation(h) \/ RequestFails(h)))
    /\ \A j \in JobIds : WF_vars(LeaseExpires(j)) /\ WF_vars(BackoffEnds(j))

FairSpec == Spec /\ Fairness
-----------------------------------------------------------------------------
\* Safety.

Active(j) == job[j].status \in ACTIVE_JOB_STATUSES
Terminal(j) == job[j].status \in TERMINAL_JOB_STATUSES

\* A job that may still run has an attempt left, and no job uses more attempts
\* than execution_job_max_attempts, whatever crashes, stalls and cancellations
\* come between claim and commit.
AttemptBudget ==
    \A j \in JobIds : /\ job[j].attempts <= MaxAttempts
                      /\ Active(j) => job[j].attempts < MaxAttempts

\* While a worker is inside an attempt the job is running and leased by that
\* worker, even if the lease has run out: nobody recovers, cancels or claims it
\* under the row lock, and no two attempts touch the same action at a time.
ExclusiveAttempt ==
    \A w \in Workers : InTransaction(w) =>
        LET j == worker[w].job IN
        /\ job[j].status = "running" /\ job[j].owner = w
        /\ \A v \in Workers \ {w} :
              InTransaction(v) => job[worker[v].job].action # job[j].action

\* Only a running job is leased among those that may still run.
LeaseMatchesStatus ==
    \A j \in JobIds : Active(j) => (job[j].owner = None <=> job[j].status # "running")

\* Nothing reaches the queue or the provider for an action that was never
\* approved, or that policy blocks, however the handlers interleave.
GovernedEffect ==
    \A a \in Actions :
        (external[a] # "absent" \/ \E j \in JobIds : job[j].action = a)
            => action[a].approved /\ policy[a] # "blocked"

\* However often enqueues are repeated, reordered or computed from an old read,
\* an action is executed, validated and rolled back by one job each: approved
\* and succeeded are only ever reached at one version, so the keys coincide.
OneJobPerType ==
    \A j, k \in JobIds :
        /\ job[j].status # "absent" /\ job[k].status # "absent"
        /\ job[j].type = job[k].type /\ job[j].action = job[k].action
        => j = k

\* An execute job that succeeded has left its one validation in the queue, and
\* a validation always follows an execution that has ended.
ValidationFollowsExecution ==
    /\ \A j \in JobIds : job[j].type = "execute" /\ job[j].status = "succeeded" =>
          \E v \in JobIds : /\ job[v].type = "validate" /\ job[v].status # "absent"
                            /\ job[v].key = <<j, 0>> /\ job[v].action = job[j].action
    /\ \A v \in JobIds : job[v].type = "validate" /\ job[v].status # "absent" =>
          \E j \in JobIds : /\ job[j].type = "execute" /\ Terminal(j)
                            /\ job[v].key = <<j, 0>> /\ job[v].action = job[j].action

\* What validates or rolls back finds the "before" snapshot it needs, and an
\* action reported as succeeded can be rolled back: the effect was made, and
\* the snapshot that enqueue_rollback asks for is there.
SnapshotBeforeEffect ==
    /\ \A j \in JobIds : job[j].status # "absent" /\ job[j].type # "execute" =>
          snaps[job[j].action] > 0 /\ external[job[j].action] # "absent"
    /\ \A a \in Actions : action[a].status \in {"succeeded", "rolled_back"} =>
          snaps[a] > 0 /\ external[a] # "absent"

\* A job that has ended never becomes active again, although a late
\* cancellation may still rewrite how it ended; its attempts stay.
EndedJobsStayEnded ==
    [][\A j \in JobIds : Terminal(j) => Terminal(j)' /\ job'[j].attempts = job[j].attempts]_vars

\* The durable queue this module implements: a job waits while it is queued or
\* in backoff, and is done in any terminal status.
Phase(j) ==
    IF job[j].status = "absent" THEN "absent"
    ELSE IF job[j].status \in {"queued", "retry_wait"} THEN "waiting"
    ELSE IF job[j].status = "running" THEN "leased" ELSE "done"

Queue == INSTANCE DurableQueue WITH
    Tasks <- JobIds, Holders <- Workers, Budget <- MaxAttempts,
    phase <- [j \in JobIds |-> Phase(j)],
    holder <- [j \in JobIds |-> IF job[j].status = "running" THEN job[j].owner ELSE None],
    used <- [j \in JobIds |-> job[j].attempts]

\* Every step of the service is a step of the abstract queue, or none of it.
ImplementsDurableQueue == Queue!QSpec
-----------------------------------------------------------------------------
\* Liveness, under Fairness.

\* A lease is always given up: by its worker, or by recovery once it expired.
LeasesAreReleased ==
    \A j \in JobIds : job[j].status = "running" ~> job[j].status # "running"

\* A job nobody asked to cancel ends.
UncancelledJobsEnd ==
    \A j \in JobIds : Active(j) ~> (Terminal(j) \/ job[j].cancelReq)

\* What recovery, claims and settlements keep of a job, whatever they cross.
QueueInv == TypeOK /\ AttemptBudget /\ LeaseMatchesStatus

\* What the history of an action says is in order and complete, however requests
\* and workers race: each step once, after the one it rests on.
HistoryInOrder ==
    OneJobPerType /\ ValidationFollowsExecution /\ SnapshotBeforeEffect

\* Neither a lease nor a job is held for ever.
QueueDrains == LeasesAreReleased /\ UncancelledJobsEnd
=============================================================================
