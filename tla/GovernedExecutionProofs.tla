---------------------- MODULE GovernedExecutionProofs ----------------------
(*****************************************************************************)
(* Theorems about GovernedExecution, for every set of actions, workers and   *)
(* handlers and every bound, and about the policy that sets the mode of an   *)
(* action (ActionPolicy), for every score and number of pages.               *)
(*****************************************************************************)
EXTENDS GovernedExecution, ActionPolicy, TLAPS

\* Rows are inserted in order, and every row belongs to an action.
JobsInOrder ==
    \A j \in JobIds : /\ j > nJobs => job[j] = NoJob
                      /\ j <= nJobs => job[j].status # "absent" /\ job[j].action \in Actions

\* A busy worker has a job, and only what has an effect has called the provider.
WorkersFormed ==
    \A w \in Workers :
        /\ worker[w].pc # "idle" => worker[w].job \in 1..nJobs
        /\ worker[w].pc = "effect" => job[worker[w].job].type # "validate"

\* A request names the action it is about, or the job; a cancellation that has
\* locked its row finds no attempt on it.
RequestsFormed ==
    \A h \in Handlers :
        /\ request[h].op \notin {"none", "cancel_job"} => request[h].action \in Actions
        /\ request[h].op = "cancel_job" =>
              /\ request[h].job \in 1..nJobs
              /\ request[h].action \in {None, job[request[h].job].action}
              /\ request[h].action # None => ~WorkerHolds(request[h].job)

\* The inductive invariant behind the lease properties.
LeaseInv ==
    /\ TypeOK
    /\ JobsInOrder
    /\ WorkersFormed
    /\ RequestsFormed
    /\ AttemptBudget
    /\ ExclusiveAttempt
    /\ LeaseMatchesStatus
-----------------------------------------------------------------------------
LEMMA LeaseInvInit == Init => LeaseInv
  <1> SUFFICES ASSUME Init PROVE LeaseInv
    OBVIOUS
  <1> USE ConstantsAssumption DEF Init
  <1>1. TypeOK
    BY DEF TypeOK, Action, ActionStatuses, Job, NoJob, JobIds, Worker, Idle, Request, NoRequest,
           Modes, JobTypes, ACTIVE_JOB_STATUSES, TERMINAL_JOB_STATUSES
  <1>2. JobsInOrder
    BY DEF JobsInOrder, JobIds
  <1>3. WorkersFormed
    BY DEF WorkersFormed, Idle
  <1>4. RequestsFormed
    BY DEF RequestsFormed, NoRequest
  <1>5. AttemptBudget
    BY DEF AttemptBudget, Active, NoJob
  <1>6. ExclusiveAttempt
    BY DEF ExclusiveAttempt, InTransaction, Idle
  <1>7. LeaseMatchesStatus
    BY DEF LeaseMatchesStatus, Active, NoJob, ACTIVE_JOB_STATUSES
  <1> QED BY <1>1, <1>2, <1>3, <1>4, <1>5, <1>6, <1>7 DEF LeaseInv
-----------------------------------------------------------------------------
\* No worker enters an attempt in this step.
NoNewAttempts ==
    \A w \in Workers : InTransaction(w)' =>
        InTransaction(w) /\ worker'[w].job = worker[w].job

LEMMA HoldsKept ==
    ASSUME NoNewAttempts, NEW j, WorkerHolds(j)'
    PROVE  WorkerHolds(j)
  <1>1. PICK w \in Workers : InTransaction(w)' /\ worker'[w].job = j
    BY DEF WorkerHolds
  <1> QED BY <1>1 DEF NoNewAttempts, WorkerHolds

LEMMA SameWorkers ==
    ASSUME UNCHANGED worker
    PROVE  NoNewAttempts
  BY DEF NoNewAttempts, InTransaction

\* Steps that leave the jobs and the workers alone.
LEMMA ActionsOnly ==
    ASSUME LeaseInv,
           UNCHANGED <<policy, job, nJobs, snaps, external, worker, faults>>,
           action' \in [Actions -> Action],
           request' \in [Handlers -> Request], RequestsFormed'
    PROVE  LeaseInv'
  <1>1. TypeOK'
    BY DEF LeaseInv, TypeOK
  <1>2. JobsInOrder'
    BY DEF LeaseInv, JobsInOrder
  <1>3. WorkersFormed'
    BY DEF LeaseInv, WorkersFormed
  <1>4. AttemptBudget'
    BY DEF LeaseInv, AttemptBudget, Active
  <1>5. ExclusiveAttempt'
    BY DEF LeaseInv, ExclusiveAttempt, InTransaction
  <1>6. LeaseMatchesStatus'
    BY DEF LeaseInv, LeaseMatchesStatus, Active
  <1> QED BY <1>1, <1>2, <1>3, <1>4, <1>5, <1>6 DEF LeaseInv

LEMMA WriteActionType ==
    ASSUME TypeOK, NEW a, NEW status \in ActionStatuses, NEW version \in Nat
    PROVE  [action EXCEPT ![a].status = status, ![a].version = version] \in [Actions -> Action]
  BY DEF TypeOK, Action

LEMMA NoRequestType == NoRequest \in Request
  BY ConstantsAssumption DEF NoRequest, Request

LEMMA EndRequestForm ==
    ASSUME LeaseInv, NEW h \in Handlers, EndRequest(h), 
           nJobs' >= nJobs, nJobs' \in Nat,
           \A j \in 1..nJobs : job'[j].action = job[j].action,
           NoNewAttempts
    PROVE  request' \in [Handlers -> Request] /\ RequestsFormed'
  <1>1. request' \in [Handlers -> Request]
    BY NoRequestType DEF LeaseInv, TypeOK, EndRequest
  <1>2. RequestsFormed'
    <2> SUFFICES ASSUME NEW g \in Handlers
                 PROVE  /\ request'[g].op \notin {"none", "cancel_job"} =>
                              request'[g].action \in Actions
                        /\ request'[g].op = "cancel_job" =>
                              /\ request'[g].job \in 1..nJobs'
                              /\ request'[g].action \in {None, job'[request'[g].job].action}
                              /\ request'[g].action # None => ~WorkerHolds(request[g].job)'
      BY DEF RequestsFormed
    <2>1. CASE request'[g] = NoRequest
      BY <2>1 DEF NoRequest
    <2>2. CASE request'[g] = request[g]
      <3>1. WorkerHolds(request[g].job)' => WorkerHolds(request'[g].job)
        BY HoldsKept
      <3> QED BY <2>2, <3>1 DEF LeaseInv, TypeOK, RequestsFormed
    <2> QED BY <2>1, <2>2 DEF EndRequest, LeaseInv, TypeOK
  <1> QED BY <1>1, <1>2

LEMMA RequestWrites ==
    ASSUME LeaseInv, NEW h \in Handlers,
           propose_action(h) \/ decide_approve(h) \/ decide_reject(h) \/ cancel_action(h)
    PROVE  LeaseInv'
  <1>1. /\ EndRequest(h)
        /\ UNCHANGED <<policy, job, nJobs, snaps, external, worker, faults>>
    BY DEF propose_action, decide_approve, decide_reject, cancel_action, Commits
  <1>2. request' \in [Handlers -> Request] /\ RequestsFormed'
    BY <1>1, EndRequestForm, SameWorkers DEF LeaseInv, TypeOK
  <1>3. request[h].version \in Nat
    BY DEF LeaseInv, TypeOK, Request
  <1>4. action' \in [Actions -> Action]
    BY <1>3 DEF LeaseInv, TypeOK, Action, WriteAction, ActionStatuses, Modes,
                propose_action, decide_approve, decide_reject, cancel_action
  <1> QED BY <1>1, <1>2, <1>4, ActionsOnly

LEMMA CreateAction ==
    ASSUME LeaseInv, NEW a \in Actions, create_action(a)
    PROVE  LeaseInv'
  <1>1. action' \in [Actions -> Action]
    BY DEF LeaseInv, TypeOK, Action, WriteAction, ActionStatuses, create_action
  <1>2. RequestsFormed'
    BY DEF LeaseInv, create_action, RequestsFormed, WorkerHolds, InTransaction
  <1> QED BY <1>1, <1>2, ActionsOnly DEF create_action, LeaseInv, TypeOK

LEMMA RequestReads ==
    ASSUME LeaseInv, NEW h \in Handlers,
           \/ \E a \in Actions, op \in Operations : ReadAction(h, a, op)
           \/ \E j \in JobIds : ReadJob(h, j)
           \/ ReadActionOfJob(h) \/ RequestFails(h)
    PROVE  LeaseInv'
  <1>1. UNCHANGED <<policy, action, job, nJobs, snaps, external, worker, faults>>
    BY DEF ReadAction, ReadJob, ReadActionOfJob, RequestFails
  <1>2. CASE \E a \in Actions, op \in Operations : ReadAction(h, a, op)
    <2>1. PICK a \in Actions, op \in Operations : ReadAction(h, a, op)
      BY <1>2
    <2>2. op \notin {"none", "cancel_job"}
      BY <2>1 DEF ReadAction, Accepts, Operations
    <2>3. request' \in [Handlers -> Request]
      <3>1. action[a].version \in Nat /\ op \in Operations
        BY DEF LeaseInv, TypeOK, Action
      <3>2. [NoRequest EXCEPT !.op = op, !.action = a, !.version = action[a].version] \in Request
        BY <3>1, NoRequestType DEF Request
      <3> QED BY <2>1, <3>2 DEF LeaseInv, TypeOK, ReadAction
    <2>4. RequestsFormed'
      BY <2>1, <2>2 DEF LeaseInv, TypeOK, RequestsFormed, ReadAction, Request, NoRequest,
                        WorkerHolds, InTransaction
    <2> QED BY <1>1, <2>3, <2>4, ActionsOnly DEF LeaseInv, TypeOK
  <1>3. CASE \E j \in JobIds : ReadJob(h, j)
    <2>1. PICK j \in JobIds : ReadJob(h, j)
      BY <1>3
    <2>2. j \in 1..MaxJobs /\ MaxJobs \in Nat
      BY <2>1, ConstantsAssumption DEF JobIds
    <2>3. job[j].status \in ACTIVE_JOB_STATUSES
      BY <2>1 DEF ReadJob
    <2>4. j \in 1..nJobs
      BY <2>2, <2>3
         DEF LeaseInv, TypeOK, JobsInOrder, NoJob, JobIds, ACTIVE_JOB_STATUSES
    <2>5. request' \in [Handlers -> Request]
      <3>1. j \in 0..MaxJobs /\ job[j].status \in ACTIVE_JOB_STATUSES
        BY <2>2, <2>3
      <3>2. [NoRequest EXCEPT !.op = "cancel_job", !.job = j, !.jobStatus = job[j].status]
               \in Request
        BY <3>1, NoRequestType DEF Request, Operations
      <3> QED BY <2>1, <3>2 DEF LeaseInv, TypeOK, ReadJob
    <2>6. RequestsFormed'
      BY <2>1, <2>4 DEF LeaseInv, TypeOK, RequestsFormed, ReadJob, Request, NoRequest,
                        WorkerHolds, InTransaction
    <2> QED BY <1>1, <2>5, <2>6, ActionsOnly DEF LeaseInv, TypeOK
  <1>4. CASE ReadActionOfJob(h)
    <2>1. request[h].op = "cancel_job" /\ request[h].job \in 1..nJobs
      BY <1>4 DEF LeaseInv, ReadActionOfJob, RequestsFormed
    <2>2. job[request[h].job].action \in Actions
      BY <2>1, ConstantsAssumption DEF LeaseInv, TypeOK, JobsInOrder, JobIds
    <2> DEFINE a == job[request[h].job].action
               r == [request[h] EXCEPT !.action = a, !.version = action[a].version]
    <2>3. a \in Actions /\ action[a].version \in Nat
      BY <2>2 DEF LeaseInv, TypeOK, Action
    <2>4. r \in Request /\ r.op = "cancel_job" /\ r.job = request[h].job /\ r.action = a
      BY <2>1, <2>3 DEF LeaseInv, TypeOK, Request
    <2>5. request' = [request EXCEPT ![h] = r]
      BY <1>4 DEF ReadActionOfJob, LeaseInv, TypeOK, Request
    <2>6. request' \in [Handlers -> Request]
      BY <2>4, <2>5 DEF LeaseInv, TypeOK
    <2>7. UNCHANGED <<job, nJobs, worker>>
      BY <1>4 DEF ReadActionOfJob
    <2>8. ~WorkerHolds(request[h].job)
      BY <1>4 DEF ReadActionOfJob, JobLocked
    <2>9. request'[h] = r /\ \A k \in Handlers \ {h} : request'[k] = request[k]
      BY <2>5 DEF LeaseInv, TypeOK
    <2>10. \A j : WorkerHolds(j)' <=> WorkerHolds(j)
      BY <2>7 DEF WorkerHolds, InTransaction
    <2>11. ASSUME NEW k \in Handlers
           PROVE  (/\ request[k].op \notin {"none", "cancel_job"} => request[k].action \in Actions
                   /\ request[k].op = "cancel_job" =>
                        /\ request[k].job \in 1..nJobs
                        /\ request[k].action \in {None, job[request[k].job].action}
                        /\ request[k].action # None => ~WorkerHolds(request[k].job))'
      <3>1. CASE k = h
        BY <3>1, <2>1, <2>4, <2>7, <2>8, <2>9, <2>10
      <3>2. CASE k # h
        BY <3>2, <2>7, <2>9, <2>10 DEF LeaseInv, RequestsFormed
      <3> QED BY <3>1, <3>2
    <2>12. RequestsFormed'
      BY <2>11 DEF RequestsFormed
    <2> QED BY <1>1, <2>6, <2>12, ActionsOnly DEF LeaseInv, TypeOK
  <1>5. CASE RequestFails(h)
    <2>1. request' \in [Handlers -> Request] /\ RequestsFormed'
      BY <1>5, EndRequestForm, SameWorkers DEF RequestFails, LeaseInv, TypeOK
    <2> QED BY <1>1, <2>1, ActionsOnly DEF LeaseInv, TypeOK
  <1> QED BY <1>2, <1>3, <1>4, <1>5
-----------------------------------------------------------------------------
\* Steps that change jobs.

RowOK(r) ==
    /\ r.attempts <= MaxAttempts
    /\ r.status \in ACTIVE_JOB_STATUSES =>
          r.attempts < MaxAttempts /\ (r.owner = None <=> r.status # "running")

LEMMA RowsOK ==
    LeaseInv => \A j \in JobIds : RowOK(job[j])
  BY DEF LeaseInv, AttemptBudget, LeaseMatchesStatus, Active, RowOK

\* A job that exists goes on to be a job of the same kind and action.
SameJob(r, s) == r.type = s.type /\ r.action = s.action /\ r.status # "absent"

NewJob(r) ==
    /\ r.action \in Actions /\ r.status = "queued"
    /\ r.attempts = 0 /\ r.owner = None

\* The parts of the state that only TypeOK speaks about.
DataStep ==
    /\ policy' = policy
    /\ action' \in [Actions -> Action]
    /\ snaps' \in [Actions -> Nat]
    /\ external' \in [Actions -> {"absent", "applied", "reverted"}]
    /\ faults' \in 0..MaxFaults

RequestsStep == request' = request \/ \E h \in Handlers : EndRequest(h)

WorkersStep ==
    /\ worker' \in [Workers -> Worker]
    /\ WorkersFormed'
    /\ NoNewAttempts

\* Old rows stay what they are, rows of workers inside an attempt stay leased
\* by them, and new rows are queued jobs.
JobsStep ==
    /\ job' \in [JobIds -> Job]
    /\ nJobs' \in nJobs..MaxJobs
    /\ \A k \in JobIds : k <= nJobs => SameJob(job'[k], job[k]) /\ RowOK(job'[k])
    /\ \A k \in JobIds : nJobs < k /\ k <= nJobs' => NewJob(job'[k])
    /\ \A k \in JobIds : k > nJobs' => job'[k] = job[k]
    /\ \A w \in Workers : InTransaction(w)' =>
          /\ job'[worker[w].job].status = "running"
          /\ job'[worker[w].job].owner = w

LEMMA JobStep ==
    ASSUME LeaseInv, DataStep, RequestsStep, WorkersStep, JobsStep
    PROVE  LeaseInv'
  <1>1. nJobs \in Nat /\ nJobs' \in Nat /\ nJobs <= nJobs' /\ nJobs' \in 0..MaxJobs
    BY ConstantsAssumption DEF LeaseInv, TypeOK, JobsStep
  <1>2. \A j \in 1..nJobs : j \in JobIds /\ job'[j].action = job[j].action
    BY <1>1, ConstantsAssumption DEF JobsStep, SameJob, JobIds
  <1>3. request' \in [Handlers -> Request] /\ RequestsFormed'
    <2>1. CASE request' = request
      <3>1. \A h \in Handlers : WorkerHolds(request[h].job)' => WorkerHolds(request[h].job)
        BY <2>1, HoldsKept DEF WorkersStep, NoNewAttempts
      <3> QED BY <1>1, <1>2, <2>1, <3>1 DEF LeaseInv, TypeOK, RequestsFormed
    <2>2. CASE \E h \in Handlers : EndRequest(h)
      BY <1>1, <1>2, <2>2, EndRequestForm DEF WorkersStep, NoNewAttempts
    <2> QED BY <2>1, <2>2 DEF RequestsStep
  <1>4. TypeOK'
    BY <1>1, <1>3 DEF LeaseInv, TypeOK, DataStep, WorkersStep, JobsStep
  <1>5. JobsInOrder'
    <2> SUFFICES ASSUME NEW j \in JobIds
                 PROVE  /\ j > nJobs' => job'[j] = NoJob
                        /\ j <= nJobs' => job'[j].status # "absent" /\ job'[j].action \in Actions
      BY DEF JobsInOrder, JobIds
    <2>1. j \in Nat
      BY ConstantsAssumption DEF JobIds
    <2>2. CASE j > nJobs'
      BY <1>1, <2>1, <2>2 DEF JobsStep, LeaseInv, JobsInOrder
    <2>3. CASE j <= nJobs
      BY <1>1, <2>1, <2>3 DEF JobsStep, LeaseInv, JobsInOrder, SameJob
    <2>4. CASE nJobs < j /\ j <= nJobs'
      BY <1>1, <2>1, <2>4 DEF JobsStep, NewJob
    <2> QED BY <1>1, <2>1, <2>2, <2>3, <2>4
  <1>6. \A j \in JobIds : RowOK(job'[j])
    <2> SUFFICES ASSUME NEW j \in JobIds PROVE RowOK(job'[j])
      OBVIOUS
    <2>1. j \in Nat
      BY ConstantsAssumption DEF JobIds
    <2>2. CASE j > nJobs'
      BY <1>1, <2>1, <2>2, RowsOK DEF JobsStep
    <2>3. CASE j <= nJobs
      BY <1>1, <2>1, <2>3 DEF JobsStep
    <2>4. CASE nJobs < j /\ j <= nJobs'
      BY <1>1, <2>1, <2>4, ConstantsAssumption DEF JobsStep, NewJob, RowOK
    <2> QED BY <1>1, <2>1, <2>2, <2>3, <2>4
  <1>7. AttemptBudget' /\ LeaseMatchesStatus'
    BY <1>6 DEF AttemptBudget, LeaseMatchesStatus, Active, RowOK, JobIds
  <1>8. ExclusiveAttempt'
    <2> SUFFICES ASSUME NEW w \in Workers, InTransaction(w)'
                 PROVE  /\ job'[worker'[w].job].status = "running"
                        /\ job'[worker'[w].job].owner = w
                        /\ \A v \in Workers \ {w} : InTransaction(v)' =>
                              job'[worker'[v].job].action # job'[worker'[w].job].action
      BY DEF ExclusiveAttempt
    <2>1. \A v \in Workers : InTransaction(v)' =>
             /\ InTransaction(v) /\ worker'[v].job = worker[v].job
             /\ worker[v].job \in 1..nJobs
      BY DEF WorkersStep, NoNewAttempts, LeaseInv, WorkersFormed, InTransaction
    <2>2. \A v \in Workers : InTransaction(v)' =>
             job'[worker'[v].job].action = job[worker[v].job].action
      BY <2>1, <1>2
    <2> QED BY <2>1, <2>2 DEF JobsStep, LeaseInv, ExclusiveAttempt
  <1> QED BY <1>3, <1>4, <1>5, <1>7, <1>8 DEF LeaseInv, WorkersStep

\* One row changes, and what changes keeps the row well formed.
LEMMA RowStep ==
    ASSUME LeaseInv, DataStep, RequestsStep, WorkersStep,
           NEW j \in 1..nJobs, NEW r \in Job,
           SameJob(r, job[j]), RowOK(r),
           job' = [job EXCEPT ![j] = r], nJobs' = nJobs,
           \A w \in Workers : InTransaction(w)' /\ worker[w].job = j =>
              r.status = "running" /\ r.owner = w
    PROVE  LeaseInv'
  <1>1. j \in JobIds /\ job \in [JobIds -> Job] /\ nJobs \in 0..MaxJobs
    BY ConstantsAssumption DEF LeaseInv, TypeOK, JobIds
  <1>2. \A k \in JobIds : k <= nJobs => SameJob(job[k], job[k])
    BY DEF LeaseInv, JobsInOrder, SameJob
  <1>3. \A w \in Workers : InTransaction(w)' =>
           job'[worker[w].job].status = "running" /\ job'[worker[w].job].owner = w
    BY <1>1, ConstantsAssumption
       DEF WorkersStep, NoNewAttempts, LeaseInv, WorkersFormed, InTransaction,
           ExclusiveAttempt, JobIds
  <1>4. JobsStep
    BY <1>1, <1>2, <1>3, RowsOK, ConstantsAssumption DEF JobsStep, JobIds
  <1> QED BY <1>4, JobStep
-----------------------------------------------------------------------------
\* The handlers that change jobs.

LEMMA WorkersIdleStep ==
    LeaseInv /\ nJobs' \in nJobs..MaxJobs
      /\ (\A k \in 1..nJobs : job'[k].type = job[k].type)
      /\ (worker' = worker \/ \E w \in Workers : Release(w))
    => WorkersStep
  <1> SUFFICES ASSUME LeaseInv, nJobs' \in nJobs..MaxJobs,
                      \A k \in 1..nJobs : job'[k].type = job[k].type,
                      worker' = worker \/ \E w \in Workers : Release(w)
               PROVE  WorkersStep
    OBVIOUS
  <1>1. nJobs \in Nat /\ nJobs' \in Nat /\ nJobs <= nJobs'
    BY ConstantsAssumption DEF LeaseInv, TypeOK
  <1>2. Idle \in Worker
    BY ConstantsAssumption DEF Idle, Worker
  <1>3. worker' \in [Workers -> Worker]
    BY <1>2 DEF LeaseInv, TypeOK, Release
  <1>4. \A w \in Workers : worker'[w] = worker[w] \/ worker'[w] = Idle
    BY DEF LeaseInv, TypeOK, Release
  <1>5. WorkersFormed'
    BY <1>1, <1>4 DEF LeaseInv, WorkersFormed, Idle
  <1>6. \A w \in Workers : InTransaction(w)' => InTransaction(w) /\ worker'[w].job = worker[w].job
    BY <1>4 DEF InTransaction, Idle
  <1> QED BY <1>3, <1>5, <1>6 DEF WorkersStep, NoNewAttempts

LEMMA QueuedJobNew ==
    ASSUME NEW type \in JobTypes, NEW a \in Actions, NEW key \in Nat \X Nat
    PROVE  LET r == QueuedJob(type, a, key)
           IN  r \in Job /\ NewJob(r) /\ r.type = type
  <1>1. NoJob \in Job
    BY ConstantsAssumption DEF NoJob, Job, JobTypes
  <1>2. QueuedJob(type, a, key) \in Job
    BY <1>1 DEF QueuedJob, Job, ACTIVE_JOB_STATUSES
  <1> QED BY <1>2 DEF QueuedJob, NoJob, NewJob

LEMMA EnqueueKeeps ==
    ASSUME LeaseInv, NEW h \in Handlers, enqueue_execution(h) \/ enqueue_rollback(h)
    PROVE  LeaseInv'
  <1> DEFINE a == request[h].action
  <1>1. a \in Actions /\ request[h].version \in Nat /\ snaps[a] \in Nat
    <2>1. a \in Actions
      BY DEF LeaseInv, RequestsFormed, enqueue_execution, enqueue_rollback, Commits
    <2> QED BY <2>1 DEF LeaseInv, TypeOK, Request
  <1>2. /\ UNCHANGED <<policy, snaps, external, worker, faults>>
        /\ EndRequest(h)
    BY DEF enqueue_execution, enqueue_rollback, Commits
  <1>3. RequestsStep
    BY <1>2 DEF RequestsStep
  <1>4. CASE UNCHANGED <<job, nJobs, action>>
    <2>1. request' \in [Handlers -> Request] /\ RequestsFormed'
      BY <1>2, <1>4, EndRequestForm, SameWorkers DEF LeaseInv, TypeOK
    <2> QED BY <1>2, <1>4, <2>1, ActionsOnly DEF LeaseInv, TypeOK
  <1>5. ASSUME NEW type \in JobTypes, NEW key \in Nat \X Nat, NEW status \in ActionStatuses,
               nJobs < MaxJobs, nJobs' = nJobs + 1,
               job' = [job EXCEPT ![nJobs + 1] = QueuedJob(type, a, key)],
               WriteAction(a, status, request[h].version + 1)
        PROVE  LeaseInv'
    <2>1. nJobs + 1 \in JobIds /\ nJobs \in Nat /\ job \in [JobIds -> Job]
      BY <1>5, ConstantsAssumption DEF LeaseInv, TypeOK, JobIds
    <2>2. DataStep
      <3>1. action' \in [Actions -> Action]
        BY <1>1, <1>5 DEF LeaseInv, TypeOK, WriteAction, Action
      <3> QED BY <1>2, <3>1 DEF DataStep, LeaseInv, TypeOK
    <2>3. \A k \in JobIds : k \in Nat
      BY ConstantsAssumption DEF JobIds
    <2>4. \A k \in JobIds : k # nJobs + 1 => job'[k] = job[k]
      BY <1>5, <2>1
    <2>5. job'[nJobs + 1] = QueuedJob(type, a, key)
      BY <1>5, <2>1
    <2>6. job' \in [JobIds -> Job] /\ NewJob(job'[nJobs + 1])
      BY <1>1, <1>5, <2>1, <2>5, QueuedJobNew
    <2>7. nJobs' \in nJobs..MaxJobs
      BY <1>5, <2>1, ConstantsAssumption
    <2>8. WorkersStep
      BY <1>2, <1>5, <2>1, <2>3, <2>4, <2>7, WorkersIdleStep, ConstantsAssumption DEF JobIds
    <2>9. \A w \in Workers : InTransaction(w)' =>
             job'[worker[w].job].status = "running" /\ job'[worker[w].job].owner = w
      <3> SUFFICES ASSUME NEW w \in Workers, InTransaction(w)'
                   PROVE  job'[worker[w].job].status = "running" /\ job'[worker[w].job].owner = w
        OBVIOUS
      <3>1. InTransaction(w) /\ worker[w].job \in 1..nJobs
        BY <2>8 DEF WorkersStep, NoNewAttempts, LeaseInv, WorkersFormed, InTransaction
      <3>2. job'[worker[w].job] = job[worker[w].job]
        BY <2>1, <2>4, <3>1, ConstantsAssumption DEF JobIds
      <3> QED BY <3>1, <3>2 DEF LeaseInv, ExclusiveAttempt
    <2>10. \A k \in JobIds : k <= nJobs => SameJob(job'[k], job[k]) /\ RowOK(job'[k])
      BY <2>1, <2>3, <2>4, RowsOK DEF LeaseInv, JobsInOrder, SameJob
    <2>11. \A k \in JobIds : /\ nJobs < k /\ k <= nJobs' => NewJob(job'[k])
                             /\ k > nJobs' => job'[k] = job[k]
      BY <1>5, <2>1, <2>3, <2>4, <2>6
    <2>12. JobsStep
      BY <2>6, <2>7, <2>9, <2>10, <2>11 DEF JobsStep
    <2> QED BY <1>3, <2>2, <2>8, <2>12, JobStep
  <1>6. CASE enqueue_execution(h)
    <2>1. Enqueue(h, "execute", <<request[h].version, 0>>, "execution_queued")
      BY <1>6 DEF enqueue_execution
    <2> QED BY <1>1, <1>4, <1>5, <2>1 DEF Enqueue, JobTypes, ActionStatuses
  <1>7. CASE enqueue_rollback(h)
    <2>1. \/ UNCHANGED <<job, nJobs, action>>
          \/ Enqueue(h, "rollback", <<request[h].version, snaps[a]>>, "rollback_queued")
      BY <1>7 DEF enqueue_rollback
    <2> QED BY <1>1, <1>4, <1>5, <2>1 DEF Enqueue, JobTypes, ActionStatuses
  <1> QED BY <1>6, <1>7

LEMMA JobRow ==
    ASSUME LeaseInv, NEW j \in 1..nJobs
    PROVE  /\ j \in JobIds /\ job[j] \in Job /\ RowOK(job[j]) /\ SameJob(job[j], job[j])
           /\ job[j].action \in Actions
           /\ action[job[j].action].version \in Nat
           /\ snaps[job[j].action] \in Nat
  <1>1. j \in JobIds /\ j \in Nat /\ nJobs \in Nat
    BY ConstantsAssumption DEF LeaseInv, TypeOK, JobIds
  <1>2. job[j].action \in Actions /\ job[j].status # "absent"
    BY <1>1 DEF LeaseInv, JobsInOrder
  <1> QED BY <1>1, <1>2, RowsOK DEF LeaseInv, TypeOK, SameJob, Action

LEMMA CancellationKeeps ==
    ASSUME LeaseInv, NEW h \in Handlers, request_job_cancellation(h)
    PROVE  LeaseInv'
  <1> DEFINE j == request[h].job
  <1>1. /\ j \in 1..nJobs
        /\ request[h].action = job[j].action
        /\ request[h].version \in Nat
        /\ ~WorkerHolds(j)
    BY DEF LeaseInv, TypeOK, Request, RequestsFormed, request_job_cancellation, Flushed
  <1>2. /\ j \in JobIds /\ job[j] \in Job /\ RowOK(job[j])
        /\ SameJob(job[j], job[j]) /\ job[j].action \in Actions
    BY <1>1, JobRow
  <1>3. RequestsStep
    BY DEF RequestsStep, request_job_cancellation
  <1>4. nJobs' \in nJobs..MaxJobs /\ nJobs' = nJobs /\ worker' = worker
    BY ConstantsAssumption DEF LeaseInv, TypeOK, request_job_cancellation
  <1>5. \A w \in Workers : InTransaction(w)' /\ worker[w].job = j => FALSE
    BY <1>1, <1>4 DEF WorkerHolds, InTransaction
  <1>6. ASSUME NEW r \in Job, job' = [job EXCEPT ![j] = r], SameJob(r, job[j]), RowOK(r),
               DataStep
        PROVE  LeaseInv'
    <2>1. \A k \in 1..nJobs : job'[k].type = job[k].type
      BY <1>2, <1>6, ConstantsAssumption DEF LeaseInv, TypeOK, SameJob, JobIds
    <2>2. WorkersStep
      BY <1>4, <2>1, WorkersIdleStep
    <2> QED BY <1>1, <1>3, <1>4, <1>5, <1>6, <2>2, RowStep
  <1>7. CASE request[h].jobStatus = "running"
    <2> DEFINE r == [job[j] EXCEPT !.cancelReq = TRUE]
    <2>1. job' = [job EXCEPT ![j] = r] /\ DataStep
      BY <1>2, <1>7 DEF request_job_cancellation, DataStep, LeaseInv, TypeOK, Job
    <2>2. r \in Job /\ SameJob(r, job[j]) /\ RowOK(r)
      BY <1>2 DEF Job, SameJob, RowOK
    <2> QED BY <1>6, <2>1, <2>2
  <1>8. CASE request[h].jobStatus # "running"
    <2> DEFINE r == [job[j] EXCEPT !.cancelReq = TRUE, !.status = "cancelled"]
    <2>1. /\ job' = [job EXCEPT ![j] = r]
          /\ WriteAction(request[h].action, "cancelled", request[h].version + 1)
      BY <1>2, <1>8 DEF request_job_cancellation, LeaseInv, TypeOK, Job
    <2>2. DataStep
      <3>1. action' \in [Actions -> Action]
        <4>1. "cancelled" \in ActionStatuses /\ request[h].version + 1 \in Nat
          BY <1>1 DEF ActionStatuses
        <4> QED BY <2>1, <4>1, WriteActionType DEF LeaseInv, WriteAction
      <3> QED BY <3>1 DEF request_job_cancellation, DataStep, LeaseInv, TypeOK
    <2>3. r \in Job /\ SameJob(r, job[j]) /\ RowOK(r)
      BY <1>2 DEF Job, SameJob, RowOK, ACTIVE_JOB_STATUSES, TERMINAL_JOB_STATUSES
    <2> QED BY <1>6, <2>1, <2>2, <2>3
  <1> QED BY <1>7, <1>8
-----------------------------------------------------------------------------
\* Workers and time.

LEMMA WorkerJob ==
    ASSUME LeaseInv, NEW w \in Workers, worker[w].pc # "idle"
    PROVE  worker[w].job \in 1..nJobs
  BY DEF LeaseInv, WorkersFormed

\* The job of an attempt is running, has an attempt left, and is nobody else's.
LEMMA AttemptFacts ==
    ASSUME LeaseInv, NEW w \in Workers, InTransaction(w)
    PROVE  LET j == worker[w].job IN
           /\ j \in 1..nJobs
           /\ job[j].status = "running" /\ job[j].owner = w
           /\ job[j].attempts + 1 \in 0..MaxAttempts
           /\ \A v \in Workers \ {w} : InTransaction(v) => worker[v].job # j
  <1> DEFINE j == worker[w].job
  <1>1. j \in 1..nJobs
    BY WorkerJob DEF InTransaction
  <1>2. job[j].status = "running" /\ job[j].owner = w
    BY DEF LeaseInv, ExclusiveAttempt
  <1>3. job[j].attempts \in 0..MaxAttempts /\ RowOK(job[j])
    BY <1>1, JobRow DEF Job
  <1>4. job[j].attempts + 1 \in 0..MaxAttempts
    BY <1>2, <1>3, ConstantsAssumption DEF RowOK, ACTIVE_JOB_STATUSES
  <1>5. \A v \in Workers \ {w} : InTransaction(v) => worker[v].job # j
    BY DEF LeaseInv, ExclusiveAttempt
  <1> QED BY <1>1, <1>2, <1>4, <1>5

LEMMA RecoverKeeps ==
    ASSUME LeaseInv, NEW w \in Workers, recover_expired_leases(w)
    PROVE  LeaseInv'
  <1>1. UNCHANGED <<policy, action, nJobs, snaps, external, worker, request, faults>>
    BY DEF recover_expired_leases
  <1>2. /\ DataStep /\ RequestsStep
    BY <1>1 DEF DataStep, RequestsStep, LeaseInv, TypeOK
  <1>3. nJobs \in Nat /\ nJobs' \in nJobs..MaxJobs /\ \A k \in JobIds : k \in Nat
    BY <1>1, ConstantsAssumption DEF LeaseInv, TypeOK, JobIds
  <1>4. \A k \in JobIds : k \notin Expired => job'[k] = job[k]
    BY DEF recover_expired_leases
  <1>5. \A k \in JobIds : k > nJobs => k \notin Expired
    BY <1>3 DEF LeaseInv, JobsInOrder, Expired, NoJob
  <1>6. ASSUME NEW k \in JobIds, k \in Expired
        PROVE  job'[k] \in Job /\ SameJob(job'[k], job[k]) /\ RowOK(job'[k])
    <2>1. job'[k] = [job[k] EXCEPT
                        !.owner = None, !.live = TRUE, !.due = TRUE,
                        !.status = IF job[k].attempts >= MaxAttempts
                                   THEN "failed" ELSE "retry_wait"]
      BY <1>6 DEF recover_expired_leases
    <2>2. job[k] \in Job /\ RowOK(job[k])
      BY RowsOK DEF LeaseInv, TypeOK
    <2>3. job'[k] \in Job /\ SameJob(job'[k], job[k])
      BY <2>1, <2>2 DEF Job, SameJob, ACTIVE_JOB_STATUSES, TERMINAL_JOB_STATUSES
    <2>4. RowOK(job'[k])
      BY <2>1, <2>2, ConstantsAssumption DEF Job, RowOK, ACTIVE_JOB_STATUSES
    <2> QED BY <2>3, <2>4
  <1>7. \A k \in JobIds : k <= nJobs => SameJob(job[k], job[k])
    BY DEF LeaseInv, JobsInOrder, SameJob
  <1>8. WorkersStep
    <2>1. \A k \in 1..nJobs : job'[k].type = job[k].type
      BY <1>3, <1>4, <1>6, ConstantsAssumption DEF SameJob, JobIds, LeaseInv, TypeOK
    <2> QED BY <1>1, <1>3, <2>1, WorkersIdleStep
  <1>9. \A v \in Workers : InTransaction(v)' =>
           job'[worker[v].job].status = "running" /\ job'[worker[v].job].owner = v
    <2> SUFFICES ASSUME NEW v \in Workers, InTransaction(v)'
                 PROVE  job'[worker[v].job].status = "running" /\ job'[worker[v].job].owner = v
      OBVIOUS
    <2>1. InTransaction(v) /\ worker[v].job \in JobIds
      BY <1>8, AttemptFacts, JobRow DEF WorkersStep, NoNewAttempts
    <2>2. worker[v].job \notin Expired
      BY <2>1 DEF Expired, JobLocked, WorkerHolds
    <2> QED BY <1>4, <2>1, <2>2 DEF LeaseInv, ExclusiveAttempt
  <1>10. job' \in [JobIds -> Job]
    <2>1. \A k \in JobIds : job'[k] \in Job
      BY <1>4, <1>6 DEF LeaseInv, TypeOK
    <2> QED BY <2>1 DEF recover_expired_leases
  <1>11. JobsStep
    BY <1>1, <1>3, <1>4, <1>5, <1>6, <1>7, <1>9, <1>10, RowsOK DEF JobsStep
  <1> QED BY <1>2, <1>8, <1>11, JobStep

LEMMA ClaimKeeps ==
    ASSUME LeaseInv, NEW w \in Workers, NEW j \in JobIds, claim_next_job(w, j)
    PROVE  LeaseInv'
  <1> DEFINE r == [job[j] EXCEPT !.status = "running", !.owner = w, !.live = TRUE]
             x == [pc |-> "claimed", job |-> j]
  <1>1. UNCHANGED <<policy, action, nJobs, snaps, external, request, faults>>
    BY DEF claim_next_job
  <1>2. DataStep /\ RequestsStep
    BY <1>1 DEF DataStep, RequestsStep, LeaseInv, TypeOK
  <1>3. j \in 1..nJobs
    BY ConstantsAssumption
       DEF claim_next_job, Claimable, LeaseInv, TypeOK, JobsInOrder, NoJob, JobIds
  <1>4. job[j] \in Job /\ RowOK(job[j]) /\ SameJob(job[j], job[j])
    BY <1>3, JobRow
  <1>5. job' = [job EXCEPT ![j] = r]
    BY <1>4 DEF claim_next_job, LeaseInv, TypeOK, Job
  <1>6. r \in Job /\ SameJob(r, job[j])
    BY <1>4 DEF Job, SameJob, ACTIVE_JOB_STATUSES
  <1>7. RowOK(r)
    BY <1>4, ConstantsAssumption DEF Job, RowOK, ACTIVE_JOB_STATUSES, claim_next_job, Claimable
  <1>8. /\ worker' = [worker EXCEPT ![w] = x] /\ x \in Worker
        /\ worker' \in [Workers -> Worker]
    <2>1. x \in Worker
      BY <1>3, ConstantsAssumption DEF Worker, JobIds
    <2> QED BY <2>1 DEF claim_next_job, LeaseInv, TypeOK
  <1>9. \A v \in Workers : worker'[v] = worker[v] \/ worker'[v] = x
    BY <1>8 DEF LeaseInv, TypeOK
  <1>10. \A k \in 1..nJobs : job'[k].type = job[k].type
    BY <1>5, <1>6, ConstantsAssumption DEF LeaseInv, TypeOK, JobIds, SameJob
  <1>11. WorkersFormed'
    BY <1>1, <1>3, <1>9, <1>10 DEF LeaseInv, WorkersFormed
  <1>12. WorkersStep
    BY <1>8, <1>9, <1>11 DEF WorkersStep, NoNewAttempts, InTransaction
  <1>13. \A v \in Workers : InTransaction(v)' /\ worker[v].job = j => FALSE
    BY <1>12 DEF WorkersStep, NoNewAttempts, claim_next_job, Claimable, JobLocked, WorkerHolds
  <1> QED BY <1>1, <1>2, <1>3, <1>5, <1>6, <1>7, <1>12, <1>13, RowStep

\* What the steps that release a worker have in common.
LEMMA ReleasingRow ==
    ASSUME LeaseInv, DataStep, request' = request, nJobs' = nJobs,
           NEW w \in Workers, Release(w), NEW j \in 1..nJobs, NEW r \in Job,
           SameJob(r, job[j]), RowOK(r), job' = [job EXCEPT ![j] = r],
           \A v \in Workers \ {w} : InTransaction(v) => worker[v].job # j
    PROVE  LeaseInv'
  <1>1. nJobs' \in nJobs..MaxJobs
    BY ConstantsAssumption DEF LeaseInv, TypeOK
  <1>2. \A k \in 1..nJobs : job'[k].type = job[k].type
    BY ConstantsAssumption DEF LeaseInv, TypeOK, JobIds, SameJob
  <1>3. WorkersStep
    BY <1>1, <1>2, WorkersIdleStep
  <1>4. ~InTransaction(w)'
    BY DEF Release, InTransaction, Idle, LeaseInv, TypeOK
  <1>5. \A v \in Workers : InTransaction(v)' /\ worker[v].job = j => FALSE
    BY <1>3, <1>4 DEF WorkersStep, NoNewAttempts
  <1> QED BY <1>3, <1>5, RowStep DEF RequestsStep

\* ... and of those that change no job at all.
LEMMA SameRows ==
    ASSUME LeaseInv, DataStep, RequestsStep, WorkersStep, UNCHANGED <<job, nJobs>>
    PROVE  LeaseInv'
  <1>1. nJobs' \in nJobs..MaxJobs /\ nJobs \in Nat /\ \A k \in JobIds : k \in Nat
    BY ConstantsAssumption DEF LeaseInv, TypeOK, JobIds
  <1>2. \A k \in JobIds : k <= nJobs => SameJob(job[k], job[k])
    BY DEF LeaseInv, JobsInOrder, SameJob
  <1>3. \A v \in Workers : InTransaction(v)' =>
           job'[worker[v].job].status = "running" /\ job'[worker[v].job].owner = v
    BY DEF WorkersStep, NoNewAttempts, LeaseInv, ExclusiveAttempt
  <1>4. job' \in [JobIds -> Job]
    BY DEF LeaseInv, TypeOK
  <1>5. JobsStep
    BY <1>1, <1>2, <1>3, <1>4, RowsOK DEF JobsStep
  <1> QED BY <1>5, JobStep

LEMMA WorkerDiesKeeps ==
    ASSUME LeaseInv, NEW w \in Workers, WorkerDies(w)
    PROVE  LeaseInv'
  <1>1. faults' \in 0..MaxFaults
    BY ConstantsAssumption DEF WorkerDies, LeaseInv, TypeOK
  <1>2. DataStep /\ RequestsStep
    BY <1>1 DEF WorkerDies, DataStep, RequestsStep, LeaseInv, TypeOK
  <1>3. WorkersStep
    BY WorkersIdleStep, ConstantsAssumption DEF WorkerDies, LeaseInv, TypeOK
  <1> QED BY <1>2, <1>3, SameRows DEF WorkerDies

LEMMA BeginAttemptKeeps ==
    ASSUME LeaseInv, NEW w \in Workers, BeginAttempt(w)
    PROVE  LeaseInv'
  <1> DEFINE j == worker[w].job
             a == job[j].action
  <1>1. /\ worker[w].pc = "claimed" /\ ~JobLocked(j)
        /\ UNCHANGED <<policy, nJobs, snaps, external, request, faults>>
    BY DEF BeginAttempt
  <1>2. /\ j \in 1..nJobs /\ j \in JobIds /\ job[j] \in Job /\ RowOK(job[j])
        /\ SameJob(job[j], job[j]) /\ a \in Actions /\ action[a].version \in Nat
    BY <1>1, WorkerJob, JobRow
  <1>3. CASE Release(w) /\ UNCHANGED <<action, job>>
    <2>1. DataStep /\ RequestsStep
      BY <1>1, <1>3 DEF DataStep, RequestsStep, LeaseInv, TypeOK
    <2>2. WorkersStep
      BY <1>1, <1>3, WorkersIdleStep, ConstantsAssumption DEF LeaseInv, TypeOK
    <2> QED BY <1>1, <1>3, <2>1, <2>2, SameRows
  <1>4. CASE /\ job[j].status = "running"
             /\ job' = [job EXCEPT ![j].attempts = @ + 1, ![j].status = "cancelled"]
             /\ WriteAction(a, "cancelled", action[a].version + 1)
             /\ Release(w)
    <2> DEFINE r == [job[j] EXCEPT !.attempts = @ + 1, !.status = "cancelled"]
    <2>1. job' = [job EXCEPT ![j] = r]
      BY <1>2, <1>4 DEF LeaseInv, TypeOK, Job
    <2>2. job[j].attempts + 1 \in 0..MaxAttempts
      <3>1. job[j].attempts \in 0..MaxAttempts
        BY <1>2 DEF Job
      <3>2. job[j].attempts < MaxAttempts
        BY <1>2, <1>4 DEF RowOK, ACTIVE_JOB_STATUSES
      <3> QED BY <3>1, <3>2, ConstantsAssumption
    <2>3. r \in Job /\ SameJob(r, job[j]) /\ RowOK(r)
      <3>1. "cancelled" \in TERMINAL_JOB_STATUSES /\ "cancelled" \notin ACTIVE_JOB_STATUSES
        BY DEF ACTIVE_JOB_STATUSES, TERMINAL_JOB_STATUSES
      <3>2. r \in Job /\ r.type = job[j].type /\ r.action = job[j].action
        BY <1>2, <2>2, <3>1 DEF Job
      <3>3. r.status = "cancelled" /\ r.attempts <= MaxAttempts
        BY <1>2, <2>2, ConstantsAssumption DEF Job
      <3> QED BY <3>1, <3>2, <3>3 DEF SameJob, RowOK
    <2>4. "cancelled" \in ActionStatuses /\ action[a].version + 1 \in Nat
      BY <1>2 DEF ActionStatuses
    <2>5. DataStep
      <3>1. action' \in [Actions -> Action]
        BY <1>4, <2>4, WriteActionType DEF LeaseInv, WriteAction
      <3> QED BY <1>1, <3>1 DEF DataStep, LeaseInv, TypeOK
    <2>6. \A v \in Workers \ {w} : InTransaction(v) => worker[v].job # j
      BY <1>1 DEF JobLocked, WorkerHolds
    <2>7. request' = request /\ nJobs' = nJobs /\ Release(w) /\ j \in 1..nJobs
      BY <1>1, <1>2, <1>4
    <2> HIDE DEF r, j
    <2> QED BY <2>1, <2>3, <2>5, <2>6, <2>7, ReleasingRow
  <1>5. CASE /\ job[j].status = "running" /\ job[j].owner = w /\ ~ActionLocked(a)
             /\ worker' = [worker EXCEPT ![w].pc = "txn"]
             /\ UNCHANGED <<action, job>>
    <2> DEFINE x == [worker[w] EXCEPT !.pc = "txn"]
    <2>1. x \in Worker /\ worker' = [worker EXCEPT ![w] = x]
      BY <1>5 DEF LeaseInv, TypeOK, Worker
    <2>2. worker' \in [Workers -> Worker] /\ worker'[w] = x
          /\ \A v \in Workers \ {w} : worker'[v] = worker[v]
      BY <2>1 DEF LeaseInv, TypeOK
    <2>3. x.job = j /\ x.pc = "txn"
      BY DEF LeaseInv, TypeOK, Worker
    <2>7. RequestsFormed'
      <3>1. \A h \in Handlers : Flushed(h) => request[h].job # j
        BY <1>1 DEF JobLocked
      <3>2. \A v \in Workers : InTransaction(v)' => v = w \/ InTransaction(v)
        BY <2>2 DEF InTransaction
      <3>3. \A h \in Handlers : Flushed(h) /\ ~WorkerHolds(request[h].job) =>
               ~WorkerHolds(request[h].job)'
        <4> SUFFICES ASSUME NEW h \in Handlers, Flushed(h), NEW v \in Workers,
                            InTransaction(v)', worker'[v].job = request'[h].job
                     PROVE  WorkerHolds(request[h].job)
          BY DEF WorkerHolds
        <4>1. request'[h] = request[h] /\ request[h].job # j
          BY <1>1, <3>1
        <4>2. v # w
          BY <2>2, <2>3, <4>1
        <4> QED BY <2>2, <3>2, <4>1, <4>2 DEF WorkerHolds
      <3> QED BY <1>1, <1>5, <3>3 DEF LeaseInv, RequestsFormed, Flushed
    <2>4. TypeOK' /\ JobsInOrder' /\ AttemptBudget' /\ LeaseMatchesStatus'
      BY <1>1, <1>5, <2>2
         DEF LeaseInv, TypeOK, JobsInOrder, AttemptBudget, LeaseMatchesStatus, Active
    <2>5. WorkersFormed'
      BY <1>1, <1>2, <1>5, <2>2, <2>3 DEF LeaseInv, WorkersFormed
    <2>6. ExclusiveAttempt'
      <3>1. \A v \in Workers \ {w} : InTransaction(v)' => InTransaction(v)
        BY <2>2 DEF InTransaction
      <3>2. \A v \in Workers \ {w} : InTransaction(v) => job[worker[v].job].action # a
        BY <1>5 DEF ActionLocked
      <3> QED BY <1>5, <2>2, <2>3, <3>1, <3>2 DEF LeaseInv, ExclusiveAttempt
    <2> QED BY <2>4, <2>5, <2>6, <2>7 DEF LeaseInv
  <1> QED BY <1>3, <1>4, <1>5 DEF BeginAttempt

LEMMA CallProviderKeeps ==
    ASSUME LeaseInv, NEW w \in Workers, CallProvider(w)
    PROVE  LeaseInv'
  <1> DEFINE x == [worker[w] EXCEPT !.pc = "effect"]
  <1>1. /\ worker[w].pc = "txn" /\ job[worker[w].job].type # "validate"
        /\ worker' = [worker EXCEPT ![w].pc = "effect"]
        /\ UNCHANGED <<policy, action, job, nJobs, snaps, request, faults>>
    BY DEF CallProvider
  <1>2. DataStep /\ RequestsStep
    BY <1>1 DEF CallProvider, DataStep, RequestsStep, LeaseInv, TypeOK
  <1>3. x \in Worker /\ worker' = [worker EXCEPT ![w] = x] /\ x.job = worker[w].job
    BY <1>1 DEF LeaseInv, TypeOK, Worker
  <1>4. /\ worker' \in [Workers -> Worker] /\ worker'[w] = x
        /\ \A v \in Workers \ {w} : worker'[v] = worker[v]
    BY <1>3 DEF LeaseInv, TypeOK
  <1>5. WorkersFormed'
    BY <1>1, <1>3, <1>4 DEF LeaseInv, WorkersFormed
  <1>6. WorkersStep
    BY <1>1, <1>3, <1>4, <1>5 DEF WorkersStep, NoNewAttempts, InTransaction
  <1> QED BY <1>1, <1>2, <1>6, SameRows

\* A settled row: one attempt more, not leased.
LEMMA SettledRow ==
    ASSUME LeaseInv, NEW w \in Workers, InTransaction(w),
           NEW status \in ACTIVE_JOB_STATUSES \cup TERMINAL_JOB_STATUSES,
           status \in ACTIVE_JOB_STATUSES =>
              status # "running" /\ job[worker[w].job].attempts + 1 < MaxAttempts
    PROVE  LET r == Settled(worker[w].job, status)
           IN  /\ r \in Job /\ SameJob(r, job[worker[w].job]) /\ RowOK(r)
               /\ r.attempts = job[worker[w].job].attempts + 1 /\ r.status = status
  <1> DEFINE j == worker[w].job
  <1>1. job[j] \in Job /\ job[j].attempts + 1 \in 0..MaxAttempts
    BY AttemptFacts, JobRow
  <1>2. Settled(j, status) \in Job
    BY <1>1 DEF Settled, Job
  <1>3. /\ Settled(j, status).attempts = job[j].attempts + 1
        /\ Settled(j, status).status = status
        /\ Settled(j, status).owner = None
        /\ Settled(j, status).type = job[j].type /\ Settled(j, status).action = job[j].action
    BY <1>1 DEF Settled, Job
  <1>4. "absent" \notin ACTIVE_JOB_STATUSES \cup TERMINAL_JOB_STATUSES
    BY DEF ACTIVE_JOB_STATUSES, TERMINAL_JOB_STATUSES
  <1>5. job[j].attempts + 1 <= MaxAttempts
    BY <1>1, ConstantsAssumption
  <1> QED BY <1>2, <1>3, <1>4, <1>5 DEF RowOK, SameJob

\* Every way an attempt ends, except with a new row.
LEMMA SettleKeeps ==
    ASSUME LeaseInv, NEW w \in Workers, InTransaction(w), Release(w),
           NEW status \in ACTIVE_JOB_STATUSES \cup TERMINAL_JOB_STATUSES,
           status \in ACTIVE_JOB_STATUSES =>
              status # "running" /\ job[worker[w].job].attempts + 1 < MaxAttempts,
           NEW due \in BOOLEAN,
           job' = [job EXCEPT ![worker[w].job] =
                      [Settled(worker[w].job, status) EXCEPT !.due = due]],
           nJobs' = nJobs, request' = request, DataStep
    PROVE  LeaseInv'
  <1> DEFINE j == worker[w].job
             r == [Settled(j, status) EXCEPT !.due = due]
  <1>1. /\ Settled(j, status) \in Job /\ SameJob(Settled(j, status), job[j])
        /\ RowOK(Settled(j, status))
    BY SettledRow
  <1>2. r \in Job /\ SameJob(r, job[j]) /\ RowOK(r)
    BY <1>1 DEF Job, SameJob, RowOK
  <1>3. j \in 1..nJobs /\ \A v \in Workers \ {w} : InTransaction(v) => worker[v].job # j
    BY AttemptFacts
  <1> QED BY <1>2, <1>3, ReleasingRow

\* What the handlers write to the action row is an action.
LEMMA WrittenAction ==
    ASSUME LeaseInv, NEW j \in 1..nJobs, NEW status \in ActionStatuses, NEW n \in Nat,
           WriteAction(job[j].action, status, action[job[j].action].version + n)
    PROVE  action' \in [Actions -> Action]
  <1>1. action[job[j].action].version + n \in Nat
    BY JobRow
  <1> QED BY <1>1, WriteActionType DEF LeaseInv, WriteAction

LEMMA FinishKeeps ==
    ASSUME LeaseInv, NEW w \in Workers, FinishValidate(w) \/ FinishRollback(w)
    PROVE  LeaseInv'
  <1> DEFINE j == worker[w].job
             a == job[j].action
  <1>1. /\ InTransaction(w) /\ Release(w)
        /\ job' = [job EXCEPT ![j] = Settled(j, "succeeded")]
        /\ UNCHANGED <<policy, nJobs, snaps, external, request, faults>>
        /\ \/ WriteAction(a, "succeeded", action[a].version + 1)
           \/ WriteAction(a, "rolled_back", action[a].version + 2)
    BY DEF FinishValidate, FinishRollback, InTransaction
  <1>2. j \in 1..nJobs /\ job[j] \in Job
    BY <1>1, AttemptFacts, JobRow
  <1>3. action' \in [Actions -> Action]
    BY <1>1, <1>2, WrittenAction DEF ActionStatuses
  <1>4. DataStep
    BY <1>1, <1>3 DEF DataStep, LeaseInv, TypeOK
  <1>5. Settled(j, "succeeded") = [Settled(j, "succeeded") EXCEPT !.due = job[j].due]
        /\ job[j].due \in BOOLEAN
    BY <1>2 DEF Settled, Job
  <1>6. /\ "succeeded" \in TERMINAL_JOB_STATUSES
        /\ "succeeded" \notin ACTIVE_JOB_STATUSES
    BY DEF ACTIVE_JOB_STATUSES, TERMINAL_JOB_STATUSES
  <1> QED BY <1>1, <1>4, <1>5, <1>6, SettleKeeps

LEMMA FailAttemptKeeps ==
    ASSUME LeaseInv, NEW w \in Workers, NEW retryable \in BOOLEAN, NEW started \in BOOLEAN,
           FailAttempt(w, retryable, started)
    PROVE  LeaseInv'
  <1> DEFINE j == worker[w].job
             a == job[j].action
             retry == retryable /\ job[j].attempts + 1 < MaxAttempts
             status == IF retry THEN "retry_wait" ELSE "failed"
             written == IF retry THEN StatusForRetry(job[j].type) ELSE "failed"
             steps == IF started /\ job[j].type # "validate" THEN 2 ELSE 1
  <1>1. /\ InTransaction(w) /\ Release(w)
        /\ job' = [job EXCEPT ![j] = [Settled(j, status) EXCEPT !.due = ~retry]]
        /\ WriteAction(a, written, action[a].version + steps)
        /\ snaps' = [snaps EXCEPT ![a] =
                        IF started /\ job[j].type = "execute" THEN @ + 1 ELSE @]
        /\ UNCHANGED <<policy, nJobs, external, request, faults>>
    BY DEF FailAttempt
  <1>2. j \in 1..nJobs /\ job[j] \in Job /\ a \in Actions /\ snaps[a] \in Nat
    BY <1>1, AttemptFacts, JobRow
  <1>3. written \in ActionStatuses /\ steps \in Nat
    BY <1>2 DEF ActionStatuses, StatusForRetry, Job, JobTypes
  <1>4. action' \in [Actions -> Action]
    BY <1>1, <1>2, <1>3, WrittenAction
  <1>5. snaps' \in [Actions -> Nat]
    BY <1>1, <1>2 DEF LeaseInv, TypeOK
  <1>6. DataStep
    BY <1>1, <1>4, <1>5 DEF DataStep, LeaseInv, TypeOK
  <1>7. /\ status \in ACTIVE_JOB_STATUSES \cup TERMINAL_JOB_STATUSES
        /\ status \in ACTIVE_JOB_STATUSES =>
              status # "running" /\ job[j].attempts + 1 < MaxAttempts
    BY DEF ACTIVE_JOB_STATUSES, TERMINAL_JOB_STATUSES
  <1> HIDE DEF status
  <1> QED BY <1>1, <1>6, <1>7, SettleKeeps

LEMMA FinishExecuteKeeps ==
    ASSUME LeaseInv, NEW w \in Workers, FinishExecute(w)
    PROVE  LeaseInv'
  <1> DEFINE j == worker[w].job
             a == job[j].action
             r == Settled(j, "succeeded")
             q == QueuedJob("validate", a, <<j, 0>>)
  <1>1. /\ InTransaction(w) /\ Release(w)
        /\ UNCHANGED <<policy, external, request, faults>>
    BY DEF FinishExecute, InTransaction
  <1>2. /\ j \in 1..nJobs /\ j \in JobIds /\ j \in Nat /\ nJobs \in Nat /\ job[j] \in Job
        /\ a \in Actions /\ snaps[a] \in Nat
        /\ \A v \in Workers \ {w} : InTransaction(v) => worker[v].job # j
    BY <1>1, AttemptFacts, JobRow, ConstantsAssumption DEF LeaseInv, TypeOK
  <1>3. /\ "succeeded" \in TERMINAL_JOB_STATUSES
        /\ "succeeded" \notin ACTIVE_JOB_STATUSES
    BY DEF ACTIVE_JOB_STATUSES, TERMINAL_JOB_STATUSES
  <1>4. CASE UNCHANGED <<action, job, nJobs, snaps>>
    <2>1. DataStep /\ RequestsStep
      BY <1>1, <1>4 DEF DataStep, RequestsStep, LeaseInv, TypeOK
    <2>2. WorkersStep
      BY <1>1, <1>4, WorkersIdleStep, ConstantsAssumption DEF LeaseInv, TypeOK
    <2> QED BY <1>4, <2>1, <2>2, SameRows
  <1>5. ASSUME snaps' = [snaps EXCEPT ![a] = @ + 1],
               WriteAction(a, "validating", action[a].version + 2)
        PROVE  DataStep
    <2>1. action' \in [Actions -> Action]
      BY <1>2, <1>5, WrittenAction DEF ActionStatuses
    <2>2. snaps' \in [Actions -> Nat]
      BY <1>2, <1>5 DEF LeaseInv, TypeOK
    <2> QED BY <1>1, <2>1, <2>2 DEF DataStep, LeaseInv, TypeOK
  <1>6. CASE /\ job' = [job EXCEPT ![j] = r] /\ nJobs' = nJobs /\ DataStep
    <2>1. r = [r EXCEPT !.due = job[j].due] /\ job[j].due \in BOOLEAN
      BY <1>2 DEF Settled, Job
    <2> QED BY <1>1, <1>3, <1>6, <2>1, SettleKeeps
  <1>7. CASE /\ nJobs < MaxJobs /\ nJobs' = nJobs + 1 /\ DataStep
             /\ job' = [job EXCEPT ![j] = r, ![nJobs + 1] = q]
    <2>1. nJobs + 1 \in JobIds /\ nJobs' \in nJobs..MaxJobs /\ j # nJobs + 1
          /\ \A k \in JobIds : k \in Nat
      BY <1>2, <1>7, ConstantsAssumption DEF JobIds
    <2>2. /\ job'[j] = r /\ job'[nJobs + 1] = q
          /\ \A k \in JobIds : k # j /\ k # nJobs + 1 => job'[k] = job[k]
      BY <1>2, <1>7, <2>1 DEF LeaseInv, TypeOK
    <2>3. q \in Job /\ NewJob(q)
      BY <1>2, QueuedJobNew DEF JobTypes
    <2>4. r \in Job /\ SameJob(r, job[j]) /\ RowOK(r)
      BY <1>1, <1>3, SettledRow
    <2>5. job' \in [JobIds -> Job]
      BY <1>7, <2>3, <2>4 DEF LeaseInv, TypeOK
    <2>6. \A k \in JobIds : k <= nJobs => SameJob(job'[k], job[k]) /\ RowOK(job'[k])
      BY <1>2, <2>1, <2>2, <2>4, RowsOK DEF LeaseInv, JobsInOrder, SameJob
    <2>7. WorkersStep
      <3>1. \A k \in 1..nJobs : k \in JobIds /\ k <= nJobs
        BY <1>2, <1>7, ConstantsAssumption DEF JobIds
      <3>2. \A k \in 1..nJobs : job'[k].type = job[k].type
        BY <2>6, <3>1 DEF SameJob
      <3> QED BY <1>1, <2>1, <3>2, WorkersIdleStep
    <2>8. \A v \in Workers : InTransaction(v)' =>
             job'[worker[v].job].status = "running" /\ job'[worker[v].job].owner = v
      <3> SUFFICES ASSUME NEW v \in Workers, InTransaction(v)'
                   PROVE  job'[worker[v].job].status = "running" /\ job'[worker[v].job].owner = v
        OBVIOUS
      <3>1. v # w
        BY <1>1 DEF Release, InTransaction, Idle, LeaseInv, TypeOK
      <3>2. InTransaction(v)
        BY <2>7 DEF WorkersStep, NoNewAttempts
      <3>3. worker[v].job \in 1..nJobs /\ worker[v].job # j /\ worker[v].job \in JobIds
        BY <1>2, <3>1, <3>2, AttemptFacts, JobRow
      <3>4. job'[worker[v].job] = job[worker[v].job]
        BY <1>2, <2>2, <3>3
      <3> QED BY <3>2, <3>4 DEF LeaseInv, ExclusiveAttempt
    <2>9. \A k \in JobIds : /\ nJobs < k /\ k <= nJobs' => NewJob(job'[k])
                            /\ k > nJobs' => job'[k] = job[k]
      <3> SUFFICES ASSUME NEW k \in JobIds
                   PROVE  /\ nJobs < k /\ k <= nJobs' => NewJob(job'[k])
                          /\ k > nJobs' => job'[k] = job[k]
        OBVIOUS
      <3>1. k \in Nat /\ nJobs' = nJobs + 1 /\ j <= nJobs
        BY <1>2, <1>7, <2>1
      <3>2. nJobs < k /\ k <= nJobs' => k = nJobs + 1
        BY <1>2, <3>1
      <3>3. k > nJobs' => k # j /\ k # nJobs + 1
        BY <1>2, <3>1
      <3> HIDE DEF r, q
      <3> QED BY <2>2, <2>3, <3>2, <3>3
    <2>10. JobsStep
      BY <2>1, <2>5, <2>6, <2>8, <2>9 DEF JobsStep
    <2> QED BY <1>1, <1>7, <2>7, <2>10, JobStep DEF RequestsStep
  <1> QED BY <1>4, <1>5, <1>6, <1>7 DEF FinishExecute

LEMMA TimeKeeps ==
    ASSUME LeaseInv, NEW j \in JobIds, LeaseExpires(j) \/ BackoffEnds(j)
    PROVE  LeaseInv'
  <1>1. /\ UNCHANGED <<policy, action, nJobs, snaps, external, worker, request>>
        /\ faults' \in 0..MaxFaults
    BY ConstantsAssumption DEF LeaseExpires, BackoffEnds, LeaseInv, TypeOK
  <1>2. DataStep /\ RequestsStep
    BY <1>1 DEF DataStep, RequestsStep, LeaseInv, TypeOK
  <1>3. j \in 1..nJobs
    BY ConstantsAssumption
       DEF LeaseExpires, BackoffEnds, LeaseInv, TypeOK, JobsInOrder, NoJob, JobIds
  <1>4. job[j] \in Job /\ RowOK(job[j]) /\ SameJob(job[j], job[j])
    BY <1>3, JobRow
  <1>5. PICK r \in {[job[j] EXCEPT !.live = FALSE], [job[j] EXCEPT !.due = TRUE]} :
           job' = [job EXCEPT ![j] = r]
    BY <1>4 DEF LeaseExpires, BackoffEnds, LeaseInv, TypeOK, Job
  <1>6. r \in Job /\ SameJob(r, job[j]) /\ RowOK(r) /\ r.status = job[j].status
        /\ r.owner = job[j].owner
    BY <1>4, <1>5 DEF Job, SameJob, RowOK
  <1>7. \A k \in 1..nJobs : job'[k].type = job[k].type
    BY <1>5, <1>6, ConstantsAssumption DEF LeaseInv, TypeOK, JobIds, SameJob
  <1>8. WorkersStep
    BY <1>1, <1>7, WorkersIdleStep, ConstantsAssumption DEF LeaseInv, TypeOK
  <1>9. \A w \in Workers : InTransaction(w)' /\ worker[w].job = j =>
           r.status = "running" /\ r.owner = w
    BY <1>6, <1>8 DEF WorkersStep, NoNewAttempts, LeaseInv, ExclusiveAttempt
  <1> QED BY <1>1, <1>2, <1>3, <1>5, <1>6, <1>8, <1>9, RowStep
-----------------------------------------------------------------------------
\* LeaseInv is inductive.
LEMMA LeaseInvNext == LeaseInv /\ [Next]_vars => LeaseInv'
  <1> SUFFICES ASSUME LeaseInv, [Next]_vars PROVE LeaseInv'
    OBVIOUS
  <1>1. CASE UNCHANGED vars
    BY <1>1, ActionsOnly DEF vars, LeaseInv, TypeOK, RequestsFormed, WorkerHolds, InTransaction
  <1>2. CASE \E a \in Actions : create_action(a)
    BY <1>2, CreateAction
  <1>3. CASE \E h \in Handlers : HandlerStep(h)
    BY <1>3, RequestReads, RequestWrites, EnqueueKeeps, CancellationKeeps DEF HandlerStep
  <1>4. CASE \E w \in Workers : recover_expired_leases(w) \/ Claim(w) \/ WorkerDies(w)
    BY <1>4, RecoverKeeps, ClaimKeeps, WorkerDiesKeeps DEF Claim
  <1>5. CASE \E w \in Workers : AttemptStep(w)
    BY <1>5, BeginAttemptKeeps, CallProviderKeeps, FinishExecuteKeeps, FinishKeeps,
       FailAttemptKeeps DEF AttemptStep
  <1>6. CASE \E j \in JobIds : LeaseExpires(j) \/ BackoffEnds(j)
    BY <1>6, TimeKeeps
  <1> QED BY <1>1, <1>2, <1>3, <1>4, <1>5, <1>6 DEF Next

THEOREM LeaseInvariance == Spec => []LeaseInv
  BY LeaseInvInit, LeaseInvNext, PTL DEF Spec

\* The state stays well typed; in particular no job counts more attempts than
\* execution_job_max_attempts.
THEOREM TypeCorrectness == Spec => []TypeOK
  BY LeaseInvariance, PTL DEF LeaseInv

\* No attempt is made without a budget, however leases expire and come back.
THEOREM AttemptsAreBounded == Spec => []AttemptBudget
  BY LeaseInvariance, PTL DEF LeaseInv

\* The row locks and the fence of process_execution_job make attempts exclusive.
THEOREM AttemptsAreExclusive == Spec => []ExclusiveAttempt
  BY LeaseInvariance, PTL DEF LeaseInv

\* Recovery, claims and settlements keep owner and status of a job together.
THEOREM LeasesMatchStatus == Spec => []LeaseMatchesStatus
  BY LeaseInvariance, PTL DEF LeaseInv

\* What the run checks of every job: its type, its attempts and its lease.
THEOREM QueueIsSound == Spec => []QueueInv
  BY LeaseInvariance, PTL DEF LeaseInv, QueueInv
-----------------------------------------------------------------------------
\* What a step may do to the row of a job: its identity stays, and what has
\* ended stays ended.
RowGoesOn(r, s) ==
    /\ s.type = r.type /\ s.action = r.action /\ s.key = r.key
    /\ r.status \in TERMINAL_JOB_STATUSES =>
          s.status \in TERMINAL_JOB_STATUSES /\ s.attempts = r.attempts

LEMMA RowUpdates ==
    ASSUME NEW r \in Job
    PROVE  /\ RowGoesOn(r, r)
           /\ \A o : r.status \notin TERMINAL_JOB_STATUSES =>
                RowGoesOn(r, [r EXCEPT !.status = "running", !.owner = o, !.live = TRUE])
           /\ RowGoesOn(r, [r EXCEPT !.cancelReq = TRUE])
           /\ RowGoesOn(r, [r EXCEPT !.cancelReq = TRUE, !.status = "cancelled"])
           /\ RowGoesOn(r, [r EXCEPT !.live = FALSE])
           /\ RowGoesOn(r, [r EXCEPT !.due = TRUE])
           /\ r.status = "running" =>
                RowGoesOn(r, [r EXCEPT !.attempts = @ + 1, !.status = "cancelled"])
           /\ \A t : r.status = "running" =>
                RowGoesOn(r, [r EXCEPT !.owner = None, !.live = TRUE, !.due = TRUE, !.status = t])
           /\ \A t : r.status = "running" =>
                RowGoesOn(r, [r EXCEPT !.attempts = @ + 1, !.status = t, !.owner = None,
                                       !.live = TRUE])
           /\ \A t, d : r.status = "running" =>
                RowGoesOn(r, [[r EXCEPT !.attempts = @ + 1, !.status = t, !.owner = None,
                                        !.live = TRUE] EXCEPT !.due = d])
  BY DEF Job, RowGoesOn, TERMINAL_JOB_STATUSES

LEMMA RowGoesOnStep ==
    ASSUME LeaseInv, NEW j \in JobIds, NEW r, job' = [job EXCEPT ![j] = r],
           RowGoesOn(job[j], r)
    PROVE  \A k \in JobIds : RowGoesOn(job[k], job'[k])
  BY RowUpdates DEF LeaseInv, TypeOK

LEMMA JobsGoOn ==
    ASSUME LeaseInv, [Next]_vars
    PROVE  \A k \in 1..nJobs : k \in JobIds /\ RowGoesOn(job[k], job'[k])
  <1> DEFINE Goal == \A k \in 1..nJobs : RowGoesOn(job[k], job'[k])
  <1>1. \A k \in 1..nJobs : k \in JobIds /\ k # nJobs + 1
    BY ConstantsAssumption DEF LeaseInv, TypeOK, JobIds
  <1>2. \A k \in JobIds : job[k] \in Job /\ RowGoesOn(job[k], job[k])
    BY RowUpdates DEF LeaseInv, TypeOK
  <1>3. CASE job' = job
    BY <1>1, <1>2, <1>3
  <1>4. ASSUME NEW r, job' = [job EXCEPT ![nJobs + 1] = r]
        PROVE  Goal
    BY <1>1, <1>2, <1>4 DEF LeaseInv, TypeOK
  <1>5. ASSUME NEW h \in Handlers, enqueue_execution(h) \/ enqueue_rollback(h) PROVE Goal
    BY <1>3, <1>4, <1>5 DEF enqueue_execution, enqueue_rollback, Enqueue
  <1>6. ASSUME NEW h \in Handlers, request_job_cancellation(h) PROVE Goal
    <2> DEFINE j == request[h].job
    <2>1. j \in JobIds
      BY <1>1, <1>6 DEF LeaseInv, RequestsFormed, request_job_cancellation, Flushed
    <2>2. \/ job' = [job EXCEPT ![j] = [job[j] EXCEPT !.cancelReq = TRUE]]
          \/ job' = [job EXCEPT ![j] = [job[j] EXCEPT !.cancelReq = TRUE, !.status = "cancelled"]]
      BY <1>2, <1>6, <2>1 DEF request_job_cancellation, LeaseInv, TypeOK, Job
    <2> QED BY <1>1, <1>2, <2>1, <2>2, RowUpdates, RowGoesOnStep
  <1>7. ASSUME NEW w \in Workers, recover_expired_leases(w) PROVE Goal
    <2>1. ASSUME NEW k \in JobIds, k \in Expired
          PROVE  RowGoesOn(job[k], job'[k])
      BY <1>2, <1>7, <2>1, RowUpdates DEF recover_expired_leases, Expired
    <2>2. \A k \in JobIds : k \notin Expired => job'[k] = job[k]
      BY <1>7 DEF recover_expired_leases
    <2> QED BY <1>1, <1>2, <2>1, <2>2
  <1>8. ASSUME NEW w \in Workers, NEW j \in JobIds, claim_next_job(w, j) PROVE Goal
    <2>1. job' = [job EXCEPT ![j] =
                     [job[j] EXCEPT !.status = "running", !.owner = w, !.live = TRUE]]
      BY <1>2, <1>8 DEF claim_next_job, LeaseInv, TypeOK, Job
    <2>2. job[j].status \notin TERMINAL_JOB_STATUSES
      BY <1>8 DEF claim_next_job, Claimable, TERMINAL_JOB_STATUSES
    <2> QED BY <1>1, <1>2, <2>1, <2>2, RowUpdates, RowGoesOnStep
  <1>9. ASSUME NEW w \in Workers, BeginAttempt(w) PROVE Goal
    <2> DEFINE j == worker[w].job
    <2>1. CASE job' = job
      BY <1>3, <2>1
    <2>2. CASE /\ job[j].status = "running"
               /\ job' = [job EXCEPT ![j].attempts = @ + 1, ![j].status = "cancelled"]
      <3>1. j \in JobIds
        BY <1>1, <1>9, WorkerJob DEF BeginAttempt
      <3>2. job' = [job EXCEPT ![j] = [job[j] EXCEPT !.attempts = @ + 1, !.status = "cancelled"]]
        BY <1>2, <2>2, <3>1 DEF LeaseInv, TypeOK, Job
      <3> QED BY <1>1, <1>2, <2>2, <3>1, <3>2, RowUpdates, RowGoesOnStep
    <2> QED BY <1>9, <2>1, <2>2 DEF BeginAttempt
  <1>10. ASSUME NEW w \in Workers, InTransaction(w), NEW t,
                \/ job' = [job EXCEPT ![worker[w].job] = Settled(worker[w].job, t)]
                \/ \E d : job' = [job EXCEPT ![worker[w].job] =
                                    [Settled(worker[w].job, t) EXCEPT !.due = d]]
                \/ \E q : job' = [job EXCEPT ![worker[w].job] = Settled(worker[w].job, t),
                                             ![nJobs + 1] = q]
         PROVE  Goal
    <2> DEFINE j == worker[w].job
    <2>1. j \in 1..nJobs /\ job[j].status = "running"
      BY <1>10, AttemptFacts
    <2>2. /\ RowGoesOn(job[j], Settled(j, t))
          /\ \A d : RowGoesOn(job[j], [Settled(j, t) EXCEPT !.due = d])
      BY <1>1, <1>2, <2>1, RowUpdates DEF Settled
    <2>3. \A k \in 1..nJobs : \/ job'[k] = job[k]
                              \/ k = j /\ RowGoesOn(job[j], job'[k])
      BY <1>1, <1>10, <2>1, <2>2 DEF LeaseInv, TypeOK
    <2> QED BY <1>1, <1>2, <2>3
  <1>11. ASSUME NEW w \in Workers, FinishExecute(w) \/ FinishValidate(w) \/ FinishRollback(w)
         PROVE  Goal
    <2>1. InTransaction(w)
      BY <1>11 DEF FinishExecute, FinishValidate, FinishRollback, InTransaction
    <2> QED BY <1>3, <1>10, <1>11, <2>1 DEF FinishExecute, FinishValidate, FinishRollback
  <1>12. ASSUME NEW w \in Workers, NEW retryable \in BOOLEAN, NEW started \in BOOLEAN,
                FailAttempt(w, retryable, started)
         PROVE  Goal
    BY <1>10, <1>12 DEF FailAttempt
  <1>13. ASSUME NEW j \in JobIds, LeaseExpires(j) \/ BackoffEnds(j) PROVE Goal
    <2>1. \/ job' = [job EXCEPT ![j] = [job[j] EXCEPT !.live = FALSE]]
          \/ job' = [job EXCEPT ![j] = [job[j] EXCEPT !.due = TRUE]]
      BY <1>2, <1>13 DEF LeaseExpires, BackoffEnds, LeaseInv, TypeOK, Job
    <2> QED BY <1>1, <1>2, <2>1, RowUpdates, RowGoesOnStep
  <1>14. ASSUME NEW h \in Handlers,
                \/ \E a \in Actions, op \in Operations : ReadAction(h, a, op)
                \/ \E j \in JobIds : ReadJob(h, j)
                \/ ReadActionOfJob(h) \/ RequestFails(h)
                \/ propose_action(h) \/ decide_approve(h) \/ decide_reject(h) \/ cancel_action(h)
         PROVE  Goal
    BY <1>3, <1>14 DEF ReadAction, ReadJob, ReadActionOfJob, RequestFails,
                       propose_action, decide_approve, decide_reject, cancel_action
  <1>15. ASSUME NEW w \in Workers, CallProvider(w) \/ WorkerDies(w) PROVE Goal
    BY <1>3, <1>15 DEF CallProvider, WorkerDies
  <1>16. CASE UNCHANGED vars
    BY <1>3, <1>16 DEF vars
  <1>17. ASSUME NEW a \in Actions, create_action(a) PROVE Goal
    BY <1>3, <1>17 DEF create_action
  <1>18. Goal
    BY <1>5, <1>6, <1>7, <1>8, <1>9, <1>11, <1>12, <1>13, <1>14, <1>15, <1>16, <1>17
       DEF Next, HandlerStep, Claim, AttemptStep
  <1> QED BY <1>1, <1>18

\* A late cancellation, a recovery or a second worker may race with the end of
\* a job, and none of them makes it active again or changes its attempts.
THEOREM JobsStayEnded == Spec => EndedJobsStayEnded
  <1>1. LeaseInv /\ [Next]_vars =>
           [\A j \in JobIds : Terminal(j) => Terminal(j)' /\ job'[j].attempts = job[j].attempts]_vars
    <2> SUFFICES ASSUME LeaseInv, [Next]_vars, NEW j \in JobIds, Terminal(j)
                 PROVE  Terminal(j)' /\ job'[j].attempts = job[j].attempts
      OBVIOUS
    <2>1. j \in 1..nJobs
      BY ConstantsAssumption
         DEF LeaseInv, TypeOK, JobsInOrder, NoJob, JobIds, Terminal, TERMINAL_JOB_STATUSES
    <2> QED BY <2>1, JobsGoOn DEF RowGoesOn, Terminal
  <1> QED BY <1>1, LeaseInvariance, PTL DEF Spec, EndedJobsStayEnded
-----------------------------------------------------------------------------
\* Governance: what stands between a draft and the provider.

Governed(a) == action[a].approved /\ policy[a] # "blocked"

\* Requests act on what they have read, so what they have read must already
\* be governed: an approval is pending only where the policy asks for one.
GovernedInv ==
    /\ \A a \in Actions :
          /\ external[a] # "absent" => Governed(a)
          /\ action[a].status \in {"approved", "succeeded"} => Governed(a)
          /\ action[a].status = "needs_approval" => policy[a] = "manual_approval"
    /\ \A j \in JobIds : job[j].status # "absent" => Governed(job[j].action)
    /\ \A h \in Handlers :
          /\ request[h].op \in {"enqueue_execution", "enqueue_rollback"} =>
                Governed(request[h].action)
          /\ request[h].op = "approve" => policy[request[h].action] = "manual_approval"

\* What one step may write to an action row.
ActionGoesOn(a) ==
    /\ action[a].approved => action'[a].approved
    /\ action'[a].status \in {"approved", "succeeded"} =>
          \/ action'[a].status = action[a].status
          \/ action'[a].approved /\ policy[a] # "blocked"
    /\ action'[a].status = "needs_approval" =>
          \/ action'[a].status = action[a].status
          \/ policy[a] = "manual_approval"

\* A write to the status and the version of one action.
LEMMA WriteGoesOn ==
    ASSUME LeaseInv, NEW b, NEW status, NEW version, WriteAction(b, status, version),
           status \in {"approved", "succeeded"} => b \in Actions /\ Governed(b),
           status # "needs_approval"
    PROVE  \A a \in Actions : ActionGoesOn(a)
  <1> SUFFICES ASSUME NEW a \in Actions PROVE ActionGoesOn(a)
    OBVIOUS
  <1>1. action[a] \in Action
    BY DEF LeaseInv, TypeOK
  <1>2. CASE a # b
    BY <1>2 DEF LeaseInv, TypeOK, WriteAction, ActionGoesOn
  <1>3. CASE a = b
    <2>1. action'[a].approved = action[a].approved /\ action'[a].status = status
      BY <1>1, <1>3 DEF LeaseInv, TypeOK, WriteAction, Action
    <2> QED BY <1>3, <2>1 DEF ActionGoesOn, Governed
  <1> QED BY <1>2, <1>3

LEMMA SameGoesOn ==
    ASSUME UNCHANGED action
    PROVE  \A a \in Actions : ActionGoesOn(a)
  BY DEF ActionGoesOn

LEMMA ActionsGoOn ==
    ASSUME LeaseInv, GovernedInv, [Next]_vars
    PROVE  \A a \in Actions : ActionGoesOn(a)
  <1> DEFINE Goal == \A a \in Actions : ActionGoesOn(a)
  <1>1. CASE UNCHANGED action
    BY <1>1, SameGoesOn
  <1>2. ASSUME NEW b \in Actions, create_action(b) PROVE Goal
    BY <1>2, WriteGoesOn DEF create_action
  <1>3. ASSUME NEW h \in Handlers, propose_action(h) \/ decide_approve(h) PROVE Goal
    <2> DEFINE b == request[h].action
    <2>1. b \in Actions /\ action[b] \in Action /\ policy[b] \in Modes
      BY <1>3 DEF propose_action, decide_approve, Commits, LeaseInv, RequestsFormed, TypeOK
    <2> SUFFICES ASSUME NEW a \in Actions PROVE ActionGoesOn(a)
      OBVIOUS
    <2>2. CASE a # b
      <3>1. action'[a] = action[a]
        BY <1>3, <2>2 DEF propose_action, decide_approve, LeaseInv, TypeOK
      <3> QED BY <3>1 DEF ActionGoesOn
    <2>3. CASE a = b /\ propose_action(h)
      <3>1. /\ action'[a].status = CASE policy[a] = "blocked" -> "blocked"
                                     [] policy[a] = "auto_approve" -> "approved"
                                     [] policy[a] = "manual_approval" -> "needs_approval"
            /\ action'[a].approved = (action[a].approved \/ policy[a] = "auto_approve")
        BY <2>1, <2>3 DEF propose_action, LeaseInv, TypeOK, Action
      <3> QED BY <2>1, <2>3, <3>1 DEF ActionGoesOn, Modes
    <2>4. CASE a = b /\ decide_approve(h)
      <3>1. action'[a].status = "approved" /\ action'[a].approved
        BY <2>1, <2>4 DEF decide_approve, LeaseInv, TypeOK, Action
      <3>2. policy[a] = "manual_approval"
        BY <2>4 DEF GovernedInv, decide_approve, Commits
      <3> QED BY <3>1, <3>2 DEF ActionGoesOn
    <2> QED BY <1>3, <2>2, <2>3, <2>4
  <1>4. ASSUME NEW h \in Handlers,
               \/ decide_reject(h) \/ cancel_action(h) \/ enqueue_execution(h)
               \/ enqueue_rollback(h) \/ request_job_cancellation(h)
        PROVE  Goal
    BY <1>1, <1>4, WriteGoesOn
       DEF decide_reject, cancel_action, enqueue_execution, enqueue_rollback, Enqueue,
           request_job_cancellation
  <1>5. ASSUME NEW w \in Workers, NEW retryable \in BOOLEAN, NEW started \in BOOLEAN,
               FailAttempt(w, retryable, started)
        PROVE  Goal
    <2> DEFINE j == worker[w].job
               retry == retryable /\ job[j].attempts + 1 < MaxAttempts
               written == IF retry THEN StatusForRetry(job[j].type) ELSE "failed"
               steps == IF started /\ job[j].type # "validate" THEN 2 ELSE 1
    <2>1. job[j].type \in JobTypes
      BY <1>5, AttemptFacts, JobRow DEF FailAttempt, Job
    <2>2. written \notin {"approved", "succeeded", "needs_approval"}
      BY <2>1 DEF StatusForRetry, JobTypes
    <2>3. WriteAction(job[j].action, written, action[job[j].action].version + steps)
      BY <1>5 DEF FailAttempt
    <2> HIDE DEF written, steps
    <2> QED BY <2>2, <2>3, WriteGoesOn
  <1>6. ASSUME NEW w \in Workers,
               BeginAttempt(w) \/ FinishExecute(w) \/ FinishRollback(w)
        PROVE  Goal
    <2>1. CASE BeginAttempt(w)
      BY <2>1, <1>1, WriteGoesOn DEF BeginAttempt
    <2>2. CASE FinishExecute(w)
      BY <2>2, <1>1, WriteGoesOn DEF FinishExecute
    <2>3. CASE FinishRollback(w)
      BY <2>3, <1>1, WriteGoesOn DEF FinishRollback
    <2> QED BY <1>6, <2>1, <2>2, <2>3
  <1>7. ASSUME NEW w \in Workers, FinishValidate(w) PROVE Goal
    <2> DEFINE a == job[worker[w].job].action
    <2>1. a \in Actions /\ job[worker[w].job].status # "absent" /\ worker[w].job \in JobIds
      BY <1>7, AttemptFacts, JobRow DEF FinishValidate, InTransaction
    <2>2. Governed(a)
      BY <2>1 DEF GovernedInv
    <2> QED BY <1>7, <2>1, <2>2, WriteGoesOn DEF FinishValidate
  <1>8. ASSUME NEW w \in Workers,
               \/ recover_expired_leases(w) \/ Claim(w) \/ CallProvider(w) \/ WorkerDies(w)
        PROVE  Goal
    BY <1>1, <1>8
       DEF recover_expired_leases, Claim, claim_next_job, CallProvider, WorkerDies
  <1>9. ASSUME NEW h \in Handlers,
               \/ \E a \in Actions, op \in Operations : ReadAction(h, a, op)
               \/ \E j \in JobIds : ReadJob(h, j)
               \/ ReadActionOfJob(h) \/ RequestFails(h)
        PROVE  Goal
    BY <1>1, <1>9 DEF ReadAction, ReadJob, ReadActionOfJob, RequestFails
  <1>10. ASSUME NEW j \in JobIds, LeaseExpires(j) \/ BackoffEnds(j) PROVE Goal
    BY <1>1, <1>10 DEF LeaseExpires, BackoffEnds
  <1>11. CASE UNCHANGED vars
    BY <1>1, <1>11 DEF vars
  <1> QED BY <1>2, <1>3, <1>4, <1>5, <1>6, <1>7, <1>8, <1>9, <1>10, <1>11
       DEF Next, HandlerStep, AttemptStep

\* The provider is called for the action of a job only.
LEMMA EffectsGoOn ==
    ASSUME LeaseInv, GovernedInv, [Next]_vars
    PROVE  /\ policy' = policy
           /\ \A a \in Actions : external'[a] # external[a] => Governed(a)
  <1>1. ASSUME NEW w \in Workers, CallProvider(w)
        PROVE  /\ policy' = policy
               /\ \A a \in Actions : external'[a] # external[a] => Governed(a)
    <2> DEFINE j == worker[w].job
    <2>1. j \in JobIds /\ job[j].status # "absent" /\ job[j].action \in Actions
      BY <1>1, AttemptFacts, JobRow DEF CallProvider, InTransaction
    <2>2. Governed(job[j].action)
      BY <2>1 DEF GovernedInv
    <2>3. \A a \in Actions : a # job[j].action => external'[a] = external[a]
      BY <1>1 DEF CallProvider, LeaseInv, TypeOK
    <2> QED BY <1>1, <2>2, <2>3 DEF CallProvider
  <1>2. ASSUME UNCHANGED <<policy, external>>
        PROVE  /\ policy' = policy
               /\ \A a \in Actions : external'[a] # external[a] => Governed(a)
    BY <1>2
  <1>3. ASSUME NEW h \in Handlers, HandlerStep(h) PROVE UNCHANGED <<policy, external>>
    BY <1>3 DEF HandlerStep, ReadAction, ReadJob, ReadActionOfJob, propose_action, decide_approve,
                decide_reject, cancel_action, enqueue_execution, enqueue_rollback,
                request_job_cancellation, RequestFails
  <1>4. ASSUME NEW w \in Workers, ~CallProvider(w), NEW retryable, NEW started,
               \/ recover_expired_leases(w) \/ Claim(w) \/ WorkerDies(w)
               \/ BeginAttempt(w) \/ FinishExecute(w) \/ FinishValidate(w) \/ FinishRollback(w)
               \/ FailAttempt(w, retryable, started)
        PROVE  UNCHANGED <<policy, external>>
    BY <1>4 DEF recover_expired_leases, Claim, claim_next_job, WorkerDies, BeginAttempt,
                FinishExecute, FinishValidate, FinishRollback, FailAttempt
  <1>5. CASE \/ \E a \in Actions : create_action(a)
             \/ \E j \in JobIds : LeaseExpires(j) \/ BackoffEnds(j)
             \/ UNCHANGED vars
    BY <1>2, <1>5 DEF create_action, LeaseExpires, BackoffEnds, vars
  <1> QED BY <1>1, <1>2, <1>3, <1>4, <1>5 DEF Next, AttemptStep

\* A handler that goes on to approve or to enqueue has read a status that says so.
LEMMA RequestsGoOn ==
    ASSUME LeaseInv, GovernedInv, [Next]_vars, NEW h \in Handlers
    PROVE  \/ request'[h] = request[h]
           \/ request'[h].op \in {"none", "cancel_job"}
           \/ /\ request'[h].action \in Actions
              /\ request'[h].op \in {"enqueue_execution", "enqueue_rollback"} =>
                    Governed(request'[h].action)
              /\ request'[h].op = "approve" => policy[request'[h].action] = "manual_approval"
  <1> DEFINE Goal == \/ request'[h] = request[h]
                     \/ request'[h].op \in {"none", "cancel_job"}
                     \/ /\ request'[h].action \in Actions
                        /\ request'[h].op \in {"enqueue_execution", "enqueue_rollback"} =>
                              Governed(request'[h].action)
                        /\ request'[h].op = "approve" =>
                              policy[request'[h].action] = "manual_approval"
  <1>1. CASE request' = request
    BY <1>1
  <1>2. ASSUME NEW g \in Handlers, EndRequest(g) PROVE Goal
    BY <1>2 DEF EndRequest, NoRequest, LeaseInv, TypeOK
  <1>3. ASSUME NEW g \in Handlers, NEW a \in Actions, NEW op \in Operations, ReadAction(g, a, op)
        PROVE  Goal
    <2>1. CASE g # h
      BY <1>3, <2>1 DEF ReadAction, LeaseInv, TypeOK
    <2>2. CASE g = h
      <3>1. request'[h].op = op /\ request'[h].action = a
        BY <1>3, <2>2 DEF ReadAction, NoRequest, LeaseInv, TypeOK
      <3>2. /\ op \in {"enqueue_execution", "enqueue_rollback"} => Governed(a)
            /\ op = "approve" => policy[a] = "manual_approval"
        BY <1>3 DEF ReadAction, Accepts, GovernedInv
      <3> QED BY <3>1, <3>2
    <2> QED BY <2>1, <2>2
  <1>4. ASSUME NEW g \in Handlers, NEW j \in JobIds, ReadJob(g, j) PROVE Goal
    BY <1>4 DEF ReadJob, NoRequest, LeaseInv, TypeOK
  <1>5. ASSUME NEW g \in Handlers, ReadActionOfJob(g) PROVE Goal
    <2>1. CASE g # h
      BY <1>5, <2>1 DEF ReadActionOfJob, LeaseInv, TypeOK
    <2>2. CASE g = h
      BY <1>5, <2>2 DEF ReadActionOfJob, LeaseInv, TypeOK, Request
    <2> QED BY <2>1, <2>2
  <1>6. ASSUME NEW g \in Handlers,
               \/ propose_action(g) \/ decide_approve(g) \/ decide_reject(g) \/ cancel_action(g)
               \/ enqueue_execution(g) \/ enqueue_rollback(g) \/ request_job_cancellation(g)
               \/ RequestFails(g)
        PROVE  Goal
    <2>1. EndRequest(g)
      BY <1>6 DEF propose_action, decide_approve, decide_reject, cancel_action, Commits,
                  enqueue_execution, enqueue_rollback, request_job_cancellation, RequestFails
    <2> QED BY <1>2, <2>1
  <1>7. CASE \/ \E a \in Actions : create_action(a)
             \/ \E w \in Workers : \/ recover_expired_leases(w) \/ Claim(w)
                                   \/ AttemptStep(w) \/ WorkerDies(w)
             \/ \E j \in JobIds : LeaseExpires(j) \/ BackoffEnds(j)
             \/ UNCHANGED vars
    BY <1>1, <1>7
       DEF create_action, recover_expired_leases, Claim, claim_next_job, AttemptStep, BeginAttempt,
           CallProvider, FinishExecute, FinishValidate, FinishRollback, FailAttempt, WorkerDies,
           LeaseExpires, BackoffEnds, vars
  <1> QED BY <1>3, <1>4, <1>5, <1>6, <1>7 DEF Next, HandlerStep

\* New rows belong to an action whose enqueue request or parent job is governed.
LEMMA NewRowsGoverned ==
    ASSUME LeaseInv, GovernedInv, [Next]_vars, NEW k \in JobIds,
           k > nJobs, job'[k].status # "absent"
    PROVE  job'[k].action \in Actions /\ Governed(job'[k].action)
  <1> DEFINE Goal == job'[k].action \in Actions /\ Governed(job'[k].action)
  <1>1. job[k] = NoJob /\ job[k].status = "absent" /\ k \notin 1..nJobs
    BY ConstantsAssumption DEF LeaseInv, TypeOK, JobsInOrder, NoJob, JobIds
  <1>2. CASE nJobs' = nJobs
    <2>1. JobsInOrder'
      BY LeaseInvNext DEF LeaseInv
    <2>2. job'[k] = NoJob
      BY <1>2, <2>1 DEF JobsInOrder, JobIds
    <2> QED BY <2>2 DEF NoJob
  <1>4. ASSUME NEW h \in Handlers, enqueue_execution(h) \/ enqueue_rollback(h) PROVE Goal
    <2> DEFINE a == request[h].action
    <2>1. a \in Actions /\ Governed(a)
      BY <1>4 DEF LeaseInv, RequestsFormed, GovernedInv, enqueue_execution, enqueue_rollback,
                  Commits
    <2>2. nJobs' = nJobs \/ \E type, key : job' = [job EXCEPT ![nJobs + 1] = QueuedJob(type, a, key)]
      BY <1>4 DEF enqueue_execution, enqueue_rollback, Enqueue
    <2>3. CASE \E type, key : job' = [job EXCEPT ![nJobs + 1] = QueuedJob(type, a, key)]
      <3>1. PICK type, key : job' = [job EXCEPT ![nJobs + 1] = QueuedJob(type, a, key)]
        BY <2>3
      <3>2. k = nJobs + 1 /\ job'[k] = QueuedJob(type, a, key)
        BY <1>1, <3>1 DEF LeaseInv, TypeOK
      <3> QED BY <2>1, <3>2 DEF QueuedJob, NoJob
    <2> QED BY <1>2, <2>2, <2>3
  <1>5. ASSUME NEW w \in Workers, FinishExecute(w) PROVE Goal
    <2> DEFINE j == worker[w].job
               a == job[j].action
    <2>1. j \in 1..nJobs /\ j \in JobIds /\ a \in Actions /\ job[j].status # "absent"
      BY <1>5, AttemptFacts, JobRow DEF FinishExecute, InTransaction
    <2>2. Governed(a)
      BY <2>1 DEF GovernedInv
    <2>3. CASE job' = [job EXCEPT ![j] = Settled(j, "succeeded"),
                                  ![nJobs + 1] = QueuedJob("validate", a, <<j, 0>>)]
      <3>1. k # j
        BY <1>1, <2>1
      <3>2. job'[k] = QueuedJob("validate", a, <<j, 0>>)
        BY <1>1, <2>3, <3>1 DEF LeaseInv, TypeOK
      <3> QED BY <2>1, <2>2, <3>2 DEF QueuedJob, NoJob
    <2> QED BY <1>2, <1>5, <2>3 DEF FinishExecute
  <1>6. ASSUME NEW g \in Handlers,
               \/ \E a \in Actions, op \in Operations : ReadAction(g, a, op)
               \/ \E j \in JobIds : ReadJob(g, j)
               \/ ReadActionOfJob(g) \/ RequestFails(g)
               \/ propose_action(g) \/ decide_approve(g) \/ decide_reject(g) \/ cancel_action(g)
               \/ request_job_cancellation(g)
        PROVE  nJobs' = nJobs
    BY <1>6 DEF ReadAction, ReadJob, ReadActionOfJob, RequestFails, propose_action,
                decide_approve, decide_reject, cancel_action, request_job_cancellation
  <1>7. CASE \/ \E a \in Actions : create_action(a)
             \/ \E w \in Workers : recover_expired_leases(w) \/ Claim(w) \/ WorkerDies(w)
             \/ \E j \in JobIds : LeaseExpires(j) \/ BackoffEnds(j)
             \/ UNCHANGED vars
    BY <1>2, <1>7 DEF create_action, recover_expired_leases, Claim, claim_next_job, WorkerDies,
                      LeaseExpires, BackoffEnds, vars
  <1>8. ASSUME NEW w \in Workers, NEW retryable, NEW started,
               \/ BeginAttempt(w) \/ CallProvider(w) \/ FinishValidate(w) \/ FinishRollback(w)
               \/ FailAttempt(w, retryable, started)
        PROVE  nJobs' = nJobs
    BY <1>8 DEF BeginAttempt, CallProvider, FinishValidate, FinishRollback, FailAttempt
  <1> QED BY <1>2, <1>4, <1>5, <1>6, <1>7, <1>8 DEF Next, HandlerStep, AttemptStep

LEMMA GovernedInvNext == LeaseInv /\ GovernedInv /\ [Next]_vars => GovernedInv'
  <1> SUFFICES ASSUME LeaseInv, GovernedInv, [Next]_vars PROVE GovernedInv'
    OBVIOUS
  <1>1. policy' = policy /\ LeaseInv'
    BY EffectsGoOn, LeaseInvNext
  <1>2. \A a \in Actions : Governed(a) => Governed(a)'
    BY <1>1, ActionsGoOn DEF Governed, ActionGoesOn
  <1>3. ASSUME NEW a \in Actions
        PROVE  /\ external'[a] # "absent" => Governed(a)'
               /\ action'[a].status \in {"approved", "succeeded"} => Governed(a)'
               /\ action'[a].status = "needs_approval" => policy'[a] = "manual_approval"
    <2>1. external'[a] # "absent" => Governed(a)
      BY EffectsGoOn DEF GovernedInv
    <2>2. action'[a].status \in {"approved", "succeeded"} => Governed(a)'
      BY <1>1, <1>2, ActionsGoOn DEF GovernedInv, ActionGoesOn, Governed
    <2>3. action'[a].status = "needs_approval" => policy'[a] = "manual_approval"
      BY <1>1, ActionsGoOn DEF GovernedInv, ActionGoesOn
    <2> QED BY <1>2, <2>1, <2>2, <2>3
  <1>4. ASSUME NEW k \in JobIds, job'[k].status # "absent"
        PROVE  Governed(job[k].action)'
    <2>1. CASE k > nJobs
      BY <1>2, <1>4, <2>1, NewRowsGoverned DEF Governed
    <2>2. CASE k <= nJobs
      <3>1. k \in 1..nJobs
        BY <2>2, ConstantsAssumption DEF LeaseInv, TypeOK, JobIds
      <3>2. job'[k].action = job[k].action /\ job[k].action \in Actions
        BY <3>1, JobRow, JobsGoOn DEF RowGoesOn
      <3>3. Governed(job[k].action)
        BY <2>2, <3>1 DEF GovernedInv, LeaseInv, JobsInOrder
      <3> QED BY <1>2, <3>2, <3>3 DEF Governed
    <2> QED BY <2>1, <2>2, ConstantsAssumption DEF LeaseInv, TypeOK, JobIds
  <1>5. ASSUME NEW h \in Handlers
        PROVE  /\ request'[h].op \in {"enqueue_execution", "enqueue_rollback"} =>
                     Governed(request[h].action)'
               /\ request'[h].op = "approve" => policy'[request'[h].action] = "manual_approval"
    <2>1. CASE request'[h] = request[h]
      <3>1. request[h].op \notin {"none", "cancel_job"} => request[h].action \in Actions
        BY DEF LeaseInv, RequestsFormed
      <3> QED BY <1>1, <1>2, <2>1, <3>1 DEF GovernedInv, Governed
    <2>2. CASE request'[h] # request[h]
      BY <1>1, <1>2, <2>2, RequestsGoOn DEF Governed
    <2> QED BY <2>1, <2>2
  <1> QED BY <1>3, <1>4, <1>5 DEF GovernedInv, JobIds

\* Approval and policy are checked once, by the handler that enqueues, on what
\* it has read: it is enough for every interleaving, because an action that was
\* approved stays so and its policy does not change.
THEOREM EffectsAreGoverned == Spec => []GovernedEffect
  <1>1. Init => GovernedInv
    BY DEF Init, GovernedInv, NoJob, NoRequest, JobIds
  <1>2. LeaseInv /\ GovernedInv => GovernedEffect
    <2> SUFFICES ASSUME LeaseInv, GovernedInv, NEW a \in Actions,
                        external[a] # "absent" \/ \E j \in JobIds : job[j].action = a
                 PROVE  Governed(a)
      BY DEF GovernedEffect, Governed
    <2>1. ASSUME NEW j \in JobIds, job[j].action = a PROVE job[j].status # "absent"
      BY <2>1, ConstantsAssumption DEF LeaseInv, TypeOK, JobsInOrder, NoJob, JobIds
    <2> QED BY <2>1 DEF GovernedInv
  <1> QED BY <1>1, <1>2, GovernedInvNext, LeaseInvariance, PTL DEF Spec
-----------------------------------------------------------------------------
\* GovernedExecution implements DurableQueue: every step of the service is a step
\* of the abstract queue under the refinement mapping, or changes nothing of it.

\* What the abstract queue sees of a row.
RowPhase(r) ==
    IF r.status = "absent" THEN "absent"
    ELSE IF r.status \in {"queued", "retry_wait"} THEN "waiting"
    ELSE IF r.status = "running" THEN "leased" ELSE "done"

RowHolder(r) == IF r.status = "running" THEN r.owner ELSE None

\* The abstract state.
phaseOf == [j \in JobIds |-> RowPhase(job[j])]
holderOf == [j \in JobIds |-> RowHolder(job[j])]
usedOf == [j \in JobIds |-> job[j].attempts]

QueueStep == [Queue!QNext]_(Queue!qvars)

\* Two ways to say the mapping.
LEMMA Mapping ==
    /\ [j \in JobIds |-> Phase(j)] = phaseOf
    /\ [j \in JobIds |-> IF job[j].status = "running" THEN job[j].owner ELSE None] = holderOf
    /\ [j \in JobIds |-> job[j].attempts] = usedOf
  BY DEF phaseOf, holderOf, usedOf, RowPhase, RowHolder, Phase

\* A row the abstract queue sees no change of.
SameToQueue(r, s) ==
    RowPhase(s) = RowPhase(r) /\ RowHolder(s) = RowHolder(r) /\ s.attempts = r.attempts

LEMMA Stutters ==
    ASSUME \A j \in JobIds : SameToQueue(job[j], job'[j])
    PROVE  QueueStep
  <1>1. phaseOf' = phaseOf /\ holderOf' = holderOf /\ usedOf' = usedOf
    BY DEF phaseOf, holderOf, usedOf, SameToQueue, JobIds
  <1> QED BY <1>1 DEF QueueStep, Queue!qvars, phaseOf, holderOf, usedOf, RowPhase, RowHolder, Phase

LEMMA RowStutters ==
    ASSUME LeaseInv, NEW j \in JobIds, NEW r, job' = [job EXCEPT ![j] = r],
           SameToQueue(job[j], r)
    PROVE  QueueStep
  <1>1. \A k \in JobIds : SameToQueue(job[k], job'[k])
    BY DEF LeaseInv, TypeOK, SameToQueue
  <1> QED BY <1>1, Stutters

\* One row changes.
LEMMA OneRow ==
    ASSUME LeaseInv, NEW j \in JobIds, NEW r, job' = [job EXCEPT ![j] = r]
    PROVE  /\ phaseOf' = [phaseOf EXCEPT ![j] = RowPhase(r)]
           /\ holderOf' = [holderOf EXCEPT ![j] = RowHolder(r)]
           /\ usedOf' = [usedOf EXCEPT ![j] = r.attempts]
  BY DEF LeaseInv, TypeOK, phaseOf, holderOf, usedOf, JobIds

LEMMA Submits ==
    ASSUME LeaseInv, NEW j \in JobIds, NEW r, job' = [job EXCEPT ![j] = r],
           job[j] = NoJob, RowPhase(r) = "waiting", RowHolder(r) = None, r.attempts = 0
    PROVE  QueueStep
  <1>1. /\ phaseOf' = [phaseOf EXCEPT ![j] = RowPhase(r)]
        /\ holderOf' = [holderOf EXCEPT ![j] = RowHolder(r)]
        /\ usedOf' = [usedOf EXCEPT ![j] = r.attempts]
    BY OneRow
  <1>2. phaseOf[j] = "absent" /\ holderOf[j] = None /\ usedOf[j] = 0
    BY DEF phaseOf, holderOf, usedOf, RowPhase, RowHolder, NoJob
  <1>3. /\ phaseOf' = [phaseOf EXCEPT ![j] = "waiting"]
        /\ holderOf' = holderOf /\ usedOf' = usedOf
    BY <1>1, <1>2 DEF holderOf, usedOf
  <1>4. Queue!Submit(j)
    BY <1>2, <1>3 DEF Queue!Submit, phaseOf, holderOf, usedOf, RowPhase, RowHolder, Phase
  <1> QED BY <1>4 DEF QueueStep, Queue!QNext

LEMMA Leases ==
    ASSUME LeaseInv, NEW j \in JobIds, NEW w \in Workers, NEW r, job' = [job EXCEPT ![j] = r],
           job[j].status \in {"queued", "retry_wait"},
           r.status = "running", r.owner = w, r.attempts = job[j].attempts
    PROVE  QueueStep
  <1>1. /\ phaseOf' = [phaseOf EXCEPT ![j] = RowPhase(r)]
        /\ holderOf' = [holderOf EXCEPT ![j] = RowHolder(r)]
        /\ usedOf' = [usedOf EXCEPT ![j] = r.attempts]
    BY OneRow
  <1>2. phaseOf[j] = "waiting" /\ usedOf[j] = job[j].attempts /\ usedOf[j] < MaxAttempts
    BY RowsOK DEF phaseOf, usedOf, RowPhase, RowOK, ACTIVE_JOB_STATUSES
  <1>3. RowPhase(r) = "leased" /\ RowHolder(r) = w
    BY DEF RowPhase, RowHolder
  <1>4. /\ phaseOf' = [phaseOf EXCEPT ![j] = "leased"]
        /\ holderOf' = [holderOf EXCEPT ![j] = w]
        /\ usedOf' = usedOf
    BY <1>1, <1>2, <1>3 DEF usedOf
  <1>5. Queue!Lease(j, w)
    BY <1>2, <1>4 DEF Queue!Lease, phaseOf, holderOf, usedOf, RowPhase, RowHolder, Phase
  <1> QED BY <1>5 DEF QueueStep, Queue!QNext

LEMMA Withdraws ==
    ASSUME LeaseInv, NEW j \in JobIds, NEW r, job' = [job EXCEPT ![j] = r],
           job[j].status \in ACTIVE_JOB_STATUSES,
           RowPhase(r) = "done", r.attempts = job[j].attempts
    PROVE  QueueStep
  <1>1. /\ phaseOf' = [phaseOf EXCEPT ![j] = RowPhase(r)]
        /\ holderOf' = [holderOf EXCEPT ![j] = RowHolder(r)]
        /\ usedOf' = [usedOf EXCEPT ![j] = r.attempts]
    BY OneRow
  <1>2. phaseOf[j] \in {"waiting", "leased"} /\ usedOf[j] = job[j].attempts
    BY DEF phaseOf, usedOf, RowPhase, ACTIVE_JOB_STATUSES
  <1>3. RowHolder(r) = None
    BY DEF RowPhase, RowHolder
  <1>4. /\ phaseOf' = [phaseOf EXCEPT ![j] = "done"]
        /\ holderOf' = [holderOf EXCEPT ![j] = None]
        /\ usedOf' = usedOf
    BY <1>1, <1>2, <1>3 DEF usedOf
  <1>5. Queue!Withdraw(j)
    BY <1>2, <1>4 DEF Queue!Withdraw, phaseOf, holderOf, usedOf, RowPhase, RowHolder, Phase
  <1> QED BY <1>5 DEF QueueStep, Queue!QNext

\* An attempt is recorded, and the row waits for another one or has ended.
LEMMA Settles ==
    ASSUME LeaseInv, NEW j \in JobIds, NEW r, job' = [job EXCEPT ![j] = r],
           job[j].status = "running", r.attempts = job[j].attempts + 1,
           \/ RowPhase(r) = "waiting" /\ job[j].attempts + 1 < MaxAttempts
           \/ RowPhase(r) = "done"
    PROVE  QueueStep
  <1>1. /\ phaseOf' = [phaseOf EXCEPT ![j] = RowPhase(r)]
        /\ holderOf' = [holderOf EXCEPT ![j] = RowHolder(r)]
        /\ usedOf' = [usedOf EXCEPT ![j] = r.attempts]
    BY OneRow
  <1>2. phaseOf[j] = "leased" /\ usedOf[j] = job[j].attempts
    BY DEF phaseOf, usedOf, RowPhase
  <1>3. RowHolder(r) = None
    BY DEF RowPhase, RowHolder
  <1>4. usedOf[j] + 1 <= MaxAttempts
    <2>1. job[j] \in Job /\ RowOK(job[j])
      BY RowsOK DEF LeaseInv, TypeOK
    <2> QED BY <1>2, <2>1, ConstantsAssumption DEF Job, RowOK, ACTIVE_JOB_STATUSES
  <1>5. /\ usedOf' = [usedOf EXCEPT ![j] = @ + 1]
        /\ holderOf' = [holderOf EXCEPT ![j] = None]
    BY <1>1, <1>2, <1>3
  <1>6. CASE RowPhase(r) = "waiting" /\ job[j].attempts + 1 < MaxAttempts
    <2>1. phaseOf' = [phaseOf EXCEPT ![j] = "waiting"] /\ usedOf[j] + 1 < MaxAttempts
      BY <1>1, <1>2, <1>6
    <2>2. Queue!Settle(j, {})
      BY <1>2, <1>5, <2>1
         DEF Queue!Settle, phaseOf, holderOf, usedOf, RowPhase, RowHolder, Phase
    <2> QED BY <2>2 DEF QueueStep, Queue!QNext
  <1>7. CASE RowPhase(r) = "done"
    <2>1. phaseOf' = [u \in JobIds |-> IF u = j THEN "done"
                                       ELSE IF u \in {} THEN "waiting" ELSE phaseOf[u]]
      BY <1>1, <1>7 DEF phaseOf
    <2>2. Queue!Settle(j, {})
      BY <1>2, <1>4, <1>5, <2>1
         DEF Queue!Settle, phaseOf, holderOf, usedOf, RowPhase, RowHolder, Phase
    <2> QED BY <2>2 DEF QueueStep, Queue!QNext
  <1> QED BY <1>6, <1>7

\* An execution that ends puts its validation in the queue, in the same step.
LEMMA SettlesAndSubmits ==
    ASSUME LeaseInv, NEW j \in JobIds, NEW n \in JobIds, NEW r, NEW s, j # n,
           job' = [job EXCEPT ![j] = r, ![n] = s],
           job[j].status = "running", r.attempts = job[j].attempts + 1, RowPhase(r) = "done",
           job[n] = NoJob, RowPhase(s) = "waiting", RowHolder(s) = None, s.attempts = 0
    PROVE  QueueStep
  <1>1. /\ job'[j] = r /\ job'[n] = s
        /\ \A u \in JobIds \ {j, n} : job'[u] = job[u]
    BY DEF LeaseInv, TypeOK
  <1>2. phaseOf[j] = "leased" /\ usedOf[j] = job[j].attempts
    BY DEF phaseOf, usedOf, RowPhase
  <1>3. phaseOf[n] = "absent" /\ holderOf[n] = None /\ usedOf[n] = 0
    BY DEF phaseOf, holderOf, usedOf, RowPhase, RowHolder, NoJob
  <1>4. RowHolder(r) = None
    BY DEF RowPhase, RowHolder
  <1>5. usedOf[j] + 1 <= MaxAttempts
    <2>1. job[j] \in Job /\ RowOK(job[j])
      BY RowsOK DEF LeaseInv, TypeOK
    <2> QED BY <1>2, <2>1, ConstantsAssumption DEF Job, RowOK, ACTIVE_JOB_STATUSES
  <1>6. ASSUME NEW u \in JobIds
        PROVE  /\ RowPhase(job'[u]) = IF u = j THEN "done"
                                      ELSE IF u \in {n} THEN "waiting" ELSE phaseOf[u]
               /\ RowHolder(job'[u]) = IF u = j THEN None ELSE holderOf[u]
               /\ job'[u].attempts = IF u = j THEN usedOf[j] + 1 ELSE usedOf[u]
    <2>1. CASE u = j
      BY <1>1, <1>2, <1>4, <2>1
    <2>2. CASE u = n
      BY <1>1, <1>3, <2>2
    <2>3. CASE u \notin {j, n}
      <3>1. job'[u] = job[u] /\ u # j /\ u # n
        BY <1>1, <2>3
      <3>2. /\ phaseOf[u] = RowPhase(job[u]) /\ holderOf[u] = RowHolder(job[u])
            /\ usedOf[u] = job[u].attempts
        BY DEF phaseOf, holderOf, usedOf
      <3> QED BY <3>1, <3>2
    <2> QED BY <2>1, <2>2, <2>3
  <1>7. phaseOf' = [u \in JobIds |-> IF u = j THEN "done"
                                     ELSE IF u \in {n} THEN "waiting" ELSE phaseOf[u]]
    <2>1. phaseOf' = [u \in JobIds |-> RowPhase(job'[u])]
      BY DEF phaseOf, JobIds
    <2> QED BY <1>6, <2>1
  <1>8. /\ holderOf' = [holderOf EXCEPT ![j] = None]
        /\ usedOf' = [usedOf EXCEPT ![j] = @ + 1]
    <2>1. /\ holderOf' = [u \in JobIds |-> RowHolder(job'[u])]
          /\ usedOf' = [u \in JobIds |-> job'[u].attempts]
      BY DEF holderOf, usedOf, JobIds
    <2>2. /\ holderOf' = [u \in JobIds |-> IF u = j THEN None ELSE holderOf[u]]
          /\ usedOf' = [u \in JobIds |-> IF u = j THEN usedOf[j] + 1 ELSE usedOf[u]]
      BY <1>6, <2>1
    <2> QED BY <2>2 DEF holderOf, usedOf
  <1>9. Queue!Settle(j, {n})
    BY <1>2, <1>3, <1>5, <1>7, <1>8
       DEF Queue!Settle, phaseOf, holderOf, usedOf, RowPhase, RowHolder, Phase
  <1> QED BY <1>9 DEF QueueStep, Queue!QNext

\* Recovery gives every expired lease back, and none of the rows has used its
\* attempts up: AttemptBudget.
LEMMA Reclaims ==
    ASSUME LeaseInv, NEW w \in Workers, recover_expired_leases(w)
    PROVE  QueueStep
  <1>1. Expired # {} /\ Expired \in SUBSET JobIds
    BY DEF recover_expired_leases, Expired
  <1>2. ASSUME NEW j \in JobIds
        PROVE  /\ j \notin Expired => job'[j] = job[j]
               /\ j \in Expired =>
                     /\ RowPhase(job[j]) = "leased" /\ RowPhase(job'[j]) = "waiting"
                     /\ RowHolder(job'[j]) = None /\ job'[j].attempts = job[j].attempts
    <2>1. CASE j \notin Expired
      BY <2>1 DEF recover_expired_leases
    <2>2. CASE j \in Expired
      <3>1. job[j].status = "running" /\ job[j] \in Job /\ RowOK(job[j])
        BY <2>2, RowsOK DEF Expired, LeaseInv, TypeOK
      <3>2. ~(job[j].attempts >= MaxAttempts)
        BY <3>1, ConstantsAssumption DEF RowOK, Job, ACTIVE_JOB_STATUSES
      <3>3. job'[j] = [job[j] EXCEPT !.owner = None, !.live = TRUE, !.due = TRUE,
                                     !.status = "retry_wait"]
        BY <2>2, <3>2 DEF recover_expired_leases
      <3>4. job'[j].status = "retry_wait" /\ job'[j].attempts = job[j].attempts
        BY <3>1, <3>3 DEF Job
      <3> QED BY <2>2, <3>1, <3>4 DEF RowPhase, RowHolder
    <2> QED BY <2>1, <2>2
  <1>3. \A t \in Expired : phaseOf[t] = "leased"
    BY <1>1, <1>2 DEF phaseOf
  <1>4. phaseOf' = [t \in JobIds |-> IF t \in Expired THEN "waiting" ELSE phaseOf[t]]
    BY <1>2 DEF phaseOf, JobIds
  <1>5. holderOf' = [t \in JobIds |-> IF t \in Expired THEN None ELSE holderOf[t]]
    BY <1>2 DEF holderOf, JobIds
  <1>6. usedOf' = usedOf
    BY <1>2 DEF usedOf, JobIds
  <1>7. PICK S : S = Expired
    OBVIOUS
  <1>8. Queue!Reclaim(S)
    BY <1>1, <1>3, <1>4, <1>5, <1>6, <1>7
       DEF Queue!Reclaim, phaseOf, holderOf, usedOf, RowPhase, RowHolder, Phase
  <1> QED BY <1>1, <1>7, <1>8 DEF QueueStep, Queue!QNext
-----------------------------------------------------------------------------
\* The steps of the service.

LEMMA SameJobsStutter ==
    ASSUME UNCHANGED job
    PROVE  QueueStep
  BY Stutters DEF SameToQueue

LEMMA EnqueuesRefine ==
    ASSUME LeaseInv, NEW h \in Handlers, enqueue_execution(h) \/ enqueue_rollback(h)
    PROVE  QueueStep
  <1>1. \/ UNCHANGED job
        \/ \E type, a, key : /\ nJobs < MaxJobs
                             /\ job' = [job EXCEPT ![nJobs + 1] = QueuedJob(type, a, key)]
    BY DEF enqueue_execution, enqueue_rollback, Enqueue
  <1>2. ASSUME NEW type, NEW a, NEW key, nJobs < MaxJobs,
               job' = [job EXCEPT ![nJobs + 1] = QueuedJob(type, a, key)]
        PROVE  QueueStep
    <2>1. nJobs + 1 \in JobIds /\ job[nJobs + 1] = NoJob
      BY <1>2, ConstantsAssumption DEF LeaseInv, TypeOK, JobsInOrder, JobIds
    <2>2. PICK r : r = QueuedJob(type, a, key)
      OBVIOUS
    <2>3. r.status = "queued" /\ r.attempts = 0
      BY <2>2 DEF QueuedJob, NoJob
    <2>4. RowPhase(r) = "waiting" /\ RowHolder(r) = None
      BY <2>3 DEF RowPhase, RowHolder
    <2> QED BY <1>2, <2>1, <2>2, <2>3, <2>4, Submits
  <1> QED BY <1>1, <1>2, SameJobsStutter

\* A late cancellation of a job that has ended changes nothing the queue sees.
LEMMA CancellationsRefine ==
    ASSUME LeaseInv, NEW h \in Handlers, request_job_cancellation(h)
    PROVE  QueueStep
  <1> DEFINE j == request[h].job
  <1>1. j \in 1..nJobs
    BY DEF LeaseInv, RequestsFormed, request_job_cancellation, Flushed
  <1>2. j \in JobIds /\ job[j] \in Job /\ job[j].status # "absent"
    BY <1>1, JobRow, ConstantsAssumption DEF LeaseInv, TypeOK, JobsInOrder, JobIds
  <1>3. CASE job' = [job EXCEPT ![j].cancelReq = TRUE]
    <2>1. PICK r : r = [job[j] EXCEPT !.cancelReq = TRUE]
      OBVIOUS
    <2>2. job' = [job EXCEPT ![j] = r]
      BY <1>2, <1>3, <2>1 DEF LeaseInv, TypeOK, Job
    <2>3. r.status = job[j].status /\ r.owner = job[j].owner /\ r.attempts = job[j].attempts
      BY <1>2, <2>1 DEF Job
    <2>4. SameToQueue(job[j], r)
      BY <2>3 DEF SameToQueue, RowPhase, RowHolder
    <2> QED BY <1>2, <2>2, <2>4, RowStutters
  <1>4. CASE job' = [job EXCEPT ![j].cancelReq = TRUE, ![j].status = "cancelled"]
    <2>1. PICK r : r = [job[j] EXCEPT !.cancelReq = TRUE, !.status = "cancelled"]
      OBVIOUS
    <2>2. job' = [job EXCEPT ![j] = r]
      BY <1>2, <1>4, <2>1 DEF LeaseInv, TypeOK, Job
    <2>3. r.status = "cancelled" /\ r.attempts = job[j].attempts
      BY <1>2, <2>1 DEF Job
    <2>4. RowPhase(r) = "done" /\ RowHolder(r) = None
      BY <2>3 DEF RowPhase, RowHolder
    <2>5. CASE job[j].status \in ACTIVE_JOB_STATUSES
      BY <1>2, <2>2, <2>3, <2>4, <2>5, Withdraws
    <2>6. CASE job[j].status \in TERMINAL_JOB_STATUSES
      <3>1. RowPhase(job[j]) = "done" /\ RowHolder(job[j]) = None
        BY <2>6 DEF RowPhase, RowHolder, TERMINAL_JOB_STATUSES
      <3>2. SameToQueue(job[j], r)
        BY <2>3, <2>4, <3>1 DEF SameToQueue
      <3> QED BY <1>2, <2>2, <3>2, RowStutters
    <2> QED BY <1>2, <2>5, <2>6 DEF Job
  <1> QED BY <1>3, <1>4 DEF request_job_cancellation

LEMMA ClaimsRefine ==
    ASSUME LeaseInv, NEW w \in Workers, NEW j \in JobIds, claim_next_job(w, j)
    PROVE  QueueStep
  <1>1. job[j] \in Job /\ job[j].status \in {"queued", "retry_wait"}
    BY DEF LeaseInv, TypeOK, claim_next_job, Claimable
  <1>2. PICK r : r = [job[j] EXCEPT !.status = "running", !.owner = w, !.live = TRUE]
    OBVIOUS
  <1>3. job' = [job EXCEPT ![j] = r]
    BY <1>1, <1>2 DEF claim_next_job, LeaseInv, TypeOK, Job
  <1>4. r.status = "running" /\ r.owner = w /\ r.attempts = job[j].attempts
    BY <1>1, <1>2 DEF Job
  <1> QED BY <1>1, <1>3, <1>4, Leases

LEMMA BeginningsRefine ==
    ASSUME LeaseInv, NEW w \in Workers, BeginAttempt(w)
    PROVE  QueueStep
  <1> DEFINE j == worker[w].job
  <1>1. CASE UNCHANGED job
    BY <1>1, SameJobsStutter
  <1>2. CASE /\ job[j].status = "running"
             /\ job' = [job EXCEPT ![j].attempts = @ + 1, ![j].status = "cancelled"]
    <2>1. j \in JobIds /\ job[j] \in Job
      BY WorkerJob, JobRow DEF BeginAttempt
    <2>2. PICK r : r = [job[j] EXCEPT !.attempts = @ + 1, !.status = "cancelled"]
      OBVIOUS
    <2>3. job' = [job EXCEPT ![j] = r]
      BY <1>2, <2>1, <2>2 DEF LeaseInv, TypeOK, Job
    <2>4. r.status = "cancelled" /\ r.attempts = job[j].attempts + 1
      BY <2>1, <2>2 DEF Job
    <2>5. RowPhase(r) = "done"
      BY <2>4 DEF RowPhase
    <2> QED BY <1>2, <2>1, <2>3, <2>4, <2>5, Settles
  <1> QED BY <1>1, <1>2 DEF BeginAttempt

LEMMA SettledFields ==
    ASSUME NEW j, job[j] \in Job, NEW status, NEW due
    PROVE  /\ Settled(j, status).status = status
           /\ Settled(j, status).attempts = job[j].attempts + 1
           /\ [Settled(j, status) EXCEPT !.due = due].status = status
           /\ [Settled(j, status) EXCEPT !.due = due].attempts = job[j].attempts + 1
  BY DEF Settled, Job

LEMMA FinishesRefine ==
    ASSUME LeaseInv, NEW w \in Workers, FinishExecute(w) \/ FinishValidate(w) \/ FinishRollback(w)
    PROVE  QueueStep
  <1> DEFINE j == worker[w].job
  <1>1. InTransaction(w)
    BY DEF FinishExecute, FinishValidate, FinishRollback, InTransaction
  <1>2. /\ j \in 1..nJobs /\ j \in JobIds /\ job[j] \in Job
        /\ job[j].status = "running"
    BY <1>1, AttemptFacts, JobRow
  <1>3. PICK r : r = Settled(j, "succeeded")
    OBVIOUS
  <1>4. r.status = "succeeded" /\ r.attempts = job[j].attempts + 1
    BY <1>2, <1>3, SettledFields
  <1>5. RowPhase(r) = "done"
    BY <1>4 DEF RowPhase
  <1>6. \/ UNCHANGED job
        \/ job' = [job EXCEPT ![j] = r]
        \/ /\ nJobs < MaxJobs
           /\ job' = [job EXCEPT ![j] = r,
                                 ![nJobs + 1] = QueuedJob("validate", job[j].action, <<j, 0>>)]
    BY <1>3 DEF FinishExecute, FinishValidate, FinishRollback
  <1>7. CASE job' = [job EXCEPT ![j] = r]
    BY <1>2, <1>4, <1>5, <1>7, Settles
  <1>8. CASE /\ nJobs < MaxJobs
             /\ job' = [job EXCEPT ![j] = r,
                                   ![nJobs + 1] = QueuedJob("validate", job[j].action, <<j, 0>>)]
    <2>1. nJobs + 1 \in JobIds /\ nJobs + 1 # j /\ job[nJobs + 1] = NoJob
      BY <1>2, <1>8, ConstantsAssumption DEF LeaseInv, TypeOK, JobsInOrder, JobIds
    <2>2. PICK s : s = QueuedJob("validate", job[j].action, <<j, 0>>)
      OBVIOUS
    <2>3. s.status = "queued" /\ s.attempts = 0
      BY <2>2 DEF QueuedJob, NoJob
    <2>4. RowPhase(s) = "waiting" /\ RowHolder(s) = None
      BY <2>3 DEF RowPhase, RowHolder
    <2>5. job' = [job EXCEPT ![j] = r, ![nJobs + 1] = s]
      BY <1>8, <2>2
    <2> QED BY <1>2, <1>4, <1>5, <2>1, <2>3, <2>4, <2>5, SettlesAndSubmits
  <1> QED BY <1>6, <1>7, <1>8, SameJobsStutter

LEMMA FailuresRefine ==
    ASSUME LeaseInv, NEW w \in Workers, NEW retryable \in BOOLEAN, NEW started \in BOOLEAN,
           FailAttempt(w, retryable, started)
    PROVE  QueueStep
  <1> DEFINE j == worker[w].job
             retry == retryable /\ job[j].attempts + 1 < MaxAttempts
             status == IF retry THEN "retry_wait" ELSE "failed"
  <1>1. InTransaction(w) /\ job' = [job EXCEPT ![j] = [Settled(j, status) EXCEPT !.due = ~retry]]
    BY DEF FailAttempt
  <1>2. j \in JobIds /\ job[j] \in Job /\ job[j].status = "running"
    BY <1>1, AttemptFacts, JobRow
  <1>3. PICK d : d = ~retry
    OBVIOUS
  <1>4. \/ status = "retry_wait" /\ job[j].attempts + 1 < MaxAttempts
        \/ status = "failed"
    OBVIOUS
  <1> HIDE DEF retry, status
  <1>5. PICK r : r = [Settled(j, status) EXCEPT !.due = d]
    OBVIOUS
  <1>6. job' = [job EXCEPT ![j] = r]
    BY <1>1, <1>3, <1>5
  <1>7. r.status = status /\ r.attempts = job[j].attempts + 1
    BY <1>2, <1>5, SettledFields
  <1>8. \/ RowPhase(r) = "waiting" /\ job[j].attempts + 1 < MaxAttempts
        \/ RowPhase(r) = "done"
    BY <1>4, <1>7 DEF RowPhase
  <1> QED BY <1>2, <1>6, <1>7, <1>8, Settles

LEMMA ClocksRefine ==
    ASSUME LeaseInv, NEW j \in JobIds, LeaseExpires(j) \/ BackoffEnds(j)
    PROVE  QueueStep
  <1>1. job[j] \in Job
    BY DEF LeaseInv, TypeOK
  <1>2. PICK r : \/ r = [job[j] EXCEPT !.live = FALSE] /\ LeaseExpires(j)
                 \/ r = [job[j] EXCEPT !.due = TRUE] /\ BackoffEnds(j)
    OBVIOUS
  <1>3. job' = [job EXCEPT ![j] = r]
    BY <1>1, <1>2 DEF LeaseExpires, BackoffEnds, LeaseInv, TypeOK, Job
  <1>4. r.status = job[j].status /\ r.owner = job[j].owner /\ r.attempts = job[j].attempts
    BY <1>1, <1>2 DEF Job
  <1>5. SameToQueue(job[j], r)
    BY <1>4 DEF SameToQueue, RowPhase, RowHolder
  <1> QED BY <1>3, <1>5, RowStutters

LEMMA StepsRefine == LeaseInv /\ [Next]_vars => QueueStep
  <1> SUFFICES ASSUME LeaseInv, [Next]_vars PROVE QueueStep
    OBVIOUS
  <1>1. ASSUME NEW h \in Handlers,
               \/ \E a \in Actions, op \in Operations : ReadAction(h, a, op)
               \/ \E j \in JobIds : ReadJob(h, j)
               \/ ReadActionOfJob(h) \/ RequestFails(h)
               \/ propose_action(h) \/ decide_approve(h) \/ decide_reject(h) \/ cancel_action(h)
        PROVE  UNCHANGED job
    BY <1>1 DEF ReadAction, ReadJob, ReadActionOfJob, RequestFails,
                propose_action, decide_approve, decide_reject, cancel_action
  <1>2. ASSUME NEW w \in Workers, CallProvider(w) \/ WorkerDies(w) PROVE UNCHANGED job
    BY <1>2 DEF CallProvider, WorkerDies
  <1>3. CASE (\E a \in Actions : create_action(a)) \/ UNCHANGED vars
    BY <1>3, SameJobsStutter DEF create_action, vars
  <1>4. ASSUME NEW h \in Handlers, HandlerStep(h) PROVE QueueStep
    BY <1>1, <1>4, SameJobsStutter, EnqueuesRefine, CancellationsRefine DEF HandlerStep
  <1>5. ASSUME NEW w \in Workers, AttemptStep(w) PROVE QueueStep
    BY <1>2, <1>5, SameJobsStutter, BeginningsRefine, FinishesRefine, FailuresRefine
       DEF AttemptStep
  <1>6. ASSUME NEW w \in Workers, Claim(w) PROVE QueueStep
    BY <1>6, ClaimsRefine DEF Claim
  <1> QED BY <1>2, <1>3, <1>4, <1>5, <1>6, SameJobsStutter, Reclaims, ClocksRefine DEF Next

LEMMA QueueStarts == Init => Queue!QInit
  <1> SUFFICES ASSUME Init PROVE Queue!QInit
    OBVIOUS
  <1>1. \A j \in JobIds : job[j].status = "absent" /\ job[j].attempts = 0
    BY DEF Init, NoJob
  <1> QED BY <1>1 DEF Queue!QInit, Phase

\* The service keeps the promise of the abstract queue: a job waits, is leased
\* by one worker at a time and is done for good, every lease ends in at most
\* one recorded attempt, and the validation of an execution enters the queue in
\* the very step that ends the execution.
THEOREM ImplementsTheQueue == Spec => ImplementsDurableQueue
  <1>1. LeaseInv /\ [Next]_vars => [Queue!QNext]_(Queue!qvars)
    BY StepsRefine DEF QueueStep
  <1> QED BY <1>1, QueueStarts, LeaseInvariance, PTL DEF Spec, ImplementsDurableQueue, Queue!QSpec
-----------------------------------------------------------------------------
(* The history of an action is in order: the relations between the jobs of   *)
(* one action, its snapshots and its effect.                                 *)


\* The version an action has whenever it is approved: a late proposal or
\* approval writes the version it computed from what it read, so it can put
\* the action back, and never to another version.
ApprovedAt(a) == IF policy[a] = "auto_approve" THEN 2 ELSE 3

\* What is read and written before an execution is always at the same version.
VersionsInOrder ==
    /\ \A a \in Actions :
          /\ action[a].status = "draft" => action[a].version = 1
          /\ action[a].status = "needs_approval" =>
                action[a].version = 2 /\ policy[a] # "auto_approve"
          /\ action[a].status = "approved" => action[a].version = ApprovedAt(a)
    /\ \A h \in Handlers :
          /\ request[h].op = "propose" => request[h].version = 1
          /\ request[h].op = "approve" =>
                request[h].version = 2 /\ policy[request[h].action] # "auto_approve"
          /\ request[h].op = "enqueue_execution" =>
                request[h].version = ApprovedAt(request[h].action)

\* Hence all enqueues of an execution compute the same key.
ExecutesOnce ==
    \A j \in JobIds : job[j].status # "absent" /\ job[j].type = "execute" =>
        job[j].key = <<ApprovedAt(job[j].action), 0>>

\* An attempt that has called the provider has left something there.
EffectIsMade ==
    \A w \in Workers : worker[w].pc = "effect" /\ job[worker[w].job].type = "execute" =>
        external[job[worker[w].job].action] # "absent"

\* A validation of the action has ended.
Validated(a) ==
    \E v \in JobIds : job[v].type = "validate" /\ job[v].action = a /\ Terminal(v)

\* Nobody has seen the action succeeded.
NotSucceeded(a) ==
    /\ action[a].status # "succeeded"
    /\ \A h \in Handlers : request[h].op = "enqueue_rollback" => request[h].action # a
    /\ \A j \in JobIds :
          job[j].status # "absent" /\ job[j].type = "rollback" => job[j].action # a

\* Whoever has seen it succeeded has seen version n, and the snapshots there are.
SucceededAt(a, n) ==
    /\ action[a].status = "succeeded" => action[a].version = n
    /\ \A h \in Handlers :
          request[h].op = "enqueue_rollback" /\ request[h].action = a => request[h].version = n
    /\ \A j \in JobIds :
          job[j].status # "absent" /\ job[j].type = "rollback" /\ job[j].action = a =>
              job[j].key = <<n, snaps[a]>>

\* Only the one validation of an action makes it succeed, and it ends with that.
SucceedsOnce ==
    \A a \in Actions :
        /\ Validated(a) \/ NotSucceeded(a)
        /\ \E n \in Nat : SucceededAt(a, n)

\* The inductive invariant, together with LeaseInv.
HistoryInv ==
    /\ VersionsInOrder
    /\ ExecutesOnce
    /\ EffectIsMade
    /\ SucceedsOnce
    /\ OneJobPerType
    /\ ValidationFollowsExecution
    /\ SnapshotBeforeEffect
-----------------------------------------------------------------------------
\* What one step may write to an action.

Milestones == {"draft", "needs_approval", "approved", "succeeded", "rolled_back"}

StatusGoesOn(a) ==
    \/ action'[a].status = action[a].status /\ action'[a].version = action[a].version
    \/ action'[a].status = "draft" /\ action'[a].version = 1
    \/ /\ action'[a].status = "needs_approval" /\ action'[a].version = 2
       /\ policy[a] # "auto_approve"
    \/ action'[a].status = "approved" /\ action'[a].version = ApprovedAt(a)
    \/ /\ action'[a].status = "succeeded"
       /\ \E w \in Workers : FinishValidate(w) /\ job[worker[w].job].action = a
    \/ /\ action'[a].status = "rolled_back"
       /\ \E w \in Workers : FinishRollback(w) /\ job[worker[w].job].action = a
    \/ action'[a].status \notin Milestones

LEMMA WriteMovesOn ==
    ASSUME LeaseInv, NEW b, NEW status, NEW version, WriteAction(b, status, version),
           status \notin Milestones
    PROVE  \A a \in Actions : StatusGoesOn(a)
  <1> SUFFICES ASSUME NEW a \in Actions PROVE StatusGoesOn(a)
    OBVIOUS
  <1>1. action[a] \in Action
    BY DEF LeaseInv, TypeOK
  <1>2. CASE a # b
    BY <1>2 DEF LeaseInv, TypeOK, WriteAction, StatusGoesOn
  <1>3. CASE a = b
    <2>1. action'[a].status = status
      BY <1>1, <1>3 DEF LeaseInv, TypeOK, WriteAction, Action
    <2> QED BY <2>1 DEF StatusGoesOn
  <1> QED BY <1>2, <1>3

LEMMA SameStatuses ==
    ASSUME UNCHANGED action
    PROVE  \A a \in Actions : StatusGoesOn(a)
  BY DEF StatusGoesOn

LEMMA StatusesGoOn ==
    ASSUME LeaseInv, VersionsInOrder, [Next]_vars
    PROVE  \A a \in Actions : StatusGoesOn(a)
  <1> DEFINE Goal == \A a \in Actions : StatusGoesOn(a)
  <1>1. CASE UNCHANGED action
    BY <1>1, SameStatuses
  <1>2. ASSUME NEW b \in Actions, create_action(b) PROVE Goal
    <2> SUFFICES ASSUME NEW a \in Actions PROVE StatusGoesOn(a)
      OBVIOUS
    <2>1. CASE a # b
      BY <1>2, <2>1 DEF create_action, WriteAction, LeaseInv, TypeOK, StatusGoesOn
    <2>2. CASE a = b
      BY <1>2, <2>2 DEF create_action, WriteAction, LeaseInv, TypeOK, Action, StatusGoesOn
    <2> QED BY <2>1, <2>2
  <1>3. ASSUME NEW h \in Handlers, propose_action(h) \/ decide_approve(h) PROVE Goal
    <2> DEFINE b == request[h].action
    <2>1. b \in Actions /\ action[b] \in Action /\ policy[b] \in Modes
      BY <1>3 DEF propose_action, decide_approve, Commits, LeaseInv, RequestsFormed, TypeOK
    <2> SUFFICES ASSUME NEW a \in Actions PROVE StatusGoesOn(a)
      OBVIOUS
    <2>2. CASE a # b
      BY <1>3, <2>2 DEF propose_action, decide_approve, LeaseInv, TypeOK, StatusGoesOn
    <2>3. CASE a = b /\ propose_action(h)
      <3>1. /\ action'[a].status = CASE policy[a] = "blocked" -> "blocked"
                                     [] policy[a] = "auto_approve" -> "approved"
                                     [] policy[a] = "manual_approval" -> "needs_approval"
            /\ action'[a].version = request[h].version + 1
        BY <2>1, <2>3 DEF propose_action, LeaseInv, TypeOK, Action
      <3>2. request[h].version = 1
        BY <2>3 DEF propose_action, Commits, VersionsInOrder
      <3> QED BY <2>1, <2>3, <3>1, <3>2 DEF StatusGoesOn, Modes, ApprovedAt, Milestones
    <2>4. CASE a = b /\ decide_approve(h)
      <3>1. action'[a].status = "approved" /\ action'[a].version = request[h].version + 1
        BY <2>1, <2>4 DEF decide_approve, LeaseInv, TypeOK, Action
      <3>2. request[h].version = 2 /\ policy[a] # "auto_approve"
        BY <2>4 DEF decide_approve, Commits, VersionsInOrder
      <3> QED BY <3>1, <3>2 DEF StatusGoesOn, ApprovedAt
    <2> QED BY <1>3, <2>2, <2>3, <2>4
  <1>4. ASSUME NEW h \in Handlers,
               \/ decide_reject(h) \/ cancel_action(h) \/ enqueue_execution(h)
               \/ enqueue_rollback(h) \/ request_job_cancellation(h)
        PROVE  Goal
    BY <1>1, <1>4, WriteMovesOn
       DEF decide_reject, cancel_action, enqueue_execution, enqueue_rollback, Enqueue,
           request_job_cancellation, Milestones
  <1>5. ASSUME NEW w \in Workers, NEW retryable \in BOOLEAN, NEW started \in BOOLEAN,
               FailAttempt(w, retryable, started)
        PROVE  Goal
    <2> DEFINE j == worker[w].job
               retry == retryable /\ job[j].attempts + 1 < MaxAttempts
               written == IF retry THEN StatusForRetry(job[j].type) ELSE "failed"
               steps == IF started /\ job[j].type # "validate" THEN 2 ELSE 1
    <2>1. job[j].type \in JobTypes
      BY <1>5, AttemptFacts, JobRow DEF FailAttempt, Job
    <2>2. written \notin Milestones
      BY <2>1 DEF StatusForRetry, JobTypes, Milestones
    <2>3. WriteAction(job[j].action, written, action[job[j].action].version + steps)
      BY <1>5 DEF FailAttempt
    <2> HIDE DEF written, steps
    <2> QED BY <2>2, <2>3, WriteMovesOn
  <1>6. ASSUME NEW w \in Workers, BeginAttempt(w) \/ FinishExecute(w) PROVE Goal
    <2>1. CASE BeginAttempt(w)
      BY <2>1, <1>1, WriteMovesOn DEF BeginAttempt, Milestones
    <2>2. CASE FinishExecute(w)
      BY <2>2, <1>1, WriteMovesOn DEF FinishExecute, Milestones
    <2> QED BY <1>6, <2>1, <2>2
  <1>7. ASSUME NEW w \in Workers, FinishValidate(w) \/ FinishRollback(w) PROVE Goal
    <2> DEFINE b == job[worker[w].job].action
    <2> SUFFICES ASSUME NEW a \in Actions PROVE StatusGoesOn(a)
      OBVIOUS
    <2>1. CASE a # b
      BY <1>7, <2>1 DEF FinishValidate, FinishRollback, WriteAction, LeaseInv, TypeOK,
                        StatusGoesOn
    <2>2. CASE a = b /\ FinishValidate(w)
      <3>1. action'[a].status = "succeeded"
        BY <2>2 DEF FinishValidate, WriteAction, LeaseInv, TypeOK, Action
      <3> QED BY <2>2, <3>1 DEF StatusGoesOn
    <2>3. CASE a = b /\ FinishRollback(w)
      <3>1. action'[a].status = "rolled_back"
        BY <2>3 DEF FinishRollback, WriteAction, LeaseInv, TypeOK, Action
      <3> QED BY <2>3, <3>1 DEF StatusGoesOn
    <2> QED BY <1>7, <2>1, <2>2, <2>3
  <1>8. ASSUME NEW w \in Workers,
               \/ recover_expired_leases(w) \/ Claim(w) \/ CallProvider(w) \/ WorkerDies(w)
        PROVE  Goal
    BY <1>1, <1>8
       DEF recover_expired_leases, Claim, claim_next_job, CallProvider, WorkerDies
  <1>9. ASSUME NEW h \in Handlers,
               \/ \E a \in Actions, op \in Operations : ReadAction(h, a, op)
               \/ \E j \in JobIds : ReadJob(h, j)
               \/ ReadActionOfJob(h) \/ RequestFails(h)
        PROVE  Goal
    BY <1>1, <1>9 DEF ReadAction, ReadJob, ReadActionOfJob, RequestFails
  <1>10. ASSUME NEW j \in JobIds, LeaseExpires(j) \/ BackoffEnds(j) PROVE Goal
    BY <1>1, <1>10 DEF LeaseExpires, BackoffEnds
  <1>11. CASE UNCHANGED vars
    BY <1>1, <1>11 DEF vars
  <1> QED BY <1>2, <1>3, <1>4, <1>5, <1>6, <1>7, <1>8, <1>9, <1>10, <1>11
       DEF Next, HandlerStep, AttemptStep
-----------------------------------------------------------------------------
\* What one step does to a request: only a read of the action fills it in.

HasRead(h) ==
    /\ request'[h].action \in Actions
    /\ request'[h].version = action[request'[h].action].version
    /\ Accepts(request'[h].op, action[request'[h].action].status)

LEMMA RequestsRead ==
    ASSUME LeaseInv, [Next]_vars, NEW h \in Handlers
    PROVE  \/ request'[h] = request[h]
           \/ request'[h].op \in {"none", "cancel_job"}
           \/ HasRead(h) /\ UNCHANGED <<action, job>>
  <1> DEFINE Goal == \/ request'[h] = request[h]
                     \/ request'[h].op \in {"none", "cancel_job"}
                     \/ HasRead(h) /\ UNCHANGED <<action, job>>
  <1>1. CASE request' = request
    BY <1>1
  <1>2. ASSUME NEW g \in Handlers, EndRequest(g) PROVE Goal
    BY <1>2 DEF EndRequest, NoRequest, LeaseInv, TypeOK
  <1>3. ASSUME NEW g \in Handlers, NEW a \in Actions, NEW op \in Operations, ReadAction(g, a, op)
        PROVE  Goal
    <2>1. CASE g # h
      BY <1>3, <2>1 DEF ReadAction, LeaseInv, TypeOK
    <2>2. CASE g = h
      <3>1. /\ request'[h].op = op /\ request'[h].action = a
            /\ request'[h].version = action[a].version
        BY <1>3, <2>2 DEF ReadAction, NoRequest, LeaseInv, TypeOK
      <3>2. Accepts(op, action[a].status) /\ UNCHANGED <<action, job>>
        BY <1>3 DEF ReadAction
      <3> QED BY <3>1, <3>2 DEF HasRead
    <2> QED BY <2>1, <2>2
  <1>4. ASSUME NEW g \in Handlers, NEW j \in JobIds, ReadJob(g, j) PROVE Goal
    BY <1>4 DEF ReadJob, NoRequest, LeaseInv, TypeOK
  <1>5. ASSUME NEW g \in Handlers, ReadActionOfJob(g) PROVE Goal
    <2>1. CASE g # h
      BY <1>5, <2>1 DEF ReadActionOfJob, LeaseInv, TypeOK
    <2>2. CASE g = h
      BY <1>5, <2>2 DEF ReadActionOfJob, LeaseInv, TypeOK, Request
    <2> QED BY <2>1, <2>2
  <1>6. ASSUME NEW g \in Handlers,
               \/ propose_action(g) \/ decide_approve(g) \/ decide_reject(g) \/ cancel_action(g)
               \/ enqueue_execution(g) \/ enqueue_rollback(g) \/ request_job_cancellation(g)
               \/ RequestFails(g)
        PROVE  Goal
    <2>1. EndRequest(g)
      BY <1>6 DEF propose_action, decide_approve, decide_reject, cancel_action, Commits,
                  enqueue_execution, enqueue_rollback, request_job_cancellation, RequestFails
    <2> QED BY <1>2, <2>1
  <1>7. CASE \/ \E a \in Actions : create_action(a)
             \/ \E w \in Workers : \/ recover_expired_leases(w) \/ Claim(w)
                                   \/ AttemptStep(w) \/ WorkerDies(w)
             \/ \E j \in JobIds : LeaseExpires(j) \/ BackoffEnds(j)
             \/ UNCHANGED vars
    BY <1>1, <1>7
       DEF create_action, recover_expired_leases, Claim, claim_next_job, AttemptStep, BeginAttempt,
           CallProvider, FinishExecute, FinishValidate, FinishRollback, FailAttempt, WorkerDies,
           LeaseExpires, BackoffEnds, vars
  <1> QED BY <1>3, <1>4, <1>5, <1>6, <1>7 DEF Next, HandlerStep
-----------------------------------------------------------------------------
\* Where new rows come from.

Enqueued(k, type, a, key) ==
    /\ a \in Actions
    /\ ~KeyExists(type, a, key)
    /\ job'[k] = QueuedJob(type, a, key)

\* What the handler of a request enqueues, or a worker that ends an execution.
NewRow(k) ==
    \/ \E h \in Handlers :
          /\ request[h].op = "enqueue_execution"
          /\ Enqueued(k, "execute", request[h].action, <<request[h].version, 0>>)
    \/ \E h \in Handlers :
          /\ request[h].op = "enqueue_rollback" /\ snaps[request[h].action] # 0
          /\ Enqueued(k, "rollback", request[h].action,
                      <<request[h].version, snaps[request[h].action]>>)
    \/ \E w \in Workers :
          /\ FinishExecute(w) /\ worker[w].job # k
          /\ Enqueued(k, "validate", job[worker[w].job].action, <<worker[w].job, 0>>)
          /\ job'[worker[w].job] = Settled(worker[w].job, "succeeded")
          /\ snaps'[job[worker[w].job].action] = snaps[job[worker[w].job].action] + 1

LEMMA NewRows ==
    ASSUME LeaseInv, [Next]_vars, NEW k \in JobIds, k > nJobs, job'[k].status # "absent"
    PROVE  k = nJobs + 1 /\ NewRow(k)
  <1> DEFINE Goal == k = nJobs + 1 /\ NewRow(k)
  <1>1. job[k] = NoJob /\ job[k].status = "absent" /\ k \notin 1..nJobs /\ nJobs \in Nat
    BY ConstantsAssumption DEF LeaseInv, TypeOK, JobsInOrder, NoJob, JobIds
  <1>2. nJobs' # nJobs
    <2>1. JobsInOrder'
      BY LeaseInvNext DEF LeaseInv
    <2> QED BY <2>1 DEF JobsInOrder, JobIds, NoJob
  <1>3. ASSUME NEW h \in Handlers, enqueue_execution(h) \/ enqueue_rollback(h) PROVE Goal
    <2> DEFINE a == request[h].action
    <2>1. a \in Actions
      BY <1>3 DEF LeaseInv, RequestsFormed, enqueue_execution, enqueue_rollback, Commits
    <2>2. ASSUME NEW type, NEW key, NEW status, Enqueue(h, type, key, status)
          PROVE  k = nJobs + 1 /\ Enqueued(k, type, a, key)
      <3>1. ~KeyExists(type, a, key) /\ job' = [job EXCEPT ![nJobs + 1] = QueuedJob(type, a, key)]
        BY <1>2, <2>2 DEF Enqueue
      <3>2. k = nJobs + 1 /\ job'[k] = QueuedJob(type, a, key)
        BY <1>1, <1>3, <3>1 DEF LeaseInv, TypeOK
      <3> QED BY <2>1, <3>1, <3>2 DEF Enqueued
    <2>3. CASE enqueue_execution(h)
      BY <2>2, <2>3 DEF enqueue_execution, Commits, NewRow
    <2>4. CASE enqueue_rollback(h)
      BY <1>2, <2>2, <2>4 DEF enqueue_rollback, Commits, NewRow
    <2> QED BY <1>3, <2>3, <2>4
  <1>4. ASSUME NEW w \in Workers, FinishExecute(w) PROVE Goal
    <2> DEFINE j == worker[w].job
               a == job[j].action
    <2>1. j \in 1..nJobs /\ j \in JobIds /\ a \in Actions
      BY <1>4, AttemptFacts, JobRow DEF FinishExecute, InTransaction
    <2>2. /\ ~KeyExists("validate", a, <<j, 0>>)
          /\ job' = [job EXCEPT ![j] = Settled(j, "succeeded"),
                                ![nJobs + 1] = QueuedJob("validate", a, <<j, 0>>)]
          /\ snaps' = [snaps EXCEPT ![a] = @ + 1]
      BY <1>2, <1>4 DEF FinishExecute
    <2>3. k # j /\ j # nJobs + 1
      BY <1>1, <2>1
    <2>4. k = nJobs + 1 /\ job'[k] = QueuedJob("validate", a, <<j, 0>>)
      BY <1>1, <1>4, <2>2, <2>3 DEF LeaseInv, TypeOK
    <2>5. job'[j] = Settled(j, "succeeded")
      BY <2>1, <2>2, <2>3 DEF LeaseInv, TypeOK
    <2>6. snaps'[a] = snaps[a] + 1
      BY <2>1, <2>2 DEF LeaseInv, TypeOK
    <2> QED BY <1>4, <2>1, <2>2, <2>3, <2>4, <2>5, <2>6 DEF NewRow, Enqueued
  <1>5. ASSUME NEW g \in Handlers,
               \/ \E a \in Actions, op \in Operations : ReadAction(g, a, op)
               \/ \E j \in JobIds : ReadJob(g, j)
               \/ ReadActionOfJob(g) \/ RequestFails(g)
               \/ propose_action(g) \/ decide_approve(g) \/ decide_reject(g) \/ cancel_action(g)
               \/ request_job_cancellation(g)
        PROVE  nJobs' = nJobs
    BY <1>5 DEF ReadAction, ReadJob, ReadActionOfJob, RequestFails, propose_action,
                decide_approve, decide_reject, cancel_action, request_job_cancellation
  <1>6. CASE \/ \E a \in Actions : create_action(a)
             \/ \E w \in Workers : recover_expired_leases(w) \/ Claim(w) \/ WorkerDies(w)
             \/ \E j \in JobIds : LeaseExpires(j) \/ BackoffEnds(j)
             \/ UNCHANGED vars
    BY <1>2, <1>6 DEF create_action, recover_expired_leases, Claim, claim_next_job, WorkerDies,
                      LeaseExpires, BackoffEnds, vars
  <1>7. ASSUME NEW w \in Workers, NEW retryable, NEW started,
               \/ BeginAttempt(w) \/ CallProvider(w) \/ FinishValidate(w) \/ FinishRollback(w)
               \/ FailAttempt(w, retryable, started)
        PROVE  nJobs' = nJobs
    BY <1>7 DEF BeginAttempt, CallProvider, FinishValidate, FinishRollback, FailAttempt
  <1> QED BY <1>2, <1>3, <1>4, <1>5, <1>6, <1>7 DEF Next, HandlerStep, AttemptStep

\* Snapshots are only added, and only by the attempt that executes; what the
\* provider holds is never forgotten.
LEMMA EffectsStay ==
    ASSUME LeaseInv, [Next]_vars, NEW a \in Actions
    PROVE  /\ policy' = policy
           /\ snaps[a] \in Nat /\ snaps'[a] \in Nat /\ snaps'[a] >= snaps[a]
           /\ external[a] # "absent" => external'[a] # "absent"
           /\ snaps'[a] # snaps[a] =>
                 \E w \in Workers : /\ InTransaction(w) /\ job[worker[w].job].action = a
                                    /\ job[worker[w].job].type = "execute"
  <1> DEFINE Changed == \E w \in Workers : /\ InTransaction(w) /\ job[worker[w].job].action = a
                                           /\ job[worker[w].job].type = "execute"
             Goal == /\ policy' = policy
                     /\ snaps'[a] \in Nat /\ snaps'[a] >= snaps[a]
                     /\ external[a] # "absent" => external'[a] # "absent"
                     /\ snaps'[a] # snaps[a] => Changed
  <1>1. snaps[a] \in Nat /\ snaps \in [Actions -> Nat] /\ external \in [Actions -> {"absent", "applied", "reverted"}]
    BY DEF LeaseInv, TypeOK
  <1>2. CASE UNCHANGED <<policy, snaps, external>>
    BY <1>1, <1>2
  <1>3. ASSUME NEW h \in Handlers, HandlerStep(h) PROVE UNCHANGED <<policy, snaps, external>>
    BY <1>3 DEF HandlerStep, ReadAction, ReadJob, ReadActionOfJob, propose_action, decide_approve,
                decide_reject, cancel_action, enqueue_execution, enqueue_rollback,
                request_job_cancellation, RequestFails
  <1>4. ASSUME NEW w \in Workers, CallProvider(w) PROVE Goal
    <2>1. UNCHANGED <<policy, snaps>>
      BY <1>4 DEF CallProvider
    <2>2. external[a] # "absent" => external'[a] # "absent"
      BY <1>1, <1>4 DEF CallProvider
    <2> QED BY <1>1, <2>1, <2>2
  <1>5. ASSUME NEW w \in Workers, NEW retryable, NEW started,
               FinishExecute(w) \/ FailAttempt(w, retryable, started)
        PROVE  Goal
    <2> DEFINE b == job[worker[w].job].action
    <2>1. UNCHANGED <<policy, external>> /\ InTransaction(w)
      BY <1>5 DEF FinishExecute, FailAttempt, InTransaction
    <2>2. \/ snaps' = snaps
          \/ snaps' = [snaps EXCEPT ![b] = @ + 1] /\ job[worker[w].job].type = "execute"
      <3>1. CASE FinishExecute(w)
        BY <3>1 DEF FinishExecute
      <3>2. CASE FailAttempt(w, retryable, started)
        <4>1. CASE started /\ job[worker[w].job].type = "execute"
          BY <3>2, <4>1 DEF FailAttempt
        <4>2. CASE ~(started /\ job[worker[w].job].type = "execute")
          <5>1. snaps' = [snaps EXCEPT ![b] = @]
            BY <3>2, <4>2 DEF FailAttempt
          <5> QED BY <5>1, <1>1
        <4> QED BY <4>1, <4>2
      <3> QED BY <1>5, <3>1, <3>2
    <2>3. CASE snaps' = snaps
      BY <1>1, <2>1, <2>3
    <2>4. CASE snaps' = [snaps EXCEPT ![b] = @ + 1] /\ job[worker[w].job].type = "execute"
      BY <1>1, <2>1, <2>4
    <2> QED BY <2>2, <2>3, <2>4
  <1>6. ASSUME NEW w \in Workers,
               \/ recover_expired_leases(w) \/ Claim(w) \/ WorkerDies(w)
               \/ BeginAttempt(w) \/ FinishValidate(w) \/ FinishRollback(w)
        PROVE  UNCHANGED <<policy, snaps, external>>
    BY <1>6 DEF recover_expired_leases, Claim, claim_next_job, WorkerDies, BeginAttempt,
                FinishValidate, FinishRollback
  <1>7. CASE \/ \E b \in Actions : create_action(b)
             \/ \E j \in JobIds : LeaseExpires(j) \/ BackoffEnds(j)
             \/ UNCHANGED vars
    BY <1>2, <1>7 DEF create_action, LeaseExpires, BackoffEnds, vars
  <1>8. Goal
    BY <1>2, <1>3, <1>4, <1>5, <1>6, <1>7 DEF Next, AttemptStep
  <1> QED BY <1>1, <1>8

\* Rows stay, with their identity, and end once.
LEMMA RowsStay ==
    ASSUME LeaseInv, [Next]_vars, NEW k \in JobIds, job[k].status # "absent"
    PROVE  /\ k \in 1..nJobs /\ job[k] \in Job
           /\ job'[k].status # "absent" /\ job'[k].type = job[k].type
           /\ job'[k].action = job[k].action /\ job'[k].key = job[k].key
           /\ Terminal(k) => Terminal(k)'
  <1>1. k \in 1..nJobs /\ nJobs \in Nat
    BY ConstantsAssumption DEF LeaseInv, TypeOK, JobsInOrder, NoJob, JobIds
  <1>2. RowGoesOn(job[k], job'[k])
    BY <1>1, JobsGoOn
  <1>3. nJobs' = nJobs \/ nJobs' = nJobs + 1
    <2>1. ASSUME NEW h \in Handlers, HandlerStep(h) PROVE nJobs' = nJobs \/ nJobs' = nJobs + 1
      BY <2>1 DEF HandlerStep, ReadAction, ReadJob, ReadActionOfJob, propose_action,
                  decide_approve, decide_reject, cancel_action, enqueue_execution,
                  enqueue_rollback, Enqueue, request_job_cancellation, RequestFails
    <2>2. ASSUME NEW w \in Workers, NEW retryable, NEW started,
                 \/ recover_expired_leases(w) \/ Claim(w) \/ WorkerDies(w)
                 \/ BeginAttempt(w) \/ CallProvider(w)
                 \/ FinishExecute(w) \/ FinishValidate(w) \/ FinishRollback(w)
                 \/ FailAttempt(w, retryable, started)
          PROVE  nJobs' = nJobs \/ nJobs' = nJobs + 1
      BY <2>2 DEF recover_expired_leases, Claim, claim_next_job, WorkerDies, BeginAttempt,
                  CallProvider, FinishExecute, FinishValidate, FinishRollback, FailAttempt
    <2>3. CASE \/ \E a \in Actions : create_action(a)
               \/ \E j \in JobIds : LeaseExpires(j) \/ BackoffEnds(j)
               \/ UNCHANGED vars
      BY <2>3 DEF create_action, LeaseExpires, BackoffEnds, vars
    <2> QED BY <2>1, <2>2, <2>3 DEF Next, AttemptStep
  <1>4. JobsInOrder'
    BY LeaseInvNext DEF LeaseInv
  <1>5. job'[k].status # "absent"
    BY <1>1, <1>3, <1>4 DEF JobsInOrder, JobIds
  <1> QED BY <1>1, <1>2, <1>5 DEF RowGoesOn, Terminal, LeaseInv, TypeOK

\* Only its own end makes an execute job succeed.
LEMMA ExecutionsSucceed ==
    ASSUME LeaseInv, [Next]_vars, NEW k \in 1..nJobs,
           job[k].type = "execute", job'[k].status = "succeeded", job[k].status # "succeeded"
    PROVE  \E w \in Workers : /\ FinishExecute(w) /\ worker[w].job = k
                              /\ ~ActiveExists("validate", job[k].action)
  <1> DEFINE Goal == \E w \in Workers : /\ FinishExecute(w) /\ worker[w].job = k
                                        /\ ~ActiveExists("validate", job[k].action)
  <1>1. k \in JobIds /\ k # nJobs + 1 /\ job[k] \in Job /\ job \in [JobIds -> Job]
    BY JobRow, ConstantsAssumption DEF LeaseInv, TypeOK
  <1>2. job'[k] # job[k] /\ job' # job
    OBVIOUS
  <1>3. ASSUME NEW h \in Handlers, enqueue_execution(h) \/ enqueue_rollback(h) PROVE FALSE
    BY <1>1, <1>2, <1>3 DEF enqueue_execution, enqueue_rollback, Enqueue
  <1>4. ASSUME NEW h \in Handlers, request_job_cancellation(h) PROVE FALSE
    BY <1>1, <1>2, <1>4 DEF request_job_cancellation, Job
  <1>5. ASSUME NEW w \in Workers, recover_expired_leases(w) PROVE FALSE
    <2>1. \/ job'[k] = job[k]
          \/ job'[k] = [job[k] EXCEPT !.owner = None, !.live = TRUE, !.due = TRUE,
                          !.status = IF job[k].attempts >= MaxAttempts
                                     THEN "failed" ELSE "retry_wait"]
      BY <1>1, <1>5 DEF recover_expired_leases
    <2>2. job'[k].status \in {"failed", "retry_wait"}
      BY <1>1, <1>2, <2>1 DEF Job
    <2> QED BY <2>2
  <1>6. ASSUME NEW w \in Workers, NEW j \in JobIds, claim_next_job(w, j) PROVE FALSE
    BY <1>1, <1>2, <1>6 DEF claim_next_job, Job
  <1>7. ASSUME NEW w \in Workers, BeginAttempt(w) PROVE FALSE
    BY <1>1, <1>2, <1>7 DEF BeginAttempt, Job
  <1>8. ASSUME NEW w \in Workers, NEW status, NEW r,
               r = Settled(worker[w].job, status) \/ \E d : r = [Settled(worker[w].job, status) EXCEPT !.due = d],
               job' = [job EXCEPT ![worker[w].job] = r], InTransaction(w)
        PROVE  k = worker[w].job /\ status = "succeeded"
    <2>1. worker[w].job \in JobIds /\ job[worker[w].job] \in Job
      BY <1>8, AttemptFacts, JobRow
    <2>2. k = worker[w].job /\ job'[k] = r
      BY <1>1, <1>2, <1>8, <2>1
    <2>3. r.status = status
      BY <1>8, <2>1 DEF Settled, Job
    <2> QED BY <2>2, <2>3
  <1>9. ASSUME NEW w \in Workers, FinishValidate(w) \/ FinishRollback(w) PROVE FALSE
    <2>1. InTransaction(w) /\ job[worker[w].job].type # "execute"
          /\ job' = [job EXCEPT ![worker[w].job] = Settled(worker[w].job, "succeeded")]
      BY <1>9 DEF FinishValidate, FinishRollback, InTransaction
    <2> QED BY <1>8, <2>1
  <1>10. ASSUME NEW w \in Workers, NEW retryable, NEW started, FailAttempt(w, retryable, started)
         PROVE  FALSE
    <2> DEFINE j == worker[w].job
               retry == retryable /\ job[j].attempts + 1 < MaxAttempts
               status == IF retry THEN "retry_wait" ELSE "failed"
    <2>1. InTransaction(w) /\ job' = [job EXCEPT ![j] = [Settled(j, status) EXCEPT !.due = ~retry]]
      BY <1>10 DEF FailAttempt
    <2>2. status # "succeeded"
      OBVIOUS
    <2>3. PICK d : d = ~retry
      OBVIOUS
    <2> HIDE DEF retry, status
    <2>4. job' = [job EXCEPT ![j] = [Settled(j, status) EXCEPT !.due = d]]
      BY <2>1, <2>3
    <2> QED BY <1>8, <2>1, <2>2, <2>4
  <1>11. ASSUME NEW w \in Workers, FinishExecute(w) PROVE Goal
    <2> DEFINE j == worker[w].job
    <2>1. j \in 1..nJobs /\ j \in JobIds /\ InTransaction(w)
      BY <1>11, AttemptFacts, JobRow DEF FinishExecute, InTransaction
    <2>2. ~ActiveExists("validate", job[j].action)
      BY <1>2, <1>11 DEF FinishExecute
    <2>3. k = j
      <3>1. \/ job' = [job EXCEPT ![j] = Settled(j, "succeeded")]
            \/ job' = [job EXCEPT ![j] = Settled(j, "succeeded"),
                                  ![nJobs + 1] = QueuedJob("validate", job[j].action, <<j, 0>>)]
        BY <1>2, <1>11 DEF FinishExecute
      <3> QED BY <1>1, <1>2, <2>1, <3>1
    <2> QED BY <1>11, <2>2, <2>3
  <1>12. ASSUME NEW j \in JobIds, LeaseExpires(j) \/ BackoffEnds(j) PROVE FALSE
    BY <1>1, <1>2, <1>12 DEF LeaseExpires, BackoffEnds, Job
  <1>13. ASSUME NEW h \in Handlers,
                \/ \E a \in Actions, op \in Operations : ReadAction(h, a, op)
                \/ \E j \in JobIds : ReadJob(h, j)
                \/ ReadActionOfJob(h) \/ RequestFails(h)
                \/ propose_action(h) \/ decide_approve(h) \/ decide_reject(h) \/ cancel_action(h)
         PROVE  FALSE
    BY <1>2, <1>13 DEF ReadAction, ReadJob, ReadActionOfJob, RequestFails,
                       propose_action, decide_approve, decide_reject, cancel_action
  <1>14. ASSUME NEW w \in Workers, CallProvider(w) \/ WorkerDies(w) PROVE FALSE
    BY <1>2, <1>14 DEF CallProvider, WorkerDies
  <1>15. ASSUME \/ \E a \in Actions : create_action(a)
                \/ UNCHANGED vars
         PROVE  FALSE
    BY <1>2, <1>15 DEF create_action, vars
  <1> QED BY <1>3, <1>4, <1>5, <1>6, <1>7, <1>9, <1>10, <1>11, <1>12, <1>13, <1>14, <1>15
       DEF Next, HandlerStep, Claim, AttemptStep

\* A worker that has called the provider has done so in this step or before it.
LEMMA EffectsAreMade ==
    ASSUME LeaseInv, EffectIsMade, [Next]_vars
    PROVE  EffectIsMade'
  <1> SUFFICES ASSUME NEW w \in Workers, worker'[w].pc = "effect",
                      job'[worker'[w].job].type = "execute"
               PROVE  external'[job'[worker'[w].job].action] # "absent"
    BY DEF EffectIsMade
  <1>1. worker'[w] = worker[w] \/ CallProvider(w)
    <2> DEFINE Goal == worker'[w] = worker[w] \/ CallProvider(w)
    <2>1. CASE worker' = worker
      BY <2>1
    <2>2. ASSUME NEW v \in Workers, Release(v) PROVE worker'[w] = worker[w]
      BY <2>2 DEF Release, Idle, LeaseInv, TypeOK
    <2>3. ASSUME NEW h \in Handlers, HandlerStep(h) PROVE worker' = worker
      BY <2>3 DEF HandlerStep, ReadAction, ReadJob, ReadActionOfJob, propose_action,
                  decide_approve, decide_reject, cancel_action, enqueue_execution,
                  enqueue_rollback, request_job_cancellation, RequestFails
    <2>4. ASSUME NEW v \in Workers, Claim(v) PROVE Goal
      BY <2>4 DEF Claim, claim_next_job, LeaseInv, TypeOK
    <2>5. ASSUME NEW v \in Workers, BeginAttempt(v) PROVE Goal
      <3>1. Release(v) \/ worker' = [worker EXCEPT ![v].pc = "txn"]
        BY <2>5 DEF BeginAttempt
      <3>2. CASE worker' = [worker EXCEPT ![v].pc = "txn"]
        BY <3>2 DEF LeaseInv, TypeOK, Worker
      <3> QED BY <2>2, <3>1, <3>2
    <2>6. ASSUME NEW v \in Workers, CallProvider(v) PROVE Goal
      BY <2>6 DEF CallProvider, LeaseInv, TypeOK
    <2>7. ASSUME NEW v \in Workers, NEW retryable, NEW started,
                 \/ FinishExecute(v) \/ FinishValidate(v) \/ FinishRollback(v)
                 \/ FailAttempt(v, retryable, started) \/ WorkerDies(v)
          PROVE  Release(v)
      BY <2>7 DEF FinishExecute, FinishValidate, FinishRollback, FailAttempt, WorkerDies
    <2>8. CASE \/ \E a \in Actions : create_action(a)
               \/ \E v \in Workers : recover_expired_leases(v)
               \/ \E j \in JobIds : LeaseExpires(j) \/ BackoffEnds(j)
               \/ UNCHANGED vars
      BY <2>1, <2>8 DEF create_action, recover_expired_leases, LeaseExpires, BackoffEnds, vars
    <2> QED BY <2>1, <2>2, <2>3, <2>4, <2>5, <2>6, <2>7, <2>8 DEF Next, AttemptStep
  <1>2. CASE worker'[w] = worker[w]
    <2> DEFINE j == worker[w].job
    <2>1. j \in 1..nJobs
      BY <1>2, WorkerJob
    <2>2. j \in JobIds /\ job[j].status # "absent" /\ job[j].action \in Actions
      BY <2>1, ConstantsAssumption DEF LeaseInv, TypeOK, JobsInOrder, JobIds
    <2>3. job'[j].type = job[j].type /\ job'[j].action = job[j].action
      BY <2>2, RowsStay
    <2>4. external[job[j].action] # "absent"
      BY <1>2, <2>3 DEF EffectIsMade
    <2> QED BY <1>2, <2>2, <2>3, <2>4, EffectsStay
  <1>3. CASE CallProvider(w)
    <2> DEFINE j == worker[w].job
    <2>1. j \in 1..nJobs /\ job[j].action \in Actions
      BY <1>3, WorkerJob, JobRow DEF CallProvider
    <2>2. worker'[w].job = j /\ job' = job
      BY <1>3 DEF CallProvider, LeaseInv, TypeOK, Worker
    <2>3. external' = [external EXCEPT ![job[j].action] = IF @ = "absent" THEN "applied" ELSE @]
      BY <1>3, <2>2 DEF CallProvider
    <2> QED BY <2>1, <2>2, <2>3 DEF LeaseInv, TypeOK
  <1> QED BY <1>1, <1>2, <1>3
-----------------------------------------------------------------------------
\* The parts of the invariant, one by one.

LEMMA PolicyStays ==
    ASSUME [Next]_vars
    PROVE  policy' = policy
  <1>1. ASSUME NEW h \in Handlers, HandlerStep(h) PROVE policy' = policy
    BY <1>1 DEF HandlerStep, ReadAction, ReadJob, ReadActionOfJob, propose_action, decide_approve,
                decide_reject, cancel_action, enqueue_execution, enqueue_rollback,
                request_job_cancellation, RequestFails
  <1>2. ASSUME NEW w \in Workers, NEW retryable, NEW started,
               \/ recover_expired_leases(w) \/ Claim(w) \/ WorkerDies(w)
               \/ BeginAttempt(w) \/ CallProvider(w)
               \/ FinishExecute(w) \/ FinishValidate(w) \/ FinishRollback(w)
               \/ FailAttempt(w, retryable, started)
        PROVE  policy' = policy
    BY <1>2 DEF recover_expired_leases, Claim, claim_next_job, WorkerDies, BeginAttempt,
                CallProvider, FinishExecute, FinishValidate, FinishRollback, FailAttempt
  <1>3. CASE \/ \E a \in Actions : create_action(a)
             \/ \E j \in JobIds : LeaseExpires(j) \/ BackoffEnds(j)
             \/ UNCHANGED vars
    BY <1>3 DEF create_action, LeaseExpires, BackoffEnds, vars
  <1> QED BY <1>1, <1>2, <1>3 DEF Next, AttemptStep

LEMMA VersionsStayInOrder ==
    ASSUME LeaseInv, VersionsInOrder, [Next]_vars
    PROVE  VersionsInOrder'
  <1>1. \A a : ApprovedAt(a)' = ApprovedAt(a)
    BY PolicyStays DEF ApprovedAt
  <1>2. ASSUME NEW a \in Actions
        PROVE  /\ action'[a].status = "draft" => action'[a].version = 1
               /\ action'[a].status = "needs_approval" =>
                     action'[a].version = 2 /\ policy'[a] # "auto_approve"
               /\ action'[a].status = "approved" => action'[a].version = ApprovedAt(a)'
    BY <1>1, StatusesGoOn, PolicyStays DEF StatusGoesOn, Milestones, VersionsInOrder
  <1>3. ASSUME NEW h \in Handlers
        PROVE  /\ request'[h].op = "propose" => request'[h].version = 1
               /\ request'[h].op = "approve" =>
                     request'[h].version = 2 /\ policy'[request'[h].action] # "auto_approve"
               /\ request'[h].op = "enqueue_execution" =>
                     request'[h].version = ApprovedAt(request'[h].action)
    <2>1. CASE request'[h] = request[h] \/ request'[h].op \in {"none", "cancel_job"}
      BY <2>1, PolicyStays DEF VersionsInOrder
    <2>2. CASE HasRead(h)
      BY <2>2, PolicyStays DEF HasRead, Accepts, VersionsInOrder
    <2> QED BY <2>1, <2>2, RequestsRead
  <1> QED BY <1>1, <1>2, <1>3 DEF VersionsInOrder

LEMMA NewRowFields ==
    ASSUME NEW k, NEW type, NEW a, NEW key, Enqueued(k, type, a, key)
    PROVE  /\ job'[k].type = type /\ job'[k].action = a /\ job'[k].key = key
           /\ job'[k].status = "queued"
  BY DEF Enqueued, QueuedJob, NoJob

LEMMA OldOrNew ==
    ASSUME LeaseInv, NEW k \in JobIds
    PROVE  k \in Nat /\ nJobs \in Nat /\ (k > nJobs \/ job[k].status # "absent")
  BY ConstantsAssumption DEF LeaseInv, TypeOK, JobsInOrder, JobIds

LEMMA ExecutesOnceMore ==
    ASSUME LeaseInv, HistoryInv, [Next]_vars
    PROVE  ExecutesOnce'
  <1> SUFFICES ASSUME NEW k \in JobIds, job'[k].status # "absent", job'[k].type = "execute"
               PROVE  job'[k].key = <<ApprovedAt(job[k].action)', 0>>
    BY DEF ExecutesOnce, JobIds
  <1>1. \A a : ApprovedAt(a)' = ApprovedAt(a)
    BY PolicyStays DEF ApprovedAt
  <1>2. CASE job[k].status # "absent"
    BY <1>1, <1>2, RowsStay DEF HistoryInv, ExecutesOnce
  <1>3. CASE k > nJobs
    <2>1. NewRow(k)
      BY <1>3, NewRows
    <2>2. \A type, a, key : Enqueued(k, type, a, key) => type = "execute"
      BY NewRowFields
    <2>3. PICK h \in Handlers :
             /\ request[h].op = "enqueue_execution"
             /\ Enqueued(k, "execute", request[h].action, <<request[h].version, 0>>)
      BY <2>1, <2>2 DEF NewRow
    <2>4. request[h].version = ApprovedAt(request[h].action)
      BY <2>3 DEF HistoryInv, VersionsInOrder
    <2>5. job'[k].action = request[h].action /\ job'[k].key = <<request[h].version, 0>>
      BY <2>3, NewRowFields
    <2> QED BY <1>1, <2>4, <2>5
  <1> QED BY <1>2, <1>3, OldOrNew

\* No row is inserted for an action that has one of its type.
LEMMA NewRowsAreFirst ==
    ASSUME LeaseInv, HistoryInv, [Next]_vars,
           NEW k \in JobIds, k > nJobs, job'[k].status # "absent",
           NEW j \in JobIds, job[j].status # "absent",
           job[j].type = job'[k].type, job[j].action = job'[k].action
    PROVE  FALSE
  <1>1. NewRow(k)
    BY NewRows
  <1>2. ASSUME NEW h \in Handlers, request[h].op = "enqueue_execution",
               Enqueued(k, "execute", request[h].action, <<request[h].version, 0>>)
        PROVE  FALSE
    <2>1. job[j].type = "execute" /\ job[j].action = request[h].action
      BY <1>2, NewRowFields
    <2>2. job[j].key = <<request[h].version, 0>>
      BY <1>2, <2>1 DEF HistoryInv, ExecutesOnce, VersionsInOrder
    <2> QED BY <1>2, <2>1, <2>2 DEF Enqueued, KeyExists
  <1>3. ASSUME NEW h \in Handlers, request[h].op = "enqueue_rollback",
               Enqueued(k, "rollback", request[h].action,
                        <<request[h].version, snaps[request[h].action]>>)
        PROVE  FALSE
    <2> DEFINE a == request[h].action
    <2>1. job[j].type = "rollback" /\ job[j].action = a /\ a \in Actions
      BY <1>3, NewRowFields DEF Enqueued
    <2>2. PICK n \in Nat : SucceededAt(a, n)
      BY <2>1 DEF HistoryInv, SucceedsOnce
    <2>3. request[h].version = n /\ job[j].key = <<n, snaps[a]>>
      BY <1>3, <2>1, <2>2 DEF SucceededAt
    <2> QED BY <1>3, <2>1, <2>3 DEF Enqueued, KeyExists
  <1>4. ASSUME NEW w \in Workers, FinishExecute(w),
               Enqueued(k, "validate", job[worker[w].job].action, <<worker[w].job, 0>>)
        PROVE  FALSE
    <2> DEFINE p == worker[w].job
    <2>1. job[j].type = "validate" /\ job[j].action = job[p].action
      BY <1>4, NewRowFields
    <2>2. PICK e \in JobIds : /\ job[e].type = "execute" /\ Terminal(e)
                              /\ job[j].key = <<e, 0>> /\ job[e].action = job[j].action
      BY <2>1 DEF HistoryInv, ValidationFollowsExecution
    <2>3. p \in JobIds /\ job[p].type = "execute" /\ job[p].status = "running"
      BY <1>4, AttemptFacts, JobRow DEF FinishExecute, InTransaction
    <2>4. e = p
      BY <2>1, <2>2, <2>3 DEF HistoryInv, OneJobPerType, Terminal, TERMINAL_JOB_STATUSES
    <2> QED BY <2>2, <2>3, <2>4 DEF Terminal, TERMINAL_JOB_STATUSES
  <1> QED BY <1>1, <1>2, <1>3, <1>4 DEF NewRow

LEMMA OneJobPerTypeStays ==
    ASSUME LeaseInv, HistoryInv, [Next]_vars
    PROVE  OneJobPerType'
  <1> SUFFICES ASSUME NEW j \in JobIds, NEW k \in JobIds,
                      job'[j].status # "absent", job'[k].status # "absent",
                      job'[j].type = job'[k].type, job'[j].action = job'[k].action
               PROVE  j = k
    BY DEF OneJobPerType, JobIds
  <1>1. CASE job[j].status # "absent" /\ job[k].status # "absent"
    BY <1>1, RowsStay DEF HistoryInv, OneJobPerType
  <1>2. CASE j > nJobs /\ k > nJobs
    BY <1>2, NewRows
  <1>3. CASE j > nJobs /\ job[k].status # "absent"
    BY <1>3, RowsStay, NewRowsAreFirst
  <1>4. CASE job[j].status # "absent" /\ k > nJobs
    BY <1>4, RowsStay, NewRowsAreFirst
  <1> QED BY <1>1, <1>2, <1>3, <1>4, OldOrNew

LEMMA ValidationStillFollows ==
    ASSUME LeaseInv, HistoryInv, [Next]_vars
    PROVE  ValidationFollowsExecution'
  <1>1. ASSUME NEW j \in JobIds, job'[j].type = "execute", job'[j].status = "succeeded"
        PROVE  \E v \in JobIds :
                  /\ job'[v].type = "validate" /\ job'[v].status # "absent"
                  /\ job'[v].key = <<j, 0>> /\ job'[v].action = job'[j].action
    <2>1. job[j].status # "absent"
      <3>1. ASSUME NEW type, NEW a, NEW key, Enqueued(j, type, a, key) PROVE FALSE
        BY <1>1, <3>1, NewRowFields
      <3>2. ~NewRow(j)
        BY <3>1 DEF NewRow
      <3> QED BY <1>1, <3>2, NewRows, OldOrNew
    <2>2. j \in 1..nJobs /\ job'[j].action = job[j].action /\ job[j].type = "execute"
      BY <1>1, <2>1, RowsStay
    <2>3. ASSUME NEW v \in JobIds, job[v].type = "validate", job[v].status # "absent",
                 job[v].key = <<j, 0>>, job[v].action = job[j].action
          PROVE  \E u \in JobIds :
                    /\ job'[u].type = "validate" /\ job'[u].status # "absent"
                    /\ job'[u].key = <<j, 0>> /\ job'[u].action = job'[j].action
      BY <2>2, <2>3, RowsStay
    <2>4. CASE job[j].status = "succeeded"
      BY <2>2, <2>3, <2>4 DEF HistoryInv, ValidationFollowsExecution
    <2>5. CASE job[j].status # "succeeded"
      <3>1. PICK w \in Workers : /\ FinishExecute(w) /\ worker[w].job = j
                                 /\ ~ActiveExists("validate", job[j].action)
        BY <1>1, <2>2, <2>5, ExecutionsSucceed
      <3>2. CASE KeyExists("validate", job[j].action, <<j, 0>>)
        BY <2>3, <3>2 DEF KeyExists
      <3>3. CASE ~KeyExists("validate", job[j].action, <<j, 0>>)
        <4> DEFINE v == nJobs + 1
        <4>1. /\ nJobs < MaxJobs
              /\ job' = [job EXCEPT ![j] = Settled(j, "succeeded"),
                                    ![v] = QueuedJob("validate", job[j].action, <<j, 0>>)]
          BY <3>1, <3>3 DEF FinishExecute
        <4>2. v \in JobIds /\ v # j
          BY <2>2, <4>1, ConstantsAssumption DEF LeaseInv, TypeOK, JobIds
        <4>3. job'[v] = QueuedJob("validate", job[j].action, <<j, 0>>)
          BY <4>1, <4>2 DEF LeaseInv, TypeOK
        <4> QED BY <2>2, <4>2, <4>3 DEF QueuedJob, NoJob
      <3> QED BY <3>2, <3>3
    <2> QED BY <2>4, <2>5
  <1>2. ASSUME NEW v \in JobIds, job'[v].type = "validate", job'[v].status # "absent"
        PROVE  \E j \in JobIds :
                  /\ job'[j].type = "execute" /\ Terminal(j)'
                  /\ job'[v].key = <<j, 0>> /\ job'[j].action = job'[v].action
    <2>1. CASE job[v].status # "absent"
      <3>1. /\ job'[v].key = job[v].key /\ job'[v].action = job[v].action
            /\ job[v].type = "validate"
        BY <1>2, <2>1, RowsStay
      <3>2. PICK j \in JobIds : /\ job[j].type = "execute" /\ Terminal(j)
                                /\ job[v].key = <<j, 0>> /\ job[j].action = job[v].action
        BY <2>1, <3>1 DEF HistoryInv, ValidationFollowsExecution
      <3>3. job[j].status # "absent"
        BY <3>2 DEF Terminal, TERMINAL_JOB_STATUSES
      <3> QED BY <3>1, <3>2, <3>3, RowsStay
    <2>2. CASE v > nJobs
      <3>1. \A type, a, key : Enqueued(v, type, a, key) => type = "validate"
        BY <1>2, NewRowFields
      <3>2. PICK w \in Workers :
               /\ FinishExecute(w)
               /\ Enqueued(v, "validate", job[worker[w].job].action, <<worker[w].job, 0>>)
               /\ job'[worker[w].job] = Settled(worker[w].job, "succeeded")
        BY <1>2, <2>2, <3>1, NewRows DEF NewRow
      <3>7. PICK j : j = worker[w].job
        OBVIOUS
      <3>3. j \in JobIds /\ job[j] \in Job /\ job[j].type = "execute"
        BY <3>2, <3>7, AttemptFacts, JobRow DEF FinishExecute, InTransaction
      <3>4. /\ job'[j].status = "succeeded" /\ job'[j].type = "execute"
            /\ job'[j].action = job[j].action
        BY <3>2, <3>3, <3>7 DEF Settled, Job
      <3>5. job'[v].action = job[j].action /\ job'[v].key = <<j, 0>>
        BY <3>2, <3>7, NewRowFields
      <3>6. Terminal(j)'
        BY <3>4 DEF Terminal, TERMINAL_JOB_STATUSES
      <3> QED BY <3>3, <3>4, <3>5, <3>6
    <2> QED BY <2>1, <2>2, OldOrNew
  <1> QED BY <1>1, <1>2 DEF ValidationFollowsExecution, JobIds

\* A request to roll back has seen the action succeeded, so its validation ended.
LEMMA RollbackFollowsValidation ==
    ASSUME LeaseInv, HistoryInv, NEW h \in Handlers, request[h].op = "enqueue_rollback"
    PROVE  /\ request[h].action \in Actions
           /\ external[request[h].action] # "absent"
  <1>1. request[h].action \in Actions
    BY DEF LeaseInv, RequestsFormed
  <1>2. Validated(request[h].action)
    BY <1>1 DEF HistoryInv, SucceedsOnce, NotSucceeded
  <1> QED BY <1>1, <1>2 DEF Validated, Terminal, TERMINAL_JOB_STATUSES, HistoryInv, SnapshotBeforeEffect

LEMMA SnapshotsStillBefore ==
    ASSUME LeaseInv, HistoryInv, [Next]_vars
    PROVE  SnapshotBeforeEffect'
  <1>1. \A a \in Actions : snaps[a] > 0 /\ external[a] # "absent" =>
                           snaps'[a] > 0 /\ external'[a] # "absent"
    BY EffectsStay
  <1>2. ASSUME NEW k \in JobIds, job'[k].status # "absent", job'[k].type # "execute"
        PROVE  snaps'[job'[k].action] > 0 /\ external'[job'[k].action] # "absent"
    <2>1. CASE job[k].status # "absent"
      <3>1. job'[k].action = job[k].action /\ job[k].type # "execute" /\ k \in 1..nJobs
        BY <1>2, <2>1, RowsStay
      <3>2. job[k].action \in Actions
        BY <3>1, JobRow
      <3>3. snaps[job[k].action] > 0 /\ external[job[k].action] # "absent"
        BY <2>1, <3>1 DEF HistoryInv, SnapshotBeforeEffect
      <3> QED BY <1>1, <3>1, <3>2, <3>3
    <2>2. CASE k > nJobs
      <3>1. NewRow(k)
        BY <1>2, <2>2, NewRows
      <3>2. \A type, a, key : Enqueued(k, type, a, key) =>
               type # "execute" /\ job'[k].action = a /\ a \in Actions
        BY <1>2, NewRowFields DEF Enqueued
      <3>3. ASSUME NEW h \in Handlers, request[h].op = "enqueue_rollback",
                   snaps[request[h].action] # 0,
                   Enqueued(k, "rollback", request[h].action,
                            <<request[h].version, snaps[request[h].action]>>)
            PROVE  snaps'[job'[k].action] > 0 /\ external'[job'[k].action] # "absent"
        <4>1. job'[k].action = request[h].action /\ request[h].action \in Actions
          BY <3>2, <3>3
        <4>2. snaps[request[h].action] \in Nat
          BY <4>1 DEF LeaseInv, TypeOK
        <4> QED BY <1>1, <3>3, <4>1, <4>2, RollbackFollowsValidation
      <3>4. ASSUME NEW w \in Workers, FinishExecute(w),
                   Enqueued(k, "validate", job[worker[w].job].action, <<worker[w].job, 0>>),
                   snaps'[job[worker[w].job].action] = snaps[job[worker[w].job].action] + 1
            PROVE  snaps'[job'[k].action] > 0 /\ external'[job'[k].action] # "absent"
        <4> DEFINE a == job[worker[w].job].action
        <4>1. job'[k].action = a /\ a \in Actions
          BY <3>2, <3>4
        <4>2. snaps[a] \in Nat
          BY <4>1 DEF LeaseInv, TypeOK
        <4>3. external[a] # "absent"
          BY <3>4 DEF HistoryInv, EffectIsMade, FinishExecute
        <4>4. external'[a] # "absent"
          BY <4>1, <4>3, EffectsStay
        <4> QED BY <3>4, <4>1, <4>2, <4>4
      <3> QED BY <3>1, <3>2, <3>3, <3>4 DEF NewRow
    <2> QED BY <2>1, <2>2, OldOrNew
  <1>3. ASSUME NEW a \in Actions, action'[a].status \in {"succeeded", "rolled_back"}
        PROVE  snaps'[a] > 0 /\ external'[a] # "absent"
    <2>1. CASE action'[a].status = action[a].status
      BY <1>1, <1>3, <2>1 DEF HistoryInv, SnapshotBeforeEffect
    <2>2. ASSUME NEW w \in Workers, FinishValidate(w) \/ FinishRollback(w),
                 job[worker[w].job].action = a
          PROVE  snaps'[a] > 0 /\ external'[a] # "absent"
      <3> DEFINE j == worker[w].job
      <3>1. j \in JobIds /\ job[j].status # "absent" /\ job[j].type # "execute"
        BY <2>2, AttemptFacts, JobRow DEF FinishValidate, FinishRollback, InTransaction
      <3> QED BY <1>1, <2>2, <3>1 DEF HistoryInv, SnapshotBeforeEffect
    <2>3. StatusGoesOn(a)
      BY StatusesGoOn DEF HistoryInv
    <2> QED BY <1>3, <2>1, <2>2, <2>3 DEF StatusGoesOn, Milestones
  <1> QED BY <1>2, <1>3 DEF SnapshotBeforeEffect, JobIds

\* Once a validation of the action has ended, its execution has too.
LEMMA ValidatedIsExecuted ==
    ASSUME LeaseInv, HistoryInv, NEW a \in Actions, Validated(a),
           NEW j \in JobIds, job[j].type = "execute", job[j].action = a, job[j].status # "absent"
    PROVE  Terminal(j)
  <1>1. PICK v \in JobIds : job[v].type = "validate" /\ job[v].action = a /\ Terminal(v)
    BY DEF Validated
  <1>2. PICK e \in JobIds : job[e].type = "execute" /\ Terminal(e) /\ job[e].action = a
    BY <1>1 DEF HistoryInv, ValidationFollowsExecution, Terminal, TERMINAL_JOB_STATUSES
  <1>3. e = j
    BY <1>2 DEF HistoryInv, OneJobPerType, Terminal, TERMINAL_JOB_STATUSES
  <1> QED BY <1>2, <1>3

LEMMA SucceedsOnceMore ==
    ASSUME LeaseInv, HistoryInv, [Next]_vars
    PROVE  SucceedsOnce'
  <1> SUFFICES ASSUME NEW a \in Actions
               PROVE  /\ Validated(a)' \/ NotSucceeded(a)'
                      /\ \E n \in Nat : SucceededAt(a, n)'
    BY DEF SucceedsOnce
  <1>1. Validated(a) => Validated(a)'
    <2> SUFFICES ASSUME NEW v \in JobIds, job[v].type = "validate", job[v].action = a, Terminal(v)
                 PROVE  Validated(a)'
      BY DEF Validated
    <2>1. job[v].status # "absent"
      BY DEF Terminal, TERMINAL_JOB_STATUSES
    <2> QED BY <2>1, RowsStay DEF Validated, JobIds
  <1>2. ASSUME NEW w \in Workers, FinishValidate(w), job[worker[w].job].action = a
        PROVE  Validated(a)' /\ ~Validated(a)
    <2>1. PICK j : j = worker[w].job
      OBVIOUS
    <2>2. j \in JobIds /\ job[j] \in Job /\ job[j].type = "validate" /\ job[j].status = "running"
      BY <1>2, <2>1, AttemptFacts, JobRow DEF FinishValidate, InTransaction
    <2>3. job' = [job EXCEPT ![j] = Settled(j, "succeeded")]
      BY <1>2, <2>1 DEF FinishValidate
    <2>4. /\ job'[j].type = "validate" /\ job'[j].action = a
          /\ job'[j].status = "succeeded"
      BY <1>2, <2>1, <2>2, <2>3 DEF LeaseInv, TypeOK, Settled, Job
    <2>5. Validated(a)'
      BY <2>2, <2>4 DEF Validated, Terminal, TERMINAL_JOB_STATUSES, JobIds
    <2>6. ASSUME NEW v \in JobIds, job[v].type = "validate", job[v].action = a, Terminal(v)
          PROVE  FALSE
      <3>1. v = j
        BY <1>2, <2>1, <2>2, <2>6 DEF HistoryInv, OneJobPerType, Terminal, TERMINAL_JOB_STATUSES
      <3> QED BY <2>2, <2>6, <3>1 DEF Terminal, TERMINAL_JOB_STATUSES
    <2> QED BY <2>5, <2>6 DEF Validated
  <1>3. \/ action'[a].status # "succeeded"
        \/ action'[a].status = action[a].status /\ action'[a].version = action[a].version
        \/ \E w \in Workers : FinishValidate(w) /\ job[worker[w].job].action = a
    BY StatusesGoOn DEF HistoryInv, StatusGoesOn, Milestones
  <1>4. ASSUME NEW h \in Handlers, request'[h].op = "enqueue_rollback", request'[h].action = a
        PROVE  \/ request[h] = request'[h]
               \/ /\ action[a].status = "succeeded" /\ action' = action
                  /\ request'[h].version = action[a].version
    BY <1>4, RequestsRead DEF HasRead, Accepts
  <1>5. ASSUME NEW k \in JobIds, job'[k].status # "absent", job'[k].type = "rollback",
               job'[k].action = a
        PROVE  \/ /\ job[k].status # "absent" /\ job[k].type = "rollback"
                  /\ job[k].action = a /\ job'[k].key = job[k].key
               \/ \E h \in Handlers : /\ request[h].op = "enqueue_rollback"
                                      /\ request[h].action = a
                                      /\ job'[k].key = <<request[h].version, snaps[a]>>
    <2>1. CASE job[k].status # "absent"
      BY <1>5, <2>1, RowsStay
    <2>2. CASE k > nJobs
      <3>1. \A type, b, key : Enqueued(k, type, b, key) =>
               type = "rollback" /\ b = a /\ job'[k].key = key
        BY <1>5, NewRowFields
      <3>2. PICK h \in Handlers :
               /\ request[h].op = "enqueue_rollback"
               /\ Enqueued(k, "rollback", request[h].action,
                           <<request[h].version, snaps[request[h].action]>>)
        BY <1>5, <2>2, <3>1, NewRows DEF NewRow
      <3>3. request[h].action = a
        BY <3>1, <3>2
      <3>4. job'[k].key = <<request[h].version, snaps[a]>>
        BY <3>1, <3>2, <3>3
      <3> QED BY <3>2, <3>3, <3>4
    <2> QED BY <2>1, <2>2, OldOrNew
  <1>6. CASE Validated(a)
    <2>1. PICK n \in Nat : SucceededAt(a, n)
      BY DEF HistoryInv, SucceedsOnce
    <2>2. snaps'[a] = snaps[a]
      <3>1. ASSUME NEW w \in Workers, InTransaction(w), job[worker[w].job].action = a,
                   job[worker[w].job].type = "execute"
            PROVE  FALSE
        <4>1. worker[w].job \in JobIds /\ job[worker[w].job].status = "running"
          BY <3>1, AttemptFacts, JobRow
        <4> QED BY <1>6, <3>1, <4>1, ValidatedIsExecuted DEF Terminal, TERMINAL_JOB_STATUSES
      <3> QED BY <3>1, EffectsStay
    <2>3. action'[a].status = "succeeded" => action'[a].version = n
      BY <1>2, <1>3, <1>6, <2>1 DEF SucceededAt
    <2>4. \A h \in Handlers :
             request'[h].op = "enqueue_rollback" /\ request'[h].action = a =>
                 request'[h].version = n
      BY <1>4, <2>1 DEF SucceededAt
    <2>5. \A k \in JobIds :
             job'[k].status # "absent" /\ job'[k].type = "rollback" /\ job'[k].action = a =>
                 job'[k].key = <<n, snaps'[a]>>
      <3> SUFFICES ASSUME NEW k \in JobIds, job'[k].status # "absent",
                          job'[k].type = "rollback", job'[k].action = a
                   PROVE  job'[k].key = <<n, snaps[a]>>
        BY <2>2
      <3>1. CASE /\ job[k].status # "absent" /\ job[k].type = "rollback"
                 /\ job[k].action = a /\ job'[k].key = job[k].key
        BY <2>1, <3>1 DEF SucceededAt
      <3>2. CASE \E h \in Handlers : /\ request[h].op = "enqueue_rollback"
                                     /\ request[h].action = a
                                     /\ job'[k].key = <<request[h].version, snaps[a]>>
        BY <2>1, <3>2 DEF SucceededAt
      <3> QED BY <1>5, <3>1, <3>2
    <2> QED BY <1>1, <1>6, <2>3, <2>4, <2>5 DEF SucceededAt, JobIds
  <1>7. CASE ~Validated(a)
    <2>1. NotSucceeded(a)
      BY <1>7 DEF HistoryInv, SucceedsOnce
    <2>2. \A h \in Handlers : request'[h].op = "enqueue_rollback" => request'[h].action # a
      BY <1>4, <2>1 DEF NotSucceeded
    <2>3. \A k \in JobIds :
             job'[k].status # "absent" /\ job'[k].type = "rollback" => job'[k].action # a
      BY <1>5, <2>1 DEF NotSucceeded
    <2>4. NotSucceeded(a)' \/ Validated(a)'
      BY <1>2, <1>3, <2>1, <2>2, <2>3 DEF NotSucceeded, JobIds
    <2>5. action'[a].version \in Nat
      BY LeaseInvNext DEF LeaseInv, TypeOK, Action
    <2>6. \E n \in Nat : SucceededAt(a, n)'
      <3>1. PICK n : n = action'[a].version
        OBVIOUS
      <3>2. SucceededAt(a, n)'
        BY <2>2, <2>3, <3>1 DEF SucceededAt, JobIds
      <3> QED BY <2>5, <3>1, <3>2
    <2> QED BY <2>4, <2>6
  <1> QED BY <1>6, <1>7

LEMMA HistoryInvNext == LeaseInv /\ HistoryInv /\ [Next]_vars => HistoryInv'
  <1> SUFFICES ASSUME LeaseInv, HistoryInv, [Next]_vars PROVE HistoryInv'
    OBVIOUS
  <1>1. VersionsInOrder'
    BY VersionsStayInOrder DEF HistoryInv
  <1>2. EffectIsMade'
    BY EffectsAreMade DEF HistoryInv
  <1> QED BY <1>1, <1>2, ExecutesOnceMore, SucceedsOnceMore, OneJobPerTypeStays,
       ValidationStillFollows, SnapshotsStillBefore DEF HistoryInv
-----------------------------------------------------------------------------
LEMMA HistoryInvInit == Init => HistoryInv
  <1> SUFFICES ASSUME Init PROVE HistoryInv
    OBVIOUS
  <1>1. /\ \A a \in Actions : action[a].status = "absent"
        /\ \A j \in JobIds : job[j].status = "absent"
        /\ \A h \in Handlers : request[h].op = "none"
        /\ \A w \in Workers : worker[w].pc = "idle"
    BY DEF Init, NoJob, NoRequest, Idle
  <1>2. VersionsInOrder
    BY <1>1 DEF VersionsInOrder
  <1>3. ExecutesOnce /\ EffectIsMade /\ OneJobPerType
    BY <1>1 DEF ExecutesOnce, EffectIsMade, OneJobPerType
  <1>4. ValidationFollowsExecution /\ SnapshotBeforeEffect
    BY <1>1 DEF ValidationFollowsExecution, SnapshotBeforeEffect
  <1>5. ASSUME NEW a \in Actions
        PROVE  NotSucceeded(a) /\ SucceededAt(a, 0)
    BY <1>1 DEF NotSucceeded, SucceededAt
  <1>6. SucceedsOnce
    BY <1>5 DEF SucceedsOnce
  <1> QED BY <1>2, <1>3, <1>4, <1>6 DEF HistoryInv

\* However requests and workers race, repeat and fail, and whatever they had
\* read before: an action is executed, validated and rolled back by one job
\* each, a validation follows the end of its execution, and whoever validates
\* or rolls back finds the snapshot and the effect it works on.
THEOREM HistoriesAreInOrder == Spec => []HistoryInOrder
  <1>1. HistoryInv => HistoryInOrder
    BY DEF HistoryInv, HistoryInOrder
  <1> QED BY <1>1, HistoryInvInit, HistoryInvNext, LeaseInvariance, PTL DEF Spec
-----------------------------------------------------------------------------
\* What a proposal scores in each respect.
Respects(p) ==
    <<Clamped(p.risk), When(p.github, 30), When(p.type = "high_risk", 80),
      When(p.protected, 90), When(p.deletes, 75), PagesScore(p.pages)>>

LEMMA Respected ==
    ASSUME NEW p \in Proposals
    PROVE  /\ Respects(p) \in [1..6 -> Int]
           /\ Score(p) \in Int
           /\ \A i \in 1..6 : Respects(p)[i] <= Score(p)
           /\ \E i \in 1..6 : Respects(p)[i] = Score(p)
<1>1. PICK a, b, c, d, e, f :
          /\ a = Clamped(p.risk) /\ b = When(p.github, 30) /\ c = When(p.type = "high_risk", 80)
          /\ d = When(p.protected, 90) /\ e = When(p.deletes, 75) /\ f = PagesScore(p.pages)
  OBVIOUS
<1>2. p.risk \in Int /\ p.pages \in Nat
  BY PolicyConstants DEF Proposals
<1>3. a \in Int /\ b \in Int /\ c \in Int /\ d \in Int /\ e \in Int /\ f \in Int
  BY <1>1, <1>2 DEF Clamped, When, PagesScore
<1>4. Respects(p) = <<a, b, c, d, e, f>>
  BY <1>1 DEF Respects
<1>5. Score(p) = Max({a, b, c, d, e, f})
  BY <1>1 DEF Score
<1>6. /\ Score(p) \in {a, b, c, d, e, f}
      /\ \A x \in {a, b, c, d, e, f} : x <= Score(p)
  <2>1. PICK S : S = {a, b, c, d, e, f}
    OBVIOUS
  <2>2. \E x \in {a, b, c, d, e, f} : \A y \in {a, b, c, d, e, f} : x >= y
    BY <1>3
  <2>3. Max(S) \in S /\ \A y \in S : Max(S) >= y
    BY <2>1, <2>2 DEF Max
  <2>4. Score(p) = Max(S)
    BY <1>5, <2>1
  <2>5. \A y \in S : y \in Int
    BY <1>3, <2>1
  <2>6. Score(p) \in S /\ \A y \in S : y <= Score(p)
    BY <2>3, <2>4, <2>5
  <2> QED BY <2>1, <2>6
<1>7. Score(p) \in Int
  BY <1>3, <1>6
<1>8. \A i \in 1..6 : Respects(p)[i] \in {a, b, c, d, e, f}
  BY <1>4
<1>9. \A x \in {a, b, c, d, e, f} : \E i \in 1..6 : Respects(p)[i] = x
  BY <1>4
<1>10. Respects(p) \in [1..6 -> Int]
  BY <1>3, <1>4
<1> QED BY <1>6, <1>7, <1>8, <1>9, <1>10

\* A mode is the stricter the higher the score.
LEMMA HigherIsStricter ==
    ASSUME NEW p \in Proposals, NEW q \in Proposals, q.type = p.type, Score(p) <= Score(q)
    PROVE  Strictness[evaluate_action_policy(q)] >= Strictness[evaluate_action_policy(p)]
<1>1. PICK m, n : m = Score(p) /\ n = Score(q)
  OBVIOUS
<1>2. m \in Int /\ n \in Int /\ m <= n
  BY <1>1, Respected
<1>3. /\ Strictness["auto_approve"] = 0 /\ Strictness["manual_approval"] = 1
      /\ Strictness["owner_approval"] = 2 /\ Strictness["blocked"] = 3
  BY DEF Strictness
<1>4. PICK light : light = IF p.type = "auto" THEN "auto_approve" ELSE "manual_approval"
  OBVIOUS
<1>5. Strictness[light] \in 0..1
  BY <1>3, <1>4
<1>6. /\ m >= 90 => evaluate_action_policy(p) = "blocked"
      /\ m >= 70 /\ m < 90 => evaluate_action_policy(p) = "owner_approval"
      /\ m >= 30 /\ m < 70 => evaluate_action_policy(p) = "manual_approval"
      /\ m < 30 => evaluate_action_policy(p) = light
  BY <1>1, <1>2, <1>4 DEF evaluate_action_policy
<1>7. /\ n >= 90 => evaluate_action_policy(q) = "blocked"
      /\ n >= 70 /\ n < 90 => evaluate_action_policy(q) = "owner_approval"
      /\ n >= 30 /\ n < 70 => evaluate_action_policy(q) = "manual_approval"
      /\ n < 30 => evaluate_action_policy(q) = light
  BY <1>1, <1>2, <1>4 DEF evaluate_action_policy
<1>8. CASE n < 30
  BY <1>2, <1>5, <1>6, <1>7, <1>8
<1>9. CASE 30 <= n /\ n < 70
  BY <1>2, <1>3, <1>5, <1>6, <1>7, <1>9
<1>10. CASE 70 <= n /\ n < 90
  BY <1>2, <1>3, <1>5, <1>6, <1>7, <1>10
<1>11. CASE 90 <= n
  BY <1>2, <1>3, <1>5, <1>6, <1>7, <1>11
<1> QED BY <1>2, <1>8, <1>9, <1>10, <1>11

\* Who reaches further scores no less in any respect.
LEMMA FurtherScoresMore ==
    ASSUME NEW p \in Proposals, NEW q \in Further(p)
    PROVE  q \in Proposals /\ q.type = p.type /\ Score(p) <= Score(q)
<1>1. p.risk \in Int /\ p.pages \in Nat /\ p.github \in BOOLEAN /\ p.protected \in BOOLEAN /\ p.deletes \in BOOLEAN
  BY PolicyConstants DEF Proposals
<1>2. /\ q \in Proposals /\ q.type = p.type
      /\ p.risk <= q.risk /\ p.pages <= q.pages
      /\ (p.github => q.github) /\ (p.protected => q.protected) /\ (p.deletes => q.deletes)
  <2>1. CASE \E n \in {m \in Risks : m > p.risk} : q = [p EXCEPT !.risk = n]
    <3>1. PICK n \in Risks : n > p.risk /\ q = [p EXCEPT !.risk = n]
      BY <2>1
    <3> QED BY <1>1, <3>1, PolicyConstants DEF Proposals
  <2>2. CASE \E n \in {m \in AffectedPages : m > p.pages} : q = [p EXCEPT !.pages = n]
    <3>1. PICK n \in AffectedPages : n > p.pages /\ q = [p EXCEPT !.pages = n]
      BY <2>2
    <3> QED BY <1>1, <3>1, PolicyConstants DEF Proposals
  <2>3. CASE q = [p EXCEPT !.github = TRUE]
    <3>1. q.github = TRUE /\ q.type = p.type /\ q.risk = p.risk /\ q.pages = p.pages
      BY <2>3 DEF Proposals
    <3>2. q.protected = p.protected /\ q.deletes = p.deletes
      BY <2>3 DEF Proposals
    <3>3. q \in Proposals
      BY <2>3 DEF Proposals
    <3> QED BY <1>1, <3>1, <3>2, <3>3
  <2>4. CASE q = [p EXCEPT !.protected = TRUE]
    <3>1. q.protected = TRUE /\ q.type = p.type /\ q.risk = p.risk /\ q.pages = p.pages
      BY <2>4 DEF Proposals
    <3>2. q.github = p.github /\ q.deletes = p.deletes
      BY <2>4 DEF Proposals
    <3>3. q \in Proposals
      BY <2>4 DEF Proposals
    <3> QED BY <1>1, <3>1, <3>2, <3>3
  <2>5. CASE q = [p EXCEPT !.deletes = TRUE]
    <3>1. q.deletes = TRUE /\ q.type = p.type /\ q.risk = p.risk /\ q.pages = p.pages
      BY <2>5 DEF Proposals
    <3>2. q.github = p.github /\ q.protected = p.protected
      BY <2>5 DEF Proposals
    <3>3. q \in Proposals
      BY <2>5 DEF Proposals
    <3> QED BY <1>1, <3>1, <3>2, <3>3
  <2> QED BY <2>1, <2>2, <2>3, <2>4, <2>5 DEF Further
<1>3. q.risk \in Int /\ q.pages \in Nat
  BY <1>2, PolicyConstants DEF Proposals
<1>4. /\ Clamped(p.risk) <= Clamped(q.risk)
      /\ PagesScore(p.pages) <= PagesScore(q.pages)
  BY <1>1, <1>2, <1>3 DEF Clamped, PagesScore, When
<1>5. /\ When(p.github, 30) <= When(q.github, 30) /\ When(p.protected, 90) <= When(q.protected, 90)
      /\ When(p.deletes, 75) <= When(q.deletes, 75) /\ When(p.type = "high_risk", 80) <= When(q.type = "high_risk", 80)
  BY <1>2 DEF When
<1>6. \A i \in 1..6 : Respects(p)[i] <= Respects(q)[i]
  BY <1>4, <1>5 DEF Respects
<1>7. PICK i \in 1..6 : Respects(p)[i] = Score(p)
  BY Respected
<1>8. /\ Respects(p)[i] \in Int /\ Respects(q)[i] \in Int /\ Score(q) \in Int
      /\ Respects(q)[i] <= Score(q)
  BY <1>2, Respected
<1> QED BY <1>2, <1>6, <1>7, <1>8

\* Reach is never approved by itself, nor makes approval easier, for any scores
\* that are submitted and any numbers of pages.
THEOREM PolicyIsSound == PolicyInit => PolicyIsStrict
<1> SUFFICES ASSUME PolicyInit PROVE PolicyIsStrict
  OBVIOUS
<1>1. PICK p : p = proposal
  OBVIOUS
<1>2. p \in Proposals
  BY <1>1 DEF PolicyInit
<1>3. ReachIsNeverAutoApproved
  <2>1. Score(p) \in Int /\ \A i \in 1..6 : Respects(p)[i] <= Score(p)
    BY <1>2, Respected
  <2>2. /\ Respects(p)[2] = When(p.github, 30) /\ Respects(p)[4] = When(p.protected, 90)
        /\ Respects(p)[5] = When(p.deletes, 75) /\ Respects(p)[6] = PagesScore(p.pages)
    BY DEF Respects
  <2>3. p.pages \in Nat
    BY <1>2, PolicyConstants DEF Proposals
  <2>4. p.github \/ p.protected \/ p.deletes \/ p.pages >= 20 => Score(p) >= 30
    <3>1. /\ When(p.github, 30) <= Score(p) /\ When(p.protected, 90) <= Score(p)
          /\ When(p.deletes, 75) <= Score(p) /\ PagesScore(p.pages) <= Score(p)
      BY <2>1, <2>2
    <3> QED BY <2>1, <2>3, <3>1 DEF When, PagesScore
  <2>5. Score(p) >= 30 => evaluate_action_policy(p) # "auto_approve"
    BY <2>1 DEF evaluate_action_policy
  <2> QED BY <1>1, <2>3, <2>4, <2>5 DEF ReachIsNeverAutoApproved
<1>4. PolicyIsMonotone
  BY <1>1, <1>2, FurtherScoresMore, HigherIsStricter DEF PolicyIsMonotone
<1> QED BY <1>3, <1>4 DEF PolicyIsStrict
=============================================================================
