-------------------------- MODULE CrawlJobsProofs --------------------------
(*****************************************************************************)
(* Theorems about CrawlJobs, for every number of workers, sites, pages,      *)
(* jobs, attempts, reopenings and faults.                                    *)
(*****************************************************************************)
EXTENDS CrawlJobs, FiniteSetTheorems, SequenceTheorems, TLAPS

InHand == Steps \cup {"failing"}
WaitingStatuses == {"queued", "retry_wait"}

\* A running job is somebody's, and a worker that is not idle is in a job.
OwnersAndJobs ==
    /\ \A j \in JobIds : job[j].status = "running" => job[j].owner \in Workers
    /\ \A w \in Workers : worker[w].pc # "idle" => worker[w].job \in JobIds

\* What may be claimed has an attempt left, and a worker that has claimed it
\* finds it still there.
BudgetLeft ==
    /\ \A j \in JobIds : job[j].status \in WaitingStatuses \cup {"absent"} => Len(log[j]) < job[j].cap
    /\ \A w \in Workers :
          worker[w].pc = "claimed" /\ Owns(w) => Len(log[worker[w].job]) < job[worker[w].job].cap

\* A job that was never enqueued has no pending cancellation.
AbsentIsPristine == \A j \in JobIds : job[j].status = "absent" => ~job[j].cancelReq

\* The inductive invariant of the queue.
CrawlInv ==
    /\ TypeOK
    /\ AbsentIsPristine
    /\ OwnersAndJobs
    /\ BudgetLeft
    /\ WaitingIsClaimable
    /\ CompletedWasNotCancelled
    /\ AttemptsWithinCap
    /\ LeaseHoldersAttempt
    /\ OneActiveCrawl
-----------------------------------------------------------------------------
(* Numbers.                                                                  *)

\* Of the job table jobs: the pages job j holds, their number, and all of them.
SlotsOf(jobs, j) == IF jobs[j].status \in ACTIVE_CRAWL_STATUSES THEN {j} \X (1..jobs[j].maxPages) ELSE {}
Held(row) == IF row.status \in ACTIVE_CRAWL_STATUSES THEN row.maxPages ELSE 0
AllSlots(jobs) == UNION {SlotsOf(jobs, k) : k \in JobIds}

LEMMA SlotsAreFinite ==
    ASSUME NEW j, NEW n \in Nat
    PROVE  IsFiniteSet({j} \X (1..n)) /\ Cardinality({j} \X (1..n)) = n
  <1>1. IsFiniteSet({j}) /\ Cardinality({j}) = 1
    BY FS_Singleton
  <1>2. IsFiniteSet(1..n) /\ Cardinality(1..n) = n
    <2>1. IsFiniteSet(1..n) /\ Cardinality(1..n) = IF 1 > n THEN 0 ELSE n - 1 + 1
      BY FS_Interval
    <2> QED BY <2>1
  <1> DEFINE T == 1..n
  <1>3. IsFiniteSet(T) /\ Cardinality(T) = n
    BY <1>2
  <1> HIDE DEF T
  <1>4. IsFiniteSet({j} \X T) /\ Cardinality({j} \X T) = Cardinality({j}) * Cardinality(T)
    BY <1>1, <1>3, FS_Product
  <1> QED BY <1>1, <1>3, <1>4 DEF T

LEMMA AllSlotsFinite ==
    ASSUME NEW jobs \in [JobIds -> CrawlJob]
    PROVE  /\ \A j \in JobIds : /\ IsFiniteSet(SlotsOf(jobs, j))
                               /\ Cardinality(SlotsOf(jobs, j)) = Held(jobs[j])
           /\ IsFiniteSet(AllSlots(jobs))
  <1>1. ASSUME NEW j \in JobIds
        PROVE  IsFiniteSet(SlotsOf(jobs, j)) /\ Cardinality(SlotsOf(jobs, j)) = Held(jobs[j])
    <2>1. jobs[j].maxPages \in Nat
      BY DEF CrawlJob
    <2>2. \A n \in Nat : IsFiniteSet({j} \X (1..n)) /\ Cardinality({j} \X (1..n)) = n
      BY SlotsAreFinite
    <2> QED BY <2>1, <2>2, FS_EmptySet DEF SlotsOf, Held
  <1>2. IsFiniteSet(AllSlots(jobs))
    <2> DEFINE S == {SlotsOf(jobs, k) : k \in JobIds}
               F == [k \in JobIds |-> SlotsOf(jobs, k)]
    <2>1. IsFiniteSet(JobIds)
      BY FS_Interval, CrawlConstants DEF JobIds
    <2>2. F \in Surjection(JobIds, S)
      BY DEF Surjection
    <2>3. IsFiniteSet(S)
      BY <2>1, <2>2, FS_Surjection
    <2> QED BY <1>1, <2>3, FS_UNION DEF AllSlots
  <1> QED BY <1>1, <1>2

LEMMA ReservedIsAllSlots ==
    /\ Reserved = Cardinality(AllSlots(job))
    /\ Reserved' = Cardinality(AllSlots(job'))
  BY DEF Reserved, ReservedPages, Active, AllSlots, SlotsOf

LEMMA ReservedIsANumber ==
    ASSUME TypeOK
    PROVE  Reserved \in Nat
  BY AllSlotsFinite, ReservedIsAllSlots, FS_CardinalityType DEF TypeOK

LEMMA RoomIsANumber ==
    ASSUME TypeOK
    PROVE  Room \in 0..Limit
  <1>1. Reserved \in Nat /\ usage \in Nat /\ Limit \in Nat
    BY ReservedIsANumber, CrawlConstants DEF TypeOK
  <1> QED BY <1>1 DEF Room

LEMMA PageSets ==
    ASSUME NEW us \in SUBSET Urls
    PROVE  IsFiniteSet(us) /\ Cardinality(us) \in Nat
  BY FS_Subset, FS_CardinalityType, CrawlConstants

LEMMA StoredPages ==
    ASSUME TypeOK, NEW j \in JobIds
    PROVE  Cardinality(stored[j]) \in Nat
  BY PageSets DEF TypeOK

LEMMA RowSets ==
    ASSUME NEW j, NEW statuses
    PROVE  Rows(j, statuses) \in SUBSET Urls /\ Cardinality(Rows(j, statuses)) \in Nat
  BY PageSets DEF Rows
-----------------------------------------------------------------------------
(* Types.                                                                    *)

JobTyped == job' \in [JobIds -> CrawlJob]
LogTyped == log' \in [JobIds -> Seq([by : Workers, running : BOOLEAN])]
FrontierTyped == frontier' \in [JobIds -> [Urls -> RowStatuses]]
StoredTyped == stored' \in [JobIds -> SUBSET Urls]
WorkerTyped == worker' \in [Workers -> CrawlWorker]
CountersTyped == usage' \in Nat /\ reopens' \in 0..MaxReopens /\ faults' \in 0..MaxFaults

LEMMA TypedParts ==
    ASSUME JobTyped, LogTyped, FrontierTyped, StoredTyped, WorkerTyped, CountersTyped
    PROVE  TypeOK'
  BY DEF TypeOK, JobTyped, LogTyped, FrontierTyped, StoredTyped, WorkerTyped, CountersTyped

LEMMA SameTyped ==
    ASSUME TypeOK
    PROVE  /\ UNCHANGED job => JobTyped
           /\ UNCHANGED log => LogTyped
           /\ UNCHANGED frontier => FrontierTyped
           /\ UNCHANGED stored => StoredTyped
           /\ UNCHANGED worker => WorkerTyped
           /\ UNCHANGED <<usage, reopens, faults>> => CountersTyped
  BY DEF TypeOK, JobTyped, LogTyped, FrontierTyped, StoredTyped, WorkerTyped, CountersTyped

LEMMA RowsSetTyped ==
    ASSUME TypeOK, NEW j \in JobIds, NEW us, NEW status \in RowStatuses, SetRows(j, us, status)
    PROVE  FrontierTyped
  <1>1. WithRows(j, us, status) \in [Urls -> RowStatuses]
    BY DEF WithRows, TypeOK
  <1> QED BY <1>1 DEF SetRows, FrontierTyped, TypeOK

LEMMA FaultTyped ==
    ASSUME TypeOK, NEW kind, Fault(kind), UNCHANGED <<usage, reopens>>
    PROVE  CountersTyped
  BY CrawlConstants DEF TypeOK, Fault, CountersTyped

LEMMA IdleIsAWorker == Idle \in CrawlWorker
  BY CrawlConstants DEF Idle, CrawlWorker

LEMMA WorkerMoves ==
    ASSUME TypeOK, NEW w \in Workers
    PROVE  /\ Release(w) => WorkerTyped
           /\ \A pc \in Steps \cup {"failing"} : MoveTo(w, pc) => WorkerTyped
  <1>1. Release(w) => WorkerTyped
    BY IdleIsAWorker DEF Release, WorkerTyped, TypeOK
  <1>2. ASSUME NEW pc \in Steps \cup {"failing"}, MoveTo(w, pc)
        PROVE  WorkerTyped
    <2>1. [worker[w] EXCEPT !.pc = pc, !.granted = FALSE] \in CrawlWorker
      BY DEF TypeOK, CrawlWorker
    <2> QED BY <1>2, <2>1 DEF MoveTo, WorkerTyped, TypeOK
  <1> QED BY <1>1, <1>2

LEMMA CommitTyped ==
    ASSUME TypeOK, NEW j \in JobIds, CommitPages(j)
    PROVE  JobTyped
  <1>1. [job[j] EXCEPT !.snapPages = Cardinality(stored[j])] \in CrawlJob
    BY StoredPages DEF TypeOK, CrawlJob
  <1> QED BY <1>1 DEF CommitPages, JobTyped, TypeOK

LEMMA CloseTyped ==
    ASSUME TypeOK, NEW j \in JobIds, CloseLast(j) \/ CloseLatestRunning(j)
    PROVE  /\ LogTyped
           /\ \A k \in JobIds : Len(log'[k]) = Len(log[k])
           /\ \A k \in JobIds \ {j} : log'[k] = log[k]
  <1> DEFINE Entry == [by : Workers, running : BOOLEAN]
  <1>1. ASSUME NEW s \in Seq(Entry), NEW n
        PROVE  /\ [s EXCEPT ![n].running = FALSE] \in Seq(Entry)
               /\ Len([s EXCEPT ![n].running = FALSE]) = Len(s)
    <2>2. CASE n \in 1..Len(s)
      <3> DEFINE e == [s[n] EXCEPT !.running = FALSE]
      <3>1. s[n] \in Entry
        BY <1>1, <2>2, LenProperties
      <3>2. e \in Entry
        BY <3>1
      <3> HIDE DEF e, Entry
      <3>3. [s EXCEPT ![n] = e] \in Seq(Entry) /\ Len([s EXCEPT ![n] = e]) = Len(s)
        BY <2>2, <3>2, ExceptSeq
      <3> QED BY <3>3 DEF e
    <2>3. CASE n \notin 1..Len(s)
      <3>0. s \in [1..Len(s) -> Entry]
        BY <1>1, LenProperties
      <3>1. [s EXCEPT ![n].running = FALSE] = s
        BY <2>3, <3>0
      <3> QED BY <1>1, <3>1
    <2> QED BY <2>2, <2>3
  <1>2. log[j] \in Seq(Entry)
    BY DEF TypeOK
  <1>3. PICK s \in Seq(Entry) : /\ Len(s) = Len(log[j])
                                /\ log' = [log EXCEPT ![j] = s]
    <2>1. CASE CloseLast(j)
      <3>1. CASE log[j] = <<>>
        BY <2>1, <3>1, <1>2 DEF CloseLast, TypeOK
      <3>2. CASE log[j] # <<>>
        BY <2>1, <3>2, <1>1, <1>2 DEF CloseLast, TypeOK
      <3> QED BY <3>1, <3>2
    <2>2. CASE CloseLatestRunning(j)
      <3>1. CASE RunningAttempts(j) = {}
        BY <2>2, <3>1, <1>2 DEF CloseLatestRunning, TypeOK
      <3>2. CASE RunningAttempts(j) # {}
        BY <2>2, <3>2, <1>1, <1>2 DEF CloseLatestRunning, TypeOK
      <3> QED BY <3>1, <3>2
    <2> QED BY <2>1, <2>2
  <1> QED BY <1>3 DEF TypeOK, LogTyped
-----------------------------------------------------------------------------
(* What the steps leave of the facts the invariant is about.                 *)

\* The step changes nothing of job j that the invariant speaks of.
Kept(j) ==
    /\ job'[j].status = job[j].status
    /\ job'[j].owner = job[j].owner
    /\ job'[j].cap = job[j].cap
    /\ job'[j].cancelReq = job[j].cancelReq
    /\ job'[j].site = job[j].site
    /\ log'[j] = log[j]

\* The lease of a running job ends.
LeaseEnds(j) ==
    /\ job[j].status = "running"
    /\ job'[j].status \in TERMINAL_CRAWL_STATUSES \cup {"retry_wait"}
    /\ job'[j].status \in {"retry_wait", "completed"} => ~job[j].cancelReq
    /\ job'[j].status = "retry_wait" => Len(log[j]) < job[j].cap
    /\ job'[j].owner = None
    /\ job'[j].cap = job[j].cap
    /\ job'[j].cancelReq = job[j].cancelReq
    /\ job'[j].site = job[j].site
    /\ Len(log'[j]) = Len(log[j])

\* A cancellation: at once where nobody runs the job.
Cancelled(j) ==
    /\ Active(j)
    /\ job'[j].status = IF job[j].status = "running" THEN "running" ELSE "cancelled"
    /\ job'[j].owner = IF job[j].status = "running" THEN job[j].owner ELSE None
    /\ job'[j].cancelReq
    /\ job'[j].cap = job[j].cap
    /\ job'[j].site = job[j].site
    /\ log'[j] = log[j]

\* The job is queued, for the first time or again, its site having no active job.
Queued(j) ==
    /\ job[j].status \in TERMINAL_CRAWL_STATUSES \cup {"absent"}
    /\ job[j].status \in TERMINAL_CRAWL_STATUSES => reopens' = reopens + 1
    /\ job'[j].status = "queued"
    /\ ~job'[j].cancelReq
    /\ Len(log[j]) < job'[j].cap
    /\ job'[j].cap <= MaxAttempts * (1 + reopens')
    /\ log'[j] = log[j]
    /\ ActiveOnSite(job'[j].site) = {}
    /\ \A k \in JobIds \ {j} : job'[k] = job[k]

JobGoesOn(j) == Kept(j) \/ LeaseEnds(j) \/ Cancelled(j) \/ Queued(j)

\* The worker stays where it is, goes on in its crawl, or ends it.
WorkerGoesOn(w) ==
    \/ worker'[w].pc = "idle"
    \/ /\ worker'[w].job = worker[w].job
       /\ \/ worker'[w].pc = worker[w].pc
          \/ worker[w].pc \in InHand /\ worker'[w].pc \in InHand

GoesOn ==
    /\ \A j \in JobIds : JobGoesOn(j)
    /\ \A w \in Workers : WorkerGoesOn(w)
    /\ reopens' \in {reopens, reopens + 1}

\* A worker that owns its job after the step owned it before.
LEMMA OwnsGoesOn ==
    ASSUME CrawlInv, GoesOn, NEW w \in Workers, worker'[w].pc # "idle", Owns(w)'
    PROVE  /\ worker'[w].job = worker[w].job
           /\ worker[w].pc # "idle"
           /\ worker[w].job \in JobIds
           /\ Owns(w)
           /\ log'[worker[w].job] = log[worker[w].job]
           /\ job'[worker[w].job].cap = job[worker[w].job].cap
  <1>1. worker'[w].job = worker[w].job /\ worker[w].pc # "idle"
    BY DEF GoesOn, WorkerGoesOn, InHand, Steps
  <1>2. worker[w].job \in JobIds
    BY <1>1 DEF CrawlInv, OwnersAndJobs
  <1> DEFINE j == worker[w].job
  <1>3. job'[j].status = "running" /\ job'[j].owner = w
    BY <1>1 DEF Owns
  <1>4. Kept(j) \/ Cancelled(j)
    BY <1>2, <1>3 DEF GoesOn, JobGoesOn, LeaseEnds, Queued, TERMINAL_CRAWL_STATUSES
  <1>5. Owns(w) /\ log'[j] = log[j] /\ job'[j].cap = job[j].cap
    BY <1>3, <1>4 DEF Owns, Kept, Cancelled
  <1> QED BY <1>1, <1>2, <1>5

LEMMA OneActiveGoesOn ==
    ASSUME CrawlInv, \A j \in JobIds : JobGoesOn(j)
    PROVE  OneActiveCrawl'
  <1> SUFFICES ASSUME NEW j \in JobIds, NEW k \in JobIds, Active(j)', Active(k)',
                      job'[j].site = job'[k].site, j # k
               PROVE  FALSE
    BY DEF OneActiveCrawl
  <1>1. ASSUME NEW m \in JobIds, Active(m)', ~Queued(m)
        PROVE  Active(m) /\ job'[m].site = job[m].site
    BY <1>1 DEF JobGoesOn, Kept, LeaseEnds, Cancelled, Active, ACTIVE_CRAWL_STATUSES, TERMINAL_CRAWL_STATUSES
  <1>2. ASSUME NEW m \in JobIds, NEW n \in JobIds, m # n, Queued(m), Active(n)',
               job'[m].site = job'[n].site
        PROVE  FALSE
    <2>1. job'[n] = job[n]
      BY <1>2 DEF Queued
    <2>2. n \in ActiveOnSite(job'[m].site)
      BY <1>2, <2>1 DEF ActiveOnSite, Active
    <2> QED BY <1>2, <2>2 DEF Queued
  <1>3. ~Queued(j) /\ ~Queued(k)
    BY <1>2
  <1>4. Active(j) /\ Active(k) /\ job[j].site = job[k].site
    BY <1>1, <1>3
  <1> QED BY <1>4 DEF CrawlInv, OneActiveCrawl

LEMMA GoesOnKeepsInv ==
    ASSUME CrawlInv, TypeOK', GoesOn
    PROVE  CrawlInv'
  <1>1. OwnersAndJobs'
    <2>1. \A j \in JobIds : job'[j].status = "running" => job'[j].owner \in Workers
      BY DEF CrawlInv, OwnersAndJobs, GoesOn, JobGoesOn, Kept, LeaseEnds, Cancelled, Queued,
             TERMINAL_CRAWL_STATUSES, Active, ACTIVE_CRAWL_STATUSES
    <2>2. \A w \in Workers : worker'[w].pc # "idle" => worker'[w].job \in JobIds
      BY DEF CrawlInv, OwnersAndJobs, GoesOn, WorkerGoesOn, InHand, Steps
    <2> QED BY <2>1, <2>2 DEF OwnersAndJobs
  <1>2. BudgetLeft'
    <2>1. ASSUME NEW j \in JobIds, job'[j].status \in WaitingStatuses \cup {"absent"}
          PROVE  Len(log'[j]) < job'[j].cap
      <3>1. JobGoesOn(j)
        BY DEF GoesOn
      <3>2. CASE Kept(j)
        BY <2>1, <3>2 DEF CrawlInv, BudgetLeft, Kept
      <3>3. CASE LeaseEnds(j)
        BY <2>1, <3>3 DEF LeaseEnds, WaitingStatuses, TERMINAL_CRAWL_STATUSES
      <3>4. CASE Cancelled(j)
        BY <2>1, <3>4 DEF Cancelled, WaitingStatuses
      <3>5. CASE Queued(j)
        BY <3>5 DEF Queued
      <3> QED BY <3>1, <3>2, <3>3, <3>4, <3>5 DEF JobGoesOn
    <2>2. ASSUME NEW w \in Workers, worker'[w].pc = "claimed", Owns(w)'
          PROVE  Len(log'[worker'[w].job]) < job'[worker'[w].job].cap
      <3>1. worker[w].pc = "claimed"
        BY <2>2 DEF GoesOn, WorkerGoesOn, InHand, Steps
      <3> QED BY <2>2, <3>1, OwnsGoesOn DEF CrawlInv, BudgetLeft
    <2> QED BY <2>1, <2>2 DEF BudgetLeft
  <1>3. WaitingIsClaimable'
    <2> SUFFICES ASSUME NEW j \in JobIds, job'[j].status \in {"queued", "retry_wait"}
                 PROVE  ~job'[j].cancelReq
      BY DEF WaitingIsClaimable
    <2> QED BY DEF CrawlInv, WaitingIsClaimable, GoesOn, JobGoesOn, Kept, LeaseEnds, Cancelled, Queued,
             TERMINAL_CRAWL_STATUSES
  <1>4. CompletedWasNotCancelled'
    <2> SUFFICES ASSUME NEW j \in JobIds, job'[j].status = "completed"
                 PROVE  ~job'[j].cancelReq
      BY DEF CompletedWasNotCancelled
    <2> QED BY DEF CrawlInv, CompletedWasNotCancelled, GoesOn, JobGoesOn, Kept, LeaseEnds, Cancelled, Queued
  <1>5. AttemptsWithinCap'
    <2> SUFFICES ASSUME NEW j \in JobIds
                 PROVE  /\ Len(log'[j]) <= job'[j].cap
                        /\ job'[j].cap <= MaxAttempts * (1 + reopens')
      BY DEF AttemptsWithinCap
    <2>1. JobGoesOn(j)
      BY DEF GoesOn
    <2>2. /\ job[j].cap \in Nat /\ job'[j].cap \in Nat
          /\ Len(log[j]) \in Nat
      BY LenProperties DEF CrawlInv, TypeOK, CrawlJob
    <2>3. CASE Queued(j)
      <3>1. Len(log'[j]) \in Nat /\ Len(log'[j]) = Len(log[j])
        BY <2>2, <2>3 DEF Queued
      <3> QED BY <2>2, <2>3, <3>1 DEF Queued
    <2>4. CASE ~Queued(j)
      <3>1. Len(log'[j]) = Len(log[j]) /\ job'[j].cap = job[j].cap
        BY <2>1, <2>4 DEF JobGoesOn, Kept, LeaseEnds, Cancelled
      <3>2. /\ Len(log[j]) <= job[j].cap
            /\ job[j].cap <= MaxAttempts * (1 + reopens)
        BY DEF CrawlInv, AttemptsWithinCap
      <3>3. MaxAttempts * (1 + reopens) <= MaxAttempts * (1 + reopens')
        <4>1. MaxAttempts \in Nat /\ reopens \in Nat
          BY CrawlConstants DEF CrawlInv, TypeOK
        <4>2. MaxAttempts * (1 + (reopens + 1)) = MaxAttempts * (1 + reopens) + MaxAttempts
          BY <4>1
        <4>3. MaxAttempts * (1 + reopens) \in Nat
          BY <4>1
        <4>4. CASE reopens' = reopens
          BY <4>3, <4>4
        <4>5. CASE reopens' = reopens + 1
          BY <4>1, <4>2, <4>3, <4>5
        <4> QED BY <4>4, <4>5 DEF GoesOn
      <3>4. MaxAttempts * (1 + reopens) \in Nat /\ MaxAttempts * (1 + reopens') \in Nat
        BY CrawlConstants DEF CrawlInv, TypeOK
      <3> QED BY <2>2, <3>1, <3>2, <3>3, <3>4
    <2> QED BY <2>3, <2>4
  <1>6. LeaseHoldersAttempt'
    <2> SUFFICES ASSUME NEW w \in Workers, worker'[w].pc \in InHand, Owns(w)'
                 PROVE  AttemptIsCurrent(w)'
      BY DEF LeaseHoldersAttempt, InHand
    <2>1. worker'[w].pc # "idle"
      BY DEF InHand, Steps
    <2>2. worker[w].pc \in InHand
      BY <2>1 DEF GoesOn, WorkerGoesOn, InHand, Steps
    <2>3. AttemptIsCurrent(w)
      BY <2>1, <2>2, OwnsGoesOn DEF CrawlInv, LeaseHoldersAttempt, InHand
    <2> QED BY <2>1, <2>3, OwnsGoesOn DEF AttemptIsCurrent
  <1>7. OneActiveCrawl'
    BY OneActiveGoesOn DEF GoesOn
  <1>8. AbsentIsPristine'
    <2> SUFFICES ASSUME NEW j \in JobIds, job'[j].status = "absent"
                 PROVE  ~job'[j].cancelReq
      BY DEF AbsentIsPristine
    <2> QED BY DEF CrawlInv, AbsentIsPristine, GoesOn, JobGoesOn, Kept, LeaseEnds, Cancelled, Queued,
             TERMINAL_CRAWL_STATUSES
  <1> QED BY <1>1, <1>2, <1>3, <1>4, <1>5, <1>6, <1>7, <1>8 DEF CrawlInv
-----------------------------------------------------------------------------
(* The steps that go on.                                                     *)

\* A step that leaves the queue alone but for what the invariant does not read.
QueueKept == \A j \in JobIds : Kept(j)

LEMMA SameQueue ==
    ASSUME UNCHANGED <<job, log>>
    PROVE  QueueKept
  BY DEF QueueKept, Kept

LEMMA CommitKeepsQueue ==
    ASSUME TypeOK, NEW j \in JobIds, CommitPages(j), UNCHANGED log
    PROVE  QueueKept
  <1>1. \A k \in JobIds : job[k] \in CrawlJob
    BY DEF TypeOK
  <1>2. \A k \in JobIds \ {j} : job'[k] = job[k]
    BY DEF CommitPages, TypeOK
  <1>3. job'[j] = [job[j] EXCEPT !.snapPages = Cardinality(stored[j])]
    BY DEF CommitPages, TypeOK
  <1>4. Kept(j)
    BY <1>1, <1>3 DEF CrawlJob, Kept
  <1> QED BY <1>2, <1>4 DEF QueueKept, Kept

WorkersGoOn == \A w \in Workers : WorkerGoesOn(w)

LEMMA SameWorkers == UNCHANGED worker => WorkersGoOn
  BY DEF WorkersGoOn, WorkerGoesOn

LEMMA WorkerReleased ==
    ASSUME TypeOK, NEW w \in Workers, Release(w)
    PROVE  WorkersGoOn
  BY DEF TypeOK, Release, Idle, WorkersGoOn, WorkerGoesOn

LEMMA WorkerMoved ==
    ASSUME TypeOK, NEW w \in Workers, worker[w].pc \in InHand,
           NEW pc \in InHand, MoveTo(w, pc)
    PROVE  WorkersGoOn
  <1>1. \A v \in Workers \ {w} : worker'[v] = worker[v]
    BY DEF TypeOK, MoveTo
  <1>2. worker'[w] = [worker[w] EXCEPT !.pc = pc, !.granted = FALSE]
    BY DEF TypeOK, MoveTo
  <1>3. worker'[w].job = worker[w].job /\ worker'[w].pc = pc
    BY <1>2 DEF TypeOK, CrawlWorker
  <1> QED BY <1>1, <1>3 DEF WorkersGoOn, WorkerGoesOn

LEMMA GoesOnParts ==
    ASSUME QueueKept \/ \A j \in JobIds : JobGoesOn(j), WorkersGoOn, reopens' \in {reopens, reopens + 1}
    PROVE  GoesOn
  BY DEF QueueKept, JobGoesOn, WorkersGoOn, GoesOn

Goes == TypeOK' /\ GoesOn

LEMMA WorkersJob ==
    ASSUME CrawlInv, NEW w \in Workers, worker[w].pc # "idle"
    PROVE  worker[w].job \in JobIds
  BY DEF CrawlInv, OwnersAndJobs

\* The steps of a crawl that write no job.
LEMMA SeedsAndPicks ==
    ASSUME CrawlInv, NEW w \in Workers,
           SeedFrontier(w) \/ TakeBatch(w) \/ NoMoreRows(w) \/ RobotsBlockBatch(w)
    PROVE  Goes
  <1> DEFINE j == worker[w].job
  <1>0. TypeOK
    BY DEF CrawlInv
  <1>1. worker[w].pc \in InHand /\ worker[w].pc # "idle"
    BY DEF SeedFrontier, TakeBatch, NoMoreRows, RobotsBlockBatch, At, InHand, Steps
  <1>2. j \in JobIds
    BY <1>1, WorkersJob
  <1>3. UNCHANGED <<job, log, stored, usage, reopens, faults>>
    BY DEF SeedFrontier, TakeBatch, NoMoreRows, RobotsBlockBatch
  <1>4. FrontierTyped
    <2>1. CASE SeedFrontier(w)
      BY <1>0, <1>2, <2>1, RowsSetTyped DEF SeedFrontier, RowStatuses
    <2>2. CASE TakeBatch(w)
      BY <1>0, <1>2, <2>2, RowsSetTyped DEF TakeBatch, RowStatuses
    <2>3. CASE NoMoreRows(w)
      BY <1>0, <2>3, SameTyped DEF NoMoreRows
    <2>4. CASE RobotsBlockBatch(w)
      BY <1>0, <1>2, <2>4, RowsSetTyped DEF RobotsBlockBatch, RowStatuses
    <2> QED BY <2>1, <2>2, <2>3, <2>4
  <1>5. WorkerTyped /\ WorkersGoOn
    <2>1. CASE SeedFrontier(w)
      BY <1>0, <1>1, <2>1, WorkerMoves, WorkerMoved DEF SeedFrontier, Steps, InHand
    <2>2. CASE TakeBatch(w)
      <3>1. PICK us \in SUBSET Urls :
               worker' = [worker EXCEPT ![w].pc = "settling", ![w].granted = FALSE, ![w].batch = us]
        BY <2>2 DEF TakeBatch, Rows
      <3>2. [worker[w] EXCEPT !.pc = "settling", !.granted = FALSE, !.batch = us] \in CrawlWorker
        BY <1>0 DEF TypeOK, CrawlWorker, Steps
      <3>3. worker' = [worker EXCEPT ![w] = [worker[w] EXCEPT !.pc = "settling", !.granted = FALSE, !.batch = us]]
        BY <1>0, <3>1 DEF TypeOK
      <3>4. worker'[w].job = worker[w].job /\ worker'[w].pc = "settling"
        BY <1>0, <3>3 DEF TypeOK, CrawlWorker
      <3> QED BY <1>0, <1>1, <3>2, <3>3, <3>4 DEF TypeOK, WorkerTyped, WorkersGoOn, WorkerGoesOn, InHand, Steps
    <2>3. CASE NoMoreRows(w)
      BY <1>0, <1>1, <2>3, WorkerMoves, WorkerMoved DEF NoMoreRows, Steps, InHand
    <2>4. CASE RobotsBlockBatch(w)
      <3>1. worker' = [worker EXCEPT ![w] = [worker[w] EXCEPT !.pc = "picking", !.batch = {}]]
        BY <1>0, <2>4 DEF TypeOK, RobotsBlockBatch
      <3>2. [worker[w] EXCEPT !.pc = "picking", !.batch = {}] \in CrawlWorker
        BY <1>0 DEF TypeOK, CrawlWorker, Steps
      <3>3. worker'[w].job = worker[w].job /\ worker'[w].pc = "picking"
        BY <1>0, <3>1 DEF TypeOK, CrawlWorker
      <3> QED BY <1>0, <1>1, <3>1, <3>2, <3>3 DEF TypeOK, WorkerTyped, WorkersGoOn, WorkerGoesOn, InHand, Steps
    <2> QED BY <2>1, <2>2, <2>3, <2>4
  <1>6. TypeOK'
    BY <1>0, <1>3, <1>4, <1>5, SameTyped, TypedParts
  <1>7. GoesOn
    BY <1>3, <1>5, SameQueue, GoesOnParts
  <1> QED BY <1>6, <1>7 DEF Goes

LEMMA ControlGoesOn ==
    ASSUME CrawlInv, NEW w \in Workers, Control(w)
    PROVE  Goes
  <1> DEFINE j == worker[w].job
  <1>0. TypeOK
    BY DEF CrawlInv
  <1>1. worker[w].pc \in InHand /\ worker[w].pc # "idle"
    BY DEF Control, InHand, Steps
  <1>2. j \in JobIds
    BY <1>1, WorkersJob
  <1>3. UNCHANGED <<log, frontier, stored, usage, reopens, faults>>
    BY DEF Control
  <1>4. JobTyped /\ QueueKept
    <2>1. CASE UNCHANGED job
      BY <1>0, <1>3, <2>1, SameTyped, SameQueue
    <2>2. CASE CommitPages(j)
      BY <1>0, <1>2, <1>3, <2>2, CommitTyped, CommitKeepsQueue
    <2> QED BY <2>1, <2>2 DEF Control
  <1>5. WorkerTyped /\ WorkersGoOn
    <2>1. CASE Release(w)
      BY <1>0, <2>1, WorkerMoves, WorkerReleased
    <2>2. CASE MoveTo(w, "failing")
      BY <1>0, <1>1, <2>2, WorkerMoves, WorkerMoved DEF InHand
    <2>3. CASE worker' = [worker EXCEPT ![w].granted = TRUE]
      <3>1. worker' = [worker EXCEPT ![w] = [worker[w] EXCEPT !.granted = TRUE]]
        BY <1>0, <2>3 DEF TypeOK
      <3>2. [worker[w] EXCEPT !.granted = TRUE] \in CrawlWorker
        BY <1>0 DEF TypeOK, CrawlWorker
      <3>3. worker'[w].job = worker[w].job /\ worker'[w].pc = worker[w].pc
        BY <1>0, <3>1 DEF TypeOK, CrawlWorker
      <3> QED BY <1>0, <3>1, <3>2, <3>3 DEF TypeOK, WorkerTyped, WorkersGoOn, WorkerGoesOn
    <2> QED BY <2>1, <2>2, <2>3 DEF Control
  <1>6. TypeOK'
    BY <1>0, <1>3, <1>4, <1>5, SameTyped, TypedParts
  <1>7. GoesOn
    BY <1>3, <1>4, <1>5, GoesOnParts
  <1> QED BY <1>6, <1>7 DEF Goes

LEMMA OpensAndFails ==
    ASSUME CrawlInv, NEW w \in Workers, OpenSnapshot(w) \/ SeedingFails(w)
    PROVE  Goes
  <1> DEFINE j == worker[w].job
  <1>0. TypeOK
    BY DEF CrawlInv
  <1>1. worker[w].pc \in InHand /\ worker[w].pc # "idle"
    BY DEF OpenSnapshot, SeedingFails, At, InHand, Steps
  <1>2. j \in JobIds
    BY <1>1, WorkersJob
  <1>3. UNCHANGED <<log, frontier, stored, usage, reopens, faults>>
    BY DEF OpenSnapshot, SeedingFails
  <1>4. JobTyped /\ QueueKept
    <2>1. CASE OpenSnapshot(w)
      <3>1. job' = [job EXCEPT ![j] = [job[j] EXCEPT !.snapshot = TRUE]]
        BY <1>0, <2>1 DEF TypeOK, OpenSnapshot
      <3>0. job[j] \in CrawlJob
        BY <1>0, <1>2 DEF TypeOK
      <3>2. job[j] \in CrawlJob /\ [job[j] EXCEPT !.snapshot = TRUE] \in CrawlJob
        BY <3>0 DEF CrawlJob
      <3>3. job'[j] = [job[j] EXCEPT !.snapshot = TRUE] /\ \A k \in JobIds \ {j} : job'[k] = job[k]
        BY <1>0, <1>2, <3>1 DEF TypeOK
      <3>4. Kept(j)
        BY <1>3, <3>2, <3>3 DEF Kept, CrawlJob
      <3> QED BY <1>0, <1>3, <3>1, <3>2, <3>3, <3>4 DEF TypeOK, JobTyped, QueueKept, Kept
    <2>2. CASE SeedingFails(w)
      BY <1>0, <1>2, <1>3, <2>2, CommitTyped, CommitKeepsQueue DEF SeedingFails
    <2> QED BY <2>1, <2>2
  <1>5. WorkerTyped /\ WorkersGoOn
    BY <1>0, <1>1, WorkerMoves, WorkerMoved DEF OpenSnapshot, SeedingFails, Steps, InHand
  <1>6. TypeOK'
    BY <1>0, <1>3, <1>4, <1>5, SameTyped, TypedParts
  <1>7. GoesOn
    BY <1>3, <1>4, <1>5, GoesOnParts
  <1> QED BY <1>6, <1>7 DEF Goes

LEMMA SettlesOnGoing ==
    ASSUME CrawlInv, NEW w \in Workers, SettleBatch(w)
    PROVE  Goes
  <1> DEFINE j == worker[w].job
             batch == worker[w].batch
  <1>0. TypeOK
    BY DEF CrawlInv
  <1>1. worker[w].pc \in InHand /\ worker[w].pc # "idle"
    BY DEF SettleBatch, At, InHand, Steps
  <1>2. j \in JobIds /\ batch \in SUBSET Urls
    BY <1>0, <1>1, WorkersJob DEF TypeOK, CrawlWorker
  <1>3. UNCHANGED <<log, usage, reopens>>
    BY DEF SettleBatch
  <1>4. PICK us \in SUBSET batch, done \in SUBSET batch, again \in SUBSET batch :
           /\ SettleRows(w, us, done, again)
           /\ IF again = {} THEN UNCHANGED faults ELSE Fault("throttle")
           /\ worker' = [worker EXCEPT ![w].pc = IF us = batch THEN "picking" ELSE "failing",
                                       ![w].granted = FALSE, ![w].batch = {}]
    BY DEF SettleBatch
  <1>5. CountersTyped
    BY <1>0, <1>3, <1>4, FaultTyped, SameTyped
  <1>6. StoredTyped
    BY <1>0, <1>2, <1>4 DEF SettleRows, StorePages, StoredTyped, TypeOK
  <1>7. FrontierTyped
    <2>1. PICK links \in SUBSET Urls :
             frontier' = [frontier EXCEPT ![j] =
                [u \in Urls |-> IF u \in done THEN "completed"
                                ELSE IF u \in again \cup links THEN "queued"
                                ELSE IF u \in us THEN "failed" ELSE frontier[j][u]]]
      BY <1>4, RowSets DEF SettleRows, Rows
    <2> DEFINE row == [u \in Urls |-> IF u \in done THEN "completed"
                                      ELSE IF u \in again \cup links THEN "queued"
                                      ELSE IF u \in us THEN "failed" ELSE frontier[j][u]]
    <2>2. row \in [Urls -> RowStatuses]
      BY <1>0, <1>2 DEF TypeOK, RowStatuses
    <2> HIDE DEF row
    <2>3. frontier' = [frontier EXCEPT ![j] = row]
      BY <2>1 DEF row
    <2> QED BY <1>0, <2>2, <2>3 DEF TypeOK, FrontierTyped
  <1>8. JobTyped /\ QueueKept
    <2> DEFINE n == Cardinality(stored'[j])
    <2>1. n \in Nat
      BY <1>2, <1>6, PageSets DEF StoredTyped
    <2>2. job' = [job EXCEPT ![j].snapPages = n]
      BY DEF SettleBatch
    <2> HIDE DEF n
    <2>3. job[j] \in CrawlJob
      BY <1>0, <1>2 DEF TypeOK
    <2>4. [job[j] EXCEPT !.snapPages = n] \in CrawlJob
      BY <2>1, <2>3 DEF CrawlJob
    <2>5. job' = [job EXCEPT ![j] = [job[j] EXCEPT !.snapPages = n]]
      BY <1>0, <2>2 DEF TypeOK
    <2>6. job'[j] = [job[j] EXCEPT !.snapPages = n] /\ \A k \in JobIds \ {j} : job'[k] = job[k]
      BY <1>0, <1>2, <2>5 DEF TypeOK
    <2>7. Kept(j)
      BY <1>3, <2>3, <2>6 DEF Kept, CrawlJob
    <2> QED BY <1>0, <1>3, <2>4, <2>5, <2>6, <2>7 DEF TypeOK, JobTyped, QueueKept, Kept
  <1>9. WorkerTyped /\ WorkersGoOn
    <2>1. PICK pc \in {"picking", "failing"} :
             worker' = [worker EXCEPT ![w].pc = pc, ![w].granted = FALSE, ![w].batch = {}]
      BY <1>4
    <2>2. worker' = [worker EXCEPT ![w] = [worker[w] EXCEPT !.pc = pc, !.granted = FALSE, !.batch = {}]]
      BY <1>0, <2>1 DEF TypeOK
    <2>3. [worker[w] EXCEPT !.pc = pc, !.granted = FALSE, !.batch = {}] \in CrawlWorker
      BY <1>0 DEF TypeOK, CrawlWorker, Steps
    <2>4. worker'[w].job = worker[w].job /\ worker'[w].pc = pc
      BY <1>0, <2>2 DEF TypeOK, CrawlWorker
    <2> QED BY <1>0, <1>1, <2>2, <2>3, <2>4 DEF TypeOK, WorkerTyped, WorkersGoOn, WorkerGoesOn, InHand, Steps
  <1>10. TypeOK'
    BY <1>0, <1>3, <1>5, <1>6, <1>7, <1>8, <1>9, SameTyped, TypedParts
  <1>11. GoesOn
    BY <1>3, <1>8, <1>9, GoesOnParts
  <1> QED BY <1>10, <1>11 DEF Goes

LEMMA EndsCrawl ==
    ASSUME CrawlInv, NEW w \in Workers, EndCrawl(w)
    PROVE  Goes
  <1> DEFINE j == worker[w].job
             pages == Cardinality(stored[j])
  <1>0. TypeOK
    BY DEF CrawlInv
  <1>1. worker[w].pc \in InHand /\ worker[w].pc # "idle"
    BY DEF EndCrawl, At, InHand, Steps
  <1>2. j \in JobIds /\ pages \in Nat
    BY <1>0, <1>1, WorkersJob, StoredPages
  <1>3. UNCHANGED <<log, stored, usage, reopens, faults>>
    BY DEF EndCrawl
  <1>4. JobTyped /\ QueueKept
    BY <1>0, <1>2, <1>3, CommitTyped, CommitKeepsQueue DEF EndCrawl
  <1>5. FrontierTyped
    BY <1>0, <1>2, RowsSetTyped DEF EndCrawl, RowStatuses
  <1>6. WorkerTyped /\ WorkersGoOn
    <2>1. PICK pc \in {"closing", "failing"} :
             worker' = [worker EXCEPT ![w].pc = pc, ![w].granted = FALSE, ![w].pages = pages]
      BY DEF EndCrawl
    <2> HIDE DEF pages
    <2>2. worker' = [worker EXCEPT ![w] = [worker[w] EXCEPT !.pc = pc, !.granted = FALSE, !.pages = pages]]
      BY <1>0, <2>1 DEF TypeOK
    <2>3. [worker[w] EXCEPT !.pc = pc, !.granted = FALSE, !.pages = pages] \in CrawlWorker
      BY <1>0, <1>2 DEF TypeOK, CrawlWorker, Steps
    <2>4. worker'[w].job = worker[w].job /\ worker'[w].pc = pc
      BY <1>0, <2>2 DEF TypeOK, CrawlWorker
    <2> QED BY <1>0, <1>1, <2>2, <2>3, <2>4 DEF TypeOK, WorkerTyped, WorkersGoOn, WorkerGoesOn, InHand, Steps
  <1>7. TypeOK'
    BY <1>0, <1>3, <1>4, <1>5, <1>6, SameTyped, TypedParts
  <1>8. GoesOn
    BY <1>3, <1>4, <1>6, GoesOnParts
  <1> QED BY <1>7, <1>8 DEF Goes

\* Faults and time that touch no lease but its expiry.
LEMMA FaultsGoOn ==
    ASSUME CrawlInv, NEW w \in Workers, StepAborts(w) \/ WorkerDies(w)
    PROVE  Goes
  <1>0. TypeOK
    BY DEF CrawlInv
  <1>1. UNCHANGED <<job, log, frontier, stored, usage, reopens>> /\ CountersTyped
    BY <1>0, FaultTyped DEF StepAborts, WorkerDies
  <1>2. WorkerTyped /\ WorkersGoOn
    <2>1. CASE StepAborts(w)
      BY <1>0, <2>1, WorkerMoves, WorkerMoved DEF StepAborts, InHand
    <2>2. CASE WorkerDies(w)
      BY <1>0, <2>2, WorkerMoves, WorkerReleased DEF WorkerDies
    <2> QED BY <2>1, <2>2
  <1>3. TypeOK'
    BY <1>0, <1>1, <1>2, SameTyped, TypedParts
  <1>4. GoesOn
    BY <1>1, <1>2, SameQueue, GoesOnParts
  <1> QED BY <1>3, <1>4 DEF Goes

LEMMA TimeGoesOn ==
    ASSUME CrawlInv, NEW j \in JobIds, LeaseExpires(j) \/ BackoffEnds(j)
    PROVE  Goes
  <1>0. TypeOK
    BY DEF CrawlInv
  <1>1. UNCHANGED <<log, frontier, stored, usage, worker, reopens>> /\ CountersTyped
    BY <1>0, FaultTyped, SameTyped DEF LeaseExpires, BackoffEnds
  <1>2. job[j] \in CrawlJob
    BY <1>0 DEF TypeOK
  <1>3. PICK row \in CrawlJob : /\ row = [job[j] EXCEPT !.live = FALSE] \/ row = [job[j] EXCEPT !.due = TRUE]
                                /\ job' = [job EXCEPT ![j] = row]
    <2>1. CASE LeaseExpires(j)
      <3>1. [job[j] EXCEPT !.live = FALSE] \in CrawlJob
        BY <1>2 DEF CrawlJob
      <3>2. job' = [job EXCEPT ![j] = [job[j] EXCEPT !.live = FALSE]]
        BY <1>0, <2>1 DEF LeaseExpires, TypeOK
      <3> QED BY <3>1, <3>2
    <2>2. CASE BackoffEnds(j)
      <3>1. [job[j] EXCEPT !.due = TRUE] \in CrawlJob
        BY <1>2 DEF CrawlJob
      <3>2. job' = [job EXCEPT ![j] = [job[j] EXCEPT !.due = TRUE]]
        BY <1>0, <2>2 DEF BackoffEnds, TypeOK
      <3> QED BY <3>1, <3>2
    <2> QED BY <2>1, <2>2
  <1>4. JobTyped
    BY <1>0, <1>3 DEF TypeOK, JobTyped
  <1>5. job'[j] = row /\ \A k \in JobIds \ {j} : job'[k] = job[k]
    BY <1>0, <1>3 DEF TypeOK
  <1>6. QueueKept
    <2>1. Kept(j)
      BY <1>1, <1>2, <1>3, <1>5 DEF Kept, CrawlJob
    <2> QED BY <1>1, <1>5, <2>1 DEF QueueKept, Kept
  <1>7. TypeOK'
    BY <1>0, <1>1, <1>4, SameTyped, TypedParts
  <1>8. GoesOn
    BY <1>1, <1>6, SameWorkers, GoesOnParts
  <1> QED BY <1>7, <1>8 DEF Goes
-----------------------------------------------------------------------------
(* The steps that queue, cancel or end a job.                                *)

LEMMA RowWritten ==
    ASSUME TypeOK, NEW j \in JobIds, NEW row \in CrawlJob, job' = [job EXCEPT ![j] = row]
    PROVE  /\ JobTyped
           /\ job'[j] = row
           /\ \A k \in JobIds \ {j} : job'[k] = job[k]
  BY DEF TypeOK, JobTyped

\* One job goes on in its own way and the others are not touched.
LEMMA OneJobGoesOn ==
    ASSUME NEW j \in JobIds, JobGoesOn(j),
           \A k \in JobIds \ {j} : job'[k] = job[k] /\ log'[k] = log[k]
    PROVE  \A k \in JobIds : JobGoesOn(k)
  BY DEF JobGoesOn, Kept

LEMMA AbsentIsFresh ==
    ASSUME CrawlInv, NEW j \in JobIds, job[j].status = "absent"
    PROVE  Len(log[j]) < job[j].cap /\ job[j].cap <= MaxAttempts * (1 + reopens)
  BY DEF CrawlInv, BudgetLeft, AttemptsWithinCap

LEMMA EnqueueGoesOn ==
    ASSUME CrawlInv, NEW s \in Sites, NEW pages \in PageCounts, enqueue_crawl_job(s, pages)
    PROVE  Goes
  <1>0. TypeOK
    BY DEF CrawlInv
  <1>1. PICK j \in JobIds :
           /\ job[j].status = "absent"
           /\ ActiveOnSite(s) = {}
           /\ Room >= 1
           /\ job' = [job EXCEPT ![j].site = s, ![j].status = "queued",
                                 ![j].maxPages = AtMost(AtLeast(1, pages), Room)]
    BY DEF enqueue_crawl_job
  <1>2. UNCHANGED <<log, frontier, stored, usage, worker, reopens, faults>>
    BY DEF enqueue_crawl_job
  <1> DEFINE n == AtMost(AtLeast(1, pages), Room)
             row == [job[j] EXCEPT !.site = s, !.status = "queued", !.maxPages = n]
  <1>3. n \in Nat
    BY <1>0, RoomIsANumber, CrawlConstants DEF AtMost, AtLeast
  <1>4. job' = [job EXCEPT ![j] = row]
    BY <1>0, <1>1 DEF TypeOK
  <1> HIDE DEF n
  <1>5. job[j] \in CrawlJob
    BY <1>0 DEF TypeOK
  <1>6. /\ row \in CrawlJob
        /\ row.status = "queued" /\ row.site = s /\ row.cap = job[j].cap
        /\ row.cancelReq = job[j].cancelReq
    BY <1>3, <1>5 DEF CrawlJob, ACTIVE_CRAWL_STATUSES
  <1> HIDE DEF row
  <1>7. JobTyped /\ job'[j] = row /\ \A k \in JobIds \ {j} : job'[k] = job[k]
    BY <1>0, <1>4, <1>6, RowWritten
  <1>8. ~job[j].cancelReq
    BY <1>1 DEF CrawlInv, AbsentIsPristine
  <1>9. Queued(j)
    BY <1>1, <1>2, <1>6, <1>7, <1>8, AbsentIsFresh DEF Queued, TERMINAL_CRAWL_STATUSES
  <1>10. TypeOK'
    BY <1>0, <1>2, <1>7, SameTyped, TypedParts
  <1>11. GoesOn
    BY <1>2, <1>7, <1>9, OneJobGoesOn, SameWorkers, GoesOnParts DEF JobGoesOn
  <1> QED BY <1>10, <1>11 DEF Goes

LEMMA CancellationGoesOn ==
    ASSUME CrawlInv, NEW j \in JobIds, request_crawl_cancellation(j)
    PROVE  Goes
  <1>0. TypeOK
    BY DEF CrawlInv
  <1>1. UNCHANGED <<log, frontier, stored, usage, worker, reopens, faults>>
    BY DEF request_crawl_cancellation
  <1> DEFINE running == job[j].status = "running"
             row == [job[j] EXCEPT !.cancelReq = TRUE,
                                   !.status = IF running THEN "running" ELSE "cancelled",
                                   !.owner = IF running THEN job[j].owner ELSE None]
  <1>2. job[j] \in CrawlJob
    BY <1>0 DEF TypeOK
  <1>3. job' = [job EXCEPT ![j] = row]
    BY <1>0, <1>2 DEF TypeOK, request_crawl_cancellation, CrawlJob
  <1>4. row \in CrawlJob
    BY <1>2 DEF CrawlJob, ACTIVE_CRAWL_STATUSES, TERMINAL_CRAWL_STATUSES
  <1>5. /\ row.status = IF running THEN "running" ELSE "cancelled"
        /\ row.owner = IF running THEN job[j].owner ELSE None
        /\ row.cancelReq
        /\ row.cap = job[j].cap /\ row.site = job[j].site
    BY <1>2 DEF CrawlJob
  <1> HIDE DEF row
  <1>6. JobTyped /\ job'[j] = row /\ \A k \in JobIds \ {j} : job'[k] = job[k]
    BY <1>0, <1>3, <1>4, RowWritten
  <1>7. Cancelled(j)
    BY <1>1, <1>5, <1>6 DEF Cancelled, request_crawl_cancellation
  <1>8. TypeOK'
    BY <1>0, <1>1, <1>6, SameTyped, TypedParts
  <1>9. GoesOn
    BY <1>1, <1>6, <1>7, OneJobGoesOn, SameWorkers, GoesOnParts DEF JobGoesOn
  <1> QED BY <1>8, <1>9 DEF Goes

LEMMA ReopenGoesOn ==
    ASSUME CrawlInv, NEW j \in JobIds, NEW n \in Nat, Terminal(j), ActiveOnSite(job[j].site) = {},
           Reopen(j, n), FrontierTyped, UNCHANGED <<log, stored, usage, worker, faults>>
    PROVE  Goes
  <1>0. TypeOK
    BY DEF CrawlInv
  <1>1. job[j] \in CrawlJob /\ Len(log[j]) \in Nat
    BY <1>0, LenProperties DEF TypeOK
  <1> DEFINE cap == AtLeast(job[j].cap, Len(log[j]) + MaxAttempts)
             row == [job[j] EXCEPT !.status = "queued", !.cancelReq = FALSE, !.due = TRUE,
                                   !.owner = None, !.live = FALSE, !.maxPages = n, !.cap = cap]
  <1>2. job' = [job EXCEPT ![j] = row] /\ reopens' = reopens + 1
    BY <1>0, <1>1 DEF TypeOK, Reopen, CrawlJob
  <1>3. /\ cap \in Nat
        /\ Len(log[j]) < cap
        /\ cap <= MaxAttempts * (1 + reopens')
    <2>1. /\ job[j].cap \in Nat
          /\ Len(log[j]) <= job[j].cap
          /\ job[j].cap <= MaxAttempts * (1 + reopens)
      BY <1>1 DEF CrawlInv, AttemptsWithinCap, CrawlJob
    <2>2. MaxAttempts \in Nat /\ MaxAttempts > 0 /\ reopens \in Nat
      BY <1>0, CrawlConstants DEF TypeOK
    <2>3. MaxAttempts * (1 + reopens') = MaxAttempts * (1 + reopens) + MaxAttempts
      BY <1>2, <2>2
    <2>4. MaxAttempts * (1 + reopens) \in Nat
      BY <2>2
    <2> QED BY <1>1, <2>1, <2>2, <2>3, <2>4 DEF AtLeast
  <1> HIDE DEF cap
  <1>4. /\ row \in CrawlJob
        /\ row.status = "queued" /\ row.cap = cap /\ row.site = job[j].site
        /\ ~row.cancelReq
    BY <1>1, <1>3 DEF CrawlJob, ACTIVE_CRAWL_STATUSES
  <1> HIDE DEF row
  <1>5. JobTyped /\ job'[j] = row /\ \A k \in JobIds \ {j} : job'[k] = job[k]
    BY <1>0, <1>2, <1>4, RowWritten
  <1>6. Queued(j)
    BY <1>2, <1>3, <1>4, <1>5 DEF Queued, Terminal
  <1>7. reopens' \in 0..MaxReopens
    BY <1>0, <1>2, CrawlConstants DEF Reopen, TypeOK
  <1>8. CountersTyped
    BY <1>0, <1>7 DEF CountersTyped, TypeOK
  <1>9. TypeOK'
    BY <1>0, <1>5, <1>8, SameTyped, TypedParts
  <1>10. GoesOn
    BY <1>2, <1>5, <1>6, OneJobGoesOn, SameWorkers, GoesOnParts DEF JobGoesOn
  <1> QED BY <1>9, <1>10 DEF Goes

LEMMA ReopeningsGoOn ==
    ASSUME CrawlInv, NEW j \in JobIds, resume_crawl_job(j) \/ retry_failed_crawl_pages(j)
    PROVE  Goes
  <1>0. TypeOK /\ job[j] \in CrawlJob
    BY DEF CrawlInv, TypeOK
  <1>1. CASE resume_crawl_job(j)
    <2> DEFINE n == AtMost(AtLeast(1, job[j].maxPages), Room)
    <2>1. n \in Nat
      BY <1>0, RoomIsANumber, CrawlConstants DEF AtMost, AtLeast, CrawlJob
    <2>2. FrontierTyped
      BY <1>0, <1>1, RowsSetTyped DEF resume_crawl_job, RowStatuses
    <2>3. Reopen(j, n) /\ Terminal(j) /\ ActiveOnSite(job[j].site) = {}
      BY <1>1 DEF resume_crawl_job, Terminal, TERMINAL_CRAWL_STATUSES
    <2> HIDE DEF n
    <2> QED BY <1>1, <2>1, <2>2, <2>3, ReopenGoesOn DEF resume_crawl_job
  <1>2. CASE retry_failed_crawl_pages(j)
    <2> DEFINE retryable == Rows(j, {"failed"})
               n == AtLeast(1, AtLeast(job[j].resultPages, job[j].snapPages) + Cardinality(retryable))
    <2>1. n \in Nat
      BY <1>0, RowSets DEF AtLeast, CrawlJob
    <2>2. FrontierTyped
      BY <1>0, <1>2, RowsSetTyped DEF retry_failed_crawl_pages, RowStatuses
    <2>3. Reopen(j, n) /\ Terminal(j) /\ ActiveOnSite(job[j].site) = {}
      BY <1>2 DEF retry_failed_crawl_pages
    <2> HIDE DEF n
    <2> QED BY <1>2, <2>1, <2>2, <2>3, ReopenGoesOn DEF retry_failed_crawl_pages
  <1> QED BY <1>1, <1>2

\* The lease of job j ends: the row written, and what becomes of the log.
LEMMA LeaseEnded ==
    ASSUME TypeOK, NEW j \in JobIds, NEW row \in CrawlJob, job' = [job EXCEPT ![j] = row],
           job[j].status = "running",
           row.status \in TERMINAL_CRAWL_STATUSES \cup {"retry_wait"},
           row.status \in {"retry_wait", "completed"} => ~job[j].cancelReq,
           row.status = "retry_wait" => Len(log[j]) < job[j].cap,
           row.owner = None, row.cap = job[j].cap,
           row.cancelReq = job[j].cancelReq, row.site = job[j].site,
           CloseLast(j) \/ CloseLatestRunning(j) \/ UNCHANGED log
    PROVE  JobTyped /\ LogTyped /\ \A k \in JobIds : JobGoesOn(k)
  <1>1. JobTyped /\ job'[j] = row /\ \A k \in JobIds \ {j} : job'[k] = job[k]
    BY RowWritten
  <1>2. /\ LogTyped
        /\ Len(log'[j]) = Len(log[j])
        /\ \A k \in JobIds \ {j} : log'[k] = log[k]
    <2>1. CASE CloseLast(j) \/ CloseLatestRunning(j)
      BY <2>1, CloseTyped
    <2>2. CASE UNCHANGED log
      BY <2>2, SameTyped
    <2> QED BY <2>1, <2>2
  <1>3. LeaseEnds(j)
    BY <1>1, <1>2 DEF LeaseEnds
  <1> QED BY <1>1, <1>2, <1>3, OneJobGoesOn DEF JobGoesOn

LEMMA Attempts ==
    ASSUME TypeOK, NEW j \in JobIds
    PROVE  Len(log[j]) \in Nat /\ job[j] \in CrawlJob /\ job[j].cap \in Nat
  BY LenProperties DEF TypeOK, CrawlJob

LEMMA RecoveryGoesOn ==
    ASSUME CrawlInv, NEW j \in JobIds, recover_expired_crawl_leases(j)
    PROVE  Goes
  <1>0. TypeOK
    BY DEF CrawlInv
  <1>1. UNCHANGED <<stored, usage, worker, reopens, faults>>
    BY DEF recover_expired_crawl_leases
  <1> DEFINE row == [job[j] EXCEPT !.status = Recovered(j), !.owner = None, !.due = TRUE]
  <1>2. Len(log[j]) \in Nat /\ job[j] \in CrawlJob /\ job[j].cap \in Nat
    BY <1>0, Attempts
  <1>3. job' = [job EXCEPT ![j] = row]
    BY <1>0 DEF TypeOK, recover_expired_crawl_leases
  <1>4. /\ Recovered(j) \in {"cancelled", "failed", "retry_wait"}
        /\ Recovered(j) = "retry_wait" => ~job[j].cancelReq /\ Len(log[j]) < job[j].cap
    BY <1>2 DEF Recovered
  <1>5. /\ row \in CrawlJob
        /\ row.status = Recovered(j) /\ row.owner = None
        /\ row.cap = job[j].cap /\ row.cancelReq = job[j].cancelReq /\ row.site = job[j].site
    BY <1>2, <1>4 DEF CrawlJob, ACTIVE_CRAWL_STATUSES, TERMINAL_CRAWL_STATUSES
  <1> HIDE DEF row
  <1>6. JobTyped /\ LogTyped /\ \A k \in JobIds : JobGoesOn(k)
    BY <1>0, <1>3, <1>4, <1>5, LeaseEnded DEF recover_expired_crawl_leases, TERMINAL_CRAWL_STATUSES
  <1>7. FrontierTyped
    BY <1>0, RowsSetTyped DEF recover_expired_crawl_leases, RowStatuses
  <1>8. TypeOK'
    BY <1>0, <1>1, <1>6, <1>7, SameTyped, TypedParts
  <1>9. GoesOn
    BY <1>1, <1>6, SameWorkers, GoesOnParts
  <1> QED BY <1>8, <1>9 DEF Goes

\* What EndLease leaves of a row, for the ends a worker gives its job.
Ended(r, status, pages, due) ==
    [r EXCEPT !.status = status, !.owner = None, !.live = FALSE, !.resultPages = pages, !.due = due]

LEMMA EndedRow ==
    ASSUME NEW r \in CrawlJob, NEW status \in TERMINAL_CRAWL_STATUSES \cup {"retry_wait"},
           NEW pages \in Nat, NEW due \in BOOLEAN
    PROVE  /\ Ended(r, status, pages, due) \in CrawlJob
           /\ Ended(r, status, pages, due).status = status
           /\ Ended(r, status, pages, due).owner = None
           /\ Ended(r, status, pages, due).cap = r.cap
           /\ Ended(r, status, pages, due).cancelReq = r.cancelReq
           /\ Ended(r, status, pages, due).site = r.site
  BY DEF Ended, CrawlJob, ACTIVE_CRAWL_STATUSES, TERMINAL_CRAWL_STATUSES

LEMMA FinalizeGoesOn ==
    ASSUME CrawlInv, NEW w \in Workers, Finalize(w)
    PROVE  Goes
  <1> DEFINE j == worker[w].job
             pages == worker[w].pages
             status == IF job[j].cancelReq THEN "cancelled" ELSE "completed"
             charge == IF job[j].cancelReq THEN 0 ELSE pages
             row == Ended(job[j], status, pages, job[j].due)
  <1>0. TypeOK
    BY DEF CrawlInv
  <1>1. j \in JobIds /\ pages \in Nat
    BY <1>0, WorkersJob DEF Finalize, At, TypeOK, CrawlWorker
  <1>2. WorkerTyped /\ WorkersGoOn
    BY <1>0, WorkerMoves, WorkerReleased DEF Finalize
  <1>3. UNCHANGED <<frontier, stored, reopens, faults>>
    BY DEF Finalize
  <1>4. JobTyped /\ LogTyped /\ usage' \in Nat /\ \A k \in JobIds : JobGoesOn(k)
    <2>1. CASE HoldsLease(w) /\ AttemptIsCurrent(w)
      <3>0. CloseLast(j) /\ usage' = usage + charge
        BY <2>1 DEF Finalize
      <3>1. job' = [job EXCEPT ![j] = row]
        <4>1. job' = [EndLease(j, status) EXCEPT ![j].resultPages = pages]
          BY <2>1 DEF Finalize
        <4>2. job[j] \in CrawlJob
          BY <1>0, <1>1 DEF TypeOK
        <4> HIDE DEF pages, status
        <4>3. row = [[job[j] EXCEPT !.status = status, !.owner = None, !.live = FALSE] EXCEPT !.resultPages = pages]
          BY <4>2 DEF CrawlJob, Ended
        <4> HIDE DEF row
        <4> QED BY <1>0, <1>1, <4>1, <4>3 DEF TypeOK, EndLease
      <3>2. status \in TERMINAL_CRAWL_STATUSES \cup {"retry_wait"} /\ job[j].due \in BOOLEAN
        BY <1>0, <1>1 DEF TERMINAL_CRAWL_STATUSES, TypeOK, CrawlJob
      <3>3. /\ row \in CrawlJob
            /\ row.status = status /\ row.owner = None
            /\ row.cap = job[j].cap /\ row.cancelReq = job[j].cancelReq /\ row.site = job[j].site
        <4>1. job[j] \in CrawlJob
          BY <1>0, <1>1 DEF TypeOK
        <4> QED BY <1>1, <3>2, <4>1, EndedRow
      <3>4. job[j].status = "running"
        BY <2>1 DEF HoldsLease, Owns
      <3>5. row.status = "completed" => ~job[j].cancelReq
        BY <3>3
      <3>6. row.status # "retry_wait"
        BY <3>3
      <3>7. row.status \in TERMINAL_CRAWL_STATUSES \cup {"retry_wait"}
        BY <3>2, <3>3
      <3>8. charge \in Nat
        BY <1>1
      <3> HIDE DEF row, charge
      <3>9. JobTyped /\ LogTyped /\ \A k \in JobIds : JobGoesOn(k)
        BY <1>0, <1>1, <3>0, <3>1, <3>3, <3>4, <3>5, <3>6, <3>7, LeaseEnded
      <3> QED BY <1>0, <3>0, <3>8, <3>9 DEF TypeOK
    <2>2. CASE ~(HoldsLease(w) /\ AttemptIsCurrent(w))
      <3>1. UNCHANGED <<job, log, usage>>
        BY <2>2 DEF Finalize
      <3> QED BY <1>0, <3>1, SameTyped, SameQueue DEF TypeOK, QueueKept, JobGoesOn
    <2> QED BY <2>1, <2>2
  <1>5. TypeOK'
    BY <1>0, <1>2, <1>3, <1>4, SameTyped, TypedParts DEF TypeOK, CountersTyped
  <1>6. GoesOn
    BY <1>2, <1>3, <1>4, GoesOnParts
  <1> QED BY <1>5, <1>6 DEF Goes

LEMMA FailuresGoOn ==
    ASSUME CrawlInv, NEW w \in Workers, FailCrawl(w) \/ fail_claimed_job(w)
    PROVE  Goes
  <1> DEFINE j == worker[w].job
  <1>0. TypeOK
    BY DEF CrawlInv
  <1>1. j \in JobIds
    BY <1>0, WorkersJob DEF FailCrawl, fail_claimed_job
  <1>2. WorkerTyped /\ WorkersGoOn
    BY <1>0, WorkerMoves, WorkerReleased DEF FailCrawl, fail_claimed_job
  <1>3. UNCHANGED <<stored, usage, reopens>> /\ CountersTyped
    BY <1>0, FaultTyped, SameTyped DEF FailCrawl, fail_claimed_job
  <1>r. job[j] \in CrawlJob /\ Len(log[j]) \in Nat /\ job[j].cap \in Nat
    BY <1>0, <1>1, Attempts
  <1>4. JobTyped /\ LogTyped /\ FrontierTyped /\ \A k \in JobIds : JobGoesOn(k)
    <2>1. CASE UNCHANGED <<job, log, frontier>>
      BY <1>0, <2>1, SameTyped, SameQueue DEF QueueKept, JobGoesOn
    <2>2. CASE FailCrawl(w) /\ HoldsLease(w)
      <3> DEFINE status == FailedTo(j)
                 due == FALSE
                 row == Ended(job[j], status, job[j].resultPages, due)
      <3>1. /\ status \in {"cancelled", "retry_wait", "failed"}
            /\ status = "retry_wait" => ~job[j].cancelReq /\ Len(log[j]) < job[j].cap
        BY <1>r DEF FailedTo
      <3>d. due \in BOOLEAN
        OBVIOUS
      <3> HIDE DEF status, due
      <3>2. job' = [job EXCEPT ![j] = row]
        <4>1. job' = [EndLease(j, status) EXCEPT ![j].due = due]
          BY <2>2 DEF FailCrawl, status, due
        <4>2. row = [[job[j] EXCEPT !.status = status, !.owner = None, !.live = FALSE] EXCEPT !.due = due]
          BY <1>r DEF CrawlJob, Ended
        <4> HIDE DEF row
        <4> QED BY <1>0, <1>1, <4>1, <4>2 DEF TypeOK, EndLease
      <3>3. job[j].resultPages \in Nat
        BY <1>r DEF CrawlJob
      <3>4. /\ row \in CrawlJob
            /\ row.status = status /\ row.owner = None
            /\ row.cap = job[j].cap /\ row.cancelReq = job[j].cancelReq /\ row.site = job[j].site
        <4>1. status \in TERMINAL_CRAWL_STATUSES \cup {"retry_wait"}
          BY <3>1 DEF TERMINAL_CRAWL_STATUSES
        <4> DEFINE r == job[j]
                   pages == r.resultPages
        <4>2. r \in CrawlJob /\ pages \in Nat
          BY <1>r, <3>3
        <4> HIDE DEF r, pages
        <4>3. /\ Ended(r, status, pages, due) \in CrawlJob
              /\ Ended(r, status, pages, due).status = status
              /\ Ended(r, status, pages, due).owner = None
              /\ Ended(r, status, pages, due).cap = r.cap
              /\ Ended(r, status, pages, due).cancelReq = r.cancelReq
              /\ Ended(r, status, pages, due).site = r.site
          BY <3>d, <4>1, <4>2, EndedRow
        <4> QED BY <4>3 DEF r, pages
      <3>5. job[j].status = "running" /\ CloseLast(j)
        BY <2>2 DEF FailCrawl, HoldsLease, Owns
      <3>6. FrontierTyped
        BY <1>0, <1>1, <2>2, RowsSetTyped DEF FailCrawl, RowStatuses
      <3> HIDE DEF row
      <3> QED BY <1>0, <1>1, <3>1, <3>2, <3>4, <3>5, <3>6, LeaseEnded DEF TERMINAL_CRAWL_STATUSES
    <2>3. CASE fail_claimed_job(w) /\ Owns(w)
      <3> DEFINE row == Ended(job[j], "failed", job[j].resultPages, job[j].due)
      <3>1. UNCHANGED <<log, frontier>>
        BY <2>3 DEF fail_claimed_job
      <3>2. job' = [job EXCEPT ![j] = row]
        <4>1. job' = EndLease(j, "failed")
          BY <2>3 DEF fail_claimed_job
        <4>2. row = [job[j] EXCEPT !.status = "failed", !.owner = None, !.live = FALSE]
          BY <1>r DEF CrawlJob, Ended
        <4> HIDE DEF row
        <4> QED BY <1>0, <1>1, <4>1, <4>2 DEF TypeOK, EndLease
      <3>3. job[j].resultPages \in Nat /\ job[j].due \in BOOLEAN
        BY <1>r DEF CrawlJob
      <3>4. /\ row \in CrawlJob
            /\ row.status = "failed" /\ row.owner = None
            /\ row.cap = job[j].cap /\ row.cancelReq = job[j].cancelReq /\ row.site = job[j].site
        <4>1. "failed" \in TERMINAL_CRAWL_STATUSES \cup {"retry_wait"}
          BY DEF TERMINAL_CRAWL_STATUSES
        <4> QED BY <1>r, <3>3, <4>1, EndedRow
      <3>5. job[j].status = "running"
        BY <2>3 DEF Owns
      <3>6. FrontierTyped
        BY <1>0, <3>1, SameTyped
      <3> HIDE DEF row
      <3> QED BY <1>0, <1>1, <3>1, <3>2, <3>4, <3>5, <3>6, LeaseEnded DEF TERMINAL_CRAWL_STATUSES
    <2> QED BY <2>1, <2>2, <2>3 DEF FailCrawl, fail_claimed_job
  <1>5. TypeOK'
    BY <1>0, <1>2, <1>3, <1>4, SameTyped, TypedParts
  <1>6. GoesOn
    BY <1>2, <1>3, <1>4, GoesOnParts
  <1> QED BY <1>5, <1>6 DEF Goes
-----------------------------------------------------------------------------
(* The two steps that give a worker a job.                                   *)

LEMMA ClaimKeepsInv ==
    ASSUME CrawlInv, NEW w \in Workers, NEW j \in JobIds, claim_next_crawl_job(w, j)
    PROVE  CrawlInv' /\ (Terminal(j) => Terminal(j)')
           /\ \A k \in JobIds \ {j} : job'[k] = job[k]
  <1>0. TypeOK
    BY DEF CrawlInv
  <1>1. UNCHANGED <<log, frontier, stored, usage, reopens, faults>>
    BY DEF claim_next_crawl_job
  <1> DEFINE claim == [Idle EXCEPT !.pc = "claimed", !.job = j]
  <1>2. /\ claim \in CrawlWorker
        /\ claim.pc = "claimed" /\ claim.job = j
    <2>1. j \in 0..MaxJobs
      BY CrawlConstants DEF JobIds
    <2> QED BY <2>1, IdleIsAWorker DEF CrawlWorker
  <1> HIDE DEF claim
  <1>3. worker' = [worker EXCEPT ![w] = claim]
    BY DEF claim_next_crawl_job, claim
  <1>4. worker'[w] = claim /\ \A v \in Workers \ {w} : worker'[v] = worker[v]
    BY <1>0, <1>3 DEF TypeOK
  <1>5. WorkerTyped
    BY <1>0, <1>2, <1>3 DEF TypeOK, WorkerTyped
  <1> DEFINE live == TRUE
             row == [job[j] EXCEPT !.status = "running", !.owner = w, !.live = live]
  <1>6. job' = [job EXCEPT ![j] = row] /\ live \in BOOLEAN
    BY <1>0 DEF TypeOK, claim_next_crawl_job
  <1> HIDE DEF live
  <1>7. job[j] \in CrawlJob
    BY <1>0 DEF TypeOK
  <1>8. /\ row \in CrawlJob
        /\ row.status = "running" /\ row.owner = w
        /\ row.cap = job[j].cap /\ row.cancelReq = job[j].cancelReq /\ row.site = job[j].site
    BY <1>6, <1>7 DEF CrawlJob, ACTIVE_CRAWL_STATUSES
  <1> HIDE DEF row
  <1>9. JobTyped /\ job'[j] = row /\ \A k \in JobIds \ {j} : job'[k] = job[k]
    BY <1>0, <1>6, <1>8, RowWritten
  <1>10. TypeOK'
    BY <1>0, <1>1, <1>5, <1>9, SameTyped, TypedParts
  <1>11. job[j].status \in {"queued", "retry_wait"}
    BY DEF claim_next_crawl_job
  \* No other worker owns the job, nor any other job that it did not own before.
  <1>12. ASSUME NEW v \in Workers \ {w}, worker[v].pc # "idle", Owns(v)'
         PROVE  worker[v].job \in JobIds \ {j} /\ Owns(v)
    BY <1>4, <1>8, <1>9, <1>12 DEF CrawlInv, OwnersAndJobs, Owns
  <1>13. OwnersAndJobs'
    BY <1>2, <1>4, <1>8, <1>9 DEF CrawlInv, OwnersAndJobs
  <1>14. BudgetLeft'
    <2>1. \A k \in JobIds : job'[k].status \in WaitingStatuses \cup {"absent"} => Len(log'[k]) < job'[k].cap
      BY <1>1, <1>8, <1>9 DEF CrawlInv, BudgetLeft, WaitingStatuses
    <2>2. ASSUME NEW v \in Workers, worker'[v].pc = "claimed", Owns(v)'
          PROVE  Len(log'[worker'[v].job]) < job'[worker'[v].job].cap
      <3>1. CASE v = w
        BY <1>1, <1>2, <1>4, <1>8, <1>9, <1>11, <3>1 DEF CrawlInv, BudgetLeft, WaitingStatuses
      <3>2. CASE v # w
        BY <1>1, <1>4, <1>9, <1>12, <2>2, <3>2 DEF CrawlInv, BudgetLeft
      <3> QED BY <3>1, <3>2
    <2> QED BY <2>1, <2>2 DEF BudgetLeft
  <1>15. WaitingIsClaimable' /\ CompletedWasNotCancelled' /\ AbsentIsPristine'
    BY <1>8, <1>9 DEF CrawlInv, WaitingIsClaimable, CompletedWasNotCancelled, AbsentIsPristine
  <1>16. AttemptsWithinCap'
    BY <1>1, <1>8, <1>9 DEF CrawlInv, AttemptsWithinCap
  <1>17. LeaseHoldersAttempt'
    <2> SUFFICES ASSUME NEW v \in Workers, worker'[v].pc \in Steps \cup {"failing"}, Owns(v)'
                 PROVE  AttemptIsCurrent(v)'
      BY DEF LeaseHoldersAttempt
    <2>1. v # w
      BY <1>2, <1>4 DEF Steps
    <2> QED BY <1>1, <1>4, <1>12, <2>1 DEF CrawlInv, LeaseHoldersAttempt, AttemptIsCurrent, Steps
  <1>18. OneActiveCrawl'
    <2>1. \A k \in JobIds : Active(k)' => Active(k) /\ job'[k].site = job[k].site
      BY <1>8, <1>9, <1>11 DEF Active, ACTIVE_CRAWL_STATUSES
    <2> QED BY <2>1 DEF CrawlInv, OneActiveCrawl
  <1>19. ~Terminal(j)
    BY <1>11 DEF Terminal, TERMINAL_CRAWL_STATUSES
  <1> QED BY <1>9, <1>10, <1>13, <1>14, <1>15, <1>16, <1>17, <1>18, <1>19 DEF CrawlInv

LEMMA BeginKeepsInv ==
    ASSUME CrawlInv, NEW w \in Workers, BeginAttempt(w)
    PROVE  CrawlInv' /\ UNCHANGED job
  <1> DEFINE j == worker[w].job
  <1>0. TypeOK
    BY DEF CrawlInv
  <1>1. UNCHANGED <<job, frontier, stored, usage, reopens, faults>>
    BY DEF BeginAttempt
  <1>2. j \in JobIds /\ worker[w].pc = "claimed"
    BY WorkersJob DEF BeginAttempt
  <1>3. CASE Release(w) /\ UNCHANGED log
    <2>1. WorkerTyped /\ WorkersGoOn
      BY <1>0, <1>3, WorkerMoves, WorkerReleased
    <2>2. TypeOK'
      BY <1>0, <1>1, <1>3, <2>1, SameTyped, TypedParts
    <2>3. GoesOn
      BY <1>1, <1>3, <2>1, SameQueue, GoesOnParts
    <2> QED BY <1>1, <2>2, <2>3, GoesOnKeepsInv
  <1>4. CASE /\ Owns(w)
             /\ log' = [log EXCEPT ![j] = Append(@, [by |-> w, running |-> TRUE])]
             /\ worker' = [worker EXCEPT ![w].pc = "opening", ![w].limit = job[j].maxPages]
    <2> DEFINE Entry == [by : Workers, running : BOOLEAN]
               entry == [by |-> w, running |-> TRUE]
    <2>1. log[j] \in Seq(Entry) /\ entry \in Entry
      BY <1>0, <1>2 DEF TypeOK
    <2> HIDE DEF Entry, entry
    <2>2. /\ Append(log[j], entry) \in Seq(Entry)
          /\ Append(log[j], entry) # <<>>
          /\ Len(Append(log[j], entry)) = Len(log[j]) + 1
          /\ Append(log[j], entry)[Len(log[j]) + 1] = entry
      BY <2>1, AppendProperties
    <2>3. /\ log' = [log EXCEPT ![j] = Append(log[j], entry)]
          /\ log'[j] = Append(log[j], entry)
          /\ \A k \in JobIds \ {j} : log'[k] = log[k]
      BY <1>0, <1>2, <1>4 DEF TypeOK, entry
    <2>4. LogTyped
      BY <1>0, <2>2, <2>3 DEF TypeOK, LogTyped, Entry
    <2>5. job[j] \in CrawlJob /\ job[j].maxPages \in Nat /\ job[j].cap \in Nat
      BY <1>0, <1>2 DEF TypeOK, CrawlJob
    <2> DEFINE n == job[j].maxPages
               began == [worker[w] EXCEPT !.pc = "opening", !.limit = n]
    <2>6. worker' = [worker EXCEPT ![w] = began]
      BY <1>0, <1>4 DEF TypeOK
    <2> HIDE DEF n
    <2>7. /\ began \in CrawlWorker
          /\ began.pc = "opening" /\ began.job = j
      BY <1>0, <2>5 DEF TypeOK, CrawlWorker, Steps, n
    <2> HIDE DEF began
    <2>8. /\ WorkerTyped
          /\ worker'[w] = began
          /\ \A v \in Workers \ {w} : worker'[v] = worker[v]
      BY <1>0, <2>6, <2>7 DEF TypeOK, WorkerTyped
    <2>9. TypeOK'
      BY <1>0, <1>1, <2>4, <2>8, SameTyped, TypedParts
    <2>10. \A k \in JobIds : Len(log[k]) \in Nat /\ job[k].cap \in Nat
      BY <1>0, Attempts
    <2>11. job[j].status = "running" /\ job[j].owner = w /\ Len(log[j]) < job[j].cap
      BY <1>2, <1>4 DEF CrawlInv, BudgetLeft, Owns
    \* The job is nobody else's.
    <2>12. ASSUME NEW v \in Workers \ {w}, Owns(v)', worker[v].pc # "idle"
           PROVE  worker[v].job \in JobIds \ {j} /\ Owns(v)
      BY <1>1, <2>8, <2>11, <2>12 DEF CrawlInv, OwnersAndJobs, Owns
    <2>13. OwnersAndJobs'
      BY <1>1, <1>2, <2>7, <2>8 DEF CrawlInv, OwnersAndJobs
    <2>14. BudgetLeft'
      <3>1. ASSUME NEW k \in JobIds, job'[k].status \in WaitingStatuses \cup {"absent"}
            PROVE  Len(log'[k]) < job'[k].cap
        <4>1. k # j
          BY <1>1, <2>11, <3>1 DEF WaitingStatuses
        <4> QED BY <1>1, <2>3, <3>1, <4>1 DEF CrawlInv, BudgetLeft
      <3>2. ASSUME NEW v \in Workers, worker'[v].pc = "claimed", Owns(v)'
            PROVE  Len(log'[worker'[v].job]) < job'[worker'[v].job].cap
        <4>1. v # w
          BY <2>7, <2>8, <3>2
        <4> QED BY <1>1, <2>3, <2>8, <2>12, <3>2, <4>1 DEF CrawlInv, BudgetLeft
      <3> QED BY <3>1, <3>2 DEF BudgetLeft
    <2>15. /\ WaitingIsClaimable' /\ CompletedWasNotCancelled' /\ AbsentIsPristine'
           /\ OneActiveCrawl'
      BY <1>1 DEF CrawlInv, WaitingIsClaimable, CompletedWasNotCancelled, AbsentIsPristine,
                  OneActiveCrawl, Active
    <2>16. AttemptsWithinCap'
      <3> SUFFICES ASSUME NEW k \in JobIds
                   PROVE  Len(log'[k]) <= job'[k].cap /\ job'[k].cap <= MaxAttempts * (1 + reopens')
        BY DEF AttemptsWithinCap
      <3>1. job[k].cap <= MaxAttempts * (1 + reopens) /\ Len(log[k]) <= job[k].cap
        BY DEF CrawlInv, AttemptsWithinCap
      <3>2. CASE k = j
        BY <1>1, <2>2, <2>3, <2>10, <2>11, <3>1, <3>2
      <3>3. CASE k # j
        BY <1>1, <2>3, <3>1, <3>3
      <3> QED BY <3>2, <3>3
    <2>17. LeaseHoldersAttempt'
      <3> SUFFICES ASSUME NEW v \in Workers, worker'[v].pc \in Steps \cup {"failing"}, Owns(v)'
                   PROVE  AttemptIsCurrent(v)'
        BY DEF LeaseHoldersAttempt
      <3>1. CASE v = w
        <4>1. worker'[v].job = j
          BY <2>7, <2>8, <3>1
        <4> QED BY <2>2, <2>3, <3>1, <4>1 DEF AttemptIsCurrent, entry
      <3>2. CASE v # w
        BY <2>3, <2>8, <2>12, <3>2 DEF CrawlInv, LeaseHoldersAttempt, AttemptIsCurrent, Steps
      <3> QED BY <3>1, <3>2
    <2> QED BY <1>1, <2>9, <2>13, <2>14, <2>15, <2>16, <2>17 DEF CrawlInv
  <1> QED BY <1>3, <1>4 DEF BeginAttempt
-----------------------------------------------------------------------------
(* Theorems.                                                                 *)

\* A finished job stays finished, or something was reopened.
StaysEnded == \A j \in JobIds : Terminal(j) => Terminal(j)' \/ reopens' > reopens

LEMMA GoesOnEnds ==
    ASSUME CrawlInv, Goes
    PROVE  CrawlInv' /\ StaysEnded
  <1>1. CrawlInv'
    BY GoesOnKeepsInv DEF Goes
  <1>2. reopens \in Nat /\ reopens' \in Nat
    BY CrawlConstants DEF CrawlInv, Goes, TypeOK
  <1>3. StaysEnded
    <2> SUFFICES ASSUME NEW j \in JobIds, Terminal(j)
                 PROVE  Terminal(j)' \/ reopens' > reopens
      BY DEF StaysEnded
    <2>1. JobGoesOn(j)
      BY DEF Goes, GoesOn
    <2>2. CASE Queued(j)
      BY <1>2, <2>2 DEF Queued, Terminal
    <2>3. CASE ~Queued(j)
      BY <2>1, <2>3 DEF JobGoesOn, Kept, LeaseEnds, Cancelled, Terminal, Active,
                        ACTIVE_CRAWL_STATUSES, TERMINAL_CRAWL_STATUSES
    <2> QED BY <2>2, <2>3
  <1> QED BY <1>1, <1>3

LEMMA InitCrawlInv == Init => CrawlInv
  <1> SUFFICES ASSUME Init
               PROVE  CrawlInv
    OBVIOUS
  <1>1. NoCrawlJob \in CrawlJob /\ NoCrawlJob.status = "absent" /\ ~NoCrawlJob.cancelReq
        /\ NoCrawlJob.cap = MaxAttempts
    BY CrawlConstants DEF NoCrawlJob, CrawlJob
  <1>2. TypeOK
    <2>1. job \in [JobIds -> CrawlJob] /\ worker \in [Workers -> CrawlWorker]
      BY <1>1, IdleIsAWorker DEF Init
    <2>2. /\ log \in [JobIds -> Seq([by : Workers, running : BOOLEAN])]
          /\ frontier \in [JobIds -> [Urls -> RowStatuses]]
          /\ stored \in [JobIds -> SUBSET Urls]
      BY DEF Init, RowStatuses
    <2>3. usage \in Nat /\ reopens \in 0..MaxReopens /\ faults \in 0..MaxFaults
      BY CrawlConstants DEF Init
    <2> QED BY <2>1, <2>2, <2>3 DEF TypeOK
  <1>3. \A w \in Workers : worker[w].pc = "idle"
    BY DEF Init, Idle
  <1>4. \A j \in JobIds : job[j] = NoCrawlJob /\ Len(log[j]) = 0
    BY DEF Init
  <1>5. OwnersAndJobs /\ AbsentIsPristine
    BY <1>1, <1>3, <1>4 DEF OwnersAndJobs, AbsentIsPristine
  <1>6. BudgetLeft
    BY <1>1, <1>3, <1>4, CrawlConstants DEF BudgetLeft
  <1>7. WaitingIsClaimable /\ CompletedWasNotCancelled
    BY <1>1, <1>4 DEF WaitingIsClaimable, CompletedWasNotCancelled
  <1>8. AttemptsWithinCap
    <2>1. reopens = 0 /\ MaxAttempts * (1 + 0) = MaxAttempts /\ MaxAttempts \in Nat
      BY CrawlConstants DEF Init
    <2> QED BY <1>1, <1>4, <2>1 DEF AttemptsWithinCap
  <1>9. LeaseHoldersAttempt
    BY <1>3 DEF LeaseHoldersAttempt, Steps
  <1>10. OneActiveCrawl
    BY <1>1, <1>4 DEF OneActiveCrawl, Active, ACTIVE_CRAWL_STATUSES
  <1> QED BY <1>2, <1>5, <1>6, <1>7, <1>8, <1>9, <1>10 DEF CrawlInv

LEMMA CrawlInvNext == CrawlInv /\ [Next]_vars => CrawlInv' /\ StaysEnded
  <1> SUFFICES ASSUME CrawlInv, [Next]_vars
               PROVE  CrawlInv' /\ StaysEnded
    OBVIOUS
  <1>1. CASE Request
    <2>1. Goes
      BY <1>1, EnqueueGoesOn, CancellationGoesOn, ReopeningsGoOn DEF Request
    <2> QED BY <2>1, GoesOnEnds
  <1>2. ASSUME NEW w \in Workers, NEW j \in JobIds, claim_next_crawl_job(w, j)
        PROVE  CrawlInv' /\ StaysEnded
    <2>1. \A k \in JobIds : Terminal(k) => Terminal(k)'
      BY <1>2, ClaimKeepsInv DEF Terminal
    <2> QED BY <1>2, <2>1, ClaimKeepsInv DEF StaysEnded
  <1>3. ASSUME NEW w \in Workers, BeginAttempt(w)
        PROVE  CrawlInv' /\ StaysEnded
    BY <1>3, BeginKeepsInv DEF StaysEnded, Terminal
  <1>4. ASSUME NEW w \in Workers,
               CrawlStep(w) \/ StepAborts(w) \/ fail_claimed_job(w) \/ WorkerDies(w), ~BeginAttempt(w)
        PROVE  CrawlInv' /\ StaysEnded
    <2>1. Goes
      BY <1>4, SeedsAndPicks, ControlGoesOn, OpensAndFails, SettlesOnGoing, EndsCrawl, FinalizeGoesOn,
         FailuresGoOn, FaultsGoOn DEF CrawlStep
    <2> QED BY <2>1, GoesOnEnds
  <1>5. ASSUME NEW j \in JobIds, recover_expired_crawl_leases(j) \/ LeaseExpires(j) \/ BackoffEnds(j)
        PROVE  CrawlInv' /\ StaysEnded
    <2>1. Goes
      BY <1>5, RecoveryGoesOn, TimeGoesOn
    <2> QED BY <2>1, GoesOnEnds
  <1>6. CASE UNCHANGED vars
    <2>1. UNCHANGED <<job, log, frontier, stored, usage, worker, reopens, faults>>
      BY <1>6 DEF vars
    <2>2. TypeOK'
      BY <2>1 DEF CrawlInv, TypeOK
    <2>3. GoesOn
      BY <2>1, SameQueue, SameWorkers, GoesOnParts
    <2> QED BY <2>2, <2>3, GoesOnEnds DEF Goes
  <1> QED BY <1>1, <1>2, <1>3, <1>4, <1>5, <1>6 DEF Next, Claim, CrawlStep

\* The inductive invariant of the crawl queue holds of every behaviour.
THEOREM CrawlInvariance == Spec => []CrawlInv
  <1> QED BY InitCrawlInv, CrawlInvNext, PTL DEF Spec

\* No site has two crawls waiting or running, whatever mix of starts, resumes and
\* page retries comes, and whatever the workers do to the jobs in between.
THEOREM CrawlsAreAlone == Spec => []OneActiveCrawl
  <1>1. CrawlInv => OneActiveCrawl
    BY DEF CrawlInv
  <1> QED BY <1>1, CrawlInvariance, PTL

\* A crawl that ended starts again through a resume or a page retry only.
THEOREM EndedCrawlsStayEnded == Spec => OnlyOperatorsReopen
  <1>1. CrawlInv /\ [Next]_vars => [\A j \in JobIds : Terminal(j) => Terminal(j)' \/ reopens' > reopens]_vars
    BY CrawlInvNext DEF StaysEnded
  <1> QED BY <1>1, CrawlInvariance, PTL DEF Spec, OnlyOperatorsReopen

\* What a crawl keeps through crashes, stalls, cancellations and reopenings: its
\* types, claimable waiting jobs, a bounded number of attempts, the newest attempt
\* in the hands of the lease's owner, and no completion of a cancelled crawl.
THEOREM CrawlsAreSafe == Spec => CrawlSafety
  <1>1. CrawlInv => TypeOK /\ WaitingIsClaimable /\ AttemptsWithinCap /\ LeaseHoldersAttempt
                    /\ CompletedWasNotCancelled
    BY DEF CrawlInv
  <1> QED BY <1>1, CrawlInvariance, EndedCrawlsStayEnded, PTL DEF CrawlSafety
-----------------------------------------------------------------------------
\* That crawls settle (CrawlsSettle of CrawlJobs): the pages reserved and charged
\* stay within the allowance, and a completed crawl leaves no row.  Both need that
\* no worker outlives its lease ("stall" is no fault), the second that no error
\* handler fails ("error" is none).

NoStalls == "stall" \notin FaultKinds
Calm == "error" \notin FaultKinds

\* A worker in a job holds its lease, works with the job's limit, takes no more
\* pages than the limit leaves, and closes with the pages stored.
WorkerOK(w) ==
    LET j == worker[w].job IN
    worker[w].pc # "idle" =>
        /\ HoldsLease(w)
        /\ worker[w].pc \in InHand => worker[w].limit = job[j].maxPages
        /\ worker[w].pc = "settling" =>
              Cardinality(worker[w].batch) + Cardinality(stored[j]) <= worker[w].limit
        /\ worker[w].pc = "closing" => worker[w].pages = Cardinality(stored[j])

\* What a worker has in hand of the rows of its job.
WorkerRows(w) ==
    LET j == worker[w].job IN
    worker[w].pc # "idle" =>
        /\ worker[w].pc \notin {"settling", "failing"} => Rows(j, {"fetching"}) = {}
        /\ worker[w].pc = "settling" => Rows(j, {"fetching"}) \subseteq worker[w].batch
        /\ worker[w].pc = "ending" => CapReached(w) \/ Rows(j, {"queued"}) = {}
        /\ worker[w].pc = "closing" => Rows(j, {"queued"}) = {}

\* An active crawl that was not reopened stored no more than it reserved.
JobOK(j) ==
    /\ reopens = 0 /\ Active(j) => Cardinality(stored[j]) <= job[j].maxPages
    /\ job[j].status = "absent" => stored[j] = {} /\ ~job[j].snapshot

\* Rows are being fetched under a lease only, and a completed job has none left.
JobRows(j) ==
    /\ job[j].status # "running" => Rows(j, {"fetching"}) = {}
    /\ job[j].status = "completed" => Rows(j, {"queued"}) = {}

\* Inductive together with CrawlInv, where no worker stalls.
SettleInv ==
    /\ \A w \in Workers : WorkerOK(w) /\ (Calm => WorkerRows(w))
    /\ \A j \in JobIds : JobOK(j) /\ (Calm => JobRows(j))
    /\ FreshCrawlsKeepAllowance
-----------------------------------------------------------------------------
(* The allowance.                                                            *)

\* Where one row of the job table changes, the reservations change with it.
LEMMA ReservationsChange ==
    ASSUME NEW jobs \in [JobIds -> CrawlJob], NEW new \in [JobIds -> CrawlJob], NEW j \in JobIds,
           \A k \in JobIds \ {j} : SlotsOf(new, k) = SlotsOf(jobs, k)
    PROVE  /\ Cardinality(AllSlots(jobs)) \in Nat
           /\ Cardinality(AllSlots(new)) \in Nat
           /\ Held(jobs[j]) \in Nat /\ Held(new[j]) \in Nat
           /\ Cardinality(AllSlots(new)) + Held(jobs[j]) = Cardinality(AllSlots(jobs)) + Held(new[j])
  <1> DEFINE Others == UNION {SlotsOf(jobs, k) : k \in JobIds \ {j}}
  <1>1. AllSlots(jobs) = Others \cup SlotsOf(jobs, j)
    BY DEF AllSlots
  <1>2. AllSlots(new) = Others \cup SlotsOf(new, j)
    BY DEF AllSlots
  <1>3. Others \cap SlotsOf(jobs, j) = {} /\ Others \cap SlotsOf(new, j) = {}
    BY DEF SlotsOf
  <1>4. /\ IsFiniteSet(SlotsOf(jobs, j)) /\ Cardinality(SlotsOf(jobs, j)) = Held(jobs[j])
        /\ IsFiniteSet(SlotsOf(new, j)) /\ Cardinality(SlotsOf(new, j)) = Held(new[j])
        /\ IsFiniteSet(AllSlots(jobs))
    BY AllSlotsFinite
  <1> HIDE DEF Others
  <1>5. IsFiniteSet(Others)
    BY <1>1, <1>4, FS_Subset
  <1>6. Cardinality(AllSlots(jobs)) = Cardinality(Others) + Held(jobs[j]) - Cardinality({})
    BY <1>1, <1>3, <1>4, <1>5, FS_Union
  <1>7. Cardinality(AllSlots(new)) = Cardinality(Others) + Held(new[j]) - Cardinality({})
    BY <1>2, <1>3, <1>4, <1>5, FS_Union
  <1>8. /\ Cardinality(Others) \in Nat /\ Cardinality({}) = 0
        /\ Held(jobs[j]) \in Nat /\ Held(new[j]) \in Nat
    BY <1>4, <1>5, FS_EmptySet, FS_CardinalityType
  <1> QED BY <1>6, <1>7, <1>8
-----------------------------------------------------------------------------
(* A step inside a crawl touches the worker's own job, and no other worker's. *)

\* Nothing of job j changes that leases, limits and reservations depend on.
JobHeld(j) ==
    /\ job'[j].status = job[j].status
    /\ job'[j].owner = job[j].owner
    /\ job'[j].live = job[j].live
    /\ job'[j].maxPages = job[j].maxPages
    /\ job'[j].site = job[j].site

LEMMA Engaged ==
    ASSUME CrawlInv, SettleInv, NEW w \in Workers, worker[w].pc # "idle"
    PROVE  /\ worker[w].job \in JobIds
           /\ HoldsLease(w)
           /\ job[worker[w].job].status = "running"
           /\ job[worker[w].job].owner = w
           /\ job[worker[w].job].live
  BY WorkersJob DEF SettleInv, WorkerOK, HoldsLease, Owns

LEMMA Elsewhere ==
    ASSUME CrawlInv, SettleInv,
           NEW w \in Workers, worker[w].pc # "idle",
           NEW v \in Workers \ {w}, worker[v].pc # "idle"
    PROVE  /\ worker[v].job \in JobIds \ {worker[w].job}
           /\ job[worker[v].job].site # job[worker[w].job].site
  <1>1. worker[v].job # worker[w].job
    BY Engaged
  <1>2. Active(worker[v].job) /\ Active(worker[w].job)
    BY Engaged DEF Active, ACTIVE_CRAWL_STATUSES
  <1> QED BY <1>1, <1>2, Engaged DEF CrawlInv, OneActiveCrawl

LEMMA Bystander ==
    ASSUME NEW v \in Workers, worker'[v] = worker[v], WorkerOK(v), Calm => WorkerRows(v),
           worker[v].pc # "idle" => /\ JobHeld(worker[v].job)
                                    /\ stored'[worker[v].job] = stored[worker[v].job]
                                    /\ frontier'[worker[v].job] = frontier[worker[v].job]
    PROVE  WorkerOK(v)' /\ (Calm => WorkerRows(v)')
  <1>1. WorkerOK(v)'
    BY DEF WorkerOK, JobHeld, HoldsLease, Owns
  <1>2. Calm => WorkerRows(v)'
    BY DEF WorkerRows, Rows, CapReached
  <1> QED BY <1>1, <1>2

LEMMA JobUntouched ==
    ASSUME NEW k \in JobIds, JobOK(k), Calm => JobRows(k), JobHeld(k),
           stored'[k] = stored[k], frontier'[k] = frontier[k], job'[k].snapshot = job[k].snapshot,
           UNCHANGED reopens
    PROVE  JobOK(k)' /\ (Calm => JobRows(k)')
  <1>1. JobOK(k)'
    BY DEF JobOK, JobHeld, Active
  <1>2. Calm => JobRows(k)'
    BY DEF JobRows, Rows, JobHeld
  <1> QED BY <1>1, <1>2

LEMMA AllowanceUntouched ==
    ASSUME FreshCrawlsKeepAllowance, \A k \in JobIds : JobHeld(k), UNCHANGED <<usage, reopens>>
    PROVE  FreshCrawlsKeepAllowance'
  <1>1. \A k \in JobIds : SlotsOf(job', k) = SlotsOf(job, k)
    BY DEF SlotsOf, JobHeld
  <1>2. AllSlots(job') = AllSlots(job)
    BY <1>1 DEF AllSlots
  <1> QED BY <1>2, ReservedIsAllSlots DEF FreshCrawlsKeepAllowance

LEMMA CrawlStepSettles ==
    ASSUME CrawlInv, SettleInv, NEW w \in Workers, worker[w].pc # "idle",
           NEW j, j = worker[w].job,
           \A v \in Workers \ {w} : worker'[v] = worker[v],
           \A k \in JobIds : JobHeld(k),
           \A k \in JobIds \ {j} :
              /\ job'[k].snapshot = job[k].snapshot
              /\ frontier'[k] = frontier[k]
              /\ stored'[k] = stored[k] \/ (job[k].snapshot /\ job[k].site = job[j].site),
           UNCHANGED <<usage, reopens>>,
           reopens = 0 => Cardinality(stored'[j]) <= job[j].maxPages,
           WorkerOK(w)', Calm => WorkerRows(w)'
    PROVE  SettleInv'
  <1>1. ASSUME NEW v \in Workers
        PROVE  WorkerOK(v)' /\ (Calm => WorkerRows(v)')
    <2>1. CASE v = w
      BY <2>1
    <2>2. CASE v # w
      <3>1. worker[v].pc # "idle" => /\ worker[v].job \in JobIds \ {j}
                                     /\ stored'[worker[v].job] = stored[worker[v].job]
        BY <2>2, Elsewhere
      <3>2. WorkerOK(v) /\ (Calm => WorkerRows(v))
        BY DEF SettleInv
      <3> QED BY <2>2, <3>1, <3>2, Bystander
    <2> QED BY <2>1, <2>2
  <1>2. ASSUME NEW k \in JobIds
        PROVE  JobOK(k)' /\ (Calm => JobRows(k)')
    <2>0. JobOK(k) /\ (Calm => JobRows(k))
      BY DEF SettleInv
    <2>1. CASE k = j
      BY <2>1, Engaged DEF JobOK, JobRows, JobHeld
    <2>2. CASE k # j /\ stored'[k] = stored[k]
      BY <2>0, <2>2, JobUntouched
    <2>3. CASE k # j /\ job[k].snapshot /\ job[k].site = job[j].site
      <3>1. j \in JobIds /\ Active(j)
        BY Engaged DEF Active, ACTIVE_CRAWL_STATUSES
      <3>2. ~Active(k)
        BY <2>3, <3>1 DEF CrawlInv, OneActiveCrawl
      <3>3. job[k].status # "absent"
        BY <2>0, <2>3 DEF JobOK
      <3>4. JobOK(k)'
        BY <3>2, <3>3 DEF JobOK, JobHeld, Active
      <3>5. Calm => JobRows(k)'
        BY <2>0, <2>3 DEF JobRows, Rows, JobHeld
      <3> QED BY <3>4, <3>5
    <2> QED BY <2>2, <2>1, <2>3
  <1>3. FreshCrawlsKeepAllowance'
    BY AllowanceUntouched DEF SettleInv
  <1> QED BY <1>1, <1>2, <1>3 DEF SettleInv

\* The commonest case: the step leaves the pages stored alone.
LEMMA OwnStepSettles ==
    ASSUME CrawlInv, SettleInv, NEW w \in Workers, worker[w].pc # "idle",
           NEW j, j = worker[w].job,
           \A v \in Workers \ {w} : worker'[v] = worker[v],
           \A k \in JobIds : JobHeld(k),
           \A k \in JobIds \ {j} : job'[k].snapshot = job[k].snapshot /\ frontier'[k] = frontier[k],
           UNCHANGED <<stored, usage, reopens>>,
           WorkerOK(w)', Calm => WorkerRows(w)'
    PROVE  SettleInv'
  <1>1. j \in JobIds /\ Active(j) /\ JobOK(j)
    BY Engaged DEF SettleInv, Active, ACTIVE_CRAWL_STATUSES
  <1>2. reopens = 0 => Cardinality(stored'[j]) <= job[j].maxPages
    BY <1>1 DEF JobOK
  <1> QED BY <1>2, CrawlStepSettles
-----------------------------------------------------------------------------
(* The steps of a worker in a crawl.                                         *)

Others(w) == \A v \in Workers \ {w} : worker'[v] = worker[v]

LEMMA Moved ==
    ASSUME TypeOK, NEW w \in Workers, NEW pc, MoveTo(w, pc)
    PROVE  /\ Others(w)
           /\ worker'[w].pc = pc
           /\ worker'[w].job = worker[w].job
           /\ worker'[w].limit = worker[w].limit
           /\ worker'[w].batch = worker[w].batch
           /\ worker'[w].pages = worker[w].pages
  <1>1. worker[w] \in CrawlWorker
    BY DEF TypeOK
  <1>2. worker'[w] = [worker[w] EXCEPT !.pc = pc, !.granted = FALSE] /\ Others(w)
    BY DEF TypeOK, MoveTo, Others
  <1> QED BY <1>1, <1>2 DEF CrawlWorker

LEMMA Freed ==
    ASSUME TypeOK, NEW w \in Workers, Release(w)
    PROVE  Others(w) /\ worker'[w] = Idle /\ worker'[w].pc = "idle"
  BY DEF TypeOK, Release, Others, Idle

LEMMA RowsOfOne ==
    ASSUME TypeOK, NEW j \in JobIds, NEW us, NEW status, SetRows(j, us, status)
    PROVE  /\ \A k \in JobIds \ {j} : frontier'[k] = frontier[k]
           /\ \A u \in Urls : frontier'[j][u] = IF u \in us THEN status ELSE frontier[j][u]
  <1>1. /\ \A k \in JobIds \ {j} : frontier'[k] = frontier[k]
        /\ frontier'[j] = WithRows(j, us, status)
    BY DEF TypeOK, SetRows
  <1> QED BY <1>1 DEF WithRows

SnapshotsKept == \A k \in JobIds : JobHeld(k) /\ job'[k].snapshot = job[k].snapshot

LEMMA PagesCommitted ==
    ASSUME TypeOK, NEW j \in JobIds, NEW n, job' = [job EXCEPT ![j].snapPages = n]
    PROVE  SnapshotsKept
  <1>1. job[j] \in CrawlJob
    BY DEF TypeOK
  <1>2. job'[j] = [job[j] EXCEPT !.snapPages = n] /\ \A k \in JobIds \ {j} : job'[k] = job[k]
    BY DEF TypeOK
  <1>3. JobHeld(j) /\ job'[j].snapshot = job[j].snapshot
    BY <1>1, <1>2 DEF CrawlJob, JobHeld
  <1> QED BY <1>2, <1>3 DEF SnapshotsKept, JobHeld

LEMMA SameJobs == UNCHANGED job => SnapshotsKept
  BY DEF SnapshotsKept, JobHeld

\* A worker still in its job keeps its lease.
LEMMA LeaseKept ==
    ASSUME CrawlInv, SettleInv, NEW w \in Workers, worker[w].pc # "idle",
           worker'[w].job = worker[w].job, JobHeld(worker[w].job)
    PROVE  HoldsLease(w)'
  BY Engaged DEF HoldsLease, Owns, JobHeld

LEMMA BeginSettles ==
    ASSUME CrawlInv, SettleInv, NEW w \in Workers, BeginAttempt(w)
    PROVE  SettleInv'
  <1> DEFINE j == worker[w].job
             n == job[j].maxPages
  <1>0. TypeOK /\ worker[w].pc = "claimed"
    BY DEF CrawlInv, BeginAttempt
  <1>1. Owns(w)
    BY <1>0, Engaged DEF HoldsLease
  <1>2. /\ worker' = [worker EXCEPT ![w].pc = "opening", ![w].limit = n]
        /\ UNCHANGED <<job, frontier, stored, usage, reopens>>
    BY <1>1 DEF BeginAttempt
  <1>3. j \in JobIds /\ worker[w] \in CrawlWorker
    BY <1>0, Engaged DEF TypeOK
  <1>4. /\ Others(w)
        /\ worker'[w].pc = "opening" /\ worker'[w].job = j /\ worker'[w].limit = n
    <2> HIDE DEF n
    <2>1. worker'[w] = [worker[w] EXCEPT !.pc = "opening", !.limit = n] /\ Others(w)
      BY <1>0, <1>2 DEF TypeOK, Others
    <2> QED BY <1>3, <2>1 DEF CrawlWorker
  <1>5. SnapshotsKept
    BY <1>2, SameJobs
  <1>6. WorkerOK(w)'
    BY <1>0, <1>2, <1>3, <1>4, <1>5, LeaseKept DEF WorkerOK, SnapshotsKept
  <1>7. Calm => WorkerRows(w)'
    BY <1>0, <1>2, <1>4 DEF SettleInv, WorkerRows, Rows
  <1> QED BY <1>0, <1>2, <1>4, <1>5, <1>6, <1>7, OwnStepSettles DEF Others, SnapshotsKept

LEMMA ControlSettles ==
    ASSUME CrawlInv, SettleInv, NEW w \in Workers, Control(w)
    PROVE  SettleInv'
  <1> DEFINE j == worker[w].job
  <1>0. TypeOK /\ worker[w].pc # "idle" /\ worker[w].pc \in InHand
    BY DEF CrawlInv, Control, InHand, Steps
  <1>1. HoldsLease(w) /\ j \in JobIds /\ worker[w] \in CrawlWorker
    BY <1>0, Engaged DEF TypeOK
  <1>2. UNCHANGED <<frontier, stored, usage, reopens>>
    BY DEF Control
  <1>3. SnapshotsKept
    BY <1>0, <1>1, SameJobs, PagesCommitted DEF Control, CommitPages
  <1>4. WorkerOK(w) /\ (Calm => WorkerRows(w))
    BY DEF SettleInv
  <1>5. CASE MoveTo(w, "failing")
    <2>1. /\ Others(w) /\ worker'[w].pc = "failing" /\ worker'[w].job = j
          /\ worker'[w].limit = worker[w].limit
      BY <1>0, <1>5, Moved
    <2>2. WorkerOK(w)'
      BY <1>0, <1>1, <1>3, <1>4, <2>1, LeaseKept DEF WorkerOK, SnapshotsKept, JobHeld
    <2>3. WorkerRows(w)'
      BY <2>1 DEF WorkerRows
    <2> QED BY <1>0, <1>2, <1>3, <2>1, <2>2, <2>3, OwnStepSettles DEF Others, SnapshotsKept
  <1>6. CASE worker' = [worker EXCEPT ![w].granted = TRUE]
    <2>1. /\ Others(w) /\ worker'[w].pc = worker[w].pc /\ worker'[w].job = j
          /\ worker'[w].limit = worker[w].limit /\ worker'[w].batch = worker[w].batch
          /\ worker'[w].pages = worker[w].pages
      <3>1. worker'[w] = [worker[w] EXCEPT !.granted = TRUE] /\ Others(w)
        BY <1>0, <1>6 DEF TypeOK, Others
      <3> QED BY <1>1, <3>1 DEF CrawlWorker
    <2>2. WorkerOK(w)'
      BY <1>0, <1>1, <1>2, <1>3, <1>4, <2>1, LeaseKept DEF WorkerOK, SnapshotsKept, JobHeld
    <2>3. Calm => WorkerRows(w)'
      BY <1>2, <1>4, <2>1 DEF WorkerRows, Rows, CapReached
    <2> QED BY <1>0, <1>2, <1>3, <2>1, <2>2, <2>3, OwnStepSettles DEF Others, SnapshotsKept
  <1> QED BY <1>1, <1>5, <1>6 DEF Control

LEMMA OpenSettles ==
    ASSUME CrawlInv, SettleInv, NEW w \in Workers, OpenSnapshot(w)
    PROVE  SettleInv'
  <1> DEFINE j == worker[w].job
  <1>0. TypeOK /\ worker[w].pc = "opening"
    BY DEF CrawlInv, OpenSnapshot, At
  <1>1. j \in JobIds /\ job[j] \in CrawlJob
    BY <1>0, Engaged DEF TypeOK
  <1>2. UNCHANGED <<frontier, stored, usage, reopens>>
    BY DEF OpenSnapshot
  <1>3. job'[j] = [job[j] EXCEPT !.snapshot = TRUE] /\ \A k \in JobIds \ {j} : job'[k] = job[k]
    BY <1>0, <1>1 DEF TypeOK, OpenSnapshot
  <1>4. \A k \in JobIds : JobHeld(k)
    <2>1. JobHeld(j)
      BY <1>1, <1>3 DEF CrawlJob, JobHeld
    <2> QED BY <1>3, <2>1 DEF JobHeld
  <1>5. WorkerOK(w) /\ (Calm => WorkerRows(w))
    BY DEF SettleInv
  <1>6. /\ Others(w) /\ worker'[w].pc = "seeding" /\ worker'[w].job = j
        /\ worker'[w].limit = worker[w].limit
    BY <1>0, Moved DEF OpenSnapshot
  <1>7. WorkerOK(w)'
    BY <1>0, <1>1, <1>4, <1>5, <1>6, LeaseKept DEF WorkerOK, JobHeld, InHand, Steps
  <1>8. Calm => WorkerRows(w)'
    BY <1>0, <1>2, <1>5, <1>6 DEF WorkerRows, Rows
  <1> QED BY <1>0, <1>2, <1>3, <1>4, <1>6, <1>7, <1>8, OwnStepSettles DEF Others

LEMMA SeedSettles ==
    ASSUME CrawlInv, SettleInv, NEW w \in Workers, SeedFrontier(w) \/ SeedingFails(w)
    PROVE  SettleInv'
  <1> DEFINE j == worker[w].job
  <1>0. TypeOK /\ worker[w].pc = "seeding"
    BY DEF CrawlInv, SeedFrontier, SeedingFails, At
  <1>1. j \in JobIds
    BY <1>0, Engaged
  <1>2. UNCHANGED <<stored, usage, reopens>>
    BY DEF SeedFrontier, SeedingFails
  <1>3. SnapshotsKept
    BY <1>0, <1>1, SameJobs, PagesCommitted DEF SeedFrontier, SeedingFails, CommitPages
  <1>4. WorkerOK(w) /\ (Calm => WorkerRows(w))
    BY DEF SettleInv
  <1>5. CASE SeedFrontier(w)
    <2>1. /\ Others(w) /\ worker'[w].pc = "picking" /\ worker'[w].job = j
          /\ worker'[w].limit = worker[w].limit
      BY <1>0, <1>5, Moved DEF SeedFrontier
    <2>2. PICK us : SetRows(j, us, "queued")
      BY <1>5 DEF SeedFrontier
    <2>3. /\ \A k \in JobIds \ {j} : frontier'[k] = frontier[k]
          /\ \A u \in Urls : frontier'[j][u] = IF u \in us THEN "queued" ELSE frontier[j][u]
      BY <1>0, <1>1, <2>2, RowsOfOne
    <2>4. WorkerOK(w)'
      BY <1>0, <1>1, <1>3, <1>4, <2>1, LeaseKept DEF WorkerOK, SnapshotsKept, JobHeld, InHand, Steps
    <2>5. Calm => WorkerRows(w)'
      BY <1>0, <1>4, <2>1, <2>3 DEF WorkerRows, Rows
    <2> QED BY <1>0, <1>2, <1>3, <2>1, <2>3, <2>4, <2>5, OwnStepSettles DEF Others, SnapshotsKept
  <1>6. CASE SeedingFails(w)
    <2>1. /\ Others(w) /\ worker'[w].pc = "failing" /\ worker'[w].job = j
          /\ worker'[w].limit = worker[w].limit
      BY <1>0, <1>6, Moved DEF SeedingFails
    <2>2. WorkerOK(w)'
      BY <1>0, <1>1, <1>3, <1>4, <2>1, LeaseKept DEF WorkerOK, SnapshotsKept, JobHeld, InHand, Steps
    <2>3. WorkerRows(w)'
      BY <2>1 DEF WorkerRows
    <2>4. UNCHANGED frontier
      BY <1>6 DEF SeedingFails
    <2> QED BY <1>0, <1>2, <1>3, <2>1, <2>2, <2>3, <2>4, OwnStepSettles DEF Others, SnapshotsKept
  <1> QED BY <1>5, <1>6

LEMMA TakeSettles ==
    ASSUME CrawlInv, SettleInv, NEW w \in Workers, TakeBatch(w)
    PROVE  SettleInv'
  <1> DEFINE j == worker[w].job
  <1>0. TypeOK /\ worker[w].pc = "picking"
    BY DEF CrawlInv, TakeBatch, At
  <1>1. j \in JobIds /\ worker[w] \in CrawlWorker /\ worker[w].limit \in Nat
    BY <1>0, Engaged DEF TypeOK, CrawlWorker
  <1>2. UNCHANGED <<job, stored, usage, reopens>>
    BY DEF TakeBatch
  <1>3. PICK us \in SUBSET Rows(j, {"queued"}) :
           /\ Cardinality(us) <= BatchRoom(w)
           /\ SetRows(j, us, "fetching")
           /\ worker' = [worker EXCEPT ![w].pc = "settling", ![w].granted = FALSE, ![w].batch = us]
    BY DEF TakeBatch
  <1>4. /\ \A k \in JobIds \ {j} : frontier'[k] = frontier[k]
        /\ \A u \in Urls : frontier'[j][u] = IF u \in us THEN "fetching" ELSE frontier[j][u]
    BY <1>0, <1>1, <1>3, RowsOfOne
  <1>5. /\ Others(w) /\ worker'[w].pc = "settling" /\ worker'[w].job = j
        /\ worker'[w].limit = worker[w].limit /\ worker'[w].batch = us
    <2>1. worker'[w] = [worker[w] EXCEPT !.pc = "settling", !.granted = FALSE, !.batch = us] /\ Others(w)
      BY <1>0, <1>3 DEF TypeOK, Others
    <2> QED BY <1>1, <2>1 DEF CrawlWorker
  <1>6. WorkerOK(w) /\ (Calm => WorkerRows(w)) /\ SnapshotsKept
    BY <1>2, SameJobs DEF SettleInv
  <1>7. Cardinality(us) + Cardinality(stored[j]) <= worker[w].limit
    <2>1. us \in SUBSET Urls
      BY DEF Rows
    <2>2. Cardinality(us) \in Nat /\ Cardinality(stored[j]) \in Nat
      BY <1>0, <1>1, <2>1, PageSets, StoredPages
    <2> QED BY <1>1, <1>3, <2>2 DEF BatchRoom
  <1>8. WorkerOK(w)'
    BY <1>0, <1>1, <1>2, <1>5, <1>6, <1>7, LeaseKept DEF WorkerOK, SnapshotsKept, JobHeld, InHand, Steps
  <1>9. Calm => WorkerRows(w)'
    BY <1>0, <1>4, <1>5, <1>6 DEF WorkerRows, Rows
  <1> QED BY <1>0, <1>2, <1>4, <1>5, <1>6, <1>8, <1>9, OwnStepSettles DEF Others, SnapshotsKept

\* The steps that only move the worker on.
LEMMA MoveOnSettles ==
    ASSUME CrawlInv, SettleInv, NEW w \in Workers, NoMoreRows(w) \/ StepAborts(w)
    PROVE  SettleInv'
  <1> DEFINE j == worker[w].job
  <1>0. TypeOK /\ worker[w].pc \in InHand /\ worker[w].pc # "idle"
    BY DEF CrawlInv, NoMoreRows, StepAborts, At, InHand, Steps
  <1>1. j \in JobIds
    BY <1>0, Engaged
  <1>2. UNCHANGED <<job, frontier, stored, usage, reopens>>
    BY DEF NoMoreRows, StepAborts
  <1>3. WorkerOK(w) /\ (Calm => WorkerRows(w)) /\ SnapshotsKept
    BY <1>2, SameJobs DEF SettleInv
  <1>4. /\ Others(w) /\ worker'[w].pc \in {"ending", "failing"} /\ worker'[w].job = j
        /\ worker'[w].limit = worker[w].limit
        /\ worker'[w].pc = "ending" => /\ worker[w].pc = "picking"
                                       /\ CapReached(w) \/ Rows(j, {"queued"}) = {}
    BY <1>0, Moved DEF NoMoreRows, StepAborts, At
  <1>5. WorkerOK(w)'
    BY <1>0, <1>1, <1>2, <1>3, <1>4, LeaseKept DEF WorkerOK, SnapshotsKept, JobHeld
  <1>6. Calm => WorkerRows(w)'
    BY <1>2, <1>3, <1>4 DEF WorkerRows, Rows, CapReached
  <1> QED BY <1>0, <1>2, <1>3, <1>4, <1>5, <1>6, OwnStepSettles DEF Others, SnapshotsKept

LEMMA RobotsSettle ==
    ASSUME CrawlInv, SettleInv, NEW w \in Workers, RobotsBlockBatch(w)
    PROVE  SettleInv'
  <1> DEFINE j == worker[w].job
  <1>0. TypeOK /\ worker[w].pc = "settling"
    BY DEF CrawlInv, RobotsBlockBatch
  <1>1. j \in JobIds /\ worker[w] \in CrawlWorker
    BY <1>0, Engaged DEF TypeOK
  <1>2. UNCHANGED <<job, stored, usage, reopens>> /\ SetRows(j, worker[w].batch, "failed")
    BY DEF RobotsBlockBatch
  <1>3. WorkerOK(w) /\ (Calm => WorkerRows(w)) /\ SnapshotsKept
    BY <1>2, SameJobs DEF SettleInv
  <1>4. /\ Others(w) /\ worker'[w].pc = "picking" /\ worker'[w].job = j
        /\ worker'[w].limit = worker[w].limit
    <2>1. worker'[w] = [worker[w] EXCEPT !.pc = "picking", !.batch = {}] /\ Others(w)
      BY <1>0 DEF TypeOK, Others, RobotsBlockBatch
    <2> QED BY <1>1, <2>1 DEF CrawlWorker
  <1>5. /\ \A k \in JobIds \ {j} : frontier'[k] = frontier[k]
        /\ \A u \in Urls : frontier'[j][u] = IF u \in worker[w].batch THEN "failed" ELSE frontier[j][u]
    BY <1>0, <1>1, <1>2, RowsOfOne
  <1>6. WorkerOK(w)'
    BY <1>0, <1>1, <1>2, <1>3, <1>4, LeaseKept DEF WorkerOK, SnapshotsKept, JobHeld, InHand, Steps
  <1>7. Calm => WorkerRows(w)'
    BY <1>0, <1>3, <1>4, <1>5 DEF WorkerRows, Rows
  <1> QED BY <1>0, <1>2, <1>3, <1>4, <1>5, <1>6, <1>7, OwnStepSettles DEF Others, SnapshotsKept

LEMMA EndSettles ==
    ASSUME CrawlInv, SettleInv, NEW w \in Workers, EndCrawl(w)
    PROVE  SettleInv'
  <1> DEFINE j == worker[w].job
             pages == Cardinality(stored[j])
             us == IF CapReached(w) THEN Rows(j, {"queued"}) ELSE {}
  <1>0. TypeOK /\ worker[w].pc = "ending"
    BY DEF CrawlInv, EndCrawl, At
  <1>1. j \in JobIds /\ worker[w] \in CrawlWorker
    BY <1>0, Engaged DEF TypeOK
  <1>2. UNCHANGED <<stored, usage, reopens>> /\ SetRows(j, us, "deferred")
    BY DEF EndCrawl
  <1>3. WorkerOK(w) /\ (Calm => WorkerRows(w)) /\ SnapshotsKept
    BY <1>0, <1>1, PagesCommitted DEF SettleInv, EndCrawl, CommitPages
  <1>4. PICK pc \in {"closing", "failing"} :
           worker' = [worker EXCEPT ![w].pc = pc, ![w].granted = FALSE, ![w].pages = pages]
    BY DEF EndCrawl
  <1>5. /\ Others(w) /\ worker'[w].pc = pc /\ worker'[w].job = j
        /\ worker'[w].limit = worker[w].limit /\ worker'[w].pages = pages
    <2> HIDE DEF pages
    <2>1. worker'[w] = [worker[w] EXCEPT !.pc = pc, !.granted = FALSE, !.pages = pages] /\ Others(w)
      BY <1>0, <1>4 DEF TypeOK, Others
    <2> QED BY <1>1, <2>1 DEF CrawlWorker
  <1> HIDE DEF us
  <1>6. /\ \A k \in JobIds \ {j} : frontier'[k] = frontier[k]
        /\ \A u \in Urls : frontier'[j][u] = IF u \in us THEN "deferred" ELSE frontier[j][u]
    BY <1>0, <1>1, <1>2, RowsOfOne
  <1>7. WorkerOK(w)'
    BY <1>0, <1>1, <1>2, <1>3, <1>5, LeaseKept DEF WorkerOK, SnapshotsKept, JobHeld, InHand, Steps
  <1>8. Calm => WorkerRows(w)'
    <2> SUFFICES ASSUME Calm
                 PROVE  WorkerRows(w)'
      OBVIOUS
    <2>1. Rows(j, {"fetching"}) = {} /\ (CapReached(w) \/ Rows(j, {"queued"}) = {})
      BY <1>0, <1>3 DEF WorkerRows
    <2>2. Rows(j, {"queued"}) \subseteq us
      BY <2>1 DEF us
    <2>3. \A u \in Urls : frontier'[j][u] \notin {"fetching", "queued"}
      BY <1>6, <2>1, <2>2 DEF Rows
    <2> QED BY <1>5, <2>3 DEF WorkerRows, Rows
  <1> QED BY <1>0, <1>2, <1>3, <1>5, <1>6, <1>7, <1>8, OwnStepSettles DEF Others, SnapshotsKept

LEMMA BatchSettles ==
    ASSUME CrawlInv, SettleInv, TypeOK', NEW w \in Workers, SettleBatch(w)
    PROVE  SettleInv'
  <1> DEFINE j == worker[w].job
             batch == worker[w].batch
  <1>0. TypeOK /\ worker[w].pc = "settling"
    BY DEF CrawlInv, SettleBatch, At
  <1>1. /\ j \in JobIds /\ worker[w] \in CrawlWorker /\ batch \in SUBSET Urls
        /\ worker[w].limit \in Nat
    BY <1>0, Engaged DEF TypeOK, CrawlWorker
  <1>2. UNCHANGED <<usage, reopens>>
    BY DEF SettleBatch
  <1>3. WorkerOK(w) /\ (Calm => WorkerRows(w)) /\ SnapshotsKept
    BY <1>0, <1>1, PagesCommitted DEF SettleInv, SettleBatch
  <1>4. PICK us \in SUBSET batch, done \in SUBSET batch, again \in SUBSET batch :
           /\ SettleRows(w, us, done, again)
           /\ worker' = [worker EXCEPT ![w].pc = IF us = batch THEN "picking" ELSE "failing",
                                       ![w].granted = FALSE, ![w].batch = {}]
    BY DEF SettleBatch
  <1>5. /\ Others(w) /\ worker'[w].job = j /\ worker'[w].limit = worker[w].limit
        /\ worker'[w].pc \in {"picking", "failing"}
        /\ worker'[w].pc = "picking" => us = batch
    <2>1. PICK pc \in {"picking", "failing"} :
             /\ worker' = [worker EXCEPT ![w].pc = pc, ![w].granted = FALSE, ![w].batch = {}]
             /\ pc = "picking" => us = batch
      BY <1>4
    <2>2. worker'[w] = [worker[w] EXCEPT !.pc = pc, !.granted = FALSE, !.batch = {}] /\ Others(w)
      BY <1>0, <2>1 DEF TypeOK, Others
    <2>3. worker'[w].pc = pc /\ worker'[w].job = j /\ worker'[w].limit = worker[w].limit
      BY <1>1, <2>2 DEF CrawlWorker
    <2> QED BY <2>1, <2>2, <2>3
  <1>6. PICK links \in SUBSET Rows(j, {"absent"}) :
           /\ frontier' = [frontier EXCEPT ![j] =
                [u \in Urls |-> IF u \in done THEN "completed"
                                ELSE IF u \in again \cup links THEN "queued"
                                ELSE IF u \in us THEN "failed" ELSE frontier[j][u]]]
           /\ StorePages(j, done)
    BY <1>4 DEF SettleRows
  <1>7. /\ \A k \in JobIds \ {j} : frontier'[k] = frontier[k]
        /\ \A u \in Urls : frontier'[j][u] = IF u \in done THEN "completed"
                                             ELSE IF u \in again \cup links THEN "queued"
                                             ELSE IF u \in us THEN "failed" ELSE frontier[j][u]
    BY <1>0, <1>1, <1>6 DEF TypeOK
  <1>8. \A k \in JobIds \ {j} : stored'[k] = stored[k] \/ (job[k].snapshot /\ job[k].site = job[j].site)
    BY <1>6 DEF StorePages
  <1>9. Cardinality(stored'[j]) <= worker[w].limit
    <2>1. stored'[j] \subseteq stored[j] \cup batch
      BY <1>1, <1>6 DEF StorePages
    <2>2. stored[j] \in SUBSET Urls
      BY <1>0, <1>1 DEF TypeOK
    <2>3. /\ IsFiniteSet(stored[j]) /\ Cardinality(stored[j]) \in Nat
          /\ IsFiniteSet(batch) /\ Cardinality(batch) \in Nat
          /\ IsFiniteSet(stored[j] \cap batch) /\ Cardinality(stored[j] \cap batch) \in Nat
      BY <1>1, <2>2, PageSets
    <2>4. /\ IsFiniteSet(stored[j] \cup batch)
          /\ Cardinality(stored[j] \cup batch)
               = Cardinality(stored[j]) + Cardinality(batch) - Cardinality(stored[j] \cap batch)
      BY <2>3, FS_Union
    <2>5. Cardinality(stored'[j]) <= Cardinality(stored[j] \cup batch)
      BY <2>1, <2>4, FS_Subset
    <2>6. Cardinality(stored'[j]) \in Nat
      BY <2>1, <1>1, <2>2, PageSets
    <2>7. Cardinality(batch) + Cardinality(stored[j]) <= worker[w].limit
      BY <1>0, <1>3 DEF WorkerOK
    <2> QED BY <1>1, <2>3, <2>4, <2>5, <2>6, <2>7
  <1>10. worker[w].limit = job[j].maxPages
    BY <1>0, <1>3 DEF WorkerOK, InHand, Steps
  <1>11. WorkerOK(w)'
    BY <1>0, <1>1, <1>3, <1>5, <1>10, LeaseKept DEF WorkerOK, SnapshotsKept, JobHeld
  <1>12. Calm => WorkerRows(w)'
    BY <1>0, <1>3, <1>5, <1>7 DEF WorkerRows, Rows
  <1> QED BY <1>0, <1>2, <1>3, <1>5, <1>7, <1>8, <1>9, <1>10, <1>11, <1>12, CrawlStepSettles
       DEF Others, SnapshotsKept
-----------------------------------------------------------------------------
(* The steps that begin or end a lease, or touch a job in nobody's hands.    *)

\* Where no worker is left in the job that changes, only that job is to be looked at.
LEMMA FreeJobSettles ==
    ASSUME CrawlInv, SettleInv, NEW j \in JobIds,
           \A k \in JobIds \ {j} : job'[k] = job[k] /\ frontier'[k] = frontier[k],
           \A v \in Workers : worker'[v].pc # "idle" => worker'[v] = worker[v] /\ worker[v].job # j,
           UNCHANGED stored, reopens' # 0 \/ UNCHANGED reopens,
           JobOK(j)', Calm => JobRows(j)', FreshCrawlsKeepAllowance'
    PROVE  SettleInv'
  <1>1. ASSUME NEW v \in Workers
        PROVE  WorkerOK(v)' /\ (Calm => WorkerRows(v)')
    <2>1. CASE worker'[v].pc = "idle"
      BY <2>1 DEF WorkerOK, WorkerRows
    <2>2. CASE worker'[v].pc # "idle"
      <3>1. worker'[v] = worker[v] /\ worker[v].pc # "idle" /\ worker[v].job \in JobIds \ {j}
        BY <2>2, Engaged
      <3>2. WorkerOK(v) /\ (Calm => WorkerRows(v))
        BY DEF SettleInv
      <3> QED BY <3>1, <3>2, Bystander DEF JobHeld
    <2> QED BY <2>1, <2>2
  <1>2. ASSUME NEW k \in JobIds \ {j}
        PROVE  JobOK(k)' /\ (Calm => JobRows(k)')
    <2>1. JobOK(k) /\ (Calm => JobRows(k))
      BY DEF SettleInv
    <2>2. JobOK(k)'
      BY <2>1 DEF JobOK, Active
    <2>3. Calm => JobRows(k)'
      BY <2>1 DEF JobRows, Rows
    <2> QED BY <2>2, <2>3
  <1> QED BY <1>1, <1>2 DEF SettleInv

\* Reservations and charges where job j alone changes: what it holds less, its
\* crawl may be charged for.
LEMMA AllowanceMoves ==
    ASSUME CrawlInv, TypeOK', SettleInv, NEW j \in JobIds,
           \A k \in JobIds \ {j} : job'[k] = job[k],
           reopens' = 0 => /\ reopens = 0
                           /\ Reserved + usage <= Limit =>
                                usage' + Held(job'[j]) <= usage + Held(job[j])
                                \/ (usage' = usage /\ Held(job[j]) = 0 /\ Held(job'[j]) <= Room)
    PROVE  FreshCrawlsKeepAllowance'
  <1> SUFFICES ASSUME reopens' = 0
               PROVE  usage' + Reserved' <= Limit
    BY DEF FreshCrawlsKeepAllowance
  <1>1. job \in [JobIds -> CrawlJob] /\ job' \in [JobIds -> CrawlJob]
    BY DEF CrawlInv, TypeOK
  <1>2. \A k \in JobIds \ {j} : SlotsOf(job', k) = SlotsOf(job, k)
    BY DEF SlotsOf
  <1>3. /\ Reserved \in Nat /\ Reserved' \in Nat
        /\ Held(job[j]) \in Nat /\ Held(job'[j]) \in Nat
        /\ Reserved' + Held(job[j]) = Reserved + Held(job'[j])
    BY <1>1, <1>2, ReservationsChange, ReservedIsAllSlots
  <1>4. usage \in Nat /\ usage' \in Nat /\ Limit \in Nat
    BY CrawlConstants DEF CrawlInv, TypeOK
  <1>5. usage + Reserved <= Limit
    BY DEF SettleInv, FreshCrawlsKeepAllowance
  <1>6. Room = Limit - usage - Reserved
    BY <1>5 DEF Room
  <1>7. \/ usage' + Held(job'[j]) <= usage + Held(job[j])
        \/ usage' = usage /\ Held(job[j]) = 0 /\ Held(job'[j]) <= Room
    <2>1. Reserved + usage <= Limit
      BY <1>3, <1>4, <1>5
    <2> QED BY <2>1
  <1> DEFINE r == Reserved
             s == Reserved'
             u == usage
             v == usage'
             h == Held(job[j])
             k == Held(job'[j])
  <1>8. /\ r \in Nat /\ s \in Nat /\ u \in Nat /\ v \in Nat /\ h \in Nat /\ k \in Nat /\ Limit \in Nat
        /\ s + h = r + k /\ u + r <= Limit
        /\ v + k <= u + h \/ (v = u /\ h = 0 /\ k <= Limit - u - r)
    BY <1>3, <1>4, <1>5, <1>6, <1>7
  <1> HIDE DEF r, s, u, v, h, k
  <1>9. v + s <= Limit
    BY <1>8
  <1> QED BY <1>9 DEF s, v

\* Nobody is in a job that is not running, or whose lease has expired.
LEMMA NobodyIn ==
    ASSUME CrawlInv, SettleInv, NEW j \in JobIds, job[j].status # "running" \/ ~job[j].live
    PROVE  \A v \in Workers : worker[v].pc # "idle" => worker[v].job # j
  BY Engaged

LEMMA EnqueueSettles ==
    ASSUME CrawlInv, SettleInv, TypeOK', NEW s \in Sites, NEW pages \in PageCounts,
           enqueue_crawl_job(s, pages)
    PROVE  SettleInv'
  <1>0. TypeOK
    BY DEF CrawlInv
  <1> DEFINE n == AtMost(AtLeast(1, pages), Room)
  <1>1. PICK j \in JobIds :
           /\ job[j].status = "absent"
           /\ Room >= 1
           /\ job' = [job EXCEPT ![j].site = s, ![j].status = "queued", ![j].maxPages = n]
    BY DEF enqueue_crawl_job
  <1>2. UNCHANGED <<log, frontier, stored, usage, worker, reopens, faults>>
    BY DEF enqueue_crawl_job
  <1>3. n \in Nat /\ n <= Room
    BY <1>0, RoomIsANumber, CrawlConstants DEF AtMost, AtLeast
  <1> HIDE DEF n
  <1>4. job[j] \in CrawlJob
    BY <1>0 DEF TypeOK
  <1>5. /\ job'[j] = [job[j] EXCEPT !.site = s, !.status = "queued", !.maxPages = n]
        /\ \A k \in JobIds \ {j} : job'[k] = job[k]
    BY <1>0, <1>1 DEF TypeOK
  <1>6. job'[j].status = "queued" /\ job'[j].maxPages = n
    BY <1>4, <1>5 DEF CrawlJob
  <1>7. JobOK(j) /\ (Calm => JobRows(j))
    BY DEF SettleInv
  <1>8. JobOK(j)'
    BY <1>1, <1>2, <1>3, <1>6, <1>7, FS_EmptySet DEF JobOK
  <1>9. Calm => JobRows(j)'
    BY <1>1, <1>2, <1>6, <1>7 DEF JobRows, Rows
  <1>10. FreshCrawlsKeepAllowance'
    <2>1. Held(job[j]) = 0 /\ Held(job'[j]) = n
      BY <1>1, <1>6 DEF Held, ACTIVE_CRAWL_STATUSES
    <2> QED BY <1>2, <1>3, <1>5, <2>1, AllowanceMoves
  <1> QED BY <1>1, <1>2, <1>5, <1>8, <1>9, <1>10, NobodyIn, FreeJobSettles

LEMMA CancelSettles ==
    ASSUME CrawlInv, SettleInv, TypeOK', NEW j \in JobIds, request_crawl_cancellation(j)
    PROVE  SettleInv'
  <1>0. TypeOK
    BY DEF CrawlInv
  <1>1. UNCHANGED <<log, frontier, stored, usage, worker, reopens, faults>> /\ Active(j)
    BY DEF request_crawl_cancellation
  <1>2. job[j] \in CrawlJob
    BY <1>0 DEF TypeOK
  <1> DEFINE running == job[j].status = "running"
  <1>3. /\ job'[j] = [job[j] EXCEPT !.cancelReq = TRUE,
                                    !.status = IF running THEN "running" ELSE "cancelled",
                                    !.owner = IF running THEN job[j].owner ELSE None]
        /\ \A k \in JobIds \ {j} : job'[k] = job[k]
    BY <1>0, <1>2 DEF TypeOK, request_crawl_cancellation, CrawlJob
  <1>4. /\ job'[j].status = IF running THEN "running" ELSE "cancelled"
        /\ job'[j].owner = IF running THEN job[j].owner ELSE None
        /\ job'[j].maxPages = job[j].maxPages /\ job'[j].site = job[j].site
        /\ job'[j].live = job[j].live /\ job'[j].snapshot = job[j].snapshot
    BY <1>2, <1>3 DEF CrawlJob
  <1>5. CASE running
    <2>1. \A k \in JobIds : JobHeld(k) /\ job'[k].snapshot = job[k].snapshot
      BY <1>3, <1>4, <1>5 DEF JobHeld
    <2>2. \A v \in Workers : WorkerOK(v)' /\ (Calm => WorkerRows(v)')
      <3> SUFFICES ASSUME NEW v \in Workers
                   PROVE  WorkerOK(v)' /\ (Calm => WorkerRows(v)')
        OBVIOUS
      <3>1. WorkerOK(v) /\ (Calm => WorkerRows(v))
        BY DEF SettleInv
      <3> QED BY <1>1, <2>1, <3>1, Engaged, Bystander
    <2>3. \A k \in JobIds : JobOK(k)' /\ (Calm => JobRows(k)')
      BY <1>1, <2>1, JobUntouched DEF SettleInv
    <2>4. FreshCrawlsKeepAllowance'
      BY <1>1, <2>1, AllowanceUntouched DEF SettleInv
    <2> QED BY <2>2, <2>3, <2>4 DEF SettleInv
  <1>6. CASE ~running
    <2>1. JobOK(j) /\ (Calm => JobRows(j))
      BY DEF SettleInv
    <2>2. JobOK(j)' /\ (Calm => JobRows(j)')
      BY <1>1, <1>4, <1>6, <2>1 DEF JobOK, JobRows, Rows, Active, ACTIVE_CRAWL_STATUSES
    <2>3. Held(job'[j]) = 0 /\ Held(job[j]) \in Nat
      BY <1>2, <1>4, <1>6 DEF Held, ACTIVE_CRAWL_STATUSES, CrawlJob
    <2>4. usage \in Nat
      BY <1>0 DEF TypeOK
    <2>5. usage' + Held(job'[j]) <= usage + Held(job[j])
      BY <1>1, <2>3, <2>4
    <2>6. FreshCrawlsKeepAllowance'
      BY <1>1, <1>3, <2>5, AllowanceMoves
    <2> QED BY <1>1, <1>3, <1>6, <2>2, <2>6, NobodyIn, FreeJobSettles
  <1> QED BY <1>5, <1>6

LEMMA ReopenSettles ==
    ASSUME CrawlInv, SettleInv, TypeOK', NEW j \in JobIds,
           resume_crawl_job(j) \/ retry_failed_crawl_pages(j)
    PROVE  SettleInv'
  <1>0. TypeOK /\ reopens \in Nat
    <2>1. TypeOK
      BY DEF CrawlInv
    <2>2. reopens \in 0..MaxReopens
      BY <2>1 DEF TypeOK
    <2> QED BY <2>1, <2>2, CrawlConstants
  <1>1. /\ UNCHANGED <<log, stored, usage, worker, faults>>
        /\ reopens' = reopens + 1
        /\ job[j].status \in TERMINAL_CRAWL_STATUSES
    BY DEF resume_crawl_job, retry_failed_crawl_pages, Reopen, Terminal, TERMINAL_CRAWL_STATUSES
  <1>2. PICK n, cap :
           job' = [job EXCEPT ![j].status = "queued", ![j].cancelReq = FALSE, ![j].due = TRUE,
                              ![j].owner = None, ![j].live = FALSE, ![j].maxPages = n,
                              ![j].cap = AtLeast(@, cap)]
    BY DEF resume_crawl_job, retry_failed_crawl_pages, Reopen
  <1>3. job[j] \in CrawlJob /\ job[j].status # "running"
    BY <1>0, <1>1 DEF TypeOK, TERMINAL_CRAWL_STATUSES
  <1>4. job'[j].status = "queued" /\ \A k \in JobIds \ {j} : job'[k] = job[k]
    BY <1>0, <1>2, <1>3 DEF TypeOK, CrawlJob
  <1>5. PICK statuses, us :
           /\ us = Rows(j, statuses)
           /\ SetRows(j, us, "queued")
           /\ statuses = {"fetching", "failed"} \/ statuses = {"failed"}
    BY DEF resume_crawl_job, retry_failed_crawl_pages
  <1>6. /\ \A k \in JobIds \ {j} : frontier'[k] = frontier[k]
        /\ \A u \in Urls : frontier'[j][u] = IF u \in us THEN "queued" ELSE frontier[j][u]
    BY <1>0, <1>5, RowsOfOne
  <1>7. JobOK(j)'
    BY <1>0, <1>1, <1>4 DEF JobOK
  <1>8. Calm => JobRows(j)'
    <2>1. Calm => Rows(j, {"fetching"}) = {}
      BY <1>3 DEF SettleInv, JobRows
    <2> QED BY <1>4, <1>6, <2>1 DEF JobRows, Rows
  <1>9. FreshCrawlsKeepAllowance'
    BY <1>0, <1>1 DEF FreshCrawlsKeepAllowance
  <1> QED BY <1>0, <1>1, <1>3, <1>4, <1>6, <1>7, <1>8, <1>9, NobodyIn, FreeJobSettles

LEMMA ClaimSettles ==
    ASSUME CrawlInv, SettleInv, TypeOK', NEW w \in Workers, NEW j \in JobIds, claim_next_crawl_job(w, j)
    PROVE  SettleInv'
  <1>0. TypeOK
    BY DEF CrawlInv
  <1>1. /\ UNCHANGED <<log, frontier, stored, usage, reopens, faults>>
        /\ job[j].status \in {"queued", "retry_wait"}
        /\ worker[w].pc = "idle"
    BY DEF claim_next_crawl_job
  <1>2. job[j] \in CrawlJob
    BY <1>0 DEF TypeOK
  <1>3. /\ job'[j] = [job[j] EXCEPT !.status = "running", !.owner = w, !.live = TRUE]
        /\ \A k \in JobIds \ {j} : job'[k] = job[k]
    BY <1>0 DEF TypeOK, claim_next_crawl_job
  <1>4. /\ job'[j].status = "running" /\ job'[j].owner = w /\ job'[j].live
        /\ job'[j].maxPages = job[j].maxPages /\ job'[j].snapshot = job[j].snapshot
    BY <1>2, <1>3 DEF CrawlJob
  <1>5. Others(w) /\ worker'[w].pc = "claimed" /\ worker'[w].job = j
    <2>1. worker'[w] = [Idle EXCEPT !.pc = "claimed", !.job = j] /\ Others(w)
      BY <1>0 DEF TypeOK, claim_next_crawl_job, Others
    <2> QED BY <2>1, IdleIsAWorker DEF CrawlWorker
  <1>6. JobOK(j) /\ (Calm => JobRows(j))
    BY DEF SettleInv
  <1>7. ASSUME NEW v \in Workers
        PROVE  WorkerOK(v)' /\ (Calm => WorkerRows(v)')
    <2>1. CASE v = w
      <3>1. WorkerOK(w)'
        BY <1>4, <1>5 DEF WorkerOK, HoldsLease, Owns, InHand, Steps
      <3>2. Calm => WorkerRows(w)'
        BY <1>1, <1>5, <1>6 DEF WorkerRows, JobRows, Rows
      <3> QED BY <2>1, <3>1, <3>2
    <2>2. CASE v # w
      <3>1. worker'[v] = worker[v] /\ WorkerOK(v) /\ (Calm => WorkerRows(v))
        BY <1>5, <2>2 DEF Others, SettleInv
      <3>2. worker[v].pc # "idle" => worker[v].job \in JobIds \ {j}
        BY <1>1, Engaged
      <3> QED BY <1>1, <1>3, <3>1, <3>2, Bystander DEF JobHeld
    <2> QED BY <2>1, <2>2
  <1>8. ASSUME NEW k \in JobIds
        PROVE  JobOK(k)' /\ (Calm => JobRows(k)')
    <2>1. CASE k = j
      BY <1>1, <1>4, <1>6, <2>1 DEF JobOK, JobRows, Active, ACTIVE_CRAWL_STATUSES
    <2>2. CASE k # j
      BY <1>1, <1>3, <2>2, JobUntouched DEF SettleInv, JobHeld
    <2> QED BY <2>1, <2>2
  <1>9. FreshCrawlsKeepAllowance'
    <2>1. Held(job'[j]) = Held(job[j]) /\ Held(job[j]) \in Nat
      BY <1>1, <1>2, <1>4 DEF Held, ACTIVE_CRAWL_STATUSES, CrawlJob
    <2>2. usage \in Nat
      BY <1>0 DEF TypeOK
    <2>3. usage' + Held(job'[j]) <= usage + Held(job[j])
      BY <1>1, <2>1, <2>2
    <2> QED BY <1>1, <1>3, <2>3, AllowanceMoves
  <1> QED BY <1>7, <1>8, <1>9 DEF SettleInv

\* A lease ends: the job was running and is handed back, with no row fetching
\* and, where it is completed, none waiting.
LEMMA LeaseEndSettles ==
    ASSUME CrawlInv, SettleInv, TypeOK', NEW j \in JobIds,
           job[j].status = "running",
           job'[j].status \in TERMINAL_CRAWL_STATUSES \cup {"retry_wait"},
           job'[j].maxPages = job[j].maxPages,
           \A k \in JobIds \ {j} : job'[k] = job[k] /\ frontier'[k] = frontier[k],
           \A v \in Workers : worker'[v].pc # "idle" => worker'[v] = worker[v] /\ worker[v].job # j,
           UNCHANGED <<stored, reopens>>,
           Calm => /\ \A u \in Urls : frontier'[j][u] # "fetching"
                   /\ job'[j].status = "completed" => \A u \in Urls : frontier'[j][u] # "queued",
           reopens = 0 => usage' + Held(job'[j]) <= usage + Held(job[j])
    PROVE  SettleInv'
  <1>1. JobOK(j)'
    BY DEF SettleInv, JobOK, Active, ACTIVE_CRAWL_STATUSES, TERMINAL_CRAWL_STATUSES
  <1>2. Calm => JobRows(j)'
    BY DEF JobRows, Rows
  <1>3. FreshCrawlsKeepAllowance'
    BY AllowanceMoves
  <1> QED BY <1>1, <1>2, <1>3, FreeJobSettles

LEMMA HeldEnds ==
    ASSUME TypeOK, NEW j \in JobIds, job[j].status = "running",
           job'[j].status \in TERMINAL_CRAWL_STATUSES \cup {"retry_wait"},
           job'[j].maxPages = job[j].maxPages
    PROVE  /\ Held(job[j]) = job[j].maxPages
           /\ Held(job'[j]) \in {0, job[j].maxPages}
           /\ job'[j].status \in TERMINAL_CRAWL_STATUSES => Held(job'[j]) = 0
           /\ job[j].maxPages \in Nat /\ usage \in Nat
  <1>1. job[j].maxPages \in Nat /\ usage \in Nat
    BY DEF TypeOK, CrawlJob
  <1> QED BY <1>1 DEF Held, ACTIVE_CRAWL_STATUSES, TERMINAL_CRAWL_STATUSES

LEMMA RecoverySettles ==
    ASSUME CrawlInv, SettleInv, TypeOK', NEW j \in JobIds, recover_expired_crawl_leases(j)
    PROVE  SettleInv'
  <1>0. TypeOK
    BY DEF CrawlInv
  <1>1. /\ UNCHANGED <<stored, usage, worker, reopens, faults>>
        /\ job[j].status = "running" /\ ~job[j].live
        /\ SetRows(j, Rows(j, {"fetching"}), "queued")
    BY DEF recover_expired_crawl_leases
  <1>2. job[j] \in CrawlJob
    BY <1>0 DEF TypeOK
  <1>3. /\ job'[j] = [job[j] EXCEPT !.status = Recovered(j), !.owner = None, !.due = TRUE]
        /\ \A k \in JobIds \ {j} : job'[k] = job[k]
    BY <1>0 DEF TypeOK, recover_expired_crawl_leases
  <1>4. job'[j].status \in {"cancelled", "failed", "retry_wait"} /\ job'[j].maxPages = job[j].maxPages
    BY <1>2, <1>3 DEF CrawlJob, Recovered
  <1>5. /\ \A k \in JobIds \ {j} : frontier'[k] = frontier[k]
        /\ \A u \in Urls : frontier'[j][u] # "fetching"
    BY <1>0, <1>1, RowsOfOne DEF Rows
  <1>6. usage' + Held(job'[j]) <= usage + Held(job[j])
    BY <1>0, <1>1, <1>4, HeldEnds DEF TERMINAL_CRAWL_STATUSES
  <1>7. \A v \in Workers : worker'[v].pc # "idle" => worker'[v] = worker[v] /\ worker[v].job # j
    BY <1>1, NobodyIn
  <1>8. job'[j].status \in TERMINAL_CRAWL_STATUSES \cup {"retry_wait"} /\ job'[j].status # "completed"
    BY <1>4 DEF TERMINAL_CRAWL_STATUSES
  <1> QED BY <1>1, <1>3, <1>4, <1>5, <1>6, <1>7, <1>8, LeaseEndSettles

\* When a worker gives its job back nobody is left in it.
LEMMA LeavesAlone ==
    ASSUME CrawlInv, SettleInv, NEW w \in Workers, worker[w].pc # "idle", Release(w)
    PROVE  \A v \in Workers : worker'[v].pc # "idle" =>
              worker'[v] = worker[v] /\ worker[v].job # worker[w].job
  <1>1. Others(w) /\ worker'[w].pc = "idle"
    BY Freed DEF CrawlInv
  <1> QED BY <1>1, Elsewhere DEF Others

\* What a lease's end writes of the row, whatever else it writes of it.
EndsJob(j, status) ==
    \/ job' = EndLease(j, status)
    \/ \E pages \in Nat : job' = [EndLease(j, status) EXCEPT ![j].resultPages = pages]
    \/ \E due \in BOOLEAN : job' = [EndLease(j, status) EXCEPT ![j].due = due]

LEMMA EndedJob ==
    ASSUME TypeOK, NEW j \in JobIds, NEW status, EndsJob(j, status)
    PROVE  /\ job'[j].status = status /\ job'[j].maxPages = job[j].maxPages
           /\ \A k \in JobIds \ {j} : job'[k] = job[k]
  <1>1. job[j] \in CrawlJob
    BY DEF TypeOK
  <1> DEFINE row == [job[j] EXCEPT !.status = status, !.owner = None, !.live = FALSE]
  <1>2. row.status = status /\ row.maxPages = job[j].maxPages
    BY <1>1 DEF CrawlJob
  <1>3. \/ job'[j] = row
        \/ \E pages \in Nat : job'[j] = [row EXCEPT !.resultPages = pages]
        \/ \E due \in BOOLEAN : job'[j] = [row EXCEPT !.due = due]
    BY DEF TypeOK, EndLease, EndsJob
  <1>4. \A k \in JobIds \ {j} : job'[k] = job[k]
    BY DEF TypeOK, EndLease, EndsJob
  <1>5. /\ \A pages \in Nat : /\ [row EXCEPT !.resultPages = pages].status = status
                            /\ [row EXCEPT !.resultPages = pages].maxPages = job[j].maxPages
        /\ \A due \in BOOLEAN : /\ [row EXCEPT !.due = due].status = status
                               /\ [row EXCEPT !.due = due].maxPages = job[j].maxPages
    BY <1>1, <1>2 DEF CrawlJob
  <1> HIDE DEF row
  <1> QED BY <1>2, <1>3, <1>4, <1>5

LEMMA FinalizeSettles ==
    ASSUME CrawlInv, SettleInv, TypeOK', NEW w \in Workers, Finalize(w)
    PROVE  SettleInv'
  <1> DEFINE j == worker[w].job
             pages == worker[w].pages
             status == IF job[j].cancelReq THEN "cancelled" ELSE "completed"
  <1>0. TypeOK /\ worker[w].pc = "closing" /\ Release(w)
    BY DEF CrawlInv, Finalize, At
  <1>1. j \in JobIds /\ HoldsLease(w) /\ job[j].status = "running"
    BY <1>0, Engaged
  <1>2. /\ job' = [EndLease(j, status) EXCEPT ![j].resultPages = pages]
        /\ usage' = usage + (IF job[j].cancelReq THEN 0 ELSE pages)
        /\ UNCHANGED <<frontier, stored, reopens>>
    <2>1. AttemptIsCurrent(w)
      BY <1>0, <1>1 DEF CrawlInv, LeaseHoldersAttempt, HoldsLease, Steps
    <2> QED BY <1>1, <2>1 DEF Finalize
  <1>3. status \in {"cancelled", "completed"}
    OBVIOUS
  <1>4. pages \in Nat
    BY <1>0 DEF TypeOK, CrawlWorker
  <1>5. WorkerOK(w) /\ (Calm => WorkerRows(w)) /\ JobOK(j)
    BY <1>1 DEF SettleInv
  <1>6. reopens = 0 => pages <= job[j].maxPages
    BY <1>0, <1>1, <1>5 DEF WorkerOK, JobOK, Active, ACTIVE_CRAWL_STATUSES
  <1>7. Calm => \A u \in Urls : frontier'[j][u] \notin {"fetching", "queued"}
    BY <1>0, <1>2, <1>5 DEF WorkerRows, Rows
  <1>8. usage' \in Nat /\ usage' <= usage + pages
    <2>1. usage \in Nat
      BY <1>0 DEF TypeOK
    <2> QED BY <1>2, <1>4, <2>1
  <1> HIDE DEF status
  <1>9. /\ job'[j].status = status /\ job'[j].maxPages = job[j].maxPages
        /\ \A k \in JobIds \ {j} : job'[k] = job[k]
    BY <1>0, <1>1, <1>2, <1>4, EndedJob DEF EndsJob
  <1>10. reopens = 0 => usage' + Held(job'[j]) <= usage + Held(job[j])
    <2>1. /\ Held(job[j]) = job[j].maxPages /\ Held(job'[j]) = 0
          /\ job[j].maxPages \in Nat /\ usage \in Nat
      BY <1>0, <1>1, <1>3, <1>9, HeldEnds DEF TERMINAL_CRAWL_STATUSES
    <2> QED BY <1>4, <1>6, <1>8, <2>1
  <1>11. \A v \in Workers : worker'[v].pc # "idle" => worker'[v] = worker[v] /\ worker[v].job # j
    BY <1>0, LeavesAlone
  <1>12. job'[j].status \in TERMINAL_CRAWL_STATUSES \cup {"retry_wait"}
    BY <1>3, <1>9 DEF TERMINAL_CRAWL_STATUSES
  <1> QED BY <1>1, <1>2, <1>7, <1>9, <1>10, <1>11, <1>12, LeaseEndSettles

LEMMA FailureSettles ==
    ASSUME CrawlInv, SettleInv, TypeOK', NEW w \in Workers, FailCrawl(w) \/ fail_claimed_job(w)
    PROVE  SettleInv'
  <1> DEFINE j == worker[w].job
  <1>0. TypeOK /\ worker[w].pc # "idle" /\ Release(w)
    BY DEF CrawlInv, FailCrawl, fail_claimed_job
  <1>1. j \in JobIds /\ HoldsLease(w) /\ Owns(w) /\ job[j].status = "running"
    BY <1>0, Engaged DEF HoldsLease
  <1>2. UNCHANGED <<stored, usage, reopens>>
    BY DEF FailCrawl, fail_claimed_job
  <1>3. \A v \in Workers : worker'[v].pc # "idle" => worker'[v] = worker[v] /\ worker[v].job # j
    BY <1>0, LeavesAlone
  <1>4. PICK status \in {"cancelled", "failed", "retry_wait"} : EndsJob(j, status)
    BY <1>1 DEF FailCrawl, FailedTo, fail_claimed_job, EndsJob
  <1>5. /\ job'[j].status = status /\ job'[j].maxPages = job[j].maxPages
        /\ \A k \in JobIds \ {j} : job'[k] = job[k]
    BY <1>0, <1>1, <1>4, EndedJob
  <1>6. /\ \A k \in JobIds \ {j} : frontier'[k] = frontier[k]
        /\ Calm => \A u \in Urls : frontier'[j][u] # "fetching"
    <2>1. CASE FailCrawl(w)
      <3>1. SetRows(j, Rows(j, {"fetching"}), "queued")
        BY <1>1, <2>1 DEF FailCrawl
      <3> QED BY <1>0, <1>1, <3>1, RowsOfOne DEF Rows
    <2>2. CASE fail_claimed_job(w)
      <3>1. UNCHANGED frontier /\ ~Calm
        BY <2>2 DEF fail_claimed_job, Fault, Calm
      <3> QED BY <3>1
    <2> QED BY <2>1, <2>2
  <1>7. job'[j].status \in TERMINAL_CRAWL_STATUSES \cup {"retry_wait"} /\ job'[j].status # "completed"
    BY <1>4, <1>5 DEF TERMINAL_CRAWL_STATUSES
  <1>8. usage' + Held(job'[j]) <= usage + Held(job[j])
    BY <1>0, <1>1, <1>2, <1>5, <1>7, HeldEnds
  <1> QED BY <1>1, <1>2, <1>3, <1>5, <1>6, <1>7, <1>8, LeaseEndSettles

LEMMA DeathSettles ==
    ASSUME CrawlInv, SettleInv, NEW w \in Workers, WorkerDies(w)
    PROVE  SettleInv'
  <1>0. TypeOK
    BY DEF CrawlInv
  <1>1. UNCHANGED <<job, log, frontier, stored, usage, reopens>> /\ Release(w)
    BY DEF WorkerDies
  <1>2. Others(w) /\ worker'[w].pc = "idle"
    BY <1>0, <1>1, Freed
  <1>3. ASSUME NEW v \in Workers
        PROVE  WorkerOK(v)' /\ (Calm => WorkerRows(v)')
    <2>1. CASE v = w
      BY <1>2, <2>1 DEF WorkerOK, WorkerRows
    <2>2. CASE v # w
      BY <1>1, <1>2, <2>2, Bystander DEF SettleInv, Others, JobHeld
    <2> QED BY <2>1, <2>2
  <1>4. \A k \in JobIds : JobOK(k)' /\ (Calm => JobRows(k)')
    BY <1>1, JobUntouched DEF SettleInv, JobHeld
  <1>5. FreshCrawlsKeepAllowance'
    BY <1>1, AllowanceUntouched DEF SettleInv, JobHeld
  <1> QED BY <1>3, <1>4, <1>5 DEF SettleInv

LEMMA TimeSettles ==
    ASSUME NoStalls, CrawlInv, SettleInv, TypeOK', NEW j \in JobIds, LeaseExpires(j) \/ BackoffEnds(j)
    PROVE  SettleInv'
  <1>0. TypeOK
    BY DEF CrawlInv
  <1>1. UNCHANGED <<log, frontier, stored, usage, worker, reopens>>
    BY DEF LeaseExpires, BackoffEnds
  <1>2. job[j] \in CrawlJob
    BY <1>0 DEF TypeOK
  <1>3. /\ \/ job'[j] = [job[j] EXCEPT !.live = FALSE] \/ job'[j] = [job[j] EXCEPT !.due = TRUE]
        /\ \A k \in JobIds \ {j} : job'[k] = job[k]
    BY <1>0 DEF TypeOK, LeaseExpires, BackoffEnds
  <1>4. /\ job'[j].status = job[j].status /\ job'[j].maxPages = job[j].maxPages
        /\ job'[j].snapshot = job[j].snapshot
    BY <1>2, <1>3 DEF CrawlJob
  <1>5. \A v \in Workers : worker[v].pc # "idle" => worker[v].job # j
    <2>1. CASE LeaseExpires(j)
      <3>1. worker[job[j].owner].job # j
        BY <2>1 DEF LeaseExpires, Fault, NoStalls
      <3> QED BY <3>1, Engaged
    <2>2. CASE BackoffEnds(j)
      BY <2>2, NobodyIn DEF BackoffEnds
    <2> QED BY <2>1, <2>2
  <1>6. JobOK(j) /\ (Calm => JobRows(j))
    BY DEF SettleInv
  <1>7. JobOK(j)' /\ (Calm => JobRows(j)')
    BY <1>1, <1>4, <1>6 DEF JobOK, JobRows, Rows, Active
  <1>8. FreshCrawlsKeepAllowance'
    <2>1. Held(job'[j]) = Held(job[j]) /\ Held(job[j]) \in Nat
      BY <1>2, <1>4 DEF Held, CrawlJob
    <2>2. usage \in Nat
      BY <1>0 DEF TypeOK
    <2>3. usage' + Held(job'[j]) <= usage + Held(job[j])
      BY <1>1, <2>1, <2>2
    <2> QED BY <1>1, <1>3, <2>3, AllowanceMoves
  <1> QED BY <1>1, <1>3, <1>5, <1>7, <1>8, FreeJobSettles
-----------------------------------------------------------------------------
(* Theorems.                                                                 *)

LEMMA InitSettles == Init => SettleInv
  <1> SUFFICES ASSUME Init
               PROVE  SettleInv
    OBVIOUS
  <1>1. \A w \in Workers : worker[w].pc = "idle"
    BY DEF Init, Idle
  <1>2. \A j \in JobIds : /\ job[j].status = "absent" /\ ~job[j].snapshot /\ stored[j] = {}
                          /\ Rows(j, {"fetching"}) = {} /\ Rows(j, {"queued"}) = {}
    BY DEF Init, NoCrawlJob, Rows
  <1>3. \A w \in Workers : WorkerOK(w) /\ WorkerRows(w)
    BY <1>1 DEF WorkerOK, WorkerRows
  <1>4. \A j \in JobIds : JobOK(j) /\ JobRows(j)
    BY <1>2 DEF JobOK, JobRows, Active, ACTIVE_CRAWL_STATUSES
  <1>5. FreshCrawlsKeepAllowance
    <2>1. ReservedPages = {}
      BY <1>2 DEF ReservedPages, Active, ACTIVE_CRAWL_STATUSES
    <2>2. Reserved = 0 /\ usage = 0
      BY <2>1, FS_EmptySet DEF Reserved, Init
    <2> QED BY <2>2, CrawlConstants DEF FreshCrawlsKeepAllowance
  <1> QED BY <1>3, <1>4, <1>5 DEF SettleInv

LEMMA SettleInvNext ==
    ASSUME NoStalls, CrawlInv, SettleInv, CrawlInv', [Next]_vars
    PROVE  SettleInv'
  <1>0. TypeOK'
    BY DEF CrawlInv
  <1>1. CASE Request
    BY <1>0, <1>1, EnqueueSettles, CancelSettles, ReopenSettles DEF Request
  <1>2. ASSUME NEW w \in Workers, Claim(w)
        PROVE  SettleInv'
    BY <1>0, <1>2, ClaimSettles DEF Claim
  <1>3. ASSUME NEW w \in Workers, CrawlStep(w)
        PROVE  SettleInv'
    BY <1>0, <1>3, BeginSettles, ControlSettles, OpenSettles, SeedSettles, TakeSettles, MoveOnSettles,
       BatchSettles, RobotsSettle, EndSettles, FinalizeSettles, FailureSettles DEF CrawlStep
  <1>4. ASSUME NEW w \in Workers, StepAborts(w) \/ fail_claimed_job(w) \/ WorkerDies(w)
        PROVE  SettleInv'
    BY <1>0, <1>4, MoveOnSettles, FailureSettles, DeathSettles
  <1>5. ASSUME NEW j \in JobIds, recover_expired_crawl_leases(j) \/ LeaseExpires(j) \/ BackoffEnds(j)
        PROVE  SettleInv'
    BY <1>0, <1>5, RecoverySettles, TimeSettles
  <1>6. CASE UNCHANGED vars
    <2>1. UNCHANGED <<job, log, frontier, stored, usage, worker, reopens, faults>>
      BY <1>6 DEF vars
    <2>2. \A w \in Workers : WorkerOK(w)' /\ (Calm => WorkerRows(w)')
      BY <2>1, Bystander DEF SettleInv, JobHeld
    <2>3. \A j \in JobIds : JobOK(j)' /\ (Calm => JobRows(j)')
      BY <2>1, JobUntouched DEF SettleInv, JobHeld
    <2>4. FreshCrawlsKeepAllowance'
      BY <2>1, AllowanceUntouched DEF SettleInv, JobHeld
    <2> QED BY <2>2, <2>3, <2>4 DEF SettleInv
  <1> QED BY <1>1, <1>2, <1>3, <1>4, <1>5, <1>6 DEF Next

\* Where no worker outlives its lease: a worker in a job holds its lease, and the
\* pages reserved and charged stay within the allowance until a reopening.
THEOREM SettleInvariance ==
    ASSUME NoStalls
    PROVE  Spec => []SettleInv
  <1>1. CrawlInv /\ SettleInv /\ CrawlInv' /\ [Next]_vars => SettleInv'
    BY SettleInvNext
  <1> QED BY <1>1, InitSettles, CrawlInvariance, PTL DEF Spec

\* "Active job max_pages values are durable reservations" (crawl_job_service.py):
\* until the first reopening, charges and reservations stay within the monthly
\* allowance through crashes, throttled pages and failing error handlers.
THEOREM FreshCrawlsStayWithinAllowance ==
    ASSUME NoStalls
    PROVE  Spec => []FreshCrawlsKeepAllowance
  <1>1. SettleInv => FreshCrawlsKeepAllowance
    BY DEF SettleInv
  <1> QED BY <1>1, SettleInvariance, PTL

\* Where no worker stalls and no error handler fails, crawls settle: within the
\* allowance, and with no row queued or fetching once they are completed.
THEOREM CrawlsDoSettle ==
    ASSUME NoStalls, Calm
    PROVE  Spec => []CrawlsSettle
  <1>1. SettleInv /\ OneActiveCrawl => CrawlsSettle
    BY DEF SettleInv, CrawlsSettle, CompletedCrawlsLeaveNoRow, JobRows, Rows
  <1> QED BY <1>1, SettleInvariance, CrawlsAreAlone, PTL
=============================================================================
