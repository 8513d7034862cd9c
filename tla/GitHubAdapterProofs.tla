------------------------ MODULE GitHubAdapterProofs ------------------------
(*****************************************************************************)
(* Theorems about GitHubAdapter, for every number of attempts, human acts    *)
(* and faults; and, at the end, about AgentRuns, for every number of sites,  *)
(* runs, crawls and analysts.                                                *)
(*****************************************************************************)
EXTENDS GitHubAdapter, AgentRuns, WellFoundedInduction, TLAPS

ExecutePcs == {"capture", "apply", "branch", "ref", "raced", "find", "pull", "applied"}
ValidatePcs == {"val_ref", "val_pull", "val_after"}
UndoPcs == {"undo", "undo_close", "undo_ref", "undo_delete", "undone"}

\* Among the commits cs, c is one of the action on b; row is the record of one.
OnBase(cs, c, b) == c \in 1..Len(cs) /\ cs[c].tagged /\ cs[c].parent = b
GovernedRow(cs, row) == row # NoRecord => OnBase(cs, row.commit, row.base)

\* A job in the queue has attempts left, and what follows an execution has its
\* record, which is that of a commit on its base.
QueueInv ==
    /\ stage \in JobTypes => attempts < MaxAttempts
    /\ stage \in {"validate", "succeeded", "rollback", "rolled_back"} => record # NoRecord
    /\ GovernedRow(commits, record)

\* An attempt works for the job in the queue; it has a commit on its base in
\* hand from the moment it goes on with a branch.
WorkerInv ==
    /\ worker.pc \in ExecutePcs => stage = "execute"
    /\ worker.pc \in ValidatePcs => stage = "validate"
    /\ worker.pc \in UndoPcs => stage = "rollback"
    /\ worker.pc \in {"ref", "raced", "find", "pull"} => OnBase(commits, worker.commit, worker.base)
    /\ worker.pc \in {"applied"} \cup ValidatePcs \cup UndoPcs => worker.row # NoRecord
    /\ GovernedRow(commits, worker.row)

AdapterInv == TypeOK /\ QueueInv /\ WorkerInv

\* The types of what the queue does not keep, and of what it keeps.
OutsideTypes ==
    /\ base \in 0..Len(commits)
    /\ branch \in 0..Len(commits)
    /\ connected \in BOOLEAN
    /\ commits \in Seq(Commit)
    /\ pulls \in Seq(Pull)
    /\ acts \in 0..MaxActs
    /\ faults \in 0..MaxFaults

QueueTypes ==
    /\ stage \in JobTypes \cup {"succeeded", "rolled_back", "failed"}
    /\ attempts \in 0..MaxAttempts
    /\ record \in GitHubExecution
    /\ worker \in Attempt
-----------------------------------------------------------------------------
(* Sequences of pull requests and commits.                                   *)

LEMMA PullsOf ==
    ASSUME TypeOK, NEW n \in DOMAIN pulls
    PROVE  /\ pulls[n] \in Pull
           /\ n \in Nat
  BY DEF TypeOK

LEMMA ClosedPulls == TypeOK => CloseAll \in Seq(Pull)
  <1> SUFFICES ASSUME TypeOK PROVE CloseAll \in Seq(Pull)
    OBVIOUS
  <1>1. \A n \in DOMAIN pulls :
           [pulls[n] EXCEPT !.state = IF @ = "open" THEN "closed" ELSE @] \in Pull
    BY PullsOf DEF Pull
  <1> QED BY <1>1 DEF CloseAll, TypeOK

LEMMA MovedPulls ==
    ASSUME TypeOK, NEW c \in Nat, MoveBranch(c)
    PROVE  pulls' \in Seq(Pull) /\ branch' = c
  <1>1. \A n \in DOMAIN pulls :
           [pulls[n] EXCEPT !.head = IF n \in OpenPulls THEN c ELSE @] \in Pull
    BY PullsOf DEF Pull
  <1> QED BY <1>1 DEF MoveBranch, TypeOK

\* What may be appended, wherever it happens.
LEMMA AppendedCommit ==
    ASSUME TypeOK, NEW parent \in Nat, NEW tagged \in BOOLEAN,
           commits' = Append(commits, [parent |-> parent, tagged |-> tagged])
    PROVE  /\ commits' \in Seq(Commit)
           /\ Len(commits') = Len(commits) + 1
           /\ \A c \in 1..Len(commits) : commits'[c] = commits[c]
           /\ commits'[Len(commits) + 1] = [parent |-> parent, tagged |-> tagged]
  <1>1. [parent |-> parent, tagged |-> tagged] \in Commit
    BY DEF Commit
  <1> QED BY <1>1 DEF TypeOK

LEMMA OpenedPull ==
    ASSUME TypeOK, NEW draft \in BOOLEAN, OpenPull(draft)
    PROVE  pulls' \in Seq(Pull) /\ branch' = branch /\ branch # 0
  <1>1. [state |-> "open", draft |-> draft, head |-> branch] \in Pull
    BY DEF Pull, TypeOK
  <1> QED BY <1>1 DEF OpenPull, TypeOK

LEMMA ClosedPull ==
    ASSUME TypeOK, PullIsClosed
    PROVE  pulls' \in Seq(Pull) /\ branch' = branch
  <1>1. CASE record.pull \in DOMAIN pulls
    <2>1. [pulls[record.pull] EXCEPT !.state = IF @ = "open" THEN "closed" ELSE @] \in Pull
      BY <1>1, PullsOf DEF Pull
    <2> QED BY <1>1, <2>1 DEF PullIsClosed, TypeOK
  <1>2. CASE record.pull \notin DOMAIN pulls
    <2>1. pulls' = [n \in DOMAIN pulls |-> pulls[n]]
      BY <1>2 DEF PullIsClosed
    <2>2. [n \in DOMAIN pulls |-> pulls[n]] = pulls
      BY DEF TypeOK
    <2> QED BY <2>1, <2>2 DEF PullIsClosed, TypeOK
  <1> QED BY <1>1, <1>2

-----------------------------------------------------------------------------
LEMMA WorkerCommit ==
    ASSUME WorkerInv, worker.pc = "ref"
    PROVE  worker.commit \in 1..Len(commits)
  BY DEF WorkerInv, OnBase

LEMMA PeopleTyped ==
    ASSUME AdapterConstants, TypeOK, HumanStep
    PROVE  OutsideTypes'
  <1>1. acts' \in 0..MaxActs /\ faults' \in 0..MaxFaults
    <2>1. acts < MaxActs /\ acts' = acts + 1 /\ UNCHANGED faults
      BY DEF HumanStep, PushBase, PushBranch, AmendBranch, DeleteBranch, OpenOwnPull, ChangePull, SetPull,
             ProviderDenies, disconnect_installation, connect_authorized_repository, Human
    <2> QED BY <2>1 DEF AdapterConstants, TypeOK
  <1>2. CASE PushBase
    <2>0. base \in Nat
      BY DEF TypeOK
    <2>1. commits' \in Seq(Commit) /\ Len(commits') = Len(commits) + 1
      BY <1>2, <2>0, AppendedCommit DEF PushBase, NewCommit
    <2> QED BY <1>1, <1>2, <2>1 DEF PushBase, TypeOK, OutsideTypes
  <1>3. ASSUME NEW c \in {Len(commits) + 1}, MoveBranch(c), commits' \in Seq(Commit),
               Len(commits') = c, UNCHANGED <<connected, base>>
        PROVE  OutsideTypes'
    <2>1. c \in Nat
      BY DEF TypeOK
    <2>2. pulls' \in Seq(Pull) /\ branch' = c
      BY <1>3, <2>1, MovedPulls
    <2> QED BY <1>1, <1>3, <2>1, <2>2 DEF TypeOK, OutsideTypes
  <1>4. CASE PushBranch
    <2>1. (IF branch = 0 THEN base ELSE branch) \in Nat
      BY DEF TypeOK
    <2>2. commits' \in Seq(Commit) /\ Len(commits') = Len(commits) + 1
      BY <1>4, <2>1, AppendedCommit DEF PushBranch, NewCommit
    <2> QED BY <1>3, <1>4, <2>2 DEF PushBranch
  <1>5. CASE AmendBranch
    <2>1. commits[branch] \in Commit
      BY <1>5 DEF AmendBranch, TypeOK
    <2>2. commits' \in Seq(Commit) /\ Len(commits') = Len(commits) + 1
      BY <1>5, <2>1 DEF AmendBranch, TypeOK
    <2> QED BY <1>3, <1>5, <2>2 DEF AmendBranch
  <1>6. CASE DeleteBranch
    BY <1>1, <1>6, ClosedPulls DEF DeleteBranch, RefIsDeleted, TypeOK, OutsideTypes
  <1>7. CASE OpenOwnPull
    <2>1. pulls' \in Seq(Pull) /\ branch' = branch
      BY <1>7, OpenedPull DEF OpenOwnPull
    <2> QED BY <1>1, <1>7, <2>1 DEF OpenOwnPull, TypeOK, OutsideTypes
  <1>8. ASSUME NEW n \in DOMAIN pulls, ChangePull(n)
        PROVE  OutsideTypes'
    <2>1. /\ pulls' \in Seq(Pull)
          /\ UNCHANGED <<connected, branch>>
      <3>1. /\ \A s \in {"open", "closed", "merged"} : [pulls[n] EXCEPT !.state = s] \in Pull
            /\ [pulls[n] EXCEPT !.draft = FALSE] \in Pull
        <4>1. pulls[n] \in Pull
          BY PullsOf
        <4> QED BY <4>1 DEF Pull
      <3>2. \/ SetPull("close", n, pulls[n], [pulls[n] EXCEPT !.state = "closed"])
            \/ SetPull("reopen", n, pulls[n], [pulls[n] EXCEPT !.state = "open"])
            \/ SetPull("ready", n, pulls[n], [pulls[n] EXCEPT !.draft = FALSE])
            \/ SetPull("merge", n, pulls[n], [pulls[n] EXCEPT !.state = "merged"])
        BY <1>8, Zenon DEF ChangePull
      <3>3. PICK to \in Pull : /\ pulls' = [pulls EXCEPT ![n] = to]
                               /\ UNCHANGED <<connected, branch>>
        BY <3>1, <3>2 DEF SetPull
      <3> QED BY <3>3 DEF TypeOK
    <2>2. CASE UNCHANGED <<commits, base>>
      BY <1>1, <2>1, <2>2 DEF TypeOK, OutsideTypes
    <2>3. CASE NewCommit(base, FALSE) /\ base' = Len(commits) + 1
      <3>0. base \in Nat
        BY DEF TypeOK
      <3>1. commits' \in Seq(Commit) /\ Len(commits') = Len(commits) + 1
        BY <2>3, <3>0, AppendedCommit DEF NewCommit
      <3> QED BY <1>1, <2>1, <2>3, <3>1 DEF TypeOK, OutsideTypes
    <2> QED BY <1>8, <2>2, <2>3 DEF ChangePull
  <1>9. CASE ProviderDenies \/ disconnect_installation \/ connect_authorized_repository
    BY <1>1, <1>9 DEF ProviderDenies, disconnect_installation, connect_authorized_repository,
                      TypeOK, OutsideTypes, repository
  <1> QED BY <1>2, <1>4, <1>5, <1>6, <1>7, <1>8, <1>9 DEF HumanStep

LEMMA OutsideTyped ==
    ASSUME AdapterConstants, TypeOK, WorkerInv, Next
    PROVE  OutsideTypes'
  <1>1. CASE UNCHANGED <<connected, repository, acts, faults>>
    BY <1>1 DEF TypeOK, OutsideTypes, repository
  <1>2. CASE ReadBranch
    <2>1. CASE commits' = Append(commits, [parent |-> worker.base, tagged |-> TRUE])
                 /\ UNCHANGED <<connected, base, branch, pulls, acts, faults>>
      <3>1. worker.base \in Nat
        BY DEF TypeOK, Attempt
      <3>2. commits' \in Seq(Commit) /\ Len(commits') = Len(commits) + 1
        BY <2>1, <3>1, AppendedCommit
      <3> QED BY <2>1, <3>2 DEF TypeOK, OutsideTypes
    <2> QED BY <1>1, <1>2, <2>1 DEF ReadBranch, Reads, Refuses
  <1>3. CASE CreateRef
    <2>1. CASE RefIsCreated /\ worker.pc = "ref" /\ UNCHANGED <<connected, commits, base, acts, faults>>
      BY <2>1, WorkerCommit DEF RefIsCreated, TypeOK, OutsideTypes
    <2> QED BY <1>1, <1>3, <2>1 DEF CreateRef, Reads, At
  <1>4. CASE CreatePull
    <2>1. CASE OpenPull(TRUE) /\ UNCHANGED <<connected, commits, base, acts, faults>>
      <3>1. pulls' \in Seq(Pull) /\ branch' = branch
        BY <2>1, OpenedPull
      <3> QED BY <2>1, <3>1 DEF TypeOK, OutsideTypes
    <2> QED BY <1>1, <1>4, <2>1 DEF CreatePull, Refuses
  <1>5. CASE ClosePull
    <2>1. CASE PullIsClosed /\ UNCHANGED <<connected, commits, base, acts, faults>>
      <3>1. pulls' \in Seq(Pull) /\ branch' = branch
        BY <2>1, ClosedPull
      <3> QED BY <2>1, <3>1 DEF TypeOK, OutsideTypes
    <2> QED BY <1>1, <1>5, <2>1 DEF ClosePull, Refuses
  <1>6. CASE DeleteRef
    <2>1. CASE RefIsDeleted /\ UNCHANGED <<connected, commits, base, acts, faults>>
      BY <2>1, ClosedPulls DEF RefIsDeleted, TypeOK, OutsideTypes
    <2> QED BY <1>1, <1>6, <2>1 DEF DeleteRef, Refuses
  <1>7. CASE ProviderUnavailable \/ StepRaises \/ WorkerDies
    <2>1. faults' \in 0..MaxFaults
      <3>1. faults < MaxFaults /\ faults' = faults + 1
        BY <1>7 DEF ProviderUnavailable, StepRaises, WorkerDies, Fault
      <3> QED BY <3>1 DEF AdapterConstants, TypeOK
    <2>2. UNCHANGED <<connected, repository, acts>>
      BY <1>7 DEF ProviderUnavailable, StepRaises, WorkerDies
    <2> QED BY <2>1, <2>2 DEF TypeOK, OutsideTypes, repository
  <1>8. CASE AnswerLost
    <2>1. faults' \in 0..MaxFaults /\ UNCHANGED <<connected, commits, base, acts>>
      BY <1>8 DEF AnswerLost, Fault, AdapterConstants, TypeOK
    <2>2. pulls' \in Seq(Pull) /\ branch' \in 0..Len(commits)
      <3>1. CASE worker.pc = "ref" /\ RefIsCreated
        BY <3>1, WorkerCommit DEF RefIsCreated, TypeOK
      <3>2. CASE OpenPull(TRUE)
        BY <3>2, OpenedPull DEF TypeOK
      <3>3. CASE PullIsClosed
        BY <3>3, ClosedPull DEF TypeOK
      <3>4. CASE RefIsDeleted
        BY <3>4, ClosedPulls DEF RefIsDeleted, TypeOK
      <3> QED BY <1>8, <3>1, <3>2, <3>3, <3>4 DEF AnswerLost, At
    <2> QED BY <2>1, <2>2 DEF TypeOK, OutsideTypes
  <1>9. ASSUME HumanStep PROVE OutsideTypes'
    BY <1>9, PeopleTyped
  <1>10. CASE StartAttempt \/ ContextRefused \/ CaptureBefore \/ PlanRefused \/ CheckBase
    BY <1>1, <1>10 DEF StartAttempt, Begin, ContextRefused, CaptureBefore, PlanRefused, CheckBase,
                       Reads, Refuses
  <1>11. CASE ReadRacedRef \/ FindPull \/ FinishExecute \/ ReadRefForValidation \/ CheckPull
    BY <1>1, <1>11 DEF ReadRacedRef, FindPull, FinishExecute, ReadRefForValidation, CheckPull,
                       Reads, Refuses, Finish
  <1>12. CASE FinishValidate \/ ReadPull \/ ReadRefForRollback \/ FinishRollback \/ enqueue_rollback
    BY <1>1, <1>12 DEF FinishValidate, ReadPull, ReadRefForRollback, FinishRollback, enqueue_rollback,
                       Reads, Refuses, Finish
  <1> QED BY <1>2, <1>3, <1>4, <1>5, <1>6, <1>7, <1>8, <1>9, <1>10, <1>11, <1>12
    DEF Next, AdapterStep, FaultStep
-----------------------------------------------------------------------------
\* Commits are never taken back.
LEMMA CommitsGrow ==
    ASSUME TypeOK, Next
    PROVE  /\ Len(commits) \in Nat /\ Len(commits') \in Nat /\ Len(commits') >= Len(commits)
           /\ \A d \in 1..Len(commits) : commits'[d] = commits[d]
  <1>1. UNCHANGED commits \/ \E x : commits' = Append(commits, x)
    <2>1. CASE AdapterStep
      <3>1. CASE StartAttempt \/ ContextRefused \/ CaptureBefore \/ PlanRefused \/ CheckBase \/ ReadBranch
                 \/ CreateRef \/ ReadRacedRef
        BY <3>1 DEF StartAttempt, Begin, ContextRefused, CaptureBefore, PlanRefused, CheckBase, ReadBranch,
                    CreateRef, ReadRacedRef, Reads, Refuses, repository
      <3>2. CASE FindPull \/ CreatePull \/ FinishExecute \/ ReadRefForValidation \/ CheckPull \/ FinishValidate
        BY <3>2 DEF FindPull, CreatePull, FinishExecute, ReadRefForValidation, CheckPull, FinishValidate,
                    Reads, Refuses, Finish, repository
      <3>3. CASE ReadPull \/ ClosePull \/ ReadRefForRollback \/ DeleteRef \/ FinishRollback
        BY <3>3 DEF ReadPull, ClosePull, ReadRefForRollback, DeleteRef, FinishRollback,
                    Reads, Refuses, repository
      <3> QED BY <2>1, <3>1, <3>2, <3>3 DEF AdapterStep
    <2>2. CASE FaultStep \/ enqueue_rollback
      BY <2>2 DEF FaultStep, ProviderUnavailable, AnswerLost, StepRaises, WorkerDies, enqueue_rollback,
                  repository
    <2>3. CASE HumanStep
      BY <2>3 DEF HumanStep, PushBase, PushBranch, AmendBranch, DeleteBranch, OpenOwnPull, ChangePull, NewCommit,
                  ProviderDenies, disconnect_installation, connect_authorized_repository, repository
    <2> QED BY <2>1, <2>2, <2>3 DEF Next
  <1> QED BY <1>1 DEF TypeOK

LEMMA CommitsStay ==
    ASSUME TypeOK, Next, NEW c, NEW b, OnBase(commits, c, b)
    PROVE  OnBase(commits', c, b)
  BY CommitsGrow DEF OnBase

LEMMA RowsStay ==
    ASSUME TypeOK, Next, NEW row, GovernedRow(commits, row)
    PROVE  GovernedRow(commits', row)
  BY CommitsStay DEF GovernedRow

LEMMA WorkerIdles ==
    ASSUME worker' = Idle
    PROVE  worker' \in Attempt /\ WorkerInv'
  BY DEF Idle, Attempt, Pcs, NoRecord, GitHubExecution, WorkerInv, GovernedRow, ExecutePcs, ValidatePcs, UndoPcs

\* An attempt that fails commits its row; the job waits for the next one, if
\* one is left.
LEMMA AttemptFails ==
    ASSUME AdapterConstants, AdapterInv, Next, worker.pc # "idle",
           \/ Fail(TRUE) \/ Fail(FALSE)
    PROVE  QueueTypes' /\ QueueInv' /\ WorkerInv'
  <1>1. stage \in JobTypes /\ (stage \in {"validate", "rollback"} => worker.row # NoRecord)
    BY DEF AdapterInv, WorkerInv, JobTypes, TypeOK, Attempt, Pcs, ExecutePcs, ValidatePcs, UndoPcs
  <1>2. attempts \in Nat /\ MaxAttempts \in Nat /\ attempts < MaxAttempts
    BY <1>1 DEF AdapterInv, QueueInv, TypeOK, AdapterConstants
  <1>3. stage' \in {stage, "failed"} /\ attempts' = attempts + 1 /\ record' = worker.row /\ worker' = Idle
    BY DEF Fail
  <1>4. stage' \in JobTypes => attempts' < MaxAttempts
    BY <1>2 DEF Fail, JobTypes
  <1>5. worker.row \in GitHubExecution /\ GovernedRow(commits', worker.row)
    BY RowsStay DEF AdapterInv, WorkerInv, TypeOK, Attempt
  <1>6. QueueTypes'
    BY <1>1, <1>2, <1>3, <1>5, WorkerIdles DEF QueueTypes
  <1>7. GovernedRow(commits', record')
    BY <1>3, <1>5 DEF GovernedRow
  <1>8. QueueInv'
    BY <1>1, <1>3, <1>4, <1>7 DEF QueueInv, JobTypes
  <1> QED BY <1>3, <1>6, <1>8, WorkerIdles

\* An attempt that goes on: only what it has in hand changes.
LEMMA AttemptGoesOn ==
    ASSUME AdapterInv, Next, UNCHANGED queue, worker' \in Attempt, WorkerInv'
    PROVE  QueueTypes' /\ QueueInv' /\ WorkerInv'
  <1>1. GovernedRow(commits', record)
    BY RowsStay DEF AdapterInv, QueueInv
  <1> QED BY <1>1 DEF AdapterInv, QueueInv, QueueTypes, TypeOK, queue

\* What the attempt has in hand stays what it was.
LEMMA HandStays ==
    ASSUME AdapterInv, Next
    PROVE  /\ GovernedRow(commits', worker.row)
           /\ GovernedRow(commits', record)
           /\ worker.pc \in {"ref", "raced", "find", "pull"} => OnBase(commits', worker.commit, worker.base)
  BY CommitsStay, RowsStay DEF AdapterInv, QueueInv, WorkerInv

LEMMA ExecuteGoesOn ==
    ASSUME AdapterConstants, AdapterInv, Next,
           \/ CaptureBefore \/ PlanRefused \/ CheckBase \/ ReadBranch \/ CreateRef \/ ReadRacedRef
           \/ FindPull \/ CreatePull
    PROVE  QueueTypes' /\ QueueInv' /\ WorkerInv'
  <1> USE DEF At, InContext, Reads, Refuses
  <1>0. stage = "execute" /\ worker.pc # "idle" /\ worker \in Attempt
    BY DEF CaptureBefore, PlanRefused, CheckBase, ReadBranch, CreateRef, ReadRacedRef, FindPull, CreatePull,
           AdapterInv, TypeOK, WorkerInv, ExecutePcs
  <1>1. CASE Refuses
    BY <1>0, <1>1, AttemptFails
  <1>2. CASE CaptureBefore
    <2>1. worker' = [worker EXCEPT !.pc = "apply", !.base = base] /\ UNCHANGED queue
      BY <1>2 DEF CaptureBefore
    <2>2. worker' \in Attempt
      <3>1. base \in Nat
        BY DEF AdapterInv, TypeOK
      <3> QED BY <1>0, <2>1, <3>1 DEF Attempt, Pcs
    <2>3. WorkerInv'
      BY <1>0, <2>1, HandStays DEF WorkerInv, Attempt, ExecutePcs, ValidatePcs, UndoPcs, queue
    <2> QED BY <2>1, <2>2, <2>3, AttemptGoesOn
  <1>3. ASSUME NEW pc \in {"applied", "branch"}, worker' = [worker EXCEPT !.pc = pc], UNCHANGED queue,
               pc = "applied" => worker.row # NoRecord
        PROVE  QueueTypes' /\ QueueInv' /\ WorkerInv'
    <2>1. worker' \in Attempt
      BY <1>0, <1>3 DEF Attempt, Pcs
    <2>2. WorkerInv'
      BY <1>0, <1>3, HandStays DEF WorkerInv, Attempt, ExecutePcs, ValidatePcs, UndoPcs, queue
    <2> QED BY <1>3, <2>1, <2>2, AttemptGoesOn
  <1>4. ASSUME NEW pc \in {"ref", "raced", "find", "pull"}, NEW c \in Nat, OnBase(commits', c, worker.base),
               worker' = [worker EXCEPT !.pc = pc, !.commit = c], UNCHANGED queue
        PROVE  QueueTypes' /\ QueueInv' /\ WorkerInv'
    <2>1. worker' \in Attempt
      BY <1>0, <1>4 DEF Attempt, Pcs
    <2>2. WorkerInv'
      BY <1>0, <1>4, HandStays DEF WorkerInv, Attempt, ExecutePcs, ValidatePcs, UndoPcs, queue
    <2> QED BY <1>4, <2>1, <2>2, AttemptGoesOn
  <1>5. ASSUME worker.pc \in {"ref", "raced", "find", "pull"},
               NEW pc \in {"ref", "raced", "find", "pull"}, worker' = [worker EXCEPT !.pc = pc],
               UNCHANGED queue
        PROVE  QueueTypes' /\ QueueInv' /\ WorkerInv'
    <2>1. worker' = [worker EXCEPT !.pc = pc, !.commit = worker.commit] /\ worker.commit \in Nat
      BY <1>0, <1>5 DEF Attempt
    <2> QED BY <1>4, <1>5, <2>1, HandStays
  <1>6. ASSUME worker.pc \in {"find", "pull"}, NEW n \in Nat, worker' = Recorded(n), UNCHANGED queue
        PROVE  QueueTypes' /\ QueueInv' /\ WorkerInv'
    <2>1. OnBase(commits', worker.commit, worker.base)
      BY <1>6, HandStays
    <2>2. /\ worker'.pc = "applied"
          /\ worker'.row = [commit |-> worker.commit, base |-> worker.base, pull |-> n,
                            status |-> "draft_pr_open"]
          /\ worker' \in Attempt
      BY <1>0, <1>6 DEF Recorded, Attempt, Pcs, GitHubExecution
    <2>3. worker'.row # NoRecord /\ GovernedRow(commits', worker'.row)
      BY <2>1, <2>2 DEF NoRecord, GovernedRow
    <2>4. WorkerInv'
      BY <1>0, <1>6, <2>2, <2>3 DEF WorkerInv, ExecutePcs, ValidatePcs, UndoPcs, queue
    <2> QED BY <1>6, <2>2, <2>4, AttemptGoesOn
  <1>7. CASE PlanRefused
    BY <1>1, <1>7 DEF PlanRefused
  <1>8. CASE CheckBase
    BY <1>1, <1>3, <1>8 DEF CheckBase
  <1>9. CASE ReadBranch
    <2>1. CASE branch # 0 /\ Adoptable(branch)
      <3>1. OnBase(commits, branch, worker.base) /\ branch \in Nat
        BY <2>1 DEF Adoptable, OnBase, AdapterInv, TypeOK
      <3>2. OnBase(commits', branch, worker.base)
        BY <3>1, CommitsStay DEF AdapterInv
      <3> QED BY <1>4, <1>9, <2>1, <3>1, <3>2 DEF ReadBranch
    <2>2. CASE branch # 0 /\ ~Adoptable(branch)
      BY <1>1, <1>9, <2>2 DEF ReadBranch
    <2>3. CASE branch = 0
      <3>1. /\ commits' = Append(commits, [parent |-> worker.base, tagged |-> TRUE])
            /\ worker' = [worker EXCEPT !.pc = "ref", !.commit = Len(commits) + 1]
            /\ UNCHANGED queue
        BY <1>9, <2>3 DEF ReadBranch
      <3>2. Len(commits) + 1 \in Nat /\ OnBase(commits', Len(commits) + 1, worker.base)
        BY <1>0, <3>1 DEF OnBase, AdapterInv, TypeOK, Attempt
      <3> QED BY <1>4, <3>1, <3>2
    <2> QED BY <2>1, <2>2, <2>3
  <1>10. CASE CreateRef
    BY <1>5, <1>10 DEF CreateRef
  <1>11. CASE ReadRacedRef
    BY <1>1, <1>5, <1>11 DEF ReadRacedRef
  <1>12. CASE FindPull
    <2>1. \A n \in OpenPulls : n \in Nat
      BY DEF OpenPulls, AdapterInv, TypeOK
    <2> QED BY <1>1, <1>5, <1>6, <1>12, <2>1 DEF FindPull
  <1>13. CASE CreatePull
    <2>1. Len(pulls) + 1 \in Nat
      BY DEF AdapterInv, TypeOK
    <2> QED BY <1>1, <1>6, <1>13, <2>1 DEF CreatePull
  <1> QED BY <1>2, <1>7, <1>8, <1>9, <1>10, <1>11, <1>12, <1>13

LEMMA ValidateAndRollbackGoOn ==
    ASSUME AdapterConstants, AdapterInv, Next,
           \/ ReadRefForValidation \/ CheckPull
           \/ ReadPull \/ ClosePull \/ ReadRefForRollback \/ DeleteRef
    PROVE  QueueTypes' /\ QueueInv' /\ WorkerInv'
  <1> USE DEF At, InContext, Reads, Refuses
  <1>0. worker.pc # "idle" /\ worker \in Attempt /\ worker.row \in GitHubExecution
    BY DEF ReadRefForValidation, CheckPull, ReadPull, ClosePull, ReadRefForRollback, DeleteRef,
           AdapterInv, TypeOK, Attempt
  <1>1. CASE Refuses
    BY <1>0, <1>1, AttemptFails
  <1>2. CASE ReadRefForValidation
    <2>1. /\ worker' = [worker EXCEPT !.pc = "val_pull", !.seen = branch] /\ UNCHANGED queue
          /\ worker.pc = "val_ref"
      BY <1>2 DEF ReadRefForValidation
    <2>2. worker' \in Attempt
      <3>1. branch \in Nat
        BY DEF AdapterInv, TypeOK
      <3> QED BY <1>0, <2>1, <3>1 DEF Attempt, Pcs
    <2>3. WorkerInv'
      BY <1>0, <2>1, HandStays DEF AdapterInv, WorkerInv, Attempt, ExecutePcs, ValidatePcs, UndoPcs, queue
    <2> QED BY <2>1, <2>2, <2>3, AttemptGoesOn
  <1>3. CASE CheckPull
    <2>1. PICK status \in {"validated", "validation_failed"} :
             worker' = [worker EXCEPT !.pc = "val_after", !.row.status = status]
      BY <1>3 DEF CheckPull
    <2>2. worker.pc = "val_pull" /\ UNCHANGED queue
      BY <1>3 DEF CheckPull
    <2>3. /\ worker'.pc = "val_after"
          /\ worker'.row = [worker.row EXCEPT !.status = status]
          /\ worker' \in Attempt
      BY <1>0, <2>1 DEF Attempt, Pcs, GitHubExecution
    <2>4. worker.row # NoRecord /\ stage = "validate"
      BY <2>2 DEF AdapterInv, WorkerInv, ValidatePcs
    <2>5. OnBase(commits', worker'.row.commit, worker'.row.base)
      BY <1>0, <2>3, <2>4, HandStays DEF GovernedRow, GitHubExecution
    <2>6. worker'.row # NoRecord
      BY <1>0, <2>3 DEF NoRecord, GitHubExecution
    <2>7. WorkerInv'
      BY <2>2, <2>3, <2>4, <2>5, <2>6 DEF WorkerInv, GovernedRow, ExecutePcs, ValidatePcs, UndoPcs, queue
    <2> QED BY <2>2, <2>3, <2>7, AttemptGoesOn
  <1>4. ASSUME worker.pc \in UndoPcs, NEW pc \in UndoPcs, worker' = [worker EXCEPT !.pc = pc],
               UNCHANGED queue
        PROVE  QueueTypes' /\ QueueInv' /\ WorkerInv'
    <2>1. worker' \in Attempt
      BY <1>0, <1>4 DEF Attempt, Pcs, UndoPcs
    <2>2. WorkerInv'
      BY <1>0, <1>4, HandStays DEF AdapterInv, WorkerInv, Attempt, ExecutePcs, ValidatePcs, UndoPcs, queue
    <2> QED BY <1>4, <2>1, <2>2, AttemptGoesOn
  <1>5. CASE ReadPull
    BY <1>1, <1>4, <1>5 DEF ReadPull, UndoPcs
  <1>6. CASE ClosePull
    BY <1>1, <1>4, <1>6 DEF ClosePull, UndoPcs
  <1>7. CASE ReadRefForRollback
    BY <1>1, <1>4, <1>7 DEF ReadRefForRollback, UndoPcs
  <1>8. CASE DeleteRef
    BY <1>1, <1>4, <1>8 DEF DeleteRef, UndoPcs
  <1> QED BY <1>2, <1>3, <1>5, <1>6, <1>7, <1>8

\* The steps that begin and end an attempt.
LEMMA AttemptsBeginAndEnd ==
    ASSUME AdapterConstants, AdapterInv, Next,
           \/ StartAttempt \/ ContextRefused \/ FinishExecute \/ FinishValidate \/ FinishRollback
           \/ enqueue_rollback \/ FaultStep \/ ProviderDenies
    PROVE  QueueTypes' /\ QueueInv' /\ WorkerInv'
  <1>0. /\ worker.row \in GitHubExecution /\ record \in GitHubExecution
        /\ attempts \in Nat /\ MaxAttempts \in Nat \ {0}
    BY DEF AdapterInv, TypeOK, Attempt, AdapterConstants
  <1>1. ASSUME worker.pc # "idle", Fail(TRUE) \/ Fail(FALSE)
        PROVE  QueueTypes' /\ QueueInv' /\ WorkerInv'
    BY <1>1, AttemptFails
  <1>2. CASE StartAttempt
    <2>1. PICK pc \in {"capture", "val_ref", "undo"} :
             /\ pc \in ExecutePcs => stage = "execute"
             /\ pc \in ValidatePcs => stage = "validate"
             /\ pc \in UndoPcs => stage = "rollback"
             /\ Begin(pc)
      BY <1>2 DEF StartAttempt, ExecutePcs, ValidatePcs, UndoPcs
    <2>2. worker'.pc = pc /\ worker'.row = record /\ worker' \in Attempt /\ UNCHANGED queue
      BY <1>0, <2>1 DEF Begin, Idle, Attempt, Pcs
    <2>3. pc # "capture" => record # NoRecord
      BY <2>1 DEF AdapterInv, QueueInv, ValidatePcs, UndoPcs
    <2>4. WorkerInv'
      BY <2>1, <2>2, <2>3, HandStays DEF WorkerInv, ExecutePcs, ValidatePcs, UndoPcs, queue
    <2> QED BY <2>2, <2>4, AttemptGoesOn
  <1>3. ASSUME NEW outcome \in {"validate", "succeeded"}, Finish(outcome), worker.row # NoRecord
        PROVE  QueueTypes' /\ QueueInv' /\ WorkerInv'
    BY <1>0, <1>3, HandStays, WorkerIdles DEF Finish, QueueTypes, QueueInv, JobTypes
  <1>4. CASE FinishExecute
    BY <1>3, <1>4 DEF FinishExecute, At, AdapterInv, WorkerInv
  <1>5. CASE FinishValidate
    BY <1>1, <1>3, <1>5 DEF FinishValidate, InContext, At, Refuses, AdapterInv, WorkerInv, ValidatePcs
  <1>6. ASSUME worker.pc \in UndoPcs
        PROVE  /\ RolledBack \in GitHubExecution
               /\ RolledBack # NoRecord
               /\ GovernedRow(commits', RolledBack)
    <2>1. RolledBack \in GitHubExecution /\ RolledBack # NoRecord
      BY <1>0 DEF RolledBack, GitHubExecution, NoRecord
    <2>2. OnBase(commits', worker.row.commit, worker.row.base)
      BY <1>6, HandStays DEF AdapterInv, WorkerInv, GovernedRow
    <2> QED BY <1>0, <2>1, <2>2 DEF RolledBack, GovernedRow, GitHubExecution
  <1>7. CASE FinishRollback
    <2>1. worker.pc \in UndoPcs
      BY <1>7 DEF FinishRollback, At, UndoPcs
    <2> QED BY <1>0, <1>6, <1>7, <2>1, WorkerIdles DEF FinishRollback, QueueTypes, QueueInv, JobTypes
  <1>8. CASE enqueue_rollback
    <2>1. worker.pc \notin ExecutePcs \cup ValidatePcs \cup UndoPcs
      BY <1>8 DEF enqueue_rollback, AdapterInv, WorkerInv
    <2>2. WorkerInv'
      BY <1>8, <2>1, HandStays DEF enqueue_rollback, WorkerInv, ExecutePcs, ValidatePcs, UndoPcs
    <2>3. QueueInv' /\ QueueTypes'
      BY <1>0, <1>8, HandStays DEF enqueue_rollback, QueueInv, QueueTypes, JobTypes, AdapterInv, TypeOK
    <2> QED BY <2>2, <2>3
  <1>9. CASE ContextRefused \/ ProviderUnavailable \/ AnswerLost \/ ProviderDenies
    BY <1>1, <1>9 DEF ContextRefused, NeedsContext, Refuses, ProviderUnavailable, Calling, AnswerLost, At,
                      ProviderDenies
  <1>10. CASE WorkerDies
    BY <1>10, WorkerIdles, AttemptGoesOn DEF WorkerDies
  <1>11. CASE StepRaises
    <2>1. CASE worker.pc = "applied"
      BY <1>1, <1>11, <2>1 DEF StepRaises, At, Fail
    <2>2. CASE worker.pc = "undone"
      <3>1. /\ stage = "rollback" /\ worker.pc \in UndoPcs
            /\ attempts < MaxAttempts
        BY <2>2 DEF AdapterInv, WorkerInv, QueueInv, UndoPcs, JobTypes
      <3>2. /\ stage' \in {"rollback", "failed"}
            /\ stage' = "rollback" => attempts' < MaxAttempts
            /\ attempts' = attempts + 1
            /\ record' = RolledBack
            /\ worker' = Idle
        BY <1>11, <2>2, <3>1 DEF StepRaises, At
      <3> QED BY <1>0, <1>6, <3>1, <3>2, WorkerIdles DEF QueueTypes, QueueInv, JobTypes
    <2> QED BY <1>11, <2>1, <2>2 DEF StepRaises
  <1> QED BY <1>2, <1>4, <1>5, <1>7, <1>8, <1>9, <1>10, <1>11 DEF FaultStep

LEMMA PeopleChangeNoJob ==
    ASSUME AdapterInv, Next, HumanStep, ~ProviderDenies
    PROVE  QueueTypes' /\ QueueInv' /\ WorkerInv'
  <1>1. UNCHANGED queue /\ worker' = worker
    BY DEF HumanStep, PushBase, PushBranch, AmendBranch, DeleteBranch, OpenOwnPull, ChangePull, SetPull,
           disconnect_installation, connect_authorized_repository
  <1>2. WorkerInv'
    BY <1>1, HandStays DEF AdapterInv, WorkerInv, queue
  <1> QED BY <1>1, <1>2, AttemptGoesOn DEF AdapterInv, TypeOK

LEMMA AdapterInvNext ==
    ASSUME AdapterConstants, AdapterInv, [Next]_vars
    PROVE  AdapterInv'
  <1>1. CASE UNCHANGED vars
    BY <1>1 DEF AdapterInv, TypeOK, QueueInv, WorkerInv, GovernedRow, OnBase, vars, queue, repository
  <1>2. CASE Next
    <2>1. OutsideTypes'
      BY <1>2, OutsideTyped DEF AdapterInv
    <2>2. QueueTypes' /\ QueueInv' /\ WorkerInv'
      BY <1>2, ExecuteGoesOn, ValidateAndRollbackGoOn, AttemptsBeginAndEnd, PeopleChangeNoJob
         DEF Next, AdapterStep, HumanStep
    <2> QED BY <2>1, <2>2 DEF AdapterInv, TypeOK, OutsideTypes, QueueTypes
  <1> QED BY <1>1, <1>2

LEMMA AdapterInvariance == Spec => []AdapterInv
  <1>1. Init => AdapterInv
    BY AdapterConstants DEF Init, AdapterInv, TypeOK, QueueInv, WorkerInv, GovernedRow, Idle, NoRecord,
       JobTypes, GitHubExecution, Attempt, Pcs, Commit, Pull, ExecutePcs, ValidatePcs, UndoPcs
  <1>2. AdapterInv /\ [Next]_vars => AdapterInv'
    BY AdapterConstants, AdapterInvNext
  <1> QED BY <1>1, <1>2, PTL DEF Spec
-----------------------------------------------------------------------------
\* Rows and the repository are well formed, through every interleaving of an
\* attempt with people and faults.
THEOREM TypeCorrectness == Spec => []TypeOK
  BY AdapterInvariance, PTL DEF AdapterInv

\* A commit gets into a record only from the hands of an attempt that has made
\* it or has recognised it by its message and its parent; the parent is the
\* base commit of that attempt, which is the one it records.
THEOREM RecordsAreGoverned == Spec => []RecordedCommitIsGoverned
  <1>1. AdapterInv => RecordedCommitIsGoverned
    BY DEF AdapterInv, QueueInv, GovernedRow, OnBase, RecordedCommitIsGoverned
  <1> QED BY <1>1, AdapterInvariance, PTL

\* What a step does to the branch and its pull requests.
EditPull ==
    \E n \in DOMAIN pulls, to \in Pull :
        /\ pulls' = [pulls EXCEPT ![n] = to]
        /\ to.head = pulls[n].head
        /\ to.state = "open" => pulls[n].state = "open" \/ (branch # 0 /\ branch = pulls[n].head)
        /\ UNCHANGED branch

LEMMA EditedPull ==
    ASSUME TypeOK, NEW n \in DOMAIN pulls, ChangePull(n)
    PROVE  EditPull
  <1>1. pulls[n] \in Pull
    BY PullsOf
  <1>2. ASSUME NEW act, NEW to \in Pull, to.head = pulls[n].head, SetPull(act, n, pulls[n], to),
               to.state = "open" => pulls[n].state = "open" \/ (branch # 0 /\ branch = pulls[n].head)
        PROVE  EditPull
    BY <1>2 DEF SetPull, EditPull
  <1>3. ASSUME NEW act, NEW s \in {"closed", "open", "merged"},
               SetPull(act, n, pulls[n], [pulls[n] EXCEPT !.state = s]),
               s = "open" => branch # 0 /\ branch = pulls[n].head
        PROVE  EditPull
    <2>1. /\ [pulls[n] EXCEPT !.state = s] \in Pull
          /\ [pulls[n] EXCEPT !.state = s].head = pulls[n].head
          /\ [pulls[n] EXCEPT !.state = s].state = s
      BY <1>1 DEF Pull
    <2> QED BY <1>2, <1>3, <2>1
  <1>4. CASE pulls[n].state = "open" /\ SetPull("ready", n, pulls[n], [pulls[n] EXCEPT !.draft = FALSE])
    <2>1. /\ [pulls[n] EXCEPT !.draft = FALSE] \in Pull
          /\ [pulls[n] EXCEPT !.draft = FALSE].head = pulls[n].head
      BY <1>1 DEF Pull
    <2> QED BY <1>2, <1>4, <2>1
  <1>5. \/ SetPull("close", n, pulls[n], [pulls[n] EXCEPT !.state = "closed"])
        \/ /\ branch # 0 /\ branch = pulls[n].head
           /\ SetPull("reopen", n, pulls[n], [pulls[n] EXCEPT !.state = "open"])
        \/ pulls[n].state = "open" /\ SetPull("ready", n, pulls[n], [pulls[n] EXCEPT !.draft = FALSE])
        \/ SetPull("merge", n, pulls[n], [pulls[n] EXCEPT !.state = "merged"])
    BY Zenon DEF ChangePull
  <1> QED BY <1>3, <1>4, <1>5

LEMMA RepositorySteps ==
    ASSUME AdapterInv, Next
    PROVE  \/ UNCHANGED <<branch, pulls>>
           \/ worker.pc = "ref" /\ RefIsCreated
           \/ \E draft \in BOOLEAN : OpenPull(draft)
           \/ worker.pc = "undo_close" /\ PullIsClosed
           \/ RefIsDeleted /\ (worker.pc = "undo_delete" \/ acts' # acts)
           \/ /\ MoveBranch(Len(commits) + 1) /\ Len(commits') = Len(commits) + 1
              /\ acts' # acts
           \/ EditPull
  <1>1. CASE StartAttempt \/ ContextRefused \/ CaptureBefore \/ PlanRefused \/ CheckBase \/ ReadBranch
             \/ ReadRacedRef \/ FindPull \/ FinishExecute
    BY <1>1 DEF StartAttempt, Begin, ContextRefused, CaptureBefore, PlanRefused, CheckBase, ReadBranch,
                ReadRacedRef, FindPull, FinishExecute, Reads, Refuses, Finish, repository
  <1>2. CASE ReadRefForValidation \/ CheckPull \/ FinishValidate \/ ReadPull \/ ReadRefForRollback
             \/ FinishRollback \/ enqueue_rollback
    BY <1>2 DEF ReadRefForValidation, CheckPull, FinishValidate, ReadPull, ReadRefForRollback,
                FinishRollback, enqueue_rollback, Reads, Refuses, Finish, repository
  <1>3. CASE CreateRef \/ CreatePull \/ ClosePull \/ DeleteRef
    BY <1>3 DEF CreateRef, CreatePull, ClosePull, DeleteRef, Reads, Refuses, At, repository
  <1>4. CASE FaultStep
    BY <1>4 DEF FaultStep, ProviderUnavailable, AnswerLost, StepRaises, WorkerDies, At, repository
  <1>5. CASE HumanStep
    <2>1. acts' # acts
      <3>1. acts' = acts + 1
        BY <1>5 DEF HumanStep, PushBase, PushBranch, AmendBranch, DeleteBranch, OpenOwnPull, ChangePull,
                    SetPull, ProviderDenies, disconnect_installation, connect_authorized_repository, Human
      <3> QED BY <3>1 DEF AdapterInv, TypeOK
    <2>2. CASE PushBranch \/ AmendBranch
      <3>1. MoveBranch(Len(commits) + 1)
        BY <2>2 DEF PushBranch, AmendBranch
      <3>2. \E x : commits' = Append(commits, x)
        BY <2>2 DEF PushBranch, AmendBranch, NewCommit
      <3>3. Len(commits') = Len(commits) + 1
        BY <3>2 DEF AdapterInv, TypeOK
      <3> QED BY <2>1, <3>1, <3>3
    <2>3. CASE PushBase \/ DeleteBranch \/ OpenOwnPull \/ ProviderDenies \/ disconnect_installation
               \/ connect_authorized_repository
      BY <2>1, <2>3 DEF PushBase, DeleteBranch, OpenOwnPull, ProviderDenies, disconnect_installation,
                        connect_authorized_repository, repository
    <2>4. ASSUME NEW n \in DOMAIN pulls, ChangePull(n) PROVE EditPull
      BY <2>4, EditedPull DEF AdapterInv
    <2> QED BY <1>5, <2>2, <2>3, <2>4 DEF HumanStep
  <1> QED BY <1>1, <1>2, <1>3, <1>4, <1>5 DEF Next, AdapterStep

\* A branch is created where there is none, and deleted by a rollback only.
THEOREM NothingIsForced == Spec => NeverForcePushes
  <1>1. AdapterInv /\ [Next]_vars =>
           [acts' = acts /\ branch # 0 /\ stage # "rollback" => branch' = branch]_vars
    <2> SUFFICES ASSUME AdapterInv, Next, acts' = acts, branch # 0, stage # "rollback"
                 PROVE  branch' = branch
      OBVIOUS
    <2>1. worker.pc # "undo_delete"
      BY DEF AdapterInv, WorkerInv, UndoPcs
    <2> QED BY <2>1, RepositorySteps DEF RefIsCreated, OpenPull, PullIsClosed, EditPull
  <1> QED BY <1>1, AdapterInvariance, PTL DEF Spec, NeverForcePushes
-----------------------------------------------------------------------------
\* The pull request of a row exists; a rollback works on the record.  Heads
\* exist, and what is open has its branch.
PullsInv ==
    /\ \A n \in DOMAIN pulls : pulls[n].head \in 1..Len(commits)
    /\ branch = 0 => \A n \in DOMAIN pulls : pulls[n].state # "open"
    /\ record # NoRecord => record.pull \in DOMAIN pulls
    /\ worker.row # NoRecord => worker.row.pull \in DOMAIN pulls
    /\ worker.pc \in UndoPcs => worker.row = record

\* Nothing is left, and it cannot come back: the pull request is closed at a
\* commit that no branch will have again.
NothingLeft ==
    /\ pulls[record.pull].state # "open"
    /\ branch # record.commit
    /\ branch # 0 => branch # pulls[record.pull].head

RollbackInv ==
    /\ PullsInv
    /\ worker.pc = "undone" \/ stage = "rolled_back" => NothingLeft

LEMMA PullsNext ==
    ASSUME AdapterConstants, AdapterInv, PullsInv, Next
    PROVE  /\ \A n \in DOMAIN pulls : n \in DOMAIN pulls'
           /\ \A n \in DOMAIN pulls' : pulls'[n].head \in 1..Len(commits')
           /\ branch' = 0 => \A n \in DOMAIN pulls' : pulls'[n].state # "open"
  <1>0. /\ TypeOK
        /\ branch \in 0..Len(commits) /\ pulls \in Seq(Pull)
        /\ Len(commits) \in Nat /\ Len(commits') \in Nat /\ Len(commits') >= Len(commits)
    BY CommitsGrow DEF AdapterInv, TypeOK
  <1> USE <1>0
  <1>1. CASE UNCHANGED <<branch, pulls>>
    BY <1>1 DEF PullsInv
  <1>2. CASE worker.pc = "ref" /\ RefIsCreated
    BY <1>2, WorkerCommit DEF RefIsCreated, PullsInv
  <1>3. ASSUME NEW draft \in BOOLEAN, OpenPull(draft)
        PROVE  /\ \A n \in DOMAIN pulls : n \in DOMAIN pulls'
               /\ \A n \in DOMAIN pulls' : pulls'[n].head \in 1..Len(commits')
               /\ branch' # 0
    BY <1>3 DEF OpenPull, PullsInv
  <1>4. CASE PullIsClosed
    <2>1. DOMAIN pulls' = DOMAIN pulls /\ branch' = branch
      BY <1>4 DEF PullIsClosed
    <2>2. ASSUME NEW n \in DOMAIN pulls
          PROVE  pulls'[n].head = pulls[n].head /\ (pulls'[n].state = "open" => pulls[n].state = "open")
      <3>1. pulls[n] \in Pull
        BY PullsOf
      <3> QED BY <1>4, <3>1 DEF PullIsClosed, Pull
    <2> QED BY <2>1, <2>2 DEF PullsInv
  <1>5. CASE RefIsDeleted
    <2>1. DOMAIN pulls' = DOMAIN pulls
      BY <1>5 DEF RefIsDeleted, CloseAll
    <2>2. ASSUME NEW n \in DOMAIN pulls
          PROVE  pulls'[n].head = pulls[n].head /\ pulls'[n].state # "open"
      <3>1. pulls[n] \in Pull
        BY PullsOf
      <3> QED BY <1>5, <3>1 DEF RefIsDeleted, CloseAll, Pull
    <2> QED BY <2>1, <2>2 DEF PullsInv
  <1>6. CASE MoveBranch(Len(commits) + 1) /\ Len(commits') = Len(commits) + 1
    <2>1. DOMAIN pulls' = DOMAIN pulls /\ branch' # 0
      BY <1>6 DEF MoveBranch
    <2>2. ASSUME NEW n \in DOMAIN pulls
          PROVE  pulls'[n].head \in {pulls[n].head, Len(commits) + 1}
      <3>1. pulls[n] \in Pull
        BY PullsOf
      <3> QED BY <1>6, <3>1 DEF MoveBranch, Pull
    <2> QED BY <1>6, <2>1, <2>2 DEF PullsInv
  <1>7. CASE EditPull
    <2>1. PICK m \in DOMAIN pulls, to \in Pull :
             /\ pulls' = [pulls EXCEPT ![m] = to]
             /\ to.head = pulls[m].head
             /\ to.state = "open" => pulls[m].state = "open" \/ branch # 0
             /\ UNCHANGED branch
      BY <1>7 DEF EditPull
    <2>2. DOMAIN pulls' = DOMAIN pulls
      BY <2>1
    <2>3. ASSUME NEW n \in DOMAIN pulls
          PROVE  /\ pulls'[n].head = pulls[n].head
                 /\ branch = 0 /\ pulls'[n].state = "open" => pulls[n].state = "open"
      BY <2>1
    <2> QED BY <2>1, <2>2, <2>3 DEF PullsInv
  <1> QED BY <1>1, <1>2, <1>3, <1>4, <1>5, <1>6, <1>7, RepositorySteps

\* Where rows come from.
LEMMA RowSteps ==
    ASSUME AdapterInv, Next
    PROVE  /\ record' \in {record, worker.row} \/ (record' = RolledBack /\ worker.pc = "undone")
           /\ \/ worker'.row \in {NoRecord, worker.row, record}
              \/ worker.row # NoRecord /\ worker'.row.pull = worker.row.pull
              \/ worker'.row.pull \in DOMAIN pulls'
           /\ worker'.pc \in UndoPcs =>
                 /\ record' = record
                 /\ worker'.row = record \/ (worker'.row = worker.row /\ worker.pc \in UndoPcs)
  <1>0. worker \in Attempt /\ pulls \in Seq(Pull)
    BY DEF AdapterInv, TypeOK
  <1> DEFINE Goal == /\ record' \in {record, worker.row} \/ (record' = RolledBack /\ worker.pc = "undone")
                     /\ \/ worker'.row \in {NoRecord, worker.row, record}
                        \/ worker.row # NoRecord /\ worker'.row.pull = worker.row.pull
                        \/ worker'.row.pull \in DOMAIN pulls'
                     /\ worker'.pc \in UndoPcs =>
                           /\ record' = record
                           /\ worker'.row = record \/ (worker'.row = worker.row /\ worker.pc \in UndoPcs)
  <1>1. ASSUME worker' = Idle, record' \in {record, worker.row} \/ (record' = RolledBack /\ worker.pc = "undone")
        PROVE  Goal
    BY <1>1 DEF Idle, UndoPcs
  <1>2. ASSUME NEW pc, worker' = [Idle EXCEPT !.pc = pc, !.row = record], record' = record PROVE Goal
    BY <1>2 DEF Idle
  <1>3. ASSUME worker'.row = worker.row, record' = record, worker'.pc \in UndoPcs => worker.pc \in UndoPcs
        PROVE  Goal
    BY <1>3
  <1>4. ASSUME NEW n \in DOMAIN pulls', worker' = Recorded(n), record' = record PROVE Goal
    BY <1>0, <1>4 DEF Recorded, Attempt, UndoPcs
  <1>5. CASE StartAttempt
    BY <1>2, <1>5 DEF StartAttempt, Begin, queue
  <1>6. CASE ContextRefused \/ PlanRefused \/ ProviderDenies \/ ProviderUnavailable \/ AnswerLost \/ WorkerDies
             \/ FinishExecute
    BY <1>1, <1>6 DEF ContextRefused, PlanRefused, ProviderDenies, ProviderUnavailable, AnswerLost, WorkerDies,
                      FinishExecute, Refuses, Fail, Finish, queue
  <1>7. CASE StepRaises \/ FinishRollback
    BY <1>1, <1>7 DEF StepRaises, FinishRollback, At
  <1>8. CASE CaptureBefore \/ CheckBase \/ ReadBranch \/ CreateRef \/ ReadRacedRef
    BY <1>0, <1>1, <1>3, <1>8 DEF CaptureBefore, CheckBase, ReadBranch, CreateRef, ReadRacedRef, Refuses, Fail,
                                  Reads, queue, Attempt, UndoPcs
  <1>9. CASE FindPull
    <2>1. CASE worker' = [worker EXCEPT !.pc = "pull"] /\ UNCHANGED queue
      BY <1>0, <1>3, <2>1 DEF Attempt, UndoPcs, queue
    <2>2. ASSUME NEW n \in OpenPulls, worker' = Recorded(n), UNCHANGED <<queue, repository>> PROVE Goal
      BY <1>4, <2>2 DEF OpenPulls, queue, repository
    <2>3. CASE Refuses
      BY <1>1, <2>3 DEF Refuses, Fail
    <2> QED BY <1>9, <2>1, <2>2, <2>3 DEF FindPull, Reads
  <1>10. CASE CreatePull
    <2>1. CASE OpenPull(TRUE) /\ worker' = Recorded(Len(pulls) + 1) /\ UNCHANGED queue
      <3>1. Len(pulls) + 1 \in DOMAIN pulls'
        BY <1>0, <2>1 DEF OpenPull
      <3> QED BY <1>4, <2>1, <3>1 DEF queue
    <2>2. CASE Refuses
      BY <1>1, <2>2 DEF Refuses, Fail
    <2> QED BY <1>10, <2>1, <2>2 DEF CreatePull
  <1>11. CASE ReadRefForValidation
    BY <1>0, <1>3, <1>11 DEF ReadRefForValidation, Reads, Attempt, UndoPcs, queue
  <1>12. CASE CheckPull
    <2>1. PICK status : worker' = [worker EXCEPT !.pc = "val_after", !.row.status = status] /\ UNCHANGED queue
      BY <1>12 DEF CheckPull, Reads
    <2>2. worker'.pc = "val_after" /\ worker'.row.pull = worker.row.pull
      BY <1>0, <2>1 DEF Attempt, GitHubExecution
    <2>3. worker.row # NoRecord
      BY <1>12 DEF CheckPull, At, AdapterInv, WorkerInv, ValidatePcs
    <2> QED BY <2>1, <2>2, <2>3 DEF queue, UndoPcs
  <1>13. CASE FinishValidate
    BY <1>1, <1>13 DEF FinishValidate, Finish, Refuses, Fail
  <1>14. CASE ReadPull \/ ClosePull \/ ReadRefForRollback \/ DeleteRef
    <2>1. worker.pc \in UndoPcs
      BY <1>14 DEF ReadPull, ClosePull, ReadRefForRollback, DeleteRef, InContext, At, UndoPcs
    <2>2. CASE Refuses
      BY <1>1, <2>2 DEF Refuses, Fail
    <2>3. ASSUME NEW pc, worker' = [worker EXCEPT !.pc = pc], UNCHANGED queue PROVE Goal
      BY <1>0, <1>3, <2>1, <2>3 DEF Attempt, queue
    <2> QED BY <1>14, <2>2, <2>3 DEF ReadPull, ClosePull, ReadRefForRollback, DeleteRef, Reads
  <1>15. CASE enqueue_rollback \/ (HumanStep /\ ~ProviderDenies)
    BY <1>3, <1>15 DEF enqueue_rollback, HumanStep, PushBase, PushBranch, AmendBranch, DeleteBranch, OpenOwnPull,
                       ChangePull, SetPull, disconnect_installation, connect_authorized_repository, queue
  <1> QED BY <1>5, <1>6, <1>7, <1>8, <1>9, <1>10, <1>11, <1>12, <1>13, <1>14, <1>15
       DEF Next, AdapterStep, FaultStep, HumanStep

LEMMA PullsInvNext ==
    ASSUME AdapterConstants, AdapterInv, PullsInv, Next
    PROVE  PullsInv'
  <1>1. worker.pc = "undone" => RolledBack.pull = worker.row.pull /\ worker.row # NoRecord
    BY DEF RolledBack, AdapterInv, TypeOK, Attempt, GitHubExecution, WorkerInv, UndoPcs
  <1>2. record' # NoRecord => record'.pull \in DOMAIN pulls'
    BY <1>1, RowSteps, PullsNext DEF PullsInv
  <1>3. worker'.row # NoRecord => worker'.row.pull \in DOMAIN pulls'
    BY RowSteps, PullsNext DEF PullsInv
  <1>4. worker'.pc \in UndoPcs => worker'.row = record'
    BY RowSteps DEF PullsInv
  <1> QED BY <1>2, <1>3, <1>4, PullsNext DEF PullsInv

\* A rollback gets to its end by finding or leaving no branch, and stays there.
LEMMA UndoneSteps ==
    ASSUME AdapterInv, PullsInv, Next, worker'.pc = "undone" \/ stage' = "rolled_back"
    PROVE  /\ record'.pull = record.pull /\ record'.commit = record.commit
           /\ \/ worker.pc = "undone" \/ stage = "rolled_back"
              \/ worker.pc \in UndoPcs /\ branch' = 0
  <1> DEFINE Goal == /\ record'.pull = record.pull /\ record'.commit = record.commit
                     /\ \/ worker.pc = "undone" \/ stage = "rolled_back"
                        \/ worker.pc \in UndoPcs /\ branch' = 0
  <1>0. worker \in Attempt /\ (worker.pc # "idle" => stage \in JobTypes)
    BY DEF AdapterInv, TypeOK, Attempt, Pcs, WorkerInv, JobTypes, ExecutePcs, ValidatePcs, UndoPcs
  <1>1. ASSUME UNCHANGED queue, worker' \in {worker, Idle} PROVE Goal
    BY <1>1 DEF queue, Idle
  <1>2. ASSUME worker.pc # "idle", stage' \in {stage, "failed", "validate", "succeeded"}, worker' = Idle PROVE Goal
    BY <1>0, <1>2 DEF Idle, JobTypes
  <1>3. ASSUME worker.pc # "idle", Fail(TRUE) \/ Fail(FALSE) PROVE Goal
    BY <1>2, <1>3 DEF Fail
  <1>4. ASSUME worker.pc # "idle", UNCHANGED queue, worker'.pc # "undone" PROVE Goal
    BY <1>0, <1>4 DEF queue, JobTypes
  <1>5. CASE StartAttempt \/ enqueue_rollback
    BY <1>5 DEF StartAttempt, Begin, enqueue_rollback, Idle, JobTypes, queue
  <1>6. CASE ContextRefused \/ PlanRefused \/ ProviderDenies \/ ProviderUnavailable \/ AnswerLost
    BY <1>3, <1>6 DEF ContextRefused, NeedsContext, PlanRefused, ProviderDenies, ProviderUnavailable, Calling,
                      AnswerLost, At, Refuses
  <1>7. CASE FinishExecute \/ FinishValidate
    BY <1>2, <1>3, <1>7 DEF FinishExecute, FinishValidate, InContext, At, Finish, Refuses
  <1>8. CASE CaptureBefore \/ CheckBase \/ ReadBranch \/ CreateRef \/ ReadRacedRef
    BY <1>0, <1>3, <1>4, <1>8 DEF CaptureBefore, CheckBase, ReadBranch, CreateRef, ReadRacedRef, InContext, At,
                                  Refuses, Reads, Attempt
  <1>9. CASE FindPull \/ CreatePull
    BY <1>0, <1>3, <1>4, <1>9 DEF FindPull, CreatePull, Recorded, At, Refuses, Reads, Attempt
  <1>10. CASE ReadRefForValidation \/ CheckPull \/ ReadPull \/ ClosePull
    BY <1>0, <1>3, <1>4, <1>10 DEF ReadRefForValidation, CheckPull, ReadPull, ClosePull, InContext, At, Refuses,
                                   Reads, Attempt
  <1>11. CASE ReadRefForRollback
    <2>1. CASE branch = 0 /\ Reads([worker EXCEPT !.pc = "undone"])
      BY <1>11, <2>1 DEF ReadRefForRollback, At, Reads, UndoPcs, queue, repository
    <2> QED BY <1>0, <1>3, <1>4, <1>11, <2>1 DEF ReadRefForRollback, At, Reads, Refuses, Attempt
  <1>12. CASE DeleteRef
    <2>1. CASE RefIsDeleted /\ UNCHANGED queue
      BY <1>12, <2>1 DEF DeleteRef, RefIsDeleted, At, UndoPcs, queue
    <2> QED BY <1>3, <1>12, <2>1 DEF DeleteRef, At, Refuses
  <1>13. CASE FinishRollback \/ StepRaises
    <2>1. CASE worker.pc = "undone"
      <3>1. worker.row = record /\ record \in GitHubExecution
        BY <2>1 DEF PullsInv, UndoPcs, AdapterInv, TypeOK
      <3>2. RolledBack.pull = record.pull /\ RolledBack.commit = record.commit
        BY <3>1 DEF RolledBack, GitHubExecution
      <3> QED BY <1>13, <2>1, <3>1, <3>2 DEF FinishRollback, StepRaises
    <2>2. CASE worker.pc = "applied"
      BY <1>2, <1>13, <2>2 DEF FinishRollback, StepRaises, At
    <2> QED BY <1>13, <2>1, <2>2 DEF FinishRollback, StepRaises, At
  <1>14. CASE WorkerDies \/ (HumanStep /\ ~ProviderDenies)
    BY <1>1, <1>14 DEF WorkerDies, HumanStep, PushBase, PushBranch, AmendBranch, DeleteBranch, OpenOwnPull,
                       ChangePull, SetPull, disconnect_installation, connect_authorized_repository
  <1> QED BY <1>5, <1>6, <1>7, <1>8, <1>9, <1>10, <1>11, <1>12, <1>13, <1>14
       DEF Next, AdapterStep, FaultStep, HumanStep

\* What is left of nothing is nothing: commits are new, and a closed pull
\* request is reopened only while its branch is where it was.
LEMMA NothingComesBack ==
    ASSUME AdapterInv, PullsInv, Next, NothingLeft, record # NoRecord, worker.pc # "ref"
    PROVE  /\ pulls'[record.pull].state # "open"
           /\ branch' # record.commit
           /\ branch' # 0 => branch' # pulls'[record.pull].head
  <1>0. /\ record.commit \in 1..Len(commits)
        /\ record.pull \in DOMAIN pulls
        /\ pulls[record.pull] \in Pull
        /\ pulls[record.pull].head \in 1..Len(commits)
        /\ pulls \in Seq(Pull)
        /\ Len(commits) \in Nat
    BY PullsOf DEF AdapterInv, QueueInv, GovernedRow, OnBase, PullsInv, TypeOK
  <1>1. CASE UNCHANGED <<branch, pulls>>
    BY <1>1 DEF NothingLeft
  <1>2. ASSUME NEW draft \in BOOLEAN, OpenPull(draft)
        PROVE  pulls'[record.pull] = pulls[record.pull] /\ branch' = branch
    BY <1>0, <1>2 DEF OpenPull
  <1>3. CASE PullIsClosed
    BY <1>0, <1>3 DEF PullIsClosed, NothingLeft, Pull
  <1>4. CASE RefIsDeleted
    BY <1>0, <1>4 DEF RefIsDeleted, CloseAll, NothingLeft, Pull
  <1>5. CASE MoveBranch(Len(commits) + 1)
    <2>1. branch' = Len(commits) + 1 /\ pulls'[record.pull] = pulls[record.pull]
      BY <1>0, <1>5 DEF MoveBranch, OpenPulls, NothingLeft, Pull
    <2> QED BY <1>0, <2>1 DEF NothingLeft
  <1>6. CASE EditPull
    <2>1. PICK n \in DOMAIN pulls, to \in Pull :
             /\ pulls' = [pulls EXCEPT ![n] = to]
             /\ to.head = pulls[n].head
             /\ to.state = "open" => pulls[n].state = "open" \/ (branch # 0 /\ branch = pulls[n].head)
             /\ UNCHANGED branch
      BY <1>6 DEF EditPull
    <2> QED BY <1>0, <2>1 DEF NothingLeft
  <1> QED BY <1>1, <1>2, <1>3, <1>4, <1>5, <1>6, RepositorySteps DEF NothingLeft

LEMMA RollbackInvNext ==
    ASSUME AdapterConstants, AdapterInv, RollbackInv, [Next]_vars
    PROVE  RollbackInv'
  <1>1. CASE UNCHANGED vars
    BY <1>1 DEF RollbackInv, PullsInv, NothingLeft, vars, queue, repository
  <1>2. CASE Next
    <2>1. PullsInv'
      BY <1>2, PullsInvNext DEF RollbackInv
    <2>2. ASSUME worker'.pc = "undone" \/ stage' = "rolled_back"
          PROVE  NothingLeft'
      <3>1. /\ record'.pull = record.pull /\ record'.commit = record.commit
            /\ \/ worker.pc = "undone" \/ stage = "rolled_back"
               \/ worker.pc \in UndoPcs /\ branch' = 0
        BY <1>2, <2>2, UndoneSteps DEF RollbackInv
      <3>2. record # NoRecord
        BY <3>1 DEF AdapterInv, WorkerInv, QueueInv, UndoPcs
      <3>3. CASE worker.pc = "undone" \/ stage = "rolled_back"
        <4>1. NothingLeft /\ worker.pc # "ref"
          BY <3>3 DEF RollbackInv, AdapterInv, WorkerInv, ExecutePcs
        <4> QED BY <1>2, <3>1, <3>2, <4>1, NothingComesBack DEF RollbackInv, NothingLeft
      <3>4. CASE branch' = 0
        <4>1. record.commit \in 1..Len(commits) /\ Len(commits) \in Nat
          BY <3>2 DEF AdapterInv, QueueInv, GovernedRow, OnBase, TypeOK
        <4>2. record.pull \in DOMAIN pulls'
          BY <1>2, <3>2, PullsNext DEF RollbackInv, PullsInv
        <4> QED BY <2>1, <3>1, <3>4, <4>1, <4>2 DEF NothingLeft, PullsInv
      <3> QED BY <3>1, <3>3, <3>4
    <2> QED BY <2>1, <2>2 DEF RollbackInv
  <1> QED BY <1>1, <1>2

\* The rollback looks at the branch after it has closed the pull request, and
\* deleting the branch closes what was reopened in between; afterwards neither
\* can come back, because pushes make new commits.
THEOREM RollbacksLeaveNothing == Spec => []RollbackLeavesNothing
  <1>1. Init => RollbackInv
    BY DEF Init, RollbackInv, PullsInv, Idle, UndoPcs
  <1>2. AdapterInv /\ RollbackInv /\ [Next]_vars => RollbackInv'
    BY AdapterConstants, RollbackInvNext
  <1>3. RollbackInv => RollbackLeavesNothing
    BY DEF RollbackInv, NothingLeft, RollbackLeavesNothing
  <1> QED BY <1>1, <1>2, <1>3, AdapterInvariance, PTL DEF Spec
-----------------------------------------------------------------------------
\* As long as nobody else touches the repository.

\* What the record of a job and the repository say of each other: the branch of
\* a row is at its commit and its pull request open until a rollback begins.
Carried(st, row, b, ps) ==
    row # NoRecord =>
        /\ st \in {"execute", "validate", "succeeded"} => ps[row.pull].state = "open" /\ b = row.commit
        /\ st = "rollback" => b \in {0, row.commit}

\* GitHub holds what the attempts have made, and nothing else.
OwnRepository ==
    /\ connected
    /\ base = 1
    /\ branch # 0 => OnBase(commits, branch, 1)
    /\ \A n \in DOMAIN pulls :
          /\ pulls[n].draft /\ pulls[n].state # "merged"
          /\ pulls[n].state = "open" => branch # 0 /\ pulls[n].head = branch

\* What an attempt has read is still so.
OwnAttempt ==
    /\ worker.pc # "raced"
    /\ worker.pc \in {"apply", "branch", "ref", "find", "pull"} => worker.base = 1
    /\ worker.pc = "ref" => branch = 0
    /\ worker.pc \in {"find", "pull"} => branch = worker.commit
    /\ worker.pc = "pull" => OpenPulls = {}
    /\ worker.pc = "val_pull" => worker.seen = branch
    /\ worker.pc = "val_after" => worker.row.status = "validated"
    /\ worker.pc = "undo_delete" => branch # 0

\* Each attempt that has ended without success has cost a fault.
FaultsCounted ==
    /\ attempts <= faults
    /\ stage = "failed" => faults >= MaxAttempts

OwnRows == Carried(stage, record, branch, pulls) /\ Carried(stage, worker.row, branch, pulls)

UndisturbedInv == acts = 0 => OwnRepository /\ OwnAttempt /\ OwnRows /\ FaultsCounted

\* Without people only the attempt changes the repository.
LEMMA NobodyElse ==
    ASSUME AdapterInv, Next, acts' = acts
    PROVE  /\ ~HumanStep /\ base' = base /\ connected' = connected
           /\ \/ UNCHANGED <<branch, pulls>>
              \/ worker.pc = "ref" /\ RefIsCreated
              \/ worker.pc = "pull" /\ OpenPull(TRUE)
              \/ worker.pc = "undo_close" /\ PullIsClosed
              \/ worker.pc = "undo_delete" /\ RefIsDeleted
  <1>1. ~HumanStep
    <2>1. HumanStep => acts' = acts + 1
      BY DEF HumanStep, PushBase, PushBranch, AmendBranch, DeleteBranch, OpenOwnPull, ChangePull,
             SetPull, ProviderDenies, disconnect_installation, connect_authorized_repository, Human
    <2> QED BY <2>1 DEF AdapterInv, TypeOK
  <1>2. CASE StartAttempt \/ ContextRefused \/ CaptureBefore \/ PlanRefused \/ CheckBase \/ ReadBranch
             \/ ReadRacedRef \/ FindPull \/ FinishExecute
    BY <1>1, <1>2 DEF StartAttempt, Begin, ContextRefused, CaptureBefore, PlanRefused, CheckBase, ReadBranch,
                ReadRacedRef, FindPull, FinishExecute, Reads, Refuses, Finish, repository
  <1>3. CASE ReadRefForValidation \/ CheckPull \/ FinishValidate \/ ReadPull \/ ReadRefForRollback
             \/ FinishRollback \/ enqueue_rollback
    BY <1>1, <1>3 DEF ReadRefForValidation, CheckPull, FinishValidate, ReadPull, ReadRefForRollback,
                FinishRollback, enqueue_rollback, Reads, Refuses, Finish, repository
  <1>4. CASE CreateRef \/ CreatePull \/ ClosePull \/ DeleteRef
    BY <1>1, <1>4 DEF CreateRef, CreatePull, ClosePull, DeleteRef, Reads, Refuses, At, repository
  <1>5. CASE FaultStep
    BY <1>1, <1>5 DEF FaultStep, ProviderUnavailable, AnswerLost, StepRaises, WorkerDies, At, repository
  <1> QED BY <1>1, <1>2, <1>3, <1>4, <1>5 DEF Next, AdapterStep

LEMMA OwnRepositoryNext ==
    ASSUME AdapterConstants, AdapterInv, PullsInv, OwnRepository, OwnAttempt, Next, acts' = acts
    PROVE  OwnRepository'
  <1>0. /\ TypeOK
        /\ branch \in 0..Len(commits) /\ pulls \in Seq(Pull) /\ Len(commits) \in Nat
    BY DEF AdapterInv, TypeOK
  <1>1. connected' /\ base' = 1
    BY NobodyElse DEF OwnRepository
  <1>2. branch # 0 => OnBase(commits', branch, 1)
    BY CommitsStay, <1>0 DEF OwnRepository
  <1>3. CASE UNCHANGED <<branch, pulls>>
    BY <1>1, <1>2, <1>3 DEF OwnRepository
  <1>4. CASE worker.pc = "ref" /\ RefIsCreated
    <2>1. OnBase(commits', worker.commit, 1)
      BY <1>0, <1>4, CommitsStay DEF AdapterInv, WorkerInv, OwnAttempt
    <2>2. \A n \in DOMAIN pulls : pulls[n].state # "open"
      BY <1>4 DEF RefIsCreated, PullsInv
    <2> QED BY <1>1, <1>4, <2>1, <2>2 DEF OwnRepository, RefIsCreated
  <1>5. CASE OpenPull(TRUE)
    <2>1. DOMAIN pulls' = 1..(Len(pulls) + 1) /\ branch' = branch /\ branch # 0
      BY <1>0, <1>5 DEF OpenPull
    <2>2. ASSUME NEW n \in DOMAIN pulls'
          PROVE  /\ pulls'[n].draft /\ pulls'[n].state # "merged"
                 /\ pulls'[n].state = "open" => pulls'[n].head = branch
      <3>1. CASE n = Len(pulls) + 1
        BY <1>0, <1>5, <3>1 DEF OpenPull
      <3>2. CASE n \in DOMAIN pulls
        BY <1>0, <1>5, <3>2 DEF OpenPull, OwnRepository
      <3> QED BY <1>0, <2>1, <3>1, <3>2
    <2> QED BY <1>1, <1>2, <2>1, <2>2 DEF OwnRepository
  <1>6. CASE PullIsClosed
    <2>1. DOMAIN pulls' = DOMAIN pulls /\ branch' = branch
      BY <1>6 DEF PullIsClosed
    <2>2. ASSUME NEW n \in DOMAIN pulls
          PROVE  /\ pulls'[n].draft = pulls[n].draft /\ pulls'[n].head = pulls[n].head
                 /\ pulls'[n].state = pulls[n].state \/ pulls'[n].state = "closed"
      <3>1. pulls[n] \in Pull
        BY <1>0, PullsOf
      <3> QED BY <1>6, <3>1 DEF PullIsClosed, Pull
    <2> QED BY <1>1, <1>2, <2>1, <2>2 DEF OwnRepository
  <1>7. CASE RefIsDeleted
    <2>1. DOMAIN pulls' = DOMAIN pulls /\ branch' = 0
      BY <1>7 DEF RefIsDeleted, CloseAll
    <2>2. ASSUME NEW n \in DOMAIN pulls
          PROVE  /\ pulls'[n].draft = pulls[n].draft
                 /\ pulls'[n].state # "open" /\ (pulls'[n].state = "merged" => pulls[n].state = "merged")
      <3>1. pulls[n] \in Pull
        BY <1>0, PullsOf
      <3> QED BY <1>7, <3>1 DEF RefIsDeleted, CloseAll, Pull
    <2> QED BY <1>1, <2>1, <2>2 DEF OwnRepository
  <1> QED BY <1>3, <1>4, <1>5, <1>6, <1>7, NobodyElse

\* Only a rollback touches what a row is about.
LEMMA CarriedStays ==
    ASSUME AdapterConstants, AdapterInv, PullsInv, Next, acts' = acts,
           NEW row \in {record, worker.row}, Carried(stage, row, branch, pulls)
    PROVE  Carried(stage, row, branch', pulls')
  <1> SUFFICES ASSUME row # NoRecord
               PROVE  Carried(stage, row, branch', pulls')
    BY DEF Carried
  <1>0. /\ row.commit \in 1..Len(commits) /\ row.pull \in DOMAIN pulls
        /\ pulls \in Seq(Pull)
    BY DEF AdapterInv, QueueInv, WorkerInv, GovernedRow, OnBase, PullsInv, TypeOK
  <1>1. CASE UNCHANGED <<branch, pulls>>
    BY <1>1 DEF Carried
  <1>2. CASE worker.pc = "ref" /\ RefIsCreated
    BY <1>0, <1>2 DEF RefIsCreated, Carried, AdapterInv, WorkerInv, ExecutePcs
  <1>3. CASE OpenPull(TRUE)
    BY <1>0, <1>3 DEF OpenPull, Carried
  <1>4. CASE worker.pc \in {"undo_close", "undo_delete"} /\ branch' \in {branch, 0}
    BY <1>4 DEF Carried, AdapterInv, WorkerInv, UndoPcs
  <1> QED BY <1>1, <1>2, <1>3, <1>4, NobodyElse DEF PullIsClosed, RefIsDeleted

\* No step of an undisturbed attempt finds anything to refuse.
LEMMA NothingIsRefused ==
    ASSUME AdapterInv, PullsInv, OwnRepository, OwnAttempt, OwnRows
    PROVE  /\ ~ContextRefused /\ ~PlanRefused /\ ~ReadRacedRef
           /\ At("apply") => base = worker.base
           /\ At("branch") /\ branch # 0 => Adoptable(branch)
           /\ At("ref") => branch = 0
           /\ At("find") => \A n \in OpenPulls : pulls[n].draft
           /\ At("pull") => branch # 0 /\ \A n \in DOMAIN pulls : pulls[n].state \notin {"open", "merged"}
           /\ At("val_pull") => ChecksPass
           /\ At("val_after") => worker.row.status = "validated"
           /\ worker.pc \in UndoPcs => pulls[record.pull].state # "merged" /\ branch \in {0, record.commit}
           /\ At("undo_delete") => branch # 0
  <1>1. ~ContextRefused /\ ~PlanRefused /\ ~ReadRacedRef
    BY DEF ContextRefused, PlanRefused, ReadRacedRef, OwnRepository, OwnAttempt, At
  <1>2. At("apply") => base = worker.base
    BY DEF OwnRepository, OwnAttempt, At
  <1>3. At("branch") /\ branch # 0 => Adoptable(branch)
    BY DEF OwnRepository, OwnAttempt, At, OnBase, Adoptable
  <1>4. At("find") => \A n \in OpenPulls : pulls[n].draft
    BY DEF OwnRepository, OpenPulls
  <1>5. At("pull") => branch # 0 /\ \A n \in DOMAIN pulls : pulls[n].state \notin {"open", "merged"}
    BY DEF At, OwnRepository, OwnAttempt, OpenPulls, AdapterInv, WorkerInv, OnBase
  <1>6. At("val_pull") => ChecksPass
    <2> SUFFICES ASSUME At("val_pull") PROVE ChecksPass
      OBVIOUS
    <2>1. stage = "validate" /\ record # NoRecord
      BY DEF At, AdapterInv, WorkerInv, QueueInv, ValidatePcs
    <2>2. record.pull \in DOMAIN pulls /\ pulls[record.pull].state = "open" /\ branch = record.commit
      BY <2>1 DEF PullsInv, OwnRows, Carried
    <2> QED BY <2>2 DEF At, ChecksPass, OwnRepository, OwnAttempt
  <1>7. worker.pc \in UndoPcs => pulls[record.pull].state # "merged" /\ branch \in {0, record.commit}
    BY DEF AdapterInv, WorkerInv, QueueInv, PullsInv, OwnRepository, OwnRows, Carried
  <1>8. At("ref") => branch = 0
    BY DEF At, OwnAttempt
  <1>9. At("val_after") => worker.row.status = "validated"
    BY DEF At, OwnAttempt
  <1>10. At("undo_delete") => branch # 0
    BY DEF At, OwnAttempt
  <1> QED BY <1>1, <1>2, <1>3, <1>4, <1>5, <1>6, <1>7, <1>8, <1>9, <1>10

\* Every step keeps what an undisturbed attempt relies on: the attempt goes on
\* with what it has read, ends as its job should, or fails at the cost of a
\* fault.
LEMMA UndisturbedSteps ==
    ASSUME AdapterConstants, AdapterInv, PullsInv, OwnRepository, OwnAttempt, OwnRows, FaultsCounted,
           Next, acts' = acts
    PROVE  OwnAttempt' /\ OwnRows' /\ FaultsCounted'
  <1> DEFINE Kept(row) == Carried(stage, row, branch', pulls')
             Goal == OwnAttempt' /\ OwnRows' /\ FaultsCounted'
  <1>0. /\ worker \in Attempt /\ worker.row \in GitHubExecution /\ pulls \in Seq(Pull)
        /\ attempts \in Nat /\ faults \in Nat /\ MaxAttempts \in Nat \ {0}
    BY DEF AdapterInv, TypeOK, Attempt, AdapterConstants
  <1>1. Kept(record) /\ Kept(worker.row) /\ Kept(NoRecord)
    BY CarriedStays DEF OwnRows, Carried
  <1>2. /\ worker.pc \in ExecutePcs => stage = "execute"
        /\ worker.pc \in ValidatePcs => stage = "validate"
        /\ worker.pc \in UndoPcs => stage = "rollback" /\ worker.row = record /\ record # NoRecord
    BY DEF AdapterInv, WorkerInv, QueueInv, PullsInv
  <1>3. worker.pc \in UndoPcs => Kept(RolledBack)
    BY <1>0, <1>1, <1>2 DEF RolledBack, Carried, GitHubExecution
  <1> SUFFICES Goal
    OBVIOUS
  <1> HIDE DEF Goal
  <1>4. ASSUME worker' = Idle, stage' \in {stage, "failed"}, Kept(record'),
               attempts' \in {attempts, attempts + 1}, faults' = faults + 1,
               (attempts' # attempts /\ attempts + 1 >= MaxAttempts) \/ stage' = stage
        PROVE  Goal
    <2>1. OwnAttempt' /\ Carried(stage', worker'.row, branch', pulls')
      BY <1>4 DEF OwnAttempt, Idle, Carried
    <2>2. Carried(stage', record', branch', pulls')
      BY <1>4 DEF Carried
    <2>3. FaultsCounted'
      BY <1>0, <1>4 DEF FaultsCounted
    <2> QED BY <2>1, <2>2, <2>3 DEF OwnRows, Goal
  <1>5. ASSUME Fail(TRUE), faults' = faults + 1 PROVE Goal
    <2>1. CASE attempts + 1 < MaxAttempts
      BY <1>1, <1>4, <1>5, <2>1 DEF Fail
    <2>2. CASE ~(attempts + 1 < MaxAttempts)
      BY <1>0, <1>1, <1>4, <1>5, <2>2 DEF Fail
    <2> QED BY <2>1, <2>2
  <1>6. ASSUME NEW st, worker' = Idle, stage' = st, attempts' = 0, faults' = faults,
               record' \in {worker.row, RolledBack},
               \/ st = "validate" /\ stage = "execute" /\ record' = worker.row
               \/ st = "succeeded" /\ stage = "validate" /\ record' = worker.row
               \/ st = "rolled_back"
        PROVE  Goal
    <2>1. OwnAttempt' /\ Carried(stage', worker'.row, branch', pulls')
      BY <1>6 DEF OwnAttempt, Idle, Carried
    <2>2. Carried(stage', record', branch', pulls')
      BY <1>1, <1>6 DEF Carried
    <2>3. FaultsCounted'
      BY <1>0, <1>6 DEF FaultsCounted
    <2> QED BY <2>1, <2>2, <2>3 DEF OwnRows, Goal
  <1>7. ASSUME UNCHANGED <<queue, faults>>, Kept(worker'.row), OwnAttempt' PROVE Goal
    BY <1>1, <1>7 DEF OwnRows, FaultsCounted, queue, Goal
  <1>8. ASSUME NEW pc, worker' = [worker EXCEPT !.pc = pc], UNCHANGED <<queue, faults>>, OwnAttempt'
        PROVE  Goal
    BY <1>0, <1>1, <1>7, <1>8 DEF Attempt
  <1>9. CASE StartAttempt
    <2>1. PICK pc \in {"capture", "val_ref", "undo"} : Begin(pc)
      BY <1>9 DEF StartAttempt
    <2>2. worker'.pc = pc /\ worker'.row = record /\ UNCHANGED <<queue, faults>>
      BY <2>1 DEF Begin, Idle
    <2> QED BY <1>1, <1>7, <2>2 DEF OwnAttempt
  <1>10. CASE CaptureBefore \/ ReadRefForValidation
    <2>1. CASE CaptureBefore
      <3>1. worker'.pc = "apply" /\ worker'.base = 1 /\ worker'.row = worker.row /\ UNCHANGED <<queue, faults>>
        BY <1>0, <2>1 DEF CaptureBefore, Reads, Attempt, OwnRepository
      <3> QED BY <1>1, <1>7, <3>1 DEF OwnAttempt
    <2>2. CASE ReadRefForValidation
      <3>1. /\ worker'.pc = "val_pull" /\ worker'.seen = branch /\ worker'.row = worker.row
            /\ UNCHANGED <<queue, faults, branch>>
        BY <1>0, <2>2 DEF ReadRefForValidation, Reads, Attempt, repository
      <3> QED BY <1>1, <1>7, <3>1 DEF OwnAttempt
    <2> QED BY <1>10, <2>1, <2>2
  <1>11. CASE CheckBase
    <2>1. PICK pc \in {"applied", "branch"} :
             worker.pc = "apply" /\ Reads([worker EXCEPT !.pc = pc])
      BY <1>11, NothingIsRefused DEF CheckBase, InContext, At
    <2>2. worker'.pc = pc /\ worker'.base = 1
      BY <1>0, <2>1 DEF Reads, Attempt, OwnAttempt
    <2> QED BY <1>8, <2>1, <2>2 DEF Reads, OwnAttempt
  <1>12. CASE ReadBranch
    <2>1. CASE branch # 0
      <3>1. Reads([worker EXCEPT !.pc = "find", !.commit = branch]) /\ worker.pc = "branch"
        BY <1>12, <2>1, NothingIsRefused DEF ReadBranch, At
      <3>2. /\ worker'.pc = "find" /\ worker'.base = 1 /\ worker'.commit = branch' /\ worker'.row = worker.row
            /\ UNCHANGED <<queue, faults>>
        BY <1>0, <3>1 DEF Reads, Attempt, OwnAttempt, repository
      <3> QED BY <1>1, <1>7, <3>2 DEF OwnAttempt
    <2>2. CASE branch = 0
      <3>1. worker' = [worker EXCEPT !.pc = "ref", !.commit = Len(commits) + 1] /\ worker.pc = "branch"
        BY <1>12, <2>2 DEF ReadBranch, At
      <3>2. /\ worker'.pc = "ref" /\ worker'.base = 1 /\ worker'.row = worker.row
            /\ UNCHANGED <<queue, faults>> /\ branch' = 0
        BY <1>0, <1>12, <2>2, <3>1 DEF ReadBranch, Attempt, OwnAttempt
      <3> QED BY <1>1, <1>7, <3>2 DEF OwnAttempt
    <2> QED BY <2>1, <2>2
  <1>13. CASE CreateRef
    <2>1. RefIsCreated /\ worker' = [worker EXCEPT !.pc = "find"] /\ UNCHANGED <<queue, faults>> /\ worker.pc = "ref"
      BY <1>13, NothingIsRefused DEF CreateRef, At
    <2>2. worker'.pc = "find" /\ worker'.base = 1 /\ worker'.commit = branch'
      BY <1>0, <2>1 DEF RefIsCreated, Attempt, OwnAttempt
    <2> QED BY <1>8, <2>1, <2>2 DEF OwnAttempt
  <1>14. ASSUME NEW n \in DOMAIN pulls', worker' = Recorded(n), UNCHANGED <<queue, faults>>,
                pulls'[n].state = "open", branch' = worker.commit
         PROVE  Goal
    <2>1. worker'.pc = "applied" /\ worker'.row.pull = n /\ worker'.row.commit = worker.commit
      BY <1>0, <1>14 DEF Recorded, Attempt
    <2>2. stage # "rollback" => Kept(worker'.row)
      BY <1>14, <2>1 DEF Carried
    <2>3. OwnAttempt'
      BY <2>1 DEF OwnAttempt
    <2>4. Kept(worker'.row)
      BY <1>14, <2>1 DEF Carried
    <2> QED BY <1>7, <1>14, <2>3, <2>4
  <1>15. CASE FindPull
    <2>0. worker.pc = "find" /\ branch = worker.commit /\ worker.base = 1
      BY <1>15 DEF FindPull, At, OwnAttempt
    <2>1. CASE OpenPulls = {} /\ Reads([worker EXCEPT !.pc = "pull"])
      <3>1. /\ worker'.pc = "pull" /\ worker'.base = 1 /\ worker'.commit = branch' /\ pulls' = pulls
        BY <1>0, <2>0, <2>1 DEF Reads, Attempt, repository
      <3> QED BY <1>8, <2>1, <3>1 DEF Reads, OwnAttempt, OpenPulls
    <2>2. ASSUME NEW n \in OpenPulls, Reads(Recorded(n)) PROVE Goal
      BY <1>14, <2>0, <2>2 DEF OpenPulls, Reads, repository
    <2> QED BY <1>15, <2>1, <2>2, NothingIsRefused DEF FindPull, At
  <1>16. CASE CreatePull
    <2>1. /\ OpenPull(TRUE) /\ worker' = Recorded(Len(pulls) + 1) /\ UNCHANGED <<queue, faults>>
          /\ branch = worker.commit
      BY <1>16, NothingIsRefused DEF CreatePull, At, OwnAttempt
    <2>2. /\ Len(pulls) + 1 \in DOMAIN pulls' /\ pulls'[Len(pulls) + 1].state = "open"
          /\ branch' = worker.commit
      BY <1>0, <2>1 DEF OpenPull
    <2> QED BY <1>14, <2>1, <2>2
  <1>17. CASE CheckPull
    <2>1. Reads([worker EXCEPT !.pc = "val_after", !.row.status = "validated"]) /\ worker.pc = "val_pull"
      BY <1>17, NothingIsRefused DEF CheckPull, At
    <2>2. /\ worker'.pc = "val_after" /\ worker'.row.status = "validated"
          /\ worker'.row.pull = worker.row.pull /\ worker'.row.commit = worker.row.commit
      BY <1>0, <2>1 DEF Reads, Attempt, GitHubExecution
    <2>3. worker.row # NoRecord
      BY <2>1 DEF AdapterInv, WorkerInv, ValidatePcs
    <2>4. Kept(worker'.row)
      BY <1>1, <2>2, <2>3 DEF Carried
    <2>5. OwnAttempt'
      BY <2>2 DEF OwnAttempt
    <2> QED BY <1>7, <2>1, <2>4, <2>5 DEF Reads
  <1>18. CASE FinishExecute
    BY <1>2, <1>6, <1>18 DEF FinishExecute, Finish, At, ExecutePcs
  <1>19. CASE FinishValidate
    BY <1>2, <1>6, <1>19, NothingIsRefused DEF FinishValidate, Finish, InContext, At, ValidatePcs
  <1>20. CASE FinishRollback
    BY <1>6, <1>20 DEF FinishRollback
  <1>21. CASE ReadPull \/ ClosePull \/ ReadRefForRollback \/ DeleteRef
    <2>0. worker.pc \in UndoPcs
      BY <1>21 DEF ReadPull, ClosePull, ReadRefForRollback, DeleteRef, InContext, At, UndoPcs
    <2>1. PICK pc \in {"undo_close", "undo_ref", "undo_delete", "undone"} :
             /\ worker' = [worker EXCEPT !.pc = pc] /\ UNCHANGED <<queue, faults>>
             /\ pc = "undo_delete" => branch' # 0
      BY <1>21, <2>0, NothingIsRefused
         DEF ReadPull, ClosePull, ReadRefForRollback, DeleteRef, Reads, At, repository
    <2>2. worker'.pc = pc
      BY <1>0, <2>1 DEF Attempt
    <2> QED BY <1>8, <2>1, <2>2 DEF OwnAttempt
  <1>22. CASE ProviderUnavailable \/ AnswerLost
    BY <1>5, <1>22 DEF ProviderUnavailable, AnswerLost, Fault
  <1>23. CASE StepRaises
    <2>1. record' \in {worker.row, RolledBack} /\ (record' # worker.row => worker.pc \in UndoPcs)
      BY <1>23 DEF StepRaises, At, UndoPcs
    <2>2. Kept(record')
      BY <1>1, <1>3, <2>1
    <2>3. worker' = Idle /\ faults' = faults + 1 /\ attempts' = attempts + 1 /\ attempts' # attempts
      BY <1>0, <1>23 DEF StepRaises, Fault
    <2>4. stage' = IF attempts + 1 < MaxAttempts THEN stage ELSE "failed"
      BY <1>23 DEF StepRaises
    <2> QED BY <1>0, <1>4, <2>2, <2>3, <2>4
  <1>24. CASE WorkerDies
    BY <1>1, <1>4, <1>24 DEF WorkerDies, Fault, queue
  <1>25. CASE enqueue_rollback
    <2>1. stage' = "rollback" /\ stage = "succeeded" /\ attempts' = 0 /\ faults' = faults /\ record' = record
          /\ worker' = worker /\ branch' = branch /\ pulls' = pulls
      BY <1>25 DEF enqueue_rollback, repository
    <2>2. OwnRows'
      BY <2>1 DEF OwnRows, Carried
    <2>3. OwnAttempt'
      BY <2>1 DEF OwnAttempt, OpenPulls
    <2>4. FaultsCounted'
      BY <1>0, <2>1 DEF FaultsCounted
    <2> QED BY <2>2, <2>3, <2>4 DEF Goal
  <1>26. ~HumanStep /\ ~ContextRefused /\ ~PlanRefused /\ ~ReadRacedRef
    BY NobodyElse, NothingIsRefused
  <1> QED BY <1>9, <1>10, <1>11, <1>12, <1>13, <1>15, <1>16, <1>17, <1>18, <1>19, <1>20, <1>21, <1>22, <1>23, <1>24,
       <1>25, <1>26 DEF Next, AdapterStep, FaultStep

LEMMA UndisturbedInvNext ==
    ASSUME AdapterConstants, AdapterInv, PullsInv, UndisturbedInv, [Next]_vars
    PROVE  UndisturbedInv'
  <1> SUFFICES ASSUME acts' = 0
               PROVE  OwnRepository' /\ OwnAttempt' /\ OwnRows' /\ FaultsCounted'
    BY DEF UndisturbedInv
  <1>1. CASE UNCHANGED vars
    BY <1>1 DEF UndisturbedInv, OwnRepository, OwnAttempt, OwnRows, FaultsCounted, Carried, OnBase, OpenPulls,
                vars, queue, repository
  <1>2. CASE Next
    <2>1. acts = 0
      <3>1. acts \in Nat
        BY DEF AdapterInv, TypeOK
      <3>2. HumanStep => acts' = acts + 1
        BY DEF HumanStep, PushBase, PushBranch, AmendBranch, DeleteBranch, OpenOwnPull, ChangePull, SetPull,
               ProviderDenies, disconnect_installation, connect_authorized_repository, Human
      <3>3. FaultStep \/ enqueue_rollback => acts' = acts
        BY DEF FaultStep, ProviderUnavailable, AnswerLost, StepRaises, WorkerDies, enqueue_rollback
      <3>4. AdapterStep => acts' = acts
        <4>1. CASE StartAttempt \/ ContextRefused \/ CaptureBefore \/ PlanRefused \/ CheckBase \/ ReadBranch
                   \/ CreateRef \/ ReadRacedRef \/ FindPull \/ CreatePull
          BY <4>1 DEF StartAttempt, Begin, ContextRefused, CaptureBefore, PlanRefused, CheckBase, ReadBranch,
                      CreateRef, ReadRacedRef, FindPull, CreatePull, Reads, Refuses
        <4>2. CASE FinishExecute \/ ReadRefForValidation \/ CheckPull \/ FinishValidate \/ ReadPull \/ ClosePull
                   \/ ReadRefForRollback \/ DeleteRef \/ FinishRollback
          BY <4>2 DEF FinishExecute, ReadRefForValidation, CheckPull, FinishValidate, ReadPull, ClosePull,
                      ReadRefForRollback, DeleteRef, FinishRollback, Reads, Refuses, Finish
        <4> QED BY <4>1, <4>2 DEF AdapterStep
      <3> QED BY <1>2, <3>1, <3>2, <3>3, <3>4 DEF Next
    <2> QED BY <1>2, <2>1, OwnRepositoryNext, UndisturbedSteps DEF UndisturbedInv
  <1> QED BY <1>1, <1>2

\* Replaying works: whatever a crash, an unavailable provider, a lost answer or
\* an error has left behind, the next attempt finds what it has made itself and
\* goes on with it, until the attempts run out.
THEOREM RetriesReuseTheirWork == Spec => []UndisturbedNeverFails
  <1>1. Init => PullsInv /\ UndisturbedInv
    BY AdapterConstants DEF Init, PullsInv, Idle, UndoPcs, NoRecord, UndisturbedInv, OwnRepository, OwnAttempt,
                            OwnRows, FaultsCounted, Carried
  <1>2. AdapterInv /\ PullsInv /\ UndisturbedInv /\ [Next]_vars => PullsInv' /\ UndisturbedInv'
    <2>1. AdapterInv /\ PullsInv /\ UndisturbedInv /\ [Next]_vars => UndisturbedInv'
      BY AdapterConstants, UndisturbedInvNext
    <2>2. AdapterInv /\ PullsInv /\ [Next]_vars => PullsInv'
      BY AdapterConstants, PullsInvNext DEF PullsInv, vars, queue, repository
    <2> QED BY <2>1, <2>2
  <1>3. AdapterInv /\ UndisturbedInv => UndisturbedNeverFails
    BY AdapterConstants DEF AdapterInv, TypeOK, UndisturbedInv, FaultsCounted, UndisturbedNeverFails
  <1> QED BY <1>1, <1>2, <1>3, AdapterInvariance, PTL DEF Spec

-----------------------------------------------------------------------------
(*****************************************************************************)
(* AgentRuns.                                                                *)
(*****************************************************************************)

RunStatuses == {"crawling", "running", "completed", "failed"}
RunRows == [site : RunSites, status : RunStatuses, link : 0..MaxCrawls, owner : Nat, leased : BOOLEAN]
CrawlRows == [site : RunSites, status : {"active", "completed", "failed"}]
Reconciling(w) == w.pc = "reconcile"
Analysing(w) == w.pc \in {"analyse", "report"}

\* What an analyst does: it has locked the rows that it has chosen and decided
\* about some of them, or it analyses the runs that it owns.
IsWork(w) ==
    \/ w = AtRest
    \/ /\ Reconciling(w) /\ w.rows \subseteq Runs
       /\ w.decided = [r \in DOMAIN w.decided |-> w.decided[r]]
       /\ DOMAIN w.decided \subseteq w.rows /\ \A r \in DOMAIN w.decided : w.decided[r] \in {"failed", "running"}
       /\ w = [pc |-> w.pc, rows |-> w.rows, decided |-> w.decided]
    \/ /\ Analysing(w) /\ DOMAIN w.owners # {} /\ DOMAIN w.owners \subseteq Runs
       /\ w.owners = [r \in DOMAIN w.owners |-> w.owners[r]]
       /\ \A r \in DOMAIN w.owners : w.owners[r] \in Nat
       /\ w = [pc |-> w.pc, owners |-> w.owners]

IsStarter(w) ==
    \/ w = AtRest
    \/ w.pc = "start" /\ w.site \in RunSites /\ w.active \subseteq Crawls
    \/ w.pc = "link" /\ w.run \in Runs /\ w.crawl \in Crawls

RunTypes ==
    /\ run \in [Runs -> RunRows \cup {NoRun}]
    /\ crawl \in [Crawls -> CrawlRows \cup {NoCrawl}]
    /\ IsStarter(starter)
    /\ scheduled \in 0..MaxRuns
    /\ pagesRetried \in BOOLEAN /\ resumedMeanwhile \in BOOLEAN /\ leasedMeanwhile \in BOOLEAN
AnalystTypes ==
    /\ DOMAIN analyst = Analysts /\ analyst = [a \in Analysts |-> analyst[a]]
    /\ \A a \in Analysts : IsWork(analyst[a])
AgentTypes == RunTypes /\ AnalystTypes


\* Links name crawls that exist, and so does a request that has yet to link.
Linked(r) == run[r] # NoRun /\ run[r].link # Unlinked
CrawlOf(r) == crawl[run[r].link]
StarterKnowsCrawls ==
    /\ starter.pc = "start" => \A c \in starter.active : crawl[c] # NoCrawl
    /\ starter.pc = "link" => crawl[starter.crawl] # NoCrawl
LinksNameCrawls ==
    /\ \A r \in Runs : Linked(r) => CrawlOf(r) # NoCrawl
    /\ StarterKnowsCrawls

\* The run of a request that has yet to link it and the one of the schedule have
\* no crawl, so that no reconciliation decides about them.
FreshRuns ==
    /\ starter.pc = "link" =>
          run[starter.run] # NoRun /\ run[starter.run].status = "crawling" /\ run[starter.run].link = Unlinked
    /\ scheduled # 0 =>
          run[scheduled] # NoRun /\ run[scheduled].status = "running" /\ run[scheduled].link = Unlinked

\* A decision goes on to be right until it is committed: its run is active, its
\* crawl is over, and one to analyse has the pages of a completed crawl.
HasItsPages(r) == CrawlOf(r).status = "completed" \/ pagesRetried
IsOver(r) == CrawlOf(r).status # "active" \/ resumedMeanwhile \/ pagesRetried
DecisionStands(a) ==
    Reconciling(analyst[a]) => \A r \in DOMAIN analyst[a].decided :
        /\ Linked(r) /\ IsActive(r) /\ IsOver(r)
        /\ analyst[a].decided[r] = "running" => HasItsPages(r)
DecisionsStand == \A a \in Analysts : DecisionStands(a)

\* Two reconciliations at once have locked different rows (skip_locked).
LocksExclude ==
    \A a, b \in Analysts : a # b /\ Reconciling(analyst[a]) /\ Reconciling(analyst[b]) =>
        analyst[a].rows \cap analyst[b].rows = {}

\* What is analysed has been crawled.
AnalysisFollowsCrawl(a) ==
    Analysing(analyst[a]) => \A r \in DOMAIN analyst[a].owners : Linked(r) /\ HasItsPages(r)
AnalysesFollowCrawls == \A a \in Analysts : AnalysisFollowsCrawl(a)

Lost == leasedMeanwhile \/ pagesRetried

\* While no lease was lost: who still owns a run has one that is running, and so
\* it is at a report's commit; no two analysts have the same lease; a run that is
\* leased is not failed by a later reconciliation.
LeaseIsOwned(a) ==
    Analysing(analyst[a]) =>
        /\ \A r \in DOMAIN analyst[a].owners :
              /\ 1 <= analyst[a].owners[r] /\ analyst[a].owners[r] <= run[r].owner
              /\ analyst[a].owners[r] = run[r].owner => run[r].status = "running"
        /\ analyst[a].pc = "report" => analyst[a].owners[AtWork(a)] = run[AtWork(a)].owner
LeasesAreOwned == \A a \in Analysts : LeaseIsOwned(a)
OwnersDiffer ==
    \A a, b \in Analysts : a # b /\ Analysing(analyst[a]) /\ Analysing(analyst[b]) =>
        \A r \in Runs : r \in DOMAIN analyst[a].owners /\ r \in DOMAIN analyst[b].owners =>
            analyst[a].owners[r] # analyst[b].owners[r]
LeasedStayLeased ==
    \A a, b \in Analysts : Reconciling(analyst[a]) /\ Analysing(analyst[b]) =>
        \A r \in Runs : r \in DOMAIN analyst[a].decided /\ r \in DOMAIN analyst[b].owners =>
            analyst[a].decided[r] = "running"
Leases == LeasesAreOwned /\ OwnersDiffer /\ LeasedStayLeased

AgentInv ==
    /\ AgentTypes /\ LinksNameCrawls /\ FreshRuns /\ DecisionsStand /\ LocksExclude
    /\ AnalysesFollowCrawls /\ FailedRunsWaitForNothing
    /\ ~Lost => Leases
AgentSpec == AgentInit /\ [][AgentNext]_agentVars

-----------------------------------------------------------------------------
LEMMA AgentNumbers == MaxRuns \in Nat /\ MaxCrawls \in Nat
  BY AgentConstants

\* The first of some numbers is one of them.
LEMMA FirstIsOne ==
    ASSUME NEW S, S # {}, S \subseteq Nat PROVE First(S) \in S
<1>1. PICK r \in S : \A o \in S : ~(<<o, r>> \in OpToRel(<, Nat))
  BY WFMin, NatLessThanWellFounded, Zenon
<1>2. \A o \in S : r <= o
  <2> SUFFICES ASSUME NEW o \in S PROVE r <= o
    OBVIOUS
  <2>1. ~(<<o, r>> \in OpToRel(<, Nat)) /\ o \in Nat /\ r \in Nat
    BY <1>1
  <2> QED BY <2>1 DEF OpToRel
<1> QED BY <1>2 DEF First

LEMMA AnalysisIs ==
    ASSUME NEW w, IsWork(w), Analysing(w)
    PROVE  /\ DOMAIN w.owners # {} /\ DOMAIN w.owners \subseteq Runs
           /\ w.owners = [r \in DOMAIN w.owners |-> w.owners[r]]
           /\ \A r \in DOMAIN w.owners : w.owners[r] \in Nat
           /\ w = [pc |-> w.pc, owners |-> w.owners]
           /\ ~Reconciling(w)
  BY DEF IsWork, Analysing, Reconciling, AtRest

LEMMA ReconciliationIs ==
    ASSUME NEW w, IsWork(w), Reconciling(w)
    PROVE  /\ w.rows \subseteq Runs
           /\ DOMAIN w.decided \subseteq w.rows
           /\ \A r \in DOMAIN w.decided : w.decided[r] \in {"failed", "running"}
           /\ ~Analysing(w)
  BY DEF IsWork, Analysing, Reconciling, AtRest

LEMMA AtWorkIsOwned ==
    ASSUME NEW a, IsWork(analyst[a]), Analysing(analyst[a])
    PROVE  AtWork(a) \in DOMAIN analyst[a].owners /\ AtWork(a) \in Runs
  BY FirstIsOne, AgentNumbers DEF AtWork, IsWork, Analysing, Reconciling, AtRest, Runs

LEMMA VacantIsFirst ==
    ASSUME NEW f, NEW N \in Nat, DOMAIN f = 1..N, NEW None, Vacant(f, None) # {}
    PROVE  First(Vacant(f, None)) \in 1..N /\ f[First(Vacant(f, None))] = None
<1>1. Vacant(f, None) \subseteq 1..N
  BY DEF Vacant
<1>2. First(Vacant(f, None)) \in Vacant(f, None)
  BY <1>1, FirstIsOne
<1> QED BY <1>1, <1>2 DEF Vacant

\* An absent run is neither active nor ended, and a linked one is neither absent.
LEMMA RowsOfRuns ==
    ASSUME RunTypes, NEW r \in Runs
    PROVE  /\ run[r].status = "absent" <=> run[r] = NoRun
           /\ run[r] # NoRun => run[r] \in RunRows
           /\ IsActive(r) => run[r] # NoRun
           /\ RunHasEnded(r) => run[r] # NoRun
           /\ Linked(r) => run[r].link \in Crawls
  BY AgentNumbers DEF RunTypes, RunRows, RunStatuses, NoRun, IsActive, RunHasEnded, Linked, Unlinked, Crawls

LEMMA RowsOfCrawls ==
    ASSUME RunTypes, NEW c \in Crawls
    PROVE  /\ crawl[c].status = "absent" <=> crawl[c] = NoCrawl
           /\ crawl[c] # NoCrawl => crawl[c] \in CrawlRows
  BY DEF RunTypes, CrawlRows, NoCrawl


\* What a report and a reconciliation make of the row of a run.
Reported(w, end, o, r) == IF r = w THEN [run[r] EXCEPT !.status = end, !.owner = o] ELSE run[r]
LEMMA ReportIs ==
    ASSUME NEW a \in Analysts, CommitReport(a), RunTypes
    PROVE  /\ \E end, w, o :
                 /\ end \in {"completed", "failed"}
                 /\ w = AtWork(a) /\ o = analyst[a].owners[w]
                 /\ \A r \in Runs : run'[r] = Reported(w, end, o, r)
           /\ run' = [r \in Runs |-> run'[r]]
<1>1. PICK w : w = AtWork(a)
  OBVIOUS
<1>2. PICK o : o = analyst[a].owners[w]
  OBVIOUS
<1>3. PICK end \in {"completed", "failed"} : run' = [run EXCEPT ![w].status = end, ![w].owner = o]
  BY <1>1, <1>2 DEF CommitReport
<1>4. DOMAIN run = Runs
  BY DEF RunTypes
<1>5. run' = [r \in Runs |-> IF r = w THEN [run[r] EXCEPT !.status = end, !.owner = o] ELSE run[r]]
  BY <1>3, <1>4
<1>6. \A r \in Runs : run'[r] = Reported(w, end, o, r)
  BY <1>5 DEF Reported
<1>7. run' = [r \in Runs |-> run'[r]]
  BY <1>5
<1> QED BY <1>1, <1>2, <1>6, <1>7

Settled(a, n, r) ==
    IF r \notin DOMAIN analyst[a].decided THEN run[r]
    ELSE IF analyst[a].decided[r] = "running"
    THEN [run[r] EXCEPT !.status = "running", !.owner = n, !.leased = TRUE]
    ELSE [run[r] EXCEPT !.status = "failed"]
LEMMA DecisionsAre ==
    ASSUME NEW a \in Analysts, CommitDecisions(a)
    PROVE  /\ \A r \in Runs : \E n : n = run[r].owner + 1 /\ run'[r] = Settled(a, n, r)
           /\ run' = [r \in Runs |-> run'[r]]
<1> DEFINE w == analyst[a]
           taken == {r \in DOMAIN w.decided : w.decided[r] = "running"}
<1>1. run' = [r \in Runs |->
          IF r \notin DOMAIN w.decided THEN run[r]
          ELSE IF r \in taken THEN [run[r] EXCEPT !.status = "running", !.owner = @ + 1, !.leased = TRUE]
          ELSE [run[r] EXCEPT !.status = "failed"]]
  BY Zenon DEF CommitDecisions
<1> QED BY <1>1 DEF Settled

-----------------------------------------------------------------------------
\* The rows that a step writes have their types.
LEMMA RunTypesStep ==
    ASSUME AgentInv, AgentNext PROVE RunTypes'
<1> USE AgentNumbers DEF AgentInv, AgentTypes
<1> USE DEF RunTypes, RunRows, CrawlRows, RunStatuses
<1> DEFINE vr == First(Vacant(run, NoRun))
           vc == First(Vacant(crawl, NoCrawl))
<1>v. Vacant(run, NoRun) # {} => vr \in Runs
  BY VacantIsFirst DEF Runs
<1>w. Vacant(crawl, NoCrawl) # {} => vc \in Crawls
  BY VacantIsFirst DEF Crawls
<1>x. ASSUME NEW a \in Analysts, Analysing(analyst[a])
      PROVE  AtWork(a) \in DOMAIN analyst[a].owners /\ AtWork(a) \in Runs
  BY <1>x, AtWorkIsOwned DEF AnalystTypes
<1>1. ASSUME NEW s \in RunSites, start_agent_run(s) PROVE RunTypes'
  BY <1>1 DEF start_agent_run, jobVars, ActiveCrawls, IsStarter, AtRest
<1>2. ASSUME NEW s \in RunSites, scheduled_agent_run(s) PROVE RunTypes'
  BY <1>2, <1>v DEF scheduled_agent_run, jobVars, NewRun, Unlinked, Runs
<1>3. CASE CommitRun
  <2>1. vr \in Runs /\ Vacant(run, NoRun) # {}
    BY <1>3, <1>v DEF CommitRun
  <2> DEFINE found == IF starter.active # {} THEN starter.active ELSE ActiveCrawls(starter.site)
             sc == NewRun(starter.site, "crawling")
  <2>2. found \subseteq Crawls /\ starter.site \in RunSites
    BY <1>3 DEF CommitRun, IsStarter, AtRest, ActiveCrawls
  <2>3. found # {} => First(found) \in Crawls
    BY <2>2, FirstIsOne DEF Crawls
  <2>4. run' = [run EXCEPT ![vr] = sc] /\ sc \in RunRows
    BY <1>3, <2>2 DEF CommitRun, NewRun, Unlinked
  <2>5. run' \in [Runs -> RunRows \cup {NoRun}]
    BY <2>1, <2>4
  <2>6. CASE found # {}
    <3>1. starter' = [pc |-> "link", run |-> vr, crawl |-> First(found)] /\ crawl' = crawl
      BY <1>3, <2>6 DEF CommitRun
    <3> QED BY <1>3, <3>1, <2>1, <2>3, <2>5, <2>6 DEF CommitRun, IsStarter
  <2>7. CASE ~(found # {})
    <3>1. /\ starter' = [pc |-> "link", run |-> vr, crawl |-> vc]
          /\ crawl' = [crawl EXCEPT ![vc] = [site |-> starter.site, status |-> "active"]]
          /\ Vacant(crawl, NoCrawl) # {}
      BY <1>3, <2>7 DEF CommitRun
    <3> QED BY <1>3, <3>1, <2>1, <2>2, <1>w, <2>5 DEF CommitRun, IsStarter
  <2> QED BY <2>6, <2>7
<1>4. CASE LinkRun
  BY <1>4 DEF LinkRun, jobVars, IsStarter, AtRest, Crawls, NoRun, FreshRuns
<1>5. CASE StartFails
  BY <1>5 DEF StartFails, jobVars, IsStarter
<1>6. CASE ScheduledReport
  BY <1>6 DEF ScheduledReport, jobVars, FreshRuns, Runs
<1>7. CASE SchedulerStops
  BY <1>7 DEF SchedulerStops, jobVars
<1>8. ASSUME NEW c \in Crawls, CrawlEnds(c) PROVE RunTypes'
  BY <1>8, RowsOfCrawls DEF CrawlEnds
<1>9. ASSUME NEW c \in Crawls, ResumeCrawl(c) PROVE RunTypes'
  <2>1. Revived(c) \in [Runs -> RunRows \cup {NoRun}]
    BY DEF Revived, NoRun
  <2> QED BY <1>9, <2>1, RowsOfCrawls DEF ResumeCrawl
<1>10. ASSUME NEW c \in Crawls, RetryPages(c) PROVE RunTypes'
  BY <1>10, RowsOfCrawls DEF RetryPages
<1>11. ASSUME NEW a \in Analysts, reconcile_agent_runs(a) PROVE RunTypes'
  BY <1>11 DEF reconcile_agent_runs, jobVars
<1>12. ASSUME NEW a \in Analysts, CommitDecisions(a) PROVE RunTypes'
  <2>1. \A r \in Runs : r \in DOMAIN analyst[a].decided => run[r] # NoRun
    BY <1>12 DEF CommitDecisions, DecisionsStand, DecisionStands, Reconciling, Linked
  <2>2. \A r \in Runs : run'[r] \in RunRows \cup {NoRun}
    <3> SUFFICES ASSUME NEW r \in Runs PROVE run'[r] \in RunRows \cup {NoRun}
      OBVIOUS
    <3>1. run[r] \in RunRows \cup {NoRun}
      OBVIOUS
    <3>2. CASE r \notin DOMAIN analyst[a].decided
      BY <1>12, <3>1, <3>2, DecisionsAre DEF Settled
    <3>3. CASE r \in DOMAIN analyst[a].decided
      <4>1. run[r] \in RunRows
        BY <2>1, <3>1, <3>3
      <4>2. \/ run'[r] = [run[r] EXCEPT !.status = "running", !.owner = run[r].owner + 1, !.leased = TRUE]
            \/ run'[r] = [run[r] EXCEPT !.status = "failed"]
        BY <1>12, <3>3, DecisionsAre DEF Settled
      <4>3. PICK n : n = run[r].owner + 1
        OBVIOUS
      <4>4. n \in Nat
        BY <4>1, <4>3
      <4>5. [run[r] EXCEPT !.status = "running", !.owner = n, !.leased = TRUE] \in RunRows
        BY <4>1, <4>4
      <4>6. [run[r] EXCEPT !.status = "failed"] \in RunRows
        BY <4>1
      <4> QED BY <4>2, <4>3, <4>5, <4>6
    <3> QED BY <3>2, <3>3
  <2>3. run' = [r \in Runs |-> run'[r]]
    BY <1>12, DecisionsAre
  <2>4. run' \in [Runs -> RunRows \cup {NoRun}]
    BY <2>2, <2>3
  <2> QED BY <1>12, <2>4 DEF CommitDecisions, jobVars
<1>13. ASSUME NEW a \in Analysts, report_node(a) PROVE RunTypes'
  BY <1>13 DEF report_node, jobVars
<1>14. ASSUME NEW a \in Analysts, CommitReport(a) PROVE RunTypes'
  <2> DEFINE w == AtWork(a)
  <2>1. w \in DOMAIN analyst[a].owners /\ w \in Runs /\ Analysing(analyst[a])
    BY <1>14, <1>x DEF CommitReport, Analysing
  <2>2. run[w] # NoRun /\ analyst[a].owners[w] \in Nat
    BY <2>1, AnalysisIs DEF AnalysesFollowCrawls, AnalysisFollowsCrawl, Linked, AnalystTypes
  <2>4. PICK end, v, o :
            /\ end \in {"completed", "failed"}
            /\ v = AtWork(a) /\ o = analyst[a].owners[v]
            /\ \A r \in Runs : run'[r] = Reported(v, end, o, r)
    BY <1>14, ReportIs
  <2>3. run' \in [Runs -> RunRows \cup {NoRun}]
    <3>1. \A r \in Runs : run'[r] \in RunRows \cup {NoRun}
      <4> SUFFICES ASSUME NEW r \in Runs PROVE run'[r] \in RunRows \cup {NoRun}
        OBVIOUS
      <4>1. CASE r = w
        <5>1. run[r] \in RunRows
          BY <2>2, <4>1
        <5>2. run'[r] = [run[r] EXCEPT !.status = end, !.owner = o]
          BY <2>4, <4>1 DEF Reported
        <5> QED BY <2>2, <2>4, <4>1, <5>1, <5>2
      <4>2. CASE r # w
        BY <2>4, <4>2 DEF Reported
      <4> QED BY <4>1, <4>2
    <3> QED BY <1>14, <3>1, ReportIs
  <2> QED BY <1>14, <2>3 DEF CommitReport, jobVars
<1>15. ASSUME NEW a \in Analysts, AnalystStops(a) PROVE RunTypes'
  BY <1>15 DEF AnalystStops, jobVars
<1>16. ASSUME NEW r \in Runs, LeaseEnds(r) PROVE RunTypes'
  BY <1>16, RowsOfRuns DEF LeaseEnds, jobVars, NoRun
<1> QED BY <1>1, <1>2, <1>3, <1>4, <1>5, <1>6, <1>7, <1>8, <1>9, <1>10, <1>11, <1>12, <1>13, <1>14, <1>15, <1>16 DEF AgentNext

-----------------------------------------------------------------------------
\* What an analyst goes on with.
LEMMA GoesIs ==
    ASSUME AnalystTypes, NEW a \in Analysts, NEW state, Goes(a, state)
    PROVE  /\ analyst'[a] = state
           /\ \A b \in Analysts : b # a => analyst'[b] = analyst[b]
           /\ IsWork(state) => AnalystTypes'
<1>1. analyst' = [analyst EXCEPT ![a] = state]
  BY DEF Goes
<1>2. analyst'[a] = state /\ \A b \in Analysts : b # a => analyst'[b] = analyst[b]
  BY <1>1 DEF AnalystTypes
<1>3. analyst' = [b \in Analysts |-> analyst'[b]]
  BY <1>1 DEF AnalystTypes
<1>4. ASSUME IsWork(state), NEW b \in Analysts PROVE IsWork(analyst'[b])
  <2>1. CASE b = a
    BY <1>4, <1>2, <2>1
  <2>2. CASE b # a
    <3>1. analyst'[b] = analyst[b] /\ IsWork(analyst[b])
      BY <1>2, <2>2 DEF AnalystTypes
    <3> QED BY <3>1
  <2> QED BY <2>1, <2>2
<1>5. ASSUME IsWork(state) PROVE AnalystTypes'
  <2>1. DOMAIN analyst' = Analysts
    BY <1>3
  <2> QED BY <1>5, <1>3, <1>4, <2>1 DEF AnalystTypes
<1> QED BY <1>2, <1>5

LEMMA RestIs ==
    ASSUME NEW a, IsWork(analyst[a]), Analysing(analyst[a])
    PROVE  /\ IsWork(Rest(a))
           /\ \/ Rest(a) = AtRest
              \/ /\ Rest(a).pc = "analyse"
                 /\ DOMAIN Rest(a).owners = DOMAIN analyst[a].owners \ {AtWork(a)}
                 /\ \A r \in DOMAIN Rest(a).owners : Rest(a).owners[r] = analyst[a].owners[r]
<1> DEFINE left == DOMAIN analyst[a].owners \ {AtWork(a)}
           f == [r \in left |-> analyst[a].owners[r]]
<1>1. CASE left = {}
  BY <1>1 DEF Rest, IsWork
<1>2. CASE left # {}
  <2>1. Rest(a) = [pc |-> "analyse", owners |-> f]
    BY <1>2 DEF Rest
  <2>2. \A r \in left : r \in Runs /\ f[r] = analyst[a].owners[r] /\ f[r] \in Nat
    BY AnalysisIs
  <2>3. DOMAIN f = left
    OBVIOUS
  <2> HIDE DEF f
  <2>4. f = [r \in DOMAIN f |-> f[r]]
    BY DEF f
  <2> HIDE DEF left
  <2>5. IsWork(Rest(a))
    BY <1>2, <2>1, <2>2, <2>3, <2>4 DEF IsWork, Analysing
  <2> QED BY <2>1, <2>2, <2>3, <2>5 DEF left
<1> QED BY <1>1, <1>2

\* Runs that a reconciliation has chosen are active and locked by no other one.
LEMMA ChosenAreFree ==
    ASSUME NEW r \in Chosen PROVE r \in Runs /\ IsActive(r) /\ ~Locked(r)
  BY Zenon DEF Chosen

LEMMA ReconcileIs ==
    ASSUME NEW a \in Analysts, reconcile_agent_runs(a), AnalystTypes
    PROVE  /\ AnalystTypes'
           /\ analyst[a].pc = "idle"
           /\ analyst'[a].pc = "reconcile" /\ analyst'[a].rows = Chosen
           /\ DOMAIN analyst'[a].decided \subseteq Chosen
           /\ \A r \in DOMAIN analyst'[a].decided :
                 /\ IsDue(r)
                 /\ analyst'[a].decided[r] = "running" => CrawlOf(r).status = "completed"
                 /\ analyst'[a].decided[r] = "failed" => ~(CrawlOf(r).status = "completed" /\ run[r].owner # 0)
           /\ \A b \in Analysts : b # a => analyst'[b] = analyst[b]
<1> DEFINE due == {r \in Chosen : IsDue(r)}
<1>1. PICK d \in Decisions(due) : Goes(a, [pc |-> "reconcile", rows |-> Chosen, decided |-> d])
  BY Zenon DEF reconcile_agent_runs
<1>2. d \in [due -> {"failed", "running"}] /\ due \subseteq Chosen
  BY DEF Decisions
<1>3. ASSUME NEW r \in due
      PROVE  /\ CrawlOf(r).status = "failed" => d[r] = "failed"
             /\ CrawlOf(r).status = "completed" /\ run[r].owner # 0 => d[r] = "running"
  BY <1>3 DEF Decisions, CrawlOf
<1>4. \A r \in due : CrawlOf(r).status \in {"completed", "failed"} /\ IsDue(r)
  BY DEF IsDue, CrawlOf
<1>5. Chosen \subseteq Runs
  BY ChosenAreFree
<1> DEFINE w == [pc |-> "reconcile", rows |-> Chosen, decided |-> d]
<1>6. IsWork(w)
  <2>1. w.pc = "reconcile" /\ w.rows = Chosen /\ w.decided = d /\ DOMAIN d = due
    BY <1>2
  <2>2. d = [r \in due |-> d[r]]
    BY <1>2
  <2>3. \A r \in due : d[r] \in {"failed", "running"}
    BY <1>2
  <2> HIDE DEF due
  <2> QED BY <1>2, <1>5, <2>1, <2>2, <2>3 DEF IsWork, Reconciling
<1>7. analyst'[a] = w /\ AnalystTypes' /\ \A b \in Analysts : b # a => analyst'[b] = analyst[b]
  BY <1>1, <1>6, GoesIs
<1>8. analyst[a].pc = "idle"
  BY DEF reconcile_agent_runs
<1> HIDE DEF due
<1> QED BY <1>2, <1>3, <1>4, <1>7, <1>8

LEMMA CommitIs ==
    ASSUME NEW a \in Analysts, CommitDecisions(a), AnalystTypes, RunTypes, \A r \in DOMAIN analyst[a].decided : run[r] # NoRun
    PROVE  /\ AnalystTypes'
           /\ Reconciling(analyst[a])
           /\ \/ analyst'[a] = AtRest
              \/ /\ analyst'[a].pc = "analyse"
                 /\ DOMAIN analyst'[a].owners = {r \in DOMAIN analyst[a].decided : analyst[a].decided[r] = "running"}
                 /\ \A r \in DOMAIN analyst'[a].owners : analyst'[a].owners[r] = run[r].owner + 1
           /\ \A b \in Analysts : b # a => analyst'[b] = analyst[b]
<1> DEFINE taken == {r \in DOMAIN analyst[a].decided : analyst[a].decided[r] = "running"}
           f == [r \in taken |-> run[r].owner + 1]
<1>1. Goes(a, IF taken = {} THEN AtRest ELSE [pc |-> "analyse", owners |-> f])
  BY Zenon DEF CommitDecisions
<1>2. Reconciling(analyst[a])
  BY DEF CommitDecisions, Reconciling
<1>3. CASE taken = {}
  BY <1>1, <1>2, <1>3, GoesIs DEF IsWork
<1>4. CASE taken # {}
  <2>1. taken \subseteq Runs
    BY <1>2, ReconciliationIs DEF AnalystTypes
  <2>2. \A r \in taken : f[r] = run[r].owner + 1 /\ f[r] \in Nat
    <3> SUFFICES ASSUME NEW r \in taken PROVE f[r] \in Nat
      OBVIOUS
    <3>1. run[r] \in RunRows
      BY <2>1, RowsOfRuns
    <3> QED BY <3>1 DEF RunRows
  <2>3. DOMAIN f = taken /\ f = [r \in taken |-> f[r]]
    OBVIOUS
  <2> HIDE DEF f, taken
  <2>4. IsWork([pc |-> "analyse", owners |-> f])
    BY <1>4, <2>1, <2>2, <2>3 DEF IsWork, Analysing
  <2>5. /\ analyst'[a] = [pc |-> "analyse", owners |-> f] /\ AnalystTypes'
        /\ \A b \in Analysts : b # a => analyst'[b] = analyst[b]
    BY <1>1, <1>4, <2>4, GoesIs
  <2>6. analyst'[a].pc = "analyse" /\ analyst'[a].owners = f
    BY <2>5
  <2>7. DOMAIN analyst'[a].owners = taken /\ \A r \in DOMAIN analyst'[a].owners : analyst'[a].owners[r] = run[r].owner + 1
    BY <2>2, <2>3, <2>6
  <2> QED BY <1>2, <2>5, <2>6, <2>7 DEF taken
<1> QED BY <1>3, <1>4

LEMMA ReportNodeIs ==
    ASSUME NEW a \in Analysts, report_node(a), AnalystTypes
    PROVE  /\ AnalystTypes'
           /\ Analysing(analyst[a]) /\ IsWork(analyst[a])
           /\ \/ analyst'[a] = Rest(a)
              \/ /\ analyst'[a] = [pc |-> "report", owners |-> analyst[a].owners]
                 /\ run[AtWork(a)].owner = analyst[a].owners[AtWork(a)]
           /\ \A b \in Analysts : b # a => analyst'[b] = analyst[b]
<1> DEFINE w == [pc |-> "report", owners |-> analyst[a].owners]
<1>1. Analysing(analyst[a]) /\ IsWork(analyst[a])
  BY DEF report_node, Analysing, AnalystTypes
<1>2. [analyst[a] EXCEPT !.pc = "report"] = w
  <2>1. PICK o : o = analyst[a].owners
    OBVIOUS
  <2>2. PICK p : p = analyst[a].pc
    OBVIOUS
  <2>3. analyst[a] = [pc |-> p, owners |-> o]
    BY <1>1, <2>1, <2>2, AnalysisIs
  <2> QED BY <2>1, <2>3
<1>3. \/ Goes(a, Rest(a))
      \/ Goes(a, w) /\ run[AtWork(a)].owner = analyst[a].owners[AtWork(a)]
  BY <1>2 DEF report_node, MayReport
<1>4. IsWork(w)
  BY <1>1, AnalysisIs DEF IsWork, Analysing
<1>5. IsWork(Rest(a))
  BY <1>1, RestIs
<1> QED BY <1>1, <1>3, <1>4, <1>5, GoesIs

LEMMA CommitReportIs ==
    ASSUME NEW a \in Analysts, CommitReport(a), AnalystTypes
    PROVE  /\ AnalystTypes'
           /\ analyst[a].pc = "report" /\ Analysing(analyst[a]) /\ IsWork(analyst[a])
           /\ analyst'[a] = Rest(a)
           /\ \A b \in Analysts : b # a => analyst'[b] = analyst[b]
<1>1. analyst[a].pc = "report" /\ Analysing(analyst[a]) /\ IsWork(analyst[a]) /\ Goes(a, Rest(a))
  BY DEF CommitReport, Analysing, AnalystTypes
<1> QED BY <1>1, RestIs, GoesIs

LEMMA AnalystStopsIs ==
    ASSUME NEW a \in Analysts, AnalystStops(a), AnalystTypes
    PROVE  /\ AnalystTypes' /\ analyst'[a] = AtRest
           /\ \A b \in Analysts : b # a => analyst'[b] = analyst[b]
  BY GoesIs DEF AnalystStops, IsWork

-----------------------------------------------------------------------------
\* What every step keeps: a crawl that exists goes on to exist, and a completed
\* one stays completed unless its pages are retried; a link is never changed;
\* what was once noted of the past is not forgotten.
Steady ==
    /\ \A c \in Crawls : crawl[c] # NoCrawl => crawl'[c] # NoCrawl
    /\ \A c \in Crawls : crawl[c].status = "completed" => crawl'[c].status = "completed" \/ pagesRetried'
    /\ \A r \in Runs : Linked(r) => Linked(r)' /\ run'[r].link = run[r].link
    /\ \A r \in Runs : Linked(r)' =>
          Linked(r) \/ (LinkRun /\ r = starter.run /\ run'[r].link = starter.crawl)
    /\ (pagesRetried => pagesRetried') /\ (resumedMeanwhile => resumedMeanwhile')
    /\ (leasedMeanwhile => leasedMeanwhile')

\* A step that changes neither runs nor crawls.
LEMMA StillIsSteady ==
    ASSUME UNCHANGED <<run, crawl, pagesRetried, resumedMeanwhile, leasedMeanwhile>>
    PROVE  Steady
  BY DEF Steady, Linked

\* A step that rewrites one run or several, but not their links.
LEMMA RunsAreSteady ==
    ASSUME UNCHANGED <<crawl, pagesRetried, resumedMeanwhile>>, leasedMeanwhile => leasedMeanwhile',
           \A r \in Runs : \/ run'[r] = run[r]
                           \/ run[r] # NoRun /\ run'[r] # NoRun /\ run'[r].link = run[r].link
                           \/ run[r] = NoRun /\ run'[r].link = Unlinked
    PROVE  Steady
  BY DEF Steady, Linked

LEMMA CommitRunIs ==
    ASSUME AgentInv, CommitRun
    PROVE  /\ starter'.pc = "link" /\ starter'.run \in Runs /\ starter'.crawl \in Crawls
           /\ run[starter'.run] = NoRun /\ starter.site \in RunSites
           /\ run' = [run EXCEPT ![starter'.run] = NewRun(starter.site, "crawling")]
           /\ crawl'[starter'.crawl] # NoCrawl
           /\ \A c \in Crawls : crawl[c] # NoCrawl => crawl'[c] = crawl[c]
           /\ UNCHANGED <<scheduled, analyst, pagesRetried, resumedMeanwhile, leasedMeanwhile>>
<1> USE AgentNumbers DEF AgentInv, AgentTypes, RunTypes
<1> DEFINE vr == First(Vacant(run, NoRun))
           vc == First(Vacant(crawl, NoCrawl))
           found == IF starter.active # {} THEN starter.active ELSE ActiveCrawls(starter.site)
<1>1. vr \in Runs /\ run[vr] = NoRun
  BY VacantIsFirst DEF Runs, CommitRun
<1>2. starter.pc = "start" /\ starter.site \in RunSites /\ starter.active \subseteq Crawls
  BY DEF CommitRun, IsStarter, AtRest
<1>3. \A c \in found : c \in Crawls /\ crawl[c] # NoCrawl
  BY <1>2 DEF LinksNameCrawls, StarterKnowsCrawls, ActiveCrawls, NoCrawl
<1>4. run' = [run EXCEPT ![vr] = NewRun(starter.site, "crawling")]
  BY DEF CommitRun
<1>5. UNCHANGED <<scheduled, analyst, pagesRetried, resumedMeanwhile, leasedMeanwhile>>
  BY DEF CommitRun
<1>6. CASE found # {}
  <2>1. starter' = [pc |-> "link", run |-> vr, crawl |-> First(found)] /\ crawl' = crawl
    BY <1>6 DEF CommitRun
  <2>2. First(found) \in found
    BY <1>3, <1>6, FirstIsOne DEF Crawls
  <2> QED BY <1>1, <1>2, <1>3, <1>4, <1>5, <2>1, <2>2
<1>7. CASE ~(found # {})
  <2>1. /\ starter' = [pc |-> "link", run |-> vr, crawl |-> vc]
        /\ crawl' = [crawl EXCEPT ![vc] = [site |-> starter.site, status |-> "active"]]
        /\ Vacant(crawl, NoCrawl) # {}
    BY <1>7 DEF CommitRun
  <2>2. vc \in Crawls /\ crawl[vc] = NoCrawl
    BY <2>1, VacantIsFirst DEF Crawls
  <2>3. crawl'[vc] # NoCrawl
    BY <2>1, <2>2 DEF NoCrawl
  <2> QED BY <1>1, <1>2, <1>4, <1>5, <2>1, <2>2, <2>3
<1> QED BY <1>6, <1>7

LEMMA NotAbsent ==
    /\ \A row \in RunRows : row # NoRun
    /\ \A row : row.status # "absent" => row # NoRun
  BY DEF RunRows, RunStatuses, NoRun

\* The rows that a report and a reconciliation write.
ReportsRow(a, end) ==
    /\ run[AtWork(a)] # NoRun /\ run'[AtWork(a)] # NoRun
    /\ run'[AtWork(a)].status = end
    /\ run'[AtWork(a)].owner = analyst[a].owners[AtWork(a)]
    /\ run'[AtWork(a)].link = run[AtWork(a)].link
LEMMA ReportWrites ==
    ASSUME AgentInv, NEW a \in Analysts, CommitReport(a)
    PROVE  /\ \E end \in {"completed", "failed"} : ReportsRow(a, end)
           /\ \A r \in Runs : r # AtWork(a) => run'[r] = run[r]
<1> USE DEF AgentInv, AgentTypes
<1>1. PICK end, w, o :
          /\ end \in {"completed", "failed"}
          /\ w = AtWork(a) /\ o = analyst[a].owners[w]
          /\ \A r \in Runs : run'[r] = Reported(w, end, o, r)
  BY ReportIs
<1>2. w = AtWork(a) /\ o = analyst[a].owners[w]
  BY <1>1
<1>3. Analysing(analyst[a]) /\ w \in Runs /\ w \in DOMAIN analyst[a].owners
  BY <1>2, CommitReportIs, AtWorkIsOwned
<1>4. PICK row \in RunRows : row = run[w]
  BY <1>3, RowsOfRuns DEF AnalysesFollowCrawls, AnalysisFollowsCrawl, Linked
<1>6. o \in Nat
  BY <1>2, <1>3, AnalysisIs, CommitReportIs
<1>7. PICK next : next = run'[w]
  OBVIOUS
<1>8. next = [row EXCEPT !.status = end, !.owner = o]
  BY <1>1, <1>3, <1>4, <1>7 DEF Reported
<1>9. next.link = row.link /\ next.status = end /\ next.owner = o /\ next # NoRun /\ row # NoRun
  <2>1. end \in RunStatuses /\ end # "absent"
    BY <1>1 DEF RunStatuses
  <2>2. next.link = row.link /\ next.status = end /\ next.owner = o
    BY <1>6, <1>8, <2>1 DEF RunRows
  <2> QED BY <2>1, <2>2, NotAbsent
<1>10. \A r \in Runs : r # w => run'[r] = run[r]
  BY <1>1, <1>2 DEF Reported
<1>11. ReportsRow(a, end)
  BY <1>2, <1>4, <1>7, <1>9 DEF ReportsRow
<1> QED BY <1>1, <1>2, <1>10, <1>11

SettlesRow(a, r) ==
    /\ run[r] # NoRun /\ run'[r] # NoRun /\ run'[r].link = run[r].link
    /\ \/ /\ analyst[a].decided[r] = "running"
          /\ run'[r].status = "running" /\ run'[r].owner = run[r].owner + 1
       \/ /\ analyst[a].decided[r] = "failed"
          /\ run'[r].status = "failed" /\ run'[r].owner = run[r].owner
LEMMA DecisionsWrite ==
    ASSUME AgentInv, NEW a \in Analysts, CommitDecisions(a), NEW r \in Runs
    PROVE  IF r \in DOMAIN analyst[a].decided THEN SettlesRow(a, r) ELSE run'[r] = run[r]
<1> USE DEF AgentInv, AgentTypes
<1>1. CASE r \in DOMAIN analyst[a].decided
  <2>1. Reconciling(analyst[a])
    BY DEF CommitDecisions, Reconciling
  <2>2. PICK row \in RunRows : row = run[r]
    BY <1>1, <2>1, RowsOfRuns DEF DecisionsStand, DecisionStands, Linked
  <2>9. PICK n : n = run[r].owner + 1 /\ run'[r] = Settled(a, n, r)
    BY DecisionsAre
  <2>4. n \in Nat
    BY <2>2, <2>9 DEF RunRows
  <2>5. PICK next : next = run'[r]
    OBVIOUS
  <2>6. analyst[a].decided[r] \in {"failed", "running"}
    BY <1>1, <2>1, ReconciliationIs DEF AnalystTypes
  <2>7. CASE analyst[a].decided[r] = "running"
    <3>1. next = [row EXCEPT !.status = "running", !.owner = n, !.leased = TRUE]
      BY <1>1, <2>2, <2>5, <2>7, <2>9 DEF Settled
    <3>2. next.link = row.link /\ next.status = "running" /\ next.owner = n /\ next # NoRun /\ row # NoRun
      <4>1. next.link = row.link /\ next.status = "running" /\ next.owner = n
        BY <2>4, <3>1 DEF RunRows, RunStatuses
      <4> QED BY <4>1, NotAbsent
    <3> QED BY <1>1, <2>2, <2>9, <2>5, <2>7, <3>2 DEF SettlesRow
  <2>8. CASE analyst[a].decided[r] = "failed"
    <3>1. next = [row EXCEPT !.status = "failed"]
      BY <1>1, <2>2, <2>5, <2>8, <2>9 DEF Settled
    <3>2. next.link = row.link /\ next.status = "failed" /\ next.owner = row.owner /\ next # NoRun /\ row # NoRun
      BY <3>1 DEF RunRows, RunStatuses, NoRun
    <3> QED BY <1>1, <2>2, <2>5, <2>8, <3>2 DEF SettlesRow
  <2> QED BY <2>6, <2>7, <2>8
<1>2. CASE r \notin DOMAIN analyst[a].decided
  BY <1>2, DecisionsAre DEF Settled
<1> QED BY <1>1, <1>2

LEMMA StepIsSteady ==
    ASSUME AgentInv, AgentNext PROVE Steady
<1> USE DEF AgentInv, AgentTypes
<1>1. ASSUME NEW s \in RunSites, start_agent_run(s) PROVE Steady
  BY <1>1, StillIsSteady DEF start_agent_run, jobVars
<1>2. ASSUME NEW s \in RunSites, scheduled_agent_run(s) PROVE Steady
  <2>1. PICK v : v = First(Vacant(run, NoRun))
    OBVIOUS
  <2>2. v \in Runs /\ run[v] = NoRun
    BY <1>2, <2>1, AgentNumbers, VacantIsFirst DEF scheduled_agent_run, RunTypes, Runs
  <2>3. run' = [run EXCEPT ![v] = NewRun(s, "running")]
    BY <1>2, <2>1 DEF scheduled_agent_run
  <2> QED BY <1>2, <2>2, <2>3, RunsAreSteady DEF scheduled_agent_run, jobVars, RunTypes, NewRun
<1>3. CASE CommitRun
  <2>1. \A r \in Runs : Linked(r) => Linked(r)' /\ run'[r].link = run[r].link
    BY <1>3, CommitRunIs DEF Linked, RunTypes
  <2>2. \A r \in Runs : Linked(r)' => Linked(r)
    BY <1>3, CommitRunIs DEF Linked, RunTypes, NewRun
  <2>3. \A c \in Crawls : crawl[c].status = "completed" => crawl[c] # NoCrawl
    BY DEF NoCrawl
  <2> QED BY <1>3, <2>1, <2>2, <2>3, CommitRunIs DEF Steady
<1>4. CASE LinkRun
  <2>1. starter.run \in Runs /\ run[starter.run].link = Unlinked /\ run[starter.run] \in RunRows
    BY <1>4, RowsOfRuns DEF LinkRun, FreshRuns, RunTypes, IsStarter, AtRest
  <2>2. run' = [run EXCEPT ![starter.run].link = starter.crawl]
    BY <1>4 DEF LinkRun
  <2>3. \A r \in Runs : r # starter.run => run'[r] = run[r]
    BY <2>1, <2>2 DEF RunTypes
  <2>4. run'[starter.run].link = starter.crawl
    BY <2>1, <2>2 DEF RunTypes, RunRows
  <2>5. UNCHANGED <<crawl, pagesRetried, resumedMeanwhile, leasedMeanwhile>>
    BY <1>4 DEF LinkRun, jobVars
  <2> QED BY <1>4, <2>1, <2>3, <2>4, <2>5 DEF Steady, Linked
<1>5. CASE StartFails
  BY <1>5, StillIsSteady DEF StartFails, jobVars
<1>6. CASE ScheduledReport
  <2>1. scheduled \in Runs /\ run[scheduled] \in RunRows
    BY <1>6, RowsOfRuns, AgentNumbers DEF ScheduledReport, FreshRuns, RunTypes, Runs
  <2>2. PICK end \in {"completed", "failed"} : run' = [run EXCEPT ![scheduled].status = end]
    BY <1>6 DEF ScheduledReport
  <2>3. \A r \in Runs : r # scheduled => run'[r] = run[r]
    BY <2>1, <2>2 DEF RunTypes
  <2>4. run'[scheduled] = [run[scheduled] EXCEPT !.status = end]
    BY <2>1, <2>2 DEF RunTypes
  <2>5. run'[scheduled] # NoRun /\ run[scheduled] # NoRun /\ run'[scheduled].link = run[scheduled].link
    BY <2>1, <2>4 DEF RunRows, NoRun
  <2>6. UNCHANGED <<crawl, pagesRetried, resumedMeanwhile, leasedMeanwhile>>
    BY <1>6 DEF ScheduledReport, jobVars
  <2> QED BY <2>3, <2>5, <2>6, RunsAreSteady
<1>7. CASE SchedulerStops
  BY <1>7, StillIsSteady DEF SchedulerStops, jobVars
<1>8. ASSUME NEW c \in Crawls, CrawlEnds(c) PROVE Steady
  BY <1>8, RowsOfCrawls DEF CrawlEnds, Steady, Linked, CrawlRows, NoCrawl, RunTypes
<1>9. ASSUME NEW c \in Crawls, ResumeCrawl(c) PROVE Steady
  <2>1. run' = Revived(c) /\ crawl[c].status = "failed" /\ crawl' = [crawl EXCEPT ![c].status = "active"]
    BY <1>9 DEF ResumeCrawl
  <2>2. crawl[c] \in CrawlRows
    BY <2>1, RowsOfCrawls DEF NoCrawl
  <2>3. \A o \in Crawls : /\ crawl[o] # NoCrawl => crawl'[o] # NoCrawl
                          /\ crawl[o].status = "completed" => crawl'[o].status = "completed"
    BY <2>1, <2>2 DEF RunTypes, CrawlRows, NoCrawl
  <2>4. ASSUME NEW r \in Runs
        PROVE  \/ run'[r] = run[r]
               \/ run[r] # NoRun /\ run'[r] # NoRun /\ run'[r].link = run[r].link
    <3>1. CASE run[r].status = "failed" /\ run[r].link = c
      <4>1. run'[r] = [run[r] EXCEPT !.status = "crawling"] /\ run[r] \in RunRows
        BY <2>1, <3>1, RowsOfRuns DEF Revived, NoRun
      <4> QED BY <4>1 DEF RunRows, NoRun
    <3>2. CASE ~(run[r].status = "failed" /\ run[r].link = c)
      BY <2>1, <3>2 DEF Revived
    <3> QED BY <3>1, <3>2
  <2>5. (resumedMeanwhile => resumedMeanwhile') /\ UNCHANGED <<pagesRetried, leasedMeanwhile>>
    BY <1>9 DEF ResumeCrawl, RunTypes
  <2> QED BY <2>3, <2>4, <2>5 DEF Steady, Linked
<1>10. ASSUME NEW c \in Crawls, RetryPages(c) PROVE Steady
  <2>1. UNCHANGED <<run, resumedMeanwhile, leasedMeanwhile>> /\ pagesRetried'
    BY <1>10 DEF RetryPages
  <2>2. crawl[c].status \in {"completed", "failed"} /\ crawl' = [crawl EXCEPT ![c].status = "active"]
    BY <1>10 DEF RetryPages
  <2>3. crawl[c] \in CrawlRows
    BY <2>2, RowsOfCrawls DEF NoCrawl
  <2>4. \A o \in Crawls : crawl[o] # NoCrawl => crawl'[o] # NoCrawl
    BY <2>2, <2>3 DEF RunTypes, CrawlRows, NoCrawl
  <2> QED BY <2>1, <2>4 DEF Steady, Linked
<1>11. ASSUME NEW a \in Analysts, reconcile_agent_runs(a) PROVE Steady
  BY <1>11, StillIsSteady DEF reconcile_agent_runs, jobVars
<1>12. ASSUME NEW a \in Analysts, CommitDecisions(a) PROVE Steady
  <2>1. ASSUME NEW r \in Runs
        PROVE  \/ run'[r] = run[r]
               \/ run[r] # NoRun /\ run'[r] # NoRun /\ run'[r].link = run[r].link
    BY <1>12, DecisionsWrite DEF SettlesRow
  <2>2. UNCHANGED <<crawl, pagesRetried, resumedMeanwhile>> /\ (leasedMeanwhile => leasedMeanwhile')
    BY <1>12 DEF CommitDecisions, jobVars
  <2> QED BY <2>1, <2>2, RunsAreSteady
<1>13. ASSUME NEW a \in Analysts, report_node(a) PROVE Steady
  BY <1>13, StillIsSteady DEF report_node, jobVars
<1>14. ASSUME NEW a \in Analysts, CommitReport(a) PROVE Steady
  <2>1. ASSUME NEW r \in Runs
        PROVE  \/ run'[r] = run[r]
               \/ run[r] # NoRun /\ run'[r] # NoRun /\ run'[r].link = run[r].link
    BY <1>14, ReportWrites DEF ReportsRow
  <2>2. UNCHANGED <<crawl, pagesRetried, resumedMeanwhile, leasedMeanwhile>>
    BY <1>14 DEF CommitReport, jobVars
  <2> QED BY <2>1, <2>2, RunsAreSteady
<1>15. ASSUME NEW a \in Analysts, AnalystStops(a) PROVE Steady
  BY <1>15, StillIsSteady DEF AnalystStops, jobVars
<1>16. ASSUME NEW r \in Runs, LeaseEnds(r) PROVE Steady
  <2>1. run[r] \in RunRows /\ run' = [run EXCEPT ![r].leased = FALSE]
    BY <1>16, RowsOfRuns DEF LeaseEnds, NoRun
  <2>2. run'[r] # NoRun /\ run[r] # NoRun /\ run'[r].link = run[r].link
    BY <2>1 DEF RunTypes, RunRows, NoRun
  <2>3. \A o \in Runs : o # r => run'[o] = run[o]
    BY <2>1 DEF RunTypes
  <2>4. UNCHANGED <<crawl, pagesRetried, resumedMeanwhile, leasedMeanwhile>>
    BY <1>16 DEF LeaseEnds, jobVars
  <2> QED BY <2>2, <2>3, <2>4, RunsAreSteady
<1> QED BY <1>1, <1>2, <1>3, <1>4, <1>5, <1>6, <1>7, <1>8, <1>9, <1>10, <1>11, <1>12, <1>13, <1>14, <1>15, <1>16 DEF AgentNext

-----------------------------------------------------------------------------
\* The rows that the other actions write: all but the lease stays the same.
SameRow(r) ==
    \/ run'[r] = run[r]
    \/ /\ run[r] # NoRun /\ run'[r] # NoRun
       /\ run'[r].status = run[r].status /\ run'[r].link = run[r].link /\ run'[r].owner = run[r].owner

LEMMA LinkRunIs ==
    ASSUME AgentInv, LinkRun
    PROVE  /\ starter.pc = "link" /\ starter.run \in Runs /\ starter.crawl \in Crawls /\ starter' = AtRest
           /\ ~Locked(starter.run)
           /\ run[starter.run] # NoRun /\ run'[starter.run] # NoRun
           /\ run[starter.run].status = "crawling" /\ run'[starter.run].status = "crawling"
           /\ run[starter.run].link = Unlinked /\ run'[starter.run].link = starter.crawl
           /\ \A r \in Runs : r # starter.run => run'[r] = run[r]
           /\ UNCHANGED <<crawl, scheduled, analyst, pagesRetried, resumedMeanwhile, leasedMeanwhile>>
<1> USE DEF AgentInv, AgentTypes
<1>1. /\ starter.pc = "link" /\ starter.run \in Runs /\ starter.crawl \in Crawls /\ starter' = AtRest
      /\ ~Locked(starter.run)
  BY DEF LinkRun, RunTypes, IsStarter, AtRest
<1>2. UNCHANGED <<crawl, scheduled, analyst, pagesRetried, resumedMeanwhile, leasedMeanwhile>>
  BY DEF LinkRun, jobVars
<1>3. PICK w, c : w = starter.run /\ c = starter.crawl
  OBVIOUS
<1>4. PICK row \in RunRows : row = run[w]
  BY <1>1, <1>3, RowsOfRuns DEF FreshRuns
<1>5. run' = [run EXCEPT ![w].link = c]
  BY <1>3 DEF LinkRun
<1>6. \A r \in Runs : r # w => run'[r] = run[r]
  BY <1>5 DEF RunTypes
<1>7. PICK next : next = run'[w]
  OBVIOUS
<1>8. next = [row EXCEPT !.link = c]
  BY <1>1, <1>3, <1>4, <1>5, <1>7 DEF RunTypes
<1>9. next.link = c /\ next.status = row.status
  BY <1>8 DEF RunRows, RunStatuses
<1>10. row.status = "crawling" /\ row.link = Unlinked /\ row # NoRun
  BY <1>1, <1>3, <1>4 DEF FreshRuns
<1>11. next # NoRun
  BY <1>9, <1>10, NotAbsent
<1> QED BY <1>1, <1>2, <1>3, <1>4, <1>6, <1>7, <1>9, <1>10, <1>11

LEMMA ScheduledReportIs ==
    ASSUME AgentInv, ScheduledReport
    PROVE  /\ scheduled \in Runs /\ ~Locked(scheduled) /\ scheduled' = 0
           /\ run[scheduled] # NoRun /\ run'[scheduled] # NoRun
           /\ run[scheduled].status = "running"
           /\ run[scheduled].link = Unlinked /\ run'[scheduled].link = Unlinked
           /\ \A r \in Runs : r # scheduled => run'[r] = run[r]
           /\ UNCHANGED <<crawl, starter, analyst, pagesRetried, resumedMeanwhile, leasedMeanwhile>>
<1> USE DEF AgentInv, AgentTypes
<1>1. scheduled \in Runs /\ ~Locked(scheduled) /\ scheduled' = 0
  BY AgentNumbers DEF ScheduledReport, RunTypes, Runs
<1>2. UNCHANGED <<crawl, starter, analyst, pagesRetried, resumedMeanwhile, leasedMeanwhile>>
  BY DEF ScheduledReport, jobVars
<1>3. PICK w : w = scheduled
  OBVIOUS
<1>4. w # 0
  BY <1>3 DEF ScheduledReport
<1>5. PICK row \in RunRows : row = run[w]
  BY <1>1, <1>3, <1>4, RowsOfRuns DEF FreshRuns
<1>6. PICK end \in {"completed", "failed"} : run' = [run EXCEPT ![w].status = end]
  BY <1>3 DEF ScheduledReport
<1>7. \A r \in Runs : r # w => run'[r] = run[r]
  BY <1>6 DEF RunTypes
<1>8. PICK next : next = run'[w]
  OBVIOUS
<1>9. next = [row EXCEPT !.status = end]
  BY <1>1, <1>3, <1>5, <1>6, <1>8 DEF RunTypes
<1>10. next.link = row.link /\ next.status = end
  BY <1>9 DEF RunRows, RunStatuses
<1>11. row.status = "running" /\ row.link = Unlinked /\ row # NoRun
  BY <1>3, <1>4, <1>5 DEF FreshRuns
<1>12. next # NoRun
  BY <1>10, NotAbsent
<1> QED BY <1>1, <1>2, <1>3, <1>5, <1>7, <1>8, <1>10, <1>11, <1>12

LEMMA LeaseEndsIs ==
    ASSUME AgentInv, NEW w \in Runs, LeaseEnds(w)
    PROVE  /\ \A r \in Runs : SameRow(r)
           /\ UNCHANGED <<crawl, starter, scheduled, analyst, pagesRetried, resumedMeanwhile, leasedMeanwhile>>
<1> USE DEF AgentInv, AgentTypes
<1>1. UNCHANGED <<crawl, starter, scheduled, analyst, pagesRetried, resumedMeanwhile, leasedMeanwhile>>
  BY DEF LeaseEnds, jobVars
<1>2. PICK row \in RunRows : row = run[w]
  BY RowsOfRuns DEF LeaseEnds, NoRun
<1>3. PICK next : next = run'[w]
  OBVIOUS
<1>4. run' = [run EXCEPT ![w].leased = FALSE]
  BY DEF LeaseEnds
<1>5. next = [row EXCEPT !.leased = FALSE]
  BY <1>2, <1>3, <1>4 DEF RunTypes
<1>6. next.link = row.link /\ next.status = row.status /\ next.owner = row.owner
  BY <1>5 DEF RunRows, RunStatuses
<1>7. row # NoRun /\ row.status # "absent"
  BY DEF RunRows, RunStatuses, NoRun
<1>8. next # NoRun
  BY <1>6, <1>7, NotAbsent
<1>9. \A r \in Runs : r # w => run'[r] = run[r]
  BY <1>4 DEF RunTypes
<1>10. SameRow(w)
  BY <1>2, <1>3, <1>6, <1>7, <1>8 DEF SameRow
<1>11. \A r \in Runs : r # w => SameRow(r)
  BY <1>9 DEF SameRow
<1> QED BY <1>1, <1>10, <1>11

LEMMA ResumeCrawlIs ==
    ASSUME AgentInv, NEW c \in Crawls, ResumeCrawl(c)
    PROVE  /\ crawl[c].status = "failed" /\ crawl[c] # NoCrawl
           /\ crawl'[c].status = "active" /\ \A o \in Crawls : o # c => crawl'[o] = crawl[o]
           /\ \A r \in Runs :
                 \/ run'[r] = run[r] /\ ~(run[r].status = "failed" /\ run[r].link = c)
                 \/ /\ run[r].status = "failed" /\ run'[r].status = "crawling"
                    /\ run[r] # NoRun /\ run'[r] # NoRun /\ run[r].link = c
                    /\ run'[r].link = run[r].link /\ run'[r].owner = run[r].owner
           /\ resumedMeanwhile' = (resumedMeanwhile \/ Decided(c))
           /\ UNCHANGED <<starter, scheduled, analyst, pagesRetried, leasedMeanwhile>>
<1> USE DEF AgentInv, AgentTypes
<1>1. /\ crawl[c].status = "failed" /\ crawl' = [crawl EXCEPT ![c].status = "active"]
      /\ run' = Revived(c) /\ resumedMeanwhile' = (resumedMeanwhile \/ Decided(c))
      /\ UNCHANGED <<starter, scheduled, analyst, pagesRetried, leasedMeanwhile>>
  BY DEF ResumeCrawl
<1>2. crawl[c] \in CrawlRows /\ crawl[c] # NoCrawl
  BY <1>1, RowsOfCrawls DEF NoCrawl
<1>3. crawl'[c].status = "active" /\ \A o \in Crawls : o # c => crawl'[o] = crawl[o]
  BY <1>1, <1>2 DEF RunTypes, CrawlRows
<1>4. ASSUME NEW r \in Runs, run[r].status = "failed", run[r].link = c
      PROVE  /\ run[r].status = "failed" /\ run'[r].status = "crawling"
             /\ run[r] # NoRun /\ run'[r] # NoRun /\ run[r].link = c
             /\ run'[r].link = run[r].link /\ run'[r].owner = run[r].owner
  <2>1. PICK row \in RunRows : row = run[r]
    BY <1>4, RowsOfRuns DEF NoRun
  <2>2. PICK next : next = run'[r]
    OBVIOUS
  <2>3. next = [row EXCEPT !.status = "crawling"]
    BY <1>1, <1>4, <2>1, <2>2 DEF Revived
  <2>4. next.link = row.link /\ next.status = "crawling" /\ next.owner = row.owner
    BY <2>3 DEF RunRows, RunStatuses
  <2> QED BY <1>4, <2>1, <2>2, <2>4, NotAbsent
<1>5. ASSUME NEW r \in Runs, ~(run[r].status = "failed" /\ run[r].link = c) PROVE run'[r] = run[r]
  BY <1>1, <1>5 DEF Revived
<1> QED BY <1>1, <1>2, <1>3, <1>4, <1>5

LEMMA scheduled_agent_runIs ==
    ASSUME AgentInv, NEW s \in RunSites, scheduled_agent_run(s)
    PROVE  /\ scheduled = 0 /\ scheduled' \in Runs
           /\ run[scheduled'] = NoRun /\ run'[scheduled'] = NewRun(s, "running")
           /\ \A r \in Runs : r # scheduled' => run'[r] = run[r]
           /\ UNCHANGED <<crawl, starter, analyst, pagesRetried, resumedMeanwhile, leasedMeanwhile>>
<1>1. PICK v : v = First(Vacant(run, NoRun))
  OBVIOUS
<1>2. v \in Runs /\ run[v] = NoRun
  BY <1>1, AgentNumbers, VacantIsFirst DEF scheduled_agent_run, AgentInv, AgentTypes, RunTypes, Runs
<1>3. run' = [run EXCEPT ![v] = NewRun(s, "running")] /\ scheduled' = v /\ scheduled = 0
  BY <1>1 DEF scheduled_agent_run
<1>4. UNCHANGED <<crawl, starter, analyst, pagesRetried, resumedMeanwhile, leasedMeanwhile>>
  BY DEF scheduled_agent_run, jobVars
<1>5. run'[v] = NewRun(s, "running") /\ \A r \in Runs : r # v => run'[r] = run[r]
  BY <1>2, <1>3 DEF AgentInv, AgentTypes, RunTypes
<1> QED BY <1>2, <1>3, <1>4, <1>5

LEMMA CrawlEndsIs ==
    ASSUME AgentInv, NEW c \in Crawls, CrawlEnds(c)
    PROVE  /\ crawl[c].status = "active" /\ crawl'[c].status # "active"
           /\ \A o \in Crawls : o # c => crawl'[o] = crawl[o]
           /\ UNCHANGED <<run, starter, scheduled, analyst, pagesRetried, resumedMeanwhile, leasedMeanwhile>>
<1>1. crawl[c] \in CrawlRows
  BY RowsOfCrawls DEF CrawlEnds, AgentInv, AgentTypes, NoCrawl
<1>2. PICK end \in {"completed", "failed"} : crawl' = [crawl EXCEPT ![c].status = end]
  BY DEF CrawlEnds
<1>3. crawl'[c].status = end /\ \A o \in Crawls : o # c => crawl'[o] = crawl[o]
  BY <1>1, <1>2 DEF AgentInv, AgentTypes, RunTypes, CrawlRows
<1> QED BY <1>3 DEF CrawlEnds

-----------------------------------------------------------------------------
\* The inductive invariant, part by part.

LEMMA AnalystTypesStep ==
    ASSUME AgentInv, AgentNext PROVE AnalystTypes'
<1> USE DEF AgentInv, AgentTypes
<1>u. ASSUME analyst' = analyst PROVE AnalystTypes'
  BY <1>u DEF AnalystTypes
<1>1. ASSUME NEW s \in RunSites, start_agent_run(s) PROVE AnalystTypes'
  BY <1>1, <1>u DEF start_agent_run, jobVars
<1>2. ASSUME NEW s \in RunSites, scheduled_agent_run(s) PROVE AnalystTypes'
  BY <1>2, <1>u DEF scheduled_agent_run, jobVars
<1>3. CASE CommitRun
  BY <1>3, <1>u DEF CommitRun, jobVars
<1>4. CASE LinkRun
  BY <1>4, <1>u DEF LinkRun, jobVars
<1>5. CASE StartFails
  BY <1>5, <1>u DEF StartFails, jobVars
<1>6. CASE ScheduledReport
  BY <1>6, <1>u DEF ScheduledReport, jobVars
<1>7. CASE SchedulerStops
  BY <1>7, <1>u DEF SchedulerStops, jobVars
<1>8. ASSUME NEW c \in Crawls, CrawlEnds(c) PROVE AnalystTypes'
  BY <1>8, <1>u DEF CrawlEnds, jobVars
<1>9. ASSUME NEW c \in Crawls, ResumeCrawl(c) PROVE AnalystTypes'
  BY <1>9, <1>u DEF ResumeCrawl, jobVars
<1>10. ASSUME NEW c \in Crawls, RetryPages(c) PROVE AnalystTypes'
  BY <1>10, <1>u DEF RetryPages, jobVars
<1>11. ASSUME NEW a \in Analysts, reconcile_agent_runs(a) PROVE AnalystTypes'
  BY <1>11, ReconcileIs
<1>12. ASSUME NEW a \in Analysts, CommitDecisions(a) PROVE AnalystTypes'
  <2>1. Reconciling(analyst[a])
    BY <1>12 DEF CommitDecisions, Reconciling
  <2> QED BY <1>12, <2>1, CommitIs DEF DecisionsStand, DecisionStands, Linked
<1>13. ASSUME NEW a \in Analysts, report_node(a) PROVE AnalystTypes'
  BY <1>13, ReportNodeIs
<1>14. ASSUME NEW a \in Analysts, CommitReport(a) PROVE AnalystTypes'
  BY <1>14, CommitReportIs
<1>15. ASSUME NEW a \in Analysts, AnalystStops(a) PROVE AnalystTypes'
  BY <1>15, AnalystStopsIs
<1>16. ASSUME NEW r \in Runs, LeaseEnds(r) PROVE AnalystTypes'
  BY <1>16, <1>u DEF LeaseEnds, jobVars
<1> QED BY <1>1, <1>2, <1>3, <1>4, <1>5, <1>6, <1>7, <1>8, <1>9, <1>10, <1>11, <1>12, <1>13, <1>14, <1>15, <1>16 DEF AgentNext

LEMMA LinksNameCrawlsStep ==
    ASSUME AgentInv, AgentNext PROVE LinksNameCrawls'
<1> USE DEF AgentInv, AgentTypes, StarterKnowsCrawls
<1>1. Steady
  BY StepIsSteady
<1>2. ASSUME NEW r \in Runs, Linked(r)' PROVE CrawlOf(r)' # NoCrawl
  <2>1. CASE Linked(r)
    <3>1. run[r].link \in Crawls /\ crawl[run[r].link] # NoCrawl /\ run'[r].link = run[r].link
      BY <1>1, <2>1, RowsOfRuns DEF LinksNameCrawls, Steady, CrawlOf
    <3> QED BY <1>1, <3>1 DEF Steady, CrawlOf
  <2>2. CASE LinkRun /\ r = starter.run /\ run'[r].link = starter.crawl
    <3>1. starter.crawl \in Crawls /\ crawl[starter.crawl] # NoCrawl /\ crawl' = crawl
      BY <2>2, LinkRunIs DEF LinksNameCrawls
    <3> QED BY <2>2, <3>1 DEF CrawlOf
  <2> QED BY <1>1, <1>2, <2>1, <2>2 DEF Steady
<1>3. \/ starter' = starter \/ starter' = AtRest
      \/ \E s \in RunSites : start_agent_run(s)
      \/ CommitRun
  BY DEF AgentNext, scheduled_agent_run, LinkRun, StartFails, ScheduledReport, SchedulerStops, CrawlEnds, ResumeCrawl,
         RetryPages, reconcile_agent_runs, CommitDecisions, report_node, CommitReport, AnalystStops, LeaseEnds
<1>4. StarterKnowsCrawls'
  <2>1. CASE starter' = starter
    <3>1. ASSUME starter.pc = "start", NEW c \in starter.active PROVE crawl'[c] # NoCrawl
      <4>1. c \in Crawls /\ crawl[c] # NoCrawl
        BY <3>1 DEF LinksNameCrawls, RunTypes, IsStarter, AtRest
      <4> QED BY <1>1, <4>1 DEF Steady
    <3>2. ASSUME starter.pc = "link" PROVE crawl'[starter.crawl] # NoCrawl
      <4>1. starter.crawl \in Crawls /\ crawl[starter.crawl] # NoCrawl
        BY <3>2 DEF LinksNameCrawls, RunTypes, IsStarter, AtRest
      <4> QED BY <1>1, <4>1 DEF Steady
    <3> QED BY <2>1, <3>1, <3>2
  <2>2. CASE starter' = AtRest
    BY <2>2 DEF AtRest
  <2>3. ASSUME NEW s \in RunSites, start_agent_run(s)
        PROVE  StarterKnowsCrawls'
    <3>1. starter' = [pc |-> "start", site |-> s, active |-> ActiveCrawls(s)] /\ crawl' = crawl
      BY <2>3 DEF start_agent_run, jobVars
    <3> QED BY <3>1 DEF ActiveCrawls, NoCrawl
  <2>4. CASE CommitRun
    BY <2>4, CommitRunIs
  <2> QED BY <1>3, <2>1, <2>2, <2>3, <2>4
<1> QED BY <1>2, <1>4 DEF LinksNameCrawls

\* A row that is neither linked nor new goes on as it is.
Unharmed(r) == run[r] # NoRun /\ run[r].link = Unlinked => SameRow(r)
LEMMA FreshRunsKept ==
    ASSUME AgentInv, \A r \in Runs : Unharmed(r), starter' = starter \/ starter' = AtRest, scheduled' = scheduled \/ scheduled' = 0
    PROVE  FreshRuns'
<1> USE DEF AgentInv, AgentTypes
<1>1. ASSUME starter'.pc = "link"
      PROVE  run'[starter'.run] # NoRun /\ run'[starter'.run].status = "crawling" /\ run'[starter'.run].link = Unlinked
  <2>1. starter' = starter /\ starter.run \in Runs
    BY <1>1 DEF RunTypes, IsStarter, AtRest
  <2> QED BY <1>1, <2>1 DEF FreshRuns, Unharmed, SameRow
<1>2. ASSUME scheduled' # 0
      PROVE  run'[scheduled'] # NoRun /\ run'[scheduled'].status = "running" /\ run'[scheduled'].link = Unlinked
  <2>1. scheduled' = scheduled /\ scheduled \in Runs
    BY <1>2, AgentNumbers DEF RunTypes, Runs
  <2> QED BY <1>2, <2>1 DEF FreshRuns, Unharmed, SameRow
<1> QED BY <1>1, <1>2 DEF FreshRuns

LEMMA FreshRunsStep ==
    ASSUME AgentInv, AgentNext PROVE FreshRuns'
<1> USE DEF AgentInv, AgentTypes
<1>u. ASSUME run' = run, starter' = starter \/ starter' = AtRest, scheduled' = scheduled \/ scheduled' = 0 PROVE FreshRuns'
  BY <1>u, FreshRunsKept DEF Unharmed, SameRow
<1>1. ASSUME NEW s \in RunSites, start_agent_run(s) PROVE FreshRuns'
  <2>1. starter'.pc # "link" /\ UNCHANGED <<run, scheduled>>
    BY <1>1 DEF start_agent_run
  <2> QED BY <2>1 DEF FreshRuns
<1>2. ASSUME NEW s \in RunSites, scheduled_agent_run(s) PROVE FreshRuns'
  <2>1. run'[scheduled'] # NoRun /\ run'[scheduled'].status = "running" /\ run'[scheduled'].link = Unlinked
    <3>1. run'[scheduled'] = NewRun(s, "running")
      BY <1>2, scheduled_agent_runIs
    <3>2. PICK row : row = NewRun(s, "running")
      OBVIOUS
    <3>3. row.status = "running" /\ row.link = Unlinked
      BY <3>2 DEF NewRun
    <3>4. row # NoRun
      BY <3>3, NotAbsent
    <3> QED BY <3>1, <3>2, <3>3, <3>4
  <2>2. ASSUME starter.pc = "link" PROVE starter.run \in Runs /\ starter.run # scheduled'
    BY <1>2, <2>2, scheduled_agent_runIs DEF FreshRuns, RunTypes, IsStarter, AtRest
  <2>3. starter' = starter /\ \A r \in Runs : r # scheduled' => run'[r] = run[r]
    BY <1>2, scheduled_agent_runIs
  <2> QED BY <2>1, <2>2, <2>3 DEF FreshRuns
<1>3. CASE CommitRun
  <2>1. PICK w \in Runs : w = starter'.run
    BY <1>3, CommitRunIs
  <2>2. run'[w] = NewRun(starter.site, "crawling") /\ run[w] = NoRun /\ \A r \in Runs : r # w => run'[r] = run[r]
    BY <1>3, <2>1, CommitRunIs DEF RunTypes
  <2>3. run'[w] # NoRun /\ run'[w].status = "crawling" /\ run'[w].link = Unlinked
    BY <2>2 DEF NewRun, NoRun
  <2>4. ASSUME scheduled # 0 PROVE scheduled \in Runs /\ scheduled # w
    BY <2>2, <2>4, AgentNumbers DEF FreshRuns, RunTypes, Runs
  <2>5. scheduled' = scheduled
    BY <1>3, CommitRunIs
  <2> QED BY <2>1, <2>2, <2>3, <2>4, <2>5 DEF FreshRuns
<1>4. CASE LinkRun
  <2>1. ASSUME scheduled # 0 PROVE scheduled \in Runs /\ scheduled # starter.run
    BY <1>4, <2>1, LinkRunIs, AgentNumbers DEF FreshRuns, RunTypes, Runs
  <2>2. starter' = AtRest /\ scheduled' = scheduled /\ \A r \in Runs : r # starter.run => run'[r] = run[r]
    BY <1>4, LinkRunIs
  <2> QED BY <2>1, <2>2 DEF FreshRuns, AtRest
<1>5. CASE StartFails
  BY <1>5, <1>u DEF StartFails, jobVars
<1>6. CASE ScheduledReport
  <2>1. ASSUME starter.pc = "link" PROVE starter.run \in Runs /\ scheduled # starter.run
    BY <1>6, <2>1, ScheduledReportIs DEF FreshRuns, RunTypes, IsStarter, AtRest
  <2>2. scheduled' = 0 /\ starter' = starter /\ \A r \in Runs : r # scheduled => run'[r] = run[r]
    BY <1>6, ScheduledReportIs
  <2> QED BY <2>1, <2>2 DEF FreshRuns
<1>7. CASE SchedulerStops
  BY <1>7, <1>u DEF SchedulerStops, jobVars
<1>8. ASSUME NEW c \in Crawls, CrawlEnds(c) PROVE FreshRuns'
  BY <1>8, <1>u DEF CrawlEnds, jobVars
<1>9. ASSUME NEW c \in Crawls, ResumeCrawl(c) PROVE FreshRuns'
  <2>1. \A r \in Runs : Unharmed(r)
    BY <1>9, ResumeCrawlIs DEF Unharmed, SameRow, Unlinked, Crawls
  <2> QED BY <1>9, <2>1, FreshRunsKept, ResumeCrawlIs
<1>10. ASSUME NEW c \in Crawls, RetryPages(c) PROVE FreshRuns'
  BY <1>10, <1>u DEF RetryPages, jobVars
<1>11. ASSUME NEW a \in Analysts, reconcile_agent_runs(a) PROVE FreshRuns'
  BY <1>11, <1>u DEF reconcile_agent_runs, jobVars
<1>12. ASSUME NEW a \in Analysts, CommitDecisions(a) PROVE FreshRuns'
  <2>1. ASSUME NEW r \in Runs PROVE Unharmed(r)
    <3>1. r \in DOMAIN analyst[a].decided => run[r].link # Unlinked
      BY <1>12 DEF CommitDecisions, Reconciling, DecisionsStand, DecisionStands, Linked
    <3> QED BY <1>12, <3>1, DecisionsWrite DEF Unharmed, SameRow
  <2> QED BY <1>12, <2>1, FreshRunsKept DEF CommitDecisions
<1>13. ASSUME NEW a \in Analysts, report_node(a) PROVE FreshRuns'
  BY <1>13, <1>u DEF report_node, jobVars
<1>14. ASSUME NEW a \in Analysts, CommitReport(a) PROVE FreshRuns'
  <2>1. Analysing(analyst[a]) /\ AtWork(a) \in DOMAIN analyst[a].owners
    BY <1>14, CommitReportIs, AtWorkIsOwned
  <2>2. run[AtWork(a)].link # Unlinked
    BY <2>1 DEF AnalysesFollowCrawls, AnalysisFollowsCrawl, Linked
  <2>3. \A r \in Runs : Unharmed(r)
    BY <1>14, <2>2, ReportWrites DEF Unharmed, SameRow
  <2> QED BY <1>14, <2>3, FreshRunsKept DEF CommitReport
<1>15. ASSUME NEW a \in Analysts, AnalystStops(a) PROVE FreshRuns'
  BY <1>15, <1>u DEF AnalystStops, jobVars
<1>16. ASSUME NEW r \in Runs, LeaseEnds(r) PROVE FreshRuns'
  <2>1. \A o \in Runs : Unharmed(o)
    BY <1>16, LeaseEndsIs DEF Unharmed
  <2> QED BY <1>16, <2>1, FreshRunsKept, LeaseEndsIs
<1> QED BY <1>1, <1>2, <1>3, <1>4, <1>5, <1>6, <1>7, <1>8, <1>9, <1>10, <1>11, <1>12, <1>13, <1>14, <1>15, <1>16 DEF AgentNext

-----------------------------------------------------------------------------
\* What becomes of the row of a run in a step.
RowGoesOn(r) ==
    \/ SameRow(r)
    \/ /\ LinkRun /\ r = starter.run /\ run[r].status = "crawling" /\ run'[r].status = "crawling"
       /\ run[r].link = Unlinked
    \/ /\ ScheduledReport /\ r = scheduled /\ run[r].status = "running"
       /\ run[r].link = Unlinked /\ run'[r].link = Unlinked
    \/ /\ \E c \in Crawls : ResumeCrawl(c) /\ run[r].link = c
       /\ run[r].status = "failed" /\ run'[r].status = "crawling" /\ run'[r].owner = run[r].owner
    \/ \E a \in Analysts : CommitDecisions(a) /\ r \in DOMAIN analyst[a].decided /\ SettlesRow(a, r)
    \/ \E a \in Analysts, end \in {"completed", "failed"} : CommitReport(a) /\ r = AtWork(a) /\ ReportsRow(a, end)

LEMMA RowsGoOn ==
    ASSUME AgentInv, AgentNext, NEW r \in Runs, run[r] # NoRun PROVE RowGoesOn(r)
<1>u. ASSUME run' = run PROVE RowGoesOn(r)
  BY <1>u DEF RowGoesOn, SameRow
<1>1. ASSUME NEW s \in RunSites, start_agent_run(s) PROVE RowGoesOn(r)
  BY <1>1, <1>u DEF start_agent_run, jobVars
<1>2. ASSUME NEW s \in RunSites, scheduled_agent_run(s) PROVE RowGoesOn(r)
  BY <1>2, scheduled_agent_runIs DEF RowGoesOn, SameRow
<1>3. CASE CommitRun
  BY <1>3, CommitRunIs DEF RowGoesOn, SameRow, AgentInv, AgentTypes, RunTypes
<1>4. CASE LinkRun
  BY <1>4, LinkRunIs DEF RowGoesOn, SameRow
<1>5. CASE StartFails
  BY <1>5, <1>u DEF StartFails, jobVars
<1>6. CASE ScheduledReport
  BY <1>6, ScheduledReportIs DEF RowGoesOn, SameRow
<1>7. CASE SchedulerStops
  BY <1>7, <1>u DEF SchedulerStops, jobVars
<1>8. ASSUME NEW c \in Crawls, CrawlEnds(c) PROVE RowGoesOn(r)
  BY <1>8, <1>u DEF CrawlEnds, jobVars
<1>9. ASSUME NEW c \in Crawls, ResumeCrawl(c) PROVE RowGoesOn(r)
  BY <1>9, ResumeCrawlIs DEF RowGoesOn, SameRow
<1>10. ASSUME NEW c \in Crawls, RetryPages(c) PROVE RowGoesOn(r)
  BY <1>10, <1>u DEF RetryPages, jobVars
<1>11. ASSUME NEW a \in Analysts, reconcile_agent_runs(a) PROVE RowGoesOn(r)
  BY <1>11, <1>u DEF reconcile_agent_runs, jobVars
<1>12. ASSUME NEW a \in Analysts, CommitDecisions(a) PROVE RowGoesOn(r)
  BY <1>12, DecisionsWrite DEF RowGoesOn, SameRow
<1>13. ASSUME NEW a \in Analysts, report_node(a) PROVE RowGoesOn(r)
  BY <1>13, <1>u DEF report_node, jobVars
<1>14. ASSUME NEW a \in Analysts, CommitReport(a) PROVE RowGoesOn(r)
  BY <1>14, ReportWrites DEF RowGoesOn, SameRow
<1>15. ASSUME NEW a \in Analysts, AnalystStops(a) PROVE RowGoesOn(r)
  BY <1>15, <1>u DEF AnalystStops, jobVars
<1>16. ASSUME NEW w \in Runs, LeaseEnds(w) PROVE RowGoesOn(r)
  BY <1>16, LeaseEndsIs DEF RowGoesOn
<1> QED BY <1>1, <1>2, <1>3, <1>4, <1>5, <1>6, <1>7, <1>8, <1>9, <1>10, <1>11, <1>12, <1>13, <1>14, <1>15, <1>16 DEF AgentNext

\* A crawl that is over begins again when it is resumed or its pages are retried.
LEMMA CrawlsGoOn ==
    ASSUME AgentInv, AgentNext, NEW c \in Crawls, crawl[c] # NoCrawl, crawl[c].status # "active", crawl'[c].status = "active"
    PROVE  pagesRetried' \/ ResumeCrawl(c)
<1> DEFINE G == pagesRetried' \/ ResumeCrawl(c)
<1> SUFFICES G
  OBVIOUS
<1>u. ASSUME crawl' = crawl PROVE G
  BY <1>u
<1> HIDE DEF G
<1>1. ASSUME NEW s \in RunSites, start_agent_run(s) PROVE G
  BY <1>1, <1>u DEF start_agent_run, jobVars
<1>2. ASSUME NEW s \in RunSites, scheduled_agent_run(s) PROVE G
  BY <1>2, <1>u DEF scheduled_agent_run, jobVars
<1>3. CASE CommitRun
  BY <1>3, CommitRunIs DEF G
<1>4. CASE LinkRun
  BY <1>4, <1>u DEF LinkRun, jobVars
<1>5. CASE StartFails
  BY <1>5, <1>u DEF StartFails, jobVars
<1>6. CASE ScheduledReport
  BY <1>6, <1>u DEF ScheduledReport, jobVars
<1>7. CASE SchedulerStops
  BY <1>7, <1>u DEF SchedulerStops, jobVars
<1>8. ASSUME NEW o \in Crawls, CrawlEnds(o) PROVE G
  BY <1>8, CrawlEndsIs DEF G
<1>9. ASSUME NEW o \in Crawls, ResumeCrawl(o) PROVE G
  BY <1>9, ResumeCrawlIs DEF G
<1>10. ASSUME NEW o \in Crawls, RetryPages(o) PROVE G
  BY <1>10 DEF RetryPages, G
<1>11. ASSUME NEW a \in Analysts, reconcile_agent_runs(a) PROVE G
  BY <1>11, <1>u DEF reconcile_agent_runs, jobVars
<1>12. ASSUME NEW a \in Analysts, CommitDecisions(a) PROVE G
  BY <1>12, <1>u DEF CommitDecisions, jobVars
<1>13. ASSUME NEW a \in Analysts, report_node(a) PROVE G
  BY <1>13, <1>u DEF report_node, jobVars
<1>14. ASSUME NEW a \in Analysts, CommitReport(a) PROVE G
  BY <1>14, <1>u DEF CommitReport, jobVars
<1>15. ASSUME NEW a \in Analysts, AnalystStops(a) PROVE G
  BY <1>15, <1>u DEF AnalystStops, jobVars
<1>16. ASSUME NEW r \in Runs, LeaseEnds(r) PROVE G
  BY <1>16, <1>u DEF LeaseEnds, jobVars
<1> QED BY <1>1, <1>2, <1>3, <1>4, <1>5, <1>6, <1>7, <1>8, <1>9, <1>10, <1>11, <1>12, <1>13, <1>14, <1>15, <1>16 DEF AgentNext

\* An analyst whose work is not its own step goes on as it was.
LEMMA AnalystsGoOn ==
    ASSUME AgentInv, AgentNext, NEW b \in Analysts
    PROVE  \/ analyst'[b] = analyst[b]
           \/ reconcile_agent_runs(b) \/ CommitDecisions(b) \/ report_node(b) \/ CommitReport(b) \/ AnalystStops(b)
<1> USE DEF AgentInv, AgentTypes
<1> DEFINE G == \/ analyst'[b] = analyst[b]
                \/ reconcile_agent_runs(b) \/ CommitDecisions(b) \/ report_node(b) \/ CommitReport(b) \/ AnalystStops(b)
<1> SUFFICES G
  OBVIOUS
<1>u. ASSUME analyst' = analyst PROVE G
  BY <1>u
<1>v. ASSUME NEW a \in Analysts, a = b,
             reconcile_agent_runs(a) \/ CommitDecisions(a) \/ report_node(a) \/ CommitReport(a) \/ AnalystStops(a) PROVE G
  BY <1>v
<1>w. ASSUME analyst'[b] = analyst[b] PROVE G
  BY <1>w
<1> HIDE DEF G
<1>1. ASSUME NEW s \in RunSites, start_agent_run(s) PROVE G
  BY <1>1, <1>u DEF start_agent_run, jobVars
<1>2. ASSUME NEW s \in RunSites, scheduled_agent_run(s) PROVE G
  BY <1>2, <1>u DEF scheduled_agent_run, jobVars
<1>3. CASE CommitRun
  BY <1>3, <1>u DEF CommitRun, jobVars
<1>4. CASE LinkRun
  BY <1>4, <1>u DEF LinkRun, jobVars
<1>5. CASE StartFails
  BY <1>5, <1>u DEF StartFails, jobVars
<1>6. CASE ScheduledReport
  BY <1>6, <1>u DEF ScheduledReport, jobVars
<1>7. CASE SchedulerStops
  BY <1>7, <1>u DEF SchedulerStops, jobVars
<1>8. ASSUME NEW c \in Crawls, CrawlEnds(c) PROVE G
  BY <1>8, <1>u DEF CrawlEnds, jobVars
<1>9. ASSUME NEW c \in Crawls, ResumeCrawl(c) PROVE G
  BY <1>9, <1>u DEF ResumeCrawl, jobVars
<1>10. ASSUME NEW c \in Crawls, RetryPages(c) PROVE G
  BY <1>10, <1>u DEF RetryPages, jobVars
<1>11. ASSUME NEW a \in Analysts, reconcile_agent_runs(a) PROVE G
  BY <1>11, <1>v, <1>w, ReconcileIs
<1>12. ASSUME NEW a \in Analysts, CommitDecisions(a) PROVE G
  <2>1. \A r \in DOMAIN analyst[a].decided : run[r] # NoRun
    BY <1>12 DEF CommitDecisions, Reconciling, DecisionsStand, DecisionStands, Linked
  <2> QED BY <1>12, <2>1, <1>v, <1>w, CommitIs
<1>13. ASSUME NEW a \in Analysts, report_node(a) PROVE G
  BY <1>13, <1>v, <1>w, ReportNodeIs
<1>14. ASSUME NEW a \in Analysts, CommitReport(a) PROVE G
  BY <1>14, <1>v, <1>w, CommitReportIs
<1>15. ASSUME NEW a \in Analysts, AnalystStops(a) PROVE G
  BY <1>15, <1>v, <1>w, AnalystStopsIs
<1>16. ASSUME NEW r \in Runs, LeaseEnds(r) PROVE G
  BY <1>16, <1>u DEF LeaseEnds, jobVars
<1> QED BY <1>1, <1>2, <1>3, <1>4, <1>5, <1>6, <1>7, <1>8, <1>9, <1>10, <1>11, <1>12, <1>13, <1>14, <1>15, <1>16 DEF AgentNext

\* Owners are given to an analyst when it commits its decisions, and rows are
\* locked by a reconciliation.
HoldsLess(a) ==
    Analysing(analyst'[a]) =>
        /\ Analysing(analyst[a])
        /\ \A r \in DOMAIN analyst'[a].owners :
              r \in DOMAIN analyst[a].owners /\ analyst'[a].owners[r] = analyst[a].owners[r]
LEMMA AnalystsHoldLess ==
    ASSUME AgentInv, AgentNext, NEW a \in Analysts
    PROVE  /\ HoldsLess(a) \/ CommitDecisions(a)
           /\ \/ analyst'[a] = analyst[a]
              \/ ~Reconciling(analyst'[a])
              \/ reconcile_agent_runs(a)
<1> USE DEF AgentInv, AgentTypes
<1> DEFINE G == /\ HoldsLess(a) \/ CommitDecisions(a)
                /\ analyst'[a] = analyst[a] \/ ~Reconciling(analyst'[a]) \/ reconcile_agent_runs(a)
<1> SUFFICES G
  OBVIOUS
<1>r. ASSUME analyst'[a] = Rest(a), IsWork(analyst[a]), Analysing(analyst[a]) PROVE G
  BY <1>r, RestIs DEF HoldsLess, Analysing, Reconciling, AtRest
<1>1. CASE analyst'[a] = analyst[a]
  BY <1>1 DEF HoldsLess
<1>2. CASE reconcile_agent_runs(a)
  BY <1>2, ReconcileIs DEF HoldsLess, Analysing
<1>3. CASE CommitDecisions(a)
  <2>1. \A r \in DOMAIN analyst[a].decided : run[r] # NoRun
    BY <1>3 DEF CommitDecisions, Reconciling, DecisionsStand, DecisionStands, Linked
  <2> QED BY <1>3, <2>1, CommitIs DEF Reconciling, AtRest
<1>4. CASE report_node(a)
  <2>1. ASSUME analyst'[a] = [pc |-> "report", owners |-> analyst[a].owners] PROVE G
    BY <1>4, <2>1, ReportNodeIs DEF HoldsLess, Reconciling
  <2> QED BY <1>4, <1>r, <2>1, ReportNodeIs
<1>5. CASE CommitReport(a)
  BY <1>5, <1>r, CommitReportIs
<1>6. CASE AnalystStops(a)
  BY <1>6, AnalystStopsIs DEF HoldsLess, Analysing, Reconciling, AtRest
<1> QED BY <1>1, <1>2, <1>3, <1>4, <1>5, <1>6, AnalystsGoOn

-----------------------------------------------------------------------------
LEMMA HasItsPagesKept ==
    ASSUME AgentInv, AgentNext, NEW r \in Runs, Linked(r), HasItsPages(r) PROVE Linked(r)' /\ HasItsPages(r)'
<1>1. Steady
  BY StepIsSteady
<1>2. run[r].link \in Crawls /\ run'[r].link = run[r].link /\ Linked(r)'
  BY <1>1, RowsOfRuns DEF AgentInv, AgentTypes, Steady
<1> QED BY <1>1, <1>2 DEF Steady, HasItsPages, CrawlOf

LEMMA IsOverKept ==
    ASSUME AgentInv, AgentNext, NEW r \in Runs, Linked(r), IsOver(r)
    PROVE  IsOver(r)' \/ \E c \in Crawls : ResumeCrawl(c) /\ run[r].link = c
<1>1. Steady
  BY StepIsSteady
<1>2. run[r].link \in Crawls /\ run'[r].link = run[r].link /\ crawl[run[r].link] # NoCrawl
  BY <1>1, RowsOfRuns DEF AgentInv, AgentTypes, Steady, LinksNameCrawls, CrawlOf
<1>3. CASE resumedMeanwhile \/ pagesRetried
  BY <1>1, <1>3 DEF Steady, IsOver
<1>4. CASE crawl[run[r].link].status # "active"
  BY <1>2, <1>4, CrawlsGoOn DEF IsOver, CrawlOf
<1> QED BY <1>3, <1>4 DEF IsOver, CrawlOf

\* A crawl that is over stays over while a decision about its run is made.
LEMMA DecidedStaysOver ==
    ASSUME AgentInv, AgentNext, NEW a \in Analysts, Reconciling(analyst[a]), NEW r \in DOMAIN analyst[a].decided,
           r \in Runs, Linked(r), IsOver(r)
    PROVE  IsOver(r)'
<1>1. ASSUME NEW c \in Crawls, ResumeCrawl(c), run[r].link = c PROVE IsOver(r)'
  BY <1>1, ResumeCrawlIs DEF Decided, Reconciling, IsOver
<1> QED BY <1>1, IsOverKept

LEMMA DecisionKept ==
    ASSUME AgentInv, AgentNext, NEW b \in Analysts, analyst'[b] = analyst[b] PROVE DecisionStands(b)'
<1> USE DEF AgentInv, AgentTypes
<1> SUFFICES ASSUME Reconciling(analyst[b]), NEW r \in DOMAIN analyst[b].decided
             PROVE  /\ Linked(r)' /\ IsActive(r)' /\ IsOver(r)'
                    /\ analyst[b].decided[r] = "running" => HasItsPages(r)'
  BY DEF DecisionStands
<1>1. r \in analyst[b].rows /\ r \in Runs
  BY ReconciliationIs DEF AnalystTypes
<1>2. Linked(r) /\ IsActive(r) /\ IsOver(r) /\ (analyst[b].decided[r] = "running" => HasItsPages(r))
  BY DEF DecisionsStand, DecisionStands
<1>3. Linked(r)'
  BY <1>1, <1>2, StepIsSteady DEF Steady
<1>4. IsOver(r)'
  BY <1>1, <1>2, DecidedStaysOver
<1>5. run[r] # NoRun /\ run[r].link # Unlinked /\ run[r].status \in {"crawling", "running"}
  BY <1>2 DEF Linked, IsActive
<1>6. Locked(r)
  BY <1>1 DEF Locked, Reconciling
<1>7. RowGoesOn(r)
  BY <1>1, <1>5, RowsGoOn
<1>8. run'[r].status \in {"crawling", "running"}
  <2>1. CASE SameRow(r)
    BY <1>5, <2>1 DEF SameRow
  <2>2. ASSUME NEW a \in Analysts, CommitDecisions(a), r \in DOMAIN analyst[a].decided PROVE FALSE
    <3>1. Reconciling(analyst[a])
      BY <2>2 DEF CommitDecisions, Reconciling
    <3>2. r \in analyst[a].rows
      BY <2>2, <3>1, ReconciliationIs DEF AnalystTypes
    <3>3. a = b
      BY <1>1, <3>1, <3>2 DEF LocksExclude
    <3>4. ~Reconciling(analyst'[a])
      <4>1. \A o \in DOMAIN analyst[a].decided : run[o] # NoRun
        BY <3>1 DEF DecisionsStand, DecisionStands, Linked
      <4> QED BY <2>2, <4>1, CommitIs DEF Reconciling, AtRest
    <3> QED BY <3>1, <3>3, <3>4
  <2>3. ASSUME NEW a \in Analysts, CommitReport(a), r = AtWork(a) PROVE FALSE
    BY <1>6, <2>3 DEF CommitReport
  <2> QED BY <1>5, <1>7, <2>1, <2>2, <2>3 DEF RowGoesOn
<1> QED BY <1>1, <1>2, <1>3, <1>4, <1>8, HasItsPagesKept DEF IsActive

LEMMA DecisionsStandStep ==
    ASSUME AgentInv, AgentNext PROVE DecisionsStand'
<1> USE DEF AgentInv, AgentTypes
<1> SUFFICES ASSUME NEW b \in Analysts PROVE DecisionStands(b)'
  BY DEF DecisionsStand
<1>1. CASE analyst'[b] = analyst[b]
  BY <1>1, DecisionKept
<1>2. CASE reconcile_agent_runs(b)
  <2> SUFFICES ASSUME NEW r \in DOMAIN analyst'[b].decided
               PROVE  /\ Linked(r)' /\ IsActive(r)' /\ IsOver(r)'
                      /\ analyst'[b].decided[r] = "running" => HasItsPages(r)'
    BY DEF DecisionStands
  <2>1. UNCHANGED <<run, crawl, pagesRetried, resumedMeanwhile>>
    BY <1>2 DEF reconcile_agent_runs, jobVars
  <2>2. /\ r \in Chosen /\ IsDue(r)
        /\ analyst'[b].decided[r] = "running" => CrawlOf(r).status = "completed"
    BY <1>2, ReconcileIs
  <2>3. r \in Runs /\ IsActive(r)
    BY <2>2, ChosenAreFree
  <2>4. run[r] # NoRun /\ run[r].link # Unlinked /\ CrawlOf(r).status # "active"
    BY <2>2, <2>3, RowsOfRuns DEF IsDue, CrawlOf
  <2> QED BY <2>1, <2>2, <2>3, <2>4 DEF Linked, IsActive, IsOver, HasItsPages, CrawlOf
<1>3. CASE ~Reconciling(analyst'[b])
  BY <1>3 DEF DecisionStands
<1> QED BY <1>1, <1>2, <1>3, AnalystsHoldLess

LEMMA LocksExcludeStep ==
    ASSUME AgentInv, AgentNext PROVE LocksExclude'
<1> USE DEF AgentInv, AgentTypes
<1> SUFFICES ASSUME NEW a \in Analysts, NEW b \in Analysts, a # b, Reconciling(analyst'[a]), Reconciling(analyst'[b])
             PROVE  analyst'[a].rows \cap analyst'[b].rows = {}
  BY DEF LocksExclude
<1>1. ASSUME NEW c \in Analysts, NEW d \in Analysts, c # d, reconcile_agent_runs(c), Reconciling(analyst'[d])
      PROVE  analyst'[c].rows \cap analyst'[d].rows = {}
  <2>1. analyst'[c].rows = Chosen /\ analyst'[d] = analyst[d]
    BY <1>1, ReconcileIs
  <2>2. \A r \in analyst[d].rows : Locked(r)
    BY <1>1, <2>1 DEF Locked, Reconciling
  <2> QED BY <2>1, <2>2, ChosenAreFree
<1>2. CASE analyst'[a] = analyst[a] /\ analyst'[b] = analyst[b]
  BY <1>2 DEF LocksExclude
<1> QED BY <1>1, <1>2, AnalystsHoldLess

LEMMA AnalysesFollowCrawlsStep ==
    ASSUME AgentInv, AgentNext PROVE AnalysesFollowCrawls'
<1> USE DEF AgentInv, AgentTypes
<1> SUFFICES ASSUME NEW a \in Analysts, Analysing(analyst'[a]), NEW r \in DOMAIN analyst'[a].owners
             PROVE  Linked(r)' /\ HasItsPages(r)'
  BY DEF AnalysesFollowCrawls, AnalysisFollowsCrawl
<1>1. CASE HoldsLess(a)
  <2>1. Analysing(analyst[a]) /\ r \in DOMAIN analyst[a].owners
    BY <1>1 DEF HoldsLess
  <2>2. r \in Runs /\ Linked(r) /\ HasItsPages(r)
    BY <2>1, AnalysisIs DEF AnalysesFollowCrawls, AnalysisFollowsCrawl, AnalystTypes
  <2> QED BY <2>2, HasItsPagesKept
<1>2. CASE CommitDecisions(a)
  <2>1. Reconciling(analyst[a])
    BY <1>2 DEF CommitDecisions, Reconciling
  <2>2. \A o \in DOMAIN analyst[a].decided : run[o] # NoRun
    BY <2>1 DEF DecisionsStand, DecisionStands, Linked
  <2>3. r \in DOMAIN analyst[a].decided /\ analyst[a].decided[r] = "running"
    BY <1>2, <2>2, CommitIs DEF Analysing, AtRest
  <2>4. r \in Runs /\ Linked(r) /\ HasItsPages(r)
    BY <2>1, <2>3, ReconciliationIs DEF DecisionsStand, DecisionStands, AnalystTypes
  <2> QED BY <2>4, HasItsPagesKept
<1> QED BY <1>1, <1>2, AnalystsHoldLess

LEMMA FailedRunsWaitForNothingStep ==
    ASSUME AgentInv, AgentNext PROVE FailedRunsWaitForNothing'
<1> USE DEF AgentInv, AgentTypes
<1>s. Steady
  BY StepIsSteady
<1> SUFFICES ASSUME ~resumedMeanwhile', ~pagesRetried', NEW r \in Runs,
                    run'[r].status = "failed", run'[r].link # Unlinked
             PROVE  crawl'[run'[r].link].status # "active"
  BY DEF FailedRunsWaitForNothing
<1>0. ~resumedMeanwhile /\ ~pagesRetried
  BY <1>s DEF Steady
<1>1. Linked(r)'
  BY DEF Linked, NoRun
<1>2. Linked(r)
  BY <1>1, <1>s, LinkRunIs DEF Steady
<1>3. run[r] # NoRun /\ run[r].link # Unlinked /\ run'[r].link = run[r].link
  BY <1>2, <1>s DEF Steady, Linked
<1>4. IsOver(r)' => crawl'[run'[r].link].status # "active"
  BY DEF IsOver, CrawlOf
<1>5. CASE SameRow(r)
  <2>1. run[r].status = "failed"
    BY <1>5 DEF SameRow
  <2>2. IsOver(r)
    BY <1>0, <1>3, <2>1 DEF FailedRunsWaitForNothing, IsOver, CrawlOf
  <2>3. ASSUME NEW c \in Crawls, ResumeCrawl(c), run[r].link = c PROVE FALSE
    BY <2>1, <2>3, ResumeCrawlIs
  <2> QED BY <1>2, <1>4, <2>2, <2>3, IsOverKept
<1>6. ASSUME NEW a \in Analysts, CommitDecisions(a), r \in DOMAIN analyst[a].decided PROVE crawl'[run'[r].link].status # "active"
  <2>1. Reconciling(analyst[a])
    BY <1>6 DEF CommitDecisions, Reconciling
  <2>2. IsOver(r)
    BY <1>6, <2>1 DEF DecisionsStand, DecisionStands
  <2> QED BY <1>2, <1>4, <1>6, <2>1, <2>2, DecidedStaysOver
<1>7. ASSUME NEW a \in Analysts, CommitReport(a), r = AtWork(a) PROVE crawl'[run'[r].link].status # "active"
  <2>1. Analysing(analyst[a]) /\ r \in DOMAIN analyst[a].owners
    BY <1>7, CommitReportIs, AtWorkIsOwned
  <2>2. HasItsPages(r)
    BY <2>1 DEF AnalysesFollowCrawls, AnalysisFollowsCrawl
  <2>3. HasItsPages(r)'
    BY <1>2, <2>2, HasItsPagesKept
  <2> QED BY <2>3 DEF HasItsPages, CrawlOf
<1> QED BY <1>3, <1>5, <1>6, <1>7, RowsGoOn DEF RowGoesOn

-----------------------------------------------------------------------------
\* Leases: while none was lost, an owner is given once.

\* The owner of a linked row grows with each lease and is written back by a
\* report that still owns it.
LEMMA OwnersGrow ==
    ASSUME AgentInv, AgentNext, ~Lost, NEW r \in Runs, Linked(r)
    PROVE  run[r].owner \in Nat /\ run'[r].owner \in Nat /\ run[r].owner <= run'[r].owner
<1> USE DEF AgentInv, AgentTypes
<1>1. run[r] # NoRun /\ run[r] \in RunRows /\ run[r].link # Unlinked
  BY RowsOfRuns DEF Linked
<1>2. run[r].owner \in Nat
  BY <1>1 DEF RunRows
<1>3. RowGoesOn(r)
  BY <1>1, RowsGoOn
<1>4. ASSUME NEW a \in Analysts, CommitReport(a), r = AtWork(a), NEW end, ReportsRow(a, end) PROVE run'[r].owner = run[r].owner
  <2>1. analyst[a].pc = "report" /\ Analysing(analyst[a])
    BY <1>4, CommitReportIs
  <2>2. analyst[a].owners[r] = run[r].owner
    BY <1>4, <2>1 DEF Leases, LeasesAreOwned, LeaseIsOwned
  <2> QED BY <1>4, <2>2 DEF ReportsRow
<1>5. run'[r].owner = run[r].owner \/ run'[r].owner = run[r].owner + 1
  BY <1>1, <1>3, <1>4 DEF RowGoesOn, SameRow, SettlesRow
<1> QED BY <1>2, <1>5

\* What a commitment of decisions gives.
LEMMA LeasesGiven ==
    ASSUME AgentInv, NEW a \in Analysts, CommitDecisions(a), Analysing(analyst'[a]), NEW r \in DOMAIN analyst'[a].owners
    PROVE  /\ Reconciling(analyst[a]) /\ r \in DOMAIN analyst[a].decided /\ r \in Runs /\ r \in analyst[a].rows
           /\ analyst[a].decided[r] = "running" /\ Linked(r)
           /\ analyst'[a].pc = "analyse" /\ analyst'[a].owners[r] = run[r].owner + 1
           /\ run[r].owner \in Nat /\ run'[r].owner = run[r].owner + 1 /\ run'[r].status = "running"
<1> USE DEF AgentInv, AgentTypes
<1>1. Reconciling(analyst[a])
  BY DEF CommitDecisions, Reconciling
<1>2. \A o \in DOMAIN analyst[a].decided : run[o] # NoRun
  BY <1>1 DEF DecisionsStand, DecisionStands, Linked
<1>3. /\ r \in DOMAIN analyst[a].decided /\ analyst[a].decided[r] = "running"
      /\ analyst'[a].pc = "analyse" /\ analyst'[a].owners[r] = run[r].owner + 1
  BY <1>2, CommitIs DEF Analysing, AtRest
<1>4. r \in Runs /\ r \in analyst[a].rows
  BY <1>1, <1>3, ReconciliationIs DEF AnalystTypes
<1>5. Linked(r)
  BY <1>1, <1>3 DEF DecisionsStand, DecisionStands
<1>6. run'[r].owner = run[r].owner + 1 /\ run'[r].status = "running"
  BY <1>3, <1>4, DecisionsWrite DEF SettlesRow
<1>7. run[r].owner \in Nat
  BY <1>4, <1>5, RowsOfRuns DEF Linked, RunRows
<1> QED BY <1>1, <1>3, <1>4, <1>5, <1>6, <1>7

\* Who owned a run before the step owns it after it, or another one does and has
\* a later lease; and an owner analyses a run that is running.
LEMMA LeaseOfHolderKept ==
    ASSUME AgentInv, AgentNext, ~Lost, ~Lost', NEW a \in Analysts, HoldsLess(a), Analysing(analyst'[a]),
           NEW r \in DOMAIN analyst'[a].owners
    PROVE  /\ 1 <= analyst'[a].owners[r] /\ analyst'[a].owners[r] <= run'[r].owner
           /\ analyst'[a].owners[r] = run'[r].owner => run'[r].status = "running"
<1> USE DEF AgentInv, AgentTypes
<1>1. Analysing(analyst[a]) /\ r \in DOMAIN analyst[a].owners /\ analyst'[a].owners[r] = analyst[a].owners[r]
  BY DEF HoldsLess
<1>2. r \in Runs /\ Linked(r) /\ analyst[a].owners[r] \in Nat
  BY <1>1, AnalysisIs DEF AnalystTypes, AnalysesFollowCrawls, AnalysisFollowsCrawl
<1>3. /\ 1 <= analyst[a].owners[r] /\ analyst[a].owners[r] <= run[r].owner
      /\ analyst[a].owners[r] = run[r].owner => run[r].status = "running"
  BY <1>1 DEF Leases, LeasesAreOwned, LeaseIsOwned
<1>4. run[r].owner \in Nat /\ run'[r].owner \in Nat /\ run[r].owner <= run'[r].owner
  BY <1>2, OwnersGrow
<1>5. 1 <= analyst'[a].owners[r] /\ analyst'[a].owners[r] <= run'[r].owner
  BY <1>1, <1>2, <1>3, <1>4
<1>6. ASSUME analyst[a].owners[r] = run'[r].owner PROVE run'[r].status = "running"
  <2>1. analyst[a].owners[r] = run[r].owner /\ run'[r].owner = run[r].owner /\ run[r].status = "running"
    BY <1>2, <1>3, <1>4, <1>6
  <2>2. RowGoesOn(r) /\ run[r].link # Unlinked
    BY <1>2, RowsGoOn DEF Linked
  <2>3. CASE SameRow(r)
    BY <2>1, <2>3 DEF SameRow
  <2>4. ASSUME NEW b \in Analysts, CommitDecisions(b), r \in DOMAIN analyst[b].decided, SettlesRow(b, r)
        PROVE  FALSE
    <3>1. Reconciling(analyst[b])
      BY <2>4 DEF CommitDecisions, Reconciling
    <3>2. analyst[b].decided[r] = "running"
      BY <1>1, <1>2, <2>4, <3>1 DEF Leases, LeasedStayLeased
    <3>3. run'[r].owner = run[r].owner + 1
      BY <2>4, <3>2 DEF SettlesRow
    <3> QED BY <1>4, <2>1, <3>3
  <2>5. ASSUME NEW b \in Analysts, CommitReport(b), r = AtWork(b) PROVE FALSE
    <3>1. analyst[b].pc = "report" /\ Analysing(analyst[b]) /\ IsWork(analyst[b]) /\ analyst'[b] = Rest(b)
      BY <2>5, CommitReportIs
    <3>2. r \in DOMAIN analyst[b].owners
      BY <2>5, <3>1, AtWorkIsOwned
    <3>3. analyst[b].owners[r] = run[r].owner
      BY <2>5, <3>1 DEF Leases, LeasesAreOwned, LeaseIsOwned
    <3>4. a = b
      BY <1>1, <1>2, <2>1, <3>1, <3>2, <3>3 DEF Leases, OwnersDiffer
    <3>5. r \notin DOMAIN Rest(b).owners \/ Rest(b) = AtRest
      BY <2>5, <3>1, RestIs
    <3> QED BY <3>1, <3>4, <3>5 DEF Analysing, AtRest
  <2> QED BY <2>1, <2>2, <2>3, <2>4, <2>5 DEF RowGoesOn
<1> QED BY <1>1, <1>5, <1>6

\* A report that is about to be written still owns its run.
LEMMA ReporterOwns ==
    ASSUME AgentInv, AgentNext, ~Lost, ~Lost', NEW a \in Analysts, analyst'[a] = analyst[a], analyst[a].pc = "report"
    PROVE  analyst[a].owners[AtWork(a)] = run'[AtWork(a)].owner
<1> USE DEF AgentInv, AgentTypes
<1>1. PICK r : r = AtWork(a)
  OBVIOUS
<1>2. Analysing(analyst[a]) /\ r \in DOMAIN analyst[a].owners /\ r \in Runs
  BY <1>1, AtWorkIsOwned DEF Analysing, AnalystTypes
<1>3. analyst[a].owners[r] = run[r].owner
  BY <1>1, <1>2 DEF Leases, LeasesAreOwned, LeaseIsOwned
<1>4. run[r] # NoRun /\ run[r].link # Unlinked
  BY <1>2 DEF AnalysesFollowCrawls, AnalysisFollowsCrawl, Linked
<1>5. RowGoesOn(r)
  BY <1>2, <1>4, RowsGoOn
<1>6. CASE SameRow(r)
  BY <1>1, <1>3, <1>6 DEF SameRow
<1>7. ASSUME NEW b \in Analysts, CommitDecisions(b), r \in DOMAIN analyst[b].decided PROVE FALSE
  <2>1. Reconciling(analyst[b])
    BY <1>7 DEF CommitDecisions, Reconciling
  <2>2. analyst[b].decided[r] = "running"
    BY <1>2, <1>7, <2>1 DEF Leases, LeasedStayLeased
  <2>3. leasedMeanwhile'
    BY <1>1, <1>7, <2>2 DEF CommitDecisions
  <2> QED BY <2>3 DEF Lost
<1>8. ASSUME NEW b \in Analysts, CommitReport(b), r = AtWork(b) PROVE FALSE
  <2>1. analyst[b].pc = "report" /\ Analysing(analyst[b]) /\ IsWork(analyst[b]) /\ analyst'[b] = Rest(b)
    BY <1>8, CommitReportIs
  <2>2. r \in DOMAIN analyst[b].owners
    BY <1>8, <2>1, AtWorkIsOwned
  <2>3. analyst[b].owners[r] = run[r].owner
    BY <1>8, <2>1 DEF Leases, LeasesAreOwned, LeaseIsOwned
  <2>4. a = b
    BY <1>2, <1>3, <2>1, <2>2, <2>3 DEF Leases, OwnersDiffer
  <2>5. Rest(b).pc # "report"
    BY <2>1, RestIs DEF AtRest
  <2> QED BY <2>1, <2>4, <2>5
<1> QED BY <1>1, <1>3, <1>4, <1>5, <1>6, <1>7, <1>8 DEF RowGoesOn

LEMMA LeasesAreOwnedStep ==
    ASSUME AgentInv, AgentNext, ~Lost, ~Lost' PROVE LeasesAreOwned'
<1> USE DEF AgentInv, AgentTypes
<1> SUFFICES ASSUME NEW a \in Analysts PROVE LeaseIsOwned(a)'
  BY DEF LeasesAreOwned
<1> SUFFICES ASSUME Analysing(analyst'[a])
             PROVE  /\ \A r \in DOMAIN analyst'[a].owners :
                          /\ 1 <= analyst'[a].owners[r] /\ analyst'[a].owners[r] <= run'[r].owner
                          /\ analyst'[a].owners[r] = run'[r].owner => run'[r].status = "running"
                    /\ analyst'[a].pc = "report" => analyst'[a].owners[AtWork(a)'] = run'[AtWork(a)'].owner
  BY DEF LeaseIsOwned
<1>1. ASSUME NEW r \in DOMAIN analyst'[a].owners
      PROVE  /\ 1 <= analyst'[a].owners[r] /\ analyst'[a].owners[r] <= run'[r].owner
             /\ analyst'[a].owners[r] = run'[r].owner => run'[r].status = "running"
  <2>1. CASE HoldsLess(a)
    BY <2>1, LeaseOfHolderKept
  <2>2. CASE CommitDecisions(a)
    BY <2>2, LeasesGiven
  <2> QED BY <2>1, <2>2, AnalystsHoldLess
<1>2. ASSUME analyst'[a].pc = "report" PROVE analyst'[a].owners[AtWork(a)'] = run'[AtWork(a)'].owner
  <2>1. CASE analyst'[a] = analyst[a]
    <3>1. AtWork(a)' = AtWork(a)
      BY <2>1 DEF AtWork
    <3> QED BY <1>2, <2>1, <3>1, ReporterOwns
  <2>2. CASE report_node(a)
    <3>1. analyst'[a] = [pc |-> "report", owners |-> analyst[a].owners] /\ run[AtWork(a)].owner = analyst[a].owners[AtWork(a)]
      BY <1>2, <2>2, ReportNodeIs, RestIs DEF AtRest
    <3>2. analyst'[a].owners = analyst[a].owners
      BY <3>1
    <3>3. AtWork(a)' = AtWork(a)
      BY <3>2 DEF AtWork
    <3>4. run' = run
      BY <2>2 DEF report_node
    <3> QED BY <3>1, <3>2, <3>3, <3>4
  <2>3. CASE reconcile_agent_runs(a)
    BY <1>2, <2>3, ReconcileIs
  <2>4. CASE CommitDecisions(a)
    <3>1. \A o \in DOMAIN analyst[a].decided : run[o] # NoRun
      BY <2>4 DEF CommitDecisions, Reconciling, DecisionsStand, DecisionStands, Linked
    <3> QED BY <1>2, <2>4, <3>1, CommitIs DEF AtRest
  <2>5. CASE CommitReport(a)
    BY <1>2, <2>5, CommitReportIs, RestIs DEF AtRest
  <2>6. CASE AnalystStops(a)
    BY <1>2, <2>6, AnalystStopsIs DEF AtRest
  <2> QED BY <2>1, <2>2, <2>3, <2>4, <2>5, <2>6, AnalystsGoOn
<1> QED BY <1>1, <1>2

\* Two analysts whose owners of a run differ.
LEMMA GivenAnew ==
    ASSUME AgentInv, AgentNext, ~Lost, NEW a \in Analysts, NEW b \in Analysts, a # b, CommitDecisions(a),
           Analysing(analyst'[a]), Analysing(analyst'[b]),
           NEW r \in Runs, r \in DOMAIN analyst'[a].owners, r \in DOMAIN analyst'[b].owners
    PROVE  analyst'[a].owners[r] # analyst'[b].owners[r]
<1> USE DEF AgentInv, AgentTypes
<1>1. /\ analyst'[a].owners[r] = run[r].owner + 1 /\ run[r].owner \in Nat
      /\ \A o \in DOMAIN analyst[a].decided : run[o] # NoRun
  BY LeasesGiven DEF DecisionsStand, DecisionStands, Linked
<1>2. analyst'[b] = analyst[b]
  BY <1>1, CommitIs
<1>3. analyst[b].owners[r] \in Nat /\ analyst[b].owners[r] <= run[r].owner
  BY <1>2, AnalysisIs DEF Leases, LeasesAreOwned, LeaseIsOwned, AnalystTypes
<1> QED BY <1>1, <1>2, <1>3

LEMMA OwnersDifferStep ==
    ASSUME AgentInv, AgentNext, ~Lost PROVE OwnersDiffer'
<1> USE DEF AgentInv, AgentTypes
<1> SUFFICES ASSUME NEW a \in Analysts, NEW b \in Analysts, a # b, Analysing(analyst'[a]), Analysing(analyst'[b]),
                    NEW r \in Runs, r \in DOMAIN analyst'[a].owners, r \in DOMAIN analyst'[b].owners
             PROVE  analyst'[a].owners[r] # analyst'[b].owners[r]
  BY DEF OwnersDiffer
<1>1. CASE HoldsLess(a) /\ HoldsLess(b)
  BY <1>1 DEF HoldsLess, Leases, OwnersDiffer
<1>2. CASE CommitDecisions(a)
  BY <1>2, GivenAnew
<1>3. CASE CommitDecisions(b)
  BY <1>3, GivenAnew
<1> QED BY <1>1, <1>2, <1>3, AnalystsHoldLess

LEMMA LeasedStayLeasedStep ==
    ASSUME AgentInv, AgentNext, ~Lost PROVE LeasedStayLeased'
<1> USE DEF AgentInv, AgentTypes
<1> SUFFICES ASSUME NEW a \in Analysts, NEW b \in Analysts, Reconciling(analyst'[a]), Analysing(analyst'[b]),
                    NEW r \in Runs, r \in DOMAIN analyst'[a].decided, r \in DOMAIN analyst'[b].owners
             PROVE  analyst'[a].decided[r] = "running"
  BY DEF LeasedStayLeased
<1>0. a # b
  BY DEF Reconciling, Analysing
<1>1. CASE reconcile_agent_runs(a)
  <2>1. /\ IsDue(r) /\ analyst'[b] = analyst[b]
        /\ analyst'[a].decided[r] = "failed" => ~(CrawlOf(r).status = "completed" /\ run[r].owner # 0)
        /\ AnalystTypes'
    BY <1>0, <1>1, ReconcileIs
  <2>2. analyst'[a].decided[r] \in {"failed", "running"}
    BY <2>1, ReconciliationIs DEF AnalystTypes
  <2>3. HasItsPages(r) /\ Linked(r)
    BY <2>1 DEF AnalysesFollowCrawls, AnalysisFollowsCrawl
  <2>4. CrawlOf(r).status = "completed"
    BY <2>3 DEF HasItsPages, Lost
  <2>5. 1 <= analyst[b].owners[r] /\ analyst[b].owners[r] <= run[r].owner /\ analyst[b].owners[r] \in Nat
    BY <2>1, AnalysisIs DEF Leases, LeasesAreOwned, LeaseIsOwned, AnalystTypes
  <2>6. run[r].owner \in Nat
    BY <2>3, RowsOfRuns DEF Linked, RunRows
  <2>7. run[r].owner # 0
    BY <2>5, <2>6
  <2> QED BY <2>1, <2>2, <2>4, <2>7
<1>2. CASE analyst'[a] = analyst[a] /\ HoldsLess(b)
  BY <1>2 DEF HoldsLess, Leases, LeasedStayLeased
<1>3. CASE analyst'[a] = analyst[a] /\ CommitDecisions(b)
  <2>1. Reconciling(analyst[b]) /\ r \in analyst[b].rows
    BY <1>3, LeasesGiven
  <2>2. Reconciling(analyst[a]) /\ r \in analyst[a].rows
    BY <1>3, ReconciliationIs DEF AnalystTypes
  <2> QED BY <1>0, <2>1, <2>2 DEF LocksExclude
<1> QED BY <1>1, <1>2, <1>3, AnalystsHoldLess

LEMMA LeasesStep ==
    ASSUME AgentInv, AgentNext PROVE ~Lost' => Leases'
<1>1. Lost => Lost'
  BY StepIsSteady DEF Steady, Lost
<1> QED BY <1>1, LeasesAreOwnedStep, OwnersDifferStep, LeasedStayLeasedStep DEF Leases

-----------------------------------------------------------------------------
LEMMA AgentInitially == AgentInit => AgentInv
<1> SUFFICES ASSUME AgentInit PROVE AgentInv
  OBVIOUS
<1>1. AgentTypes
  <2>6. run \in [Runs -> RunRows \cup {NoRun}] /\ crawl \in [Crawls -> CrawlRows \cup {NoCrawl}]
    BY DEF AgentInit
  <2>7. IsStarter(starter)
    BY DEF AgentInit, IsStarter
  <2>8. scheduled \in 0..MaxRuns /\ pagesRetried \in BOOLEAN /\ resumedMeanwhile \in BOOLEAN /\ leasedMeanwhile \in BOOLEAN
    <3>1. scheduled = 0
      BY DEF AgentInit
    <3>2. pagesRetried \in BOOLEAN /\ resumedMeanwhile \in BOOLEAN /\ leasedMeanwhile \in BOOLEAN
      BY Zenon DEF AgentInit
    <3> QED BY <3>1, <3>2, AgentNumbers
  <2>1. RunTypes
    BY <2>6, <2>7, <2>8 DEF RunTypes
  <2>2. analyst = [a \in Analysts |-> AtRest]
    BY DEF AgentInit
  <2>3. DOMAIN analyst = Analysts /\ analyst = [a \in Analysts |-> analyst[a]]
    BY <2>2
  <2>4. \A a \in Analysts : analyst[a] = AtRest
    BY <2>2
  <2>5. AnalystTypes
    BY <2>3, <2>4 DEF AnalystTypes, IsWork
  <2> QED BY <2>1, <2>5 DEF AgentTypes
<1>2. \A r \in Runs : run[r] = NoRun
  BY DEF AgentInit
<1>3. starter.pc = "idle" /\ scheduled = 0 /\ \A a \in Analysts : analyst[a].pc = "idle"
  BY DEF AgentInit, AtRest
<1>4. \A r \in Runs : run[r].status # "failed"
  BY <1>2 DEF NoRun
<1>5. LinksNameCrawls /\ FreshRuns
  BY <1>2, <1>3 DEF LinksNameCrawls, StarterKnowsCrawls, FreshRuns, Linked
<1>6. DecisionsStand /\ LocksExclude /\ AnalysesFollowCrawls /\ Leases
  BY <1>3 DEF DecisionsStand, DecisionStands, LocksExclude, AnalysesFollowCrawls, AnalysisFollowsCrawl, Leases,
              LeasesAreOwned, LeaseIsOwned, OwnersDiffer, LeasedStayLeased, Reconciling, Analysing
<1> QED BY <1>1, <1>4, <1>5, <1>6 DEF AgentInv, FailedRunsWaitForNothing

LEMMA AgentUnchanged ==
    ASSUME AgentInv, UNCHANGED agentVars PROVE AgentInv'
<1>1. UNCHANGED <<run, crawl, starter, scheduled, analyst, pagesRetried, resumedMeanwhile, leasedMeanwhile>>
  BY DEF agentVars, jobVars
<1>2. AgentTypes' /\ LinksNameCrawls' /\ FreshRuns'
  BY <1>1 DEF AgentInv, AgentTypes, RunTypes, AnalystTypes, LinksNameCrawls, StarterKnowsCrawls, FreshRuns, Linked, CrawlOf
<1>3. DecisionsStand' /\ LocksExclude' /\ AnalysesFollowCrawls'
  BY <1>1 DEF AgentInv, DecisionsStand, DecisionStands, LocksExclude, AnalysesFollowCrawls, AnalysisFollowsCrawl,
              Linked, CrawlOf, IsActive, IsOver, HasItsPages
<1>4. FailedRunsWaitForNothing'
  BY <1>1 DEF AgentInv, FailedRunsWaitForNothing
<1>5. ~Lost' => Leases'
  BY <1>1 DEF AgentInv, Leases, LeasesAreOwned, LeaseIsOwned, OwnersDiffer, LeasedStayLeased, AtWork, Lost
<1> QED BY <1>2, <1>3, <1>4, <1>5 DEF AgentInv

\* The inductive invariant of the agent runs: what the requests and the
\* schedule have started and not yet linked is untouched; a reconciliation alone
\* has the rows that it has locked, and its decisions go on to hold while crawls
\* are resumed; and unless a lease was lost between a report's read and its
\* write, an owner is given once and its run is running.
THEOREM AgentInvariance == AgentSpec => []AgentInv
<1>1. AgentInv /\ [AgentNext]_agentVars => AgentInv'
  <2> SUFFICES ASSUME AgentInv, [AgentNext]_agentVars PROVE AgentInv'
    OBVIOUS
  <2>1. CASE AgentNext
    BY <2>1, RunTypesStep, AnalystTypesStep, LinksNameCrawlsStep, FreshRunsStep, DecisionsStandStep, LocksExcludeStep,
       AnalysesFollowCrawlsStep, FailedRunsWaitForNothingStep, LeasesStep DEF AgentInv, AgentTypes
  <2>2. CASE UNCHANGED agentVars
    BY <2>2, AgentUnchanged
  <2> QED BY <2>1, <2>2
<1> QED BY <1>1, AgentInitially, PTL DEF AgentSpec

\* An ended run changes its status only when its crawl is resumed, unless a
\* lease was lost meanwhile or the pages of a crawl were retried.
RunEndsOnce(r) ==
    RunHasEnded(r) /\ run[r].status # run'[r].status /\ ~leasedMeanwhile' /\ ~pagesRetried' =>
        run[r].status = "failed" /\ run'[r].status = "crawling" /\ crawl'[run[r].link].status = "active"

LEMMA RunEndsOnceStep ==
    ASSUME AgentInv, AgentNext, NEW r \in Runs PROVE RunEndsOnce(r)
<1> USE DEF AgentInv, AgentTypes
<1> SUFFICES ASSUME RunHasEnded(r), run[r].status # run'[r].status, ~leasedMeanwhile', ~pagesRetried'
             PROVE  run[r].status = "failed" /\ run'[r].status = "crawling" /\ crawl'[run[r].link].status = "active"
  BY DEF RunEndsOnce
<1>1. ~Lost
  BY StepIsSteady DEF Steady, Lost
<1>2. run[r] # NoRun /\ run[r].status \in {"completed", "failed"}
  BY RowsOfRuns DEF RunHasEnded
<1>3. RowGoesOn(r)
  BY <1>2, RowsGoOn
<1>4. ASSUME NEW a \in Analysts, CommitDecisions(a), r \in DOMAIN analyst[a].decided PROVE FALSE
  <2>1. IsActive(r)
    BY <1>4 DEF CommitDecisions, Reconciling, DecisionsStand, DecisionStands
  <2> QED BY <1>2, <2>1 DEF IsActive
<1>5. ASSUME NEW a \in Analysts, CommitReport(a), r = AtWork(a) PROVE FALSE
  <2>1. analyst[a].pc = "report" /\ Analysing(analyst[a]) /\ r \in DOMAIN analyst[a].owners
    BY <1>5, CommitReportIs, AtWorkIsOwned
  <2>2. run[r].status = "running"
    BY <1>1, <1>5, <2>1 DEF Leases, LeasesAreOwned, LeaseIsOwned
  <2> QED BY <1>2, <2>2
<1>6. ~SameRow(r)
  BY DEF SameRow
<1>7. ASSUME NEW c \in Crawls, ResumeCrawl(c), run[r].link = c PROVE crawl'[run[r].link].status = "active"
  BY <1>7, ResumeCrawlIs
<1> QED BY <1>2, <1>3, <1>4, <1>5, <1>6, <1>7 DEF RowGoesOn

\* A run ends once, and not before what it waits for, for any number of sites,
\* runs, crawls and analysts and however many runs a reconciliation chooses.
THEOREM RunsAreEndedOnce == AgentSpec => RunsEndOnce
<1>1. AgentInv => FailedRunsWaitForNothing
  BY DEF AgentInv
<1>2. AgentInv /\ [AgentNext]_agentVars => [\A r \in Runs : RunEndsOnce(r)]_agentVars
  BY RunEndsOnceStep
<1>3. AgentSpec => []FailedRunsWaitForNothing
  BY <1>1, AgentInvariance, PTL
<1>4. AgentSpec => EndedRunsStayEnded
  <2>1. [\A r \in Runs : RunEndsOnce(r)]_agentVars <=>
        [\A r \in Runs : RunHasEnded(r) /\ run[r].status # run'[r].status /\ ~leasedMeanwhile' /\ ~pagesRetried' =>
            run[r].status = "failed" /\ run'[r].status = "crawling" /\ crawl'[run[r].link].status = "active"]_agentVars
    BY DEF RunEndsOnce
  <2> QED BY <1>2, <2>1, AgentInvariance, PTL DEF AgentSpec, EndedRunsStayEnded
<1> QED BY <1>3, <1>4 DEF RunsEndOnce
=============================================================================
