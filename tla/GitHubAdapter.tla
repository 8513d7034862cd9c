---------------------------- MODULE GitHubAdapter ----------------------------
(*****************************************************************************)
(* github_execution_service.py: one operator action carried out on GitHub,   *)
(* from the snapshot of the base branch to the draft pull request, its       *)
(* validation and its rollback.                                              *)
(*                                                                           *)
(* The queue runs one attempt at a time (GovernedExecution), in one database *)
(* transaction; every call to GitHub is seen at once, by people who push,    *)
(* close, merge and disconnect between any two calls.  A crash takes back    *)
(* the transaction and none of the calls.                                    *)
(*****************************************************************************)
EXTENDS Naturals, Sequences

CONSTANTS
    MaxAttempts,  \* settings.execution_job_max_attempts
    HumanActs,    \* what people may do to the repository
    MaxActs,      \* bound: what they do
    FaultKinds,   \* which faults may happen
    MaxFaults     \* bound: faults

ASSUME AdapterConstants ==
    /\ MaxAttempts \in Nat \ {0}
    /\ {MaxActs, MaxFaults} \subseteq Nat
    /\ HumanActs \subseteq {"base", "push", "amend", "open", "close", "reopen", "ready", "merge",
                            "delete", "deny", "disconnect"}
    /\ FaultKinds \subseteq {"crash", "unavailable", "lost", "error"}

VARIABLES
    stage,      \* the job in the queue, or how the action ended
    attempts,   \* attempt_count of that job
    record,     \* the github_executions row
    connected,  \* the site's repository connection and its installation are active
    commits,    \* GitHub: the commits of the repository, in order of creation
    base,       \* GitHub: head of the base branch
    branch,     \* GitHub: head of the action's branch, 0 if there is none
    pulls,      \* GitHub: pull requests from that branch
    worker,     \* the attempt that runs, with what its transaction holds
    acts,       \* human acts so far
    faults      \* faults so far

queue == <<stage, attempts, record>>
repository == <<commits, base, branch, pulls>>
vars == <<queue, connected, repository, worker, acts, faults>>
-----------------------------------------------------------------------------
JobTypes == {"execute", "validate", "rollback"}

\* parent is the commit it was made on, tagged that its message names the action.
Commit == [parent : Nat, tagged : BOOLEAN]

Pull == [state : {"open", "closed", "merged"}, draft : BOOLEAN, head : Nat]

GitHubExecution ==
    [commit : Nat, base : Nat, pull : Nat,
     status : {"none", "draft_pr_open", "validated", "validation_failed", "rolled_back"}]

NoRecord == [commit |-> 0, base |-> 0, pull |-> 0, status |-> "none"]

Pcs == {"idle", "capture", "apply", "branch", "ref", "raced", "find", "pull", "applied",
        "val_ref", "val_pull", "val_after",
        "undo", "undo_close", "undo_ref", "undo_delete", "undone"}

\* base is the snapshot of this attempt, seen the branch head it has read, and
\* row what the transaction has made of the record.
Attempt == [pc : Pcs, base : Nat, seen : Nat, commit : Nat, row : GitHubExecution]

Idle == [pc |-> "idle", base |-> 0, seen |-> 0, commit |-> 0, row |-> NoRecord]

TypeOK ==
    /\ stage \in JobTypes \cup {"succeeded", "rolled_back", "failed"}
    /\ attempts \in 0..MaxAttempts
    /\ base \in 0..Len(commits)
    /\ branch \in 0..Len(commits)
    /\ record \in GitHubExecution
    /\ connected \in BOOLEAN
    /\ commits \in Seq(Commit)
    /\ pulls \in Seq(Pull)
    /\ worker \in Attempt
    /\ acts \in 0..MaxActs
    /\ faults \in 0..MaxFaults

\* The approved action has just been enqueued.
Init ==
    /\ stage = "execute" /\ attempts = 0 /\ record = NoRecord
    /\ connected = TRUE
    /\ commits = <<[parent |-> 0, tagged |-> FALSE]>> /\ base = 1 /\ branch = 0 /\ pulls = <<>>
    /\ worker = Idle
    /\ acts = 0 /\ faults = 0
-----------------------------------------------------------------------------
\* What GitHub does.

OpenPulls == {n \in DOMAIN pulls : pulls[n].state = "open"}

CloseAll == [n \in DOMAIN pulls |-> [pulls[n] EXCEPT !.state = IF @ = "open" THEN "closed" ELSE @]]

\* The head of an open pull request follows its branch.
MoveBranch(c) ==
    /\ branch' = c
    /\ pulls' = [n \in DOMAIN pulls |-> [pulls[n] EXCEPT !.head = IF n \in OpenPulls THEN c ELSE @]]

RefIsCreated == branch = 0 /\ branch' = worker.commit /\ UNCHANGED pulls

OpenPull(draft) ==
    /\ branch # 0
    /\ OpenPulls = {}
    /\ pulls' = Append(pulls, [state |-> "open", draft |-> draft, head |-> branch])
    /\ UNCHANGED branch

PullIsClosed ==
    /\ pulls' = [pulls EXCEPT ![record.pull].state = IF @ = "open" THEN "closed" ELSE @]
    /\ UNCHANGED branch

\* Deleting a branch closes its pull requests.
RefIsDeleted == branch # 0 /\ branch' = 0 /\ pulls' = CloseAll
-----------------------------------------------------------------------------
\* The attempt: its transaction, as process_execution_job commits it.

At(pc) == worker.pc = pc

Begin(pc) ==
    /\ worker' = [Idle EXCEPT !.pc = pc, !.row = record]
    /\ UNCHANGED <<queue, connected, repository, acts, faults>>

StartAttempt ==
    /\ At("idle")
    /\ \/ stage = "execute" /\ Begin("capture")
       \/ stage = "validate" /\ Begin("val_ref")
       \/ stage = "rollback" /\ Begin("undo")

\* The handler of an exception commits what the attempt has written so far.
Fail(retryable) ==
    /\ attempts' = attempts + 1
    /\ stage' = IF retryable /\ attempts + 1 < MaxAttempts THEN stage ELSE "failed"
    /\ record' = worker.row
    /\ worker' = Idle

Finish(outcome) ==
    /\ stage' = outcome
    /\ attempts' = 0
    /\ record' = worker.row
    /\ worker' = Idle
    /\ UNCHANGED <<connected, repository, acts, faults>>

\* A provider call that changes nothing but what the attempt knows.
Reads(next) ==
    /\ worker' = next
    /\ UNCHANGED <<queue, connected, repository, acts, faults>>

\* It ends the attempt with an error that is not retryable.
Refuses == Fail(FALSE) /\ UNCHANGED <<connected, repository, acts, faults>>

\* _execution_context is read again by each method of the adapter.
NeedsContext == worker.pc \in {"capture", "apply", "val_ref", "val_after", "undo"}
InContext(pc) == At(pc) /\ connected

ContextRefused == NeedsContext /\ ~connected /\ Refuses
-----------------------------------------------------------------------------
\* execute: capture, then apply.

CaptureBefore == InContext("capture") /\ Reads([worker EXCEPT !.pc = "apply", !.base = base])

\* A path exists or is gone, an expected_sha differs, or nothing would change.
\* The plan was approved for the commit the base branch began with.
PlanRefused ==
    /\ \/ At("capture") /\ base # 1
       \/ At("branch") /\ branch = 0 /\ worker.base # 1
    /\ Refuses

\* A complete record is replayed: no call to GitHub at all.
CheckBase ==
    /\ InContext("apply")
    /\ \/ /\ worker.row # NoRecord
          /\ Reads([worker EXCEPT !.pc = "applied"])
       \/ /\ worker.row = NoRecord
          /\ base = worker.base
          /\ Reads([worker EXCEPT !.pc = "branch"])
       \/ /\ worker.row = NoRecord
          /\ base # worker.base
          /\ Refuses

\* Mutant of Adoptable: the parents of the commit are not looked at.
AdoptableByMessage(c) == commits[c].tagged

\* Mutant of Adoptable: a branch that exists is always a conflict.
NeverAdoptable(c) == FALSE

\* The commit of an earlier attempt: it names the action and lies on the base.
Adoptable(c) == commits[c].tagged /\ commits[c].parent = worker.base

\* Without a branch a commit object is made, which nobody sees yet.
ReadBranch ==
    /\ At("branch")
    /\ \/ /\ branch # 0
          /\ Adoptable(branch)
          /\ Reads([worker EXCEPT !.pc = "find", !.commit = branch])
       \/ /\ branch # 0
          /\ ~Adoptable(branch)
          /\ Refuses
       \/ /\ branch = 0
          /\ commits' = Append(commits, [parent |-> worker.base, tagged |-> TRUE])
          /\ worker' = [worker EXCEPT !.pc = "ref", !.commit = Len(commits) + 1]
          /\ UNCHANGED <<queue, connected, base, branch, pulls, acts, faults>>

\* POST git/refs, which answers 422 when there is a branch by then.
CreateRef ==
    /\ At("ref")
    /\ \/ /\ RefIsCreated
          /\ worker' = [worker EXCEPT !.pc = "find"]
          /\ UNCHANGED <<queue, connected, commits, base, acts, faults>>
       \/ /\ branch # 0
          /\ Reads([worker EXCEPT !.pc = "raced"])

\* Mutant of ReadRacedRef: the creation is tried again.
RetryRacedRef ==
    /\ At("raced")
    /\ Reads([worker EXCEPT !.pc = IF branch = worker.commit THEN "find" ELSE "ref"])

ReadRacedRef ==
    /\ At("raced")
    /\ IF branch = worker.commit THEN Reads([worker EXCEPT !.pc = "find"]) ELSE Refuses

Recorded(n) ==
    [worker EXCEPT !.pc = "applied",
                   !.row = [commit |-> worker.commit, base |-> worker.base, pull |-> n,
                            status |-> "draft_pr_open"]]

\* GET pulls, state open: one that is there is taken if it is a draft.
FindPull ==
    /\ At("find")
    /\ \/ /\ OpenPulls = {}
          /\ Reads([worker EXCEPT !.pc = "pull"])
       \/ \E n \in OpenPulls :
             IF pulls[n].draft THEN Reads(Recorded(n)) ELSE Refuses

\* POST pulls, which answers 422 when a pull request or no branch is there by
\* then, or nothing is left to merge.
CreatePull ==
    /\ At("pull")
    /\ \/ /\ OpenPull(TRUE)
          /\ worker' = Recorded(Len(pulls) + 1)
          /\ UNCHANGED <<queue, connected, commits, base, acts, faults>>
       \/ /\ \/ branch = 0
             \/ \E n \in DOMAIN pulls : pulls[n].state \in {"open", "merged"}
          /\ Refuses

FinishExecute == At("applied") /\ Finish("validate")
-----------------------------------------------------------------------------
\* validate: the branch, then the pull request, then the "after" snapshot.

ReadRefForValidation ==
    InContext("val_ref") /\ Reads([worker EXCEPT !.pc = "val_pull", !.seen = branch])

ChecksPass ==
    LET pull == pulls[record.pull] IN
    /\ pull.state = "open" /\ pull.draft
    /\ worker.seen = record.commit
    /\ pull.head = record.commit

CheckPull ==
    /\ At("val_pull")
    /\ Reads([worker EXCEPT !.pc = "val_after",
                            !.row.status = IF ChecksPass THEN "validated" ELSE "validation_failed"])

FinishValidate ==
    /\ InContext("val_after")
    /\ IF worker.row.status = "validated" THEN Finish("succeeded") ELSE Refuses
-----------------------------------------------------------------------------
\* rollback.

enqueue_rollback ==
    /\ stage = "succeeded"
    /\ connected
    /\ stage' = "rollback"
    /\ attempts' = 0
    /\ UNCHANGED <<record, connected, repository, worker, acts, faults>>

\* Mutant of ReadPull: a pull request that is closed has been rolled back.
ReadPullClosedIsDone ==
    /\ InContext("undo")
    /\ \/ pulls[record.pull].state = "merged" /\ Refuses
       \/ pulls[record.pull].state = "open" /\ Reads([worker EXCEPT !.pc = "undo_close"])
       \/ pulls[record.pull].state = "closed" /\ Reads([worker EXCEPT !.pc = "undone"])

ReadPull ==
    /\ InContext("undo")
    /\ \/ pulls[record.pull].state = "merged" /\ Refuses
       \/ pulls[record.pull].state = "open" /\ Reads([worker EXCEPT !.pc = "undo_close"])
       \/ pulls[record.pull].state = "closed" /\ Reads([worker EXCEPT !.pc = "undo_ref"])

\* PATCH, state closed: GitHub may refuse it of a pull request merged by then.
ClosePull ==
    /\ At("undo_close")
    /\ \/ /\ PullIsClosed
          /\ worker' = [worker EXCEPT !.pc = "undo_ref"]
          /\ UNCHANGED <<queue, connected, commits, base, acts, faults>>
       \/ pulls[record.pull].state = "merged" /\ Refuses

\* A branch with newer commits is not deleted.
ReadRefForRollback ==
    /\ At("undo_ref")
    /\ \/ branch = 0 /\ Reads([worker EXCEPT !.pc = "undone"])
       \/ branch = record.commit /\ branch # 0 /\ Reads([worker EXCEPT !.pc = "undo_delete"])
       \/ branch \notin {0, record.commit} /\ Refuses

\* DELETE git/refs, by name; it answers 422 when the branch is gone.
DeleteRef ==
    /\ At("undo_delete")
    /\ \/ /\ RefIsDeleted
          /\ worker' = [worker EXCEPT !.pc = "undone"]
          /\ UNCHANGED <<queue, connected, commits, base, acts, faults>>
       \/ branch = 0 /\ Refuses

RolledBack == [worker.row EXCEPT !.status = "rolled_back"]

FinishRollback ==
    /\ At("undone")
    /\ stage' = "rolled_back"
    /\ attempts' = 0
    /\ record' = RolledBack
    /\ worker' = Idle
    /\ UNCHANGED <<connected, repository, acts, faults>>
-----------------------------------------------------------------------------
\* Faults.

Fault(kind) ==
    /\ kind \in FaultKinds
    /\ faults < MaxFaults
    /\ faults' = faults + 1

Calling == worker.pc \notin {"idle", "applied", "undone"}

\* No connection, 429 or 5xx, or a broken answer, before anything has changed.
ProviderUnavailable ==
    /\ Fault("unavailable")
    /\ Calling
    /\ Fail(TRUE)
    /\ UNCHANGED <<connected, repository, acts>>

\* The same after GitHub has done what it was asked.
AnswerLost ==
    /\ Fault("lost")
    /\ \/ At("ref") /\ RefIsCreated
       \/ At("pull") /\ OpenPull(TRUE)
       \/ At("undo_close") /\ PullIsClosed
       \/ At("undo_delete") /\ RefIsDeleted
    /\ Fail(TRUE)
    /\ UNCHANGED <<connected, commits, base, acts>>

\* An error of the bookkeeping that follows the adapter.
StepRaises ==
    /\ Fault("error")
    /\ worker.pc \in {"applied", "undone"}
    /\ attempts' = attempts + 1
    /\ stage' = IF attempts + 1 < MaxAttempts THEN stage ELSE "failed"
    /\ record' = IF At("undone") THEN RolledBack ELSE worker.row
    /\ worker' = Idle
    /\ UNCHANGED <<connected, repository, acts>>

WorkerDies ==
    /\ Fault("crash")
    /\ ~At("idle")
    /\ worker' = Idle
    /\ UNCHANGED <<queue, connected, repository, acts>>
-----------------------------------------------------------------------------
\* People, at GitHub and in the settings of the workspace.

Human(act) ==
    /\ act \in HumanActs
    /\ acts < MaxActs
    /\ acts' = acts + 1
    /\ UNCHANGED faults

NewCommit(parent, tagged) == commits' = Append(commits, [parent |-> parent, tagged |-> tagged])

PushBase ==
    /\ Human("base")
    /\ NewCommit(base, FALSE)
    /\ base' = Len(commits) + 1
    /\ UNCHANGED <<queue, connected, branch, pulls, worker>>

PushBranch ==
    /\ Human("push")
    /\ NewCommit(IF branch = 0 THEN base ELSE branch, FALSE)
    /\ MoveBranch(Len(commits) + 1)
    /\ UNCHANGED <<queue, connected, base, worker>>

\* Another content under the same message and parent, forced.
AmendBranch ==
    /\ Human("amend")
    /\ branch # 0
    /\ commits' = Append(commits, commits[branch])
    /\ MoveBranch(Len(commits) + 1)
    /\ UNCHANGED <<queue, connected, base, worker>>

DeleteBranch ==
    /\ Human("delete")
    /\ RefIsDeleted
    /\ UNCHANGED <<queue, connected, commits, base, worker>>

OpenOwnPull ==
    /\ Human("open")
    /\ \E draft \in BOOLEAN : OpenPull(draft)
    /\ UNCHANGED <<queue, connected, commits, base, worker>>

SetPull(act, n, from, to) ==
    /\ Human(act)
    /\ pulls[n] = from
    /\ pulls' = [pulls EXCEPT ![n] = to]
    /\ UNCHANGED <<queue, connected, branch, worker>>

ChangePull(n) ==
    LET pull == pulls[n] IN
    \/ /\ pull.state = "open"
       /\ SetPull("close", n, pull, [pull EXCEPT !.state = "closed"])
       /\ UNCHANGED <<commits, base>>
    \/ /\ pull.state = "closed" /\ branch # 0 /\ branch = pull.head /\ OpenPulls = {}
       /\ SetPull("reopen", n, pull, [pull EXCEPT !.state = "open"])
       /\ UNCHANGED <<commits, base>>
    \/ /\ pull.state = "open" /\ pull.draft
       /\ SetPull("ready", n, pull, [pull EXCEPT !.draft = FALSE])
       /\ UNCHANGED <<commits, base>>
    \/ /\ pull.state = "open" /\ ~pull.draft
       /\ SetPull("merge", n, pull, [pull EXCEPT !.state = "merged"])
       /\ NewCommit(base, FALSE)
       /\ base' = Len(commits) + 1

\* The App has lost a permission: GitHub refuses the call with 401, 403 or 404.
ProviderDenies ==
    /\ Human("deny")
    /\ Calling
    /\ Fail(FALSE)
    /\ UNCHANGED <<connected, repository>>

disconnect_installation ==
    /\ Human("disconnect")
    /\ connected
    /\ connected' = FALSE
    /\ UNCHANGED <<queue, repository, worker>>

connect_authorized_repository ==
    /\ Human("disconnect")
    /\ ~connected
    /\ connected' = TRUE
    /\ UNCHANGED <<queue, repository, worker>>
-----------------------------------------------------------------------------
AdapterStep ==
    \/ StartAttempt \/ ContextRefused
    \/ CaptureBefore \/ PlanRefused \/ CheckBase \/ ReadBranch \/ CreateRef \/ ReadRacedRef
    \/ FindPull \/ CreatePull \/ FinishExecute
    \/ ReadRefForValidation \/ CheckPull \/ FinishValidate
    \/ ReadPull \/ ClosePull \/ ReadRefForRollback \/ DeleteRef \/ FinishRollback

FaultStep == ProviderUnavailable \/ AnswerLost \/ StepRaises \/ WorkerDies

HumanStep ==
    \/ PushBase \/ PushBranch \/ AmendBranch \/ DeleteBranch \/ OpenOwnPull
    \/ \E n \in DOMAIN pulls : ChangePull(n)
    \/ ProviderDenies \/ disconnect_installation \/ connect_authorized_repository

Next == AdapterStep \/ FaultStep \/ HumanStep \/ enqueue_rollback

Spec == Init /\ [][Next]_vars

\* The queue starts an attempt as long as a job is left, and an attempt goes on.
FairSpec == Spec /\ WF_vars(AdapterStep)
-----------------------------------------------------------------------------
\* Properties.

\* The commit of the record names the action and lies on the base commit the
\* record gives, however many attempts, crashes and pushes to the base branch
\* lie between the commit and the record.
RecordedCommitIsGoverned ==
    record # NoRecord => /\ commits[record.commit].tagged
                         /\ commits[record.commit].parent = record.base

\* "Replaying an already-created action reuses its deterministic branch/PR": as
\* long as nobody else touches the repository, no crash, unavailable provider,
\* lost answer or error ends the action before its attempts run out.
UndisturbedNeverFails == acts = 0 /\ faults < MaxAttempts => stage # "failed"

\* A rollback that succeeded has left neither the pull request open nor the
\* branch at the governed commit, through retries and people closing, reopening
\* and deleting in between (nobody restores a deleted branch at its old commit).
RollbackLeavesNothing ==
    stage = "rolled_back" => pulls[record.pull].state # "open" /\ branch # record.commit

\* Execution and validation never move or delete a branch that exists, be it
\* their own or one that somebody pushed between the look and the creation.
NeverForcePushes ==
    [][acts' = acts /\ branch # 0 /\ stage # "rollback" => branch' = branch]_vars

\* Every job ends, whatever people do to the repository.
JobsEnd == stage \in JobTypes ~> stage \notin JobTypes
=============================================================================
