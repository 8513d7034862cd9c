----------------------------- MODULE FreeAudits -----------------------------
(*****************************************************************************)
(* The public audits of one address and one domain: create_free_audit and    *)
(* execute_free_audit of free_audit_service.py, as start_free_audit and      *)
(* claim_free_audit call them.  An audit runs as a background task of the    *)
(* process that took the request; nothing takes it up when that process ends.*)
(*****************************************************************************)
EXTENDS Integers, FiniteSets

CONSTANTS
    Visits,       \* submissions that run at the same time
    Tasks,        \* background tasks of the process
    NoAudit,      \* NULL
    DailyLimit,   \* audits a requester may start in a day
    Pages,        \* what an audit may find: findings by severity
    MaxAudits,    \* bound: audits ever created
    MaxOverlaps,  \* bound: submissions, or tasks of an audit, that read side by side
    MaxRestarts   \* bound: restarts of the process

Severities == {"critical", "high", "medium", "low"}

ASSUME AuditConstants ==
    /\ Pages \subseteq [Severities -> Nat]
    /\ {DailyLimit, MaxAudits, MaxOverlaps, MaxRestarts} \subseteq Nat

VARIABLES
    request,   \* free_audit_requests
    claimed,   \* the audits that a workspace has claimed
    retaken,   \* history: audits that failed and were taken once more
    visit,     \* submissions in progress
    task,      \* background tasks
    overlaps,  \* how often two of a kind read side by side
    restarts   \* restarts of the process so far

auditVars == <<request, claimed, retaken, visit, task, overlaps, restarts>>
-----------------------------------------------------------------------------
AuditIds == 1..MaxAudits
Unfinished == {"queued", "running"}
Ended == {"completed", "failed"}
Nothing == [s \in Severities |-> 0]
Idle == [pc |-> "idle", id |-> 0]
FreeAuditRequest ==
    [status : Unfinished \cup Ended, old : BOOLEAN, score : 0..100, findings : Pages \cup {Nothing}]

ASSUME NullIsNoRow == NoAudit \notin FreeAuditRequest

AuditInit ==
    /\ request = [a \in AuditIds |-> NoAudit]
    /\ claimed = {} /\ retaken = {}
    /\ visit = [v \in Visits |-> Idle]
    /\ task = [k \in Tasks |-> Idle]
    /\ overlaps = 0 /\ restarts = 0

Created == {a \in AuditIds : request[a] # NoAudit}

Overlap(cond) ==
    /\ cond => overlaps < MaxOverlaps
    /\ overlaps' = IF cond THEN overlaps + 1 ELSE overlaps
-----------------------------------------------------------------------------
\* Submissions.

\* Audits of the last six hours that have not failed.
Duplicates == {a \in Created : ~request[a].old /\ request[a].status \in Unfinished \cup {"completed"}}

\* A day, for the limit, is all that the model sees.
Allowed == Cardinality(Created) < DailyLimit

\* create_free_audit: the duplicate, or room for a new one.
create_free_audit(v) ==
    /\ visit[v].pc = "idle"
    /\ Overlap(\E u \in Visits : visit[u].pc = "insert")
    /\ \/ \E a \in Duplicates :
             /\ \A b \in Duplicates : b <= a
             /\ visit' = [visit EXCEPT ![v] = IF request[a].status = "queued" THEN [pc |-> "schedule", id |-> a]
                                                                         ELSE Idle]
       \/ /\ Duplicates = {} /\ Allowed
          /\ visit' = [visit EXCEPT ![v] = [pc |-> "insert", id |-> 0]]
    /\ UNCHANGED <<request, claimed, retaken, task, restarts>>

InsertAudit(v) ==
    /\ visit[v].pc = "insert"
    /\ \E a \in AuditIds \ Created :
          /\ \A b \in AuditIds : b < a => b \in Created
          /\ request' = [request EXCEPT ![a] = [status |-> "queued", old |-> FALSE, score |-> 0,
                                                findings |-> Nothing]]
          /\ visit' = [visit EXCEPT ![v] = [pc |-> "schedule", id |-> a]]
    /\ UNCHANGED <<claimed, retaken, task, overlaps, restarts>>

\* start_free_audit: a task for an audit that is queued, new or not.
start_free_audit(v) ==
    /\ visit[v].pc = "schedule"
    /\ \E k \in Tasks :
          /\ task[k].pc = "idle"
          /\ task' = [task EXCEPT ![k] = [pc |-> "scheduled", id |-> visit[v].id]]
    /\ visit' = [visit EXCEPT ![v] = Idle]
    /\ UNCHANGED <<request, claimed, retaken, overlaps, restarts>>

\* Six hours pass.
AuditAges(a) ==
    /\ a \in Created /\ ~request[a].old
    /\ request' = [request EXCEPT ![a].old = TRUE]
    /\ UNCHANGED <<claimed, retaken, visit, task, overlaps, restarts>>

\* claim_free_audit wants the audit completed.
claim_free_audit(a) ==
    /\ a \in Created \ claimed
    /\ request[a].status = "completed"
    /\ claimed' = claimed \cup {a}
    /\ UNCHANGED <<request, retaken, visit, task, overlaps, restarts>>
-----------------------------------------------------------------------------
\* execute_free_audit.

\* Mutant of Takes: a task runs whatever the status.
TakesAll(status) == TRUE

Takes(status) == status \in {"queued", "failed"}

\* The status is read; an audit that another task has taken is left alone.
ReadAudit(k) ==
    /\ task[k].pc = "scheduled"
    /\ Overlap(\E j \in Tasks : task[j].pc = "taking" /\ task[j].id = task[k].id)
    /\ task' = [task EXCEPT ![k] = IF Takes(request[@.id].status) THEN [@ EXCEPT !.pc = "taking"] ELSE Idle]
    /\ UNCHANGED <<request, claimed, retaken, visit, restarts>>

TakeAudit(k) ==
    /\ task[k].pc = "taking"
    /\ request' = [request EXCEPT ![task[k].id].status = "running"]
    /\ retaken' = IF request[task[k].id].status = "failed" THEN retaken \cup {task[k].id} ELSE retaken
    /\ task' = [task EXCEPT ![k].pc = "fetching"]
    /\ UNCHANGED <<claimed, visit, overlaps, restarts>>

Deduction(f) == 25 * f["critical"] + 15 * f["high"] + 8 * f["medium"] + 3 * f["low"]

\* build_report: the score of what was found.
Score(f) == IF Deduction(f) > 100 THEN 0 ELSE 100 - Deduction(f)

\* The pages are fetched and the report is committed: the columns that differ
\* from a fresh audit.
CompleteAudit(k) ==
    /\ task[k].pc = "fetching"
    /\ \E f \in Pages :
          request' = [request EXCEPT ![task[k].id].status = "completed", ![task[k].id].score = Score(f),
                                     ![task[k].id].findings = IF f = Nothing THEN @ ELSE f]
    /\ task' = [task EXCEPT ![k] = Idle]
    /\ UNCHANGED <<claimed, retaken, visit, overlaps, restarts>>

\* Mutant of FailAudit: tried again, and again.
FailAuditAgain(k) ==
    /\ task[k].pc = "fetching"
    /\ request' = [request EXCEPT ![task[k].id].status = "queued"]
    /\ task' = [task EXCEPT ![k].pc = "scheduled"]
    /\ UNCHANGED <<claimed, retaken, visit, overlaps, restarts>>

\* The site is blocked or unreachable, the network fails, or the report does.
FailAudit(k) ==
    /\ task[k].pc = "fetching"
    /\ request' = [request EXCEPT ![task[k].id].status = "failed"]
    /\ task' = [task EXCEPT ![k] = Idle]
    /\ UNCHANGED <<claimed, retaken, visit, overlaps, restarts>>

\* The process restarts, and its submissions and tasks are gone.
Restart ==
    /\ restarts < MaxRestarts
    /\ restarts' = restarts + 1
    /\ visit' = [v \in Visits |-> Idle]
    /\ task' = [k \in Tasks |-> Idle]
    /\ UNCHANGED <<request, claimed, retaken, overlaps>>
-----------------------------------------------------------------------------
AuditNext ==
    \/ \E v \in Visits : create_free_audit(v) \/ InsertAudit(v) \/ start_free_audit(v)
    \/ \E k \in Tasks : ReadAudit(k) \/ TakeAudit(k) \/ CompleteAudit(k) \/ FailAudit(k)
    \/ \E a \in AuditIds : AuditAges(a) \/ claim_free_audit(a)
    \/ Restart

\* The event loop gets to every request and to every task: a fetch has a
\* timeout, so it ends.  Tasks are unlimited in the program: one that waits for
\* a free place here gets it in the end (SF).
AuditFairness ==
    /\ \A v \in Visits : WF_auditVars(InsertAudit(v)) /\ SF_auditVars(start_free_audit(v))
    /\ \A k \in Tasks : WF_auditVars(ReadAudit(k)) /\ WF_auditVars(TakeAudit(k))
                        /\ WF_auditVars(CompleteAudit(k) \/ FailAudit(k))

AuditSpec == AuditInit /\ [][AuditNext]_auditVars /\ AuditFairness
-----------------------------------------------------------------------------
\* Properties.

AuditTypeOK ==
    /\ request \in [AuditIds -> FreeAuditRequest \cup {NoAudit}]
    /\ \A v \in Visits : visit[v].pc \in {"idle", "insert", "schedule"}
    /\ \A k \in Tasks : task[k].pc \in {"idle", "scheduled", "taking", "fetching"}
    /\ overlaps \in 0..MaxOverlaps

\* Submissions of six hours share one audit; two that read side by side may make
\* one more, and a second task may revive one that failed.
SubmissionsShareAnAudit == Cardinality(Duplicates \ retaken) <= 1 + overlaps

\* Unless the process restarted, an audit that has not ended is in the hands of
\* a submission or of a task, so nobody waits for it in vain.
UnfinishedIsInHand ==
    restarts = 0 => \A a \in Created : request[a].status \in Unfinished =>
        \/ \E v \in Visits : visit[v] = [pc |-> "schedule", id |-> a]
        \/ \E k \in Tasks : task[k].pc # "idle" /\ task[k].id = a

\* A workspace that claimed a completed audit keeps a completed audit, whose
\* score is the score of its findings, unless two tasks took it side by side.
ClaimedReportsStay ==
    overlaps = 0 => \A a \in claimed :
        request[a].status = "completed" /\ request[a].score = Score(request[a].findings)

\* A better page never scores less, and the score says whether all is well.
ScoresCompare ==
    \A a, b \in Created :
        /\ request[a].status = "completed" /\ request[b].status = "completed" /\ overlaps = 0
        /\ \A s \in Severities : request[a].findings[s] <= request[b].findings[s]
        => request[a].score >= request[b].score

\* An audit ends, unless the process restarted in the meantime.
HasEnded(a) == a \in Created /\ request[a].status \in Ended
AuditsEnd == \A a \in AuditIds : (a \in Created) ~> (HasEnded(a) \/ restarts > 0)

\* Audits are shared, worked on, claimed and scored as visitors are told, whatever
\* submissions and tasks overlap.
AuditInv ==
    AuditTypeOK /\ SubmissionsShareAnAudit /\ UnfinishedIsInHand /\ ClaimedReportsStay /\ ScoresCompare
=============================================================================
