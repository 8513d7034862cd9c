-------------------------- MODULE FreeAuditsProofs --------------------------
(*****************************************************************************)
(* Proofs about FreeAudits: that audits are shared, worked on, claimed and   *)
(* scored as visitors are told (AuditInv), for any number of submissions,    *)
(* tasks, pages and restarts.                                                *)
(*****************************************************************************)
EXTENDS FreeAudits, FiniteSetTheorems, TLAPS

VisitState == [pc : {"idle", "insert", "schedule"}, id : Nat]
TaskState == [pc : {"idle", "scheduled", "taking", "fetching"}, id : Nat]

AuditTypes ==
    /\ request \in [AuditIds -> FreeAuditRequest \cup {NoAudit}]
    /\ visit \in [Visits -> VisitState] /\ task \in [Tasks -> TaskState]
    /\ overlaps \in 0..MaxOverlaps /\ restarts \in Nat

\* Audits are never deleted: those that anybody has to do with are there.
AuditsThere ==
    /\ claimed \subseteq Created /\ retaken \subseteq Created
    /\ \A v \in Visits : visit[v].pc = "schedule" => visit[v].id \in Created
    /\ \A k \in Tasks : task[k].pc # "idle" => task[k].id \in Created

Active(t) == t.pc \in {"taking", "fetching"}

\* An audit is queued until a task has taken it.
FetchedIsTaken ==
    \A k \in Tasks : task[k].pc = "fetching" => request[task[k].id].status # "queued"

\* Who has an unfinished audit in hand, by its status.
QueuedInHand(a) ==
    \/ \E v \in Visits : visit[v] = [pc |-> "schedule", id |-> a]
    \/ \E k \in Tasks : task[k].pc \in {"scheduled", "taking"} /\ task[k].id = a
RunningInHand(a) == \E k \in Tasks : task[k].pc = "fetching" /\ task[k].id = a

HandInv ==
    restarts = 0 => \A a \in Created :
        /\ request[a].status = "queued" => QueuedInHand(a)
        /\ request[a].status = "running" => RunningInHand(a)

\* While nothing was read side by side, an audit has one task, whose step its
\* status tells, and it is completed once.
Alone ==
    /\ \A j, k \in Tasks : Active(task[j]) /\ Active(task[k]) /\ task[j].id = task[k].id => j = k
    /\ \A k \in Tasks :
          /\ task[k].pc = "taking" => request[task[k].id].status \in {"queued", "failed"}
          /\ task[k].pc = "fetching" => request[task[k].id].status = "running"
    /\ \A a \in Created :
          IF request[a].status = "completed" THEN request[a].score = Score(request[a].findings)
                                             ELSE request[a].findings = Nothing
    /\ \A a \in claimed : request[a].status = "completed"

AloneInv == overlaps = 0 => Alone

\* What may still become an audit that is shared: the submissions that found
\* none, and the tasks of an audit beyond the one that it is owed.
Inserting == {v \in Visits : visit[v].pc = "insert"}
Working == {k \in Tasks : Active(task[k]) /\ task[k].id \notin retaken}
Covers(t) == t.pc = "taking" \/ (t.pc = "fetching" /\ request[t.id].status # "failed")
Covered == {a \in Created \ retaken : \E k \in Tasks : task[k].id = a /\ Covers(task[k])}
Shared == Duplicates \ retaken

AuditsFew ==
    /\ IsFiniteSet(Inserting) /\ IsFiniteSet(Working)
    /\ Cardinality(Working) <= overlaps + Cardinality(Covered)
    /\ Cardinality(Shared) + Cardinality(Inserting) + Cardinality(Working) <= 1 + overlaps + Cardinality(Covered)

AuditIInv == AuditTypes /\ AuditsThere /\ FetchedIsTaken /\ HandInv /\ AloneInv /\ AuditsFew
-----------------------------------------------------------------------------
LEMMA AuditBounds ==
    /\ MaxAudits \in Nat /\ MaxOverlaps \in Nat /\ MaxRestarts \in Nat
    /\ AuditIds = 1..MaxAudits /\ IsFiniteSet(AuditIds)
    /\ \A f \in Pages : f \in [Severities -> Nat]
    /\ Nothing \in [Severities -> Nat]
  <1>1. MaxAudits \in Nat /\ MaxOverlaps \in Nat /\ MaxRestarts \in Nat
    BY AuditConstants
  <1> QED BY <1>1, AuditConstants, FS_Interval DEF AuditIds, Nothing

LEMMA Scores ==
    /\ \A f \in [Severities -> Nat] : Score(f) \in 0..100
    /\ \A f, g \in [Severities -> Nat] : (\A s \in Severities : f[s] <= g[s]) => Score(f) >= Score(g)
  <1>1. ASSUME NEW f \in [Severities -> Nat]
        PROVE  f["critical"] \in Nat /\ f["high"] \in Nat /\ f["medium"] \in Nat /\ f["low"] \in Nat
    BY DEF Severities
  <1>2. ASSUME NEW a \in Nat, NEW b \in Nat, NEW c \in Nat, NEW d \in Nat
        PROVE  25 * a + 15 * b + 8 * c + 3 * d \in Nat
    OBVIOUS
  <1>3. ASSUME NEW f \in [Severities -> Nat] PROVE Deduction(f) \in Nat
    BY <1>1, <1>2 DEF Deduction
  <1>4. ASSUME NEW f \in [Severities -> Nat], NEW g \in [Severities -> Nat], \A s \in Severities : f[s] <= g[s]
        PROVE  Deduction(f) <= Deduction(g)
    <2>1. /\ f["critical"] <= g["critical"] /\ f["high"] <= g["high"]
          /\ f["medium"] <= g["medium"] /\ f["low"] <= g["low"]
      BY <1>4 DEF Severities
    <2>2. ASSUME NEW a \in Nat, NEW b \in Nat, NEW c \in Nat, NEW d \in Nat,
                 NEW a1 \in Nat, NEW b1 \in Nat, NEW c1 \in Nat, NEW d1 \in Nat,
                 a <= a1, b <= b1, c <= c1, d <= d1
          PROVE  25 * a + 15 * b + 8 * c + 3 * d <= 25 * a1 + 15 * b1 + 8 * c1 + 3 * d1
      BY <2>2
    <2> QED BY <1>1, <2>1, <2>2 DEF Deduction
  <1> QED BY <1>3, <1>4 DEF Score

LEMMA AuditRowFacts ==
    /\ NoAudit \notin FreeAuditRequest
    /\ \A r \in FreeAuditRequest : /\ r # NoAudit
                                   /\ r.status \in {"queued", "running", "completed", "failed"}
                                   /\ r.old \in BOOLEAN /\ r.score \in 0..100
                                   /\ r.findings \in Pages \cup {Nothing}
    /\ \A r \in FreeAuditRequest : r.findings \in [Severities -> Nat]
  BY NullIsNoRow, AuditBounds DEF FreeAuditRequest, Unfinished, Ended

\* One row, one task, one submission is written.
LEMMA RowWritten ==
    ASSUME AuditTypes, NEW a \in Created, NEW r \in FreeAuditRequest, request' = [request EXCEPT ![a] = r]
    PROVE  /\ request' \in [AuditIds -> FreeAuditRequest \cup {NoAudit}]
           /\ request'[a] = r /\ \A b \in AuditIds \ {a} : request'[b] = request[b]
           /\ request[a] \in FreeAuditRequest /\ a \in AuditIds
           /\ Created' = Created
  <1>1. a \in AuditIds /\ request[a] \in FreeAuditRequest
    BY DEF AuditTypes, Created
  <1>2. /\ request' \in [AuditIds -> FreeAuditRequest \cup {NoAudit}]
        /\ request'[a] = r /\ \A b \in AuditIds \ {a} : request'[b] = request[b]
    BY <1>1 DEF AuditTypes
  <1>3. Created' = Created
    BY <1>1, <1>2, AuditRowFacts DEF Created
  <1> QED BY <1>1, <1>2, <1>3

LEMMA TaskMoved ==
    ASSUME AuditTypes, NEW k \in Tasks, NEW t \in TaskState, task' = [task EXCEPT ![k] = t]
    PROVE  /\ task' \in [Tasks -> TaskState] /\ task[k] \in TaskState
           /\ task'[k] = t /\ \A j \in Tasks \ {k} : task'[j] = task[j]
  BY DEF AuditTypes

LEMMA VisitMoved ==
    ASSUME AuditTypes, NEW v \in Visits, NEW w \in VisitState, visit' = [visit EXCEPT ![v] = w]
    PROVE  /\ visit' \in [Visits -> VisitState] /\ visit[v] \in VisitState
           /\ visit'[v] = w /\ \A u \in Visits \ {v} : visit'[u] = visit[u]
  BY DEF AuditTypes

LEMMA IdleState == Idle \in VisitState /\ Idle \in TaskState /\ Idle.pc = "idle"
  BY DEF Idle, VisitState, TaskState

LEMMA FewAreFinite ==
    ASSUME AuditTypes
    PROVE  /\ IsFiniteSet(Covered) /\ Cardinality(Covered) \in Nat
           /\ IsFiniteSet(Shared) /\ Cardinality(Shared) \in Nat
           /\ overlaps \in Nat
  <1>1. Covered \in SUBSET AuditIds /\ Shared \in SUBSET AuditIds
    BY DEF Covered, Shared, Duplicates, Created
  <1>2. IsFiniteSet(AuditIds) /\ MaxOverlaps \in Nat
    BY AuditBounds
  <1>3. IsFiniteSet(Covered) /\ IsFiniteSet(Shared)
    BY <1>1, <1>2, FS_Subset
  <1>4. overlaps \in Nat
    BY <1>2 DEF AuditTypes
  <1> QED BY <1>3, <1>4, FS_CardinalityType

\* An audit that is covered has a task of its own.
LEMMA CoveredIsWork ==
    ASSUME AuditIInv
    PROVE  Cardinality(Covered) <= Cardinality(Working)
  <1>1. IsFiniteSet(Working) /\ Cardinality(Working) \in Nat
    BY FS_CardinalityType DEF AuditIInv, AuditsFew
  <1> DEFINE Hands == {k \in Working : Covers(task[k])}
             f == [k \in Hands |-> task[k].id]
  <1>2. IsFiniteSet(Hands) /\ Cardinality(Hands) <= Cardinality(Working) /\ Cardinality(Hands) \in Nat
    BY <1>1, FS_Subset, FS_CardinalityType
  <1>3. \A k \in Hands : f[k] \in Covered
    <2> SUFFICES ASSUME NEW k \in Hands PROVE f[k] \in Covered
      OBVIOUS
    <2>1. k \in Tasks /\ Covers(task[k]) /\ f[k] = task[k].id /\ task[k].id \notin retaken /\ task[k].pc # "idle"
      BY DEF Working, Covers
    <2>2. task[k].id \in Created
      BY <2>1 DEF AuditIInv, AuditsThere
    <2> QED BY ONLY <2>1, <2>2 DEF Covered
  <1>4. \A a \in Covered : \E k \in Hands : f[k] = a
    <2> SUFFICES ASSUME NEW a \in Covered PROVE \E k \in Hands : f[k] = a
      OBVIOUS
    <2>1. PICK k \in Tasks : task[k].id = a /\ Covers(task[k])
      BY DEF Covered
    <2>2. a \notin retaken /\ Active(task[k])
      BY <2>1 DEF Covered, Covers, Active
    <2>3. k \in Hands
      BY <2>1, <2>2 DEF Working
    <2> QED BY <2>1, <2>3
  <1>5. f \in Surjection(Hands, Covered)
    BY <1>3, <1>4 DEF Surjection
  <1>6. Cardinality(Covered) <= Cardinality(Hands)
    BY <1>2, <1>5, FS_Surjection
  <1>7. Cardinality(Covered) \in Nat
    BY FewAreFinite DEF AuditIInv
  <1> QED BY <1>1, <1>2, <1>6, <1>7

LEMMA FewNumbers ==
    ASSUME AuditIInv
    PROVE  /\ Cardinality(Covered) \in Nat /\ Cardinality(Shared) \in Nat /\ overlaps \in Nat
           /\ Cardinality(Inserting) \in Nat /\ Cardinality(Working) \in Nat
           /\ IsFiniteSet(Covered) /\ IsFiniteSet(Shared) /\ IsFiniteSet(Inserting) /\ IsFiniteSet(Working)
           /\ Cardinality(Working) <= overlaps + Cardinality(Covered)
           /\ Cardinality(Shared) + Cardinality(Inserting) + Cardinality(Working) <= 1 + overlaps + Cardinality(Covered)
  BY FewAreFinite, FS_CardinalityType DEF AuditIInv, AuditsFew

\* What the numbers must do for the bound to stay.
LEMMA FewStay ==
    ASSUME AuditIInv, IsFiniteSet(Inserting)', IsFiniteSet(Working)', overlaps' \in Nat,
           Cardinality(Working)' + overlaps + Cardinality(Covered)
               <= Cardinality(Working) + overlaps' + Cardinality(Covered)',
           Cardinality(Shared)' + Cardinality(Inserting)' + Cardinality(Working)' + overlaps + Cardinality(Covered)
               <= Cardinality(Shared) + Cardinality(Inserting) + Cardinality(Working) + overlaps' + Cardinality(Covered)'
    PROVE  AuditsFew'
  <1>1. /\ Cardinality(Covered) \in Nat /\ Cardinality(Shared) \in Nat /\ overlaps \in Nat
        /\ Cardinality(Inserting) \in Nat /\ Cardinality(Working) \in Nat
        /\ Cardinality(Working) <= overlaps + Cardinality(Covered)
        /\ Cardinality(Shared) + Cardinality(Inserting) + Cardinality(Working) <= 1 + overlaps + Cardinality(Covered)
    BY FewNumbers
  <1>2. /\ Cardinality(Covered)' \in Nat /\ Cardinality(Shared)' \in Nat
        /\ Cardinality(Inserting)' \in Nat /\ Cardinality(Working)' \in Nat
    <2>1. Covered' \in SUBSET AuditIds /\ Shared' \in SUBSET AuditIds
      BY DEF Covered, Shared, Duplicates, Created
    <2> QED BY <2>1, AuditBounds, FS_Subset, FS_CardinalityType
  <1> QED BY <1>1, <1>2 DEF AuditsFew
-----------------------------------------------------------------------------
\* Submissions: no task moves.

\* Two that find no audit were counted by the overlap.
LEMMA CreateKeeps ==
    ASSUME AuditIInv, NEW v \in Visits, create_free_audit(v)
    PROVE  AuditIInv'
  <1>1. UNCHANGED <<request, claimed, retaken, task, restarts>> /\ visit[v].pc = "idle"
    BY DEF create_free_audit
  <1>2. AuditTypes /\ AuditsThere /\ FetchedIsTaken /\ HandInv /\ AloneInv /\ AuditsFew
    BY DEF AuditIInv
  <1>3. PICK w \in VisitState :
            /\ visit' = [visit EXCEPT ![v] = w]
            /\ w.pc = "insert" => Duplicates = {}
            /\ w.pc = "schedule" => w.id \in Created
    <2>1. CASE \E a \in Duplicates :
                 visit' = [visit EXCEPT ![v] = IF request[a].status = "queued" THEN [pc |-> "schedule", id |-> a] ELSE Idle]
      <3>1. PICK a \in Duplicates :
                 visit' = [visit EXCEPT ![v] = IF request[a].status = "queued" THEN [pc |-> "schedule", id |-> a] ELSE Idle]
        BY <2>1
      <3>2. a \in Created /\ a \in Nat
        BY AuditBounds DEF Duplicates, Created
      <3>3. [pc |-> "schedule", id |-> a] \in VisitState
        BY <3>2 DEF VisitState
      <3>4. CASE request[a].status = "queued"
        BY <3>1, <3>2, <3>3, <3>4
      <3>5. CASE request[a].status # "queued"
        BY <3>1, <3>5, IdleState
      <3> QED BY <3>4, <3>5
    <2>2. CASE Duplicates = {} /\ visit' = [visit EXCEPT ![v] = [pc |-> "insert", id |-> 0]]
      <3>1. PICK x : x = [pc |-> "insert", id |-> 0]
        OBVIOUS
      <3>2. x \in VisitState /\ x.pc = "insert"
        BY <3>1 DEF VisitState
      <3> QED BY <2>2, <3>1, <3>2
    <2> QED BY <2>1, <2>2 DEF create_free_audit
  <1>4. /\ visit' \in [Visits -> VisitState] /\ visit'[v] = w
        /\ \A u \in Visits \ {v} : visit'[u] = visit[u]
    BY <1>2, <1>3, VisitMoved
  <1>5. PICK o \in {0, 1} :
            /\ overlaps' = overlaps + o /\ overlaps' \in 0..MaxOverlaps
            /\ o = 0 => Inserting = {}
    <2>1. overlaps \in 0..MaxOverlaps /\ MaxOverlaps \in Nat
      BY <1>2, AuditBounds DEF AuditTypes
    <2>2. CASE \E u \in Visits : visit[u].pc = "insert"
      <3>1. overlaps < MaxOverlaps /\ overlaps' = overlaps + 1
        BY <2>2 DEF create_free_audit, Overlap
      <3>2. overlaps + 1 \in 0..MaxOverlaps
        BY <2>1, <3>1
      <3> QED BY <3>1, <3>2
    <2>3. CASE ~\E u \in Visits : visit[u].pc = "insert"
      <3>1. overlaps' = overlaps /\ overlaps + 0 = overlaps
        BY <2>1, <2>3 DEF create_free_audit, Overlap
      <3>2. Inserting = {}
        BY <2>3 DEF Inserting
      <3> QED BY <2>1, <3>1, <3>2
    <2> QED BY <2>2, <2>3
  <1>6. AuditTypes'
    BY <1>1, <1>2, <1>4, <1>5 DEF AuditTypes
  <1>7. AuditsThere'
    BY <1>1, <1>2, <1>3, <1>4 DEF AuditsThere, Created
  <1>8. FetchedIsTaken'
    BY <1>1, <1>2 DEF FetchedIsTaken
  <1>9. HandInv'
    <2> SUFFICES ASSUME restarts = 0, NEW a \in Created
                 PROVE  /\ request[a].status = "queued" => QueuedInHand(a)'
                        /\ request[a].status = "running" => RunningInHand(a)'
      BY <1>1 DEF HandInv, Created, QueuedInHand, RunningInHand
    <2>1. request[a].status = "running" => RunningInHand(a)'
      BY <1>1, <1>2 DEF HandInv, RunningInHand
    <2>2. ASSUME request[a].status = "queued" PROVE QueuedInHand(a)'
      <3>1. QueuedInHand(a)
        BY <1>2, <2>2 DEF HandInv
      <3>2. visit[v] # [pc |-> "schedule", id |-> a]
        BY <1>1
      <3> QED BY <1>1, <1>4, <3>1, <3>2 DEF QueuedInHand
    <2> QED BY <2>1, <2>2
  <1>10. AloneInv'
    <2> SUFFICES ASSUME overlaps' = 0 PROVE Alone'
      BY DEF AloneInv
    <2>1. overlaps = 0
      BY <1>2, <1>5 DEF AuditTypes
    <2> QED BY <1>1, <1>2, <2>1 DEF AloneInv, Alone, Active, Created
  <1>11. AuditsFew'
    <2>1. Covered' = Covered /\ Working' = Working /\ Shared' = Shared
      BY <1>1 DEF Covered, Covers, Working, Active, Shared, Duplicates, Created
    <2>2. IsFiniteSet(Working) /\ IsFiniteSet(Inserting)
      BY FewNumbers
    <2>3. /\ Cardinality(Covered) \in Nat /\ Cardinality(Shared) \in Nat /\ overlaps \in Nat
          /\ Cardinality(Working) \in Nat /\ Cardinality(Inserting) \in Nat
          /\ Cardinality(Working) <= overlaps + Cardinality(Covered)
          /\ overlaps' \in Nat /\ overlaps' = overlaps + o
      BY <1>5, FewNumbers
    <2>4. CASE w.pc # "insert"
      <3>1. Inserting' = Inserting
        BY <1>1, <1>4, <2>4 DEF Inserting
      <3> QED
        <4>1. /\ Cardinality(Working') + overlaps + Cardinality(Covered)
                    <= Cardinality(Working) + overlaps' + Cardinality(Covered')
              /\ Cardinality(Shared') + Cardinality(Inserting') + Cardinality(Working') + overlaps + Cardinality(Covered)
                    <= Cardinality(Shared) + Cardinality(Inserting) + Cardinality(Working) + overlaps' + Cardinality(Covered')
          BY <2>1, <2>3, <3>1
        <4> QED BY <2>1, <2>2, <2>3, <3>1, <4>1, FewStay
    <2>5. CASE w.pc = "insert"
      <3>1. Inserting' = Inserting \cup {v} /\ v \notin Inserting
        BY <1>1, <1>4, <2>5 DEF Inserting
      <3>2. IsFiniteSet(Inserting') /\ Cardinality(Inserting') = Cardinality(Inserting) + 1
        BY <2>2, <3>1, FS_AddElement
      <3>3. CASE o = 1
        <4>1. /\ Cardinality(Working') + overlaps + Cardinality(Covered)
                    <= Cardinality(Working) + overlaps' + Cardinality(Covered')
              /\ Cardinality(Shared') + Cardinality(Inserting') + Cardinality(Working') + overlaps + Cardinality(Covered)
                    <= Cardinality(Shared) + Cardinality(Inserting) + Cardinality(Working) + overlaps' + Cardinality(Covered')
          BY <2>1, <2>3, <3>2, <3>3
        <4> QED BY <2>1, <2>2, <2>3, <3>2, <4>1, FewStay
      <3>4. CASE o = 0
        <4>1. Inserting = {} /\ Cardinality(Inserting) = 0
          BY <1>5, <3>4, FS_EmptySet
        <4>2. Shared = {} /\ Cardinality(Shared) = 0
          BY <1>3, <2>5, FS_EmptySet DEF Shared
        <4>3. Cardinality(Inserting') = 1 /\ Cardinality(Shared') = 0 /\ overlaps' = overlaps
          BY <1>5, <2>1, <2>3, <3>2, <3>4, <4>1, <4>2
        <4>4. /\ Cardinality(Working') <= overlaps' + Cardinality(Covered')
              /\ Cardinality(Shared') + Cardinality(Inserting') + Cardinality(Working') <= 1 + overlaps' + Cardinality(Covered')
          BY <2>1, <2>3, <4>3, <4>3
        <4> QED BY <2>1, <2>2, <3>2, <4>4 DEF AuditsFew
      <3> QED BY <3>3, <3>4
    <2> QED BY <2>4, <2>5
  <1> QED BY <1>6, <1>7, <1>8, <1>9, <1>10, <1>11 DEF AuditIInv

LEMMA InsertKeeps ==
    ASSUME AuditIInv, NEW v \in Visits, InsertAudit(v)
    PROVE  AuditIInv'
  <1>1. UNCHANGED <<claimed, retaken, task, overlaps, restarts>> /\ visit[v].pc = "insert"
    BY DEF InsertAudit
  <1>2. AuditTypes /\ AuditsThere /\ FetchedIsTaken /\ HandInv /\ AloneInv /\ AuditsFew
    BY DEF AuditIInv
  <1>3. PICK r : r = [status |-> "queued", old |-> FALSE, score |-> 0, findings |-> Nothing]
    OBVIOUS
  <1>4. PICK a \in AuditIds \ Created :
            /\ request' = [request EXCEPT ![a] = r]
            /\ visit' = [visit EXCEPT ![v] = [pc |-> "schedule", id |-> a]]
    BY <1>3 DEF InsertAudit
  <1>5. r \in FreeAuditRequest /\ r.status = "queued" /\ r.findings = Nothing
    BY <1>3 DEF FreeAuditRequest, Unfinished, Ended
  <1>6. PICK w : w = [pc |-> "schedule", id |-> a]
    OBVIOUS
  <1>7. w \in VisitState /\ w.pc = "schedule" /\ w.id = a
    BY <1>4, <1>6, AuditBounds DEF VisitState
  <1>8. /\ visit' \in [Visits -> VisitState] /\ visit'[v] = w
        /\ \A u \in Visits \ {v} : visit'[u] = visit[u]
    BY <1>2, <1>4, <1>6, <1>7, VisitMoved
  <1>9. /\ request' \in [AuditIds -> FreeAuditRequest \cup {NoAudit}]
        /\ request'[a] = r /\ \A b \in AuditIds \ {a} : request'[b] = request[b]
    BY <1>2, <1>4, <1>5 DEF AuditTypes
  <1>10. Created' = Created \cup {a} /\ a \notin Created /\ Created \subseteq AuditIds \ {a}
    BY <1>4, <1>5, <1>9, AuditRowFacts DEF Created
  <1>11. AuditTypes'
    BY <1>1, <1>2, <1>8, <1>9 DEF AuditTypes
  <1>12. AuditsThere'
    BY <1>1, <1>2, <1>7, <1>8, <1>10 DEF AuditsThere
  <1>13. \A k \in Tasks : task[k].pc # "idle" => request'[task[k].id] = request[task[k].id] /\ task[k].id # a
    BY <1>2, <1>9, <1>10 DEF AuditsThere
  <1>14. FetchedIsTaken'
    BY <1>1, <1>2, <1>13 DEF FetchedIsTaken
  <1>15. HandInv'
    <2> SUFFICES ASSUME restarts = 0, NEW b \in Created \cup {a}
                 PROVE  /\ request'[b].status = "queued" => QueuedInHand(b)'
                        /\ request'[b].status = "running" => RunningInHand(b)'
      BY <1>1, <1>10 DEF HandInv, QueuedInHand, RunningInHand
    <2>1. CASE b = a
      BY <1>5, <1>6, <1>8, <1>9, <2>1 DEF QueuedInHand
    <2>2. CASE b # a
      <3>1. b \in Created /\ request'[b] = request[b]
        BY <1>9, <1>10, <2>2
      <3>2. request[b].status = "running" => RunningInHand(b)'
        BY <1>1, <1>2, <3>1 DEF HandInv, RunningInHand
      <3>3. visit[v] # [pc |-> "schedule", id |-> b]
        BY <1>1
      <3>4. request[b].status = "queued" => QueuedInHand(b)'
        BY <1>1, <1>2, <1>8, <3>1, <3>3 DEF HandInv, QueuedInHand
      <3> QED BY <3>1, <3>2, <3>4
    <2> QED BY <2>1, <2>2
  <1>16. AloneInv'
    <2> SUFFICES ASSUME overlaps = 0 PROVE Alone'
      BY <1>1 DEF AloneInv
    <2>1. Alone
      BY <1>2 DEF AloneInv
    <2>2. \A j, k \in Tasks : Active(task'[j]) /\ Active(task'[k]) /\ task'[j].id = task'[k].id => j = k
      BY <1>1, <2>1 DEF Alone
    <2>3. \A k \in Tasks :
              /\ task'[k].pc = "taking" => request'[task'[k].id].status \in {"queued", "failed"}
              /\ task'[k].pc = "fetching" => request'[task'[k].id].status = "running"
      BY <1>1, <1>13, <2>1 DEF Alone
    <2>4. \A b \in Created' :
              IF request'[b].status = "completed" THEN request'[b].score = Score(request'[b].findings)
                                                  ELSE request'[b].findings = Nothing
      BY <1>5, <1>9, <1>10, <2>1 DEF Alone
    <2>5. \A b \in claimed' : request'[b].status = "completed"
      BY <1>1, <1>2, <1>9, <1>10, <2>1 DEF Alone, AuditsThere
    <2> QED BY <2>2, <2>3, <2>4, <2>5 DEF Alone, Active
  <1>17. AuditsFew'
    <2>1. Working' = Working
      BY <1>1 DEF Working, Active
    <2>2. \A k \in Tasks : Covers(task[k])' <=> Covers(task[k])
      BY <1>1, <1>13 DEF Covers
    <2>3. Covered' = Covered
      <3>1. \A k \in Tasks : Covers(task[k]) => task[k].id # a
        BY <1>13 DEF Covers
      <3>2. \A b : (\E k \in Tasks : task'[k].id = b /\ Covers(task[k])') <=> \E k \in Tasks : task[k].id = b /\ Covers(task[k])
        BY <1>1, <2>2
      <3> QED BY <1>1, <1>10, <3>1, <3>2 DEF Covered
    <2>4. Inserting' = Inserting \ {v} /\ v \in Inserting
      BY <1>1, <1>7, <1>8 DEF Inserting
    <2>5. Shared' \in SUBSET (Shared \cup {a})
      BY <1>1, <1>9, <1>10 DEF Shared, Duplicates
    <2>6. /\ Cardinality(Covered) \in Nat /\ Cardinality(Shared) \in Nat /\ overlaps \in Nat
          /\ Cardinality(Working) \in Nat /\ Cardinality(Inserting) \in Nat
          /\ IsFiniteSet(Working) /\ IsFiniteSet(Inserting) /\ IsFiniteSet(Shared)
      BY FewNumbers
    <2>7. IsFiniteSet(Inserting') /\ Cardinality(Inserting') = Cardinality(Inserting) - 1
      BY <2>4, <2>6, FS_RemoveElement
    <2>8. Cardinality(Shared') <= Cardinality(Shared) + 1
      <3>1. IsFiniteSet(Shared \cup {a}) /\ Cardinality(Shared \cup {a}) <= Cardinality(Shared) + 1
        <4>1. /\ IsFiniteSet(Shared \cup {a})
              /\ Cardinality(Shared \cup {a}) = IF a \in Shared THEN Cardinality(Shared) ELSE Cardinality(Shared) + 1
          BY <2>6, FS_AddElement
        <4> QED BY ONLY <2>6, <4>1
      <3>2. Cardinality(Shared') <= Cardinality(Shared \cup {a}) /\ Cardinality(Shared') \in Nat /\ Cardinality(Shared \cup {a}) \in Nat
        BY <2>5, <3>1, FS_Subset, FS_CardinalityType
      <3> QED BY <2>6, <3>1, <3>2
    <2>9. Cardinality(Inserting') \in Nat /\ Cardinality(Shared') \in Nat
      <3>1. IsFiniteSet(Shared \cup {a})
        BY <2>6, FS_AddElement
      <3> QED BY <2>5, <2>7, <3>1, FS_Subset, FS_CardinalityType
    <2>10. /\ Cardinality(Working') + overlaps + Cardinality(Covered)
                 <= Cardinality(Working) + overlaps' + Cardinality(Covered')
           /\ Cardinality(Shared') + Cardinality(Inserting') + Cardinality(Working') + overlaps + Cardinality(Covered)
                 <= Cardinality(Shared) + Cardinality(Inserting) + Cardinality(Working) + overlaps' + Cardinality(Covered')
      BY <1>1, <2>1, <2>3, <2>6, <2>7, <2>8, <2>9
    <2> QED BY <1>1, <2>1, <2>6, <2>7, <2>10, FewStay
  <1> QED BY <1>11, <1>12, <1>14, <1>15, <1>16, <1>17 DEF AuditIInv

LEMMA StartKeeps ==
    ASSUME AuditIInv, NEW v \in Visits, start_free_audit(v)
    PROVE  AuditIInv'
  <1>1. UNCHANGED <<request, claimed, retaken, overlaps, restarts>> /\ visit[v].pc = "schedule"
    BY DEF start_free_audit
  <1>2. AuditTypes /\ AuditsThere /\ FetchedIsTaken /\ HandInv /\ AloneInv /\ AuditsFew
    BY DEF AuditIInv
  <1>3. PICK k \in Tasks : task[k].pc = "idle" /\ task' = [task EXCEPT ![k] = [pc |-> "scheduled", id |-> visit[v].id]]
    BY DEF start_free_audit
  <1>4. visit' = [visit EXCEPT ![v] = Idle]
    BY DEF start_free_audit
  <1>5. PICK a, t : a = visit[v].id /\ t = [pc |-> "scheduled", id |-> a]
    OBVIOUS
  <1>6. a \in Created /\ a \in Nat /\ t \in TaskState /\ t.pc = "scheduled" /\ t.id = a
    <2>1. a \in Created
      BY <1>1, <1>2, <1>5 DEF AuditsThere
    <2>2. a \in Nat
      BY <2>1, AuditBounds DEF Created
    <2> QED BY <1>5, <2>1, <2>2 DEF TaskState
  <1>7. /\ task' \in [Tasks -> TaskState] /\ task'[k] = t /\ task[k] \in TaskState
        /\ \A j \in Tasks \ {k} : task'[j] = task[j]
    BY <1>2, <1>3, <1>5, <1>6, TaskMoved
  <1>8. /\ visit' \in [Visits -> VisitState] /\ visit'[v] = Idle /\ visit[v] \in VisitState
        /\ \A u \in Visits \ {v} : visit'[u] = visit[u]
    BY <1>2, <1>4, IdleState, VisitMoved
  <1>9. AuditTypes'
    BY <1>1, <1>2, <1>7, <1>8 DEF AuditTypes
  <1>10. Created' = Created
    BY <1>1 DEF Created
  <1>11. AuditsThere'
    BY <1>1, <1>2, <1>6, <1>7, <1>8, <1>10, IdleState DEF AuditsThere
  <1>12. FetchedIsTaken'
    BY <1>1, <1>2, <1>6, <1>7 DEF FetchedIsTaken
  <1>13. HandInv'
    <2> SUFFICES ASSUME restarts = 0, NEW b \in Created
                 PROVE  /\ request[b].status = "queued" => QueuedInHand(b)'
                        /\ request[b].status = "running" => RunningInHand(b)'
      BY <1>1, <1>10 DEF HandInv, QueuedInHand, RunningInHand
    <2>1. request[b].status = "running" => RunningInHand(b)'
      BY <1>2, <1>3, <1>7 DEF HandInv, RunningInHand
    <2>2. ASSUME request[b].status = "queued" PROVE QueuedInHand(b)'
      <3>1. CASE b = a
        BY <1>6, <1>7, <3>1 DEF QueuedInHand
      <3>2. CASE b # a
        <4>1. visit[v] # [pc |-> "schedule", id |-> b]
          BY <1>5, <3>2
        <4>2. QueuedInHand(b)
          BY <1>2, <2>2 DEF HandInv
        <4> QED BY <1>3, <1>7, <1>8, <4>1, <4>2 DEF QueuedInHand
      <3> QED BY <3>1, <3>2
    <2> QED BY <2>1, <2>2
  <1>14. \A j \in Tasks : (Active(task[j])' <=> Active(task[j])) /\ (Active(task[j]) => task'[j] = task[j])
    BY <1>3, <1>6, <1>7 DEF Active
  <1>15. AloneInv'
    <2> SUFFICES ASSUME overlaps = 0 PROVE Alone'
      BY <1>1 DEF AloneInv
    <2>1. Alone
      BY <1>2 DEF AloneInv
    <2>2. \A j, l \in Tasks : Active(task[j])' /\ Active(task[l])' /\ task'[j].id = task'[l].id => j = l
      BY <1>14, <2>1 DEF Alone
    <2>3. \A j \in Tasks :
              /\ task'[j].pc = "taking" => request[task'[j].id].status \in {"queued", "failed"}
              /\ task'[j].pc = "fetching" => request[task'[j].id].status = "running"
      BY <1>6, <1>7, <2>1 DEF Alone
    <2> QED BY <1>1, <1>10, <2>1, <2>2, <2>3 DEF Alone
  <1>16. AuditsFew'
    <2>1. Working' = Working
      BY <1>1, <1>14 DEF Working
    <2>2. Shared' = Shared
      BY <1>1 DEF Shared, Duplicates, Created
    <2>3. Inserting' = Inserting
      BY <1>1, <1>8, IdleState DEF Inserting
    <2>4. \A j \in Tasks : Covers(task[j])' <=> Covers(task[j])
      BY <1>1, <1>3, <1>6, <1>7 DEF Covers
    <2>5. \A j \in Tasks : Covers(task[j]) => task'[j] = task[j]
      BY <1>14 DEF Covers, Active
    <2>6. Covered' = Covered
      <3>1. \A b : (\E j \in Tasks : task'[j].id = b /\ Covers(task[j])') <=> \E j \in Tasks : task[j].id = b /\ Covers(task[j])
        BY <2>4, <2>5
      <3> QED BY <1>1, <1>10, <3>1 DEF Covered
    <2> QED BY <1>1, <1>2, <2>1, <2>2, <2>3, <2>6 DEF AuditsFew
  <1> QED BY <1>9, <1>11, <1>12, <1>13, <1>15, <1>16 DEF AuditIInv

\* A row that changes its age, or nothing but who has claimed it.
LEMMA AgeKeeps ==
    ASSUME AuditIInv, NEW a \in AuditIds, AuditAges(a)
    PROVE  AuditIInv'
  <1>1. UNCHANGED <<claimed, retaken, visit, task, overlaps, restarts>> /\ a \in Created
    BY DEF AuditAges
  <1>2. AuditTypes /\ AuditsThere /\ FetchedIsTaken /\ HandInv /\ AloneInv /\ AuditsFew
    BY DEF AuditIInv
  <1>3. PICK r : r = [request[a] EXCEPT !.old = TRUE]
    OBVIOUS
  <1>4. request' = [request EXCEPT ![a] = r]
    BY <1>3 DEF AuditAges
  <1>5. /\ r \in FreeAuditRequest /\ r.status = request[a].status /\ r.score = request[a].score
        /\ r.findings = request[a].findings /\ r.old = TRUE
    <2>1. request[a] \in FreeAuditRequest
      BY <1>1, <1>2 DEF AuditTypes, Created
    <2> QED BY <1>3, <2>1 DEF FreeAuditRequest
  <1>6. /\ request' \in [AuditIds -> FreeAuditRequest \cup {NoAudit}]
        /\ request'[a] = r /\ \A b \in AuditIds \ {a} : request'[b] = request[b]
        /\ Created' = Created
    BY <1>1, <1>2, <1>4, <1>5, RowWritten
  <1>7. AuditTypes'
    BY <1>1, <1>2, <1>6 DEF AuditTypes
  <1>8. AuditsThere'
    BY <1>1, <1>2, <1>6 DEF AuditsThere
  <1>9. \A b \in Created : /\ request'[b].status = request[b].status /\ request'[b].score = request[b].score
                           /\ request'[b].findings = request[b].findings
    BY <1>5, <1>6 DEF Created
  <1>10. \A k \in Tasks : task[k].pc # "idle" => request'[task[k].id].status = request[task[k].id].status
    BY <1>2, <1>9 DEF AuditsThere
  <1>11. FetchedIsTaken'
    BY <1>1, <1>2, <1>10 DEF FetchedIsTaken
  <1>12. HandInv'
    BY <1>1, <1>2, <1>6, <1>9 DEF HandInv, QueuedInHand, RunningInHand
  <1>13. AloneInv'
    <2> SUFFICES ASSUME overlaps = 0 PROVE Alone'
      BY <1>1 DEF AloneInv
    <2>1. Alone
      BY <1>2 DEF AloneInv
    <2>2. \A b \in Created : IF request'[b].status = "completed" THEN request'[b].score = Score(request'[b].findings)
                                                                  ELSE request'[b].findings = Nothing
      BY <1>9, <2>1 DEF Alone
    <2>3. \A b \in claimed : request'[b].status = "completed"
      BY <1>2, <1>9, <2>1 DEF Alone, AuditsThere
    <2>4. \A k \in Tasks :
              /\ task[k].pc = "taking" => request'[task[k].id].status \in {"queued", "failed"}
              /\ task[k].pc = "fetching" => request'[task[k].id].status = "running"
      BY <1>10, <2>1 DEF Alone
    <2> QED BY <1>1, <1>6, <2>1, <2>2, <2>3, <2>4 DEF Alone, Active
  <1>14. AuditsFew'
    <2>1. Working' = Working /\ Inserting' = Inserting
      BY <1>1 DEF Working, Active, Inserting
    <2>2. \A k \in Tasks : Covers(task[k])' <=> Covers(task[k])
      BY <1>1, <1>10 DEF Covers
    <2>3. Covered' = Covered
      BY <1>1, <1>6, <2>2 DEF Covered
    <2>4. Shared' \in SUBSET Shared
      <3>1. \A b \in Created : request'[b].old = FALSE => request[b].old = FALSE
        BY <1>5, <1>6 DEF Created
      <3>2. \A b \in Created : request[b].old \in BOOLEAN /\ request'[b].old \in BOOLEAN
        BY <1>2, <1>6, <1>7, AuditRowFacts DEF AuditTypes, Created
      <3>3. \A b \in Created : ~request'[b].old => ~request[b].old
        BY <3>1, <3>2
      <3>4. Duplicates' \subseteq Duplicates
        BY <1>6, <1>9, <3>3 DEF Duplicates
      <3> QED BY <1>1, <3>4 DEF Shared
    <2>5. Cardinality(Shared') <= Cardinality(Shared) /\ Cardinality(Shared') \in Nat
      BY <2>4, FewNumbers, FS_Subset, FS_CardinalityType
    <2>6. /\ Cardinality(Working') + overlaps + Cardinality(Covered)
                 <= Cardinality(Working) + overlaps' + Cardinality(Covered')
          /\ Cardinality(Shared') + Cardinality(Inserting') + Cardinality(Working') + overlaps + Cardinality(Covered)
                 <= Cardinality(Shared) + Cardinality(Inserting) + Cardinality(Working) + overlaps' + Cardinality(Covered')
          /\ IsFiniteSet(Working') /\ IsFiniteSet(Inserting') /\ overlaps' \in Nat
      BY <1>1, <2>1, <2>3, <2>5, FewNumbers
    <2> QED BY <2>6, FewStay
  <1> QED BY <1>7, <1>8, <1>11, <1>12, <1>13, <1>14 DEF AuditIInv

LEMMA ClaimKeeps ==
    ASSUME AuditIInv, NEW a \in AuditIds, claim_free_audit(a)
    PROVE  AuditIInv'
  <1>1. /\ UNCHANGED <<request, retaken, visit, task, overlaps, restarts>>
        /\ a \in Created /\ request[a].status = "completed" /\ claimed' = claimed \cup {a}
    BY DEF claim_free_audit
  <1>2. AuditTypes /\ AuditsThere /\ FetchedIsTaken /\ HandInv /\ AloneInv /\ AuditsFew
    BY DEF AuditIInv
  <1>3. AuditTypes'
    BY <1>1, <1>2 DEF AuditTypes
  <1>4. AuditsThere' /\ FetchedIsTaken' /\ HandInv'
    BY <1>1, <1>2 DEF AuditsThere, FetchedIsTaken, HandInv, Created, QueuedInHand, RunningInHand
  <1>5. AloneInv'
    BY <1>1, <1>2 DEF AloneInv, Alone, Active, Created
  <1>6. AuditsFew'
    BY <1>1, <1>2 DEF AuditsFew, Inserting, Working, Active, Covered, Covers, Shared, Duplicates, Created
  <1> QED BY <1>3, <1>4, <1>5, <1>6 DEF AuditIInv

\* What is in memory is lost: what was covered had a task of its own.
LEMMA RestartKeeps ==
    ASSUME AuditIInv, Restart
    PROVE  AuditIInv'
  <1>1. /\ UNCHANGED <<request, claimed, retaken, overlaps>> /\ restarts' = restarts + 1
        /\ visit' = [v \in Visits |-> Idle] /\ task' = [k \in Tasks |-> Idle]
    BY DEF Restart
  <1>2. AuditTypes /\ AuditsThere /\ FetchedIsTaken /\ HandInv /\ AloneInv /\ AuditsFew
    BY DEF AuditIInv
  <1>3. (\A v \in Visits : visit'[v].pc = "idle") /\ (\A k \in Tasks : task'[k].pc = "idle")
    BY <1>1, IdleState
  <1>4. AuditTypes'
    BY <1>1, <1>2, IdleState DEF AuditTypes
  <1>5. AuditsThere'
    BY <1>1, <1>2, <1>3 DEF AuditsThere, Created
  <1>6. FetchedIsTaken'
    BY <1>3 DEF FetchedIsTaken
  <1>7. HandInv'
    BY <1>1, <1>2 DEF HandInv, AuditTypes
  <1>8. AloneInv'
    BY <1>1, <1>2, <1>3 DEF AloneInv, Alone, Active, Created
  <1>9. AuditsFew'
    <2>1. Inserting' = {} /\ Working' = {}
      BY <1>3 DEF Inserting, Working, Active
    <2>2. Covered' = {}
      BY <1>3 DEF Covered, Covers
    <2>3. Shared' = Shared
      BY <1>1 DEF Shared, Duplicates, Created
    <2>4. IsFiniteSet({}) /\ Cardinality({}) = 0
      BY FS_EmptySet
    <2>5. Cardinality(Shared) <= 1 + overlaps /\ overlaps \in Nat
      BY FewNumbers, CoveredIsWork
    <2> QED BY <1>1, <2>1, <2>2, <2>3, <2>4, <2>5, FewNumbers DEF AuditsFew
  <1> QED BY <1>4, <1>5, <1>6, <1>7, <1>8, <1>9 DEF AuditIInv
-----------------------------------------------------------------------------
\* Tasks.

\* A second task of an audit was counted by the overlap.
LEMMA ReadKeeps ==
    ASSUME AuditIInv, NEW k \in Tasks, ReadAudit(k)
    PROVE  AuditIInv'
  <1>1. UNCHANGED <<request, claimed, retaken, visit, restarts>> /\ task[k].pc = "scheduled"
    BY DEF ReadAudit
  <1>2. AuditTypes /\ AuditsThere /\ FetchedIsTaken /\ HandInv /\ AloneInv /\ AuditsFew
    BY DEF AuditIInv
  <1>3. PICK a : a = task[k].id
    OBVIOUS
  <1>4. task[k] \in TaskState /\ a \in Nat /\ a \in Created
    BY <1>1, <1>2, <1>3 DEF AuditTypes, AuditsThere, TaskState
  <1>5. PICK t \in TaskState :
            /\ task' = [task EXCEPT ![k] = t]
            /\ \/ t.pc = "taking" /\ t.id = a /\ request[a].status \in {"queued", "failed"}
               \/ t.pc = "idle" /\ request[a].status \notin {"queued", "failed"}
    <2>1. CASE Takes(request[a].status)
      <3>1. PICK t : t = [task[k] EXCEPT !.pc = "taking"]
        OBVIOUS
      <3>2. t \in TaskState /\ t.pc = "taking" /\ t.id = a
        BY <1>3, <1>4, <3>1 DEF TaskState
      <3> QED BY <1>3, <2>1, <3>1, <3>2 DEF ReadAudit, Takes
    <2>2. CASE ~Takes(request[a].status)
      BY <1>3, <2>2, IdleState DEF ReadAudit, Takes
    <2> QED BY <2>1, <2>2
  <1>6. /\ task' \in [Tasks -> TaskState] /\ task'[k] = t
        /\ \A j \in Tasks \ {k} : task'[j] = task[j]
    BY <1>2, <1>5, TaskMoved
  <1>7. PICK o \in {0, 1} :
            /\ overlaps' = overlaps + o /\ overlaps' \in 0..MaxOverlaps
            /\ o = 0 => \A j \in Tasks : ~(task[j].pc = "taking" /\ task[j].id = a)
    <2>1. overlaps \in 0..MaxOverlaps /\ MaxOverlaps \in Nat
      BY <1>2, AuditBounds DEF AuditTypes
    <2>2. CASE \E j \in Tasks : task[j].pc = "taking" /\ task[j].id = task[k].id
      <3>1. overlaps < MaxOverlaps /\ overlaps' = overlaps + 1
        BY <2>2 DEF ReadAudit, Overlap
      <3>2. overlaps + 1 \in 0..MaxOverlaps
        BY <2>1, <3>1
      <3> QED BY <3>1, <3>2
    <2>3. CASE ~\E j \in Tasks : task[j].pc = "taking" /\ task[j].id = task[k].id
      <3>1. overlaps' = overlaps /\ overlaps + 0 = overlaps
        BY <2>1, <2>3 DEF ReadAudit, Overlap
      <3> QED BY <1>3, <2>1, <2>3, <3>1
    <2> QED BY <2>2, <2>3
  <1>8. AuditTypes'
    BY <1>1, <1>2, <1>6, <1>7 DEF AuditTypes
  <1>9. Created' = Created
    BY <1>1 DEF Created
  <1>10. AuditsThere'
    BY <1>1, <1>2, <1>4, <1>5, <1>6, <1>9 DEF AuditsThere
  <1>11. FetchedIsTaken'
    BY <1>1, <1>2, <1>5, <1>6 DEF FetchedIsTaken
  <1>12. HandInv'
    <2> SUFFICES ASSUME restarts = 0, NEW b \in Created
                 PROVE  /\ request[b].status = "queued" => QueuedInHand(b)'
                        /\ request[b].status = "running" => RunningInHand(b)'
      BY <1>1, <1>9 DEF HandInv, QueuedInHand, RunningInHand
    <2>1. request[b].status = "running" => RunningInHand(b)'
      BY <1>1, <1>2, <1>6 DEF HandInv, RunningInHand
    <2>2. ASSUME request[b].status = "queued" PROVE QueuedInHand(b)'
      <3>1. QueuedInHand(b)
        BY <1>2, <2>2 DEF HandInv
      <3>2. b = a => t.pc = "taking" /\ t.id = a
        BY <1>5, <2>2
      <3>3. CASE \E u \in Visits : visit[u] = [pc |-> "schedule", id |-> b]
        BY <1>1, <3>3 DEF QueuedInHand
      <3>4. CASE \E j \in Tasks : task[j].pc \in {"scheduled", "taking"} /\ task[j].id = b
        <4>1. PICK j \in Tasks : task[j].pc \in {"scheduled", "taking"} /\ task[j].id = b
          BY <3>4
        <4>2. task'[j].pc \in {"scheduled", "taking"} /\ task'[j].id = b
          BY <1>3, <1>6, <3>2, <4>1
        <4> QED BY <4>1, <4>2 DEF QueuedInHand
      <3> QED BY <3>1, <3>3, <3>4 DEF QueuedInHand
    <2> QED BY <2>1, <2>2
  <1>13. AloneInv'
    <2> SUFFICES ASSUME overlaps' = 0 PROVE Alone'
      BY DEF AloneInv
    <2>1. overlaps = 0 /\ o = 0
      BY <1>2, <1>7 DEF AuditTypes
    <2>2. Alone
      BY <1>2, <2>1 DEF AloneInv
    <2>3. \A j \in Tasks \ {k} : Active(task[k])' /\ Active(task[j])' => task'[j].id # task'[k].id
      <3> SUFFICES ASSUME NEW j \in Tasks \ {k}, Active(task[k])', Active(task[j])', task'[j].id = task'[k].id PROVE FALSE
        OBVIOUS
      <3>1. t.id = a /\ request[a].status \in {"queued", "failed"}
        BY <1>5, <1>6 DEF Active
      <3>2. task[j].id = a /\ task[j].pc \in {"taking", "fetching"}
        BY <1>6, <3>1 DEF Active
      <3>3. task[j].pc # "taking"
        BY <1>7, <2>1, <3>2
      <3>4. request[a].status = "running"
        BY <2>2, <3>2, <3>3 DEF Alone
      <3> QED BY <3>1, <3>4
    <2>4. \A j, l \in Tasks : Active(task[j])' /\ Active(task[l])' /\ task'[j].id = task'[l].id => j = l
      <3> SUFFICES ASSUME NEW j \in Tasks, NEW l \in Tasks, Active(task[j])', Active(task[l])', task'[j].id = task'[l].id
                   PROVE  j = l
        OBVIOUS
      <3>1. CASE j = k \/ l = k
        BY <2>3, <3>1
      <3>2. CASE j # k /\ l # k
        BY <1>6, <2>2, <3>2 DEF Alone, Active
      <3> QED BY <3>1, <3>2
    <2>5. \A j \in Tasks :
              /\ task'[j].pc = "taking" => request[task'[j].id].status \in {"queued", "failed"}
              /\ task'[j].pc = "fetching" => request[task'[j].id].status = "running"
      BY <1>5, <1>6, <2>2 DEF Alone
    <2> QED BY <1>1, <1>9, <2>2, <2>4, <2>5 DEF Alone
  <1>14. AuditsFew'
    <2>1. Inserting' = Inserting
      BY <1>1 DEF Inserting
    <2>2. Shared' = Shared
      BY <1>1 DEF Shared, Duplicates, Created
    <2>3. \A j \in Tasks \ {k} : (Covers(task[j])' <=> Covers(task[j])) /\ (Active(task[j])' <=> Active(task[j]))
      BY <1>1, <1>6 DEF Covers, Active
    <2>4. ~Covers(task[k]) /\ ~Active(task[k])
      BY <1>1 DEF Covers, Active
    <2>5. Covered \subseteq Covered'
      <3> SUFFICES ASSUME NEW b \in Covered PROVE b \in Covered'
        OBVIOUS
      <3>1. PICK j \in Tasks : task[j].id = b /\ Covers(task[j])
        BY DEF Covered
      <3>2. task'[j].id = b /\ Covers(task[j])'
        BY <1>6, <2>3, <2>4, <3>1
      <3>3. b \in Created' /\ b \notin retaken'
        BY <1>1, <1>9 DEF Covered
      <3> QED BY <3>2, <3>3 DEF Covered
    <2>6. AuditTypes /\ IsFiniteSet(Covered') /\ Cardinality(Covered') \in Nat
      <3>1. Covered' \in SUBSET AuditIds
        BY DEF Covered, Created
      <3> QED BY <1>2, <3>1, AuditBounds, FS_Subset, FS_CardinalityType
    <2>7. CASE Working' = Working
      <3>1. Cardinality(Covered) <= Cardinality(Covered')
        BY <2>5, <2>6, FS_Subset
      <3>2. /\ Cardinality(Working') + overlaps + Cardinality(Covered)
                   <= Cardinality(Working) + overlaps' + Cardinality(Covered')
            /\ Cardinality(Shared') + Cardinality(Inserting') + Cardinality(Working') + overlaps + Cardinality(Covered)
                   <= Cardinality(Shared) + Cardinality(Inserting) + Cardinality(Working) + overlaps' + Cardinality(Covered')
            /\ IsFiniteSet(Working') /\ IsFiniteSet(Inserting') /\ overlaps' \in Nat
        BY <1>7, <2>1, <2>2, <2>6, <2>7, <3>1, FewNumbers
      <3> QED BY <3>2, FewStay
    <2>8. CASE Working' # Working
      <3>1. t.pc = "taking" /\ t.id = a /\ a \notin retaken /\ request[a].status \in {"queued", "failed"}
        <4>1. \A j \in Tasks \ {k} : j \in Working' <=> j \in Working
          BY <1>1, <1>6, <2>3 DEF Working
        <4>2. k \notin Working
          BY <2>4 DEF Working
        <4>3. k \in Working'
          BY <2>8, <4>1, <4>2 DEF Working
        <4> QED BY <1>1, <1>5, <1>6, <4>3 DEF Working, Active
      <3>2. Working' = Working \cup {k} /\ k \notin Working
        BY <1>1, <1>6, <2>3, <2>4, <3>1 DEF Working, Active
      <3>3. IsFiniteSet(Working') /\ Cardinality(Working') = Cardinality(Working) + 1
        BY <3>2, FewNumbers, FS_AddElement
      <3>4. a \in Covered'
        <4>1. task'[k].id = a /\ Covers(task[k])'
          BY <1>6, <3>1 DEF Covers
        <4> QED BY <1>1, <1>4, <1>9, <3>1, <4>1 DEF Covered
      <3>5. Cardinality(Covered') + o >= Cardinality(Covered) + 1
        <4>1. CASE o = 1
          <5>1. Cardinality(Covered) <= Cardinality(Covered')
            BY <2>5, <2>6, FS_Subset
          <5> QED BY <2>6, <4>1, <5>1, FewNumbers
        <4>2. CASE o = 0
          <5>1. a \notin Covered
            <6> SUFFICES ASSUME a \in Covered PROVE FALSE
              OBVIOUS
            <6>1. PICK j \in Tasks : task[j].id = a /\ Covers(task[j])
              BY DEF Covered
            <6>2. task[j].pc = "fetching" /\ request[a].status # "failed"
              BY <1>7, <4>2, <6>1 DEF Covers
            <6>3. request[a].status # "queued"
              BY <1>2, <6>1, <6>2 DEF FetchedIsTaken
            <6> QED BY <3>1, <6>2, <6>3
          <5>2. Covered \cup {a} \in SUBSET Covered'
            BY <2>5, <3>4
          <5>3. Cardinality(Covered \cup {a}) = Cardinality(Covered) + 1
            BY <5>1, FewNumbers, FS_AddElement
          <5>4. Cardinality(Covered \cup {a}) <= Cardinality(Covered')
            BY <2>6, <5>2, FS_Subset
          <5> QED BY <2>6, <4>2, <5>3, <5>4, FewNumbers
        <4> QED BY <4>1, <4>2
      <3>6. /\ Cardinality(Working') + overlaps + Cardinality(Covered)
                   <= Cardinality(Working) + overlaps' + Cardinality(Covered')
            /\ Cardinality(Shared') + Cardinality(Inserting') + Cardinality(Working') + overlaps + Cardinality(Covered)
                   <= Cardinality(Shared) + Cardinality(Inserting) + Cardinality(Working) + overlaps' + Cardinality(Covered')
            /\ IsFiniteSet(Inserting') /\ overlaps' \in Nat
        BY <1>7, <2>1, <2>2, <2>6, <3>3, <3>5, FewNumbers
      <3> QED BY <3>3, <3>6, FewStay
    <2> QED BY <2>7, <2>8
  <1> QED BY <1>8, <1>10, <1>11, <1>12, <1>13, <1>14 DEF AuditIInv

\* A task that works on an audit writes its row and goes on, or ends.
TaskWrites(k, a, r, t) ==
    /\ a = task[k].id /\ Active(task[k])
    /\ request' = [request EXCEPT ![a] = r] /\ task' = [task EXCEPT ![k] = t]
    /\ r.old = request[a].old
    /\ \/ t.pc = "fetching" /\ t.id = a /\ r.status = "running"
       \/ t.pc = "idle" /\ task[k].pc = "fetching" /\ r.status \in {"completed", "failed"}
    /\ retaken' = IF request[a].status = "failed" /\ t.pc = "fetching" THEN retaken \cup {a} ELSE retaken
    /\ overlaps = 0 => IF r.status = "completed" THEN r.score = Score(r.findings) ELSE r.findings = Nothing
    /\ UNCHANGED <<claimed, visit, overlaps, restarts>>

LEMMA WriteFacts ==
    ASSUME AuditIInv, NEW k \in Tasks, NEW a, NEW r \in FreeAuditRequest, NEW t \in TaskState, TaskWrites(k, a, r, t)
    PROVE  /\ a \in Created /\ a \in AuditIds /\ Created' = Created /\ request[a] \in FreeAuditRequest
           /\ request' \in [AuditIds -> FreeAuditRequest \cup {NoAudit}]
           /\ request'[a] = r /\ \A b \in AuditIds \ {a} : request'[b] = request[b]
           /\ task' \in [Tasks -> TaskState] /\ task'[k] = t
           /\ \A j \in Tasks \ {k} : task'[j] = task[j]
           /\ retaken \subseteq retaken' /\ retaken' \subseteq retaken \cup {a}
           /\ r.status \in {"running", "completed", "failed"}
           /\ t.pc # "idle" => t.pc = "fetching" /\ t.id = a /\ r.status = "running"
  <1>1. AuditTypes /\ AuditsThere
    BY DEF AuditIInv
  <1>2. a \in Created
    BY <1>1 DEF TaskWrites, AuditsThere, Active
  <1>3. /\ request' \in [AuditIds -> FreeAuditRequest \cup {NoAudit}]
        /\ request'[a] = r /\ \A b \in AuditIds \ {a} : request'[b] = request[b]
        /\ Created' = Created /\ request[a] \in FreeAuditRequest /\ a \in AuditIds
    BY <1>1, <1>2, RowWritten DEF TaskWrites
  <1>4. /\ task' \in [Tasks -> TaskState] /\ task'[k] = t
        /\ \A j \in Tasks \ {k} : task'[j] = task[j]
    BY <1>1, TaskMoved DEF TaskWrites
  <1>5. /\ retaken \subseteq retaken' /\ retaken' \subseteq retaken \cup {a}
        /\ r.status \in {"running", "completed", "failed"}
        /\ t.pc # "idle" => t.pc = "fetching" /\ t.id = a /\ r.status = "running"
    BY DEF TaskWrites
  <1> QED BY <1>2, <1>3, <1>4, <1>5

LEMMA WriteKeeps ==
    ASSUME AuditIInv, NEW k \in Tasks, NEW a, NEW r \in FreeAuditRequest, NEW t \in TaskState, TaskWrites(k, a, r, t)
    PROVE  AuditTypes' /\ AuditsThere' /\ FetchedIsTaken' /\ HandInv' /\ AloneInv'
  <1>1. AuditTypes /\ AuditsThere /\ FetchedIsTaken /\ HandInv /\ AloneInv
    BY DEF AuditIInv
  <1>2. UNCHANGED <<claimed, visit, overlaps, restarts>> /\ a = task[k].id /\ Active(task[k])
    BY DEF TaskWrites
  <1>3. /\ a \in Created /\ a \in AuditIds /\ Created' = Created /\ request[a] \in FreeAuditRequest
        /\ request' \in [AuditIds -> FreeAuditRequest \cup {NoAudit}]
        /\ request'[a] = r /\ \A b \in AuditIds \ {a} : request'[b] = request[b]
    BY WriteFacts DEF TaskWrites
  <1>4. /\ task' \in [Tasks -> TaskState] /\ task'[k] = t
        /\ \A j \in Tasks \ {k} : task'[j] = task[j]
        /\ retaken \subseteq retaken' /\ retaken' \subseteq retaken \cup {a}
    BY WriteFacts DEF TaskWrites
  <1>5. /\ r.status \in {"running", "completed", "failed"}
        /\ t.pc # "idle" => t.pc = "fetching" /\ t.id = a /\ r.status = "running"
    BY DEF TaskWrites
  <1>6. AuditTypes'
    BY <1>1, <1>2, <1>3, <1>4 DEF AuditTypes
  <1>7. AuditsThere'
    BY <1>1, <1>2, <1>3, <1>4, <1>5 DEF AuditsThere
  <1>8. FetchedIsTaken'
    <2> SUFFICES ASSUME NEW j \in Tasks, task'[j].pc = "fetching" PROVE request'[task'[j].id].status # "queued"
      BY DEF FetchedIsTaken
    <2>1. CASE j = k
      BY <1>3, <1>4, <1>5, <2>1
    <2>2. CASE j # k
      <3>1. task'[j] = task[j]
        BY <1>4, <2>2
      <3>2. CASE task[j].id = a
        BY <1>3, <1>5, <3>1, <3>2
      <3>3. CASE task[j].id # a
        BY <1>1, <1>3, <3>1, <3>3 DEF FetchedIsTaken, AuditsThere, Created
      <3> QED BY <3>2, <3>3
    <2> QED BY <2>1, <2>2
  <1>9. HandInv'
    <2> SUFFICES ASSUME restarts = 0, NEW b \in Created
                 PROVE  /\ request'[b].status = "queued" => QueuedInHand(b)'
                        /\ request'[b].status = "running" => RunningInHand(b)'
      BY <1>2, <1>3 DEF HandInv, QueuedInHand, RunningInHand
    <2>1. CASE b = a
      <3>1. r.status = "running" => t.pc = "fetching" /\ t.id = a
        BY DEF TaskWrites
      <3> QED BY <1>3, <1>4, <1>5, <2>1, <3>1 DEF RunningInHand
    <2>2. CASE b # a
      <3>1. request'[b] = request[b]
        BY <1>3, <2>2 DEF Created
      <3>2. request[b].status = "queued" => QueuedInHand(b)'
        <4>1. SUFFICES ASSUME request[b].status = "queued" PROVE QueuedInHand(b)'
          OBVIOUS
        <4>2. QueuedInHand(b)
          BY <1>1, <4>1 DEF HandInv
        <4> QED BY <1>2, <1>4, <2>2, <4>2 DEF QueuedInHand
      <3>3. request[b].status = "running" => RunningInHand(b)'
        BY <1>1, <1>2, <1>4, <2>2 DEF HandInv, RunningInHand
      <3> QED BY <3>1, <3>2, <3>3
    <2> QED BY <2>1, <2>2
  <1>10. AloneInv'
    <2> SUFFICES ASSUME overlaps = 0 PROVE Alone'
      BY <1>2 DEF AloneInv
    <2>1. Alone
      BY <1>1 DEF AloneInv
    <2>2. \A j \in Tasks \ {k} : Active(task[j]) => task[j].id # a
      BY <1>2, <2>1 DEF Alone
    <2>3. \A j, l \in Tasks : Active(task[j])' /\ Active(task[l])' /\ task'[j].id = task'[l].id => j = l
      <3> SUFFICES ASSUME NEW j \in Tasks, NEW l \in Tasks, Active(task[j])', Active(task[l])', task'[j].id = task'[l].id
                   PROVE  j = l
        OBVIOUS
      <3>1. \A m \in Tasks : Active(task[m])' => Active(task[m]) /\ task'[m].id = task[m].id
        BY <1>2, <1>4, <1>5 DEF Active
      <3> QED BY <2>1, <3>1 DEF Alone
    <2>4. \A j \in Tasks :
              /\ task'[j].pc = "taking" => request'[task'[j].id].status \in {"queued", "failed"}
              /\ task'[j].pc = "fetching" => request'[task'[j].id].status = "running"
      <3> SUFFICES ASSUME NEW j \in Tasks, Active(task[j])'
                   PROVE  /\ task'[j].pc = "taking" => request'[task'[j].id].status \in {"queued", "failed"}
                          /\ task'[j].pc = "fetching" => request'[task'[j].id].status = "running"
        BY DEF Active
      <3>1. CASE j = k
        BY <1>3, <1>4, <1>5, <3>1 DEF Active
      <3>2. CASE j # k
        <4>1. task'[j] = task[j] /\ Active(task[j])
          BY <1>4, <3>2 DEF Active
        <4>2. task[j].id # a /\ task[j].id \in Created
          BY <1>1, <2>2, <3>2, <4>1 DEF AuditsThere, Active
        <4>3. request'[task[j].id] = request[task[j].id]
          BY <1>3, <4>2 DEF Created
        <4> QED BY <2>1, <4>1, <4>3 DEF Alone
      <3> QED BY <3>1, <3>2
    <2>5. \A b \in Created :
              IF request'[b].status = "completed" THEN request'[b].score = Score(request'[b].findings)
                                                  ELSE request'[b].findings = Nothing
      <3> SUFFICES ASSUME NEW b \in Created
                   PROVE  IF request'[b].status = "completed" THEN request'[b].score = Score(request'[b].findings)
                                                              ELSE request'[b].findings = Nothing
        OBVIOUS
      <3>1. CASE b = a
        BY <1>3, <3>1 DEF TaskWrites
      <3>2. CASE b # a
        <4>1. request'[b] = request[b]
          BY <1>3, <3>2 DEF Created
        <4> QED BY <2>1, <4>1 DEF Alone
      <3> QED BY <3>1, <3>2
    <2>6. \A b \in claimed : request'[b].status = "completed"
      <3>1. request[a].status # "completed"
        BY <1>2, <2>1 DEF Alone, Active
      <3>2. a \notin claimed
        BY <2>1, <3>1 DEF Alone
      <3> QED BY <1>1, <1>3, <2>1, <3>2 DEF Alone, AuditsThere, Created
    <2> QED BY <1>2, <1>3, <2>3, <2>4, <2>5, <2>6 DEF Alone
  <1> QED BY <1>6, <1>7, <1>8, <1>9, <1>10

\* What it does to the numbers, audit by audit.
LEMMA WriteCounts ==
    ASSUME AuditIInv, NEW k \in Tasks, NEW a, NEW r \in FreeAuditRequest, NEW t \in TaskState, TaskWrites(k, a, r, t)
    PROVE  /\ Inserting' = Inserting
           /\ Shared' \subseteq Shared \cup {a}
           /\ a \in Shared' => a \notin retaken' /\ ~request[a].old /\ r.status # "failed"
           /\ Covered \ {a} \subseteq Covered'
           /\ Working' \subseteq Working
           /\ a \notin retaken => k \in Working
           /\ t.pc = "idle" \/ a \in retaken' => k \notin Working'
           /\ Working \in SUBSET Tasks
  <1>1. UNCHANGED <<claimed, visit, overlaps, restarts>> /\ a = task[k].id /\ Active(task[k])
    BY DEF TaskWrites
  <1>2. /\ a \in Created /\ a \in AuditIds /\ Created' = Created
        /\ request'[a] = r /\ \A b \in AuditIds \ {a} : request'[b] = request[b]
        /\ task'[k] = t /\ \A j \in Tasks \ {k} : task'[j] = task[j]
    BY WriteFacts
  <1>3. /\ retaken \subseteq retaken' /\ retaken' \subseteq retaken \cup {a}
        /\ r.status \in {"running", "completed", "failed"} /\ r.old = request[a].old
        /\ t.pc # "idle" => t.pc = "fetching" /\ t.id = a /\ r.status = "running"
    BY WriteFacts DEF TaskWrites
  <1>4. Inserting' = Inserting
    BY <1>1 DEF Inserting
  <1>5. Shared' \subseteq Shared \cup {a}
    <2> SUFFICES ASSUME NEW b \in Shared', b # a PROVE b \in Shared
      OBVIOUS
    <2>1. b \in Created /\ b \in AuditIds /\ b \notin retaken
      BY <1>2, <1>3 DEF Shared, Duplicates, Created
    <2>2. request'[b] = request[b]
      BY <1>2, <2>1
    <2> QED BY <2>1, <2>2 DEF Shared, Duplicates
  <1>6. a \in Shared' => a \notin retaken' /\ ~request[a].old /\ r.status # "failed"
    BY <1>2, <1>3 DEF Shared, Duplicates, Unfinished
  <1>7. Covered \ {a} \subseteq Covered'
    <2> SUFFICES ASSUME NEW b \in Covered, b # a PROVE b \in Covered'
      OBVIOUS
    <2>1. b \in Created /\ b \in AuditIds /\ b \notin retaken
      BY DEF Covered, Created
    <2>2. PICK j \in Tasks : task[j].id = b /\ Covers(task[j])
      BY DEF Covered
    <2>3. task'[j] = task[j] /\ request'[b] = request[b]
      BY <1>1, <1>2, <2>1, <2>2
    <2>4. task'[j].id = b /\ Covers(task[j])'
      BY <2>2, <2>3 DEF Covers
    <2>5. b \in Created' /\ b \notin retaken'
      BY <1>2, <1>3, <2>1
    <2> QED BY <2>4, <2>5 DEF Covered
  <1>8. Working' \subseteq Working
    BY <1>1, <1>2, <1>3 DEF Working, Active
  <1>9. a \notin retaken => k \in Working
    BY <1>1 DEF Working
  <1>10. t.pc = "idle" \/ a \in retaken' => k \notin Working'
    BY <1>2, <1>3 DEF Working, Active
  <1> QED BY <1>3, <1>4, <1>5, <1>6, <1>7, <1>8, <1>9, <1>10 DEF Working

LEMMA WriteFew ==
    ASSUME AuditIInv, NEW k \in Tasks, NEW a, NEW r \in FreeAuditRequest, NEW t \in TaskState, TaskWrites(k, a, r, t)
    PROVE  AuditsFew'
  <1>1. /\ Inserting' = Inserting /\ Shared' \subseteq Shared \cup {a}
        /\ a \in Shared' => a \notin retaken' /\ ~request[a].old /\ r.status # "failed"
        /\ Covered \ {a} \subseteq Covered' /\ Working' \subseteq Working
        /\ a \notin retaken => k \in Working
        /\ t.pc = "idle" \/ a \in retaken' => k \notin Working'
        /\ Working \in SUBSET Tasks
    BY WriteCounts
  <1>2. /\ a \in Created /\ a \in AuditIds /\ Created' = Created /\ request[a] \in FreeAuditRequest
        /\ request'[a] = r /\ task'[k] = t /\ \A j \in Tasks \ {k} : task'[j] = task[j]
    BY WriteFacts DEF TaskWrites
  <1>3. /\ Cardinality(Covered) \in Nat /\ Cardinality(Shared) \in Nat /\ overlaps \in Nat
        /\ Cardinality(Inserting) \in Nat /\ Cardinality(Working) \in Nat
        /\ IsFiniteSet(Covered) /\ IsFiniteSet(Shared) /\ IsFiniteSet(Inserting) /\ IsFiniteSet(Working)
        /\ overlaps' = overlaps /\ a = task[k].id
    BY FewNumbers DEF TaskWrites
  <1>4. /\ IsFiniteSet(Covered') /\ Cardinality(Covered') \in Nat
        /\ IsFiniteSet(Shared') /\ Cardinality(Shared') \in Nat
    <2>1. Covered' \in SUBSET AuditIds /\ Shared' \in SUBSET AuditIds
      BY DEF Covered, Shared, Duplicates, Created
    <2> QED BY <2>1, AuditBounds, FS_Subset, FS_CardinalityType
  <1>5. IsFiniteSet(Working') /\ Cardinality(Working') \in Nat /\ Cardinality(Working') <= Cardinality(Working)
    BY <1>1, <1>3, FS_Subset, FS_CardinalityType
  <1>6. k \in Working /\ k \notin Working' => Cardinality(Working') <= Cardinality(Working) - 1
    <2> SUFFICES ASSUME k \in Working, k \notin Working' PROVE Cardinality(Working') <= Cardinality(Working) - 1
      OBVIOUS
    <2>1. Working' \in SUBSET (Working \ {k})
      BY <1>1
    <2>2. IsFiniteSet(Working \ {k}) /\ Cardinality(Working \ {k}) = Cardinality(Working) - 1
      BY <1>3, FS_RemoveElement
    <2> QED BY <2>1, <2>2, FS_Subset
  <1>7. Cardinality(Covered') >= Cardinality(Covered) - 1
    <2>1. /\ IsFiniteSet(Covered \ {a})
          /\ Cardinality(Covered \ {a}) = IF a \in Covered THEN Cardinality(Covered) - 1 ELSE Cardinality(Covered)
      BY <1>3, FS_RemoveElement
    <2>2. Cardinality(Covered \ {a}) <= Cardinality(Covered')
      BY <1>1, <1>4, FS_Subset
    <2> QED BY <1>3, <1>4, <2>1, <2>2
  <1>8. Covered \subseteq Covered' => Cardinality(Covered') >= Cardinality(Covered)
    BY <1>3, <1>4, FS_Subset
  <1>9. Cardinality(Shared') <= Cardinality(Shared) + 1
    <2>1. /\ IsFiniteSet(Shared \cup {a})
          /\ Cardinality(Shared \cup {a}) = IF a \in Shared THEN Cardinality(Shared) ELSE Cardinality(Shared) + 1
      BY <1>3, FS_AddElement
    <2>2. Cardinality(Shared') <= Cardinality(Shared \cup {a})
      BY <1>1, <2>1, FS_Subset
    <2> QED BY <1>3, <1>4, <2>1, <2>2
  <1>10. Shared' \subseteq Shared => Cardinality(Shared') <= Cardinality(Shared)
    BY <1>3, FS_Subset
  <1>11. /\ Cardinality(Working') - Cardinality(Working) <= Cardinality(Covered') - Cardinality(Covered)
         /\ Cardinality(Shared') - Cardinality(Shared) + Cardinality(Working') - Cardinality(Working)
                <= Cardinality(Covered') - Cardinality(Covered)
    <2>1. CASE a \in retaken
      <3>1. a \notin Covered /\ a \notin Shared'
        BY <1>1, <2>1 DEF Covered, Shared, TaskWrites
      <3> QED BY <1>1, <1>3, <1>4, <1>5, <1>8, <1>10, <3>1
    <2>2. CASE a \notin retaken /\ request[a].status # "failed"
      <3>1. Shared' \subseteq Shared
        <4>1. a \in Shared' => a \in Shared
          BY <1>1, <1>2, <2>2, AuditRowFacts DEF Shared, Duplicates, Unfinished
        <4> QED BY <1>1, <4>1
      <3>2. CASE t.pc = "idle"
        BY <1>1, <1>3, <1>4, <1>5, <1>6, <1>7, <1>10, <2>2, <3>1, <3>2
      <3>3. CASE t.pc = "fetching" /\ t.id = a /\ r.status = "running"
        <4>1. task'[k].id = a /\ Covers(task[k])'
          BY <1>2, <3>3 DEF Covers
        <4>2. a \in Covered'
          BY <1>2, <2>2, <4>1 DEF Covered, TaskWrites
        <4> QED BY <1>1, <1>3, <1>4, <1>5, <1>8, <1>10, <3>1, <4>2
      <3> QED BY <3>2, <3>3 DEF TaskWrites
    <2>3. CASE a \notin retaken /\ request[a].status = "failed"
      <3>1. CASE t.pc = "idle"
        <4>1. a \in Covered => a \in Covered'
          <5> SUFFICES ASSUME a \in Covered PROVE a \in Covered'
            OBVIOUS
          <5>1. PICK j \in Tasks : task[j].id = a /\ Covers(task[j])
            BY DEF Covered
          <5>2. task[j].pc = "taking"
            BY <2>3, <5>1 DEF Covers
          <5>3. j # k
            BY <3>1, <5>2 DEF TaskWrites
          <5>4. task'[j].id = a /\ Covers(task[j])'
            BY <1>2, <5>1, <5>2, <5>3 DEF Covers
          <5>5. a \in Created' /\ a \notin retaken'
            BY <1>2, <2>3, <3>1 DEF TaskWrites
          <5> QED BY <5>4, <5>5 DEF Covered
        <4>2. Covered \subseteq Covered'
          BY <1>1, <4>1
        <4> QED BY <1>1, <1>3, <1>4, <1>5, <1>6, <1>8, <1>9, <2>3, <3>1, <4>2
      <3>2. CASE t.pc = "fetching"
        <4>1. a \in retaken'
          BY <2>3, <3>2 DEF TaskWrites
        <4>2. Shared' \subseteq Shared
          BY <1>1, <4>1
        <4> QED BY <1>1, <1>3, <1>4, <1>5, <1>6, <1>7, <1>10, <2>3, <4>1, <4>2
      <3> QED BY <3>1, <3>2 DEF TaskWrites
    <2> QED BY <2>1, <2>2, <2>3
  <1>12. /\ Cardinality(Working') + overlaps + Cardinality(Covered)
                <= Cardinality(Working) + overlaps' + Cardinality(Covered')
         /\ Cardinality(Shared') + Cardinality(Inserting') + Cardinality(Working') + overlaps + Cardinality(Covered)
                <= Cardinality(Shared) + Cardinality(Inserting) + Cardinality(Working) + overlaps' + Cardinality(Covered')
         /\ IsFiniteSet(Inserting') /\ overlaps' \in Nat
    BY <1>1, <1>3, <1>4, <1>5, <1>11
  <1> QED BY <1>5, <1>12, FewStay

\* The three commits of a task.
LEMMA WritesKeep ==
    ASSUME AuditIInv, NEW k \in Tasks, TakeAudit(k) \/ CompleteAudit(k) \/ FailAudit(k)
    PROVE  \E a, t, r : r \in FreeAuditRequest /\ t \in TaskState /\ TaskWrites(k, a, r, t)
  <1>1. AuditTypes /\ AuditsThere /\ AloneInv
    BY DEF AuditIInv
  <1>2. PICK a : a = task[k].id
    OBVIOUS
  <1>3. /\ task[k].pc \in {"taking", "fetching"} /\ Active(task[k])
        /\ TakeAudit(k) => task[k].pc = "taking"
        /\ CompleteAudit(k) \/ FailAudit(k) => task[k].pc = "fetching"
    BY DEF TakeAudit, CompleteAudit, FailAudit, Active
  <1>4. a \in Created /\ a \in AuditIds /\ request[a] \in FreeAuditRequest /\ task[k] \in TaskState
    BY <1>1, <1>2, <1>3 DEF AuditTypes, AuditsThere, Created
  <1>5. overlaps = 0 => request[a].findings = Nothing
    <2> SUFFICES ASSUME overlaps = 0 PROVE request[a].findings = Nothing
      OBVIOUS
    <2>1. Alone
      BY <1>1 DEF AloneInv
    <2>2. request[a].status # "completed"
      BY <1>2, <1>3, <2>1 DEF Alone
    <2> QED BY <1>4, <2>1, <2>2 DEF Alone
  <1>6. CASE TakeAudit(k)
    <2>1. PICK r : r = [request[a] EXCEPT !.status = "running"]
      OBVIOUS
    <2>2. r \in FreeAuditRequest /\ r.status = "running" /\ r.old = request[a].old /\ r.findings = request[a].findings
      BY <1>4, <2>1 DEF FreeAuditRequest, Unfinished, Ended
    <2>3. PICK t : t = [task[k] EXCEPT !.pc = "fetching"]
      OBVIOUS
    <2>4. t \in TaskState /\ t.pc = "fetching" /\ t.id = a
      BY <1>2, <1>4, <2>3 DEF TaskState
    <2>5. request' = [request EXCEPT ![a] = r] /\ task' = [task EXCEPT ![k] = t]
      BY <1>2, <1>6, <2>1, <2>3 DEF TakeAudit
    <2>6. TaskWrites(k, a, r, t)
      BY <1>2, <1>3, <1>5, <1>6, <2>2, <2>4, <2>5 DEF TaskWrites, TakeAudit
    <2> QED BY <2>2, <2>4, <2>6
  <1>7. CASE CompleteAudit(k)
    <2>1. PICK f \in Pages :
              request' = [request EXCEPT ![task[k].id].status = "completed", ![task[k].id].score = Score(f),
                                         ![task[k].id].findings = IF f = Nothing THEN @ ELSE f]
      BY <1>7 DEF CompleteAudit
    <2>2. PICK g : g = IF f = Nothing THEN request[a].findings ELSE f
      OBVIOUS
    <2>3. PICK r : r = [request[a] EXCEPT !.status = "completed", !.score = Score(f), !.findings = g]
      OBVIOUS
    <2>4. g \in Pages \cup {Nothing} /\ Score(f) \in 0..100
      BY <1>4, <2>2, AuditRowFacts, AuditBounds, Scores
    <2>5. r \in FreeAuditRequest /\ r.status = "completed" /\ r.old = request[a].old /\ r.findings = g /\ r.score = Score(f)
      BY <1>4, <2>3, <2>4 DEF FreeAuditRequest, Unfinished, Ended
    <2>6. request' = [request EXCEPT ![a] = r] /\ task' = [task EXCEPT ![k] = Idle]
      BY <1>2, <1>4, <1>7, <2>1, <2>2, <2>3 DEF CompleteAudit, AuditTypes
    <2>7. overlaps = 0 => g = f
      BY <1>5, <2>2
    <2>8. TaskWrites(k, a, r, Idle)
      BY <1>2, <1>3, <1>7, <2>5, <2>6, <2>7, IdleState DEF TaskWrites, CompleteAudit
    <2> QED BY <2>5, <2>8, IdleState
  <1>8. CASE FailAudit(k)
    <2>1. PICK r : r = [request[a] EXCEPT !.status = "failed"]
      OBVIOUS
    <2>2. r \in FreeAuditRequest /\ r.status = "failed" /\ r.old = request[a].old /\ r.findings = request[a].findings
      BY <1>4, <2>1 DEF FreeAuditRequest, Unfinished, Ended
    <2>3. request' = [request EXCEPT ![a] = r] /\ task' = [task EXCEPT ![k] = Idle]
      BY <1>2, <1>8, <2>1 DEF FailAudit
    <2>4. TaskWrites(k, a, r, Idle)
      BY <1>2, <1>3, <1>5, <1>8, <2>2, <2>3, IdleState DEF TaskWrites, FailAudit
    <2> QED BY <2>2, <2>4, IdleState
  <1> QED BY <1>6, <1>7, <1>8

LEMMA TaskKeeps ==
    ASSUME AuditIInv, NEW k \in Tasks, TakeAudit(k) \/ CompleteAudit(k) \/ FailAudit(k)
    PROVE  AuditIInv'
  <1>1. PICK a, t, r : r \in FreeAuditRequest /\ t \in TaskState /\ TaskWrites(k, a, r, t)
    BY WritesKeep
  <1>2. AuditTypes' /\ AuditsThere' /\ FetchedIsTaken' /\ HandInv' /\ AloneInv'
    BY <1>1, WriteKeeps
  <1>3. AuditsFew'
    BY <1>1, WriteFew
  <1> QED BY <1>2, <1>3 DEF AuditIInv
-----------------------------------------------------------------------------
LEMMA InitAuditIInv == AuditInit => AuditIInv
  <1> SUFFICES ASSUME AuditInit PROVE AuditIInv
    OBVIOUS
  <1>1. Created = {} /\ Duplicates = {}
    BY DEF AuditInit, Created, Duplicates
  <1>2. AuditTypes
    BY AuditBounds, IdleState DEF AuditInit, AuditTypes
  <1>3. (\A v \in Visits : visit[v].pc = "idle") /\ (\A k \in Tasks : task[k].pc = "idle") /\ claimed = {} /\ retaken = {} /\ overlaps = 0
    BY IdleState DEF AuditInit
  <1>4. AuditsThere /\ FetchedIsTaken
    BY <1>1, <1>3 DEF AuditsThere, FetchedIsTaken
  <1>7. HandInv /\ AloneInv
    <2>1. HandInv
      BY <1>1 DEF HandInv
    <2>2. Alone
      BY <1>1, <1>3 DEF Alone, Active
    <2> QED BY <2>1, <2>2 DEF AloneInv
  <1>5. Inserting = {} /\ Working = {} /\ Covered = {} /\ Shared = {}
    BY <1>1, <1>3 DEF Inserting, Working, Active, Covered, Shared
  <1>6. AuditsFew
    BY <1>3, <1>5, FS_EmptySet DEF AuditsFew
  <1> QED BY <1>2, <1>4, <1>6, <1>7 DEF AuditIInv

LEMMA AuditStep == AuditIInv /\ [AuditNext]_auditVars => AuditIInv'
  <1> SUFFICES ASSUME AuditIInv, [AuditNext]_auditVars PROVE AuditIInv'
    OBVIOUS
  <1>1. CASE UNCHANGED auditVars
    BY <1>1 DEF auditVars, AuditIInv, AuditTypes, AuditsThere, FetchedIsTaken, HandInv, QueuedInHand, RunningInHand,
                AloneInv, Alone, Active, AuditsFew, Inserting, Working, Covered, Covers, Shared, Duplicates, Created
  <1>2. ASSUME NEW v \in Visits, create_free_audit(v) \/ InsertAudit(v) \/ start_free_audit(v) PROVE AuditIInv'
    BY <1>2, CreateKeeps, InsertKeeps, StartKeeps
  <1>3. ASSUME NEW k \in Tasks, ReadAudit(k) \/ TakeAudit(k) \/ CompleteAudit(k) \/ FailAudit(k) PROVE AuditIInv'
    BY <1>3, ReadKeeps, TaskKeeps
  <1>4. ASSUME NEW a \in AuditIds, AuditAges(a) \/ claim_free_audit(a) PROVE AuditIInv'
    BY <1>4, AgeKeeps, ClaimKeeps
  <1>5. CASE Restart
    BY <1>5, RestartKeeps
  <1> QED BY <1>1, <1>2, <1>3, <1>4, <1>5 DEF AuditNext

LEMMA AuditSafe == AuditIInv => AuditInv
  <1> SUFFICES ASSUME AuditIInv PROVE AuditInv
    OBVIOUS
  <1>1. AuditTypes /\ AuditsThere /\ HandInv /\ AloneInv
    BY DEF AuditIInv
  <1>2. AuditTypeOK
    BY <1>1 DEF AuditTypeOK, AuditTypes, VisitState, TaskState
  <1>3. SubmissionsShareAnAudit
    <2>1. Cardinality(Shared) <= 1 + overlaps
      BY FewNumbers, CoveredIsWork
    <2> QED BY <2>1 DEF SubmissionsShareAnAudit, Shared
  <1>4. UnfinishedIsInHand
    <2> SUFFICES ASSUME restarts = 0, NEW a \in Created, request[a].status \in {"queued", "running"}
                 PROVE  \/ \E v \in Visits : visit[v] = [pc |-> "schedule", id |-> a]
                        \/ \E k \in Tasks : task[k].pc # "idle" /\ task[k].id = a
      BY DEF UnfinishedIsInHand, Unfinished
    <2>1. QueuedInHand(a) \/ RunningInHand(a)
      BY <1>1 DEF HandInv
    <2> QED BY <2>1 DEF QueuedInHand, RunningInHand
  <1>5. ClaimedReportsStay
    <2> SUFFICES ASSUME overlaps = 0, NEW a \in claimed
                 PROVE  request[a].status = "completed" /\ request[a].score = Score(request[a].findings)
      BY DEF ClaimedReportsStay
    <2>1. a \in Created /\ Alone
      BY <1>1 DEF AloneInv, AuditsThere
    <2> QED BY <2>1 DEF Alone
  <1>6. ScoresCompare
    <2> SUFFICES ASSUME NEW a \in Created, NEW b \in Created, overlaps = 0,
                        request[a].status = "completed", request[b].status = "completed",
                        \A s \in Severities : request[a].findings[s] <= request[b].findings[s]
                 PROVE  request[a].score >= request[b].score
      BY DEF ScoresCompare
    <2>1. request[a].score = Score(request[a].findings) /\ request[b].score = Score(request[b].findings)
      BY <1>1 DEF AloneInv, Alone
    <2>2. request[a] \in FreeAuditRequest /\ request[b] \in FreeAuditRequest
      BY <1>1 DEF AuditTypes, Created
    <2>3. request[a].findings \in [Severities -> Nat] /\ request[b].findings \in [Severities -> Nat]
      BY <2>2, AuditRowFacts
    <2> QED BY <2>1, <2>3, Scores
  <1> QED BY <1>2, <1>3, <1>4, <1>5, <1>6 DEF AuditInv

\* The inductive invariant (AuditIInv): what every step of create_free_audit,
\* start_free_audit, claim_free_audit and execute_free_audit keeps, and a restart.
THEOREM AuditsInvariance == AuditSpec => []AuditIInv
  <1>1. AuditInit => AuditIInv
    BY InitAuditIInv
  <1>2. AuditIInv /\ [AuditNext]_auditVars => AuditIInv'
    BY AuditStep
  <1> QED BY <1>1, <1>2, PTL DEF AuditSpec

\* Whatever submissions and tasks read side by side, and whenever the process
\* restarts (AuditInv): submissions of six hours share an audit, and one more for
\* each overlap; an unfinished audit is in hand; a claimed report stays as it
\* was claimed; and a better page never scores less.
THEOREM AuditsAreShared == AuditSpec => []AuditInv
  BY AuditsInvariance, AuditSafe, PTL
=============================================================================
