--------------------------- MODULE CitationScans ---------------------------
(*****************************************************************************)
(* citation_intelligence_service.py: the answers of a scan are taken in, in  *)
(* any order and more than once, and the scan is finalized, which opens the  *)
(* gaps that the answers show and resolves the others of the site.           *)
(*                                                                           *)
(* create_action commits, so that a finalization commits after every action  *)
(* that it makes and may end in between.                                     *)
(*****************************************************************************)
EXTENDS Integers, FiniteSets

CONSTANTS
    Scans,           \* of one prompt set of one site
    Prompts,
    GapTypes,        \* what an answer may lack
    Scanners,        \* requests
    MaxScanFailures  \* bound: requests that end early

VARIABLES
    scan,         \* citation_scans
    result,       \* citation_results, of one provider
    gap,          \* citation_gaps: per type and prompt
    gapActions,   \* operator_actions of the gaps, by idempotency key
    scanner,      \* requests at work
    scanFailures,
    scansCrossed       \* history: a request committed while another was at work

scanVars == <<scan, result, gap, gapActions, scanner, scanFailures, scansCrossed>>
-----------------------------------------------------------------------------
NoAnswer == "absent"
NoGap == [status |-> "absent", action |-> FALSE]
Gaps == GapTypes \X Prompts
Free == [pc |-> "idle"]

CitationsInit ==
    /\ scan = [s \in Scans |-> [status |-> "queued", result_count |-> 0]]
    /\ result = [x \in Scans \X Prompts |-> NoAnswer]
    /\ gap = [g \in Gaps |-> NoGap]
    /\ gapActions = {}
    /\ scanner = [q \in Scanners |-> Free]
    /\ scanFailures = 0 /\ scansCrossed = FALSE

Turns(q, state) == scanner' = [scanner EXCEPT ![q] = state]
CrossesScans(q) == scansCrossed' = (scansCrossed \/ \E o \in Scanners \ {q} : scanner[o].pc # "idle")
Answered(s) == {p \in Prompts : result[<<s, p>>] # NoAnswer}

\* The scan runs again when an answer is taken in after its end.
StatusOfIngested(status) == "running"

\* A request for a scan reads it first; an answer, or one that is replaced.
ReadsScan(q, s, pc) ==
    /\ scanner[q].pc = "idle"
    /\ Turns(q, [pc |-> pc, scan |-> s, read |-> scan[s].status])
    /\ UNCHANGED <<scan, result, gap, gapActions, scanFailures, scansCrossed>>

ingest_result(q) ==
    LET w == scanner[q]
        status == StatusOfIngested(w.read)
    IN
    /\ w.pc = "ingest"
    /\ \E p \in Prompts, answer \in GapTypes \cup {"good"} : result' = [result EXCEPT ![<<w.scan, p>>] = answer]
    /\ scan' = [scan EXCEPT ![w.scan].status = IF w.read # status THEN status ELSE @]
    /\ Turns(q, Free) /\ CrossesScans(q)
    /\ UNCHANGED <<gap, gapActions, scanFailures>>

\* The answers are read: open are the gaps that they show.
finalize_scan(q) ==
    LET w == scanner[q]
        shown == {<<result[<<w.scan, p>>], p>> : p \in {r \in Answered(w.scan) : result[<<w.scan, r>>] \in GapTypes}}
    IN
    /\ w.pc = "finalize"
    /\ Turns(q, [pc |-> "opening", scan |-> w.scan, read |-> w.read, count |-> Cardinality(Answered(w.scan)),
                 shown |-> shown, todo |-> shown, opened |-> <<>>])
    /\ UNCHANGED <<scan, result, gap, gapActions, scanFailures, scansCrossed>>

\* What a commit writes: the scan, and the gaps as far as they were opened; an
\* action is only recorded by the commit after the one that made it.
OpenedGap(g, was, linked) ==
    [status |-> IF was.status # "active" THEN "active" ELSE gap[g].status,
     action |-> gap[g].action \/ linked]
CountedScan(w) ==
    scan' = [scan EXCEPT ![w.scan].result_count = w.count,
                         ![w.scan].status = IF w.read # "completed" THEN "completed" ELSE @]

\* Mutant of KeyOfGap: every scan has a key of its own.
KeyOfScan(s, g) == <<g, s>>

\* "citation-gap:{gap_key}"
KeyOfGap(s, g) == <<g>>

\* One gap of the loop: found or made, and given an action unless it has one.
OpenGap(q) ==
    LET w == scanner[q]
        Opened(g) == [h \in DOMAIN w.opened \cup {g} |-> IF h = g THEN gap[g] ELSE w.opened[h]]
    IN
    /\ w.pc = "opening"
    /\ \E g \in w.todo :
          IF gap[g].action
          THEN /\ Turns(q, [w EXCEPT !.todo = @ \ {g}, !.opened = Opened(g)])
               /\ UNCHANGED <<scan, gap, gapActions, scansCrossed>>
          ELSE /\ CountedScan(w)
               /\ gap' = [h \in Gaps |-> IF h \in DOMAIN Opened(g) THEN OpenedGap(h, Opened(g)[h], h # g) ELSE gap[h]]
               /\ gapActions' = gapActions \cup {<<g, KeyOfGap(w.scan, g)>>}
               /\ Turns(q, [w EXCEPT !.todo = @ \ {g}, !.opened = Opened(g)])
               /\ CrossesScans(q)
    /\ UNCHANGED <<result, scanFailures>>

\* The last commit: unless the scan shows no gap at all, the others of the site
\* are resolved.
CommitScan(q) ==
    LET w == scanner[q]
        Resolved(g) ==
            IF w.shown # {} /\ g \notin w.shown /\ gap[g].status = "active" THEN [gap[g] EXCEPT !.status = "resolved"]
            ELSE gap[g]
    IN
    /\ w.pc = "opening" /\ w.todo = {}
    /\ CountedScan(w)
    /\ gap' = [g \in Gaps |-> IF g \in DOMAIN w.opened THEN OpenedGap(g, w.opened[g], TRUE) ELSE Resolved(g)]
    /\ Turns(q, Free) /\ CrossesScans(q)
    /\ UNCHANGED <<result, gapActions, scanFailures>>

ScanRequestFails(q) ==
    /\ scanner[q].pc # "idle" /\ scanFailures < MaxScanFailures
    /\ scanFailures' = scanFailures + 1
    /\ Turns(q, Free)
    /\ UNCHANGED <<scan, result, gap, gapActions, scansCrossed>>

CitationsNext ==
    \E q \in Scanners :
        \/ \E s \in Scans, pc \in {"ingest", "finalize"} : ReadsScan(q, s, pc)
        \/ ingest_result(q) \/ finalize_scan(q)
        \/ OpenGap(q) \/ CommitScan(q)
        \/ ScanRequestFails(q)
-----------------------------------------------------------------------------
\* Properties.

\* A scan that is completed has counted all its answers: one that comes later
\* puts it back to running, so that it is finalized again; unless it came while
\* the scan was finalized.
CompletedScansAreCounted ==
    \A s \in Scans : scan[s].status = "completed" /\ ~scansCrossed => scan[s].result_count = Cardinality(Answered(s))

\* However often scans show a gap and finalizations end early, there is one
\* action for it: the one whose record was lost is found by its key.
OneActionPerGap == \A a, b \in gapActions : a[1] = b[1] => a = b

\* A finalization can be repeated: it misses no answer, and doubles no action.
ScanInv == CompletedScansAreCounted /\ OneActionPerGap
=============================================================================
