--------------------------- MODULE SearchSignals ---------------------------
(*****************************************************************************)
(* What search_performance_service.py reads out of the metrics of a site:    *)
(* the opportunities, detected in Python and in PostgreSQL, and the outcome  *)
(* of an action.  Metrics are whole numbers: clicks, impressions, and the    *)
(* positions weighted with the impressions; ratios are compared by products. *)
(*****************************************************************************)
EXTENDS Integers, FiniteSets

CONSTANTS
    Queries,   \* search queries
    NoQuery,   \* the empty one, or none
    Pages,
    NoPage,    \* none
    Samples    \* bound: metrics of one half of the period

ASSUME SignalConstants == Samples \subseteq [clicks : Nat, impressions : Nat, position : Nat]

VARIABLE rows  \* search_analytics_metrics of 28 days: per query, page and half

Halves == {"previous", "current"}
Keys == Queries \X Pages
SignalsInit == rows \in [Keys \X Halves -> Samples]
-----------------------------------------------------------------------------
\* The rows of a key in one half, and _weighted_metrics of both halves.
Half(key, half) ==
    LET row == rows[<<key, half>>] IN
    [clicks |-> row.clicks, impressions |-> row.impressions, weighted |-> row.position * row.impressions]

_weighted_metrics(m, n) ==
    [clicks |-> m.clicks + n.clicks, impressions |-> m.impressions + n.impressions, weighted |-> m.weighted + n.weighted]

Recent(key) == _weighted_metrics(Half(key, "previous"), Half(key, "current"))
PositionIn(m, low, high) == m.impressions > 0 /\ low * m.impressions <= m.weighted /\ m.weighted <= high * m.impressions

AtMost100(n) == IF n > 100 THEN 100 ELSE n

Candidate(type, query, page, priority) ==
    [type |-> type, query |-> query, page |-> page, priority |-> AtMost100(priority)]

\* The three kinds of opportunity that a page has.
LowCtr(key, m) ==
    {Candidate("low_ctr", key[1], key[2], 55 + m.impressions \div 100) :
        x \in {n \in {m} : n.impressions >= 100 /\ PositionIn(n, 1, 10) /\ 50 * n.clicks < n.impressions}}

StrikingDistance(key, m) ==
    {Candidate("striking_distance", key[1], key[2], 50 + m.impressions \div 75) :
        x \in {n \in {m} : n.impressions >= 50 /\ PositionIn(n, 11, 20)}}

TrafficDecay(key, old, new) ==
    {Candidate("traffic_decay", key[1], key[2], 65 + (30 * (o.clicks - new.clicks)) \div o.clicks) :
        o \in {n \in {old} : n.clicks >= 10 /\ 10 * new.clicks <= 7 * n.clicks}}

OfPage(key) ==
    LowCtr(key, Recent(key)) \cup StrikingDistance(key, Recent(key))
        \cup TrafficDecay(key, Half(key, "previous"), Half(key, "current"))

Cannibalization(query, pages) ==
    IF query # NoQuery /\ Cardinality(pages) >= 2
    THEN {Candidate("cannibalization", query, NoPage, 60 + 5 * Cardinality(pages))} ELSE {}

\* detect_opportunity_candidates, in Python.
detect_opportunity_candidates ==
    (UNION {OfPage(key) : key \in Keys})
        \cup (UNION {Cannibalization(q, {p \in Pages : Recent(<<q, p>>).impressions >= 20}) : q \in Queries})

\* Mutant of Having: groups with few impressions are dropped, whatever they lost.
HavingImpressions(key) == Recent(key).impressions >= 20

\* The HAVING of the statement.
Having(key) == Recent(key).impressions >= 20 \/ Half(key, "previous").clicks >= 10

\* _detect_opportunity_candidates_from_db: the groups that PostgreSQL returns.
_detect_opportunity_candidates_from_db ==
    LET groups == {key \in Keys : Having(key)} IN
    (UNION {OfPage(key) : key \in groups})
        \cup (UNION {Cannibalization(q, {p \in Pages : <<q, p>> \in groups /\ Recent(<<q, p>>).impressions >= 20}) : q \in Queries})
-----------------------------------------------------------------------------
\* classify_action_outcome.

AtLeastOne(n) == IF n > 1 THEN n ELSE 1
Greater(a, b) == IF a > b THEN a ELSE b

\* A change of a tenth, up or down, of the clicks and of the click-through rate.
ClicksRise(b, c) == 10 * (c.clicks - b.clicks) >= AtLeastOne(b.clicks)
ClicksFall(b, c) == 10 * (c.clicks - b.clicks) <= -AtLeastOne(b.clicks)
CtrBase(b, c) == Greater(1000 * b.clicks * c.impressions, b.impressions * c.impressions)
CtrGain(b, c) == 10000 * (c.clicks * b.impressions - b.clicks * c.impressions)
CtrRises(b, c) == CtrGain(b, c) >= CtrBase(b, c)
CtrFalls(b, c) == CtrGain(b, c) <= -CtrBase(b, c)

Positive(b, c) ==
    /\ ClicksRise(b, c) \/ CtrRises(b, c)
    /\ ~ClicksFall(b, c) /\ ~CtrFalls(b, c)
    /\ 5 * (c.impressions - b.impressions) > -b.impressions

Negative(b, c) ==
    /\ ClicksFall(b, c) \/ CtrFalls(b, c)
    /\ ~ClicksRise(b, c) /\ ~CtrRises(b, c)
    /\ 5 * (c.impressions - b.impressions) < b.impressions

classify_action_outcome(b, c) ==
    IF b.impressions < 20 \/ c.impressions < 20 THEN "insufficient_data"
    ELSE IF Positive(b, c) THEN "positive" ELSE IF Negative(b, c) THEN "negative" ELSE "neutral"
-----------------------------------------------------------------------------
\* Properties.

\* "Aggregate in PostgreSQL so high-cardinality properties do not ORM-load raw
\* days": the statement and its HAVING find what the detector in Python finds.
DetectorsAgree == _detect_opportunity_candidates_from_db = detect_opportunity_candidates

\* Of two outcomes of an action with the same impressions, the one with more
\* clicks is rated no worse.
MoreClicksAreNoWorse ==
    LET worth == [negative |-> 1, insufficient_data |-> 2, neutral |-> 2, positive |-> 3] IN
    \A key \in Keys :
        LET b == rows[<<key, "previous">>]
            c == rows[<<key, "current">>]
        IN \A n \in 0..c.clicks :
            worth[classify_action_outcome(b, [c EXCEPT !.clicks = n])] <= worth[classify_action_outcome(b, c)]

\* Both detectors find the same, and outcomes are rated in their order.
SignalInv == DetectorsAgree /\ MoreClicksAreNoWorse
=============================================================================
