------------------------------ MODULE MCGrowth ------------------------------
(*****************************************************************************)
(* What follows from synchronized metrics: the signals they show, the        *)
(* actions drafted for them, and the measurement of an action.  The three    *)
(* share no state, so that one run has the sum of them: side says which.     *)
(*****************************************************************************)
EXTENDS Measurements, Opportunities, SearchSignals, TLC

VARIABLE side

growthVars == <<measurementVars, opportunityVars, rows, side>>

\* Metrics of two weeks, at the bounds the detectors know.
Sample(clicks, impressions, position) == [clicks |-> clicks, impressions |-> impressions, position |-> position]
BoundarySamples ==
    {Sample(0, 0, 0), Sample(10, 15, 5), Sample(7, 20, 11), Sample(6, 60, 15), Sample(1, 100, 10), Sample(14, 130, 9)}

\* One query at a time has metrics.
RowsOf(q, metrics) ==
    [x \in Keys \X Halves |-> IF x[1][1] = q THEN metrics[x[1][2], x[2]] ELSE Sample(0, 0, 0)]
SomeRows == \E q \in Queries, metrics \in [Pages \X Halves -> Samples] : rows = RowsOf(q, metrics)
NoRows == rows = [x \in Keys \X Halves |-> Sample(0, 0, 0)]

\* Bound: two opportunities are shown at a time, of one source or of both.
Shown == {k \in OpportunityKeys : opportunity[k] # "absent" \/ \E r \in Reconcilers :
             reconciler[r].pc = "flushed" /\ reconciler[r].newOpportunity[k] # "absent"}
FewShown == Cardinality(Shown) <= 2

Init ==
    /\ side \in {"measurements", "opportunities", "signals"}
    /\ MeasurementsInit /\ OpportunitiesInit
    /\ IF side = "signals" THEN SomeRows ELSE NoRows

Next ==
    /\ UNCHANGED <<side, rows>>
    /\ \/ side = "measurements" /\ MeasurementsNext /\ UNCHANGED opportunityVars
       \/ side = "opportunities" /\ OpportunitiesNext /\ FewShown' /\ UNCHANGED measurementVars

Spec == Init /\ [][Next]_growthVars

\* Sound for invariants and actions.
Symmetry == Permutations(SearchKeys) \cup Permutations(Reconcilers)
=============================================================================
