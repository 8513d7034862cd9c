---------------------------- MODULE Measurements ----------------------------
(*****************************************************************************)
(* Whether an action helped: search_performance_service.py compares, for     *)
(* windows of several lengths, the days before the execution of an action    *)
(* with the days after it, once both have been synchronized.                 *)
(*                                                                           *)
(* execution_service.py freezes the windows of the baseline and marks the    *)
(* treatment in the transaction of the attempt; every sync, and every        *)
(* operator who asks, refreshes the records without a lock: a refresh writes *)
(* the columns in which its result differs from what it read.  Days are      *)
(* integers; what was counted on them is left out.                           *)
(*****************************************************************************)
EXTENDS Integers, FiniteSets, Folds

CONSTANTS
    Windows,       \* lengths in days, in the code 7, 14, 30, 60 and 90
    Lookback,      \* settings.search_sync_lookback_days
    Lag,           \* settings.search_sync_finalization_lag_days
    Refreshers,    \* refreshes that run at the same time, one of them the sync
    Sync,
    NotYet,        \* NULL of a day
    LastDay,       \* bound: days
    MaxSyncs,      \* bound: days with a completed sync
    MaxOvertakings \* bound: commits while a refresh is in progress

ASSUME MeasurementConstants ==
    /\ Windows \subseteq Nat \ {0} /\ Windows # {}
    /\ {Lookback, Lag} \subseteq Nat \ {0}
    /\ Sync \in Refreshers
    /\ NotYet \notin Int
    /\ {LastDay, MaxSyncs, MaxOvertakings} \subseteq Nat

VARIABLES
    today,
    synced,       \* the ranges of days of completed syncs
    treated,      \* the operator action
    measurement,  \* action_measurements, per window
    refresh,      \* per refresher: what it read and what it makes of it
    overtakings

measurementVars == <<today, synced, treated, measurement, refresh, overtakings>>
-----------------------------------------------------------------------------
Day == Int \cup {NotYet}

\* A window and whether it was synchronized when its metrics were read.
Metrics == [from : Day, end : Day, window_synced : BOOLEAN]
NoMetrics == [from |-> NotYet, end |-> NotYet, window_synced |-> FALSE]

ActionMeasurement ==
    [status : {"waiting", "baseline_pending", "measured", "censored", "not_applicable"},
     outcome : {"insufficient_data", "classified"}, applied : BOOLEAN,
     end : Day, baseline : Metrics, comparison : Metrics]

TreatedAction ==
    [status : {"approved", "execution_queued", "validating", "succeeded", "failed", "cancelled", "rolled_back"},
     started : Day, executed : Day, completed : Day, undone : Day]

Absent == [status |-> "absent"]
Records == [Windows -> ActionMeasurement]
NoRecords == [w \in Windows |-> Absent]
Resting == [pc |-> "idle", read |-> NoRecords, new |-> NoRecords, range |-> <<>>]

MeasurementsInit ==
    /\ today = 0 /\ synced = {}
    /\ treated = [status |-> "approved", started |-> NotYet, executed |-> NotYet, completed |-> NotYet, undone |-> NotYet]
    /\ measurement = NoRecords
    /\ refresh = [r \in Refreshers |-> Resting]
    /\ overtakings = 0
-----------------------------------------------------------------------------
\* Coverage.

After(range) == range[2] + 1

Earlier(r, s) == r[1] < s[1] \/ (r[1] = s[1] /\ r[2] <= s[2])
Last(ranges) == CHOOSE r \in ranges : \A s \in ranges : Earlier(s, r)

\* _ranges_cover_window: a cursor moves through the sorted ranges; NotYet when
\* it meets a gap.
_ranges_cover_window(ranges, start, end) ==
    LET Advance(range, cursor) ==
            IF cursor = NotYet \/ cursor > end \/ range[2] < cursor THEN cursor
            ELSE IF range[1] > cursor THEN NotYet ELSE After(range)
        reached == MapThenFoldSet(Advance, start, LAMBDA range : range, Last, ranges)
    IN ranges # {} /\ reached # NotYet /\ reached > end

\* _metric_window
_metric_window(ranges, start, end) ==
    [from |-> start, end |-> end, window_synced |-> _ranges_cover_window(ranges, start, end)]

Before(end, w, ranges) == _metric_window(ranges, end - w + 1, end)
-----------------------------------------------------------------------------
\* What the execution of the action does to its records.

Waits(m) == IF m.window_synced THEN "waiting" ELSE "baseline_pending"

Baseline(end, w, ranges) ==
    LET m == Before(end, w, ranges) IN
    [status |-> Waits(m), outcome |-> "insufficient_data", applied |-> FALSE, end |-> end,
     baseline |-> m, comparison |-> NoMetrics]

\* create_action_measurement_baselines: the day before the execution, or before
\* today.
create_baselines(a, records, ranges, day) ==
    LET anchor == IF a.started # NotYet THEN a.started ELSE day IN
    IF records # NoRecords THEN records ELSE [w \in Windows |-> Baseline(anchor - 1, w, ranges)]

\* refreeze_action_measurement_baselines, immediately before the change.
refreeze(records, ranges, day) ==
    [w \in Windows |-> [Baseline(day - 1, w, ranges) EXCEPT !.applied = records[w].applied]]

Inapplicable(records) ==
    [w \in Windows |-> [records[w] EXCEPT !.status = "not_applicable", !.outcome = "insufficient_data"]]

\* mark_action_measurement_mutation_applied
mark_applied(records, applied) ==
    LET marked == [w \in Windows |-> [records[w] EXCEPT !.applied = applied]]
    IN IF applied THEN marked ELSE Inapplicable(marked)
-----------------------------------------------------------------------------
\* refresh_action_measurements.

MeasurableStatuses == {"execution_queued", "validating", "succeeded", "rolled_back", "failed"}

Untreated(a, records) == records # NoRecords /\ a.executed # NotYet /\ \A w \in Windows : ~records[w].applied

\* A baseline that was synchronized is replaced by one that is.
RefreshedBaseline(m, w, ranges) ==
    LET new == Before(m.end, w, ranges) IN
    [m EXCEPT !.baseline = IF new.window_synced \/ ~@.window_synced THEN new ELSE @,
              !.status = IF new.window_synced /\ @ = "baseline_pending" THEN "waiting" ELSE @]

\* Mutant of FirstDay: the day of the change is compared too.
FirstDayOfChange(a) == IF a.completed # NotYet THEN a.completed ELSE a.executed

FirstDay(a) == (IF a.completed # NotYet THEN a.completed ELSE a.executed) + 1

UndoneBy(a, end) == a.undone # NotYet /\ end >= a.undone

\* The last day whose data are final.
Available(day) == day - Lag

Compared(a, m, w, ranges, day) ==
    LET start == FirstDay(a)
        end == start + w - 1
        current == _metric_window(ranges, start, end)
    IN
    IF UndoneBy(a, end) THEN
        [m EXCEPT !.status = "censored", !.outcome = "insufficient_data",
                  !.comparison = [@ EXCEPT !.from = start, !.end = IF end < a.undone THEN end ELSE a.undone]]
    ELSE IF end > Available(day) THEN
        [m EXCEPT !.status = "waiting", !.outcome = "insufficient_data"]
    ELSE IF ~m.baseline.window_synced \/ ~current.window_synced THEN
        [m EXCEPT !.status = Waits(m.baseline), !.outcome = "insufficient_data"]
    ELSE
        [m EXCEPT !.status = "measured", !.outcome = "classified", !.comparison = current]

Refreshed(a, records, ranges, day) ==
    LET made == create_baselines(a, records, ranges, day)
        based == [w \in Windows |-> RefreshedBaseline(made[w], w, ranges)]
    IN
    IF Untreated(a, records) THEN Inapplicable(records)
    ELSE IF records = NoRecords /\ a.status \notin MeasurableStatuses THEN records
    ELSE IF a.completed = NotYet /\ a.executed = NotYet THEN
        IF a.status \in {"cancelled", "failed", "rolled_back"} THEN Inapplicable(based) ELSE based
    ELSE [w \in Windows |-> Compared(a, based[w], w, ranges, day)]
-----------------------------------------------------------------------------
\* Days, and commits that a refresh in progress has not seen.

NewDay ==
    /\ today < LastDay
    /\ today' = today + 1
    /\ UNCHANGED <<synced, treated, measurement, refresh, overtakings>>

Overtakes(others) ==
    LET crosses == \E r \in others : refresh[r].pc # "idle" IN
    /\ crosses => overtakings < MaxOvertakings
    /\ overtakings' = IF crosses THEN overtakings + 1 ELSE overtakings

Executes(a, records) ==
    /\ treated' = a /\ measurement' = records
    /\ Overtakes(Refreshers)
    /\ UNCHANGED <<today, synced, refresh>>

enqueue_execution ==
    /\ treated.status = "approved"
    /\ Executes([treated EXCEPT !.status = "execution_queued"], create_baselines(treated, measurement, synced, today))

cancel_action ==
    /\ treated.status \in {"approved", "execution_queued"}
    /\ Executes([treated EXCEPT !.status = "cancelled"], measurement)

\* An attempt: it changes the site or has nothing to change; or it fails, which
\* keeps the window it froze, and is tried again or not.
execute_attempt ==
    LET frozen == refreeze(measurement, synced, today)
        begun == [treated EXCEPT !.started = today]
    IN
    /\ treated.status = "execution_queued"
    /\ \/ \E applied \in BOOLEAN :
             Executes([begun EXCEPT !.executed = today, !.status = "validating"], mark_applied(frozen, applied))
       \/ Executes(begun, frozen)
       \/ Executes([begun EXCEPT !.status = "failed"], frozen)

validate_attempt ==
    LET done == [treated EXCEPT !.status = "succeeded", !.completed = today] IN
    /\ treated.status = "validating"
    /\ \/ Executes(done, Refreshed(done, measurement, synced, today))
       \/ Executes([treated EXCEPT !.status = "failed"], measurement)

rollback_attempt ==
    LET back == [treated EXCEPT !.status = "rolled_back", !.undone = today] IN
    /\ treated.status = "succeeded"
    /\ \/ Executes(back, Refreshed(back, measurement, synced, today))
       \/ Executes([treated EXCEPT !.status = "failed"], measurement)
-----------------------------------------------------------------------------
\* Refreshes of the operator and of the sync.

Reads(r, ranges, range) ==
    /\ refresh[r].pc = "idle"
    /\ refresh' = [refresh EXCEPT ![r] = [pc |-> "read", read |-> measurement, range |-> range,
                                          new |-> Refreshed(treated, measurement, ranges, today)]]
    /\ UNCHANGED <<today, synced, treated, measurement, overtakings>>

\* refresh_operator_action_measurements
ReadForOperator(r) == r # Sync /\ Reads(r, synced, <<>>)

\* The last step of _process_search_sync_job: its own range counts already, and
\* actions without a window that waits are left alone.  Google may say that a
\* day less is final.
ReadForSync ==
    /\ Cardinality(synced) < MaxSyncs
    /\ \E short \in {0, 1} :
          LET range == <<today - Lag - short - Lookback + 1, today - Lag - short>>
              due == \E w \in Windows : measurement[w].status \in {"baseline_pending", "waiting"}
          IN IF due THEN Reads(Sync, synced \cup {range}, range)
             ELSE /\ synced' = synced \cup {range}
                  /\ UNCHANGED <<today, treated, measurement, refresh, overtakings>>

\* The UPDATEs of a refresh; an INSERT fails when there are records by now.
Merged(read, new) ==
    IF read = NoRecords THEN new
    ELSE [w \in Windows |-> [f \in DOMAIN new[w] |->
            IF new[w][f] # read[w][f] THEN new[w][f] ELSE measurement[w][f]]]

refresh_action_measurements(r) ==
    LET s == refresh[r] IN
    /\ s.pc = "read"
    /\ s.read = NoRecords /\ s.new # NoRecords => measurement = NoRecords
    /\ measurement' = IF s.new = NoRecords THEN measurement ELSE Merged(s.read, s.new)
    /\ synced' = IF r = Sync THEN synced \cup {s.range} ELSE synced
    /\ refresh' = [refresh EXCEPT ![r] = Resting]
    /\ Overtakes(Refreshers \ {r})
    /\ UNCHANGED <<today, treated>>

RefreshFails(r) ==
    /\ refresh[r].pc = "read"
    /\ refresh' = [refresh EXCEPT ![r] = Resting]
    /\ UNCHANGED <<today, synced, treated, measurement, overtakings>>

MeasurementsNext ==
    \/ NewDay \/ enqueue_execution \/ cancel_action
    \/ execute_attempt \/ validate_attempt \/ rollback_attempt
    \/ ReadForSync
    \/ \E r \in Refreshers : ReadForOperator(r) \/ refresh_action_measurements(r) \/ RefreshFails(r)

MeasurementsSpec == MeasurementsInit /\ [][MeasurementsNext]_measurementVars
-----------------------------------------------------------------------------
\* Properties.

Measured(w) == measurement[w].status = "measured"

MeasurementsTypeOK ==
    /\ measurement \in Records \cup {NoRecords}
    /\ treated \in TreatedAction
    /\ overtakings \in 0..MaxOvertakings

\* "Every day of the window is covered": the cursor of _ranges_cover_window says
\* what the words say, for all that syncs ever left behind.
CoverageMeansEveryDay ==
    \A start \in -Lookback..LastDay, w \in Windows :
        LET end == start + w - 1 IN
        _ranges_cover_window(synced, start, end)
            <=> \A d \in start..end : \E range \in synced : d \in range[1]..range[2]

\* A measured outcome compares as many days before the change as after it, none
\* of them the day of the change itself, and all of them synchronized.  (A
\* refresh that crosses an attempt leaves metrics of the window before; three
\* that cross may leave a comparison that a rollback cut.)
MeasuredIsFair ==
    \A w \in Windows : Measured(w) =>
        LET m == measurement[w] IN
        /\ m.end < treated.started
        /\ m.comparison.from > treated.executed
        /\ overtakings <= 2 => m.comparison.end = m.comparison.from + w - 1 /\ m.comparison.window_synced
        /\ overtakings = 0 => m.baseline.end = m.end /\ m.baseline.window_synced

\* What was measured was done: no outcome is learned from an action that changed
\* nothing.
MeasuredWasApplied == \A w \in Windows : Measured(w) => measurement[w].applied /\ treated.executed # NotYet

\* No window that the rollback cut short is measured, even by a refresh that had
\* read the action before the rollback: what it can measure ended Lag days ago.
RollbackCensors ==
    \A w \in Windows : Measured(w) /\ treated.undone # NotYet /\ overtakings <= 2 =>
        measurement[w].comparison.end < treated.undone

\* A measured outcome is a fair comparison of days that were synchronized, of a
\* change that was made and not undone.
MeasurementInv ==
    MeasurementsTypeOK /\ CoverageMeansEveryDay /\ MeasuredIsFair /\ MeasuredWasApplied /\ RollbackCensors
=============================================================================
