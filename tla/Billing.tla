------------------------------ MODULE Billing ------------------------------
(*****************************************************************************)
(* The subscription and the usage of one workspace: billing_service.py       *)
(* (webhooks, checkout and its confirmation), entitlement_service.py (quota  *)
(* and counters) and the metered calls of ai_gateway.py, serpapi_service.py. *)
(*                                                                           *)
(* Nothing locks the subscription row between its read and its write, and an *)
(* UPDATE names only the columns that differ from what was read.  Stripe     *)
(* delivers an event until it is answered with 200.                          *)
(*****************************************************************************)
EXTENDS Naturals, Sequences, FiniteSets

CONSTANTS
    Subs,         \* subscriptions that checkouts may create at Stripe
    Handlers,     \* requests that write the subscription row
    Callers,      \* metered calls that run at the same time
    None,         \* NULL
    PaidPlans,    \* plans with a price at Stripe
    Limits,       \* PLAN_ENTITLEMENTS: per plan and metric
    Kinds,        \* kinds of metered calls: "ai" (request_ai), "serp" (search_serp)
    TokenCounts,  \* tokens a provider may report
    MaxEvents,    \* bound: events Stripe emits
    MaxCalls,     \* bound: metered calls
    FaultKinds,   \* which faults may happen
    MaxFaults     \* bound: faults

Plans == PaidPlans \cup {"audit"}
Metrics == {"ai_requests", "ai_tokens", "serp_queries"}

ASSUME BillingConstants ==
    /\ None \notin Subs
    /\ "audit" \notin PaidPlans
    /\ Limits \in [Plans -> [Metrics -> Nat]]
    /\ TokenCounts \subseteq Nat
    /\ Kinds \subseteq {"ai", "serp"}
    /\ {MaxEvents, MaxCalls, MaxFaults} \subseteq Nat /\ MaxEvents > 0
    /\ FaultKinds \subseteq {"disorder", "double", "unavailable", "crash"}
    /\ IsFiniteSet(Callers) /\ Callers # {}

VARIABLES
    stripe,    \* the subscriptions as Stripe has them
    opened,    \* subscriptions for which a checkout session is open
    events,    \* what Stripe has emitted, in order; an index is an event id
    acked,     \* events answered with 200
    record,    \* stripe_webhook_events: the status per event
    applied,   \* history: how often the changes of an event were committed
    row,       \* subscriptions: the row of the workspace
    handler,   \* webhook deliveries and checkout confirmations in progress
    usage,     \* usage_counters: per period and metric
    caller,    \* metered calls in progress
    calls,     \* history: calls so far, and per period and kind those a provider has answered
    faults     \* faults so far

vars == <<stripe, opened, events, acked, record, applied, row, handler, usage,
          caller, calls, faults>>
-----------------------------------------------------------------------------
EventIds == 1..MaxEvents
ACTIVE_SUBSCRIPTION_STATUSES == {"active", "past_due"}
EndedStatuses == {"canceled"}
Statuses == ACTIVE_SUBSCRIPTION_STATUSES \cup EndedStatuses \cup {"incomplete"}
Periods == 0..MaxEvents

\* A subscription at Stripe; period counts its renewals.
Object == [plan : PaidPlans, status : Statuses, period : Periods]
Event == [type : {"subscription", "checkout", "payment_failed", "paid"},
          sub : Subs, object : Object]
ASSUME NoneIsNoObject == None \notin Object

Row == [plan : Plans, status : Statuses, period : Periods, sub : Subs \cup {None}]

Handler ==
    [pc : {"idle", "insert", "read", "fetch", "write"}, event : EventIds \cup {0},
     sub : Subs \cup {None}, read : Row, object : Object \cup {None}]
Caller ==
    [pc : {"idle", "calling", "answered"}, kind : {"ai", "serp"}, read : Row, tokens : TokenCounts \cup {0}]

FreshRow == [plan |-> "audit", status |-> "active", period |-> 0, sub |-> None]
IdleHandler == [pc |-> "idle", event |-> 0, sub |-> None, read |-> FreshRow, object |-> None]
IdleCaller == [pc |-> "idle", kind |-> "ai", read |-> FreshRow, tokens |-> 0]

\* sync_subscription_object: what the row becomes.
Synced(s, object) ==
    [plan |-> IF object.status \in EndedStatuses THEN "audit" ELSE object.plan,
     status |-> object.status, period |-> object.period, sub |-> s]

\* A workspace without a subscription, or with one whose first event is applied.
Init ==
    /\ \/ /\ stripe = [s \in Subs |-> None] /\ row = FreshRow /\ events = <<>>
       \/ \E s \in Subs, st \in Statuses, p \in PaidPlans :
             LET object == [plan |-> p, status |-> st, period |-> 0] IN
             /\ stripe = [t \in Subs |-> IF t = s THEN object ELSE None]
             /\ row = Synced(s, object)
             /\ events = <<[type |-> "subscription", sub |-> s, object |-> object]>>
    /\ opened = {}
    /\ acked = DOMAIN events
    /\ record = [e \in EventIds |-> IF e \in acked THEN "processed" ELSE "none"]
    /\ applied = [e \in EventIds |-> IF e \in acked THEN 1 ELSE 0]
    /\ handler = [h \in Handlers |-> IdleHandler]
    /\ usage = [p \in Periods |-> [m \in Metrics |-> 0]]
    /\ caller = [c \in Callers |-> IdleCaller]
    /\ calls = [begun |-> 0, answered |-> [p \in Periods |-> [k \in Kinds |-> 0]]]
    /\ faults = 0

stripeVars == <<stripe, opened, events>>
webhookVars == <<acked, record, applied, handler>>
usageVars == <<usage, caller, calls>>

\* A step that costs a fault of this kind when cond holds, and none otherwise.
FaultIf(kind, cond) ==
    /\ cond => kind \in FaultKinds /\ faults < MaxFaults
    /\ faults' = IF cond THEN faults + 1 ELSE faults

\* get_effective_subscription: the plan a row entitles to.
Lapsed(r) == r.status \notin ACTIVE_SUBSCRIPTION_STATUSES /\ r.plan # "audit"
Effective(r) == IF Lapsed(r) THEN "audit" ELSE r.plan

\* What an UPDATE leaves of the row: the columns that differ from the read.
Written(read, new) ==
    [plan |-> IF new.plan # read.plan THEN new.plan ELSE row.plan,
     status |-> IF new.status # read.status THEN new.status ELSE row.status,
     period |-> IF new.period # read.period THEN new.period ELSE row.period,
     sub |-> IF new.sub # read.sub THEN new.sub ELSE row.sub]

\* A metered call that has found the plan lapsed holds the row, with the plan
\* set to audit, until it ends.
RowLocked == \E c \in Callers : caller[c].pc \in {"calling", "answered"} /\ Lapsed(caller[c].read)

Live(s) == stripe[s] # None /\ stripe[s].status \notin EndedStatuses
-----------------------------------------------------------------------------
\* Stripe, and people in its checkout and its portal.

Emit(types, s, object) ==
    /\ Len(events) + Len(types) <= MaxEvents
    /\ stripe' = [stripe EXCEPT ![s] = object]
    /\ events' = events \o [i \in DOMAIN types |->
                               [type |-> types[i], sub |-> s, object |-> object]]
    /\ UNCHANGED <<row, webhookVars, usageVars>>

\* The session is paid for.  A second live subscription is a double checkout.
CompleteCheckout(s) ==
    /\ s \in opened
    /\ opened' = opened \ {s}
    /\ FaultIf("double", \E t \in Subs : Live(t))
    /\ \E p \in PaidPlans, st \in {"incomplete", "active"} :
           Emit(<<"subscription", "checkout">>, s, [plan |-> p, status |-> st, period |-> 0])

\* Stripe changes a subscription and says so.  A failed attempt to collect what
\* is unpaid already, a first payment say, changes nothing but is an event.
ChangeSubscription(s) ==
    /\ Live(s)
    /\ \/ /\ stripe[s].status \in {"incomplete", "past_due"}
          /\ \/ Emit(<<"subscription", "paid">>, s, [stripe[s] EXCEPT !.status = "active"])
             \/ Emit(<<"payment_failed">>, s, stripe[s])
       \/ /\ stripe[s].status = "active"
          /\ \/ Emit(<<"subscription", "payment_failed">>, s, [stripe[s] EXCEPT !.status = "past_due"])
             \/ Emit(<<"subscription", "paid">>, s, [stripe[s] EXCEPT !.period = @ + 1])
       \/ \E p \in PaidPlans \ {stripe[s].plan} :
             Emit(<<"subscription">>, s, [stripe[s] EXCEPT !.plan = p])
       \/ Emit(<<"subscription">>, s, [stripe[s] EXCEPT !.status = "canceled"])
    /\ UNCHANGED <<opened, faults>>
-----------------------------------------------------------------------------
\* Requests that write the subscription row.

Busy(g) == handler[g].pc # "idle"

create_checkout_session(s) ==
    /\ s \notin opened /\ stripe[s] = None
    /\ ~(row.plan # "audit" /\ row.status \in ACTIVE_SUBSCRIPTION_STATUSES)
    /\ opened' = opened \cup {s}
    /\ UNCHANGED <<stripe, events, row, webhookVars, usageVars, faults>>

Pending(e) == e \in 1..Len(events) /\ e \notin acked

\* A transaction that writes the row begins while another one is open.
Crosses == RowLocked \/ \E g \in Handlers : Busy(g)

\* A delivery begins: the signature holds, and the event id is not recorded.
DeliverEvent(h, e) ==
    /\ ~Busy(h) /\ Pending(e)
    /\ record[e] = "none"
    /\ FaultIf("disorder", Crosses \/ \E d \in 1..(e - 1) : Pending(d))
    /\ handler' = [handler EXCEPT ![h] = [IdleHandler EXCEPT !.pc = "insert", !.event = e,
                                                            !.sub = events[e].sub]]
    /\ UNCHANGED <<stripeVars, acked, record, applied, row, usageVars>>

\* A recorded event is answered with 200 and not applied again.
DeliverRecorded(e) ==
    /\ Pending(e) /\ record[e] # "none"
    /\ acked' = acked \cup {e}
    /\ UNCHANGED <<stripeVars, record, applied, row, handler, usageVars, faults>>

\* Mutant of InsertRecord: the event id has no unique index.
InsertUnchecked(h) ==
    /\ handler[h].pc = "insert"
    /\ handler' = [handler EXCEPT ![h].pc = "read"]
    /\ UNCHANGED <<stripeVars, acked, record, applied, row, usageVars, faults>>

\* The INSERT of the event id waits for the one that another delivery of the
\* event has not committed, and fails if that one commits.
InsertRecord(h) ==
    /\ handler[h].pc = "insert"
    /\ ~\E g \in Handlers : handler[g].event = handler[h].event /\ handler[g].pc \in {"read", "fetch", "write"}
    /\ handler' = [handler EXCEPT ![h] = IF record[@.event] = "none"
                                         THEN [@ EXCEPT !.pc = "read"] ELSE IdleHandler]
    /\ UNCHANGED <<stripeVars, acked, record, applied, row, usageVars, faults>>

\* _find_local_subscription: the row this request computes with from now on.
ReadRow(h) ==
    LET w == handler[h]
        fetches == w.event # 0 /\ events[w.event].type = "checkout"
    IN
    /\ w.pc = "read"
    /\ handler' = [handler EXCEPT ![h] =
                      [w EXCEPT !.read = row,
                                !.pc = IF fetches THEN "fetch" ELSE "write",
                                !.object = IF w.event # 0 /\ ~fetches
                                           THEN events[w.event].object ELSE @]]
    /\ UNCHANGED <<stripeVars, acked, record, applied, row, usageVars, faults>>

\* The user comes back from Checkout to a session that is complete, perhaps to
\* one of long ago.
confirm_checkout_session(h, s) ==
    /\ ~Busy(h) /\ stripe[s] # None
    /\ FaultIf("disorder", Crosses \/ s # events[Len(events)].sub)
    /\ handler' = [handler EXCEPT ![h] = [IdleHandler EXCEPT !.pc = "fetch", !.sub = s]]
    /\ UNCHANGED <<stripeVars, acked, record, applied, row, usageVars>>

\* GET subscriptions/{id}: the state Stripe has at this moment.
FetchSubscription(h) ==
    /\ handler[h].pc = "fetch"
    /\ handler' = [handler EXCEPT ![h].object = stripe[handler[h].sub],
                                  ![h].pc = IF handler[h].event = 0 THEN "read" ELSE "write"]
    /\ UNCHANGED <<stripeVars, acked, record, applied, row, usageVars, faults>>

\* Mutant of NewRow: subscription events update the status only.
NewRowKeepsPlan(w) == [w.read EXCEPT !.status = IF w.object = None THEN "active" ELSE w.object.status]

\* What the request wants the row to be.
NewRow(w) ==
    CASE w.event # 0 /\ events[w.event].type = "payment_failed" -> [w.read EXCEPT !.status = "past_due"]
      [] w.event # 0 /\ events[w.event].type = "paid" ->
             [w.read EXCEPT !.status = IF @ = "past_due" THEN "active" ELSE @]
      [] OTHER -> Synced(w.sub, w.object)

\* The changes and, for an event, its record are committed together.
CommitRow(h) ==
    LET w == handler[h] IN
    /\ w.pc = "write"
    /\ NewRow(w) # w.read => ~RowLocked
    /\ row' = Written(w.read, NewRow(w))
    /\ record' = IF w.event = 0 THEN record ELSE [record EXCEPT ![w.event] = "processed"]
    /\ applied' = IF w.event = 0 THEN applied ELSE [applied EXCEPT ![w.event] = @ + 1]
    /\ acked' = acked \cup ({w.event} \ {0})
    /\ handler' = [handler EXCEPT ![h] = IdleHandler]
    /\ UNCHANGED <<stripeVars, usageVars, faults>>

\* Stripe does not answer the GET.  The event is recorded as failed, and
\* answered with an error.
StripeUnavailable(h) ==
    LET w == handler[h] IN
    /\ w.pc = "fetch"
    /\ FaultIf("unavailable", TRUE)
    /\ record' = IF w.event = 0 THEN record ELSE [record EXCEPT ![w.event] = "failed"]
    /\ handler' = [handler EXCEPT ![h] = IdleHandler]
    /\ UNCHANGED <<stripeVars, acked, applied, row, usageVars>>

\* The process dies, or the connection to the database breaks.
HandlerDies(h) ==
    /\ Busy(h)
    /\ FaultIf("crash", TRUE)
    /\ handler' = [handler EXCEPT ![h] = IdleHandler]
    /\ UNCHANGED <<stripeVars, acked, record, applied, row, usageVars>>
-----------------------------------------------------------------------------
\* Metered calls: request_ai, search_serp.

Metered(kind) == IF kind = "ai" THEN {"ai_requests", "ai_tokens"} ELSE {"serp_queries"}

\* assert_usage_quota: room for one more, by the row and the counters as read.
HasRoom(r, metric) == usage[r.period][metric] + 1 <= Limits[Effective(r)][metric]

\* The quota is checked.  A lapsed plan is set to audit, which the SELECT of
\* the counter flushes: the row is locked until the call ends.
BeginCall(c, kind) ==
    /\ caller[c].pc = "idle"
    /\ calls.begun < MaxCalls
    /\ \A metric \in Metered(kind) : HasRoom(row, metric)
    /\ Lapsed(row) => ~RowLocked
    /\ FaultIf("disorder", Lapsed(row) /\ \E h \in Handlers : Busy(h))
    /\ calls' = [calls EXCEPT !.begun = @ + 1]
    /\ caller' = [caller EXCEPT ![c] = [IdleCaller EXCEPT !.pc = "calling", !.kind = kind, !.read = row]]
    /\ UNCHANGED <<stripeVars, webhookVars, row, usage>>

\* One of the candidates answers, and says how many tokens it took.
ProviderAnswers(c) ==
    /\ caller[c].pc = "calling"
    /\ \E t \in TokenCounts : caller' = [caller EXCEPT ![c].pc = "answered", ![c].tokens = t]
    /\ calls' = [calls EXCEPT !.answered[caller[c].read.period][caller[c].kind] = @ + 1]
    /\ UNCHANGED <<stripeVars, webhookVars, row, usage, faults>>

\* No candidate answers: the transaction is rolled back.
ProviderFails(c) ==
    /\ caller[c].pc = "calling"
    /\ caller' = [caller EXCEPT ![c] = IdleCaller]
    /\ UNCHANGED <<stripeVars, webhookVars, row, usage, calls, faults>>

Charge(w, metric) == IF metric = "ai_tokens" THEN w.tokens ELSE 1

\* record_usage without enforcing the quota, on the counters of one period.
record_usage(counters, w) ==
    [m \in Metrics |-> IF m \in Metered(w.kind) THEN counters[m] + Charge(w, m) ELSE counters[m]]

\* The counters of the period that was read go up, and the row is committed
\* with what the check made of it.
RecordCall(c) ==
    LET w == caller[c] IN
    /\ w.pc = "answered"
    /\ usage' = [usage EXCEPT ![w.read.period] = record_usage(@, w)]
    /\ row' = IF Lapsed(w.read) THEN [row EXCEPT !.plan = "audit"] ELSE row
    /\ caller' = [caller EXCEPT ![c] = IdleCaller]
    /\ UNCHANGED <<stripeVars, webhookVars, calls, faults>>

CallerDies(c) ==
    /\ caller[c].pc # "idle"
    /\ FaultIf("crash", TRUE)
    /\ caller' = [caller EXCEPT ![c] = IdleCaller]
    /\ UNCHANGED <<stripeVars, webhookVars, row, usage, calls>>
-----------------------------------------------------------------------------
Next ==
    \/ \E s \in Subs : create_checkout_session(s) \/ CompleteCheckout(s) \/ ChangeSubscription(s)
    \/ \E e \in EventIds : DeliverRecorded(e)
    \/ \E h \in Handlers :
          \/ \E e \in EventIds : DeliverEvent(h, e)
          \/ \E s \in Subs : confirm_checkout_session(h, s)
          \/ InsertRecord(h) \/ ReadRow(h) \/ FetchSubscription(h) \/ CommitRow(h)
          \/ StripeUnavailable(h) \/ HandlerDies(h)
    \/ \E c \in Callers :
          \/ \E kind \in Kinds : BeginCall(c, kind)
          \/ ProviderAnswers(c) \/ ProviderFails(c) \/ RecordCall(c) \/ CallerDies(c)

Spec == Init /\ [][Next]_vars
-----------------------------------------------------------------------------
\* Properties.

TypeOK ==
    /\ stripe \in [Subs -> Object \cup {None}]
    /\ opened \in SUBSET Subs
    /\ events \in Seq(Event) /\ Len(events) <= MaxEvents
    /\ acked \in SUBSET EventIds
    /\ record \in [EventIds -> {"none", "processed", "failed"}]
    /\ applied \in [EventIds -> Nat]
    /\ row \in Row
    /\ handler \in [Handlers -> Handler]
    /\ usage \in [Periods -> [Metrics -> Nat]]
    /\ caller \in [Callers -> Caller]
    /\ calls \in [begun : 0..MaxCalls, answered : [Periods -> [Kinds -> Nat]]]
    /\ faults \in 0..MaxFaults

\* "duplicate delivery [...] without applying the state twice": the changes of an
\* event are committed once at most, however often and however concurrently it
\* is delivered.
EventsApplyOnce == \A e \in EventIds : applied[e] <= 1

\* Stripe is told to stop delivering an event only once the event is recorded,
\* and it is recorded as processed only with its changes.
AckedEventsAreRecorded ==
    \A e \in EventIds : /\ e \in acked => record[e] # "none"
                        /\ record[e] = "processed" => applied[e] = 1

\* No mixture of columns that old reads leave behind gives the workspace a paid
\* plan before some subscription of it was active, unless an attempt to collect
\* a payment has failed: the code takes even a first one for a renewal's, and
\* past_due, which entitles, is what it writes.
NothingBeforePayment ==
    Effective(row) # "audit" =>
        \E e \in 1..Len(events) :
            events[e].object.status \in ACTIVE_SUBSCRIPTION_STATUSES \/ events[e].type = "payment_failed"

\* Events in order, one transaction on the row at a time, one subscription at a
\* time, no failure: once all is delivered, the plan is the one Stripe has, or
\* the one whose first payment has failed.
Entitled(object) == IF object.status \in ACTIVE_SUBSCRIPTION_STATUSES THEN object.plan ELSE "audit"
FirstPaymentFailed(s) ==
    /\ stripe[s].status = "incomplete"
    /\ \E e \in 1..Len(events) :
           events[e].type = "payment_failed" /\ events[e].sub = s /\ events[e].object = stripe[s]
UndisturbedPlanFollowsStripe ==
    /\ faults = 0 /\ Len(events) > 0
    /\ \A e \in 1..Len(events) : e \in acked
    /\ \A h \in Handlers : ~Busy(h)
    /\ \A c \in Callers : caller[c].pc = "idle"
    => LET s == events[Len(events)].sub IN
       \/ Effective(row) = Entitled(stripe[s])
       \/ FirstPaymentFailed(s) /\ Effective(row) = stripe[s].plan

\* The check of a call is as old as the call: usage passes the largest limit by
\* the calls that run beside it, and by their tokens, at most.
Largest(numbers) == {n \in numbers : \A k \in numbers : k <= n}
LargestLimit(metric) == Largest({Limits[p][metric] : p \in Plans})
OvershootIsBounded ==
    \A p \in Periods :
        /\ \A m \in {"ai_requests", "serp_queries"} :
               \A n \in LargestLimit(m) : usage[p][m] < n + Cardinality(Callers)
        /\ usage[p]["ai_tokens"] > 0 =>
               \A n \in LargestLimit("ai_tokens"), t \in Largest(TokenCounts) :
                   usage[p]["ai_tokens"] < n + Cardinality(Callers) * t

\* Every answer of a provider is on the counter of the period that paid for it,
\* in hand, or lost with a process.
Requests(kind) == IF kind = "ai" THEN "ai_requests" ELSE "serp_queries"
InHand(p, kind) ==
    {c \in Callers : caller[c].pc = "answered" /\ caller[c].kind = kind /\ caller[c].read.period = p}
AnswersAreMetered ==
    \A p \in Periods, kind \in Kinds :
        calls.answered[p][kind] <= usage[p][Requests(kind)] + Cardinality(InHand(p, kind)) + faults

\* The plan of a workspace is Stripe's in the end, and nobody's gift before.
PlanFollowsStripe == NothingBeforePayment /\ UndisturbedPlanFollowsStripe

\* Events are recorded as they are applied, and usage as it happens, whatever
\* handlers and callers overlap.
BillingInv ==
    TypeOK /\ EventsApplyOnce /\ AckedEventsAreRecorded /\ OvershootIsBounded /\ AnswersAreMetered
=============================================================================
