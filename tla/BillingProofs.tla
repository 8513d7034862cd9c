--------------------------- MODULE BillingProofs ---------------------------
(*****************************************************************************)
(* Theorems about Billing, for every number of events, subscriptions,        *)
(* requests, metered calls and faults.                                       *)
(*****************************************************************************)
EXTENDS Billing, FiniteSetTheorems, SequenceTheorems, TLAPS

\* Stripe: a subscription has an event with the state it is in, an event names a
\* subscription that exists, and the events of payments say how they ended.
StripeInv ==
    /\ \A s \in Subs : stripe[s] # None =>
           /\ stripe[s].period <= Len(events)
           /\ \E e \in 1..Len(events) : events[e].sub = s /\ events[e].object = stripe[s]
    /\ \A e \in 1..Len(events) :
           /\ stripe[events[e].sub] # None
           /\ events[e].type = "payment_failed" => events[e].object.status \in {"incomplete", "past_due"}
           /\ events[e].type = "paid" => events[e].object.status = "active"
    /\ acked \subseteq 1..Len(events)

\* A delivery is one of an event that was emitted, and knows what to write once
\* it writes; a confirmation fetches before it reads.
Informed(w) ==
    /\ w.pc # "idle" => w.sub \in Subs /\ stripe[w.sub] # None
    /\ w.event # 0 => w.event \in 1..Len(events) /\ w.sub = events[w.event].sub
    /\ w.pc = "insert" => w.event # 0
    /\ w.pc = "fetch" /\ w.event # 0 => events[w.event].type = "checkout"
    /\ w.pc = "write" \/ (w.pc = "read" /\ w.event = 0) => w.object \in Object
    /\ w.pc = "write" /\ w.event # 0 /\ events[w.event].type # "checkout" => w.object = events[w.event].object
HandlerInv == \A h \in Handlers : Informed(handler[h])

\* The delivery in progress holds the event: it has inserted its record, which
\* nobody else sees before the commit.
HoldsEvent(w) == w.event # 0 /\ w.pc \in {"read", "fetch", "write"}
Holds(h) == HoldsEvent(handler[h])

OnceInv ==
    /\ \A e \in EventIds :
           /\ applied[e] = IF record[e] = "processed" THEN 1 ELSE 0
           /\ e \in acked => record[e] # "none"
    /\ \A h \in Handlers : Holds(h) => record[handler[h].event] = "none"
    /\ \A g, h \in Handlers : Holds(g) /\ Holds(h) /\ handler[g].event = handler[h].event => g = h

\* Before any subscription was active, and any payment has failed: nothing is
\* written that is active, so that a status that is not, once written, stays.
Inactive(status) == status \notin ACTIVE_SUBSCRIPTION_STATUSES
NoneActive ==
    \A e \in 1..Len(events) : Inactive(events[e].object.status) /\ events[e].type # "payment_failed"
Unpaid(w) ==
    /\ w.object # None => Inactive(w.object.status)
    /\ Inactive(w.read.status) => Inactive(row.status)
UnpaidInv ==
    NoneActive => /\ row.plan = "audit" \/ Inactive(row.status)
                  /\ \A h \in Handlers : Unpaid(handler[h])

\* Without faults: one request on the row at a time, and events in order.
OneWriter == \A g, h \in Handlers : Busy(g) /\ Busy(h) => g = h
InOrder ==
    /\ \A e \in EventIds : record[e] # "none" => e \in acked
    /\ \A e \in acked : \A d \in 1..e : d \in acked
Attends(w) ==
    /\ w.pc # "idle" /\ w.event # 0 => w.event \notin acked /\ \A d \in 1..(w.event - 1) : d \in acked
    /\ w.pc = "write" \/ (w.pc = "fetch" /\ w.event # 0) => w.read = row
FoundLapsed(c) == caller[c].pc # "idle" /\ Lapsed(caller[c].read)
LapsedAlone ==
    \A c \in Callers : FoundLapsed(c) =>
        /\ caller[c].read = row
        /\ \A h \in Handlers : ~Busy(h)
        /\ \A d \in Callers : FoundLapsed(d) => d = c
AloneInv == OneWriter /\ InOrder /\ LapsedAlone /\ \A h \in Handlers : Attends(handler[h])

\* The event of the last change at Stripe, with which its state is known.
Newest(b) ==
    /\ b \in 1..Len(events)
    /\ events[b].type = "subscription"
    /\ events[b].object = stripe[events[b].sub]
    /\ \A j \in b..Len(events) : /\ events[j].sub = events[b].sub /\ events[j].object = events[b].object
                                 /\ events[j].type = "subscription" => j = b

Agrees(r, object) ==
    /\ r.status = object.status /\ r.plan \in {"audit", object.plan}
    /\ object.status \in ACTIVE_SUBSCRIPTION_STATUSES => r.plan = object.plan

\* The row says past_due of a subscription whose first payment has failed.
Misled(r, b) ==
    /\ r.status = "past_due" /\ events[b].object.status = "incomplete"
    /\ r.plan \in {"audit", events[b].object.plan}
    /\ \E e \in 1..Len(events) : /\ events[e].type = "payment_failed" /\ events[e].sub = events[b].sub
                                 /\ events[e].object = events[b].object
Matches(r, b) == Agrees(r, events[b].object) \/ Misled(r, b)

\* As soon as that event is applied the row agrees with Stripe, or is misled, and
\* whoever writes it from then on writes the same.
Follows(w, b) ==
    /\ w.pc = "write" /\ w.event >= b => w.object = events[b].object
    /\ b \in acked /\ w.pc # "idle" /\ w.event = 0 =>
           /\ w.sub = events[b].sub
           /\ w.pc \in {"read", "write"} => w.object = events[b].object
FollowInv ==
    /\ Len(events) > 0 => \E b \in 1..Len(events) : Newest(b)
    /\ \A b \in 1..Len(events) : Newest(b) =>
           /\ b \in acked => Matches(row, b)
           /\ \A h \in Handlers : Follows(handler[h], b)

\* One subscription at a time: what Stripe can change is what it changed last.
LiveIsLast == \A s \in Subs : Live(s) => Len(events) > 0 /\ s = events[Len(events)].sub

UndisturbedInv == faults = 0 => AloneInv /\ FollowInv /\ LiveIsLast

\* Calls in progress: each has found room, and takes a request and its tokens.
Beside(p, kind) == {c \in Callers : caller[c].pc # "idle" /\ caller[c].kind = kind /\ caller[c].read.period = p}

RequestsInv ==
    \A p \in Periods, kind \in {"ai", "serp"} : \A n \in LargestLimit(Requests(kind)) :
        usage[p][Requests(kind)] + Cardinality(Beside(p, kind)) < n + Cardinality(Callers)

TokensInv ==
    \A p \in Periods : \A n \in LargestLimit("ai_tokens"), t \in Largest(TokenCounts) :
        \/ usage[p]["ai_tokens"] = 0 /\ Beside(p, "ai") = {}
        \/ usage[p]["ai_tokens"] + Cardinality(Beside(p, "ai")) * t < n + Cardinality(Callers) * t

Underway(w) ==
    /\ w.pc # "idle" => w.kind \in Kinds
    /\ w.pc = "answered" => w.tokens \in TokenCounts
CallerInv == \A c \in Callers : Underway(caller[c])

BasicInv == TypeOK /\ StripeInv /\ HandlerInv /\ CallerInv
-----------------------------------------------------------------------------
(* What the steps do.                                                        *)

\* Stripe has changed subscription s into o, or has failed to, and says so in one
\* or two events.
Emitted(s, o) ==
    /\ stripe' = [stripe EXCEPT ![s] = o]
    /\ o.period <= Len(events) + 1
    /\ events' \in Seq(Event)
    /\ Len(events') \in {Len(events) + 1, Len(events) + 2} /\ Len(events') <= MaxEvents
    /\ \A e \in 1..Len(events) : events'[e] = events[e]
    /\ \A e \in (Len(events) + 1)..Len(events') :
           /\ events'[e].sub = s /\ events'[e].object = o
           /\ events'[e].type = "subscription" => e = Len(events) + 1
           /\ events'[e].type = "payment_failed" => o.status \in {"incomplete", "past_due"}
           /\ events'[e].type = "paid" => o.status = "active"
    /\ \/ events'[Len(events) + 1].type = "subscription"
       \/ Len(events') = Len(events) + 1 /\ stripe[s] = o /\ Live(s) /\ events'[Len(events) + 1].type = "payment_failed"
    /\ UNCHANGED <<row, webhookVars, usageVars>>

LEMMA Joined ==
    ASSUME NEW S, NEW a \in Seq(S), NEW z \in Seq(S)
    PROVE  /\ a \o z \in Seq(S)
           /\ Len(a \o z) = Len(a) + Len(z)
  OBVIOUS

LEMMA Emits ==
    ASSUME BillingConstants, TypeOK, NEW s \in Subs, NEW o \in Object, o.period <= Len(events) + 1,
           NEW types, NEW a \in {"subscription", "payment_failed"}, NEW b \in {"checkout", "payment_failed", "paid"},
           types = <<a>> \/ types = <<a, b>>,
           a = "payment_failed" => types = <<a>> /\ stripe[s] = o /\ Live(s),
           "payment_failed" \in {a, b} => o.status \in {"incomplete", "past_due"}, b = "paid" => o.status = "active",
           Emit(types, s, o)
    PROVE  Emitted(s, o)
  <1> DEFINE news == [i \in DOMAIN types |-> [type |-> types[i], sub |-> s, object |-> o]]
  <1>1. /\ types \in Seq({a, b}) /\ Len(types) \in {1, 2} /\ DOMAIN types = 1..Len(types)
        /\ types[1] = a /\ (Len(types) = 2 => types[2] = b)
        /\ a = "payment_failed" => Len(types) = 1
    <2>1. CASE types = <<a>>
      BY <2>1
    <2>2. CASE types = <<a, b>> /\ a # "payment_failed"
      BY <2>2
    <2> QED BY <2>1, <2>2
  <1>2. /\ news \in Seq(Event) /\ Len(news) = Len(types)
        /\ \A i \in 1..Len(types) : news[i] = [type |-> types[i], sub |-> s, object |-> o]
    BY <1>1 DEF Event
  <1>3. /\ stripe' = [stripe EXCEPT ![s] = o] /\ UNCHANGED <<row, webhookVars, usageVars>>
        /\ Len(events) + Len(types) <= MaxEvents
        /\ events' = events \o news
    BY DEF Emit
  <1>4. events \in Seq(Event) /\ Len(events) \in Nat
    BY DEF TypeOK
  <1> HIDE DEF news
  <1>5. /\ events' \in Seq(Event) /\ Len(events') = Len(events) + Len(types)
        /\ \A e \in 1..Len(events) : events'[e] = events[e]
        /\ \A e \in (Len(events) + 1)..Len(events') : events'[e] = news[e - Len(events)]
    <2>1. events \o news \in Seq(Event) /\ Len(events \o news) = Len(events) + Len(types)
      <3>1. news \in Seq(Event) /\ events \in Seq(Event)
        BY <1>2, <1>4
      <3>2. events \o news \in Seq(Event)
        BY <3>1, Joined
      <3>3. Len(events \o news) = Len(events) + Len(news)
        BY <3>1, Joined
      <3> QED BY <1>2, <3>2, <3>3
    <2>2. \A e \in 1..Len(events) : (events \o news)[e] = events[e]
      BY <1>1, <1>2, <1>4
    <2>3. \A e \in (Len(events) + 1)..(Len(events) + Len(types)) : (events \o news)[e] = news[e - Len(events)]
      BY <1>1, <1>2, <1>4
    <2> QED BY <1>3, <2>1, <2>2, <2>3
  <1>6. ASSUME NEW e \in (Len(events) + 1)..Len(events')
        PROVE  /\ events'[e].sub = s /\ events'[e].object = o
               /\ events'[e].type = IF e = Len(events) + 1 THEN a ELSE b
    <2>1. e - Len(events) \in 1..Len(types) /\ (e = Len(events) + 1 <=> e - Len(events) = 1)
      BY <1>1, <1>4, <1>5
    <2>2. events'[e] = [type |-> types[e - Len(events)], sub |-> s, object |-> o]
      BY <1>2, <1>5, <2>1
    <2>3. types[e - Len(events)] = (IF e = Len(events) + 1 THEN a ELSE b)
      <3>1. PICK n : n = e - Len(events)
        OBVIOUS
      <3>2. n \in 1..Len(types) /\ (e = Len(events) + 1 <=> n = 1)
        BY ONLY <2>1, <3>1
      <3>3. types[n] = (IF n = 1 THEN a ELSE b)
        BY ONLY <1>1, <3>2
      <3> QED BY ONLY <3>1, <3>2, <3>3
    <2> QED BY <2>2, <2>3
  <1>7. Len(events) + 1 \in (Len(events) + 1)..Len(events')
    BY <1>1, <1>4, <1>5
  <1>8. events'[Len(events) + 1].type = a /\ (a = "payment_failed" => Len(events') = Len(events) + 1)
    BY <1>1, <1>5, <1>6, <1>7
  <1> QED BY <1>1, <1>3, <1>4, <1>5, <1>6, <1>8 DEF Emitted

StripeStep ==
    \E s \in Subs : create_checkout_session(s) \/ CompleteCheckout(s) \/ ChangeSubscription(s)

\* A session is opened, or a subscription has changed.
LEMMA StripeSteps ==
    ASSUME BillingConstants, TypeOK, StripeInv, StripeStep
    PROVE  /\ opened' \in SUBSET Subs /\ faults' \in {faults, faults + 1} /\ faults' \in 0..MaxFaults
           /\ \/ UNCHANGED <<stripe, events, row, webhookVars, usageVars>>
              \/ \E s \in Subs, o \in Object : Emitted(s, o) /\ (faults' = 0 => Live(s) \/ \A t \in Subs : ~Live(t))
  <1>0. faults \in 0..MaxFaults /\ MaxFaults \in Nat /\ opened \in SUBSET Subs
    BY DEF TypeOK, BillingConstants
  <1>1. ASSUME NEW s \in Subs, create_checkout_session(s)
        PROVE  /\ opened' \in SUBSET Subs /\ faults' = faults
               /\ UNCHANGED <<stripe, events, row, webhookVars, usageVars>>
    BY <1>0, <1>1 DEF create_checkout_session
  <1>2. ASSUME NEW s \in Subs, CompleteCheckout(s)
        PROVE  /\ opened' \in SUBSET Subs /\ faults' \in {faults, faults + 1} /\ faults' \in 0..MaxFaults
               /\ \E o \in Object : Emitted(s, o)
               /\ faults' = 0 => \A t \in Subs : ~Live(t)
    <2>1. opened' \in SUBSET Subs
      BY <1>0, <1>2 DEF CompleteCheckout
    <2>2. /\ faults' \in {faults, faults + 1} /\ faults' \in 0..MaxFaults
          /\ faults' = 0 => \A t \in Subs : ~Live(t)
      BY <1>0, <1>2 DEF CompleteCheckout, FaultIf
    <2>3. PICK p \in PaidPlans, st \in {"incomplete", "active"} :
             Emit(<<"subscription", "checkout">>, s, [plan |-> p, status |-> st, period |-> 0])
      BY <1>2 DEF CompleteCheckout
    <2>4. PICK o : o = [plan |-> p, status |-> st, period |-> 0]
      OBVIOUS
    <2>5. o \in Object /\ o.period <= Len(events) + 1
      BY <2>4 DEF Object, Statuses, ACTIVE_SUBSCRIPTION_STATUSES, Periods, BillingConstants, TypeOK
    <2>6. Emitted(s, o)
      BY <2>3, <2>4, <2>5, Emits
    <2> QED BY <2>1, <2>2, <2>5, <2>6
  <1>3. ASSUME NEW s \in Subs, ChangeSubscription(s)
        PROVE  /\ opened' = opened /\ faults' = faults /\ Live(s)
               /\ \E o \in Object : Emitted(s, o)
    <2>1. opened' = opened /\ faults' = faults /\ Live(s)
      BY <1>3 DEF ChangeSubscription
    <2> DEFINE was == stripe[s]
    <2>2. /\ was \in Object /\ was.period <= Len(events) /\ was.period \in Nat /\ Len(events) \in Nat
          /\ MaxEvents \in Nat
      BY <1>3 DEF ChangeSubscription, Live, TypeOK, StripeInv, Object, Periods, BillingConstants
    <2>7. {"incomplete", "active", "past_due", "canceled"} \subseteq Statuses
      BY DEF Statuses, ACTIVE_SUBSCRIPTION_STATUSES, EndedStatuses
    <2>8. \/ was.status \in {"incomplete", "past_due"} /\ Emit(<<"payment_failed">>, s, was)
          \/ \E st \in Statuses : Emit(<<"subscription">>, s, [was EXCEPT !.status = st])
          \/ Emit(<<"subscription", "payment_failed">>, s, [was EXCEPT !.status = "past_due"])
          \/ Emit(<<"subscription", "paid">>, s, [was EXCEPT !.status = "active"])
          \/ was.status = "active" /\ Emit(<<"subscription", "paid">>, s, [was EXCEPT !.period = @ + 1])
          \/ \E p \in PaidPlans : Emit(<<"subscription">>, s, [was EXCEPT !.plan = p])
      BY <1>3, <2>7, Zenon DEF ChangeSubscription
    <2>10. was = stripe[s]
      OBVIOUS
    <2> HIDE DEF was
    <2>3. ASSUME NEW o, NEW types, NEW a \in {"subscription", "payment_failed"},
                 NEW b \in {"checkout", "payment_failed", "paid"},
                 types = <<a>> \/ types = <<a, b>>,
                 a = "payment_failed" => types = <<a>> /\ was = o,
                 "payment_failed" \in {a, b} => o.status \in {"incomplete", "past_due"},
                 b = "paid" => o.status = "active",
                 Emit(types, s, o), o \in Object, o.period <= Len(events) + 1
          PROVE  \E x \in Object : Emitted(s, x)
      BY <2>1, <2>3, <2>10, Emits
    <2>4. ASSUME NEW st \in Statuses, NEW types, NEW b \in {"checkout", "payment_failed", "paid"},
                 types = <<"subscription">> \/ types = <<"subscription", b>>,
                 b = "payment_failed" => st = "past_due", b = "paid" => st = "active",
                 Emit(types, s, [was EXCEPT !.status = st])
          PROVE  \E x \in Object : Emitted(s, x)
      <3>1. PICK o : o = [was EXCEPT !.status = st]
        OBVIOUS
      <3>2. o \in Object /\ o.period <= Len(events) + 1 /\ o.status = st
        BY <2>2, <3>1 DEF Object
      <3>3. Emit(types, s, o)
        BY <2>4, <3>1
      <3>4. "subscription" \in {"subscription", "payment_failed"}
        OBVIOUS
      <3> QED BY <2>3, <2>4, <3>2, <3>3, <3>4
    <2>11. ASSUME was.status \in {"incomplete", "past_due"}, Emit(<<"payment_failed">>, s, was)
           PROVE  \E x \in Object : Emitted(s, x)
      <3>1. /\ "payment_failed" \in {"subscription", "payment_failed"}
            /\ "checkout" \in {"checkout", "payment_failed", "paid"}
            /\ was.period <= Len(events) + 1
        BY <2>2
      <3> QED BY <2>2, <2>3, <2>11, <3>1
    <2>5. ASSUME was.status = "active", Emit(<<"subscription", "paid">>, s, [was EXCEPT !.period = @ + 1])
          PROVE  \E x \in Object : Emitted(s, x)
      <3>1. PICK o : o = [was EXCEPT !.period = @ + 1]
        OBVIOUS
      <3>2. Len(events) + 1 <= MaxEvents
        BY <2>5 DEF Emit
      <3>3. o \in Object /\ o.period <= Len(events) + 1 /\ o.status = "active"
        BY <2>2, <2>5, <3>1, <3>2 DEF Object, Periods
      <3>4. Emit(<<"subscription", "paid">>, s, o)
        BY <2>5, <3>1
      <3>5. "subscription" \in {"subscription", "payment_failed"} /\ "paid" \in {"checkout", "payment_failed", "paid"}
        OBVIOUS
      <3> QED BY <2>3, <3>3, <3>4, <3>5
    <2>6. ASSUME NEW p \in PaidPlans, Emit(<<"subscription">>, s, [was EXCEPT !.plan = p])
          PROVE  \E x \in Object : Emitted(s, x)
      <3>1. PICK o : o = [was EXCEPT !.plan = p]
        OBVIOUS
      <3>2. o \in Object /\ o.period <= Len(events) + 1
        BY <2>2, <3>1 DEF Object
      <3>3. Emit(<<"subscription">>, s, o)
        BY <2>6, <3>1
      <3>4. "subscription" \in {"subscription", "payment_failed"} /\ "checkout" \in {"checkout", "payment_failed", "paid"}
        OBVIOUS
      <3> QED BY <2>3, <3>2, <3>3, <3>4
    <2>9. \E x \in Object : Emitted(s, x)
      BY <2>4, <2>5, <2>6, <2>7, <2>8, <2>11
    <2> QED BY <2>1, <2>9
  <1> QED BY <1>0, <1>1, <1>2, <1>3 DEF StripeStep
-----------------------------------------------------------------------------
(* Types, and what requests know of Stripe.                                  *)

LEMMA SyncedRow ==
    ASSUME NEW s \in Subs, NEW o \in Object
    PROVE  Synced(s, o) \in Row
  BY DEF Synced, Row, Object, Plans, Statuses

LEMMA WrittenRow ==
    ASSUME row \in Row, NEW read \in Row, NEW new \in Row
    PROVE  /\ Written(read, new) \in Row
           /\ read = row => Written(read, new) = new
           /\ Written(read, new).status = IF new.status # read.status THEN new.status ELSE row.status
  BY DEF Written, Row

LEMMA WantedRow ==
    ASSUME NEW w \in Handler, w.pc = "write", Informed(w)
    PROVE  NewRow(w) \in Row
  <1>1. w.sub \in Subs /\ w.object \in Object /\ w.read \in Row
    BY DEF Handler, Informed
  <1>2. \A st \in Statuses : [w.read EXCEPT !.status = st] \in Row
    BY <1>1 DEF Row
  <1>3. w.read.status \in Statuses /\ {"past_due", "active"} \subseteq Statuses
    BY <1>1 DEF Row, Statuses, ACTIVE_SUBSCRIPTION_STATUSES
  <1>4. Synced(w.sub, w.object) \in Row
    BY <1>1, SyncedRow
  <1> QED BY <1>2, <1>3, <1>4 DEF NewRow

LEMMA FreshTypes ==
    ASSUME BillingConstants
    PROVE  FreshRow \in Row /\ IdleHandler \in Handler /\ IdleCaller \in Caller
  BY DEF BillingConstants, FreshRow, Row, Plans, Statuses, ACTIVE_SUBSCRIPTION_STATUSES, Periods,
         IdleHandler, Handler, EventIds, IdleCaller, Caller

LEMMA IdleInformed == Informed(IdleHandler)
  BY DEF Informed, IdleHandler

\* The steps of one request, but for its commit.
RequestStep(h) ==
    \/ \E e \in EventIds : DeliverEvent(h, e)
    \/ \E s \in Subs : confirm_checkout_session(h, s)
    \/ InsertRecord(h) \/ ReadRow(h) \/ FetchSubscription(h)
    \/ StripeUnavailable(h) \/ HandlerDies(h)

FaultsMove == faults' \in {faults, faults + 1} /\ faults' \in 0..MaxFaults

LEMMA FaultOrNot ==
    ASSUME BillingConstants, TypeOK, NEW kind, NEW cond, FaultIf(kind, cond)
    PROVE  FaultsMove /\ (faults' = 0 => ~cond)
  BY DEF FaultIf, FaultsMove, TypeOK, BillingConstants

LEMMA FaultsStay ==
    ASSUME BillingConstants, TypeOK, UNCHANGED faults
    PROVE  FaultsMove
  BY DEF FaultsMove, TypeOK, BillingConstants

\* What a request becomes.
LEMMA RequestSteps ==
    ASSUME BillingConstants, BasicInv, NEW h \in Handlers, RequestStep(h)
    PROVE  /\ FaultsMove
           /\ UNCHANGED <<stripeVars, acked, applied, row, usageVars>>
           /\ record' \in [EventIds -> {"none", "processed", "failed"}]
           /\ \E v \in Handler : Informed(v) /\ handler' = [handler EXCEPT ![h] = v]
  <1> DEFINE w == handler[h]
             Goal == /\ FaultsMove
                     /\ UNCHANGED <<stripeVars, acked, applied, row, usageVars>>
                     /\ record' \in [EventIds -> {"none", "processed", "failed"}]
                     /\ \E v \in Handler : Informed(v) /\ handler' = [handler EXCEPT ![h] = v]
  <1>0. /\ w \in Handler /\ Informed(w) /\ row \in Row /\ events \in Seq(Event)
        /\ record \in [EventIds -> {"none", "processed", "failed"}] /\ TypeOK
        /\ FreshRow \in Row /\ IdleHandler \in Handler
    BY FreshTypes DEF BasicInv, TypeOK, HandlerInv
  <1>1. CASE \E e \in EventIds : DeliverEvent(h, e)
    <2>1. PICK e \in EventIds : DeliverEvent(h, e)
      BY <1>1
    <2>2. PICK v : v = [IdleHandler EXCEPT !.pc = "insert", !.event = e, !.sub = events[e].sub]
      OBVIOUS
    <2>3. e \in 1..Len(events) /\ events[e] \in Event /\ events[e].sub \in Subs /\ stripe[events[e].sub] # None
      <3>1. e \in 1..Len(events)
        BY <2>1 DEF DeliverEvent, Pending
      <3>2. events[e] \in Event
        BY <1>0, <3>1
      <3> QED BY <3>1, <3>2 DEF Event, BasicInv, StripeInv
    <2>4. v \in Handler /\ v.pc = "insert" /\ v.event = e /\ v.sub = events[e].sub
      BY <1>0, <2>2, <2>3 DEF Handler, IdleHandler
    <2>5. Informed(v)
      BY <2>3, <2>4 DEF Informed
    <2>6. FaultsMove
      BY <1>0, <2>1, FaultOrNot DEF DeliverEvent
    <2> QED BY <1>0, <2>1, <2>2, <2>4, <2>5, <2>6 DEF DeliverEvent
  <1>2. CASE \E s \in Subs : confirm_checkout_session(h, s)
    <2>1. PICK s \in Subs : confirm_checkout_session(h, s)
      BY <1>2
    <2>2. PICK v : v = [IdleHandler EXCEPT !.pc = "fetch", !.sub = s]
      OBVIOUS
    <2>3. v \in Handler /\ v.pc = "fetch" /\ v.event = 0 /\ v.sub = s /\ stripe[s] # None
      BY <1>0, <2>1, <2>2 DEF Handler, IdleHandler, confirm_checkout_session
    <2>4. Informed(v)
      BY <2>3 DEF Informed
    <2>5. FaultsMove
      BY <1>0, <2>1, FaultOrNot DEF confirm_checkout_session
    <2> QED BY <1>0, <2>1, <2>2, <2>3, <2>4, <2>5 DEF confirm_checkout_session
  <1>3. CASE InsertRecord(h)
    <2>1. FaultsMove
      BY <1>0, <1>3, FaultsStay DEF InsertRecord
    <2>2. CASE record[w.event] = "none"
      <3>1. PICK v : v = [w EXCEPT !.pc = "read"]
        OBVIOUS
      <3>2. /\ v \in Handler /\ v.pc = "read" /\ v.event = w.event /\ v.sub = w.sub /\ v.object = w.object
            /\ w.pc = "insert"
        BY <1>0, <1>3, <3>1 DEF Handler, InsertRecord
      <3>3. Informed(v)
        BY <1>0, <3>2 DEF Informed
      <3>4. handler' = [handler EXCEPT ![h] = v]
        BY <1>0, <1>3, <2>2, <3>1 DEF InsertRecord, BasicInv, TypeOK
      <3> QED BY <1>0, <1>3, <2>1, <3>2, <3>3, <3>4 DEF InsertRecord
    <2>3. CASE record[w.event] # "none"
      <3>1. handler' = [handler EXCEPT ![h] = IdleHandler]
        BY <1>0, <1>3, <2>3 DEF InsertRecord, BasicInv, TypeOK
      <3> QED BY <1>0, <1>3, <2>1, <3>1, IdleInformed DEF InsertRecord
    <2> QED BY <2>2, <2>3
  <1>4. CASE ReadRow(h)
    <2> DEFINE fetches == w.event # 0 /\ events[w.event].type = "checkout"
    <2>1. PICK v : v = [w EXCEPT !.read = row, !.pc = IF fetches THEN "fetch" ELSE "write",
                                 !.object = IF w.event # 0 /\ ~fetches THEN events[w.event].object ELSE @]
      OBVIOUS
    <2>2. handler' = [handler EXCEPT ![h] = v] /\ w.pc = "read"
      <3>1. w.pc = "read"
        BY <1>4 DEF ReadRow
      <3>2. handler' = [handler EXCEPT ![h] = v]
        BY <1>4, <2>1, Zenon DEF ReadRow
      <3> QED BY <3>1, <3>2
    <2>3. w.event # 0 => events[w.event].object \in Object
      <3>1. w.event # 0 => w.event \in 1..Len(events)
        BY <1>0 DEF Informed
      <3>2. w.event # 0 => events[w.event] \in Event
        BY <1>0, <3>1
      <3> QED BY <3>2 DEF Event
    <2>4. v \in Handler
      BY <1>0, <2>1, <2>3 DEF Handler
    <2>5. /\ v.pc = (IF fetches THEN "fetch" ELSE "write") /\ v.event = w.event /\ v.sub = w.sub
          /\ v.object = (IF w.event # 0 /\ ~fetches THEN events[w.event].object ELSE w.object)
      BY <1>0, <2>1 DEF Handler
    <2>6. Informed(v)
      BY <1>0, <2>2, <2>3, <2>5 DEF Informed
    <2>7. FaultsMove
      BY <1>0, <1>4, FaultsStay DEF ReadRow
    <2> QED BY <1>0, <1>4, <2>2, <2>4, <2>6, <2>7 DEF ReadRow
  <1>5. CASE FetchSubscription(h)
    <2>1. PICK v : v = [w EXCEPT !.object = stripe[w.sub], !.pc = IF w.event = 0 THEN "read" ELSE "write"]
      OBVIOUS
    <2>2. handler' = [handler EXCEPT ![h] = v] /\ w.pc = "fetch"
      BY <1>0, <1>5, <2>1 DEF FetchSubscription, BasicInv, TypeOK
    <2>3. stripe[w.sub] \in Object
      BY <1>0, <2>2 DEF Informed, BasicInv, TypeOK
    <2>4. v \in Handler
      BY <1>0, <2>1, <2>3 DEF Handler
    <2>5. /\ v.pc = (IF w.event = 0 THEN "read" ELSE "write") /\ v.event = w.event /\ v.sub = w.sub
          /\ v.object = stripe[w.sub]
      BY <1>0, <2>1 DEF Handler
    <2>6. Informed(v)
      BY <1>0, <2>2, <2>3, <2>5 DEF Informed
    <2>7. FaultsMove
      BY <1>0, <1>5, FaultsStay DEF FetchSubscription
    <2> QED BY <1>0, <1>5, <2>2, <2>4, <2>6, <2>7 DEF FetchSubscription
  <1>6. CASE StripeUnavailable(h)
    <2>1. record' \in [EventIds -> {"none", "processed", "failed"}]
      BY <1>0, <1>6 DEF StripeUnavailable
    <2>2. FaultsMove
      BY <1>0, <1>6, FaultOrNot DEF StripeUnavailable
    <2> QED BY <1>0, <1>6, <2>1, <2>2, IdleInformed DEF StripeUnavailable
  <1>7. CASE HandlerDies(h)
    <2>1. FaultsMove
      BY <1>0, <1>7, FaultOrNot DEF HandlerDies
    <2> QED BY <1>0, <1>7, <2>1, IdleInformed DEF HandlerDies
  <1> QED BY <1>1, <1>2, <1>3, <1>4, <1>5, <1>6, <1>7 DEF RequestStep

LEMMA TokensAreNat ==
    ASSUME BillingConstants, NEW t \in TokenCounts \cup {0}
    PROVE  t \in Nat
  BY DEF BillingConstants

LEMMA RowParts ==
    ASSUME NEW r \in Row
    PROVE  r.plan \in Plans /\ r.status \in Statuses /\ r.period \in Periods /\ r.sub \in Subs \cup {None}
  BY DEF Row

\* One more answer is counted.
CallsOK == calls \in [begun : 0..MaxCalls, answered : [Periods -> [Kinds -> Nat]]]
OneMoreAnswer(p, k) == calls' = [calls EXCEPT !.answered[p][k] = @ + 1]

LEMMA OneMore ==
    ASSUME CallsOK, NEW p \in Periods, NEW k \in Kinds, OneMoreAnswer(p, k)
    PROVE  /\ CallsOK'
           /\ \A q \in Periods, l \in Kinds :
                  calls'.answered[q][l] = IF q = p /\ l = k THEN calls.answered[q][l] + 1 ELSE calls.answered[q][l]
  <1>0. PICK c, d, N, P, K : c = calls /\ d = calls' /\ N = 0..MaxCalls /\ P = Periods /\ K = Kinds
    OBVIOUS
  <1>1. /\ c \in [begun : N, answered : [P -> [K -> Nat]]] /\ p \in P /\ k \in K
        /\ d = [c EXCEPT !.answered[p][k] = @ + 1]
    BY <1>0 DEF CallsOK, OneMoreAnswer
  <1>2. PICK a : a = [c.answered EXCEPT ![p][k] = @ + 1]
    OBVIOUS
  <1>3. /\ a \in [P -> [K -> Nat]]
        /\ \A q \in P, l \in K : a[q][l] = IF q = p /\ l = k THEN c.answered[q][l] + 1 ELSE c.answered[q][l]
    <2>1. PICK b : b = [c.answered[p] EXCEPT ![k] = @ + 1]
      OBVIOUS
    <2>2. a = [c.answered EXCEPT ![p] = b]
      BY <1>2, <2>1
    <2>3. b \in [K -> Nat] /\ \A l \in K : b[l] = IF l = k THEN c.answered[p][l] + 1 ELSE c.answered[p][l]
      BY <1>1, <2>1
    <2> QED BY <1>1, <2>2, <2>3
  <1>4. d = [c EXCEPT !.answered = a]
    BY <1>1, <1>2
  <1>5. d \in [begun : N, answered : [P -> [K -> Nat]]]
    BY <1>1, <1>3, <1>4
  <1>6. d.answered = a
    BY <1>1, <1>4
  <1>7. CallsOK'
    BY <1>0, <1>5 DEF CallsOK
  <1> QED BY <1>0, <1>3, <1>6, <1>7

CallerStep(c) ==
    \/ \E kind \in Kinds : BeginCall(c, kind)
    \/ ProviderAnswers(c) \/ ProviderFails(c) \/ RecordCall(c) \/ CallerDies(c)

\* What a metered call becomes; the row is written by one that found the plan
\* lapsed.
LEMMA CallerSteps ==
    ASSUME BillingConstants, BasicInv, NEW c \in Callers, CallerStep(c)
    PROVE  /\ FaultsMove
           /\ UNCHANGED <<stripeVars, webhookVars>>
           /\ row' \in Row /\ row' \in {row, [row EXCEPT !.plan = "audit"]}
           /\ usage' \in [Periods -> [Metrics -> Nat]]
           /\ calls' \in [begun : 0..MaxCalls, answered : [Periods -> [Kinds -> Nat]]]
           /\ \E v \in Caller : Underway(v) /\ caller' = [caller EXCEPT ![c] = v]
  <1> DEFINE w == caller[c]
  <1>0. /\ w \in Caller /\ Underway(w) /\ w.read \in Row /\ w.read.period \in Periods /\ w.tokens \in Nat
        /\ row \in Row /\ TypeOK
        /\ usage \in [Periods -> [Metrics -> Nat]]
        /\ calls \in [begun : 0..MaxCalls, answered : [Periods -> [Kinds -> Nat]]]
        /\ IdleCaller \in Caller /\ Kinds \subseteq {"ai", "serp"} /\ TokenCounts \subseteq Nat /\ MaxCalls \in Nat
    <2>1. w \in Caller /\ Underway(w)
      BY DEF BasicInv, TypeOK, CallerInv
    <2>2. /\ IdleCaller \in Caller /\ Kinds \subseteq {"ai", "serp"} /\ TokenCounts \subseteq Nat
          /\ MaxCalls \in Nat
      BY FreshTypes DEF BillingConstants
    <2>3. w.read \in Row /\ w.read.period \in Periods /\ w.tokens \in Nat
      <3>1. w.read \in Row /\ w.tokens \in TokenCounts \cup {0}
        BY <2>1 DEF Caller
      <3>2. w.read.period \in Periods
        BY <3>1, RowParts
      <3>3. w.tokens \in Nat
        BY <3>1, TokensAreNat
      <3> QED BY <3>1, <3>2, <3>3
    <2> QED BY <2>1, <2>2, <2>3 DEF BasicInv, TypeOK
  <1>1. Underway(IdleCaller)
    BY DEF Underway, IdleCaller
  <1>2. [row EXCEPT !.plan = "audit"] \in Row
    BY <1>0 DEF Row, Plans
  <1>3. CASE \E kind \in Kinds : BeginCall(c, kind)
    <2>1. PICK kind \in Kinds : BeginCall(c, kind)
      BY <1>3
    <2>2. PICK v : v = [IdleCaller EXCEPT !.pc = "calling", !.kind = kind, !.read = row]
      OBVIOUS
    <2>3. v \in Caller /\ v.pc = "calling" /\ v.kind = kind
      BY <1>0, <2>1, <2>2 DEF Caller, IdleCaller
    <2>4. Underway(v)
      BY <2>1, <2>3 DEF Underway
    <2>5. FaultsMove
      BY <1>0, <2>1, FaultOrNot DEF BeginCall
    <2>6. calls' \in [begun : 0..MaxCalls, answered : [Periods -> [Kinds -> Nat]]]
      BY <1>0, <2>1 DEF BeginCall
    <2> QED BY <1>0, <2>1, <2>2, <2>3, <2>4, <2>5, <2>6 DEF BeginCall
  <1>4. CASE ProviderAnswers(c)
    <2>1. PICK t \in TokenCounts : caller' = [caller EXCEPT ![c].pc = "answered", ![c].tokens = t]
      BY <1>4 DEF ProviderAnswers
    <2>2. PICK v : v = [w EXCEPT !.pc = "answered", !.tokens = t]
      OBVIOUS
    <2>3. v \in Caller /\ v.tokens = t /\ v.kind = w.kind /\ w.pc = "calling"
      BY <1>0, <1>4, <2>1, <2>2 DEF Caller, ProviderAnswers
    <2>4. Underway(v)
      BY <1>0, <2>1, <2>3 DEF Underway
    <2>5. caller' = [caller EXCEPT ![c] = v]
      BY <1>0, <2>1, <2>2 DEF TypeOK
    <2>6. calls' \in [begun : 0..MaxCalls, answered : [Periods -> [Kinds -> Nat]]]
      <3>1. calls' = [calls EXCEPT !.answered[w.read.period][w.kind] = @ + 1]
        BY <1>4 DEF ProviderAnswers
      <3>2. w.kind \in Kinds
        BY <1>0, <2>3 DEF Underway
      <3>3. OneMoreAnswer(w.read.period, w.kind)
        BY <3>1 DEF OneMoreAnswer
      <3>4. CallsOK
        BY <1>0 DEF CallsOK
      <3>5. CallsOK'
        BY <1>0, <3>2, <3>3, <3>4, OneMore
      <3> QED BY <3>5 DEF CallsOK
    <2>7. FaultsMove
      BY <1>0, <1>4, FaultsStay DEF ProviderAnswers
    <2> QED BY <1>0, <1>4, <2>3, <2>4, <2>5, <2>6, <2>7 DEF ProviderAnswers
  <1>5. CASE ProviderFails(c)
    <2>1. FaultsMove
      BY <1>0, <1>5, FaultsStay DEF ProviderFails
    <2> QED BY <1>0, <1>1, <1>5, <2>1 DEF ProviderFails
  <1>6. CASE RecordCall(c)
    <2>1. FaultsMove
      BY <1>0, <1>6, FaultsStay DEF RecordCall
    <2>2. record_usage(usage[w.read.period], w) \in [Metrics -> Nat]
      BY <1>0 DEF record_usage, Charge
    <2>3. usage' \in [Periods -> [Metrics -> Nat]]
      BY <1>0, <1>6, <2>2 DEF RecordCall
    <2> QED BY <1>0, <1>1, <1>2, <1>6, <2>1, <2>3 DEF RecordCall
  <1>7. CASE CallerDies(c)
    <2>1. FaultsMove
      BY <1>0, <1>7, FaultOrNot DEF CallerDies
    <2> QED BY <1>0, <1>1, <1>7, <2>1 DEF CallerDies
  <1> QED BY <1>3, <1>4, <1>5, <1>6, <1>7 DEF CallerStep

\* A request that keeps its hands off Stripe leaves the others informed.
LEMMA OthersInformed ==
    ASSUME HandlerInv, handler \in [Handlers -> Handler], UNCHANGED <<stripe, events>>,
           NEW h \in Handlers, NEW v \in Handler, Informed(v), handler' = [handler EXCEPT ![h] = v]
    PROVE  handler' \in [Handlers -> Handler] /\ HandlerInv'
  <1>1. handler' \in [Handlers -> Handler]
    OBVIOUS
  <1>2. ASSUME NEW g \in Handlers PROVE Informed(handler[g])'
    <2>1. CASE g = h
      <3>1. handler'[g] = v
        BY <2>1
      <3> QED BY <3>1 DEF Informed
    <2>2. CASE g # h
      <3>1. handler'[g] = handler[g] /\ Informed(handler[g])
        BY <2>2 DEF HandlerInv
      <3> QED BY <3>1 DEF Informed
    <2> QED BY <2>1, <2>2
  <1> QED BY <1>1, <1>2 DEF HandlerInv

LEMMA EmittedBasics ==
    ASSUME BillingConstants, BasicInv, NEW s \in Subs, NEW o \in Object, Emitted(s, o)
    PROVE  /\ stripe' \in [Subs -> Object \cup {None}] /\ StripeInv' /\ HandlerInv'
           /\ \A t \in Subs : stripe[t] # None => stripe'[t] # None
  <1>0. /\ stripe \in [Subs -> Object \cup {None}] /\ Len(events) \in Nat /\ events \in Seq(Event)
        /\ Len(events') \in Nat /\ o # None /\ o.period \in Nat
    BY NoneIsNoObject DEF BasicInv, TypeOK, Emitted, Object, Periods, BillingConstants
  <1>1. /\ stripe'[s] = o /\ \A t \in Subs \ {s} : stripe'[t] = stripe[t]
        /\ stripe' \in [Subs -> Object \cup {None}]
    BY <1>0 DEF Emitted
  <1>2. \A t \in Subs : stripe[t] # None => stripe'[t] # None
    BY <1>0, <1>1
  <1>3. ASSUME NEW t \in Subs, stripe'[t] # None
        PROVE  /\ stripe'[t].period <= Len(events')
               /\ \E e \in 1..Len(events') : events'[e].sub = t /\ events'[e].object = stripe'[t]
    <2>1. CASE t = s
      <3>1. Len(events) + 1 \in (Len(events) + 1)..Len(events') /\ Len(events) + 1 \in 1..Len(events')
        BY <1>0 DEF Emitted
      <3>2. events'[Len(events) + 1].sub = s /\ events'[Len(events) + 1].object = o
        BY <3>1 DEF Emitted
      <3> QED BY <1>0, <1>1, <2>1, <3>1, <3>2 DEF Emitted
    <2>2. CASE t # s
      <3>1. stripe'[t] = stripe[t]
        BY <1>1, <2>2
      <3>2. stripe[t].period \in Nat /\ stripe[t].period <= Len(events)
        BY <1>0, <1>3, <3>1 DEF BasicInv, StripeInv, Object, Periods, BillingConstants
      <3>3. PICK e \in 1..Len(events) : events[e].sub = t /\ events[e].object = stripe[t]
        BY <1>3, <3>1 DEF BasicInv, StripeInv
      <3>4. e \in 1..Len(events') /\ events'[e] = events[e]
        BY <1>0, <3>3 DEF Emitted
      <3> QED BY <1>0, <3>1, <3>2, <3>3, <3>4 DEF Emitted
    <2> QED BY <2>1, <2>2
  <1>4. ASSUME NEW e \in 1..Len(events')
        PROVE  /\ stripe'[events'[e].sub] # None
               /\ events'[e].type = "payment_failed" => events'[e].object.status \in {"incomplete", "past_due"}
               /\ events'[e].type = "paid" => events'[e].object.status = "active"
    <2>1. CASE e \in 1..Len(events)
      <3>0. events[e] \in Event
        BY <1>0, <2>1
      <3>1. events'[e] = events[e] /\ events[e].sub \in Subs
        BY <2>1, <3>0 DEF Emitted, Event
      <3> QED BY <1>2, <2>1, <3>1 DEF BasicInv, StripeInv
    <2>2. CASE e \in (Len(events) + 1)..Len(events')
      BY <1>0, <1>1, <2>2 DEF Emitted
    <2> QED BY <1>0, <2>1, <2>2
  <1>5. acked' \subseteq 1..Len(events')
    BY <1>0 DEF Emitted, webhookVars, BasicInv, StripeInv
  <1>6. StripeInv'
    BY <1>3, <1>4, <1>5 DEF StripeInv
  <1>7. ASSUME NEW h \in Handlers PROVE Informed(handler[h])'
    <2>1. handler'[h] = handler[h] /\ Informed(handler[h]) /\ handler[h] \in Handler
      BY DEF Emitted, webhookVars, BasicInv, HandlerInv, TypeOK
    <2>2. \A e \in 1..Len(events) : events'[e] = events[e] /\ e \in 1..Len(events')
      BY <1>0 DEF Emitted
    <2> QED BY <1>2, <2>1, <2>2 DEF Informed
  <1> QED BY <1>1, <1>2, <1>6, <1>7 DEF HandlerInv

LEMMA BasicInvNext ==
    ASSUME BillingConstants, BasicInv, [Next]_vars
    PROVE  BasicInv'
  <1>0. TypeOK /\ StripeInv /\ HandlerInv /\ CallerInv
    BY DEF BasicInv
  <1>1. CASE UNCHANGED vars
    BY <1>0, <1>1 DEF BasicInv, TypeOK, StripeInv, HandlerInv, Informed, CallerInv, Underway, vars
  <1>2. ASSUME UNCHANGED <<stripe, events, handler, caller>>, acked' \subseteq 1..Len(events), TypeOK' PROVE BasicInv'
    BY <1>0, <1>2 DEF BasicInv, StripeInv, HandlerInv, Informed, CallerInv, Underway
  <1>3. CASE StripeStep
    <2>1. opened' \in SUBSET Subs /\ faults' \in 0..MaxFaults
      BY <1>0, <1>3, StripeSteps
    <2>2. CASE UNCHANGED <<stripe, events, row, webhookVars, usageVars>>
      <3>1. TypeOK'
        BY <1>0, <2>1, <2>2 DEF TypeOK, webhookVars, usageVars
      <3> QED BY <1>0, <1>2, <2>2, <3>1 DEF StripeInv, webhookVars, usageVars
    <2>3. ASSUME NEW s \in Subs, NEW o \in Object, Emitted(s, o) PROVE BasicInv'
      <3>1. stripe' \in [Subs -> Object \cup {None}] /\ StripeInv' /\ HandlerInv'
        BY <2>3, EmittedBasics
      <3>2. TypeOK'
        BY <1>0, <2>1, <2>3, <3>1 DEF TypeOK, Emitted, webhookVars, usageVars
      <3>3. CallerInv'
        BY <1>0, <2>3 DEF CallerInv, Underway, Emitted, usageVars
      <3> QED BY <3>1, <3>2, <3>3 DEF BasicInv
    <2> QED BY <1>0, <1>3, <2>2, <2>3, StripeSteps
  <1>4. ASSUME NEW e \in EventIds, DeliverRecorded(e) PROVE BasicInv'
    <2>1. acked' \subseteq 1..Len(events)
      BY <1>0, <1>4 DEF DeliverRecorded, Pending, StripeInv
    <2>2. TypeOK'
      BY <1>0, <1>4 DEF DeliverRecorded, stripeVars, usageVars, TypeOK
    <2> QED BY <1>2, <1>4, <2>1, <2>2 DEF DeliverRecorded, stripeVars, usageVars
  <1>5. ASSUME NEW h \in Handlers, RequestStep(h) PROVE BasicInv'
    <2>1. /\ FaultsMove /\ UNCHANGED <<stripeVars, acked, applied, row, usageVars>>
          /\ record' \in [EventIds -> {"none", "processed", "failed"}]
      BY <1>5, RequestSteps
    <2>2. PICK v \in Handler : Informed(v) /\ handler' = [handler EXCEPT ![h] = v]
      BY <1>5, RequestSteps
    <2>3. handler' \in [Handlers -> Handler] /\ HandlerInv'
      BY <1>0, <2>1, <2>2, OthersInformed DEF TypeOK, stripeVars
    <2>4. TypeOK'
      BY <1>0, <2>1, <2>3 DEF TypeOK, stripeVars, usageVars, FaultsMove
    <2>5. StripeInv' /\ CallerInv'
      BY <1>0, <2>1 DEF StripeInv, CallerInv, Underway, stripeVars, usageVars
    <2> QED BY <2>3, <2>4, <2>5 DEF BasicInv
  <1>6. ASSUME NEW h \in Handlers, CommitRow(h) PROVE BasicInv'
    <2> DEFINE w == handler[h]
    <2>1. /\ UNCHANGED <<stripeVars, usageVars, faults>>
          /\ handler' = [handler EXCEPT ![h] = IdleHandler]
          /\ w.pc = "write" /\ w \in Handler /\ Informed(w) /\ w.read \in Row
          /\ row' = Written(w.read, NewRow(w))
      BY <1>0, <1>6 DEF CommitRow, TypeOK, HandlerInv, Handler
    <2>2. row' \in Row
      BY <1>0, <2>1, WrittenRow, WantedRow DEF TypeOK
    <2>3. handler' \in [Handlers -> Handler] /\ HandlerInv'
      BY <1>0, <2>1, OthersInformed, IdleInformed, FreshTypes DEF TypeOK, stripeVars
    <2>4. w.event # 0 => w.event \in 1..Len(events) /\ w.event \in EventIds
      BY <1>0, <2>1 DEF Informed, TypeOK, EventIds, BillingConstants
    <2>5. /\ record' \in [EventIds -> {"none", "processed", "failed"}]
          /\ applied' \in [EventIds -> Nat]
          /\ acked' \in SUBSET EventIds /\ acked' \subseteq 1..Len(events)
      <3>1. record' = record \/ record' = [record EXCEPT ![w.event] = "processed"]
        BY <1>6 DEF CommitRow
      <3>2. applied' = applied \/ applied' = [applied EXCEPT ![w.event] = @ + 1]
        BY <1>6 DEF CommitRow
      <3>3. acked' = acked \cup ({w.event} \ {0})
        BY <1>6 DEF CommitRow
      <3>4. record' \in [EventIds -> {"none", "processed", "failed"}]
        BY <1>0, <3>1 DEF TypeOK
      <3>5. applied' \in [EventIds -> Nat]
        BY <1>0, <3>2 DEF TypeOK
      <3>6. acked \in SUBSET EventIds /\ acked \subseteq 1..Len(events)
        BY <1>0 DEF TypeOK, StripeInv
      <3>7. acked' \in SUBSET EventIds /\ acked' \subseteq 1..Len(events)
        BY <2>4, <3>3, <3>6
      <3> QED BY <3>4, <3>5, <3>7
    <2>6. TypeOK'
      BY <1>0, <2>1, <2>2, <2>3, <2>5 DEF TypeOK, stripeVars, usageVars
    <2>7. StripeInv' /\ CallerInv'
      BY <1>0, <2>1, <2>5 DEF StripeInv, CallerInv, Underway, stripeVars, usageVars
    <2> QED BY <2>3, <2>6, <2>7 DEF BasicInv
  <1>7. ASSUME NEW c \in Callers, CallerStep(c) PROVE BasicInv'
    <2>1. /\ FaultsMove /\ UNCHANGED <<stripeVars, webhookVars>>
          /\ row' \in Row /\ usage' \in [Periods -> [Metrics -> Nat]]
          /\ calls' \in [begun : 0..MaxCalls, answered : [Periods -> [Kinds -> Nat]]]
      BY <1>7, CallerSteps
    <2>2. PICK v \in Caller : Underway(v) /\ caller' = [caller EXCEPT ![c] = v]
      BY <1>7, CallerSteps
    <2>3. caller' \in [Callers -> Caller] /\ CallerInv'
      BY <1>0, <2>2 DEF TypeOK, CallerInv, Underway
    <2>4. TypeOK'
      BY <1>0, <2>1, <2>3 DEF TypeOK, stripeVars, webhookVars, FaultsMove
    <2>5. StripeInv' /\ HandlerInv'
      BY <1>0, <2>1 DEF StripeInv, HandlerInv, Informed, stripeVars, webhookVars
    <2> QED BY <2>3, <2>4, <2>5 DEF BasicInv
  <1> QED BY <1>1, <1>3, <1>4, <1>5, <1>6, <1>7 DEF Next, StripeStep, RequestStep, CallerStep

-----------------------------------------------------------------------------
(* Every event is applied once.                                              *)

\* A request moves on: it holds what it held, or an event that is not recorded
\* and that nobody holds.
LEMMA OnceMoves ==
    ASSUME TypeOK, OnceInv, NEW h \in Handlers, NEW v,
           UNCHANGED <<acked, record, applied>>, handler' = [handler EXCEPT ![h] = v],
           HoldsEvent(v) =>
               /\ record[v.event] = "none"
               /\ \A g \in Handlers \ {h} : ~(Holds(g) /\ handler[g].event = v.event)
    PROVE  OnceInv'
  <1>1. \A g \in Handlers : handler'[g] = IF g = h THEN v ELSE handler[g]
    BY DEF TypeOK
  <1>2. \A g \in Handlers : Holds(g)' <=> IF g = h THEN HoldsEvent(v) ELSE Holds(g)
    BY <1>1 DEF Holds, HoldsEvent
  <1>3. \A g \in Handlers : Holds(g)' => record'[handler'[g].event] = "none"
    BY <1>1, <1>2 DEF OnceInv
  <1>4. \A f, g \in Handlers : Holds(f)' /\ Holds(g)' /\ handler'[f].event = handler'[g].event => f = g
    BY <1>1, <1>2 DEF OnceInv
  <1> QED BY <1>3, <1>4 DEF OnceInv

\* A request ends with a record of its event.
LEMMA OnceEnds ==
    ASSUME TypeOK, OnceInv, NEW h \in Handlers, NEW b \in EventIds, NEW st \in {"processed", "failed"},
           Holds(h), handler[h].event = b, handler' = [handler EXCEPT ![h] = IdleHandler],
           record' = [record EXCEPT ![b] = st],
           applied' = IF st = "processed" THEN [applied EXCEPT ![b] = @ + 1] ELSE applied,
           acked' \subseteq acked \cup {b}
    PROVE  OnceInv'
  <1>1. \A g \in Handlers : handler'[g] = IF g = h THEN IdleHandler ELSE handler[g]
    BY DEF TypeOK
  <1>2. \A g \in Handlers : Holds(g)' <=> g # h /\ Holds(g)
    BY <1>1 DEF Holds, HoldsEvent, IdleHandler
  <1>3. \A e \in EventIds : record'[e] = IF e = b THEN st ELSE record[e]
    BY DEF TypeOK
  <1>4. record[b] = "none" /\ applied[b] = 0 /\ \A e \in EventIds : applied[e] \in Nat
    BY DEF OnceInv, TypeOK
  <1>5. \A e \in EventIds : applied'[e] = IF record'[e] = "processed" THEN 1 ELSE 0
    BY <1>3, <1>4 DEF OnceInv, TypeOK
  <1>6. \A e \in EventIds : e \in acked' => record'[e] # "none"
    BY <1>3 DEF OnceInv
  <1>7. ASSUME NEW g \in Handlers, Holds(g)' PROVE record'[handler'[g].event] = "none"
    <2>1. g # h /\ Holds(g) /\ handler'[g] = handler[g]
      BY <1>1, <1>2, <1>7
    <2>2. handler[g].event # b /\ record[handler[g].event] = "none"
      BY <2>1 DEF OnceInv
    <2>3. handler[g].event \in EventIds
      <3>1. handler[g] \in Handler
        BY DEF TypeOK
      <3> QED BY <2>1, <3>1 DEF Handler, Holds, HoldsEvent
    <2> QED BY <1>3, <2>1, <2>2, <2>3
  <1>8. \A f, g \in Handlers : Holds(f)' /\ Holds(g)' /\ handler'[f].event = handler'[g].event => f = g
    BY <1>1, <1>2 DEF OnceInv
  <1> QED BY <1>5, <1>6, <1>7, <1>8 DEF OnceInv

LEMMA OnceRequests ==
    ASSUME BillingConstants, BasicInv, OnceInv, NEW h \in Handlers, RequestStep(h)
    PROVE  OnceInv'
  <1> DEFINE w == handler[h]
  <1>0. TypeOK /\ w \in Handler
    BY DEF BasicInv, TypeOK
  <1>1. UNCHANGED <<acked, applied>>
    BY RequestSteps DEF stripeVars
  <1>2. CASE \E e \in EventIds : DeliverEvent(h, e)
    <2>1. PICK e \in EventIds : DeliverEvent(h, e)
      BY <1>2
    <2>2. PICK v : v = [IdleHandler EXCEPT !.pc = "insert", !.event = e, !.sub = events[e].sub]
      OBVIOUS
    <2>3. ~HoldsEvent(v)
      BY <2>2 DEF HoldsEvent, IdleHandler
    <2> QED BY <1>0, <1>1, <2>1, <2>2, <2>3, OnceMoves DEF DeliverEvent
  <1>3. CASE \E s \in Subs : confirm_checkout_session(h, s)
    <2>1. PICK s \in Subs : confirm_checkout_session(h, s)
      BY <1>3
    <2>2. PICK v : v = [IdleHandler EXCEPT !.pc = "fetch", !.sub = s]
      OBVIOUS
    <2>3. ~HoldsEvent(v)
      BY <2>2 DEF HoldsEvent, IdleHandler
    <2> QED BY <1>0, <1>1, <2>1, <2>2, <2>3, OnceMoves DEF confirm_checkout_session
  <1>4. ~HoldsEvent(IdleHandler)
    BY DEF HoldsEvent, IdleHandler
  <1>5. CASE InsertRecord(h)
    <2>1. PICK v : v = IF record[w.event] = "none" THEN [w EXCEPT !.pc = "read"] ELSE IdleHandler
      OBVIOUS
    <2>2. handler' = [handler EXCEPT ![h] = v] /\ UNCHANGED record
      BY <1>0, <1>5, <2>1 DEF InsertRecord, TypeOK
    <2>3. HoldsEvent(v) => v.event = w.event /\ record[w.event] = "none"
      BY <1>0, <1>4, <2>1 DEF Handler
    <2>4. \A g \in Handlers : ~(Holds(g) /\ handler[g].event = w.event)
      BY <1>5 DEF InsertRecord, Holds, HoldsEvent
    <2> QED BY <1>0, <1>1, <2>2, <2>3, <2>4, OnceMoves
  <1>6. ASSUME NEW v, v.event = w.event, w.pc \in {"read", "fetch"},
               handler' = [handler EXCEPT ![h] = v], UNCHANGED record
        PROVE  OnceInv'
    <2>1. HoldsEvent(v) => Holds(h) /\ handler[h].event = v.event
      BY <1>6 DEF Holds, HoldsEvent
    <2>2. HoldsEvent(v) => /\ record[v.event] = "none"
                           /\ \A g \in Handlers \ {h} : ~(Holds(g) /\ handler[g].event = v.event)
      BY <2>1 DEF OnceInv
    <2> QED BY <1>0, <1>1, <1>6, <2>2, OnceMoves
  <1>7. CASE ReadRow(h)
    <2> DEFINE fetches == w.event # 0 /\ events[w.event].type = "checkout"
    <2>1. PICK v : v = [w EXCEPT !.read = row, !.pc = IF fetches THEN "fetch" ELSE "write",
                                 !.object = IF w.event # 0 /\ ~fetches THEN events[w.event].object ELSE @]
      OBVIOUS
    <2>2. handler' = [handler EXCEPT ![h] = v] /\ w.pc = "read" /\ UNCHANGED record
      <3>1. w.pc = "read" /\ UNCHANGED record
        BY <1>7 DEF ReadRow
      <3>2. handler' = [handler EXCEPT ![h] = v]
        BY <1>7, <2>1 DEF ReadRow
      <3> QED BY <3>1, <3>2
    <2>3. v.event = w.event
      BY <1>0, <2>1 DEF Handler
    <2> QED BY <1>6, <2>2, <2>3
  <1>8. CASE FetchSubscription(h)
    <2>1. PICK v : v = [w EXCEPT !.object = stripe[w.sub], !.pc = IF w.event = 0 THEN "read" ELSE "write"]
      OBVIOUS
    <2>2. handler' = [handler EXCEPT ![h] = v] /\ w.pc = "fetch" /\ UNCHANGED record
      BY <1>0, <1>8, <2>1 DEF FetchSubscription, TypeOK
    <2>3. v.event = w.event
      BY <1>0, <2>1 DEF Handler
    <2> QED BY <1>6, <2>2, <2>3
  <1>9. CASE StripeUnavailable(h)
    <2>1. handler' = [handler EXCEPT ![h] = IdleHandler] /\ w.pc = "fetch"
      BY <1>9 DEF StripeUnavailable
    <2>2. CASE w.event = 0
      BY <1>0, <1>1, <1>4, <1>9, <2>1, <2>2, OnceMoves DEF StripeUnavailable
    <2>3. CASE w.event # 0
      <3>1. PICK b \in EventIds : b = w.event
        BY <1>0, <2>3 DEF Handler
      <3>2. record' = [record EXCEPT ![b] = "failed"]
        BY <1>9, <2>3, <3>1 DEF StripeUnavailable
      <3>3. Holds(h)
        BY <2>1, <2>3 DEF Holds, HoldsEvent
      <3>4. PICK st \in {"processed", "failed"} : st = "failed"
        OBVIOUS
      <3>5. /\ record' = [record EXCEPT ![b] = st] /\ acked' \subseteq acked \cup {b}
            /\ applied' = IF st = "processed" THEN [applied EXCEPT ![b] = @ + 1] ELSE applied
        BY <1>1, <3>2, <3>4
      <3> QED BY <1>0, <2>1, <3>1, <3>3, <3>5, OnceEnds
    <2> QED BY <2>2, <2>3
  <1>10. CASE HandlerDies(h)
    BY <1>0, <1>1, <1>4, <1>10, OnceMoves DEF HandlerDies
  <1> QED BY <1>2, <1>3, <1>5, <1>7, <1>8, <1>9, <1>10 DEF RequestStep

LEMMA OnceCommit ==
    ASSUME BillingConstants, BasicInv, OnceInv, NEW h \in Handlers, CommitRow(h)
    PROVE  OnceInv'
  <1> DEFINE w == handler[h]
  <1>0. TypeOK /\ w \in Handler /\ w.pc = "write" /\ handler' = [handler EXCEPT ![h] = IdleHandler]
    BY DEF BasicInv, TypeOK, CommitRow
  <1>1. CASE w.event = 0
    <2>1. record' = record /\ applied' = applied /\ acked' = acked
      BY <1>1 DEF CommitRow
    <2>2. ~HoldsEvent(IdleHandler)
      BY DEF HoldsEvent, IdleHandler
    <2> QED BY <1>0, <2>1, <2>2, OnceMoves
  <1>2. CASE w.event # 0
    <2>1. PICK b \in EventIds : b = w.event
      BY <1>0, <1>2 DEF Handler
    <2>2. PICK st \in {"processed", "failed"} : st = "processed"
      OBVIOUS
    <2>3. /\ record' = [record EXCEPT ![b] = st] /\ acked' \subseteq acked \cup {b}
          /\ applied' = IF st = "processed" THEN [applied EXCEPT ![b] = @ + 1] ELSE applied
      BY <1>2, <2>1, <2>2 DEF CommitRow
    <2>4. Holds(h)
      BY <1>0, <1>2 DEF Holds, HoldsEvent
    <2> QED BY <1>0, <2>1, <2>3, <2>4, OnceEnds
  <1> QED BY <1>1, <1>2

LEMMA OnceInvNext ==
    ASSUME BillingConstants, BasicInv, OnceInv, [Next]_vars
    PROVE  OnceInv'
  <1>1. ASSUME UNCHANGED <<acked, record, applied, handler>> PROVE OnceInv'
    BY <1>1 DEF OnceInv, Holds, HoldsEvent
  <1>2. CASE UNCHANGED vars
    BY <1>1, <1>2 DEF vars
  <1>3. CASE StripeStep
    BY <1>1, <1>3, StripeSteps DEF BasicInv, Emitted, webhookVars
  <1>4. ASSUME NEW e \in EventIds, DeliverRecorded(e) PROVE OnceInv'
    BY <1>4 DEF DeliverRecorded, OnceInv, Holds, HoldsEvent
  <1>5. ASSUME NEW c \in Callers, CallerStep(c) PROVE OnceInv'
    BY <1>1, <1>5, CallerSteps DEF webhookVars
  <1> QED BY <1>2, <1>3, <1>4, <1>5, OnceRequests, OnceCommit DEF Next, StripeStep, RequestStep, CallerStep

-----------------------------------------------------------------------------
(* Nothing before payment.                                                   *)

\* A request moves on without writing.
LEMMA UnpaidMoves ==
    ASSUME TypeOK, UnpaidInv, NEW h \in Handlers, NEW v,
           UNCHANGED <<events, row>>, handler' = [handler EXCEPT ![h] = v],
           NoneActive => Unpaid(v)
    PROVE  UnpaidInv'
  <1>1. \A g \in Handlers : handler'[g] = IF g = h THEN v ELSE handler[g]
    BY DEF TypeOK
  <1>2. NoneActive' <=> NoneActive
    BY DEF NoneActive
  <1>3. ASSUME NoneActive, NEW g \in Handlers PROVE Unpaid(handler[g])'
    <2>1. CASE g = h
      BY <1>1, <1>3, <2>1 DEF Unpaid
    <2>2. CASE g # h
      BY <1>1, <1>3, <2>2 DEF Unpaid, UnpaidInv
    <2> QED BY <2>1, <2>2
  <1> QED BY <1>2, <1>3 DEF UnpaidInv

LEMMA IdleUnpaid == Unpaid(IdleHandler)
  BY DEF Unpaid, IdleHandler, FreshRow, Inactive, ACTIVE_SUBSCRIPTION_STATUSES

LEMMA UnpaidRequests ==
    ASSUME BillingConstants, BasicInv, UnpaidInv, NEW h \in Handlers, RequestStep(h)
    PROVE  UnpaidInv'
  <1> DEFINE w == handler[h]
  <1>0. TypeOK /\ w \in Handler /\ UNCHANGED <<events, row>> /\ Informed(w)
    BY RequestSteps DEF BasicInv, TypeOK, stripeVars, HandlerInv
  <1>1. ASSUME handler' = [handler EXCEPT ![h] = IdleHandler] PROVE UnpaidInv'
    BY <1>0, <1>1, IdleUnpaid, UnpaidMoves
  <1>2. CASE \E e \in EventIds : DeliverEvent(h, e)
    <2>1. PICK e \in EventIds : DeliverEvent(h, e)
      BY <1>2
    <2>2. PICK v : v = [IdleHandler EXCEPT !.pc = "insert", !.event = e, !.sub = events[e].sub]
      OBVIOUS
    <2>3. v.object = IdleHandler.object /\ v.read = IdleHandler.read
      BY <2>2 DEF IdleHandler
    <2>4. Unpaid(v)
      BY <2>3, IdleUnpaid DEF Unpaid
    <2> QED BY <1>0, <2>1, <2>2, <2>4, UnpaidMoves DEF DeliverEvent
  <1>3. CASE \E s \in Subs : confirm_checkout_session(h, s)
    <2>1. PICK s \in Subs : confirm_checkout_session(h, s)
      BY <1>3
    <2>2. PICK v : v = [IdleHandler EXCEPT !.pc = "fetch", !.sub = s]
      OBVIOUS
    <2>3. v.object = IdleHandler.object /\ v.read = IdleHandler.read
      BY <2>2 DEF IdleHandler
    <2>4. Unpaid(v)
      BY <2>3, IdleUnpaid DEF Unpaid
    <2> QED BY <1>0, <2>1, <2>2, <2>4, UnpaidMoves DEF confirm_checkout_session
  <1>5. CASE InsertRecord(h)
    <2>1. PICK v : v = IF record[w.event] = "none" THEN [w EXCEPT !.pc = "read"] ELSE IdleHandler
      OBVIOUS
    <2>2. handler' = [handler EXCEPT ![h] = v]
      BY <1>0, <1>5, <2>1 DEF InsertRecord, TypeOK
    <2>3. v = IdleHandler \/ (v.object = w.object /\ v.read = w.read)
      BY <1>0, <2>1 DEF Handler
    <2>4. NoneActive => Unpaid(v)
      BY <2>3, IdleUnpaid DEF Unpaid, UnpaidInv
    <2> QED BY <1>0, <2>2, <2>4, UnpaidMoves
  <1>7. CASE ReadRow(h)
    <2> DEFINE fetches == w.event # 0 /\ events[w.event].type = "checkout"
    <2>1. PICK v : v = [w EXCEPT !.read = row, !.pc = IF fetches THEN "fetch" ELSE "write",
                                 !.object = IF w.event # 0 /\ ~fetches THEN events[w.event].object ELSE @]
      OBVIOUS
    <2>2. handler' = [handler EXCEPT ![h] = v]
      BY <1>7, <2>1 DEF ReadRow
    <2>3. /\ v.read = row
          /\ v.object = w.object \/ (w.event # 0 /\ v.object = events[w.event].object)
      BY <1>0, <2>1 DEF Handler
    <2>4. NoneActive => Unpaid(v)
      BY <1>0, <2>3 DEF Unpaid, UnpaidInv, NoneActive, Informed
    <2> QED BY <1>0, <2>2, <2>4, UnpaidMoves
  <1>8. CASE FetchSubscription(h)
    <2>1. PICK v : v = [w EXCEPT !.object = stripe[w.sub], !.pc = IF w.event = 0 THEN "read" ELSE "write"]
      OBVIOUS
    <2>2. handler' = [handler EXCEPT ![h] = v] /\ w.pc = "fetch"
      BY <1>0, <1>8, <2>1 DEF FetchSubscription, TypeOK
    <2>3. v.read = w.read /\ v.object = stripe[w.sub] /\ w.sub \in Subs /\ stripe[w.sub] # None
      BY <1>0, <2>1, <2>2 DEF Handler, Informed
    <2>4. NoneActive => Unpaid(v)
      BY <2>3 DEF Unpaid, UnpaidInv, NoneActive, BasicInv, StripeInv
    <2> QED BY <1>0, <2>2, <2>4, UnpaidMoves
  <1> QED BY <1>1, <1>2, <1>3, <1>5, <1>7, <1>8 DEF RequestStep, StripeUnavailable, HandlerDies

LEMMA UnpaidCommit ==
    ASSUME BillingConstants, BasicInv, UnpaidInv, NEW h \in Handlers, CommitRow(h)
    PROVE  UnpaidInv'
  <1> DEFINE w == handler[h]
  <1>0. /\ TypeOK /\ w \in Handler /\ w.read \in Row /\ w.pc = "write" /\ Informed(w) /\ w.object \in Object
        /\ handler' = [handler EXCEPT ![h] = IdleHandler] /\ events' = events
        /\ row' = Written(w.read, NewRow(w))
    BY DEF BasicInv, TypeOK, CommitRow, HandlerInv, Handler, Informed, stripeVars
  <1>1. NoneActive' <=> NoneActive
    BY <1>0 DEF NoneActive
  <1> SUFFICES ASSUME NoneActive PROVE UnpaidInv'
    BY <1>1 DEF UnpaidInv
  <1>2. NewRow(w) = Synced(w.sub, w.object)
    <2>1. w.event # 0 => events[w.event].type \notin {"payment_failed", "paid"}
      BY <1>0 DEF Informed, BasicInv, StripeInv, NoneActive, Inactive, ACTIVE_SUBSCRIPTION_STATUSES
    <2> QED BY <2>1 DEF NewRow
  <1>3. w.object # None /\ Inactive(w.object.status)
    BY <1>0, NoneIsNoObject DEF UnpaidInv, Unpaid
  <1>4. NewRow(w) \in Row /\ NewRow(w).status = w.object.status
    BY <1>0, <1>2, WantedRow DEF Synced
  <1>5. row'.status = IF NewRow(w).status # w.read.status THEN NewRow(w).status ELSE row.status
    BY <1>0, <1>4, WrittenRow DEF TypeOK
  <1>6. Inactive(row'.status)
    BY <1>3, <1>4, <1>5 DEF UnpaidInv, Unpaid
  <1>7. ASSUME NEW g \in Handlers PROVE Unpaid(handler[g])'
    <2>1. handler'[g] = IF g = h THEN IdleHandler ELSE handler[g]
      BY <1>0 DEF TypeOK
    <2> QED BY <1>6, <2>1, IdleUnpaid DEF Unpaid, UnpaidInv
  <1> QED BY <1>6, <1>7 DEF UnpaidInv

LEMMA UnpaidInvNext ==
    ASSUME BillingConstants, BasicInv, UnpaidInv, [Next]_vars
    PROVE  UnpaidInv'
  <1>0. TypeOK
    BY DEF BasicInv
  <1>1. ASSUME UNCHANGED <<events, row, handler>> PROVE UnpaidInv'
    BY <1>1 DEF UnpaidInv, NoneActive, Unpaid
  <1>2. CASE UNCHANGED vars
    BY <1>1, <1>2 DEF vars
  <1>3. CASE StripeStep
    <2>1. ASSUME NEW s \in Subs, NEW o \in Object, Emitted(s, o) PROVE UnpaidInv'
      <3>0. \A e \in 1..Len(events) : e \in 1..Len(events') /\ events'[e] = events[e]
        <4>1. Len(events) \in Nat /\ Len(events') \in {Len(events) + 1, Len(events) + 2}
          BY <1>0, <2>1 DEF TypeOK, Emitted
        <4>2. \A e \in 1..Len(events) : events'[e] = events[e]
          BY <2>1 DEF Emitted
        <4> QED BY <4>1, <4>2
      <3>1. NoneActive' => NoneActive
        BY <3>0 DEF NoneActive
      <3> QED BY <2>1, <3>1 DEF UnpaidInv, Unpaid, Emitted, webhookVars
    <2> QED BY <1>0, <1>1, <1>3, <2>1, StripeSteps DEF BasicInv, webhookVars
  <1>4. ASSUME NEW e \in EventIds, DeliverRecorded(e) PROVE UnpaidInv'
    BY <1>1, <1>4 DEF DeliverRecorded, stripeVars
  <1>5. ASSUME NEW c \in Callers, CallerStep(c) PROVE UnpaidInv'
    <2>1. /\ UNCHANGED <<events, handler>>
          /\ row' \in {row, [row EXCEPT !.plan = "audit"]}
      BY <1>5, CallerSteps DEF stripeVars, webhookVars
    <2>2. row'.status = row.status /\ (row.plan = "audit" => row'.plan = "audit")
      BY <1>0, <2>1 DEF TypeOK, Row
    <2> QED BY <2>1, <2>2 DEF UnpaidInv, NoneActive, Unpaid
  <1> QED BY <1>2, <1>3, <1>4, <1>5, UnpaidRequests, UnpaidCommit DEF Next, StripeStep, RequestStep, CallerStep

-----------------------------------------------------------------------------
(* Undisturbed, the row follows Stripe.                                      *)

\* A request at work is alone with the row.
LEMMA BusyIsAlone ==
    ASSUME AloneInv, NEW h \in Handlers, Busy(h)
    PROVE  (\A g \in Handlers \ {h} : ~Busy(g)) /\ \A c \in Callers : ~FoundLapsed(c)
  BY DEF AloneInv, OneWriter, LapsedAlone

LEMMA IdleFollows == Attends(IdleHandler) /\ \A b : Follows(IdleHandler, b)
  BY DEF Attends, Follows, IdleHandler

\* A request moves on without writing.
LEMMA UndisturbedMoves ==
    ASSUME TypeOK, AloneInv, FollowInv, UNCHANGED <<stripe, events, acked, record, row, caller>>,
           NEW h \in Handlers, NEW v, handler' = [handler EXCEPT ![h] = v],
           v.pc # "idle" => (\A g \in Handlers \ {h} : ~Busy(g)) /\ \A c \in Callers : ~FoundLapsed(c),
           Attends(v), \A b \in 1..Len(events) : Newest(b) => Follows(v, b)
    PROVE  AloneInv' /\ FollowInv'
  <1>1. \A g \in Handlers : handler'[g] = IF g = h THEN v ELSE handler[g]
    BY DEF TypeOK
  <1>2. \A g \in Handlers : Busy(g)' <=> IF g = h THEN v.pc # "idle" ELSE Busy(g)
    BY <1>1 DEF Busy
  <1>3. OneWriter'
    BY <1>2 DEF OneWriter, AloneInv
  <1>4. InOrder'
    BY DEF InOrder, AloneInv
  <1>5. LapsedAlone'
    <2>1. \A c \in Callers : FoundLapsed(c)' <=> FoundLapsed(c)
      BY DEF FoundLapsed
    <2> QED BY <1>2, <2>1 DEF LapsedAlone, AloneInv
  <1>6. ASSUME NEW g \in Handlers PROVE Attends(handler[g])'
    <2>1. Attends(IF g = h THEN v ELSE handler[g])
      BY DEF AloneInv
    <2> QED BY <1>1, <2>1 DEF Attends
  <1>7. \A b : Newest(b)' <=> Newest(b)
    BY DEF Newest
  <1>8. ASSUME NEW b \in 1..Len(events), Newest(b), NEW g \in Handlers PROVE Follows(handler[g], b)'
    <2>1. Follows(IF g = h THEN v ELSE handler[g], b)
      BY <1>8 DEF FollowInv
    <2> QED BY <1>1, <2>1 DEF Follows
  <1>9. \A b : Matches(row, b)' <=> Matches(row, b)
    BY DEF Matches, Agrees, Misled
  <1> QED BY <1>3, <1>4, <1>5, <1>6, <1>7, <1>8, <1>9 DEF AloneInv, FollowInv

\* Later events say the same of the same subscription.
LEMMA NewestSays ==
    ASSUME TypeOK, NEW b \in 1..Len(events), Newest(b)
    PROVE  /\ \A e \in 1..Len(events) : e >= b =>
                 /\ events[e].sub = events[b].sub /\ events[e].object = events[b].object
                 /\ events[e].type = "subscription" => e = b
           /\ stripe[events[b].sub] = events[b].object
           /\ events[Len(events)].sub = events[b].sub
           /\ b > 0 /\ b \in Nat
  <1>1. Len(events) \in Nat
    BY DEF TypeOK
  <1>2. \A e \in 1..Len(events) : e >= b => e \in b..Len(events)
    BY <1>1
  <1>3. Len(events) \in b..Len(events)
    BY <1>1
  <1> QED BY <1>1, <1>2, <1>3 DEF Newest

LEMMA UndisturbedRequests ==
    ASSUME BillingConstants, BasicInv, AloneInv, FollowInv, faults' = 0, NEW h \in Handlers, RequestStep(h)
    PROVE  AloneInv' /\ FollowInv'
  <1> DEFINE w == handler[h]
  <1>0. /\ TypeOK /\ w \in Handler /\ Informed(w) /\ UNCHANGED <<stripe, events, acked, row, caller>>
        /\ Attends(w) /\ Len(events) \in Nat /\ w.event \in Nat
        /\ \A b \in 1..Len(events) : Newest(b) => Follows(w, b)
    <2>1. TypeOK /\ w \in Handler /\ Informed(w)
      BY DEF BasicInv, TypeOK, HandlerInv
    <2>2. UNCHANGED <<stripe, events, acked, row, caller>>
      BY RequestSteps DEF stripeVars, usageVars
    <2>3. Attends(w) /\ \A b \in 1..Len(events) : Newest(b) => Follows(w, b)
      BY DEF AloneInv, FollowInv
    <2>4. Len(events) \in Nat /\ w.event \in Nat
      <3>1. w.event \in EventIds \cup {0}
        BY <2>1 DEF Handler
      <3> QED BY <2>1, <3>1 DEF TypeOK, EventIds
    <2> QED BY <2>1, <2>2, <2>3, <2>4
  <1>1. ASSUME NEW v, v.pc # "idle" => Busy(h), UNCHANGED record, handler' = [handler EXCEPT ![h] = v],
               Attends(v), \A b \in 1..Len(events) : Newest(b) => Follows(v, b)
        PROVE  AloneInv' /\ FollowInv'
    BY <1>0, <1>1, BusyIsAlone, UndisturbedMoves
  <1>2. ASSUME ~Crosses
        PROVE  (\A g \in Handlers : ~Busy(g)) /\ \A c \in Callers : ~FoundLapsed(c)
    <2>1. \A c \in Callers : caller[c].pc # "idle" => caller[c].pc \in {"calling", "answered"}
      <3>1. \A c \in Callers : caller[c] \in Caller
        BY <1>0 DEF TypeOK
      <3> QED BY <3>1 DEF Caller
    <2> QED BY <1>2, <2>1 DEF Crosses, RowLocked, FoundLapsed
  <1>3. CASE \E e \in EventIds : DeliverEvent(h, e)
    <2>1. PICK e \in EventIds : DeliverEvent(h, e)
      BY <1>3
    <2>2. PICK v : v = [IdleHandler EXCEPT !.pc = "insert", !.event = e, !.sub = events[e].sub]
      OBVIOUS
    <2>3. v.pc = "insert" /\ v.event = e /\ e > 0
      BY <2>2 DEF IdleHandler, EventIds
    <2>4. ~(Crosses \/ \E d \in 1..(e - 1) : Pending(d))
      BY <1>0, <2>1, FaultOrNot DEF DeliverEvent
    <2>5. Attends(v)
      <3>1. e \in 1..Len(events) /\ e \notin acked
        BY <2>1 DEF DeliverEvent, Pending
      <3>2. \A d \in 1..(e - 1) : d \in acked
        BY <1>0, <2>4, <3>1 DEF Pending
      <3> QED BY <2>3, <3>1, <3>2 DEF Attends
    <2>6. \A b \in 1..Len(events) : Follows(v, b)
      BY <2>3 DEF Follows
    <2>7. handler' = [handler EXCEPT ![h] = v] /\ UNCHANGED record
      BY <2>1, <2>2 DEF DeliverEvent
    <2> QED BY <1>0, <1>2, <2>4, <2>5, <2>6, <2>7, UndisturbedMoves
  <1>4. CASE \E s \in Subs : confirm_checkout_session(h, s)
    <2>1. PICK s \in Subs : confirm_checkout_session(h, s)
      BY <1>4
    <2>2. PICK v : v = [IdleHandler EXCEPT !.pc = "fetch", !.sub = s]
      OBVIOUS
    <2>3. v.pc = "fetch" /\ v.event = 0 /\ v.sub = s
      BY <2>2 DEF IdleHandler
    <2>4. ~(Crosses \/ s # events[Len(events)].sub)
      BY <1>0, <2>1, FaultOrNot DEF confirm_checkout_session
    <2>5. Attends(v)
      BY <2>3 DEF Attends
    <2>6. \A b \in 1..Len(events) : Newest(b) => Follows(v, b)
      BY <1>0, <2>3, <2>4, NewestSays DEF Follows
    <2>7. handler' = [handler EXCEPT ![h] = v] /\ UNCHANGED record
      BY <2>1, <2>2 DEF confirm_checkout_session
    <2> QED BY <1>0, <1>2, <2>4, <2>5, <2>6, <2>7, UndisturbedMoves
  <1>5. CASE InsertRecord(h)
    <2>1. PICK v : v = IF record[w.event] = "none" THEN [w EXCEPT !.pc = "read"] ELSE IdleHandler
      OBVIOUS
    <2>2. handler' = [handler EXCEPT ![h] = v] /\ UNCHANGED record /\ w.pc = "insert"
      BY <1>0, <1>5, <2>1 DEF InsertRecord, TypeOK
    <2>3. v = IdleHandler \/ (v.pc = "read" /\ v.event = w.event /\ v.event # 0)
      BY <1>0, <2>1, <2>2 DEF Handler, Informed
    <2>4. Attends(v) /\ \A b \in 1..Len(events) : Follows(v, b)
      BY <1>0, <2>2, <2>3, IdleFollows DEF Attends, Follows
    <2> QED BY <1>1, <2>2, <2>4 DEF Busy
  <1>6. CASE ReadRow(h)
    <2> DEFINE fetches == w.event # 0 /\ events[w.event].type = "checkout"
    <2>1. PICK v : v = [w EXCEPT !.read = row, !.pc = IF fetches THEN "fetch" ELSE "write",
                                 !.object = IF w.event # 0 /\ ~fetches THEN events[w.event].object ELSE @]
      OBVIOUS
    <2>2. handler' = [handler EXCEPT ![h] = v] /\ w.pc = "read" /\ UNCHANGED record
      <3>1. w.pc = "read" /\ UNCHANGED record
        BY <1>6 DEF ReadRow
      <3>2. handler' = [handler EXCEPT ![h] = v]
        BY <1>6, <2>1 DEF ReadRow
      <3> QED BY <3>1, <3>2
    <2>3. /\ v.read = row /\ v.event = w.event /\ v.sub = w.sub
          /\ v.pc = IF fetches THEN "fetch" ELSE "write"
          /\ v.object = IF w.event # 0 /\ ~fetches THEN events[w.event].object ELSE w.object
      BY <1>0, <2>1 DEF Handler
    <2>4. Attends(v)
      BY <1>0, <2>2, <2>3 DEF Attends
    <2>5. ASSUME NEW b \in 1..Len(events), Newest(b) PROVE Follows(v, b)
      <3>1. CASE w.event = 0
        BY <1>0, <2>2, <2>3, <2>5, <3>1 DEF Follows
      <3>2. CASE w.event # 0
        <4>1. w.event \in 1..Len(events)
          BY <1>0, <3>2 DEF Informed
        <4> QED BY <1>0, <2>3, <2>5, <3>2, <4>1, NewestSays DEF Follows
      <3> QED BY <3>1, <3>2
    <2> QED BY <1>1, <2>2, <2>4, <2>5 DEF Busy
  <1>7. CASE FetchSubscription(h)
    <2>1. PICK v : v = [w EXCEPT !.object = stripe[w.sub], !.pc = IF w.event = 0 THEN "read" ELSE "write"]
      OBVIOUS
    <2>2. handler' = [handler EXCEPT ![h] = v] /\ w.pc = "fetch" /\ UNCHANGED record
      BY <1>0, <1>7, <2>1 DEF FetchSubscription, TypeOK
    <2>3. /\ v.read = w.read /\ v.event = w.event /\ v.sub = w.sub /\ v.object = stripe[w.sub]
          /\ v.pc = IF w.event = 0 THEN "read" ELSE "write"
      BY <1>0, <2>1 DEF Handler
    <2>4. Attends(v)
      BY <1>0, <2>2, <2>3 DEF Attends
    <2>5. ASSUME NEW b \in 1..Len(events), Newest(b) PROVE Follows(v, b)
      <3>1. CASE w.event = 0
        BY <1>0, <2>2, <2>3, <2>5, <3>1, NewestSays DEF Follows
      <3>2. CASE w.event # 0
        <4>1. w.event \in 1..Len(events) /\ w.sub = events[w.event].sub
          BY <1>0, <3>2 DEF Informed
        <4> QED BY <1>0, <2>3, <2>5, <3>2, <4>1, NewestSays DEF Follows
      <3> QED BY <3>1, <3>2
    <2> QED BY <1>1, <2>2, <2>4, <2>5 DEF Busy
  <1>8. ~StripeUnavailable(h) /\ ~HandlerDies(h)
    BY <1>0, FaultOrNot DEF StripeUnavailable, HandlerDies
  <1> QED BY <1>3, <1>4, <1>5, <1>6, <1>7, <1>8 DEF RequestStep

\* What a request commits that is alone with the row is what Stripe has, once
\* the newest event is applied.
LEMMA CommitAgrees ==
    ASSUME BillingConstants, BasicInv, AloneInv, FollowInv, NEW h \in Handlers, CommitRow(h),
           NEW b \in 1..Len(events), Newest(b), b \in acked'
    PROVE  Matches(row', b)
  <1> DEFINE w == handler[h]
             new == NewRow(w)
  <1>1. /\ TypeOK /\ w \in Handler /\ w.read \in Row /\ w.pc = "write" /\ Informed(w) /\ w.object \in Object
        /\ row \in Row
    BY DEF BasicInv, TypeOK, CommitRow, HandlerInv, Handler, Informed
  <1>2. w.read = row /\ Attends(w) /\ Follows(w, b)
    BY <1>1 DEF AloneInv, FollowInv, Attends
  <1>3. row' = new
    <2>1. row' = Written(w.read, NewRow(w))
      BY DEF CommitRow
    <2> QED BY <1>1, <1>2, <2>1, WantedRow, WrittenRow
  <1>4. ASSUME new = Synced(w.sub, w.object), w.object = events[b].object
        PROVE  Matches(row', b)
    BY <1>3, <1>4 DEF Matches, Agrees, Synced, ACTIVE_SUBSCRIPTION_STATUSES, EndedStatuses
  <1>5. b > 0 /\ b \in Nat
    BY <1>1, NewestSays
  <1>6. CASE w.event = 0
    <2>1. b \in acked
      BY <1>5, <1>6 DEF CommitRow
    <2>2. w.object = events[b].object
      BY <1>1, <1>2, <1>6, <2>1 DEF Follows
    <2> QED BY <1>4, <1>6, <2>2 DEF NewRow
  <1>7. CASE w.event # 0
    <2>1. w.event \in 1..Len(events)
      BY <1>1, <1>7 DEF Informed
    <2>2. b = w.event \/ (b \in acked /\ w.event > b)
      <3>1. b = w.event \/ b \in acked
        BY DEF CommitRow
      <3>2. b \in acked => ~(w.event \in 1..b)
        <4>1. acked \in SUBSET EventIds
          BY <1>1 DEF TypeOK
        <4>2. w.event \notin acked
          BY <1>1, <1>2, <1>7 DEF Attends
        <4> QED BY <4>2 DEF AloneInv, InOrder
      <3> QED BY <1>5, <2>1, <3>1, <3>2
    <2>3. w.object = events[b].object
      BY <1>1, <1>2, <1>5, <2>1, <2>2 DEF Follows
    <2>4. b = w.event \/ events[w.event].type # "subscription"
      BY <1>1, <1>5, <2>1, <2>2, NewestSays
    <2>5. CASE events[w.event].type \notin {"payment_failed", "paid"}
      BY <1>4, <2>3, <2>5 DEF NewRow
    <2>6. CASE events[w.event].type \in {"payment_failed", "paid"}
      <3>1. b \in acked /\ events[w.event].object = events[b].object
        BY <1>1, <1>5, <2>1, <2>2, <2>6, NewestSays DEF Newest
      <3>2. Matches(row, b) /\ row.plan \in {"audit", events[b].object.plan}
        BY <3>1 DEF FollowInv, Matches, Misled, Agrees
      <3>3. CASE events[w.event].type = "paid"
        <4>1. events[b].object.status = "active"
          BY <2>1, <3>1, <3>3 DEF BasicInv, StripeInv
        <4>2. Agrees(row, events[b].object) /\ row.status = "active"
          BY <3>2, <4>1 DEF Matches, Misled, Agrees
        <4>3. new = [row EXCEPT !.status = IF @ = "past_due" THEN "active" ELSE @]
          BY <1>2, <1>7, <3>3 DEF NewRow
        <4>4. new.plan = row.plan /\ new.status = row.status
          BY <1>1, <4>2, <4>3 DEF Row
        <4> QED BY <1>3, <4>2, <4>4 DEF Matches, Agrees
      <3>4. CASE events[w.event].type = "payment_failed"
        <4>1. new = [row EXCEPT !.status = "past_due"]
          BY <1>2, <1>7, <3>4 DEF NewRow
        <4>2. new.plan = row.plan /\ new.status = "past_due"
          BY <1>1, <4>1 DEF Row
        <4>3. events[b].object.status \in {"incomplete", "past_due"}
          BY <2>1, <3>1, <3>4 DEF BasicInv, StripeInv
        <4>4. CASE events[b].object.status = "incomplete"
          <5>1. events[w.event].sub = events[b].sub
            BY <1>1, <1>5, <2>1, <2>2, NewestSays
          <5> QED BY <1>3, <2>1, <3>1, <3>2, <3>4, <4>2, <4>4, <5>1 DEF Matches, Misled
        <4>5. CASE events[b].object.status = "past_due"
          <5>1. Agrees(row, events[b].object)
            BY <3>2, <4>5 DEF Matches, Misled
          <5> QED BY <1>3, <4>2, <4>5, <5>1 DEF Matches, Agrees
        <4> QED BY <4>3, <4>4, <4>5
      <3> QED BY <2>6, <3>3, <3>4
    <2> QED BY <2>5, <2>6
  <1> QED BY <1>6, <1>7

LEMMA UndisturbedCommit ==
    ASSUME BillingConstants, BasicInv, AloneInv, FollowInv, NEW h \in Handlers, CommitRow(h)
    PROVE  AloneInv' /\ FollowInv'
  <1> DEFINE w == handler[h]
  <1>0. /\ TypeOK /\ w \in Handler /\ w.pc = "write" /\ Attends(w)
        /\ handler' = [handler EXCEPT ![h] = IdleHandler] /\ UNCHANGED <<stripe, events, caller>>
        /\ acked' = acked \cup ({w.event} \ {0})
    BY DEF BasicInv, TypeOK, CommitRow, AloneInv, stripeVars, usageVars
  <1>1. Busy(h)
    BY <1>0 DEF Busy
  <1>2. \A g \in Handlers : handler'[g] = IF g = h THEN IdleHandler ELSE handler[g]
    BY <1>0 DEF TypeOK
  <1>3. \A g \in Handlers : handler'[g].pc = "idle"
    BY <1>1, <1>2, BusyIsAlone DEF Busy, IdleHandler
  <1>4. \A c \in Callers : ~FoundLapsed(c)'
    BY <1>0, <1>1, BusyIsAlone DEF FoundLapsed
  <1>5. OneWriter' /\ LapsedAlone'
    BY <1>3, <1>4 DEF OneWriter, LapsedAlone, Busy
  <1>6. InOrder'
    <2>1. \A e \in EventIds : record'[e] # "none" => e \in acked'
      <3>1. CASE w.event = 0
        BY <1>0, <3>1 DEF CommitRow, AloneInv, InOrder
      <3>2. CASE w.event # 0
        <4>1. record' = [record EXCEPT ![w.event] = "processed"]
          BY <3>2 DEF CommitRow
        <4> QED BY <1>0, <3>2, <4>1 DEF AloneInv, InOrder, TypeOK
      <3> QED BY <3>1, <3>2
    <2>2. ASSUME NEW e \in acked', NEW d \in 1..e PROVE d \in acked'
      <3>1. CASE e \in acked
        BY <1>0, <3>1 DEF AloneInv, InOrder
      <3>2. CASE e = w.event /\ w.event # 0
        <4>1. e \in Nat
          BY <1>0, <3>2 DEF Handler, EventIds
        <4>2. d = e \/ d \in 1..(e - 1)
          BY <4>1
        <4> QED BY <1>0, <3>2, <4>2 DEF Attends
      <3> QED BY <1>0, <3>1, <3>2
    <2> QED BY <2>1, <2>2 DEF InOrder
  <1>8. \A g \in Handlers : Attends(handler[g])'
    BY <1>3 DEF Attends
  <1>9. \A b : Newest(b)' <=> Newest(b)
    BY <1>0 DEF Newest
  <1>10. \A g \in Handlers, b \in 1..Len(events) : Follows(handler[g], b)'
    BY <1>3 DEF Follows
  <1>11. \A b \in 1..Len(events) : Newest(b) /\ b \in acked' => Matches(row, b)'
    <2>1. \A b \in 1..Len(events) : Newest(b) /\ b \in acked' => Matches(row', b)
      BY CommitAgrees
    <2> QED BY <1>0, <2>1 DEF Matches, Misled
  <1> QED BY <1>0, <1>5, <1>6, <1>8, <1>9, <1>10, <1>11 DEF AloneInv, FollowInv

\* Stripe emits: the newest event is the first one it adds, which nobody has
\* seen yet.
LEMMA ChangeEmits ==
    ASSUME BillingConstants, BasicInv, AloneInv, FollowInv, NEW s \in Subs, NEW o \in Object, Emitted(s, o),
           events'[Len(events) + 1].type = "subscription"
    PROVE  AloneInv' /\ FollowInv'
  <1>0. /\ TypeOK /\ Len(events) \in Nat /\ Len(events') \in Nat
        /\ Len(events) + 1 \in 1..Len(events') /\ Len(events) + 1 \in (Len(events) + 1)..Len(events')
        /\ UNCHANGED <<row, acked, record, handler, caller>>
    <2>1. TypeOK /\ Len(events) \in Nat
      BY DEF BasicInv, TypeOK
    <2>2. Len(events') \in {Len(events) + 1, Len(events) + 2}
      BY DEF Emitted
    <2> QED BY <2>1, <2>2 DEF Emitted, webhookVars, usageVars
  <1>1. AloneInv'
    BY <1>0 DEF AloneInv, OneWriter, InOrder, LapsedAlone, Attends, Busy, FoundLapsed
  <1>2. /\ \A e \in (Len(events) + 1)..Len(events') :
               /\ events'[e].sub = s /\ events'[e].object = o
               /\ events'[e].type = "subscription" <=> e = Len(events) + 1
        /\ stripe'[s] = o
    BY <1>0 DEF Emitted, TypeOK
  <1>9. PICK n : n = Len(events) + 1
    OBVIOUS
  <1>3. n \in 1..Len(events') /\ Newest(n)'
    <2>1. /\ n \in 1..Len(events') /\ n \in n..Len(events') /\ events'[n].sub = s /\ events'[n].object = o
          /\ events'[n].type = "subscription" /\ events'[n].object = stripe'[events'[n].sub]
      BY <1>0, <1>2, <1>9
    <2>2. \A j \in n..Len(events') : /\ events'[j].sub = events'[n].sub /\ events'[j].object = events'[n].object
                                     /\ events'[j].type = "subscription" => j = n
      BY <1>2, <1>9, <2>1
    <2> QED BY <2>1, <2>2 DEF Newest
  <1>4. ASSUME NEW b \in 1..Len(events'), Newest(b)' PROVE b = Len(events) + 1
    <2>1. events'[Len(events) + 1].type = "subscription"
      BY <1>0, <1>2
    <2>2. CASE b > Len(events) + 1
      <3>1. b \in (Len(events) + 1)..Len(events')
        BY <1>0, <2>2
      <3>2. events'[b].type = "subscription"
        BY <1>4 DEF Newest
      <3> QED BY <1>2, <3>1, <3>2
    <2>3. CASE b <= Len(events) + 1
      <3>1. Len(events) + 1 \in b..Len(events')
        BY <1>0, <2>3
      <3> QED BY <1>4, <2>1, <3>1 DEF Newest
    <2> QED BY <1>0, <2>2, <2>3
  <1>5. ASSUME NEW b \in 1..Len(events'), Newest(b)'
        PROVE  b \notin acked' /\ \A h \in Handlers : Follows(handler[h], b)'
    <2>1. b = Len(events) + 1
      BY <1>4, <1>5
    <2>2. b \notin acked'
      BY <1>0, <2>1 DEF BasicInv, StripeInv
    <2>3. ASSUME NEW h \in Handlers PROVE ~(handler[h].pc = "write" /\ handler[h].event >= b)
      <3>1. handler[h] \in Handler /\ Informed(handler[h])
        BY <1>0 DEF TypeOK, BasicInv, HandlerInv
      <3> QED BY <1>0, <2>1, <3>1 DEF Informed, Handler, EventIds
    <2> QED BY <1>0, <2>2, <2>3 DEF Follows
  <1>6. Len(events') > 0 => \E b \in 1..Len(events') : Newest(b)'
    BY <1>0, <1>3
  <1>7. FollowInv'
    BY <1>5, <1>6 DEF FollowInv
  <1> QED BY <1>1, <1>7

\* Stripe says that it could not collect: what it says is what it said last.
LEMMA FailureEmits ==
    ASSUME BillingConstants, BasicInv, AloneInv, FollowInv, LiveIsLast, NEW s \in Subs, NEW o \in Object, Emitted(s, o),
           events'[Len(events) + 1].type # "subscription"
    PROVE  AloneInv' /\ FollowInv'
  <1>0. /\ TypeOK /\ Len(events) \in Nat /\ Len(events') = Len(events) + 1
        /\ UNCHANGED <<stripe, row, acked, record, handler, caller>>
        /\ stripe[s] = o /\ Live(s) /\ events'[Len(events) + 1].type = "payment_failed"
    <2>1. TypeOK /\ Len(events) \in Nat
      BY DEF BasicInv, TypeOK
    <2>2. Len(events') = Len(events) + 1 /\ stripe[s] = o /\ Live(s) /\ events'[Len(events) + 1].type = "payment_failed"
      BY DEF Emitted
    <2>3. stripe' = stripe
      BY <2>1, <2>2 DEF Emitted, TypeOK
    <2> QED BY <2>1, <2>2, <2>3 DEF Emitted, webhookVars, usageVars
  <1>1. AloneInv'
    BY <1>0 DEF AloneInv, OneWriter, InOrder, LapsedAlone, Attends, Busy, FoundLapsed
  <1>2. /\ \A e \in 1..Len(events) : events'[e] = events[e]
        /\ \A e \in 1..Len(events') : e \in 1..Len(events) \/ e = Len(events) + 1
        /\ 1..Len(events) \subseteq 1..Len(events')
        /\ events'[Len(events) + 1].sub = s /\ events'[Len(events) + 1].object = o
    <2>1. Len(events) + 1 \in (Len(events) + 1)..Len(events')
      BY <1>0
    <2> QED BY <1>0, <2>1 DEF Emitted
  <1>3. ASSUME NEW b \in 1..Len(events), Newest(b) PROVE Newest(b)'
    <2>1. events[b].sub = s /\ events[b].object = o
      <3>1. s = events[Len(events)].sub
        BY <1>0 DEF LiveIsLast
      <3> QED BY <1>0, <1>3, <3>1, NewestSays
    <2>2. \A j \in b..Len(events') : j \in b..Len(events) \/ j = Len(events) + 1
      <3>1. PICK n, k : n \in Nat /\ n = Len(events) /\ k = Len(events')
        BY <1>0
      <3>2. k = n + 1 /\ b \in 1..n
        BY <1>0, <3>1
      <3>3. \A j \in b..k : j \in b..n \/ j = n + 1
        BY <3>1, <3>2
      <3> QED BY <3>1, <3>3
    <2>3. ASSUME NEW j \in b..Len(events')
          PROVE  /\ events'[j].sub = events'[b].sub /\ events'[j].object = events'[b].object
                 /\ events'[j].type = "subscription" => j = b
      <3>1. CASE j \in b..Len(events)
        <4>1. j \in 1..Len(events)
          BY <1>0, <3>1
        <4> QED BY <1>2, <1>3, <3>1, <4>1 DEF Newest
      <3>2. CASE j = Len(events) + 1
        BY <1>0, <1>2, <2>1, <3>2
      <3> QED BY <2>2, <3>1, <3>2
    <2> QED BY <1>0, <1>2, <1>3, <2>3 DEF Newest
  <1>4. ASSUME NEW b \in 1..Len(events'), Newest(b)' PROVE b \in 1..Len(events) /\ Newest(b)
    <2>1. b \in 1..Len(events)
      BY <1>0, <1>2, <1>4 DEF Newest
    <2>2. \A j \in b..Len(events) : j \in b..Len(events') /\ j \in 1..Len(events)
      BY <1>0, <2>1
    <2> QED BY <1>0, <1>2, <1>4, <2>1, <2>2 DEF Newest
  <1>5. ASSUME NEW b \in 1..Len(events), Matches(row, b) PROVE Matches(row, b)'
    BY <1>0, <1>2, <1>5 DEF Matches, Misled
  <1>6. ASSUME NEW b \in 1..Len(events), NEW h \in Handlers, Follows(handler[h], b) PROVE Follows(handler[h], b)'
    BY <1>0, <1>2, <1>6 DEF Follows
  <1>7. FollowInv'
    <2>1. Len(events') > 0 => \E b \in 1..Len(events') : Newest(b)'
      <3>1. Len(events) > 0
        BY <1>0 DEF LiveIsLast
      <3> QED BY <1>2, <1>3, <3>1 DEF FollowInv
    <2> QED BY <1>0, <1>4, <1>5, <1>6, <2>1 DEF FollowInv
  <1> QED BY <1>1, <1>7

LEMMA UndisturbedEmits ==
    ASSUME BillingConstants, BasicInv, AloneInv, FollowInv, LiveIsLast, NEW s \in Subs, NEW o \in Object, Emitted(s, o),
           Live(s) \/ \A t \in Subs : ~Live(t)
    PROVE  AloneInv' /\ FollowInv' /\ LiveIsLast'
  <1>1. AloneInv' /\ FollowInv'
    BY ChangeEmits, FailureEmits
  <1>2. Len(events') \in Nat /\ Len(events') > 0 /\ events'[Len(events')].sub = s
    <2>1. Len(events) \in Nat /\ Len(events') \in {Len(events) + 1, Len(events) + 2}
      BY DEF BasicInv, TypeOK, Emitted
    <2>2. Len(events') \in (Len(events) + 1)..Len(events')
      BY <2>1
    <2> QED BY <2>1, <2>2 DEF Emitted
  <1>3. \A t \in Subs : Live(t) => t = s
    BY DEF LiveIsLast
  <1>4. \A t \in Subs \ {s} : Live(t)' => Live(t)
    BY DEF Live, Emitted, BasicInv, TypeOK
  <1> QED BY <1>1, <1>2, <1>3, <1>4 DEF LiveIsLast

LEMMA UndisturbedCalls ==
    ASSUME BillingConstants, BasicInv, AloneInv, FollowInv, faults' = 0, NEW c \in Callers, CallerStep(c)
    PROVE  AloneInv' /\ FollowInv'
  <1>0. /\ TypeOK /\ UNCHANGED <<stripe, events, acked, record, handler>>
        /\ row' \in {row, [row EXCEPT !.plan = "audit"]}
    BY CallerSteps DEF BasicInv, stripeVars, webhookVars
  <1>1. OneWriter' /\ InOrder'
    BY <1>0 DEF OneWriter, InOrder, AloneInv, Busy
  <1>2. row' # row => FoundLapsed(c) /\ caller' = [caller EXCEPT ![c] = IdleCaller]
    BY DEF CallerStep, BeginCall, ProviderAnswers, ProviderFails, RecordCall, CallerDies, FoundLapsed
  <1>3. row' # row => \A h \in Handlers : handler'[h].pc = "idle"
    BY <1>0, <1>2 DEF AloneInv, LapsedAlone, Busy
  <1>4. \A h \in Handlers : Attends(handler[h])'
    BY <1>0, <1>3 DEF AloneInv, Attends
  <1>5. ASSUME FoundLapsed(c)'
        PROVE  /\ caller'[c].read = row' /\ \A h \in Handlers : ~Busy(h)'
               /\ \A d \in Callers \ {c} : ~FoundLapsed(d)'
    <2>1. \A d \in Callers \ {c} : caller'[d] = caller[d]
      BY <1>0, CallerSteps DEF TypeOK
    <2>2. caller'[c] # IdleCaller
      BY <1>5 DEF FoundLapsed, IdleCaller
    <2>3. row' = row
      BY <1>0, <1>2, <2>2 DEF TypeOK
    <2>4. CASE \E kind \in Kinds : BeginCall(c, kind)
      <3>1. PICK kind \in Kinds : BeginCall(c, kind)
        BY <2>4
      <3>2. caller'[c] = [IdleCaller EXCEPT !.pc = "calling", !.kind = kind, !.read = row]
        BY <1>0, <3>1 DEF BeginCall, TypeOK
      <3>3. caller'[c].read = row
        BY <3>2 DEF IdleCaller
      <3>4. Lapsed(row)
        BY <1>5, <3>3 DEF FoundLapsed
      <3>5. (\A h \in Handlers : ~Busy(h)) /\ ~RowLocked
        BY <1>0, <3>1, <3>4, FaultOrNot DEF BeginCall
      <3>6. \A d \in Callers : caller[d].pc # "idle" => caller[d].pc \in {"calling", "answered"}
        <4>1. \A d \in Callers : caller[d] \in Caller
          BY <1>0 DEF TypeOK
        <4> QED BY <4>1 DEF Caller
      <3> QED BY <1>0, <2>1, <2>3, <3>3, <3>5, <3>6 DEF RowLocked, FoundLapsed, Busy
    <2>5. CASE ProviderAnswers(c)
      <3>1. PICK t \in TokenCounts : caller' = [caller EXCEPT ![c].pc = "answered", ![c].tokens = t]
        BY <2>5 DEF ProviderAnswers
      <3>2. caller[c] \in Caller
        BY <1>0 DEF TypeOK
      <3>3. PICK v : v = [caller[c] EXCEPT !.pc = "answered", !.tokens = t]
        OBVIOUS
      <3>4. caller'[c] = v
        BY <1>0, <3>1, <3>3 DEF TypeOK
      <3>5. caller'[c].read = caller[c].read /\ caller[c].pc # "idle"
        BY <2>5, <3>2, <3>3, <3>4 DEF Caller, ProviderAnswers
      <3>6. FoundLapsed(c)
        BY <1>5, <3>5 DEF FoundLapsed
      <3> QED BY <1>0, <2>1, <2>3, <3>5, <3>6 DEF AloneInv, LapsedAlone, FoundLapsed, Busy
    <2>6. ~ProviderFails(c) /\ ~RecordCall(c) /\ ~CallerDies(c)
      BY <1>0, <2>2 DEF ProviderFails, RecordCall, CallerDies, TypeOK
    <2> QED BY <2>4, <2>5, <2>6 DEF CallerStep
  <1>6. LapsedAlone'
    <2>1. \A d \in Callers \ {c} : caller'[d] = caller[d]
      BY <1>0, CallerSteps DEF TypeOK
    <2>2. ASSUME NEW d \in Callers \ {c}, FoundLapsed(d)'
          PROVE  /\ caller'[d].read = row' /\ \A h \in Handlers : ~Busy(h)'
                 /\ \A x \in Callers : FoundLapsed(x)' => x = d
      <3>1. FoundLapsed(d)
        BY <2>1, <2>2 DEF FoundLapsed
      <3>2. ~FoundLapsed(c) /\ row' = row
        BY <1>2, <3>1 DEF AloneInv, LapsedAlone
      <3>3. ~FoundLapsed(c)'
        BY <1>5, <2>2
      <3> QED BY <1>0, <2>1, <3>1, <3>2, <3>3 DEF AloneInv, LapsedAlone, FoundLapsed, Busy
    <2> QED BY <1>5, <2>2 DEF LapsedAlone
  <1>7. \A b : Newest(b)' <=> Newest(b)
    BY <1>0 DEF Newest
  <1>8. \A h \in Handlers, b \in 1..Len(events) : Follows(handler[h], b)' <=> Follows(handler[h], b)
    BY <1>0 DEF Follows
  <1>9. ASSUME NEW b \in 1..Len(events), Matches(row, b) PROVE Matches(row, b)'
    <2>1. CASE row' = row
      BY <1>0, <1>9, <2>1 DEF Matches, Misled
    <2>2. CASE row' # row
      <3>1. FoundLapsed(c) /\ caller[c].read = row
        BY <1>2, <2>2 DEF AloneInv, LapsedAlone
      <3>2. row.status \notin ACTIVE_SUBSCRIPTION_STATUSES
        BY <3>1 DEF FoundLapsed, Lapsed
      <3>3. row'.status = row.status /\ row'.plan = "audit"
        BY <1>0, <2>2 DEF TypeOK, Row
      <3>4. Agrees(row, events[b].object)
        BY <1>9, <3>2 DEF Matches, Misled, ACTIVE_SUBSCRIPTION_STATUSES
      <3>5. Agrees(row', events[b].object)
        BY <3>2, <3>3, <3>4 DEF Agrees
      <3> QED BY <1>0, <3>5 DEF Matches
    <2> QED BY <2>1, <2>2
  <1> QED BY <1>0, <1>1, <1>4, <1>6, <1>7, <1>8, <1>9 DEF AloneInv, FollowInv

LEMMA UndisturbedInvNext ==
    ASSUME BillingConstants, BasicInv, UndisturbedInv, [Next]_vars
    PROVE  UndisturbedInv'
  <1>0. TypeOK
    BY DEF BasicInv
  <1> SUFFICES ASSUME faults' = 0 PROVE AloneInv' /\ FollowInv' /\ LiveIsLast'
    BY DEF UndisturbedInv
  <1>1. ASSUME UNCHANGED <<stripe, events, acked, record, row, handler, caller>>, faults = 0
        PROVE  AloneInv' /\ FollowInv' /\ LiveIsLast'
    BY <1>1 DEF UndisturbedInv, AloneInv, OneWriter, InOrder, LapsedAlone, Attends, Busy, FoundLapsed,
                FollowInv, Newest, Follows, Matches, Misled, LiveIsLast, Live
  <1>9. ASSUME UNCHANGED <<stripe, events>>, faults = 0 PROVE LiveIsLast'
    BY <1>9 DEF UndisturbedInv, LiveIsLast, Live
  <1>2. CASE UNCHANGED vars
    BY <1>1, <1>2 DEF vars
  <1>3. CASE StripeStep
    <2>1. faults = 0
      BY <1>0, <1>3, StripeSteps DEF BasicInv, TypeOK
    <2> QED BY <1>0, <1>1, <1>3, <2>1, StripeSteps, UndisturbedEmits DEF BasicInv, UndisturbedInv, webhookVars, usageVars
  <1>4. ASSUME NEW e \in EventIds, DeliverRecorded(e) PROVE FALSE
    BY <1>4 DEF DeliverRecorded, Pending, UndisturbedInv, AloneInv, InOrder
  <1>5. ASSUME FaultsMove PROVE faults = 0
    BY <1>0, <1>5 DEF FaultsMove, TypeOK
  <1>6. ASSUME NEW h \in Handlers, RequestStep(h) PROVE AloneInv' /\ FollowInv' /\ LiveIsLast'
    BY <1>5, <1>6, <1>9, RequestSteps, UndisturbedRequests DEF UndisturbedInv, stripeVars
  <1>7. ASSUME NEW h \in Handlers, CommitRow(h) PROVE AloneInv' /\ FollowInv' /\ LiveIsLast'
    <2>1. faults = 0 /\ UNCHANGED <<stripe, events>>
      BY <1>7 DEF CommitRow, stripeVars
    <2> QED BY <1>7, <1>9, <2>1, UndisturbedCommit DEF UndisturbedInv
  <1>8. ASSUME NEW c \in Callers, CallerStep(c) PROVE AloneInv' /\ FollowInv' /\ LiveIsLast'
    BY <1>5, <1>8, <1>9, CallerSteps, UndisturbedCalls DEF UndisturbedInv, stripeVars
  <1> QED BY <1>2, <1>3, <1>4, <1>6, <1>7, <1>8 DEF Next, StripeStep, RequestStep, CallerStep

-----------------------------------------------------------------------------
(* The initial states.                                                       *)

\* No subscription, or one with one event.
Begins(s, o) ==
    /\ o.period = 0 /\ stripe = [t \in Subs |-> IF t = s THEN o ELSE None]
    /\ row = Synced(s, o) /\ events \in Seq(Event) /\ Len(events) = 1
    /\ events[1].type = "subscription" /\ events[1].sub = s /\ events[1].object = o

LEMMA Beginnings ==
    ASSUME BillingConstants, Init
    PROVE  /\ acked = 1..Len(events) /\ Len(events) <= MaxEvents /\ Len(events) \in Nat
           /\ \/ events = <<>> /\ events \in Seq(Event) /\ stripe = [s \in Subs |-> None] /\ row = FreshRow
              \/ \E s \in Subs, o \in Object : Begins(s, o)
  <1>0. MaxEvents \in Nat /\ MaxEvents > 0 /\ 0 \in Periods
    BY DEF BillingConstants, Periods
  <1>1. CASE stripe = [s \in Subs |-> None] /\ row = FreshRow /\ events = <<>>
    <2>1. acked = DOMAIN events
      BY DEF Init
    <2> QED BY <1>0, <1>1, <2>1
  <1>2. ASSUME NEW s \in Subs, NEW st \in Statuses, NEW p \in PaidPlans,
               NEW o, o = [plan |-> p, status |-> st, period |-> 0],
               stripe = [t \in Subs |-> IF t = s THEN o ELSE None], row = Synced(s, o),
               events = <<[type |-> "subscription", sub |-> s, object |-> o]>>
        PROVE  acked = 1..Len(events) /\ Len(events) = 1 /\ o \in Object /\ Begins(s, o)
    <2>1. o \in Object /\ o.period = 0
      BY <1>0, <1>2 DEF Object
    <2>2. PICK x : x = [type |-> "subscription", sub |-> s, object |-> o]
      OBVIOUS
    <2>3. x \in Event /\ x.type = "subscription" /\ x.sub = s /\ x.object = o
      BY <2>1, <2>2 DEF Event
    <2>4. events = <<x>>
      BY <1>2, <2>2
    <2>5. events \in Seq(Event) /\ Len(events) = 1 /\ events[1] = x /\ DOMAIN events = 1..1
      BY <2>3, <2>4
    <2>6. acked = DOMAIN events
      BY DEF Init
    <2> QED BY <1>2, <2>1, <2>3, <2>5, <2>6 DEF Begins
  <1>3. CASE \E s \in Subs, st \in Statuses, p \in PaidPlans :
                LET object == [plan |-> p, status |-> st, period |-> 0] IN
                /\ stripe = [t \in Subs |-> IF t = s THEN object ELSE None]
                /\ row = Synced(s, object)
                /\ events = <<[type |-> "subscription", sub |-> s, object |-> object]>>
    <2>1. PICK s \in Subs, st \in Statuses, p \in PaidPlans, o \in [plan : PaidPlans, status : Statuses, period : {0}] :
              /\ o = [plan |-> p, status |-> st, period |-> 0]
              /\ stripe = [t \in Subs |-> IF t = s THEN o ELSE None]
              /\ row = Synced(s, o)
              /\ events = <<[type |-> "subscription", sub |-> s, object |-> o]>>
      BY <1>3
    <2> QED BY <1>0, <1>2, <2>1
  <1> QED BY <1>1, <1>3 DEF Init

LEMMA BasicInvInit ==
    ASSUME BillingConstants, Init
    PROVE  BasicInv
  <1>0. /\ acked = 1..Len(events) /\ Len(events) <= MaxEvents /\ Len(events) \in Nat /\ MaxEvents \in Nat
        /\ MaxFaults \in Nat /\ MaxCalls \in Nat /\ FreshRow \in Row /\ IdleHandler \in Handler /\ IdleCaller \in Caller
    BY Beginnings, FreshTypes DEF BillingConstants
  <1>1. /\ opened \in SUBSET Subs
        /\ acked \in SUBSET EventIds
        /\ record \in [EventIds -> {"none", "processed", "failed"}]
        /\ applied \in [EventIds -> Nat]
        /\ handler \in [Handlers -> Handler]
        /\ usage \in [Periods -> [Metrics -> Nat]]
        /\ caller \in [Callers -> Caller]
        /\ faults \in 0..MaxFaults
    BY <1>0 DEF Init, EventIds
  <1>2. calls \in [begun : 0..MaxCalls, answered : [Periods -> [Kinds -> Nat]]]
    BY <1>0 DEF Init
  <1>3. stripe \in [Subs -> Object \cup {None}] /\ events \in Seq(Event) /\ row \in Row /\ StripeInv
    <2>1. CASE events = <<>> /\ events \in Seq(Event) /\ stripe = [s \in Subs |-> None] /\ row = FreshRow
      BY <1>0, <2>1 DEF StripeInv
    <2>2. ASSUME NEW s \in Subs, NEW o \in Object, Begins(s, o)
          PROVE  stripe \in [Subs -> Object \cup {None}] /\ events \in Seq(Event) /\ row \in Row /\ StripeInv
      <3>1. o # None /\ Len(events) = 1 /\ 1..Len(events) = {1}
        BY <2>2, NoneIsNoObject DEF Begins
      <3>2. stripe[s] = o /\ \A t \in Subs \ {s} : stripe[t] = None
        BY <2>2 DEF Begins
      <3>3. StripeInv
        BY <1>0, <2>2, <3>1, <3>2 DEF StripeInv, Begins
      <3> QED BY <2>2, <3>3, SyncedRow DEF Begins
    <2> QED BY <2>1, <2>2, Beginnings
  <1>4. HandlerInv /\ CallerInv
    BY DEF Init, HandlerInv, CallerInv, Informed, Underway, IdleHandler, IdleCaller
  <1> QED BY <1>0, <1>1, <1>2, <1>3, <1>4 DEF BasicInv, TypeOK

LEMMA RowInvInit ==
    ASSUME BillingConstants, Init
    PROVE  OnceInv /\ UnpaidInv /\ UndisturbedInv
  <1>0. TypeOK /\ StripeInv /\ acked = 1..Len(events) /\ Len(events) \in Nat
    BY BasicInvInit, Beginnings DEF BasicInv
  <1>1. \A h \in Handlers : handler[h] = IdleHandler /\ ~Busy(h) /\ ~Holds(h)
    BY DEF Init, Busy, Holds, HoldsEvent, IdleHandler
  <1>2. OnceInv
    BY <1>0, <1>1 DEF OnceInv, Init
  <1>3. UnpaidInv
    <2>1. CASE row = FreshRow
      BY <1>1, <2>1, IdleUnpaid DEF UnpaidInv, FreshRow
    <2>2. ASSUME NEW s \in Subs, NEW o \in Object, Begins(s, o) PROVE UnpaidInv
      <3>1. NoneActive => Inactive(o.status)
        BY <2>2 DEF NoneActive, Begins
      <3>2. row.status = o.status
        BY <2>2 DEF Begins, Synced
      <3> QED BY <1>1, <3>1, <3>2, IdleUnpaid DEF UnpaidInv
    <2> QED BY <2>1, <2>2, Beginnings
  <1>4. AloneInv
    <2>1. \A c \in Callers : ~FoundLapsed(c)
      BY DEF Init, FoundLapsed, IdleCaller
    <2>2. InOrder
      BY <1>0 DEF Init, InOrder
    <2> QED BY <1>1, <2>1, <2>2, IdleFollows DEF AloneInv, OneWriter, LapsedAlone
  <1>5. FollowInv
    <2>1. CASE events = <<>>
      BY <2>1 DEF FollowInv
    <2>2. ASSUME NEW s \in Subs, NEW o \in Object, Begins(s, o) PROVE FollowInv
      <3>1. 1..Len(events) = {1} /\ stripe[s] = o
        BY <2>2 DEF Begins
      <3>2. Newest(1)
        <4>1. Len(events) = 1 /\ 1 \in 1..Len(events) /\ 1..Len(events) = {1}
          BY <2>2 DEF Begins
        <4> QED BY <2>2, <3>1, <4>1 DEF Newest, Begins
      <3>3. Matches(row, 1)
        BY <2>2 DEF Begins, Matches, Agrees, Synced, ACTIVE_SUBSCRIPTION_STATUSES, EndedStatuses
      <3> QED BY <1>1, <3>1, <3>2, <3>3, IdleFollows DEF FollowInv
    <2> QED BY <2>1, <2>2, Beginnings
  <1>6. LiveIsLast
    <2>1. CASE stripe = [s \in Subs |-> None]
      BY <2>1 DEF LiveIsLast, Live
    <2>2. ASSUME NEW s \in Subs, NEW o \in Object, Begins(s, o) PROVE LiveIsLast
      BY <2>2 DEF Begins, LiveIsLast, Live
    <2> QED BY <2>1, <2>2, Beginnings
  <1> QED BY <1>2, <1>3, <1>4, <1>5, <1>6 DEF UndisturbedInv

RowInv == BasicInv /\ OnceInv /\ UnpaidInv /\ UndisturbedInv

\* The row and the events: what Stripe emitted, failed payments among it, what the
\* requests know of it, which of them holds an event, what may be written before a
\* payment or its failure, and what is written while nothing disturbs.
THEOREM RowInvariance == Spec => []RowInv
  <1>1. Init => RowInv
    BY BillingConstants, BasicInvInit, RowInvInit DEF RowInv
  <1>2. RowInv /\ [Next]_vars => RowInv'
    BY BillingConstants, BasicInvNext, OnceInvNext, UnpaidInvNext, UndisturbedInvNext DEF RowInv
  <1> QED BY <1>1, <1>2, PTL DEF Spec

\* Nobody has a paid plan before some subscription was active or a payment has
\* failed, and with events in order, one transaction on the row at a time and no
\* failure the plan is Stripe's once everything is delivered, but for a first payment
\* that failed, which leaves the plan it was for (billing_service.py's webhook,
\* confirmation and sync).
THEOREM PlansFollowStripe == Spec => []PlanFollowsStripe
  <1>1. ASSUME RowInv PROVE NothingBeforePayment
    BY <1>1 DEF RowInv, UnpaidInv, NoneActive, Inactive, NothingBeforePayment, Effective, Lapsed
  <1>2. ASSUME RowInv PROVE UndisturbedPlanFollowsStripe
    <2> SUFFICES ASSUME faults = 0, Len(events) > 0, \A e \in 1..Len(events) : e \in acked
                 PROVE  LET s == events[Len(events)].sub IN
                        \/ Effective(row) = Entitled(stripe[s])
                        \/ FirstPaymentFailed(s) /\ Effective(row) = stripe[s].plan
      BY DEF UndisturbedPlanFollowsStripe
    <2>1. TypeOK /\ FollowInv
      BY <1>2 DEF RowInv, BasicInv, UndisturbedInv
    <2>2. PICK b \in 1..Len(events) : Newest(b)
      BY <2>1 DEF FollowInv
    <2>3. PICK s, o : s = events[Len(events)].sub /\ o = events[b].object
      OBVIOUS
    <2>4. stripe[s] = o /\ s = events[b].sub
      BY <2>1, <2>2, <2>3, NewestSays
    <2>5. CASE Agrees(row, o)
      BY <2>3, <2>4, <2>5 DEF Agrees, Effective, Lapsed, Entitled
    <2>6. CASE Misled(row, b)
      <3>1. FirstPaymentFailed(s)
        BY <2>3, <2>4, <2>6 DEF Misled, FirstPaymentFailed
      <3>2. Effective(row) = row.plan /\ row.plan \in {"audit", o.plan} /\ Entitled(o) = "audit"
        BY <2>3, <2>6 DEF Misled, Effective, Lapsed, Entitled, ACTIVE_SUBSCRIPTION_STATUSES
      <3> QED BY <2>3, <2>4, <3>1, <3>2
    <2> QED BY <2>2, <2>3, <2>5, <2>6, <2>1 DEF FollowInv, Matches
  <1> QED BY <1>1, <1>2, RowInvariance, PTL DEF PlanFollowsStripe

-----------------------------------------------------------------------------
(* Usage.                                                                    *)

LEMMA Products ==
    ASSUME NEW a \in Nat, NEW b \in Nat, NEW t \in Nat
    PROVE  /\ a * t \in Nat
           /\ a <= b => a * t <= b * t
           /\ (a + 1) * t = a * t + t
  OBVIOUS

\* Two sets that differ in one element at most.
LEMMA OneDiffers ==
    ASSUME NEW C, IsFiniteSet(C), NEW A \in SUBSET C, NEW B \in SUBSET C, NEW c \in C,
           \A d \in C \ {c} : d \in A <=> d \in B
    PROVE  /\ Cardinality(A) \in Nat /\ Cardinality(B) \in Nat /\ Cardinality(C) \in Nat
           /\ Cardinality(B) <= Cardinality(C)
           /\ (c \in A <=> c \in B) => Cardinality(B) = Cardinality(A)
           /\ c \in A /\ c \notin B => Cardinality(B) + 1 = Cardinality(A)
           /\ c \notin A /\ c \in B => Cardinality(B) = Cardinality(A) + 1
  <1>1. IsFiniteSet(A) /\ IsFiniteSet(B)
    BY FS_Subset
  <1>2. /\ Cardinality(A) \in Nat /\ Cardinality(B) \in Nat /\ Cardinality(C) \in Nat
        /\ Cardinality(B) <= Cardinality(C)
    BY <1>1, FS_CardinalityType, FS_Subset
  <1>3. (c \in A <=> c \in B) => A = B
    OBVIOUS
  <1>4. ASSUME c \in A, c \notin B PROVE Cardinality(B) + 1 = Cardinality(A)
    <2>1. A = B \cup {c}
      BY <1>4
    <2>2. Cardinality(B \cup {c}) = Cardinality(B) + 1
      BY <1>1, <1>4, FS_AddElement
    <2> QED BY <2>1, <2>2
  <1>5. ASSUME c \notin A, c \in B PROVE Cardinality(B) = Cardinality(A) + 1
    <2>1. B = A \cup {c}
      BY <1>5
    <2>2. Cardinality(A \cup {c}) = Cardinality(A) + 1
      BY <1>1, <1>5, FS_AddElement
    <2> QED BY <2>1, <2>2
  <1> QED BY <1>2, <1>3, <1>4, <1>5

IsBeside(w, p, kind) == w.pc # "idle" /\ w.kind = kind /\ w.read.period = p
IsInHand(w, p, kind) == w.pc = "answered" /\ w.kind = kind /\ w.read.period = p

Becomes(c, v) == caller' = [caller EXCEPT ![c] = v]

\* One call moves on: the others stay where they are counted.
LEMMA CallMoves ==
    ASSUME BillingConstants, TypeOK, NEW c \in Callers, NEW v, Becomes(c, v), NEW p, NEW kind
    PROVE  /\ c \in Beside(p, kind) <=> IsBeside(caller[c], p, kind)
           /\ c \in Beside(p, kind)' <=> IsBeside(v, p, kind)
           /\ c \in InHand(p, kind) <=> IsInHand(caller[c], p, kind)
           /\ c \in InHand(p, kind)' <=> IsInHand(v, p, kind)
           /\ \A d \in Callers \ {c} : /\ d \in Beside(p, kind) <=> d \in Beside(p, kind)'
                                       /\ d \in InHand(p, kind) <=> d \in InHand(p, kind)'
           /\ {Beside(p, kind), Beside(p, kind)', InHand(p, kind), InHand(p, kind)'} \subseteq SUBSET Callers
           /\ IsFiniteSet(Callers)
  <1>1. caller'[c] = v /\ \A d \in Callers \ {c} : caller'[d] = caller[d]
    BY DEF TypeOK, Becomes
  <1> QED BY <1>1 DEF BillingConstants, Beside, InHand, IsBeside, IsInHand

LEMMA CallsBeside ==
    ASSUME BillingConstants, TypeOK, NEW c \in Callers, NEW v, Becomes(c, v), NEW p, NEW kind
    PROVE  /\ Cardinality(Beside(p, kind)) \in Nat /\ Cardinality(Beside(p, kind)') \in Nat
           /\ Cardinality(Callers) \in Nat /\ Cardinality(Beside(p, kind)') <= Cardinality(Callers)
           /\ (IsBeside(caller[c], p, kind) <=> IsBeside(v, p, kind)) =>
                  /\ Cardinality(Beside(p, kind)') = Cardinality(Beside(p, kind))
                  /\ Beside(p, kind)' = Beside(p, kind)
           /\ IsBeside(caller[c], p, kind) /\ ~IsBeside(v, p, kind) =>
                  Cardinality(Beside(p, kind)') + 1 = Cardinality(Beside(p, kind))
  <1>1. PICK A, B : A = Beside(p, kind) /\ B = Beside(p, kind)'
    OBVIOUS
  <1>2. /\ A \in SUBSET Callers /\ B \in SUBSET Callers /\ IsFiniteSet(Callers)
        /\ \A d \in Callers \ {c} : d \in A <=> d \in B
        /\ c \in A <=> IsBeside(caller[c], p, kind)
        /\ c \in B <=> IsBeside(v, p, kind)
    BY <1>1, CallMoves
  <1>3. Cardinality(A) \in Nat /\ Cardinality(B) \in Nat
    BY ONLY <1>2, OneDiffers
  <1>5. c \in A /\ c \notin B => Cardinality(B) + 1 = Cardinality(A)
    BY ONLY <1>2, OneDiffers
  <1>6. Cardinality(Callers) \in Nat /\ Cardinality(B) <= Cardinality(Callers)
    BY ONLY <1>2, FS_Subset, FS_CardinalityType
  <1>4. ASSUME c \in A <=> c \in B PROVE A = B
    <2>1. \A d : d \in A <=> d \in B
      BY ONLY <1>2, <1>4
    <2> QED BY ONLY <2>1
  <1> QED BY <1>1, <1>2, <1>3, <1>4, <1>5, <1>6

LEMMA CallsInHand ==
    ASSUME BillingConstants, TypeOK, NEW c \in Callers, NEW v, Becomes(c, v), NEW p, NEW kind
    PROVE  /\ Cardinality(InHand(p, kind)) \in Nat /\ Cardinality(InHand(p, kind)') \in Nat
           /\ (IsInHand(caller[c], p, kind) <=> IsInHand(v, p, kind)) =>
                  Cardinality(InHand(p, kind)') = Cardinality(InHand(p, kind))
           /\ IsInHand(caller[c], p, kind) /\ ~IsInHand(v, p, kind) =>
                  Cardinality(InHand(p, kind)') + 1 = Cardinality(InHand(p, kind))
           /\ ~IsInHand(caller[c], p, kind) /\ IsInHand(v, p, kind) =>
                  Cardinality(InHand(p, kind)') = Cardinality(InHand(p, kind)) + 1
  <1>1. PICK A, B : A = InHand(p, kind) /\ B = InHand(p, kind)'
    OBVIOUS
  <1>2. /\ A \in SUBSET Callers /\ B \in SUBSET Callers /\ IsFiniteSet(Callers)
        /\ \A d \in Callers \ {c} : d \in A <=> d \in B
        /\ c \in A <=> IsInHand(caller[c], p, kind)
        /\ c \in B <=> IsInHand(v, p, kind)
    BY <1>1, CallMoves
  <1>3. /\ Cardinality(A) \in Nat /\ Cardinality(B) \in Nat
        /\ (c \in A <=> c \in B) => Cardinality(B) = Cardinality(A)
        /\ c \in A /\ c \notin B => Cardinality(B) + 1 = Cardinality(A)
        /\ c \notin A /\ c \in B => Cardinality(B) = Cardinality(A) + 1
    BY ONLY <1>2, OneDiffers
  <1> QED BY <1>1, <1>2, <1>3

\* A call ends without a trace, begins with room, or is recorded.
Dropped(p, kind) ==
    /\ \A m \in Metered(kind) : usage'[p][m] = usage[p][m]
    /\ \/ Beside(p, kind)' = Beside(p, kind)
       \/ Beside(p, kind) # {} /\ Cardinality(Beside(p, kind)') + 1 = Cardinality(Beside(p, kind))
Begun(p, kind) ==
    /\ \A m \in Metered(kind) : usage'[p][m] = usage[p][m]
    /\ \A m \in Metered(kind) : \E q \in Plans : usage[p][m] + 1 <= Limits[q][m]
Recorded(p, kind) ==
    /\ Beside(p, kind) # {} /\ Cardinality(Beside(p, kind)') + 1 = Cardinality(Beside(p, kind))
    /\ usage'[p][Requests(kind)] = usage[p][Requests(kind)] + 1
    /\ kind = "ai" => \E x \in TokenCounts : usage'[p]["ai_tokens"] = usage[p]["ai_tokens"] + x

LEMMA Tally ==
    ASSUME BillingConstants, BasicInv, NEW c \in Callers, CallerStep(c), NEW p \in Periods, NEW kind \in {"ai", "serp"}
    PROVE  Dropped(p, kind) \/ Begun(p, kind) \/ Recorded(p, kind)
  <1> DEFINE w == caller[c]
  <1>0. /\ TypeOK /\ w \in Caller /\ usage \in [Periods -> [Metrics -> Nat]] /\ Metered(kind) \subseteq Metrics
        /\ Underway(w)
    BY DEF BasicInv, TypeOK, Metered, Metrics, CallerInv
  <1>1. ~IsBeside(IdleCaller, p, kind)
    BY DEF IsBeside, IdleCaller
  <1>2. IsBeside(w, p, kind) => Beside(p, kind) # {}
    BY DEF IsBeside, Beside
  <1>3. ASSUME caller' = [caller EXCEPT ![c] = IdleCaller], usage' = usage PROVE Dropped(p, kind)
    <2>0. Becomes(c, IdleCaller)
      BY <1>3 DEF Becomes
    <2>1. /\ ~IsBeside(w, p, kind) => Beside(p, kind)' = Beside(p, kind)
          /\ IsBeside(w, p, kind) => Cardinality(Beside(p, kind)') + 1 = Cardinality(Beside(p, kind))
      BY <1>0, <1>1, <2>0, CallsBeside
    <2> QED BY <1>2, <1>3, <2>1 DEF Dropped
  <1>4. CASE \E k \in Kinds : BeginCall(c, k)
    <2>1. PICK k \in Kinds : BeginCall(c, k)
      BY <1>4
    <2>2. PICK v : v = [IdleCaller EXCEPT !.pc = "calling", !.kind = k, !.read = row]
      OBVIOUS
    <2>3. Becomes(c, v) /\ usage' = usage /\ w.pc = "idle"
      BY <2>1, <2>2 DEF BeginCall, Becomes
    <2>4. IsBeside(v, p, kind) <=> k = kind /\ row.period = p
      BY <2>2 DEF IsBeside, IdleCaller
    <2>5. CASE k = kind /\ row.period = p
      <3>1. \A m \in Metered(kind) : usage[p][m] + 1 <= Limits[Effective(row)][m]
        BY <2>1, <2>5 DEF BeginCall, HasRoom
      <3>2. Effective(row) \in Plans
        BY <1>0 DEF TypeOK, Row, Effective, Plans
      <3> QED BY <2>3, <3>1, <3>2 DEF Begun
    <2>6. CASE ~(k = kind /\ row.period = p)
      <3>1. ~IsBeside(w, p, kind)
        BY <2>3 DEF IsBeside
      <3>2. Beside(p, kind)' = Beside(p, kind)
        BY <1>0, <2>3, <2>4, <2>6, <3>1, CallsBeside
      <3> QED BY <2>3, <3>2 DEF Dropped
    <2> QED BY <2>5, <2>6
  <1>5. CASE ProviderAnswers(c)
    <2>1. PICK t \in TokenCounts : caller' = [caller EXCEPT ![c].pc = "answered", ![c].tokens = t]
      BY <1>5 DEF ProviderAnswers
    <2>2. PICK v : v = [w EXCEPT !.pc = "answered", !.tokens = t]
      OBVIOUS
    <2>3. Becomes(c, v) /\ w.pc = "calling" /\ usage' = usage
      BY <1>0, <1>5, <2>1, <2>2 DEF TypeOK, ProviderAnswers, Becomes
    <2>4. v.pc = "answered" /\ v.kind = w.kind /\ v.read = w.read
      BY <1>0, <2>2 DEF Caller
    <2>5. IsBeside(w, p, kind) <=> IsBeside(v, p, kind)
      BY <2>3, <2>4 DEF IsBeside
    <2>6. Beside(p, kind)' = Beside(p, kind)
      BY <1>0, <2>3, <2>5, CallsBeside
    <2> QED BY <2>3, <2>6 DEF Dropped
  <1>6. CASE RecordCall(c)
    <2>1. /\ Becomes(c, IdleCaller) /\ w.pc = "answered"
          /\ usage' = [usage EXCEPT ![w.read.period] = record_usage(@, w)]
      BY <1>6 DEF RecordCall, Becomes
    <2>2. CASE IsBeside(w, p, kind)
      <3>1. usage'[p] = record_usage(usage[p], w) /\ w.kind = kind
        BY <1>0, <2>1, <2>2 DEF IsBeside
      <3>2. \A m \in Metered(kind) : usage'[p][m] = usage[p][m] + Charge(w, m)
        BY <1>0, <3>1 DEF record_usage
      <3>3. Requests(kind) \in Metered(kind) /\ Charge(w, Requests(kind)) = 1
        BY DEF Requests, Metered, Charge
      <3>4. kind = "ai" => "ai_tokens" \in Metered(kind) /\ Charge(w, "ai_tokens") = w.tokens /\ w.tokens \in TokenCounts
        BY <1>0, <2>1 DEF Metered, Charge, Underway
      <3>5. Beside(p, kind) # {} /\ Cardinality(Beside(p, kind)') + 1 = Cardinality(Beside(p, kind))
        BY <1>0, <1>1, <1>2, <2>1, <2>2, CallsBeside
      <3> QED BY <3>2, <3>3, <3>4, <3>5 DEF Recorded
    <2>3. CASE ~IsBeside(w, p, kind)
      <3>1. \A m \in Metered(kind) : usage'[p][m] = usage[p][m]
        <4>1. CASE w.read.period # p
          BY <1>0, <2>1, <4>1
        <4>2. CASE w.read.period = p /\ w.kind # kind
          <5>1. usage'[p] = record_usage(usage[p], w)
            BY <1>0, <2>1, <4>2
          <5>2. w.kind \in {"ai", "serp"}
            BY <1>0 DEF Caller
          <5>3. \A m \in Metered(kind) : m \notin Metered(w.kind)
            BY <4>2, <5>2 DEF Metered
          <5> QED BY <1>0, <5>1, <5>3 DEF record_usage
        <4> QED BY <2>1, <2>3, <4>1, <4>2 DEF IsBeside
      <3>2. Beside(p, kind)' = Beside(p, kind)
        BY <1>0, <1>1, <2>1, <2>3, CallsBeside
      <3> QED BY <3>1, <3>2 DEF Dropped
    <2> QED BY <2>2, <2>3
  <1>7. CASE ProviderFails(c) \/ CallerDies(c)
    BY <1>3, <1>7 DEF ProviderFails, CallerDies
  <1> QED BY <1>4, <1>5, <1>6, <1>7 DEF CallerStep

\* Any step: the counters and the calls stay, or a call moves.
LEMMA UsageStays ==
    ASSUME BillingConstants, BasicInv, [Next]_vars
    PROVE  \/ UNCHANGED usageVars /\ faults' \in Nat /\ faults' >= faults
           \/ \E c \in Callers : CallerStep(c)
  <1>1. faults \in Nat
    BY DEF BasicInv, TypeOK, BillingConstants
  <1>2. CASE UNCHANGED vars
    BY <1>1, <1>2 DEF vars, usageVars
  <1>3. CASE StripeStep
    BY <1>1, <1>3, StripeSteps DEF BasicInv, Emitted
  <1>4. ASSUME NEW e \in EventIds, DeliverRecorded(e) PROVE UNCHANGED usageVars /\ faults' \in Nat /\ faults' >= faults
    BY <1>1, <1>4 DEF DeliverRecorded
  <1>5. ASSUME NEW h \in Handlers, RequestStep(h) PROVE UNCHANGED usageVars /\ faults' \in Nat /\ faults' >= faults
    BY <1>1, <1>5, RequestSteps DEF FaultsMove
  <1>6. ASSUME NEW h \in Handlers, CommitRow(h) PROVE UNCHANGED usageVars /\ faults' \in Nat /\ faults' >= faults
    BY <1>1, <1>6 DEF CommitRow
  <1> QED BY <1>2, <1>3, <1>4, <1>5, <1>6 DEF Next, StripeStep, RequestStep, CallerStep

LEMMA LargestIsLarge ==
    ASSUME BillingConstants, NEW m \in Metrics, NEW n \in LargestLimit(m)
    PROVE  n \in Nat /\ \A q \in Plans : Limits[q][m] \in Nat /\ Limits[q][m] <= n
  BY DEF BillingConstants, LargestLimit, Largest

\* The numbers of calls are numbers.
LEMMA Counts ==
    ASSUME BillingConstants, NEW p, NEW kind
    PROVE  /\ Cardinality(Beside(p, kind)) \in Nat /\ Cardinality(Beside(p, kind)') \in Nat
           /\ Cardinality(Callers) \in Nat /\ Cardinality(Callers) > 0
           /\ Cardinality(Beside(p, kind)) <= Cardinality(Callers)
           /\ Cardinality(Beside(p, kind)') <= Cardinality(Callers)
  <1>1. IsFiniteSet(Callers) /\ Callers # {}
    BY DEF BillingConstants
  <1>2. PICK A, B : A = Beside(p, kind) /\ B = Beside(p, kind)'
    OBVIOUS
  <1>3. A \subseteq Callers /\ B \subseteq Callers
    BY <1>2 DEF Beside
  <1>4. IsFiniteSet(A) /\ IsFiniteSet(B)
    BY <1>1, <1>3, FS_Subset
  <1>5. Cardinality(A) \in Nat /\ Cardinality(B) \in Nat /\ Cardinality(Callers) \in Nat
    BY <1>1, <1>4, FS_CardinalityType
  <1>6. Cardinality(A) <= Cardinality(Callers) /\ Cardinality(B) <= Cardinality(Callers)
    BY <1>1, <1>3, FS_Subset
  <1>7. Cardinality(Callers) > 0
    BY <1>1, <1>5, FS_EmptySet
  <1> QED BY <1>2, <1>5, <1>6, <1>7

LEMMA RequestsInvNext ==
    ASSUME BillingConstants, BasicInv, RequestsInv, [Next]_vars
    PROVE  RequestsInv'
  <1>1. CASE UNCHANGED usageVars
    BY <1>1 DEF usageVars, RequestsInv, Beside
  <1>2. ASSUME NEW c \in Callers, CallerStep(c) PROVE RequestsInv'
    <2> SUFFICES ASSUME NEW p \in Periods, NEW kind \in {"ai", "serp"}, NEW n \in LargestLimit(Requests(kind))
                 PROVE  usage'[p][Requests(kind)] + Cardinality(Beside(p, kind)') < n + Cardinality(Callers)
      BY DEF RequestsInv
    <2>1. Requests(kind) \in Metrics /\ Requests(kind) \in Metered(kind)
      BY DEF Requests, Metrics, Metered
    <2>2. PICK u, v, B, D, C : /\ u = usage[p][Requests(kind)] /\ v = usage'[p][Requests(kind)]
                               /\ B = Cardinality(Beside(p, kind)) /\ D = Cardinality(Beside(p, kind)')
                               /\ C = Cardinality(Callers)
      OBVIOUS
    <2>3. B \in Nat /\ D \in Nat /\ C \in Nat /\ D <= C
      BY <2>2, Counts
    <2>4. u \in Nat /\ u + B < n + C
      BY <2>1, <2>2 DEF RequestsInv, BasicInv, TypeOK
    <2>5. n \in Nat /\ \A q \in Plans : Limits[q][Requests(kind)] \in Nat /\ Limits[q][Requests(kind)] <= n
      BY <2>1, LargestIsLarge
    <2>6. \/ v = u /\ (D = B \/ D + 1 = B)
          \/ v = u /\ \E q \in Plans : u + 1 <= Limits[q][Requests(kind)]
          \/ v = u + 1 /\ D + 1 = B
      BY <1>2, <2>1, <2>2, Tally DEF Dropped, Begun, Recorded
    <2>7. v + D < n + C
      BY <2>3, <2>4, <2>5, <2>6
    <2> QED BY <2>2, <2>7
  <1> QED BY <1>1, <1>2, UsageStays

\* The tokens of a call are recorded by one that found room for a token.
LEMMA TokensInvNext ==
    ASSUME BillingConstants, BasicInv, TokensInv, [Next]_vars
    PROVE  TokensInv'
  <1>1. CASE UNCHANGED usageVars
    BY <1>1 DEF usageVars, TokensInv, Beside
  <1>2. ASSUME NEW c \in Callers, CallerStep(c) PROVE TokensInv'
    <2> SUFFICES ASSUME NEW p \in Periods, NEW n \in LargestLimit("ai_tokens"), NEW t \in Largest(TokenCounts)
                 PROVE  \/ usage'[p]["ai_tokens"] = 0 /\ Beside(p, "ai")' = {}
                        \/ usage'[p]["ai_tokens"] + Cardinality(Beside(p, "ai")') * t < n + Cardinality(Callers) * t
      BY DEF TokensInv
    <2>1. "ai_tokens" \in Metrics /\ "ai_tokens" \in Metered("ai")
      BY DEF Metrics, Metered
    <2>2. PICK u, v, X, Y, B, D, C : /\ u = usage[p]["ai_tokens"] /\ v = usage'[p]["ai_tokens"]
                                     /\ X = Beside(p, "ai") /\ Y = Beside(p, "ai")'
                                     /\ B = Cardinality(X) /\ D = Cardinality(Y)
                                     /\ C = Cardinality(Callers)
      OBVIOUS
    <2>3. B \in Nat /\ D \in Nat /\ C \in Nat /\ D <= C
      BY <2>2, Counts
    <2>4. u \in Nat /\ ((u = 0 /\ X = {}) \/ u + B * t < n + C * t)
      BY <2>1, <2>2 DEF TokensInv, BasicInv, TypeOK
    <2>5. n \in Nat /\ \A q \in Plans : Limits[q]["ai_tokens"] \in Nat /\ Limits[q]["ai_tokens"] <= n
      BY <2>1, LargestIsLarge
    <2>6. t \in Nat /\ \A x \in TokenCounts : x \in Nat /\ x <= t
      BY DEF BillingConstants, Largest
    <2>7. \/ v = u /\ (Y = X \/ (X # {} /\ D + 1 = B))
          \/ v = u /\ \E q \in Plans : u + 1 <= Limits[q]["ai_tokens"]
          \/ X # {} /\ D + 1 = B /\ \E x \in TokenCounts : v = u + x
      <3>1. Dropped(p, "ai") => v = u /\ (Y = X \/ (X # {} /\ D + 1 = B))
        BY <2>1, <2>2 DEF Dropped
      <3>2. Begun(p, "ai") => v = u /\ \E q \in Plans : u + 1 <= Limits[q]["ai_tokens"]
        BY <2>1, <2>2 DEF Begun
      <3>3. Recorded(p, "ai") => X # {} /\ D + 1 = B /\ \E x \in TokenCounts : v = u + x
        BY <2>2 DEF Recorded
      <3> QED BY <1>2, <3>1, <3>2, <3>3, Tally
    <2>8. PICK b, d, m : b = B * t /\ d = D * t /\ m = C * t
      OBVIOUS
    <2>9. b \in Nat /\ d \in Nat /\ m \in Nat /\ d <= m /\ (D + 1 = B => b = d + t)
      BY <2>3, <2>6, <2>8, Products
    <2>10. (v = 0 /\ Y = {}) \/ v + d < n + m
      <3>1. u \in Nat /\ ((u = 0 /\ X = {}) \/ u + b < n + m)
        BY <2>4, <2>8
      <3>2. CASE v = u /\ Y = X
        <4>1. b = d
          BY <2>2, <2>8, <3>2
        <4>2. CASE u = 0 /\ X = {}
          BY <3>2, <4>2
        <4>3. CASE u + b < n + m
          BY <3>2, <4>1, <4>3
        <4> QED BY <3>1, <4>2, <4>3
      <3>3. CASE v = u /\ X # {} /\ D + 1 = B
        <4>1. u + b < n + m /\ b = d + t
          BY <2>9, <3>1, <3>3
        <4> QED BY <2>5, <2>6, <2>9, <3>1, <3>3, <4>1
      <3>4. CASE v = u /\ \E q \in Plans : u + 1 <= Limits[q]["ai_tokens"]
        <4>1. u + 1 <= n
          BY <2>5, <3>1, <3>4
        <4> QED BY <2>5, <2>9, <3>1, <3>4, <4>1
      <3>5. CASE X # {} /\ D + 1 = B /\ \E x \in TokenCounts : v = u + x
        <4>1. PICK x \in TokenCounts : v = u + x
          BY <3>5
        <4>2. x \in Nat /\ x <= t /\ b = d + t /\ u + b < n + m
          BY <2>6, <2>9, <3>1, <3>5
        <4> QED BY <2>5, <2>6, <2>9, <3>1, <4>1, <4>2
      <3> QED BY <2>7, <3>2, <3>3, <3>4, <3>5
    <2> QED BY <2>2, <2>8, <2>10
  <1> QED BY <1>1, <1>2, UsageStays

\* Answers, counters and what is in hand move together.
LEMMA AnswersNext ==
    ASSUME BillingConstants, BasicInv, AnswersAreMetered, [Next]_vars
    PROVE  AnswersAreMetered'
  <1>0. /\ TypeOK /\ faults \in Nat /\ Kinds \subseteq {"ai", "serp"} /\ IsFiniteSet(Callers) /\ CallsOK
        /\ usage \in [Periods -> [Metrics -> Nat]]
    BY DEF BasicInv, TypeOK, BillingConstants, CallsOK
  <1>1. \A p, kind : Cardinality(InHand(p, kind)) \in Nat
    BY <1>0, FS_Subset, FS_CardinalityType DEF InHand
  <1>2. \A p \in Periods, kind \in Kinds :
            calls.answered[p][kind] \in Nat /\ usage[p][Requests(kind)] \in Nat
    BY <1>0 DEF CallsOK, Requests, Metrics
  <1>3. CASE UNCHANGED usageVars /\ faults' \in Nat /\ faults' >= faults
    <2> SUFFICES ASSUME NEW p \in Periods, NEW kind \in Kinds
                 PROVE  calls'.answered[p][kind] <= usage'[p][Requests(kind)] + Cardinality(InHand(p, kind)') + faults'
      BY DEF AnswersAreMetered
    <2>1. InHand(p, kind)' = InHand(p, kind)
      BY <1>3 DEF usageVars, InHand
    <2>2. PICK a, u, x : /\ a = calls.answered[p][kind] /\ u = usage[p][Requests(kind)]
                         /\ x = Cardinality(InHand(p, kind))
      OBVIOUS
    <2>3. a \in Nat /\ u \in Nat /\ x \in Nat /\ a <= u + x + faults
      <3>1. a \in Nat /\ u \in Nat
        BY <1>2, <2>2
      <3>2. x \in Nat
        BY <1>1, <2>2
      <3>3. a <= u + x + faults
        BY <2>2 DEF AnswersAreMetered
      <3> QED BY <3>1, <3>2, <3>3
    <2>4. PICK f, g : f = faults /\ g = faults'
      OBVIOUS
    <2>5. f \in Nat /\ g \in Nat /\ g >= f
      BY <1>0, <1>3, <2>4
    <2>6. a <= u + x + f
      BY ONLY <2>3, <2>4
    <2>7. a <= u + x + g
      BY ONLY <2>3, <2>5, <2>6
    <2> QED BY <1>3, <2>1, <2>2, <2>4, <2>7 DEF usageVars
  <1>4. ASSUME NEW c \in Callers, CallerStep(c) PROVE AnswersAreMetered'
    <2> DEFINE w == caller[c]
    <2> SUFFICES ASSUME NEW p \in Periods, NEW kind \in Kinds
                 PROVE  calls'.answered[p][kind] <= usage'[p][Requests(kind)] + Cardinality(InHand(p, kind)') + faults'
      BY DEF AnswersAreMetered
    <2>0. /\ w \in Caller /\ Underway(w) /\ ~IsInHand(IdleCaller, p, kind)
          /\ w.pc # "idle" => w.read.period \in Periods /\ w.kind \in Kinds
      <3>1. w \in Caller /\ Underway(w)
        BY <1>0 DEF TypeOK, BasicInv, CallerInv
      <3>2. w.read.period \in Periods
        BY <3>1, RowParts DEF Caller
      <3> QED BY <3>1, <3>2 DEF Underway, IsInHand, IdleCaller
    <2>1. PICK a, b, u, v, x, y, f, g :
              /\ a = calls.answered[p][kind] /\ b = calls'.answered[p][kind]
              /\ u = usage[p][Requests(kind)] /\ v = usage'[p][Requests(kind)]
              /\ x = Cardinality(InHand(p, kind)) /\ y = Cardinality(InHand(p, kind)')
              /\ f = faults /\ g = faults'
      OBVIOUS
    <2>2. a \in Nat /\ u \in Nat /\ x \in Nat /\ f \in Nat /\ a <= u + x + f
      <3>1. a \in Nat /\ u \in Nat /\ f \in Nat
        BY <1>0, <1>2, <2>1
      <3>2. x \in Nat
        BY <1>1, <2>1
      <3>3. a <= u + x + f
        BY <2>1 DEF AnswersAreMetered
      <3> QED BY <3>1, <3>2, <3>3
    <2>3. \E z : Becomes(c, z)
      BY <1>4, CallerSteps DEF Becomes
    <2>4. y \in Nat
      BY <1>0, <2>1, <2>3, CallsInHand
    <2> SUFFICES b <= v + y + g
      BY <2>1
    <2>5. CASE \E k \in Kinds : BeginCall(c, k)
      <3>1. PICK k \in Kinds : BeginCall(c, k)
        BY <2>5
      <3>2. PICK z : z = [IdleCaller EXCEPT !.pc = "calling", !.kind = k, !.read = row]
        OBVIOUS
      <3>3. Becomes(c, z) /\ ~IsInHand(z, p, kind) /\ ~IsInHand(w, p, kind)
        BY <3>1, <3>2 DEF BeginCall, Becomes, IsInHand, IdleCaller
      <3>4. y = x
        BY <1>0, <2>1, <3>3, CallsInHand
      <3>5. b = a /\ v = u
        BY <1>0, <2>1, <3>1 DEF BeginCall, CallsOK
      <3>6. g \in Nat /\ g >= f
        BY <1>0, <2>1, <3>1, FaultOrNot DEF BeginCall, FaultsMove
      <3> QED BY <2>2, <3>4, <3>5, <3>6
    <2>6. CASE ProviderAnswers(c)
      <3>1. PICK t \in TokenCounts : caller' = [caller EXCEPT ![c].pc = "answered", ![c].tokens = t]
        BY <2>6 DEF ProviderAnswers
      <3>2. PICK z : z = [w EXCEPT !.pc = "answered", !.tokens = t]
        OBVIOUS
      <3>3. Becomes(c, z) /\ w.pc = "calling"
        BY <1>0, <2>6, <3>1, <3>2 DEF TypeOK, ProviderAnswers, Becomes
      <3>4. z.pc = "answered" /\ z.kind = w.kind /\ z.read = w.read
        BY <2>0, <3>2 DEF Caller
      <3>5. OneMoreAnswer(w.read.period, w.kind)
        BY <2>6 DEF ProviderAnswers, OneMoreAnswer
      <3>6. w.read.period \in Periods /\ w.kind \in Kinds
        BY <2>0, <3>3
      <3>7. b = IF p = w.read.period /\ kind = w.kind THEN a + 1 ELSE a
        <4>1. PICK r, k : r = w.read.period /\ k = w.kind
          OBVIOUS
        <4>2. r \in Periods /\ k \in Kinds /\ OneMoreAnswer(r, k) /\ CallsOK
          BY <1>0, <3>5, <3>6, <4>1
        <4>3. \A q \in Periods, l \in Kinds :
                  calls'.answered[q][l] = IF q = r /\ l = k THEN calls.answered[q][l] + 1 ELSE calls.answered[q][l]
          BY ONLY <4>2, OneMore
        <4> QED BY <2>1, <4>1, <4>3
      <3>8. /\ ~IsInHand(w, p, kind)
            /\ IsInHand(z, p, kind) <=> (p = w.read.period /\ kind = w.kind)
        BY <3>3, <3>4 DEF IsInHand
      <3>9. y = IF p = w.read.period /\ kind = w.kind THEN x + 1 ELSE x
        BY <1>0, <2>1, <3>3, <3>8, CallsInHand
      <3>10. v = u /\ g = f
        BY <2>1, <2>6 DEF ProviderAnswers
      <3> QED BY <2>2, <3>7, <3>9, <3>10
    <2>7. CASE ProviderFails(c)
      <3>1. Becomes(c, IdleCaller) /\ ~IsInHand(w, p, kind)
        BY <2>7 DEF ProviderFails, Becomes, IsInHand
      <3>2. y = x
        BY <1>0, <2>0, <2>1, <3>1, CallsInHand
      <3>3. b = a /\ v = u /\ g = f
        BY <2>1, <2>7 DEF ProviderFails
      <3> QED BY <2>2, <3>2, <3>3
    <2>8. CASE RecordCall(c)
      <3>1. Becomes(c, IdleCaller) /\ w.pc = "answered"
        BY <2>8 DEF RecordCall, Becomes
      <3>2. IsInHand(w, p, kind) <=> w.kind = kind /\ w.read.period = p
        BY <3>1 DEF IsInHand
      <3>3. IF IsInHand(w, p, kind) THEN y + 1 = x ELSE y = x
        BY <1>0, <2>0, <2>1, <3>1, CallsInHand
      <3>4. b = a /\ g = f
        BY <2>1, <2>8 DEF RecordCall
      <3>5. v = IF w.kind = kind /\ w.read.period = p THEN u + 1 ELSE u
        <4>0. usage' = [usage EXCEPT ![w.read.period] = record_usage(@, w)]
          BY <2>8 DEF RecordCall
        <4>1. CASE w.read.period # p
          BY <1>0, <2>1, <4>0, <4>1
        <4>2. CASE w.read.period = p
          <5>1. usage'[p] = record_usage(usage[p], w)
            BY <1>0, <4>0, <4>2
          <5>2. Requests(kind) \in Metrics /\ (Requests(kind) \in Metered(w.kind) <=> w.kind = kind)
            <6>1. kind \in {"ai", "serp"} /\ w.kind \in {"ai", "serp"}
              BY <1>0, <2>0, <3>1
            <6> QED BY <6>1 DEF Requests, Metrics, Metered
          <5>3. Charge(w, Requests(kind)) = 1
            BY DEF Charge, Requests
          <5> QED BY <2>1, <4>2, <5>1, <5>2, <5>3 DEF record_usage
        <4> QED BY <4>1, <4>2
      <3> QED BY <2>2, <2>4, <3>2, <3>3, <3>4, <3>5
    <2>9. CASE CallerDies(c)
      <3>1. Becomes(c, IdleCaller)
        BY <2>9 DEF CallerDies, Becomes
      <3>2. y = x \/ y + 1 = x
        BY <1>0, <2>0, <2>1, <3>1, CallsInHand
      <3>3. b = a /\ v = u /\ g = f + 1
        BY <2>1, <2>9 DEF CallerDies, FaultIf
      <3> QED BY <2>2, <2>4, <3>2, <3>3
    <2> QED BY <1>4, <2>5, <2>6, <2>7, <2>8, <2>9 DEF CallerStep
  <1> QED BY <1>3, <1>4, UsageStays

UsageInv == BasicInv /\ RequestsInv /\ TokensInv /\ AnswersAreMetered

LEMMA UsageInvInit ==
    ASSUME BillingConstants, Init
    PROVE  UsageInv
  <1>1. BasicInv
    BY BasicInvInit
  <1>2. /\ \A p \in Periods, m \in Metrics : usage[p][m] = 0
        /\ \A c \in Callers : caller[c].pc = "idle"
        /\ \A p \in Periods, k \in Kinds : calls.answered[p][k] = 0
        /\ faults = 0
    BY DEF Init, IdleCaller
  <1>3. \A p, kind : Beside(p, kind) = {} /\ InHand(p, kind) = {}
    BY <1>2 DEF Beside, InHand
  <1>4. Cardinality({}) = 0 /\ Cardinality(Callers) \in Nat /\ Cardinality(Callers) > 0
    BY FS_EmptySet, Counts
  <1>5. \A kind : Requests(kind) \in Metrics
    BY DEF Requests, Metrics
  <1>6. RequestsInv
    <2> SUFFICES ASSUME NEW p \in Periods, NEW kind \in {"ai", "serp"}, NEW n \in LargestLimit(Requests(kind))
                 PROVE  usage[p][Requests(kind)] + Cardinality(Beside(p, kind)) < n + Cardinality(Callers)
      BY DEF RequestsInv
    <2>1. usage[p][Requests(kind)] = 0 /\ Cardinality(Beside(p, kind)) = 0
      BY <1>2, <1>3, <1>4, <1>5
    <2>2. n \in Nat
      BY <1>5, LargestIsLarge
    <2> QED BY <1>4, <2>1, <2>2
  <1>7. TokensInv
    BY <1>2, <1>3 DEF TokensInv, Metrics
  <1>8. AnswersAreMetered
    <2> SUFFICES ASSUME NEW p \in Periods, NEW kind \in Kinds
                 PROVE  calls.answered[p][kind] <= usage[p][Requests(kind)] + Cardinality(InHand(p, kind)) + faults
      BY DEF AnswersAreMetered
    <2>1. /\ calls.answered[p][kind] = 0 /\ usage[p][Requests(kind)] = 0
          /\ Cardinality(InHand(p, kind)) = 0 /\ faults = 0
      BY <1>2, <1>3, <1>4, <1>5
    <2> QED BY <2>1
  <1> QED BY <1>1, <1>6, <1>7, <1>8 DEF UsageInv

\* Usage: the calls in progress have each found room, and every answer of a
\* provider is counted, in hand or lost with a process.
THEOREM UsageInvariance == Spec => []UsageInv
  <1>1. Init => UsageInv
    BY BillingConstants, UsageInvInit
  <1>2. UsageInv /\ [Next]_vars => UsageInv'
    BY BillingConstants, BasicInvNext, RequestsInvNext, TokensInvNext, AnswersNext DEF UsageInv
  <1> QED BY <1>1, <1>2, PTL DEF Spec

\* The counters pass the largest limit by the calls that run beside one another
\* at most, whatever the limits, the callers and the tokens are.
LEMMA OvershootFollows ==
    ASSUME BillingConstants, UsageInv
    PROVE  OvershootIsBounded
  <1>1. ASSUME NEW p \in Periods, NEW m \in {"ai_requests", "serp_queries"}, NEW n \in LargestLimit(m)
        PROVE  usage[p][m] < n + Cardinality(Callers)
    <2>1. PICK kind \in {"ai", "serp"} : m = Requests(kind)
      BY DEF Requests
    <2>2. m \in Metrics
      BY DEF Metrics
    <2>3. PICK u, B, C : u = usage[p][m] /\ B = Cardinality(Beside(p, kind)) /\ C = Cardinality(Callers)
      OBVIOUS
    <2>4. u \in Nat /\ n \in Nat
      BY <2>2, <2>3, LargestIsLarge DEF UsageInv, BasicInv, TypeOK
    <2>5. B \in Nat /\ C \in Nat
      BY <2>3, Counts
    <2>6. u + B < n + C
      BY <2>1, <2>3 DEF UsageInv, RequestsInv
    <2>7. u < n + C
      BY <2>4, <2>5, <2>6
    <2> QED BY <2>3, <2>7
  <1>2. ASSUME NEW p \in Periods, usage[p]["ai_tokens"] > 0,
               NEW n \in LargestLimit("ai_tokens"), NEW t \in Largest(TokenCounts)
        PROVE  usage[p]["ai_tokens"] < n + Cardinality(Callers) * t
    <2>1. "ai_tokens" \in Metrics
      BY DEF Metrics
    <2>2. PICK u, B, C : u = usage[p]["ai_tokens"] /\ B = Cardinality(Beside(p, "ai")) /\ C = Cardinality(Callers)
      OBVIOUS
    <2>3. u \in Nat /\ n \in Nat /\ t \in Nat
      BY <2>1, <2>2, LargestIsLarge DEF UsageInv, BasicInv, TypeOK, BillingConstants, Largest
    <2>4. B \in Nat /\ C \in Nat
      BY <2>2, Counts
    <2>5. u + B * t < n + C * t
      <3>1. u # 0
        BY <1>2, <2>2, <2>3
      <3> QED BY <2>2, <3>1 DEF UsageInv, TokensInv
    <2>6. PICK b, m : b = B * t /\ m = C * t
      OBVIOUS
    <2>7. b \in Nat /\ m \in Nat
      BY <2>3, <2>4, <2>6, Products
    <2>8. u < n + m
      BY <2>3, <2>5, <2>6, <2>7
    <2> QED BY <2>2, <2>6, <2>8
  <1> QED BY <1>1, <1>2 DEF OvershootIsBounded

\* Events are applied once and recorded before Stripe is told to stop, usage
\* passes the limits by what runs at the same time at most, and no answer of a
\* provider goes unmetered without a crash.
THEOREM BillingIsSafe == Spec => []BillingInv
  <1>1. ASSUME RowInv PROVE TypeOK /\ EventsApplyOnce /\ AckedEventsAreRecorded
    <2>1. TypeOK /\ OnceInv
      BY <1>1 DEF RowInv, BasicInv
    <2>2. EventsApplyOnce
      BY <2>1 DEF OnceInv, EventsApplyOnce
    <2> QED BY <2>1, <2>2 DEF OnceInv, AckedEventsAreRecorded
  <1>2. ASSUME UsageInv PROVE OvershootIsBounded /\ AnswersAreMetered
    BY <1>2, BillingConstants, OvershootFollows DEF UsageInv
  <1> QED BY <1>1, <1>2, RowInvariance, UsageInvariance, PTL DEF BillingInv
=============================================================================
