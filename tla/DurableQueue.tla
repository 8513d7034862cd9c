--------------------------- MODULE DurableQueue ---------------------------
(*****************************************************************************)
(* What a database-backed job queue of the backend promises, with nothing of *)
(* how it is done: a task waits, is leased by one worker at a time, and is   *)
(* done.  "Done" absorbs, a lease ends in one outcome, and the attempts a    *)
(* task may use are bounded.  GovernedExecution implements this module.      *)
(*****************************************************************************)
EXTENDS Naturals

CONSTANTS Tasks,    \* identities a task may have
          Holders,  \* workers that may hold a lease
          None,     \* no holder
          Budget    \* attempts a task may use, at least one

VARIABLES phase,    \* absent | waiting | leased | done, per task
          holder,   \* who holds the lease of a leased task
          used      \* attempts recorded so far, per task

qvars == <<phase, holder, used>>

QTypeOK ==
    /\ phase \in [Tasks -> {"absent", "waiting", "leased", "done"}]
    /\ holder \in [Tasks -> Holders \cup {None}]
    /\ used \in [Tasks -> 0..Budget]

QInit ==
    /\ phase = [t \in Tasks |-> "absent"]
    /\ holder = [t \in Tasks |-> None]
    /\ used = [t \in Tasks |-> 0]

\* A task enters the queue.
Submit(t) ==
    /\ phase[t] = "absent"
    /\ phase' = [phase EXCEPT ![t] = "waiting"]
    /\ UNCHANGED <<holder, used>>

\* A worker takes a waiting task that still has an attempt to use.
Lease(t, w) ==
    /\ phase[t] = "waiting"
    /\ used[t] < Budget
    /\ phase' = [phase EXCEPT ![t] = "leased"]
    /\ holder' = [holder EXCEPT ![t] = w]
    /\ UNCHANGED used

\* Leases of the tasks S expired: they wait again, and no attempt was used.
Reclaim(S) ==
    /\ S # {}
    /\ \A t \in S : phase[t] = "leased"
    /\ phase' = [t \in Tasks |-> IF t \in S THEN "waiting" ELSE phase[t]]
    /\ holder' = [t \in Tasks |-> IF t \in S THEN None ELSE holder[t]]
    /\ UNCHANGED used

\* The holder reports: one attempt is used, and the task waits for another or
\* is done.  A task that is done may put follow-up tasks in the queue.
Settle(t, followUps) ==
    /\ phase[t] = "leased"
    /\ used' = [used EXCEPT ![t] = @ + 1]
    /\ holder' = [holder EXCEPT ![t] = None]
    /\ \A f \in followUps : phase[f] = "absent"
    /\ \/ /\ used[t] + 1 < Budget
          /\ followUps = {}
          /\ phase' = [phase EXCEPT ![t] = "waiting"]
       \/ /\ used[t] + 1 <= Budget
          /\ phase' = [u \in Tasks |-> IF u = t THEN "done"
                                       ELSE IF u \in followUps THEN "waiting"
                                       ELSE phase[u]]

\* A user withdraws a task that is not done.
Withdraw(t) ==
    /\ phase[t] \in {"waiting", "leased"}
    /\ phase' = [phase EXCEPT ![t] = "done"]
    /\ holder' = [holder EXCEPT ![t] = None]
    /\ UNCHANGED used

QNext ==
    \/ \E t \in Tasks : Submit(t) \/ Withdraw(t)
    \/ \E t \in Tasks, w \in Holders : Lease(t, w)
    \/ \E S \in SUBSET Tasks : Reclaim(S)
    \/ \E t \in Tasks, F \in SUBSET Tasks : Settle(t, F)

QSpec == QInit /\ [][QNext]_qvars
=============================================================================
