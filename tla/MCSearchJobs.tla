---------------------------- MODULE MCSearchJobs ----------------------------
(*****************************************************************************)
(* The connection alone, with requests that cross; or syncs, beside a        *)
(* connection whose property is chosen, changed and given up; or             *)
(* inspections, which look at the connection once: side says which, as the   *)
(* sum of the three is all a run needs.                                      *)
(*****************************************************************************)
EXTENDS SearchJobs

CONSTANT Clerk  \* the request that changes the connection beside the jobs

VARIABLE side

mcVars == <<searchVars, side>>

Configured(p) == [NotConnected EXCEPT !.status = "configured", !.tokens = TRUE, !.property = p]

Init ==
    /\ side \in Kinds \cup {"connection"}
    /\ \/ SearchInit /\ side = "connection"
       \/ /\ side # "connection"
          /\ conn \in {Configured(p) : p \in Covering}
          /\ started = 0 /\ call = [c \in Calls |-> NoCall] /\ interruptions = 0
          /\ JobInit

BesideJobs ==
    \/ disconnect_google_data
    \/ list_google_properties(Clerk) \/ select_google_data_properties(Clerk)
    \/ _access_token(Clerk) \/ \E c \in Calls : CallFails(c)

Next ==
    /\ side' = side
    /\ \/ side = "connection" /\ ConnectionNext /\ UNCHANGED jobVars
       \/ side # "connection" /\ JobNext(side)
       \/ side = "sync" /\ BesideJobs /\ UNCHANGED jobVars

Spec == Init /\ [][Next]_mcVars /\ SearchFairness
=============================================================================
