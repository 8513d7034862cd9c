-------------------------- MODULE GoogleConnection --------------------------
(*****************************************************************************)
(* The connection of a workspace to Google's data, one row: authorization,   *)
(* choice of a Search Console property, the baseline and disconnecting, of   *)
(* google_data_service.py, google_baseline_service.py and                    *)
(* routers/google_data.py.  A request reads the row, waits for Google, and   *)
(* then writes the columns that differ from what it read.                    *)
(*****************************************************************************)
EXTENDS Integers, FiniteSets

CONSTANTS
    Properties,       \* Search Console properties that the account has
    Calls,            \* requests that run at the same time
    Null,
    MaxStates,        \* bound: authorizations ever started
    MaxInterruptions  \* bound: requests that cross another one, or a job

ASSUME ConnectionConstants ==
    /\ Null \notin Properties
    /\ {MaxStates, MaxInterruptions} \subseteq Nat

VARIABLES
    conn,           \* google_data_connections
    started,        \* authorizations started so far: the last OAuth state
    call,           \* requests in progress, each with the row as it read it
    interruptions   \* how often a request crossed another one, or a job

connectionVars == <<conn, started, call, interruptions>>
-----------------------------------------------------------------------------
GoogleDataConnection ==
    [status : {"not_connected", "connected", "configured", "expired", "error"},
     tokens : BOOLEAN, state : 0..MaxStates, property : Properties \cup {Null},
     baseline : {"not_started", "ready", "partial", "failed"}, summary : Properties \cup {Null}]

NotConnected ==
    [status |-> "not_connected", tokens |-> FALSE, state |-> 0, property |-> Null,
     baseline |-> "not_started", summary |-> Null]

NoCall == [pc |-> "idle", read |-> NotConnected]

ConnectionInit ==
    /\ conn = NotConnected
    /\ started = 0
    /\ call = [c \in Calls |-> NoCall]
    /\ interruptions = 0

\* An UPDATE names the columns that differ from what was read; a new ciphertext
\* of tokens always does.
Update(read, new, encrypted) ==
    conn' = [f \in DOMAIN new |-> IF new[f] # read[f] \/ (encrypted /\ f = "tokens") THEN new[f] ELSE conn[f]]

Crosses(others) ==
    LET crossed == \E c \in others : call[c].pc # "idle" IN
    /\ crossed => interruptions < MaxInterruptions
    /\ interruptions' = IF crossed THEN interruptions + 1 ELSE interruptions

Calling(c, pc) ==
    /\ call[c].pc = "idle"
    /\ Crosses(Calls \ {c})
    /\ call' = [call EXCEPT ![c] = [pc |-> pc, read |-> conn]]
    /\ UNCHANGED <<conn, started>>

Returns(c) == call' = [call EXCEPT ![c] = NoCall] /\ UNCHANGED <<started, interruptions>>

\* Google refuses or fails, or the process dies.
CallFails(c) == call[c].pc # "idle" /\ Returns(c) /\ UNCHANGED conn
-----------------------------------------------------------------------------
\* Authorization.

start_google_oauth ==
    /\ started < MaxStates
    /\ started' = started + 1
    /\ conn' = [conn EXCEPT !.state = started']
    /\ Crosses(Calls)
    /\ UNCHANGED call

\* The callback finds the row by its state, which has ten minutes.
google_data_callback(c) == conn.state # 0 /\ Calling(c, "exchange")

Authorized(r) ==
    [r EXCEPT !.status = "connected", !.tokens = TRUE, !.state = 0, !.baseline = "not_started", !.summary = Null]

complete_google_oauth(c) ==
    LET r == call[c].read IN
    /\ call[c].pc = "exchange"
    /\ \/ Update(r, Authorized(r), TRUE)
       \/ Update(r, [r EXCEPT !.status = "error", !.state = 0], FALSE)
    /\ Returns(c)

Cleared(r) == NotConnected

disconnect_google_data ==
    /\ Update(conn, Cleared(conn), FALSE)
    /\ Crosses(Calls)
    /\ UNCHANGED <<started, call>>
-----------------------------------------------------------------------------
\* Properties and baseline.

Usable(r) == r.status \in {"connected", "configured"} /\ r.tokens

\* _access_token, when the token is about to expire: new tokens, or none for
\* good.  The row in the session is then as it was written.
_access_token(c) ==
    LET r == call[c].read IN
    /\ call[c].pc \in {"properties", "baseline"}
    /\ \/ /\ Update(r, [r EXCEPT !.tokens = TRUE], TRUE)
          /\ UNCHANGED <<started, call, interruptions>>
       \/ Update(r, [r EXCEPT !.status = "expired"], FALSE) /\ Returns(c)

list_google_properties(c) == Usable(conn) /\ Calling(c, "properties")

Chosen(r, p) ==
    [r EXCEPT !.status = "configured", !.property = p, !.baseline = "not_started", !.summary = Null]

\* A Search Console property that the account has, or Analytics alone.
select_google_data_properties(c) ==
    /\ call[c].pc = "properties"
    /\ \E p \in Properties \cup {Null} : Update(call[c].read, Chosen(call[c].read, p), FALSE)
    /\ Returns(c)

sync_google_data(c) == Usable(conn) /\ Calling(c, "baseline")

\* What the sources that answered say of the property that was read.
sync_google_baseline(c) ==
    LET r == call[c].read IN
    /\ call[c].pc = "baseline"
    /\ \E result \in {<<"ready", r.property>>, <<"partial", r.property>>, <<"partial", Null>>, <<"failed", Null>>} :
          Update(r, [r EXCEPT !.baseline = result[1], !.summary = result[2]], FALSE)
    /\ Returns(c)
-----------------------------------------------------------------------------
ConnectionNext ==
    \/ start_google_oauth \/ disconnect_google_data
    \/ \E c \in Calls :
          \/ google_data_callback(c) \/ complete_google_oauth(c)
          \/ list_google_properties(c) \/ select_google_data_properties(c)
          \/ sync_google_data(c) \/ sync_google_baseline(c)
          \/ _access_token(c) \/ CallFails(c)
-----------------------------------------------------------------------------
\* Properties.

ConnectionTypeOK ==
    /\ conn \in GoogleDataConnection
    /\ started \in 0..MaxStates
    /\ \A c \in Calls : call[c].pc \in {"idle", "exchange", "properties", "baseline", "sync", "inspection"}
                        /\ call[c].read \in GoogleDataConnection
    /\ interruptions \in 0..MaxInterruptions

\* A workspace that disconnected leaves neither tokens nor a property behind,
\* unless a request that was waiting for Google at the time writes them back.
DisconnectedForgets ==
    conn.status = "not_connected" /\ interruptions = 0 => ~conn.tokens /\ conn.property = Null

\* The baseline shown is that of the chosen property, however the property was
\* changed, unless the change came while the baseline was being fetched.
BaselineIsOfTheProperty ==
    conn.summary # Null /\ interruptions = 0 => conn.summary = conn.property /\ conn.baseline # "not_started"
=============================================================================
