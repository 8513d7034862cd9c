---------------------------- MODULE SearchProofs ----------------------------
(*****************************************************************************)
(* Proofs about what is done with Search Console.                            *)
(*                                                                           *)
(* GoogleConnection and SearchJobs: that the connection and the jobs agree   *)
(* on the property and on what was done (SearchInv), that only the holder of *)
(* a lease writes metrics (MetricsAreTheHolders), and that the jobs are the  *)
(* tasks of a durable queue (JobsAreQueued), for any number of requests,     *)
(* workers, properties, jobs and URLs, while syncs and inspections run       *)
(* beside everything that happens to the connection.                         *)
(*                                                                           *)
(* Opportunities: that reconcilers and users leave one another's work alone  *)
(* (OpportunitySafety), for any opportunities, reconcilers and versions.     *)
(*                                                                           *)
(* SearchSignals: that both detectors find the same and that the outcome of  *)
(* an action never gets worse with more clicks (SignalInv), for any metrics. *)
(*                                                                           *)
(* Measurements: that the cursor over synced ranges finds what covers every  *)
(* day (CoverageIsEveryDay), and that what is measured is a fair comparison  *)
(* (MeasurementInv), for windows, days, syncs and refreshers without bound.  *)
(*****************************************************************************)
EXTENDS SearchJobs, Opportunities, SearchSignals, Measurements, FiniteSetTheorems, WellFoundedInduction, TLAPS

SearchSpec == SearchInit /\ [][SearchNext]_searchVars

CallState ==
    [pc : {"idle", "exchange", "properties", "baseline", "sync", "inspection"}, read : GoogleDataConnection]

ConnTypes ==
    /\ conn \in GoogleDataConnection
    /\ started \in 0..MaxStates
    /\ call \in [Calls -> CallState]
    /\ interruptions \in 0..MaxInterruptions

\* The row in order: who is not connected has left nothing behind, and a baseline
\* is that of the property.
InOrder ==
    /\ conn.status = "not_connected" => ~conn.tokens /\ conn.property = Null
    /\ conn.summary # Null => conn.summary = conn.property /\ conn.baseline # "not_started"

\* The row is as a request has read it, but for tokens that expired since.
AsRead(r) ==
    /\ conn.status \in {r.status, "expired"}
    /\ conn.tokens = r.tokens /\ conn.property = r.property
    /\ conn.baseline = r.baseline /\ conn.summary = r.summary

\* While no request has crossed another one or a job, there is one request.
Undisturbed ==
    /\ InOrder
    /\ \A c, d \in Calls : call[c].pc # "idle" /\ call[d].pc # "idle" => c = d
    /\ \A c \in Calls : call[c].pc # "idle" => AsRead(call[c].read)
    /\ \A c \in Calls : call[c].pc \in {"properties", "baseline"} => Usable(call[c].read)

ConnIInv == ConnTypes /\ (interruptions = 0 => Undisturbed)

WorkState ==
    [pc : {"idle", "claimed", "renewing", "working", "writing"}, job : 0..MaxJobs, attempt : Nat, done : 0..Urls]

JobTypes ==
    /\ job \in [JobIds -> JobQueue \cup {Null}]
    /\ worker \in [Workers -> [Kinds -> WorkState]]
    /\ metrics \in Properties \cup {Null}
    /\ inspected \in [JobIds -> SUBSET (1..Urls)]
    /\ lost \in Nat

ActiveRow(r) == r.status \in ACTIVE_STATUSES

\* A row has attempts left while it waits, and the one that runs is its last.
RowOK(r) ==
    /\ r.status \in {"queued", "retry_wait"} => Len(r.attempts) < MaxAttempts
    /\ r.status = "running" => Len(r.attempts) > 0
    /\ Len(r.attempts) <= MaxAttempts

\* The results of an inspection reach as far as its progress.
ProgressOK(r, results) ==
    r.kind = "inspection" =>
        /\ 1..r.processed \subseteq results
        /\ r.status = "completed" => results = 1..Urls

RowsOK == \A j \in JobIds : job[j] # Null => RowOK(job[j]) /\ ProgressOK(job[j], inspected[j])

\* A worker at work has a job of its kind, whose attempt it may outlive, and as
\* many results as it says.
AtWork(s, k) ==
    /\ s.job \in Jobs(k)
    /\ s.pc # "claimed" => s.attempt \in 1..Len(job[s.job].attempts)
    /\ s.pc = "writing" => k = "sync"
    /\ k = "inspection" => 1..s.done \subseteq inspected[s.job]

WorkersOK == \A w \in Workers, k \in Kinds : worker[w][k].pc # "idle" => AtWork(worker[w][k], k)

OneActive == \A i, j \in JobIds :
    job[i] # Null /\ job[j] # Null /\ job[i].kind = job[j].kind /\ ActiveRow(job[i]) /\ ActiveRow(job[j]) => i = j

\* The lock of the site: who enqueues is alone, and no job is active.
Enqueuing ==
    /\ \A c, d \in Calls : call[c].pc \in Kinds /\ call[d].pc \in Kinds => c = d
    /\ \A c \in Calls : call[c].pc \in Kinds =>
          /\ call[c].read.property \in Covering
          /\ \A j \in Jobs(call[c].pc) : ~ActiveRow(job[j])

\* Until a lease is lost, whoever works holds it, renewed or under the lock of
\* the row, and only the last attempt of a running job is open.
Leased(w, s) ==
    /\ Holds(w, s.job) /\ (job[s.job].live \/ s.pc = "writing")
    /\ s.pc # "claimed" => s.attempt = Len(job[s.job].attempts)
LastOpen(r) == \A n \in DOMAIN r.attempts : r.attempts[n] = "running" => r.status = "running" /\ n = Len(r.attempts)

NothingLost ==
    /\ \A w \in Workers, k \in Kinds : worker[w][k].pc # "idle" => Leased(w, worker[w][k])
    /\ \A j \in JobIds : job[j] # Null => LastOpen(job[j])

JobIInv ==
    JobTypes /\ RowsOK /\ WorkersOK /\ OneActive /\ Enqueuing /\ (lost = 0 => NothingLost)

SearchIInv == ConnIInv /\ JobIInv
-----------------------------------------------------------------------------
\* The connection.

\* An UPDATE, column by column.
LEMMA Updates ==
    ASSUME ConnTypes, NEW r \in GoogleDataConnection, NEW n \in GoogleDataConnection,
           NEW e \in BOOLEAN, Update(r, n, e)
    PROVE  /\ conn' \in GoogleDataConnection
           /\ conn'.status = IF n.status # r.status THEN n.status ELSE conn.status
           /\ conn'.tokens = IF n.tokens # r.tokens \/ e THEN n.tokens ELSE conn.tokens
           /\ conn'.property = IF n.property # r.property THEN n.property ELSE conn.property
           /\ conn'.baseline = IF n.baseline # r.baseline THEN n.baseline ELSE conn.baseline
           /\ conn'.summary = IF n.summary # r.summary THEN n.summary ELSE conn.summary
  <1>1. DOMAIN n = {"status", "tokens", "state", "property", "baseline", "summary"}
    BY DEF GoogleDataConnection
  <1>2. conn' = [f \in {"status", "tokens", "state", "property", "baseline", "summary"} |->
                    IF n[f] # r[f] \/ (e /\ f = "tokens") THEN n[f] ELSE conn[f]]
    BY <1>1 DEF Update
  <1> QED BY <1>2 DEF ConnTypes, GoogleDataConnection

LEMMA NotConnectedRow == NotConnected \in GoogleDataConnection /\ NoCall \in CallState
  BY ConnectionConstants DEF NotConnected, NoCall, CallState, GoogleDataConnection

LEMMA NoState == MaxStates \in Nat /\ 0 \in 0..MaxStates
  BY ConnectionConstants

\* Who crosses nobody is alone.
LEMMA Uncrossed ==
    ASSUME ConnTypes, NEW O \in SUBSET Calls, Crosses(O)
    PROVE  /\ interruptions' \in 0..MaxInterruptions
           /\ interruptions' = 0 => interruptions = 0 /\ \A c \in O : call[c].pc = "idle"
  BY ConnectionConstants DEF Crosses, ConnTypes

\* When nobody is left who has read the row, it need only be in order.
LEMMA NobodyLeft ==
    ASSUME ConnTypes', interruptions' = 0 => InOrder' /\ \A c \in Calls : call'[c].pc = "idle"
    PROVE  ConnIInv'
  BY DEF ConnIInv, Undisturbed

LEMMA CallReturns ==
    ASSUME ConnIInv, NEW c \in Calls, call[c].pc # "idle", Returns(c),
           conn' \in GoogleDataConnection, Undisturbed => InOrder'
    PROVE  ConnIInv'
  <1>1. ConnTypes'
    BY NotConnectedRow DEF ConnIInv, ConnTypes, Returns
  <1>2. ASSUME interruptions' = 0 PROVE InOrder' /\ \A d \in Calls : call'[d].pc = "idle"
    <2>1. Undisturbed
      BY <1>2 DEF ConnIInv, Returns
    <2>2. InOrder'
      BY <2>1
    <2> QED BY <2>1, <2>2 DEF Undisturbed, ConnIInv, ConnTypes, Returns, NoCall
  <1> QED BY <1>1, <1>2, NobodyLeft

LEMMA CallBegins ==
    ASSUME ConnIInv, NEW c \in Calls,
           NEW pc \in {"exchange", "properties", "baseline", "sync", "inspection"}, Calling(c, pc),
           pc \in {"properties", "baseline"} => Usable(conn)
    PROVE  ConnIInv'
  <1>1. /\ interruptions' \in 0..MaxInterruptions
        /\ interruptions' = 0 => interruptions = 0 /\ \A d \in Calls \ {c} : call[d].pc = "idle"
    BY Uncrossed DEF ConnIInv, Calling
  <1>2. call' = [call EXCEPT ![c] = [pc |-> pc, read |-> conn]] /\ UNCHANGED <<conn, started>>
    BY DEF Calling
  <1>3. ConnTypes'
    BY <1>1, <1>2 DEF ConnIInv, ConnTypes, CallState
  <1>4. ASSUME interruptions' = 0 PROVE Undisturbed'
    <2>1. InOrder /\ \A d \in Calls \ {c} : call'[d].pc = "idle"
      BY <1>1, <1>2, <1>4 DEF ConnIInv, ConnTypes, Undisturbed
    <2>2. call'[c].pc = pc /\ call'[c].read = conn'
      BY <1>2 DEF ConnIInv, ConnTypes
    <2>3. InOrder' /\ AsRead(call[c].read)' /\ (pc \in {"properties", "baseline"} => Usable(call[c].read)')
      BY <1>2, <2>1, <2>2 DEF InOrder, AsRead, Usable
    <2> QED BY <2>1, <2>2, <2>3 DEF Undisturbed
  <1> QED BY <1>3, <1>4 DEF ConnIInv

\* A change of the row beside which nobody calls, or that a caller does not see.
LEMMA RowChangesAlone ==
    ASSUME ConnIInv, conn' \in GoogleDataConnection, started' \in 0..MaxStates, UNCHANGED call, Crosses(Calls),
           Undisturbed => InOrder'
    PROVE  ConnIInv'
  <1>1. /\ interruptions' \in 0..MaxInterruptions
        /\ interruptions' = 0 => interruptions = 0 /\ \A d \in Calls : call[d].pc = "idle"
    BY Uncrossed DEF ConnIInv
  <1>2. ConnTypes'
    BY <1>1 DEF ConnIInv, ConnTypes
  <1> QED BY <1>1, <1>2, NobodyLeft DEF ConnIInv

LEMMA RowStays ==
    ASSUME ConnIInv, conn' \in GoogleDataConnection, UNCHANGED <<started, call>>, interruptions' \in 0..MaxInterruptions,
           interruptions' = 0 =>
               /\ interruptions = 0
               /\ Undisturbed => /\ conn'.status \in {conn.status, "expired"}
                                 /\ conn'.tokens = conn.tokens /\ conn'.property = conn.property
                                 /\ conn'.baseline = conn.baseline /\ conn'.summary = conn.summary
    PROVE  ConnIInv'
  <1>1. ConnTypes'
    BY DEF ConnIInv, ConnTypes
  <1>2. ASSUME interruptions' = 0 PROVE Undisturbed'
    <2>1. /\ Undisturbed /\ conn'.status \in {conn.status, "expired"}
          /\ conn'.tokens = conn.tokens /\ conn'.property = conn.property
          /\ conn'.baseline = conn.baseline /\ conn'.summary = conn.summary
      BY <1>2 DEF ConnIInv
    <2>2. InOrder'
      BY <2>1 DEF Undisturbed, InOrder
    <2>3. ASSUME NEW c \in Calls, call[c].pc # "idle" PROVE AsRead(call[c].read)'
      BY <2>1, <2>3 DEF Undisturbed, AsRead
    <2> QED BY <2>1, <2>2, <2>3 DEF Undisturbed, Usable
  <1> QED BY <1>1, <1>2 DEF ConnIInv
-----------------------------------------------------------------------------
\* Requests keep the connection.

LEMMA StartsAuthorization ==
    ASSUME ConnIInv, start_google_oauth
    PROVE  ConnIInv'
  <1>1. conn' = [conn EXCEPT !.state = started + 1] /\ started + 1 \in 0..MaxStates
    BY ConnectionConstants DEF start_google_oauth, ConnIInv, ConnTypes
  <1>2. /\ conn' \in GoogleDataConnection /\ conn'.status = conn.status /\ conn'.tokens = conn.tokens
        /\ conn'.property = conn.property /\ conn'.baseline = conn.baseline /\ conn'.summary = conn.summary
    BY <1>1 DEF ConnIInv, ConnTypes, GoogleDataConnection
  <1>3. Undisturbed => InOrder'
    BY <1>2 DEF Undisturbed, InOrder
  <1> QED BY <1>1, <1>2, <1>3, RowChangesAlone DEF start_google_oauth

LEMMA Disconnects ==
    ASSUME ConnIInv, disconnect_google_data
    PROVE  ConnIInv'
  <1>1. PICK n : n = NotConnected
    OBVIOUS
  <1>2. /\ conn' \in GoogleDataConnection
        /\ conn'.status = n.status /\ conn'.tokens = n.tokens /\ conn'.property = n.property
        /\ conn'.summary = n.summary
    <2>1. n \in GoogleDataConnection /\ conn \in GoogleDataConnection /\ Update(conn, n, FALSE)
      BY <1>1, NotConnectedRow DEF ConnIInv, ConnTypes, disconnect_google_data, Cleared
    <2> QED BY <2>1, Updates DEF ConnIInv
  <1>3. InOrder'
    BY <1>1, <1>2 DEF InOrder, NotConnected
  <1> QED BY <1>2, <1>3, RowChangesAlone DEF disconnect_google_data, ConnIInv, ConnTypes

\* What a request has read is a row.
LEMMA ReadRow ==
    ASSUME ConnIInv, NEW c \in Calls
    PROVE  call[c] \in CallState /\ call[c].read \in GoogleDataConnection
  BY DEF ConnIInv, ConnTypes, CallState

LEMMA CompletesAuthorization ==
    ASSUME ConnIInv, NEW c \in Calls, complete_google_oauth(c)
    PROVE  ConnIInv'
  <1>1. PICK r \in GoogleDataConnection : r = call[c].read
    BY ReadRow
  <1>2. call[c].pc # "idle" /\ Returns(c)
    BY DEF complete_google_oauth
  <1>3. CASE Update(r, Authorized(r), TRUE)
    <2>1. PICK n : n = Authorized(r)
      OBVIOUS
    <2>2. /\ n \in GoogleDataConnection /\ n.status = "connected" /\ n.tokens /\ n.property = r.property
          /\ n.baseline = "not_started" /\ n.summary = Null
      BY <2>1, NoState DEF Authorized, GoogleDataConnection
    <2>3. /\ conn' \in GoogleDataConnection
          /\ conn'.status = IF n.status # r.status THEN n.status ELSE conn.status
          /\ conn'.summary = IF n.summary # r.summary THEN n.summary ELSE conn.summary
      BY <1>3, <2>1, <2>2, Updates DEF ConnIInv
    <2>4. ASSUME Undisturbed PROVE InOrder'
      <3>1. AsRead(r)
        BY <1>1, <1>2, <2>4 DEF Undisturbed
      <3>2. conn'.status # "not_connected" /\ conn'.summary = Null
        BY <2>2, <2>3, <3>1 DEF AsRead
      <3> QED BY <3>2 DEF InOrder
    <2> QED BY <1>2, <2>3, <2>4, CallReturns
  <1>4. CASE Update(r, [r EXCEPT !.status = "error", !.state = 0], FALSE)
    <2>1. PICK n : n = [r EXCEPT !.status = "error", !.state = 0]
      OBVIOUS
    <2>2. /\ n \in GoogleDataConnection /\ n.status = "error" /\ n.tokens = r.tokens /\ n.property = r.property
          /\ n.baseline = r.baseline /\ n.summary = r.summary
      BY <2>1, NoState DEF GoogleDataConnection
    <2>3. /\ conn' \in GoogleDataConnection
          /\ conn'.status = IF n.status # r.status THEN n.status ELSE conn.status
          /\ conn'.property = IF n.property # r.property THEN n.property ELSE conn.property
          /\ conn'.baseline = IF n.baseline # r.baseline THEN n.baseline ELSE conn.baseline
          /\ conn'.summary = IF n.summary # r.summary THEN n.summary ELSE conn.summary
      BY <1>4, <2>1, <2>2, Updates DEF ConnIInv
    <2>4. ASSUME Undisturbed PROVE InOrder'
      <3>1. AsRead(r) /\ InOrder
        BY <1>1, <1>2, <2>4 DEF Undisturbed
      <3>2. /\ conn'.status # "not_connected" /\ conn'.summary = conn.summary
            /\ conn'.property = conn.property /\ conn'.baseline = conn.baseline
        BY <2>2, <2>3, <3>1 DEF AsRead
      <3> QED BY <3>1, <3>2 DEF InOrder
    <2> QED BY <1>2, <2>3, <2>4, CallReturns
  <1> QED BY <1>1, <1>3, <1>4 DEF complete_google_oauth

LEMMA RenewsToken ==
    ASSUME ConnIInv, NEW c \in Calls, _access_token(c)
    PROVE  ConnIInv'
  <1>1. PICK r \in GoogleDataConnection : r = call[c].read
    BY ReadRow
  <1>2. ASSUME Undisturbed PROVE AsRead(r) /\ Usable(r) /\ InOrder
    BY <1>1, <1>2 DEF Undisturbed, _access_token
  <1>3. CASE Update(r, [r EXCEPT !.tokens = TRUE], TRUE) /\ UNCHANGED <<started, call, interruptions>>
    <2>1. PICK n : n = [r EXCEPT !.tokens = TRUE]
      OBVIOUS
    <2>2. /\ n \in GoogleDataConnection /\ n.status = r.status /\ n.tokens = TRUE /\ n.property = r.property
          /\ n.baseline = r.baseline /\ n.summary = r.summary
      BY <2>1 DEF GoogleDataConnection
    <2>3. /\ conn' \in GoogleDataConnection
          /\ conn'.status = IF n.status # r.status THEN n.status ELSE conn.status
          /\ conn'.tokens = IF n.tokens # r.tokens \/ TRUE THEN n.tokens ELSE conn.tokens
          /\ conn'.property = IF n.property # r.property THEN n.property ELSE conn.property
          /\ conn'.baseline = IF n.baseline # r.baseline THEN n.baseline ELSE conn.baseline
          /\ conn'.summary = IF n.summary # r.summary THEN n.summary ELSE conn.summary
      <3>1. Update(r, n, TRUE)
        BY <1>3, <2>1
      <3> QED BY <2>2, <3>1, Updates DEF ConnIInv
    <2>4. ASSUME Undisturbed
          PROVE  /\ conn'.status = conn.status /\ conn'.tokens = conn.tokens /\ conn'.property = conn.property
                 /\ conn'.baseline = conn.baseline /\ conn'.summary = conn.summary
      <3>1. conn'.tokens = TRUE
        BY <2>2, <2>3
      <3>2. conn.tokens = TRUE
        BY <1>2, <2>4 DEF AsRead, Usable, ConnIInv, ConnTypes, GoogleDataConnection
      <3> QED BY <2>2, <2>3, <3>1, <3>2
    <2> QED BY <1>3, <2>3, <2>4, RowStays DEF ConnIInv, ConnTypes
  <1>4. CASE Update(r, [r EXCEPT !.status = "expired"], FALSE) /\ Returns(c)
    <2>1. PICK n : n = [r EXCEPT !.status = "expired"]
      OBVIOUS
    <2>2. /\ n \in GoogleDataConnection /\ n.status = "expired" /\ n.tokens = r.tokens /\ n.property = r.property
          /\ n.baseline = r.baseline /\ n.summary = r.summary
      BY <2>1 DEF GoogleDataConnection
    <2>3. /\ conn' \in GoogleDataConnection
          /\ conn'.status = IF n.status # r.status THEN n.status ELSE conn.status
          /\ conn'.property = IF n.property # r.property THEN n.property ELSE conn.property
          /\ conn'.baseline = IF n.baseline # r.baseline THEN n.baseline ELSE conn.baseline
          /\ conn'.summary = IF n.summary # r.summary THEN n.summary ELSE conn.summary
      BY <1>4, <2>1, <2>2, Updates DEF ConnIInv
    <2>4. ASSUME Undisturbed PROVE InOrder'
      <3>1. /\ conn'.status # "not_connected" /\ conn'.summary = conn.summary
            /\ conn'.property = conn.property /\ conn'.baseline = conn.baseline
        BY <1>2, <2>2, <2>3, <2>4 DEF AsRead, Usable
      <3> QED BY <1>2, <2>4, <3>1 DEF InOrder
    <2>5. call[c].pc # "idle"
      BY DEF _access_token
    <2> QED BY <1>4, <2>3, <2>4, <2>5, CallReturns
  <1> QED BY <1>1, <1>3, <1>4 DEF _access_token

LEMMA SelectsProperty ==
    ASSUME ConnIInv, NEW c \in Calls, select_google_data_properties(c)
    PROVE  ConnIInv'
  <1>1. PICK r \in GoogleDataConnection : r = call[c].read
    BY ReadRow
  <1>2. PICK p \in Properties \cup {Null} : Update(r, Chosen(r, p), FALSE)
    BY <1>1 DEF select_google_data_properties
  <1>3. PICK n : n = Chosen(r, p)
    OBVIOUS
  <1>4. /\ n \in GoogleDataConnection /\ n.status = "configured" /\ n.tokens = r.tokens /\ n.property = p
        /\ n.baseline = "not_started" /\ n.summary = Null
    BY <1>3 DEF Chosen, GoogleDataConnection
  <1>5. /\ conn' \in GoogleDataConnection
        /\ conn'.status = IF n.status # r.status THEN n.status ELSE conn.status
        /\ conn'.summary = IF n.summary # r.summary THEN n.summary ELSE conn.summary
    BY <1>2, <1>3, <1>4, Updates DEF ConnIInv
  <1>6. call[c].pc # "idle" /\ Returns(c)
    BY DEF select_google_data_properties
  <1>7. ASSUME Undisturbed PROVE InOrder'
    <2>1. AsRead(r)
      BY <1>1, <1>6, <1>7 DEF Undisturbed
    <2>2. conn'.status # "not_connected" /\ conn'.summary = Null
      BY <1>4, <1>5, <2>1 DEF AsRead
    <2> QED BY <2>2 DEF InOrder
  <1> QED BY <1>5, <1>6, <1>7, CallReturns

LEMMA SyncsBaseline ==
    ASSUME ConnIInv, NEW c \in Calls, sync_google_baseline(c)
    PROVE  ConnIInv'
  <1>1. PICK r \in GoogleDataConnection : r = call[c].read
    BY ReadRow
  <1>2. PICK b, y : /\ b \in {"ready", "partial", "failed"} /\ y \in {r.property, Null}
                    /\ Update(r, [r EXCEPT !.baseline = b, !.summary = y], FALSE)
    <2>1. PICK result \in {<<"ready", r.property>>, <<"partial", r.property>>, <<"partial", Null>>, <<"failed", Null>>} :
                 Update(r, [r EXCEPT !.baseline = result[1], !.summary = result[2]], FALSE)
      BY <1>1 DEF sync_google_baseline
    <2>2. PICK b : b = result[1]
      OBVIOUS
    <2>3. PICK y : y = result[2]
      OBVIOUS
    <2>4. b \in {"ready", "partial", "failed"} /\ y \in {r.property, Null}
      BY <2>2, <2>3
    <2> QED BY <2>1, <2>2, <2>3, <2>4
  <1>3. PICK n : n = [r EXCEPT !.baseline = b, !.summary = y]
    OBVIOUS
  <1>4. /\ n \in GoogleDataConnection /\ n.status = r.status /\ n.tokens = r.tokens /\ n.property = r.property
        /\ n.baseline = b /\ n.summary = y
    BY <1>2, <1>3 DEF GoogleDataConnection
  <1>5. /\ conn' \in GoogleDataConnection
        /\ conn'.status = IF n.status # r.status THEN n.status ELSE conn.status
        /\ conn'.property = IF n.property # r.property THEN n.property ELSE conn.property
        /\ conn'.baseline = IF n.baseline # r.baseline THEN n.baseline ELSE conn.baseline
        /\ conn'.summary = IF n.summary # r.summary THEN n.summary ELSE conn.summary
    BY <1>2, <1>3, <1>4, Updates DEF ConnIInv
  <1>6. call[c].pc = "baseline" /\ Returns(c)
    BY DEF sync_google_baseline
  <1>7. ASSUME Undisturbed PROVE InOrder'
    <2>1. AsRead(r) /\ Usable(r)
      BY <1>1, <1>6, <1>7 DEF Undisturbed
    <2>2. /\ conn'.status # "not_connected" /\ conn'.summary \in {r.property, Null}
          /\ conn'.property = r.property /\ conn'.baseline = b
      BY <1>2, <1>4, <1>5, <2>1 DEF AsRead, Usable
    <2> QED BY <1>2, <2>2 DEF InOrder
  <1> QED BY <1>5, <1>6, <1>7, CallReturns

LEMMA CallsFail ==
    ASSUME ConnIInv, NEW c \in Calls, CallFails(c)
    PROVE  ConnIInv'
  <1>1. Undisturbed => InOrder'
    BY DEF Undisturbed, InOrder, CallFails
  <1> QED BY <1>1, CallReturns DEF CallFails, ConnIInv, ConnTypes

LEMMA ConnectionStep ==
    ASSUME ConnIInv, ConnectionNext
    PROVE  ConnIInv'
  <1>1. ASSUME NEW c \in Calls, google_data_callback(c) PROVE ConnIInv'
    BY <1>1, CallBegins DEF google_data_callback
  <1>2. ASSUME NEW c \in Calls, list_google_properties(c) PROVE ConnIInv'
    BY <1>2, CallBegins DEF list_google_properties
  <1>3. ASSUME NEW c \in Calls, sync_google_data(c) PROVE ConnIInv'
    BY <1>3, CallBegins DEF sync_google_data
  <1> QED BY <1>1, <1>2, <1>3, StartsAuthorization, Disconnects, CompletesAuthorization, RenewsToken, SelectsProperty,
       SyncsBaseline, CallsFail
       DEF ConnectionNext
-----------------------------------------------------------------------------
\* What happens to the row of a job.

\* Whatever happens to a row, it stays the job it was, does not become active
\* again and keeps its attempts.
Ages(r, s) ==
    /\ s \in JobQueue /\ s.kind = r.kind /\ s.property = r.property
    /\ ActiveRow(s) => ActiveRow(r)
    /\ Len(r.attempts) <= Len(s.attempts)

\* The end of an attempt m, with a status for the job and one for the attempt.
Ends(r, s, status, m, result) ==
    /\ s \in JobQueue /\ s.kind = r.kind /\ s.property = r.property /\ s.processed = r.processed
    /\ s.status = status /\ s.owner = Null /\ ~s.live
    /\ Len(s.attempts) = Len(r.attempts)
    /\ \A n \in 1..Len(r.attempts) : s.attempts[n] = IF n = m THEN result ELSE r.attempts[n]

LEMMA AttemptEnds ==
    ASSUME NEW r \in JobQueue, NEW m \in 1..Len(r.attempts), NEW result \in {"completed", "failed"}
    PROVE  /\ [r.attempts EXCEPT ![m] = result] \in Seq({"running", "completed", "failed"})
           /\ Len([r.attempts EXCEPT ![m] = result]) = Len(r.attempts)
           /\ \A n \in 1..Len(r.attempts) :
                 [r.attempts EXCEPT ![m] = result][n] = IF n = m THEN result ELSE r.attempts[n]
  <1>1. r.attempts \in Seq({"running", "completed", "failed"})
    BY DEF JobQueue
  <1> QED BY <1>1

LEMMA EndedRow ==
    ASSUME NEW r \in JobQueue, Len(r.attempts) > 0, NEW s, s = Ended(r, "failed")
    PROVE  Ends(r, s, IF Len(r.attempts) < MaxAttempts THEN "retry_wait" ELSE "failed", Len(r.attempts), "failed")
  <1>1. PICK m : m = Len(r.attempts)
    OBVIOUS
  <1>2. r.attempts \in Seq({"running", "completed", "failed"}) /\ m \in 1..Len(r.attempts)
    BY <1>1 DEF JobQueue
  <1>3. PICK a : a = [r.attempts EXCEPT ![m] = "failed"]
    OBVIOUS
  <1>4. /\ a \in Seq({"running", "completed", "failed"}) /\ Len(a) = Len(r.attempts)
        /\ \A n \in 1..Len(r.attempts) : a[n] = IF n = m THEN "failed" ELSE r.attempts[n]
    BY <1>2, <1>3, AttemptEnds
  <1>5. PICK t : t = IF Len(r.attempts) < MaxAttempts THEN "retry_wait" ELSE "failed"
    OBVIOUS
  <1>6. s = [r EXCEPT !.status = t, !.owner = Null, !.live = FALSE, !.attempts = a]
    BY <1>1, <1>3, <1>5 DEF Ended, JobQueue
  <1>7. t \in {"retry_wait", "failed"}
    BY <1>5
  <1>8. /\ s \in JobQueue /\ s.kind = r.kind /\ s.property = r.property /\ s.processed = r.processed
        /\ s.status = t /\ s.owner = Null /\ ~s.live /\ s.attempts = a
    BY <1>4, <1>6, <1>7 DEF JobQueue, ACTIVE_STATUSES
  <1> QED BY <1>1, <1>4, <1>5, <1>8 DEF Ends

LEMMA GivenUpRow ==
    ASSUME NEW r \in JobQueue, Len(r.attempts) > 0, NEW s,
           s = [r EXCEPT !.status = "failed", !.owner = Null, !.live = FALSE, !.attempts[Len(r.attempts)] = "failed"]
    PROVE  Ends(r, s, "failed", Len(r.attempts), "failed")
  <1>1. PICK m : m = Len(r.attempts)
    OBVIOUS
  <1>2. r.attempts \in Seq({"running", "completed", "failed"}) /\ m \in 1..Len(r.attempts)
    BY <1>1 DEF JobQueue
  <1>3. PICK a : a = [r.attempts EXCEPT ![m] = "failed"]
    OBVIOUS
  <1>4. /\ a \in Seq({"running", "completed", "failed"}) /\ Len(a) = Len(r.attempts)
        /\ \A n \in 1..Len(r.attempts) : a[n] = IF n = m THEN "failed" ELSE r.attempts[n]
    BY <1>2, <1>3, AttemptEnds
  <1>5. s = [r EXCEPT !.status = "failed", !.owner = Null, !.live = FALSE, !.attempts = a]
    BY <1>1, <1>3 DEF JobQueue
  <1>6. /\ s \in JobQueue /\ s.kind = r.kind /\ s.property = r.property /\ s.processed = r.processed
        /\ s.status = "failed" /\ s.owner = Null /\ ~s.live /\ s.attempts = a
    BY <1>4, <1>5 DEF JobQueue, ACTIVE_STATUSES
  <1> QED BY <1>1, <1>4, <1>6 DEF Ends

LEMMA CompletedRow ==
    ASSUME NEW r \in JobQueue, NEW m \in 1..Len(r.attempts), NEW s, s = Completed(r, m, r.processed)
    PROVE  Ends(r, s, "completed", m, "completed")
  <1>1. PICK a : a = [r.attempts EXCEPT ![m] = "completed"]
    OBVIOUS
  <1>2. /\ a \in Seq({"running", "completed", "failed"}) /\ Len(a) = Len(r.attempts)
        /\ \A n \in 1..Len(r.attempts) : a[n] = IF n = m THEN "completed" ELSE r.attempts[n]
    BY <1>1, AttemptEnds
  <1>3. s = [r EXCEPT !.status = "completed", !.owner = Null, !.live = FALSE, !.attempts = a]
    BY <1>1 DEF Completed, JobQueue
  <1>4. /\ s \in JobQueue /\ s.kind = r.kind /\ s.property = r.property /\ s.processed = r.processed
        /\ s.status = "completed" /\ s.owner = Null /\ ~s.live /\ s.attempts = a
    BY <1>2, <1>3 DEF JobQueue, ACTIVE_STATUSES
  <1> QED BY <1>2, <1>4 DEF Ends

\* An attempt that ends: the row ages, and is in order if it was.
LEMMA EndsAges ==
    ASSUME NEW r \in JobQueue, NEW s, NEW status, NEW m \in 1..Len(r.attempts), NEW result \in {"completed", "failed"},
           Ends(r, s, status, m, result), RowOK(r),
           \/ status = "retry_wait" /\ ActiveRow(r) /\ Len(r.attempts) < MaxAttempts
           \/ status \in {"completed", "failed"}
    PROVE  Ages(r, s) /\ RowOK(s)
  <1>1. Len(r.attempts) \in Nat /\ Len(s.attempts) = Len(r.attempts)
    BY DEF JobQueue, Ends
  <1> QED BY <1>1 DEF Ends, Ages, RowOK, ActiveRow, ACTIVE_STATUSES

ClaimedBy(r, w) ==
    [r EXCEPT !.status = "running", !.owner = w, !.live = TRUE, !.attempts = Append(r.attempts, "running")]

LEMMA ClaimedRow ==
    ASSUME NEW r \in JobQueue, r.status \in {"queued", "retry_wait"}, RowOK(r), NEW w \in Workers, NEW s,
           s = ClaimedBy(r, w)
    PROVE  /\ Ages(r, s) /\ RowOK(s)
           /\ s.status = "running" /\ s.owner = w /\ s.live /\ s.processed = r.processed
           /\ s.attempts = Append(r.attempts, "running")
           /\ Len(s.attempts) = Len(r.attempts) + 1
  <1>1. r.attempts \in Seq({"running", "completed", "failed"})
    BY DEF JobQueue
  <1>2. PICK a : a = Append(r.attempts, "running")
    OBVIOUS
  <1>3. a \in Seq({"running", "completed", "failed"}) /\ Len(a) = Len(r.attempts) + 1 /\ Len(r.attempts) \in Nat
    BY <1>1, <1>2
  <1>4. s = [r EXCEPT !.status = "running", !.owner = w, !.live = TRUE, !.attempts = a]
    BY <1>2 DEF ClaimedBy
  <1>5. /\ s \in JobQueue /\ s.kind = r.kind /\ s.property = r.property /\ s.processed = r.processed
        /\ s.status = "running" /\ s.owner = w /\ s.live /\ s.attempts = a
    BY <1>3, <1>4 DEF JobQueue, ACTIVE_STATUSES
  <1>6. Len(r.attempts) < MaxAttempts
    BY DEF RowOK
  <1>7. MaxAttempts \in Nat
    BY SearchJobConstants
  <1>8. Ages(r, s)
    BY <1>3, <1>5 DEF Ages, ActiveRow, ACTIVE_STATUSES
  <1>9. RowOK(s)
    BY <1>3, <1>5, <1>6, <1>7 DEF RowOK
  <1> QED BY <1>2, <1>3, <1>5, <1>8, <1>9
-----------------------------------------------------------------------------
\* All rows, and the workers.

RowsAge ==
    /\ job' \in [JobIds -> JobQueue \cup {Null}]
    /\ \A j \in JobIds : job[j] # Null => job'[j] # Null /\ Ages(job[j], job'[j])
NoNewRow == \A j \in JobIds : job[j] = Null => job'[j] = Null

ResultsGrow ==
    /\ inspected' \in [JobIds -> SUBSET (1..Urls)]
    /\ \A j \in JobIds : inspected[j] \subseteq inspected'[j]

\* A worker that was doing something goes on, or has ended, but for w and k.
WorkersBut(w, k) ==
    /\ worker' \in [Workers -> [Kinds -> WorkState]]
    /\ \A v \in Workers, l \in Kinds :
          \/ worker'[v][l] = worker[v][l] \/ worker'[v][l].pc = "idle"
          \/ v = w /\ l = k

LEMMA RowsStay ==
    ASSUME JobTypes, UNCHANGED job
    PROVE  RowsAge /\ NoNewRow
  <1>1. ASSUME NEW j \in JobIds, job[j] # Null PROVE Ages(job[j], job'[j])
    <2>1. job[j] \in JobQueue
      BY <1>1 DEF JobTypes
    <2>2. Len(job[j].attempts) \in Nat
      BY <2>1 DEF JobQueue
    <2> QED BY <2>1, <2>2 DEF Ages
  <1> QED BY <1>1 DEF JobTypes, RowsAge, NoNewRow

LEMMA ARow ==
    ASSUME JobTypes, NEW j \in JobIds, job[j] # Null
    PROVE  job[j] \in JobQueue /\ Len(job[j].attempts) \in Nat
  BY DEF JobTypes, JobQueue

LEMMA OneRowAges ==
    ASSUME JobTypes, NEW j \in JobIds, job[j] # Null, NEW s, job' = [job EXCEPT ![j] = s], Ages(job[j], s)
    PROVE  /\ RowsAge /\ NoNewRow /\ job'[j] = s /\ s # Null
           /\ \A i \in JobIds : i # j => job'[i] = job[i]
  <1>1. s \in JobQueue /\ s # Null
    BY NullIsNoJob DEF Ages
  <1>2. job'[j] = s /\ \A i \in JobIds : i # j => job'[i] = job[i]
    BY DEF JobTypes
  <1>3. ASSUME NEW i \in JobIds, job[i] # Null PROVE job'[i] # Null /\ Ages(job[i], job'[i])
    <2>1. CASE i = j
      BY <1>1, <1>2, <2>1
    <2>2. CASE i # j
      <3>1. job[i] \in JobQueue /\ Len(job[i].attempts) \in Nat
        BY <1>3, ARow
      <3>2. Ages(job[i], job[i])
        BY <3>1 DEF Ages
      <3> QED BY <1>2, <1>3, <2>2, <3>2
    <2> QED BY <2>1, <2>2
  <1>4. job' \in [JobIds -> JobQueue \cup {Null}]
    BY <1>1 DEF JobTypes
  <1> QED BY <1>1, <1>2, <1>3, <1>4 DEF RowsAge, NoNewRow

LEMMA StillOneActive ==
    ASSUME OneActive, RowsAge, NoNewRow
    PROVE  OneActive'
  <1> SUFFICES ASSUME NEW i \in JobIds, NEW j \in JobIds, job'[i] # Null, job'[j] # Null,
                      job'[i].kind = job'[j].kind, ActiveRow(job'[i]), ActiveRow(job'[j])
               PROVE  i = j
    BY DEF OneActive, ActiveRow
  <1>1. /\ job[i] # Null /\ Ages(job[i], job'[i])
        /\ job[j] # Null /\ Ages(job[j], job'[j])
    BY DEF RowsAge, NoNewRow
  <1> QED BY <1>1 DEF OneActive, Ages

\* No request begins to enqueue.
LEMMA StillEnqueuing ==
    ASSUME Enqueuing, RowsAge, NoNewRow, \A c \in Calls : call'[c].pc \in Kinds => call'[c] = call[c]
    PROVE  Enqueuing'
  <1>1. ASSUME NEW c \in Calls, call'[c].pc \in Kinds, NEW j \in JobIds, job'[j] # Null, job'[j].kind = call'[c].pc
        PROVE  ~ActiveRow(job'[j])
    <2>1. call'[c] = call[c]
      BY <1>1
    <2>2. job[j] # Null /\ Ages(job[j], job'[j])
      BY <1>1 DEF RowsAge, NoNewRow
    <2>3. j \in Jobs(call[c].pc) /\ call[c].pc \in Kinds
      BY <1>1, <2>1, <2>2 DEF Jobs, Ages
    <2>4. ~ActiveRow(job[j])
      BY <2>3 DEF Enqueuing
    <2> QED BY <2>2, <2>4 DEF Ages
  <1>2. ASSUME NEW c \in Calls, call'[c].pc \in Kinds PROVE call'[c].read.property \in Covering
    BY <1>2 DEF Enqueuing
  <1>3. ASSUME NEW c \in Calls, NEW d \in Calls, call'[c].pc \in Kinds, call'[d].pc \in Kinds PROVE c = d
    <2>1. call[c].pc \in Kinds /\ call[d].pc \in Kinds
      BY <1>3
    <2> QED BY <2>1 DEF Enqueuing
  <1> QED BY <1>1, <1>2, <1>3 DEF Enqueuing, Jobs, ActiveRow

LEMMA StillAtWork ==
    ASSUME WorkersOK, JobTypes, RowsAge, ResultsGrow, NEW w, NEW k, WorkersBut(w, k),
           w \in Workers /\ k \in Kinds /\ worker'[w][k].pc # "idle" => AtWork(worker[w][k], k)'
    PROVE  WorkersOK'
  <1> SUFFICES ASSUME NEW v \in Workers, NEW l \in Kinds, worker'[v][l].pc # "idle"
               PROVE  AtWork(worker[v][l], l)'
    BY DEF WorkersOK
  <1>1. CASE v = w /\ l = k
    BY <1>1
  <1>2. CASE worker'[v][l] = worker[v][l]
    <2>1. PICK s : s = worker[v][l]
      OBVIOUS
    <2>2. AtWork(s, l)
      BY <1>2, <2>1 DEF WorkersOK
    <2>3. s.job \in JobIds /\ job[s.job] # Null /\ job[s.job].kind = l
      BY <2>2 DEF AtWork, Jobs
    <2>4. job'[s.job] # Null /\ Ages(job[s.job], job'[s.job])
      BY <2>3 DEF RowsAge
    <2>5. Len(job[s.job].attempts) \in Nat
      BY <2>3, ARow
    <2>6. Len(job'[s.job].attempts) \in Nat
      BY <2>4 DEF Ages, JobQueue
    <2>7. s.pc # "claimed" => s.attempt \in 1..Len(job'[s.job].attempts)
      BY <2>2, <2>4, <2>5, <2>6 DEF AtWork, Ages
    <2>8. l = "inspection" => 1..s.done \subseteq inspected'[s.job]
      BY <2>2, <2>3 DEF AtWork, ResultsGrow
    <2>9. s.job \in Jobs(l)'
      BY <2>3, <2>4 DEF Jobs, Ages, JobIds
    <2> QED BY <1>2, <2>1, <2>2, <2>7, <2>8, <2>9 DEF AtWork
  <1> QED BY <1>1, <1>2 DEF WorkersBut

LEMMA StillRowsOK ==
    ASSUME RowsOK, ResultsGrow, NEW j, \A i \in JobIds : i # j => job'[i] = job[i],
           j \in JobIds /\ job'[j] # Null => RowOK(job'[j]) /\ ProgressOK(job'[j], inspected'[j])
    PROVE  RowsOK'
  <1> SUFFICES ASSUME NEW i \in JobIds, job'[i] # Null
               PROVE  RowOK(job'[i]) /\ ProgressOK(job'[i], inspected'[i])
    BY DEF RowsOK, RowOK, ProgressOK
  <1>1. CASE i = j
    BY <1>1
  <1>2. CASE i # j
    <2>1. PICK r : r = job[i]
      OBVIOUS
    <2>2. job'[i] = r /\ r # Null
      BY <1>2, <2>1
    <2>3. RowOK(r) /\ ProgressOK(r, inspected[i])
      BY <2>1, <2>2 DEF RowsOK
    <2>4. inspected[i] \subseteq inspected'[i] /\ inspected'[i] \subseteq 1..Urls
      BY DEF ResultsGrow
    <2>5. ProgressOK(r, inspected'[i])
      BY <2>3, <2>4 DEF ProgressOK
    <2> QED BY <2>2, <2>3, <2>5
  <1> QED BY <1>1, <1>2

LEMMA StillLeased ==
    ASSUME NothingLost, WorkersOK, NEW j, NEW w, NEW k, WorkersBut(w, k),
           \A i \in JobIds : i # j => job'[i] = job[i],
           j \in JobIds /\ job'[j] # Null => LastOpen(job'[j]),
           \A v \in Workers, l \in Kinds :
              worker[v][l].pc # "idle" /\ worker[v][l].job = j /\ worker'[v][l] = worker[v][l] /\ ~(v = w /\ l = k)
              => Leased(v, worker[v][l])',
           w \in Workers /\ k \in Kinds /\ worker'[w][k].pc # "idle" => Leased(w, worker[w][k])'
    PROVE  NothingLost'
  <1>1. ASSUME NEW i \in JobIds, job'[i] # Null PROVE LastOpen(job'[i])
    <2>1. CASE i = j
      BY <1>1, <2>1
    <2>2. CASE i # j
      <3>1. job'[i] = job[i]
        BY <2>2
      <3> QED BY <1>1, <3>1 DEF NothingLost
    <2> QED BY <2>1, <2>2
  <1>2. ASSUME NEW v \in Workers, NEW l \in Kinds, worker'[v][l].pc # "idle" PROVE Leased(v, worker[v][l])'
    <2>1. CASE v = w /\ l = k
      BY <1>2, <2>1
    <2>2. CASE worker'[v][l] = worker[v][l] /\ worker[v][l].job # j /\ ~(v = w /\ l = k)
      <3>1. PICK s : s = worker[v][l]
        OBVIOUS
      <3>2. Leased(v, s) /\ AtWork(s, l)
        BY <1>2, <2>2, <3>1 DEF NothingLost, WorkersOK
      <3>3. s.job \in JobIds /\ job'[s.job] = job[s.job]
        BY <2>2, <3>1, <3>2 DEF AtWork, Jobs
      <3>4. Leased(v, s)'
        BY <3>2, <3>3 DEF Leased, Holds, Running
      <3> QED BY <2>2, <3>1, <3>4
    <2>3. CASE worker'[v][l] = worker[v][l] /\ worker[v][l].job = j /\ ~(v = w /\ l = k)
      BY <1>2, <2>3
    <2> QED BY <1>2, <2>1, <2>2, <2>3 DEF WorkersBut
  <1> QED BY <1>1, <1>2 DEF NothingLost, LastOpen

\* A step that changes one row, and one worker.
LEMMA OneRowStep ==
    ASSUME JobIInv, NEW j \in JobIds, NEW s, NEW w, NEW k,
           job[j] # Null, job' = [job EXCEPT ![j] = s], Ages(job[j], s), RowOK(s), ProgressOK(s, inspected'[j]),
           ResultsGrow, WorkersBut(w, k),
           w \in Workers /\ k \in Kinds /\ worker'[w][k].pc # "idle" => AtWork(worker[w][k], k)',
           metrics' \in Properties \cup {Null}, lost' \in Nat, lost' = 0 => lost = 0,
           \A c \in Calls : call'[c].pc \in Kinds => call'[c] = call[c],
           lost' = 0 =>
              /\ LastOpen(s)
              /\ \A v \in Workers, l \in Kinds :
                    worker[v][l].pc # "idle" /\ worker[v][l].job = j /\ worker'[v][l] = worker[v][l] /\ ~(v = w /\ l = k)
                    => Leased(v, worker[v][l])'
              /\ w \in Workers /\ k \in Kinds /\ worker'[w][k].pc # "idle" => Leased(w, worker[w][k])'
    PROVE  JobIInv'
  <1>1. RowsAge /\ NoNewRow /\ job'[j] = s /\ s # Null /\ \A i \in JobIds : i # j => job'[i] = job[i]
    BY OneRowAges DEF JobIInv
  <1>2. JobTypes'
    BY <1>1 DEF RowsAge, ResultsGrow, WorkersBut, JobTypes, JobIds
  <1>3. RowsOK'
    BY <1>1, StillRowsOK DEF JobIInv
  <1>4. WorkersOK'
    BY <1>1, StillAtWork DEF JobIInv
  <1>5. OneActive' /\ Enqueuing'
    BY <1>1, StillOneActive, StillEnqueuing DEF JobIInv
  <1>6. lost' = 0 => NothingLost'
    BY <1>1, StillLeased DEF JobIInv
  <1> QED BY <1>2, <1>3, <1>4, <1>5, <1>6 DEF JobIInv

\* A step that changes one worker, and no row.
LEMMA NoRowStep ==
    ASSUME JobIInv, NEW w, NEW k, UNCHANGED <<job, inspected, metrics>>, WorkersBut(w, k),
           w \in Workers /\ k \in Kinds /\ worker'[w][k].pc # "idle" =>
               AtWork(worker[w][k], k)' /\ (lost = 0 => Leased(w, worker[w][k])'),
           lost' = lost,
           \A c \in Calls : call'[c].pc \in Kinds => call'[c] = call[c]
    PROVE  JobIInv'
  <1>1. RowsAge /\ NoNewRow /\ ResultsGrow
    BY RowsStay DEF JobIInv, ResultsGrow, JobTypes
  <1>2. PICK j : j \notin JobIds
    <2>1. 0 \notin JobIds
      BY SearchJobConstants DEF JobIds
    <2> QED BY <2>1
  <1>3. \A i \in JobIds : job'[i] = job[i]
    OBVIOUS
  <1>4. JobTypes'
    BY <1>1 DEF ResultsGrow, WorkersBut, JobTypes, JobIInv, JobIds
  <1>5. RowsOK'
    BY <1>1, <1>2, <1>3, StillRowsOK DEF JobIInv
  <1>6. WorkersOK'
    BY <1>1, StillAtWork DEF JobIInv
  <1>7. OneActive' /\ Enqueuing'
    BY <1>1, StillOneActive, StillEnqueuing DEF JobIInv
  <1>8. ASSUME lost' = 0 PROVE NothingLost'
    <2>1. NothingLost /\ WorkersOK /\ lost = 0
      BY <1>8 DEF JobIInv
    <2>2. ASSUME NEW v \in Workers, NEW l \in Kinds, worker'[v][l].pc # "idle" PROVE Leased(v, worker[v][l])'
      <3>1. CASE v = w /\ l = k
        BY <2>1, <2>2, <3>1
      <3>2. CASE worker'[v][l] = worker[v][l]
        <4>1. PICK s : s = worker[v][l]
          OBVIOUS
        <4>2. Leased(v, s)
          BY <2>1, <2>2, <3>2, <4>1 DEF NothingLost
        <4>3. Leased(v, s)'
          BY <4>2 DEF Leased, Holds, Running
        <4> QED BY <3>2, <4>1, <4>3
      <3> QED BY <2>2, <3>1, <3>2 DEF WorkersBut
    <2> QED BY <2>1, <2>2 DEF NothingLost, LastOpen
  <1> QED BY <1>4, <1>5, <1>6, <1>7, <1>8 DEF JobIInv
-----------------------------------------------------------------------------
\* Workers.

LEMMA NobodyMoves ==
    ASSUME JobTypes, UNCHANGED worker, NEW w, NEW k
    PROVE  WorkersBut(w, k)
  BY DEF JobTypes, WorkersBut

LEMMA WorkerMoves ==
    ASSUME JobTypes, NEW w \in Workers, NEW k \in Kinds, NEW t \in WorkState,
           worker' = [worker EXCEPT ![w][k] = t]
    PROVE  WorkersBut(w, k) /\ worker'[w][k] = t
  BY DEF JobTypes, WorkersBut

LEMMA FreeIsAState == Free \in WorkState /\ Free.pc = "idle"
  BY SearchJobConstants DEF Free, WorkState

LEMMA SameResults ==
    ASSUME JobTypes, UNCHANGED inspected
    PROVE  ResultsGrow
  BY DEF JobTypes, ResultsGrow

\* A worker that works, its state and its job.
LEMMA Worker ==
    ASSUME JobIInv, NEW w \in Workers, NEW k \in Kinds, worker[w][k].pc # "idle", NEW s, s = worker[w][k]
    PROVE  /\ s \in WorkState /\ AtWork(s, k)
           /\ s.job \in JobIds /\ job[s.job] \in JobQueue /\ job[s.job] # Null /\ job[s.job].kind = k
           /\ RowOK(job[s.job]) /\ ProgressOK(job[s.job], inspected[s.job])
           /\ Len(job[s.job].attempts) \in Nat
           /\ lost = 0 => Leased(w, s)
  <1>1. s \in WorkState /\ AtWork(s, k)
    BY DEF JobIInv, JobTypes, WorkersOK
  <1>2. s.job \in JobIds /\ job[s.job] # Null /\ job[s.job].kind = k
    BY <1>1 DEF AtWork, Jobs
  <1>3. job[s.job] \in JobQueue /\ Len(job[s.job].attempts) \in Nat
    BY <1>2, ARow DEF JobIInv
  <1>4. RowOK(job[s.job]) /\ ProgressOK(job[s.job], inspected[s.job])
    BY <1>2 DEF JobIInv, RowsOK
  <1>5. lost = 0 => Leased(w, s)
    BY DEF JobIInv, NothingLost
  <1> QED BY <1>1, <1>2, <1>3, <1>4, <1>5

\* Until a lease is lost a job has one worker.
LEMMA OneWorker ==
    ASSUME JobIInv, lost = 0, NEW w \in Workers, NEW k \in Kinds, NEW v \in Workers, NEW l \in Kinds,
           worker[w][k].pc # "idle", worker[v][l].pc # "idle", worker[w][k].job = worker[v][l].job
    PROVE  v = w /\ l = k
  <1>1. PICK s : s = worker[w][k]
    OBVIOUS
  <1>2. PICK t : t = worker[v][l]
    OBVIOUS
  <1>3. job[s.job].kind = k /\ Leased(w, s)
    BY <1>1, Worker
  <1>4. job[t.job].kind = l /\ Leased(v, t)
    BY <1>2, Worker
  <1> QED BY <1>1, <1>2, <1>3, <1>4 DEF Leased, Holds
-----------------------------------------------------------------------------
\* Requests, and time.

LEMMA RequestsOfTheConnection ==
    ASSUME ConnTypes, ConnectionNext
    PROVE  \A c \in Calls : call'[c].pc \in Kinds => call'[c] = call[c]
  <1> SUFFICES ASSUME NEW c \in Calls, call'[c].pc \in Kinds
               PROVE  call'[c] = call[c]
    OBVIOUS
  <1>1. call'[c].pc \in {"sync", "inspection"}
    BY SearchJobConstants
  <1>2. ASSUME NEW d \in Calls, NEW pc \in {"exchange", "properties", "baseline"}, Calling(d, pc) PROVE call'[c] = call[c]
    BY <1>1, <1>2 DEF Calling, ConnTypes
  <1>3. ASSUME NEW d \in Calls, Returns(d) PROVE call'[c] = call[c]
    BY <1>1, <1>3 DEF Returns, NoCall, ConnTypes
  <1> QED BY <1>2, <1>3
       DEF ConnectionNext, start_google_oauth, disconnect_google_data, google_data_callback, complete_google_oauth,
           list_google_properties, select_google_data_properties, sync_google_data, sync_google_baseline, _access_token,
           CallFails

LEMMA ConnectionKeepsJobs ==
    ASSUME ConnTypes, JobIInv, ConnectionNext, UNCHANGED jobVars
    PROVE  JobIInv'
  <1>1. PICK w : w \notin Workers
    BY NoSetContainsEverything
  <1>2. WorkersBut(w, w)
    BY NobodyMoves DEF JobIInv, jobVars
  <1> QED BY <1>1, <1>2, RequestsOfTheConnection, NoRowStep DEF jobVars

LEMMA EnqueueKeepsJobs ==
    ASSUME ConnTypes, JobIInv, NEW c \in Calls, NEW k \in Kinds, enqueue(c, k)
    PROVE  JobIInv'
  <1>1. UNCHANGED <<job, worker, metrics, inspected, lost>>
    BY DEF enqueue, jobVars
  <1>2. /\ call'[c] = [pc |-> k, read |-> conn]
        /\ \A d \in Calls : d # c => call'[d].pc \notin Kinds
    BY DEF enqueue, Calling, ConnTypes, SiteUnlocked
  <1>3. conn.property \in Covering /\ \A j \in Jobs(k) : ~ActiveRow(job[j])
    BY DEF enqueue, ActiveRow
  <1>4. Enqueuing'
    BY <1>1, <1>2, <1>3 DEF Enqueuing, Jobs, ActiveRow, JobIds
  <1>5. /\ JobTypes' /\ RowsOK' /\ WorkersOK' /\ OneActive'
        /\ lost' = 0 => NothingLost'
    BY <1>1 DEF JobIInv, JobTypes, RowsOK, WorkersOK, OneActive, NothingLost, RowOK, ProgressOK, AtWork, ActiveRow,
                Leased, LastOpen, Holds, Running, Jobs, JobIds
  <1> QED BY <1>4, <1>5 DEF JobIInv

\* The job that a request adds.
LEMMA CommittedRow ==
    ASSUME JobIInv, NEW c \in Calls, NEW k \in Kinds, CommitJob(c, k)
    PROVE  \E j \in JobIds, n \in JobQueue :
             /\ job[j] = Null /\ job' = [job EXCEPT ![j] = n]
             /\ n.kind = k /\ n.status = "queued" /\ n.processed = 0 /\ n.attempts = <<>> /\ n.owner = Null
  <1>1. PICK j \in JobIds :
          /\ job[j] = Null
          /\ job' = [job EXCEPT ![j] =
                [kind |-> k, property |-> call[c].read.property, status |-> "queued", recent |-> TRUE,
                 owner |-> Null, live |-> FALSE, processed |-> 0, attempts |-> <<>>]]
    BY DEF CommitJob
  <1>2. PICK n : n = [kind |-> k, property |-> call[c].read.property, status |-> "queued", recent |-> TRUE,
                      owner |-> Null, live |-> FALSE, processed |-> 0, attempts |-> <<>>]
    OBVIOUS
  <1>3. call[c].read.property \in Properties
    BY SearchJobConstants DEF CommitJob, JobIInv, Enqueuing
  <1>4. 0 \in 0..Urls /\ <<>> \in Seq({"running", "completed", "failed"})
    BY SearchJobConstants
  <1>5. n \in JobQueue
    BY <1>2, <1>3, <1>4 DEF JobQueue, ACTIVE_STATUSES
  <1> QED BY <1>1, <1>2, <1>5

LEMMA CommitKeepsJobs ==
    ASSUME ConnTypes, JobIInv, NEW c \in Calls, NEW k \in Kinds, CommitJob(c, k)
    PROVE  JobIInv'
  <1>1. PICK j \in JobIds, n \in JobQueue :
             /\ job[j] = Null /\ job' = [job EXCEPT ![j] = n]
             /\ n.kind = k /\ n.status = "queued" /\ n.processed = 0 /\ n.attempts = <<>> /\ n.owner = Null
    BY CommittedRow
  <1>2. call[c].pc = k /\ call' = [call EXCEPT ![c] = NoCall] /\ UNCHANGED <<worker, metrics, inspected, lost>>
    BY DEF CommitJob, Returns
  <1>3. n # Null /\ job'[j] = n /\ \A i \in JobIds : i # j => job'[i] = job[i]
    BY <1>1, NullIsNoJob DEF JobIInv, JobTypes
  <1>4. RowsAge
    <2>1. ASSUME NEW i \in JobIds, job[i] # Null PROVE job'[i] # Null /\ Ages(job[i], job'[i])
      <3>1. job[i] \in JobQueue /\ Len(job[i].attempts) \in Nat /\ job'[i] = job[i]
        BY <1>1, <1>3, <2>1, ARow DEF JobIInv
      <3> QED BY <2>1, <3>1 DEF Ages
    <2> QED BY <1>1, <2>1 DEF RowsAge, JobIInv, JobTypes
  <1>5. ResultsGrow
    BY <1>2, SameResults DEF JobIInv
  <1>6. JobTypes'
    BY <1>2, <1>4, <1>5 DEF RowsAge, ResultsGrow, JobIInv, JobTypes, JobIds
  <1>7. RowOK(n) /\ ProgressOK(n, inspected'[j])
    <2>1. Len(n.attempts) = 0 /\ 0 < MaxAttempts
      BY <1>1, SearchJobConstants
    <2> QED BY <1>1, <2>1, SearchJobConstants DEF RowOK, ProgressOK
  <1>8. RowsOK'
    BY <1>3, <1>5, <1>7, StillRowsOK DEF JobIInv
  <1>9. PICK w : w \notin Workers
    BY NoSetContainsEverything
  <1>10. WorkersBut(w, w)
    BY <1>2, NobodyMoves DEF JobIInv
  <1>11. WorkersOK'
    BY <1>4, <1>5, <1>9, <1>10, StillAtWork DEF JobIInv
  <1>12. OneActive'
    <2>1. \A i \in JobIds : job[i] # Null /\ job[i].kind = k => ~ActiveRow(job[i])
      BY <1>2 DEF JobIInv, Enqueuing, Jobs
    <2>2. \A i \in JobIds : i # j /\ job'[i] # Null /\ job'[i].kind = k => ~ActiveRow(job'[i])
      BY <1>3, <2>1
    <2>3. n.kind = k
      BY <1>1
    <2>4. ASSUME NEW i \in JobIds, NEW m \in JobIds, job'[i] # Null, job'[m] # Null,
                 job'[i].kind = job'[m].kind, ActiveRow(job'[i]), ActiveRow(job'[m])
          PROVE  i = m
      <3>1. CASE i = j \/ m = j
        BY <1>3, <2>2, <2>3, <2>4, <3>1
      <3>2. CASE i # j /\ m # j
        <4>1. job'[i] = job[i] /\ job'[m] = job[m]
          BY <1>3, <3>2
        <4> QED BY <2>4, <4>1 DEF JobIInv, OneActive
      <3> QED BY <3>1, <3>2
    <2> QED BY <2>4 DEF OneActive, ActiveRow
  <1>13. Enqueuing'
    <2>1. "idle" \notin Kinds
      BY SearchJobConstants
    <2>2. ASSUME NEW d \in Calls PROVE call'[d].pc \notin Kinds
      <3>1. d # c => call[d].pc \notin Kinds
        BY <1>2 DEF JobIInv, Enqueuing
      <3> QED BY <1>2, <2>1, <3>1 DEF NoCall, ConnTypes
    <2> QED BY <2>2 DEF Enqueuing
  <1>14. ASSUME lost' = 0 PROVE NothingLost'
    <2>1. NothingLost /\ WorkersOK
      BY <1>2, <1>14 DEF JobIInv
    <2>2. LastOpen(n)
      BY <1>1 DEF LastOpen
    <2>3. ASSUME NEW v \in Workers, NEW l \in Kinds, worker[v][l].pc # "idle" PROVE worker[v][l].job # j
      BY <1>1, <2>1, <2>3 DEF WorkersOK, AtWork, Jobs
    <2>4. ASSUME NEW v \in Workers, NEW l \in Kinds, worker'[v][l].pc # "idle" PROVE Leased(v, worker[v][l])'
      <3>1. PICK s : s = worker[v][l] /\ s = worker'[v][l]
        BY <1>2
      <3>2. Leased(v, s) /\ AtWork(s, l) /\ s.job # j
        BY <2>1, <2>3, <2>4, <3>1 DEF NothingLost, WorkersOK
      <3>3. s.job \in JobIds /\ job'[s.job] = job[s.job]
        BY <1>3, <3>2 DEF AtWork, Jobs
      <3>4. Leased(v, s)'
        BY <3>2, <3>3 DEF Leased, Holds, Running
      <3> QED BY <3>1, <3>4
    <2>5. ASSUME NEW i \in JobIds, job'[i] # Null PROVE LastOpen(job'[i])
      BY <1>3, <2>1, <2>2, <2>5 DEF NothingLost
    <2> QED BY <2>4, <2>5 DEF NothingLost, LastOpen
  <1> QED BY <1>6, <1>8, <1>11, <1>12, <1>13, <1>14 DEF JobIInv

LEMMA SameAttempts ==
    ASSUME JobIInv, NEW j \in JobIds, job[j] # Null, NEW s \in JobQueue,
           s.kind = job[j].kind, s.property = job[j].property, s.status = job[j].status, s.attempts = job[j].attempts
    PROVE  /\ Ages(job[j], s) /\ RowOK(s)
           /\ lost = 0 => LastOpen(s)
           /\ s.processed = job[j].processed => ProgressOK(s, inspected[j])
  <1>1. RowOK(job[j]) /\ ProgressOK(job[j], inspected[j]) /\ (lost = 0 => LastOpen(job[j]))
    BY DEF JobIInv, RowsOK, NothingLost
  <1>2. Len(s.attempts) \in Nat
    BY DEF JobQueue
  <1> QED BY <1>1, <1>2 DEF Ages, ActiveRow, RowOK, LastOpen, ProgressOK

\* A row that stays leased, or as it was.
LEMMA RowTouched ==
    ASSUME JobIInv, NEW j \in JobIds, job[j] # Null, NEW s \in JobQueue, job' = [job EXCEPT ![j] = s],
           s.kind = job[j].kind, s.property = job[j].property, s.status = job[j].status, s.attempts = job[j].attempts,
           s.processed = job[j].processed, s.owner = job[j].owner, job[j].live => s.live,
           UNCHANGED <<call, worker, metrics, inspected, lost>>
    PROVE  JobIInv'
  <1>1. /\ Ages(job[j], s) /\ RowOK(s) /\ ProgressOK(s, inspected'[j])
        /\ lost = 0 => LastOpen(s)
    BY SameAttempts
  <1>2. PICK w : w \notin Workers
    BY NoSetContainsEverything
  <1>3. WorkersBut(w, w) /\ ResultsGrow
    BY NobodyMoves, SameResults DEF JobIInv
  <1>4. ASSUME lost = 0, NEW v \in Workers, NEW l \in Kinds, worker[v][l].pc # "idle", worker[v][l].job = j
        PROVE  Leased(v, worker[v][l])'
    <2>1. PICK t : t = worker[v][l]
      OBVIOUS
    <2>2. Leased(v, t) /\ t.job = j
      BY <1>4, <2>1 DEF JobIInv, NothingLost
    <2>3. job'[j] = s /\ s # Null
      BY NullIsNoJob DEF JobIInv, JobTypes
    <2>4. Leased(v, t)'
      BY <2>2, <2>3 DEF Leased, Holds, Running
    <2> QED BY <2>1, <2>4
  <1>5. metrics' \in Properties \cup {Null} /\ lost' \in Nat /\ (lost' = 0 => lost = 0)
    BY DEF JobIInv, JobTypes
  <1>6. \A c \in Calls : call'[c].pc \in Kinds => call'[c] = call[c]
    OBVIOUS
  <1>7. lost' = 0 =>
              /\ LastOpen(s)
              /\ \A v \in Workers, l \in Kinds :
                    worker[v][l].pc # "idle" /\ worker[v][l].job = j /\ worker'[v][l] = worker[v][l] /\ ~(v = w /\ l = w)
                    => Leased(v, worker[v][l])'
              /\ w \in Workers /\ w \in Kinds /\ worker'[w][w].pc # "idle" => Leased(w, worker[w][w])'
    BY <1>1, <1>2, <1>4
  <1>8. w \in Workers /\ w \in Kinds /\ worker'[w][w].pc # "idle" => AtWork(worker[w][w], w)'
    BY <1>2
  <1> QED BY <1>1, <1>3, <1>5, <1>6, <1>7, <1>8, OneRowStep

LEMMA CooldownKeepsJobs ==
    ASSUME JobIInv, NEW j \in JobIds, CooldownEnds(j)
    PROVE  JobIInv'
  <1>1. PICK r \in JobQueue : r = job[j] /\ job[j] # Null
    BY ARow DEF CooldownEnds, JobIInv
  <1>2. PICK s : s = [r EXCEPT !.recent = FALSE]
    OBVIOUS
  <1>3. job' = [job EXCEPT ![j] = s]
    BY <1>1, <1>2 DEF CooldownEnds
  <1>4. /\ s \in JobQueue /\ s.kind = r.kind /\ s.property = r.property /\ s.status = r.status
        /\ s.attempts = r.attempts /\ s.processed = r.processed /\ s.owner = r.owner /\ s.live = r.live
    BY <1>2 DEF JobQueue
  <1>5. UNCHANGED <<call, worker, metrics, inspected, lost>>
    BY DEF CooldownEnds, connectionVars
  <1> QED BY <1>1, <1>3, <1>4, <1>5, RowTouched

LEMMA HeartbeatKeepsJobs ==
    ASSUME JobIInv, NEW w \in Workers, NEW k \in Kinds, heartbeat(w, k)
    PROVE  JobIInv'
  <1>1. PICK j \in JobIds : j = worker[w][k].job /\ job[j] \in JobQueue /\ job[j] # Null
    BY Worker DEF heartbeat
  <1>2. PICK r \in JobQueue : r = job[j]
    BY <1>1
  <1>3. PICK s : s = [r EXCEPT !.live = TRUE]
    OBVIOUS
  <1>4. job' = [job EXCEPT ![j] = s]
    BY <1>1, <1>2, <1>3 DEF heartbeat
  <1>5. /\ s \in JobQueue /\ s.kind = r.kind /\ s.property = r.property /\ s.status = r.status
        /\ s.attempts = r.attempts /\ s.processed = r.processed /\ s.owner = r.owner /\ s.live
    BY <1>3 DEF JobQueue
  <1>6. UNCHANGED <<call, worker, metrics, inspected, lost>>
    BY DEF heartbeat, connectionVars
  <1> QED BY <1>1, <1>2, <1>4, <1>5, <1>6, RowTouched

\* A lease that expires without being lost has nobody, or a sync under the lock.
LEMMA ExpiryKeepsJobs ==
    ASSUME JobIInv, NEW j \in JobIds, LeaseExpires(j)
    PROVE  JobIInv'
  <1>1. PICK r \in JobQueue : r = job[j] /\ job[j] # Null /\ r.status = "running"
    BY ARow DEF LeaseExpires, Running, JobIInv
  <1>2. PICK s : s = [r EXCEPT !.live = FALSE]
    OBVIOUS
  <1>3. job' = [job EXCEPT ![j] = s]
    BY <1>1, <1>2 DEF LeaseExpires
  <1>4. /\ s \in JobQueue /\ s.kind = r.kind /\ s.property = r.property /\ s.status = r.status
        /\ s.attempts = r.attempts /\ s.processed = r.processed /\ s.owner = r.owner
    BY <1>2 DEF JobQueue
  <1>5. UNCHANGED <<call, worker, metrics, inspected>>
    BY DEF LeaseExpires, connectionVars
  <1>6. /\ Ages(job[j], s) /\ RowOK(s) /\ ProgressOK(s, inspected'[j])
        /\ lost = 0 => LastOpen(s)
    BY <1>1, <1>4, <1>5, SameAttempts
  <1>7. lost' \in Nat /\ (lost' = 0 => lost = 0)
    BY DEF LeaseExpires, JobIInv, JobTypes
  <1>8. PICK u : u \notin Workers
    BY NoSetContainsEverything
  <1>9. WorkersBut(u, u) /\ ResultsGrow
    BY <1>5, NobodyMoves, SameResults DEF JobIInv
  <1>10. ASSUME lost' = 0, NEW v \in Workers, NEW l \in Kinds, worker[v][l].pc # "idle", worker[v][l].job = j
         PROVE  Leased(v, worker[v][l])'
    <2>1. PICK t : t = worker[v][l]
      OBVIOUS
    <2>2. t.job = j /\ Leased(v, t) /\ AtWork(t, l)
      BY <1>7, <1>10, <2>1, Worker
    <2>3. Locked(j)
      <3>1. worker[v][l].job = j /\ Holds(v, j)
        BY <2>1, <2>2 DEF Leased
      <3> QED BY <1>7, <1>10, <3>1 DEF LeaseExpires, JobIInv, JobTypes
    <2>4. PICK x \in Workers : "sync" \in Kinds /\ worker[x]["sync"].pc = "writing" /\ worker[x]["sync"].job = j
      BY <2>3 DEF Locked, LockedBy
    <2>5. x = v /\ l = "sync"
      BY <1>7, <1>10, <2>4, OneWorker
    <2>6. t.pc = "writing"
      BY <2>1, <2>4, <2>5
    <2>7. job'[j] = s /\ s # Null
      BY <1>3, <1>4, NullIsNoJob DEF JobIInv, JobTypes
    <2>8. Leased(v, t)'
      BY <1>1, <1>4, <2>2, <2>6, <2>7 DEF Leased, Holds, Running
    <2> QED BY <1>5, <2>1, <2>8
  <1>11. metrics' \in Properties \cup {Null}
    BY <1>5 DEF JobIInv, JobTypes
  <1>12. \A c \in Calls : call'[c].pc \in Kinds => call'[c] = call[c]
    BY <1>5
  <1>13. lost' = 0 =>
              /\ LastOpen(s)
              /\ \A v \in Workers, l \in Kinds :
                    worker[v][l].pc # "idle" /\ worker[v][l].job = j /\ worker'[v][l] = worker[v][l] /\ ~(v = u /\ l = u)
                    => Leased(v, worker[v][l])'
              /\ u \in Workers /\ u \in Kinds /\ worker'[u][u].pc # "idle" => Leased(u, worker[u][u])'
    BY <1>6, <1>7, <1>8, <1>10
  <1>14. u \in Workers /\ u \in Kinds /\ worker'[u][u].pc # "idle" => AtWork(worker[u][u], u)'
    BY <1>8
  <1> QED BY <1>1, <1>3, <1>6, <1>7, <1>9, <1>11, <1>12, <1>13, <1>14, OneRowStep

LEMMA DeathKeepsJobs ==
    ASSUME JobIInv, NEW w \in Workers, WorkerDies(w)
    PROVE  JobIInv'
  <1>1. UNCHANGED <<call, job, metrics, inspected, lost>>
    BY DEF WorkerDies, connectionVars
  <1>2. PICK u : u \notin Workers
    BY NoSetContainsEverything
  <1>3. WorkersBut(u, u)
    BY FreeIsAState DEF WorkerDies, JobIInv, JobTypes, WorkersBut
  <1> QED BY <1>1, <1>2, <1>3, NoRowStep
-----------------------------------------------------------------------------
\* Leases.

LEMMA ClaimedJob ==
    ASSUME JobIInv, NEW w \in Workers, NEW k \in Kinds, claim(w, k)
    PROVE  \E j \in JobIds, r \in JobQueue, s \in JobQueue, t \in WorkState :
             /\ job[j] = r /\ r.kind = k /\ r.status \in {"queued", "retry_wait"} /\ RowOK(r)
             /\ job' = [job EXCEPT ![j] = s]
             /\ worker' = [worker EXCEPT ![w][k] = t] /\ t.pc = "claimed" /\ t.job = j /\ t.done = 0
             /\ Ages(r, s) /\ RowOK(s)
             /\ s.status = "running" /\ s.owner = w /\ s.live /\ s.processed = r.processed
             /\ s.attempts = Append(r.attempts, "running") /\ Len(s.attempts) = Len(r.attempts) + 1
  <1>1. PICK j \in Jobs(k) :
          /\ Claimable(j)
          /\ job' = [job EXCEPT ![j].status = "running", ![j].owner = w, ![j].live = TRUE,
                                ![j].attempts = Append(@, "running")]
          /\ worker' = [worker EXCEPT ![w][k] = [Free EXCEPT !.pc = "claimed", !.job = j]]
    BY DEF claim
  <1>2. PICK r \in JobQueue : r = job[j]
    BY <1>1, ARow DEF Jobs, JobIInv
  <1>3. j \in JobIds /\ r.kind = k /\ r.status \in {"queued", "retry_wait"} /\ RowOK(r)
    BY <1>1, <1>2 DEF Jobs, Claimable, Waiting, JobIInv, RowsOK
  <1>4. PICK s : s = ClaimedBy(r, w)
    OBVIOUS
  <1>5. job' = [job EXCEPT ![j] = s]
    BY <1>1, <1>2, <1>3, <1>4 DEF ClaimedBy, JobIInv, JobTypes, JobQueue
  <1>6. /\ Ages(r, s) /\ RowOK(s)
        /\ s.status = "running" /\ s.owner = w /\ s.live /\ s.processed = r.processed
        /\ s.attempts = Append(r.attempts, "running") /\ Len(s.attempts) = Len(r.attempts) + 1
    BY <1>3, <1>4, ClaimedRow
  <1>7. s \in JobQueue
    BY <1>6 DEF Ages
  <1>8. PICK t : t = [Free EXCEPT !.pc = "claimed", !.job = j]
    OBVIOUS
  <1>9. t \in WorkState /\ t.pc = "claimed" /\ t.job = j /\ t.done = 0
    <2>1. Free \in WorkState /\ Free.done = 0 /\ j \in 0..MaxJobs
      BY FreeIsAState, <1>3, SearchJobConstants DEF Free, JobIds
    <2> QED BY <1>8, <2>1 DEF WorkState
  <1>10. worker' = [worker EXCEPT ![w][k] = t]
    BY <1>1, <1>8
  <1> QED BY <1>2, <1>3, <1>5, <1>6, <1>7, <1>9, <1>10

LEMMA ClaimKeepsJobs ==
    ASSUME JobIInv, NEW w \in Workers, NEW k \in Kinds, claim(w, k)
    PROVE  JobIInv'
  <1>1. PICK j \in JobIds, r \in JobQueue, s \in JobQueue, t \in WorkState :
             /\ job[j] = r /\ r.kind = k /\ r.status \in {"queued", "retry_wait"} /\ RowOK(r)
             /\ job' = [job EXCEPT ![j] = s]
             /\ worker' = [worker EXCEPT ![w][k] = t] /\ t.pc = "claimed" /\ t.job = j /\ t.done = 0
             /\ Ages(r, s) /\ RowOK(s)
             /\ s.status = "running" /\ s.owner = w /\ s.live /\ s.processed = r.processed
             /\ s.attempts = Append(r.attempts, "running") /\ Len(s.attempts) = Len(r.attempts) + 1
    BY ClaimedJob
  <1>2. UNCHANGED <<call, metrics, inspected, lost>>
    BY DEF claim, connectionVars
  <1>3. r # Null /\ s # Null /\ job'[j] = s /\ s.kind = k
    BY <1>1, NullIsNoJob DEF JobIInv, JobTypes, Ages
  <1>5. t \in WorkState /\ t.pc = "claimed" /\ t.job = j /\ t.done = 0
    BY <1>1
  <1>6. WorkersBut(w, k) /\ worker'[w][k] = t
    <2>1. JobTypes /\ worker' = [worker EXCEPT ![w][k] = t]
      BY <1>1 DEF JobIInv
    <2> QED BY <1>5, <2>1, WorkerMoves
  <1>7. ResultsGrow
    BY <1>2, SameResults DEF JobIInv
  <1>8. ProgressOK(s, inspected'[j])
    <2>1. ProgressOK(r, inspected[j])
      BY <1>1, <1>3 DEF JobIInv, RowsOK
    <2> QED BY <1>1, <1>2, <2>1 DEF ProgressOK, Ages
  <1>9. AtWork(t, k)'
    BY <1>3, <1>5 DEF AtWork, Jobs
  <1>10. ASSUME lost = 0 PROVE LastOpen(s)
    <2>1. LastOpen(r)
      BY <1>1, <1>3, <1>10 DEF JobIInv, NothingLost
    <2>2. \A n \in DOMAIN r.attempts : r.attempts[n] # "running"
      BY <1>1, <2>1 DEF LastOpen
    <2>3. r.attempts \in Seq({"running", "completed", "failed"})
      BY DEF JobQueue
    <2> QED BY <1>1, <2>2, <2>3 DEF LastOpen
  <1>11. ASSUME lost = 0, NEW v \in Workers, NEW l \in Kinds, worker[v][l].pc # "idle" PROVE worker[v][l].job # j
    <2>1. PICK x : x = worker[v][l]
      OBVIOUS
    <2>2. Leased(v, x)
      BY <1>11, <2>1, Worker
    <2> QED BY <1>1, <2>1, <2>2 DEF Leased, Holds, Running
  <1>12. Leased(w, t)'
    BY <1>1, <1>3, <1>5 DEF Leased, Holds, Running
  <1>13. metrics' \in Properties \cup {Null} /\ lost' \in Nat /\ (lost' = 0 => lost = 0)
    BY <1>2 DEF JobIInv, JobTypes
  <1>14. \A c \in Calls : call'[c].pc \in Kinds => call'[c] = call[c]
    BY <1>2
  <1>15. lost' = 0 =>
              /\ LastOpen(s)
              /\ \A v \in Workers, l \in Kinds :
                    worker[v][l].pc # "idle" /\ worker[v][l].job = j /\ worker'[v][l] = worker[v][l] /\ ~(v = w /\ l = k)
                    => Leased(v, worker[v][l])'
              /\ w \in Workers /\ k \in Kinds /\ worker'[w][k].pc # "idle" => Leased(w, worker[w][k])'
    BY <1>2, <1>6, <1>10, <1>11, <1>12
  <1>16. w \in Workers /\ k \in Kinds /\ worker'[w][k].pc # "idle" => AtWork(worker[w][k], k)'
    BY <1>6, <1>9
  <1> QED BY <1>1, <1>3, <1>6, <1>7, <1>8, <1>13, <1>14, <1>15, <1>16, OneRowStep

LEMMA RecoveredJob ==
    ASSUME JobIInv, NEW w \in Workers, NEW k \in Kinds, recover_expired_leases(w, k)
    PROVE  \E j \in JobIds, r \in JobQueue, s \in JobQueue :
             /\ job[j] = r /\ r.status = "running" /\ ~r.live /\ ~Locked(j) /\ RowOK(r) /\ Len(r.attempts) > 0
             /\ job' = [job EXCEPT ![j] = s]
             /\ Ends(r, s, IF Len(r.attempts) < MaxAttempts THEN "retry_wait" ELSE "failed", Len(r.attempts), "failed")
  <1>1. PICK j \in Jobs(k) : /\ Running(j) /\ ~job[j].live /\ ~Locked(j)
                             /\ job' = [job EXCEPT ![j] = Ended(@, "failed")]
    BY DEF recover_expired_leases
  <1>2. PICK r \in JobQueue : r = job[j]
    BY <1>1, ARow DEF Jobs, JobIInv
  <1>3. j \in JobIds /\ r.status = "running" /\ ~r.live /\ RowOK(r) /\ Len(r.attempts) > 0
    BY <1>1, <1>2 DEF Jobs, Running, JobIInv, RowsOK, RowOK
  <1>4. PICK s : s = Ended(r, "failed")
    OBVIOUS
  <1>5. job' = [job EXCEPT ![j] = s]
    BY <1>1, <1>2, <1>4
  <1>6. Ends(r, s, IF Len(r.attempts) < MaxAttempts THEN "retry_wait" ELSE "failed", Len(r.attempts), "failed")
    BY <1>3, <1>4, EndedRow
  <1>7. s \in JobQueue
    BY <1>6 DEF Ends
  <1> QED BY <1>1, <1>2, <1>3, <1>5, <1>6, <1>7

\* The end of the last attempt leaves no open one.
LEMMA EndsCloses ==
    ASSUME NEW r \in JobQueue, NEW s \in JobQueue, NEW status, NEW m, NEW result \in {"completed", "failed"},
           Ends(r, s, status, m, result), m = Len(r.attempts), LastOpen(r)
    PROVE  LastOpen(s)
  <1>1. r.attempts \in Seq({"running", "completed", "failed"}) /\ s.attempts \in Seq({"running", "completed", "failed"})
    BY DEF JobQueue
  <1>2. DOMAIN s.attempts = 1..Len(r.attempts) /\ DOMAIN r.attempts = 1..Len(r.attempts)
    BY <1>1 DEF Ends
  <1>3. ASSUME NEW n \in DOMAIN s.attempts PROVE s.attempts[n] # "running"
    <2>1. s.attempts[n] = IF n = m THEN result ELSE r.attempts[n]
      BY <1>2 DEF Ends
    <2> QED BY <1>2, <2>1 DEF LastOpen
  <1> QED BY <1>3 DEF LastOpen

LEMMA EndsProgress ==
    ASSUME NEW r, NEW s, NEW status, NEW m, NEW result, NEW results,
           Ends(r, s, status, m, result), ProgressOK(r, results),
           r.kind = "inspection" /\ status = "completed" => results = 1..Urls
    PROVE  ProgressOK(s, results)
  BY DEF Ends, ProgressOK

LEMMA RecoveryKeepsJobs ==
    ASSUME JobIInv, NEW w \in Workers, NEW k \in Kinds, recover_expired_leases(w, k)
    PROVE  JobIInv'
  <1>1. PICK j \in JobIds, r \in JobQueue, s \in JobQueue :
             /\ job[j] = r /\ r.status = "running" /\ ~r.live /\ ~Locked(j) /\ RowOK(r) /\ Len(r.attempts) > 0
             /\ job' = [job EXCEPT ![j] = s]
             /\ Ends(r, s, IF Len(r.attempts) < MaxAttempts THEN "retry_wait" ELSE "failed", Len(r.attempts), "failed")
    BY RecoveredJob
  <1>2. UNCHANGED <<call, worker, metrics, inspected, lost>>
    BY DEF recover_expired_leases, connectionVars
  <1>3. r # Null /\ Len(r.attempts) \in Nat
    BY NullIsNoJob DEF JobQueue
  <1>4. Ages(r, s) /\ RowOK(s)
    <2>1. PICK status : status = IF Len(r.attempts) < MaxAttempts THEN "retry_wait" ELSE "failed"
      OBVIOUS
    <2>2. Ends(r, s, status, Len(r.attempts), "failed")
      BY <1>1, <2>1
    <2>3. \/ status = "retry_wait" /\ ActiveRow(r) /\ Len(r.attempts) < MaxAttempts
          \/ status \in {"completed", "failed"}
      BY <1>1, <2>1 DEF ActiveRow, ACTIVE_STATUSES
    <2>4. Len(r.attempts) \in 1..Len(r.attempts)
      BY <1>1, <1>3
    <2> QED BY <1>1, <2>2, <2>3, <2>4, EndsAges
  <1>5. ProgressOK(s, inspected'[j])
    <2>1. ProgressOK(r, inspected[j])
      BY <1>1, <1>3 DEF JobIInv, RowsOK
    <2> QED BY <1>1, <1>2, <2>1, EndsProgress
  <1>6. PICK u : u \notin Workers
    BY NoSetContainsEverything
  <1>7. WorkersBut(u, u) /\ ResultsGrow
    BY <1>2, NobodyMoves, SameResults DEF JobIInv
  <1>8. ASSUME lost = 0 PROVE LastOpen(s)
    <2>1. LastOpen(r)
      BY <1>1, <1>3, <1>8 DEF JobIInv, NothingLost
    <2> QED BY <1>1, <2>1, EndsCloses
  <1>9. ASSUME lost = 0, NEW v \in Workers, NEW l \in Kinds, worker[v][l].pc # "idle" PROVE worker[v][l].job # j
    <2>1. PICK x : x = worker[v][l]
      OBVIOUS
    <2>2. Leased(v, x) /\ AtWork(x, l)
      BY <1>9, <2>1, Worker
    <2> QED BY <1>1, <2>1, <2>2 DEF Leased, AtWork, Locked, LockedBy
  <1>10. metrics' \in Properties \cup {Null} /\ lost' \in Nat /\ (lost' = 0 => lost = 0)
    BY <1>2 DEF JobIInv, JobTypes
  <1>11. \A c \in Calls : call'[c].pc \in Kinds => call'[c] = call[c]
    BY <1>2
  <1>12. lost' = 0 =>
              /\ LastOpen(s)
              /\ \A v \in Workers, l \in Kinds :
                    worker[v][l].pc # "idle" /\ worker[v][l].job = j /\ worker'[v][l] = worker[v][l] /\ ~(v = u /\ l = u)
                    => Leased(v, worker[v][l])'
              /\ u \in Workers /\ u \in Kinds /\ worker'[u][u].pc # "idle" => Leased(u, worker[u][u])'
    BY <1>2, <1>6, <1>8, <1>9
  <1>13. u \in Workers /\ u \in Kinds /\ worker'[u][u].pc # "idle" => AtWork(worker[u][u], u)'
    BY <1>6
  <1> QED BY <1>1, <1>3, <1>4, <1>5, <1>7, <1>10, <1>11, <1>12, <1>13, OneRowStep
-----------------------------------------------------------------------------
\* The work.

\* A worker that goes on with its job.
LEMMA WorkGoesOn ==
    ASSUME JobIInv, NEW w \in Workers, NEW k \in Kinds, NEW t \in WorkState, worker' = [worker EXCEPT ![w][k] = t],
           UNCHANGED <<call, job, inspected, metrics, lost>>,
           AtWork(t, k), lost = 0 => Leased(w, t)
    PROVE  JobIInv'
  <1>1. WorkersBut(w, k) /\ worker'[w][k] = t
    <2>1. JobTypes
      BY DEF JobIInv
    <2> QED BY <2>1, WorkerMoves
  <1>2. AtWork(t, k)' /\ (lost = 0 => Leased(w, t)')
    BY DEF AtWork, Jobs, Leased, Holds, Running, JobIds
  <1>3. w \in Workers /\ k \in Kinds /\ worker'[w][k].pc # "idle" =>
               AtWork(worker[w][k], k)' /\ (lost = 0 => Leased(w, worker[w][k])')
    BY <1>1, <1>2
  <1>4. \A c \in Calls : call'[c].pc \in Kinds => call'[c] = call[c]
    OBVIOUS
  <1> QED BY <1>1, <1>3, <1>4, NoRowStep

LEMMA BeginKeepsJobs ==
    ASSUME JobIInv, NEW w \in Workers, NEW k \in Kinds, Begin(w, k)
    PROVE  JobIInv'
  <1>1. PICK s : s = worker[w][k]
    OBVIOUS
  <1>2. s.pc = "claimed" /\ Holds(w, s.job)
    BY <1>1 DEF Begin
  <1>3. /\ s.job \in JobIds /\ job[s.job] \in JobQueue /\ job[s.job] # Null /\ job[s.job].kind = k
        /\ RowOK(job[s.job]) /\ ProgressOK(job[s.job], inspected[s.job])
        /\ Len(job[s.job].attempts) \in Nat
        /\ lost = 0 => Leased(w, s)
    BY <1>1, <1>2, Worker
  <1>4. PICK pc \in {"working", "renewing"} :
          worker' = [worker EXCEPT ![w][k] = [pc |-> pc, job |-> s.job, attempt |-> Len(job[s.job].attempts),
                                              done |-> job[s.job].processed]]
    BY <1>1 DEF Begin, Resumed
  <1>5. PICK t : t = [pc |-> pc, job |-> s.job, attempt |-> Len(job[s.job].attempts), done |-> job[s.job].processed]
    OBVIOUS
  <1>6. t \in WorkState
    BY <1>3, <1>5, SearchJobConstants DEF WorkState, JobIds, JobQueue
  <1>7. AtWork(t, k)
    <2>1. Len(job[s.job].attempts) > 0
      BY <1>2, <1>3 DEF Holds, Running, RowOK
    <2>2. t.attempt \in 1..Len(job[t.job].attempts)
      BY <1>3, <1>5, <2>1
    <2> QED BY <1>3, <1>5, <2>2 DEF AtWork, Jobs, ProgressOK
  <1>8. lost = 0 => Leased(w, t)
    BY <1>2, <1>3, <1>5 DEF Leased
  <1>9. worker' = [worker EXCEPT ![w][k] = t]
    BY <1>4, <1>5
  <1> QED BY <1>6, <1>7, <1>8, <1>9, WorkGoesOn DEF Begin, connectionVars

LEMMA RenewKeepsJobs ==
    ASSUME JobIInv, NEW w \in Workers, NEW k \in Kinds, renew(w, k)
    PROVE  JobIInv'
  <1>1. PICK s : s = worker[w][k]
    OBVIOUS
  <1>2. s.pc = "renewing" /\ s \in WorkState /\ AtWork(s, k) /\ (lost = 0 => Leased(w, s))
    BY <1>1, Worker DEF renew
  <1>3. PICK t : t = [s EXCEPT !.pc = "working"]
    OBVIOUS
  <1>4. t \in WorkState /\ t.pc = "working" /\ t.job = s.job /\ t.attempt = s.attempt /\ t.done = s.done
    BY <1>2, <1>3 DEF WorkState
  <1>5. worker' = [worker EXCEPT ![w][k] = t]
    BY <1>1, <1>3 DEF renew, JobIInv, JobTypes
  <1>6. AtWork(t, k) /\ (lost = 0 => Leased(w, t))
    BY <1>2, <1>4 DEF AtWork, Leased
  <1> QED BY <1>4, <1>5, <1>6, WorkGoesOn DEF renew

LEMMA PersistKeepsJobs ==
    ASSUME JobIInv, NEW w \in Workers, "sync" \in Kinds, _persist_search_rows(w)
    PROVE  JobIInv'
  <1>1. PICK k \in Kinds : k = "sync"
    OBVIOUS
  <1>2. PICK s : s = worker[w][k]
    OBVIOUS
  <1>3. s.pc = "working" /\ s \in WorkState /\ AtWork(s, k) /\ (lost = 0 => Leased(w, s))
    BY <1>1, <1>2, Worker DEF _persist_search_rows
  <1>4. PICK t : t = [s EXCEPT !.pc = "writing"]
    OBVIOUS
  <1>5. t \in WorkState /\ t.pc = "writing" /\ t.job = s.job /\ t.attempt = s.attempt /\ t.done = s.done
    BY <1>3, <1>4 DEF WorkState
  <1>6. worker' = [worker EXCEPT ![w][k] = t]
    BY <1>1, <1>2, <1>4 DEF _persist_search_rows, JobIInv, JobTypes
  <1>7. AtWork(t, k) /\ (lost = 0 => Leased(w, t))
    BY <1>1, <1>3, <1>5 DEF AtWork, Leased
  <1> QED BY <1>5, <1>6, <1>7, WorkGoesOn DEF _persist_search_rows, connectionVars

\* A worker that ends its attempt, or a stale one.
LEMMA WorkerEnds ==
    ASSUME JobIInv, NEW w \in Workers, NEW k \in Kinds, worker[w][k].pc # "idle",
           NEW j, j = worker[w][k].job, NEW s, NEW status, NEW m \in 1..Len(job[j].attempts),
           NEW result \in {"completed", "failed"}, Ends(job[j], s, status, m, result),
           \/ status = "retry_wait" /\ ActiveRow(job[j]) /\ Len(job[j].attempts) < MaxAttempts
           \/ status \in {"completed", "failed"},
           k = "inspection" /\ status = "completed" => inspected[j] = 1..Urls,
           lost = 0 => m = Len(job[j].attempts),
           job' = [job EXCEPT ![j] = s], worker' = [worker EXCEPT ![w][k] = Free],
           UNCHANGED <<call, inspected, lost>>, metrics' \in Properties \cup {Null}
    PROVE  JobIInv'
  <1>1. /\ j \in JobIds /\ job[j] \in JobQueue /\ job[j] # Null /\ job[j].kind = k
        /\ RowOK(job[j]) /\ ProgressOK(job[j], inspected[j])
    BY Worker
  <1>2. PICK r \in JobQueue : r = job[j]
    BY <1>1
  <1>3. Ages(r, s) /\ RowOK(s)
    BY <1>1, <1>2, EndsAges
  <1>4. ProgressOK(s, inspected'[j])
    BY <1>1, <1>2, EndsProgress
  <1>5. WorkersBut(w, k) /\ worker'[w][k] = Free
    <2>1. JobTypes
      BY DEF JobIInv
    <2> QED BY <2>1, FreeIsAState, WorkerMoves
  <1>6. ResultsGrow
    BY SameResults DEF JobIInv
  <1>7. ASSUME lost = 0 PROVE LastOpen(s)
    <2>1. LastOpen(r)
      BY <1>1, <1>2, <1>7 DEF JobIInv, NothingLost
    <2>2. m = Len(r.attempts) /\ Ends(r, s, status, m, result) /\ s \in JobQueue
      BY <1>2, <1>3, <1>7 DEF Ages
    <2> QED BY <2>1, <2>2, EndsCloses
  <1>8. \A v \in Workers, l \in Kinds :
             lost = 0 /\ worker[v][l].pc # "idle" /\ worker[v][l].job = j => v = w /\ l = k
    BY OneWorker
  <1>9. metrics' \in Properties \cup {Null} /\ lost' \in Nat /\ (lost' = 0 => lost = 0)
    BY DEF JobIInv, JobTypes
  <1>10. \A c \in Calls : call'[c].pc \in Kinds => call'[c] = call[c]
    OBVIOUS
  <1>11. worker'[w][k].pc = "idle"
    BY <1>5, FreeIsAState
  <1>12. lost' = 0 =>
              /\ LastOpen(s)
              /\ \A v \in Workers, l \in Kinds :
                    worker[v][l].pc # "idle" /\ worker[v][l].job = j /\ worker'[v][l] = worker[v][l] /\ ~(v = w /\ l = k)
                    => Leased(v, worker[v][l])'
              /\ w \in Workers /\ k \in Kinds /\ worker'[w][k].pc # "idle" => Leased(w, worker[w][k])'
    BY <1>7, <1>8, <1>11
  <1>13. w \in Workers /\ k \in Kinds /\ worker'[w][k].pc # "idle" => AtWork(worker[w][k], k)'
    BY <1>11
  <1>14. Ages(job[j], s)
    BY <1>2, <1>3
  <1> QED BY <1>1, <1>3, <1>4, <1>5, <1>6, <1>9, <1>10, <1>12, <1>13, <1>14, OneRowStep

\* What an error does to the row of the job.
LEMMA FailedJob ==
    ASSUME JobIInv, NEW w \in Workers, NEW k \in Kinds, NEW retryable \in BOOLEAN, fail(w, k, retryable)
    PROVE  \/ UNCHANGED job
           \/ \E j \in JobIds, r \in JobQueue, s \in JobQueue :
                /\ j = worker[w][k].job /\ job[j] = r /\ Holds(w, j) /\ r.status = "running" /\ Len(r.attempts) > 0
                /\ job' = [job EXCEPT ![j] = s]
                /\ \/ Ends(r, s, IF Len(r.attempts) < MaxAttempts THEN "retry_wait" ELSE "failed", Len(r.attempts), "failed")
                   \/ Ends(r, s, "failed", Len(r.attempts), "failed")
  <1>1. PICK j \in JobIds, r \in JobQueue : j = worker[w][k].job /\ r = job[j] /\ job[j] # Null /\ RowOK(r)
    BY Worker DEF fail
  <1>2. CASE ~Holds(w, j)
    <2>1. job' = [job EXCEPT ![j] = job[j]]
      BY <1>1, <1>2 DEF fail
    <2> QED BY <2>1 DEF JobIInv, JobTypes
  <1>3. CASE Holds(w, j)
    <2>1. r.status = "running" /\ Len(r.attempts) > 0
      BY <1>1, <1>3 DEF Holds, Running, RowOK
    <2>2. CASE retryable
      <3>1. PICK s : s = Ended(r, "failed")
        OBVIOUS
      <3>2. job' = [job EXCEPT ![j] = s]
        BY <1>1, <1>3, <2>2, <3>1 DEF fail
      <3>3. Ends(r, s, IF Len(r.attempts) < MaxAttempts THEN "retry_wait" ELSE "failed", Len(r.attempts), "failed")
        BY <2>1, <3>1, EndedRow
      <3>4. s \in JobQueue
        BY <3>3 DEF Ends
      <3> QED BY <1>1, <1>3, <2>1, <3>2, <3>3, <3>4
    <2>3. CASE ~retryable
      <3>1. PICK s : s = [r EXCEPT !.status = "failed", !.owner = Null, !.live = FALSE,
                                   !.attempts[Len(r.attempts)] = "failed"]
        OBVIOUS
      <3>2. job' = [job EXCEPT ![j] = s]
        BY <1>1, <1>3, <2>3, <3>1 DEF fail
      <3>3. Ends(r, s, "failed", Len(r.attempts), "failed")
        BY <2>1, <3>1, GivenUpRow
      <3>4. s \in JobQueue
        BY <3>3 DEF Ends
      <3> QED BY <1>1, <1>3, <2>1, <3>2, <3>3, <3>4
    <2> QED BY <2>2, <2>3
  <1> QED BY <1>2, <1>3

LEMMA FailureKeepsJobs ==
    ASSUME JobIInv, NEW w \in Workers, NEW k \in Kinds, NEW retryable \in BOOLEAN, fail(w, k, retryable)
    PROVE  JobIInv'
  <1>1. UNCHANGED <<call, metrics, inspected, lost>> /\ worker' = [worker EXCEPT ![w][k] = Free] /\ worker[w][k].pc # "idle"
    BY DEF fail
  <1>2. CASE UNCHANGED job
    <2>1. WorkersBut(w, k) /\ worker'[w][k].pc = "idle"
      <3>1. JobTypes
        BY DEF JobIInv
      <3> QED BY <1>1, <3>1, FreeIsAState, WorkerMoves
    <2>2. w \in Workers /\ k \in Kinds /\ worker'[w][k].pc # "idle" =>
               AtWork(worker[w][k], k)' /\ (lost = 0 => Leased(w, worker[w][k])')
      BY <2>1
    <2> QED BY <1>1, <1>2, <2>1, <2>2, NoRowStep
  <1>3. CASE \E j \in JobIds, r \in JobQueue, s \in JobQueue :
                /\ j = worker[w][k].job /\ job[j] = r /\ Holds(w, j) /\ r.status = "running" /\ Len(r.attempts) > 0
                /\ job' = [job EXCEPT ![j] = s]
                /\ \/ Ends(r, s, IF Len(r.attempts) < MaxAttempts THEN "retry_wait" ELSE "failed", Len(r.attempts), "failed")
                   \/ Ends(r, s, "failed", Len(r.attempts), "failed")
    <2>1. PICK j \in JobIds, r \in JobQueue, s \in JobQueue :
                /\ j = worker[w][k].job /\ job[j] = r /\ Holds(w, j) /\ r.status = "running" /\ Len(r.attempts) > 0
                /\ job' = [job EXCEPT ![j] = s]
                /\ \/ Ends(r, s, IF Len(r.attempts) < MaxAttempts THEN "retry_wait" ELSE "failed", Len(r.attempts), "failed")
                   \/ Ends(r, s, "failed", Len(r.attempts), "failed")
      BY <1>3
    <2>2. PICK status : /\ Ends(r, s, status, Len(r.attempts), "failed")
                        /\ \/ status = "retry_wait" /\ Len(r.attempts) < MaxAttempts
                           \/ status = "failed"
      BY <2>1
    <2>3. Len(r.attempts) \in 1..Len(r.attempts) /\ ActiveRow(r)
      BY <2>1 DEF JobQueue, ActiveRow, ACTIVE_STATUSES
    <2>4. PICK m : m = Len(r.attempts)
      OBVIOUS
    <2>5. m \in 1..Len(job[j].attempts) /\ Ends(job[j], s, status, m, "failed") /\ m = Len(job[j].attempts)
      BY <2>1, <2>2, <2>3, <2>4
    <2>6. \/ status = "retry_wait" /\ ActiveRow(job[j]) /\ Len(job[j].attempts) < MaxAttempts
          \/ status \in {"completed", "failed"}
      BY <2>1, <2>2, <2>3
    <2>7. k = "inspection" /\ status = "completed" => inspected[j] = 1..Urls
      BY <2>2
    <2>8. metrics' \in Properties \cup {Null}
      BY <1>1 DEF JobIInv, JobTypes
    <2> QED BY <1>1, <2>1, <2>5, <2>6, <2>7, <2>8, WorkerEnds
  <1> QED BY <1>2, <1>3, FailedJob

LEMMA SyncedJob ==
    ASSUME JobIInv, NEW w \in Workers, "sync" \in Kinds, _process_search_sync_job(w)
    PROVE  \E j \in JobIds, r \in JobQueue, s \in JobQueue :
             /\ j = worker[w]["sync"].job /\ job[j] = r /\ r.kind = "sync" /\ Holds(w, j)
             /\ r.status = "running" /\ Len(r.attempts) > 0
             /\ job' = [job EXCEPT ![j] = s]
             /\ Ends(r, s, "completed", Len(r.attempts), "completed")
             /\ InScope(conn, r.property) /\ metrics' = r.property
  <1>1. worker[w]["sync"].pc # "idle"
    BY DEF _process_search_sync_job
  <1>2. PICK j \in JobIds, r \in JobQueue :
          j = worker[w]["sync"].job /\ r = job[j] /\ job[j] # Null /\ r.kind = "sync" /\ RowOK(r)
    BY <1>1, Worker
  <1>3. Holds(w, j) /\ InScope(conn, r.property) /\ metrics' = r.property
    BY <1>2 DEF _process_search_sync_job, StillHolds, StillInScope
  <1>4. r.status = "running" /\ Len(r.attempts) > 0
    BY <1>2, <1>3 DEF Holds, Running, RowOK
  <1>5. PICK s : s = Completed(r, Len(r.attempts), r.processed)
    OBVIOUS
  <1>6. job' = [job EXCEPT ![j] = s]
    BY <1>2, <1>5 DEF _process_search_sync_job
  <1>7. Ends(r, s, "completed", Len(r.attempts), "completed")
    <2>1. Len(r.attempts) \in 1..Len(r.attempts)
      BY <1>4 DEF JobQueue
    <2> QED BY <1>5, <2>1, CompletedRow
  <1>8. s \in JobQueue
    BY <1>7 DEF Ends
  <1> QED BY <1>2, <1>3, <1>4, <1>6, <1>7, <1>8

LEMMA SyncKeepsJobs ==
    ASSUME JobIInv, NEW w \in Workers, "sync" \in Kinds, _process_search_sync_job(w)
    PROVE  JobIInv'
  <1>1. PICK j \in JobIds, r \in JobQueue, s \in JobQueue :
             /\ j = worker[w]["sync"].job /\ job[j] = r /\ r.kind = "sync" /\ Holds(w, j)
             /\ r.status = "running" /\ Len(r.attempts) > 0
             /\ job' = [job EXCEPT ![j] = s]
             /\ Ends(r, s, "completed", Len(r.attempts), "completed")
             /\ InScope(conn, r.property) /\ metrics' = r.property
    BY SyncedJob
  <1>2. PICK k \in Kinds : k = "sync"
    OBVIOUS
  <1>3. /\ UNCHANGED <<call, inspected, lost>> /\ worker' = [worker EXCEPT ![w][k] = Free]
        /\ worker[w][k].pc # "idle"
    BY <1>2 DEF _process_search_sync_job
  <1>4. PICK m : m = Len(r.attempts)
    OBVIOUS
  <1>5. m \in 1..Len(job[j].attempts) /\ Ends(job[j], s, "completed", m, "completed") /\ m = Len(job[j].attempts)
    <2>1. Len(r.attempts) \in 1..Len(r.attempts)
      BY <1>1 DEF JobQueue
    <2> QED BY <1>1, <1>4, <2>1
  <1>6. metrics' \in Properties \cup {Null}
    BY <1>1 DEF JobQueue
  <1>7. k # "inspection" /\ j = worker[w][k].job
    BY <1>1, <1>2
  <1> QED BY <1>1, <1>3, <1>5, <1>6, <1>7, WorkerEnds

LEMMA InspectedJob ==
    ASSUME JobIInv, NEW w \in Workers, "inspection" \in Kinds, _process_job(w)
    PROVE  \E j \in JobIds, r \in JobQueue, s \in JobQueue, m \in 1..Len(job[worker[w]["inspection"].job].attempts) :
             /\ j = worker[w]["inspection"].job /\ job[j] = r /\ r.kind = "inspection"
             /\ job' = [job EXCEPT ![j] = s]
             /\ Ends(r, s, "completed", m, "completed")
             /\ inspected[j] = 1..Urls
             /\ lost = 0 => m = Len(r.attempts)
  <1>1. PICK t : t = worker[w]["inspection"]
    OBVIOUS
  <1>2. t.pc = "working" /\ t.done >= Urls
    BY <1>1 DEF _process_job
  <1>3. /\ t \in WorkState /\ AtWork(t, "inspection") /\ (lost = 0 => Leased(w, t))
        /\ t.job \in JobIds /\ job[t.job] \in JobQueue /\ job[t.job].kind = "inspection"
    BY <1>1, <1>2, Worker
  <1>4. PICK j \in JobIds, r \in JobQueue : j = t.job /\ r = job[j] /\ r.kind = "inspection"
    BY <1>3
  <1>5. t.attempt \in 1..Len(r.attempts) /\ (lost = 0 => t.attempt = Len(r.attempts))
    BY <1>2, <1>3, <1>4 DEF AtWork, Leased
  <1>6. inspected[j] = 1..Urls
    <2>1. t.done = Urls
      BY <1>2, <1>3, SearchJobConstants DEF WorkState
    <2>2. 1..Urls \subseteq inspected[j] /\ inspected[j] \subseteq 1..Urls
      BY <1>3, <1>4, <2>1 DEF AtWork, JobIInv, JobTypes
    <2> QED BY <2>2
  <1>7. PICK s : s = Completed(r, t.attempt, r.processed)
    OBVIOUS
  <1>8. job' = [job EXCEPT ![j] = s]
    BY <1>1, <1>4, <1>7 DEF _process_job
  <1>9. Ends(r, s, "completed", t.attempt, "completed")
    BY <1>5, <1>7, CompletedRow
  <1>10. s \in JobQueue
    BY <1>9 DEF Ends
  <1> QED BY <1>1, <1>4, <1>5, <1>6, <1>8, <1>9, <1>10

LEMMA InspectionKeepsJobs ==
    ASSUME JobIInv, NEW w \in Workers, "inspection" \in Kinds, _process_job(w)
    PROVE  JobIInv'
  <1>1. PICK j \in JobIds, r \in JobQueue, s \in JobQueue, m \in 1..Len(job[worker[w]["inspection"].job].attempts) :
             /\ j = worker[w]["inspection"].job /\ job[j] = r /\ r.kind = "inspection"
             /\ job' = [job EXCEPT ![j] = s]
             /\ Ends(r, s, "completed", m, "completed")
             /\ inspected[j] = 1..Urls
             /\ lost = 0 => m = Len(r.attempts)
    BY InspectedJob
  <1>2. PICK k \in Kinds : k = "inspection"
    OBVIOUS
  <1>3. /\ UNCHANGED <<call, metrics, inspected, lost>> /\ worker' = [worker EXCEPT ![w][k] = Free]
        /\ worker[w][k].pc # "idle"
    BY <1>2 DEF _process_job, connectionVars
  <1>4. m \in 1..Len(job[j].attempts) /\ Ends(job[j], s, "completed", m, "completed")
        /\ (lost = 0 => m = Len(job[j].attempts)) /\ j = worker[w][k].job
    BY <1>1, <1>2
  <1>5. metrics' \in Properties \cup {Null}
    BY <1>3 DEF JobIInv, JobTypes
  <1> QED BY <1>1, <1>3, <1>4, <1>5, WorkerEnds

\* One URL: the row keeps its attempts, whoever leases it.
LEMMA UrlInspected ==
    ASSUME JobIInv, NEW w \in Workers, "inspection" \in Kinds, _inspect_url(w)
    PROVE  \E j \in JobIds, r \in JobQueue, s \in JobQueue, u \in 1..Urls :
             /\ j = worker[w]["inspection"].job /\ job[j] = r /\ r.kind = "inspection" /\ r # Null /\ s # Null
             /\ u = worker[w]["inspection"].done + 1
             /\ job' = [job EXCEPT ![j] = s]
             /\ s.kind = r.kind /\ s.property = r.property /\ s.status = r.status /\ s.attempts = r.attempts
             /\ s.owner = r.owner /\ s.live = r.live /\ s.processed = u
             /\ 1..(u - 1) \subseteq inspected[j] /\ inspected' = [inspected EXCEPT ![j] = @ \cup {u}]
  <1>1. PICK t : t = worker[w]["inspection"]
    OBVIOUS
  <1>2. PICK u : u = t.done + 1
    OBVIOUS
  <1>3. t.pc = "working" /\ u <= Urls
    BY <1>1, <1>2 DEF _inspect_url
  <1>4. /\ t \in WorkState /\ AtWork(t, "inspection")
        /\ t.job \in JobIds /\ job[t.job] \in JobQueue /\ job[t.job] # Null /\ job[t.job].kind = "inspection"
    BY <1>1, <1>3, Worker
  <1>5. PICK j \in JobIds, r \in JobQueue : j = t.job /\ r = job[j] /\ r.kind = "inspection" /\ r # Null
    BY <1>4
  <1>6. u \in 1..Urls /\ u - 1 = t.done /\ u \in 0..Urls
    BY <1>2, <1>3, <1>4, SearchJobConstants DEF WorkState
  <1>7. PICK s : s = [r EXCEPT !.processed = u]
    OBVIOUS
  <1>8. /\ s \in JobQueue /\ s.kind = r.kind /\ s.property = r.property /\ s.status = r.status /\ s.attempts = r.attempts
        /\ s.owner = r.owner /\ s.live = r.live /\ s.processed = u
    BY <1>6, <1>7 DEF JobQueue
  <1>9. job' = [job EXCEPT ![j] = s] /\ inspected' = [inspected EXCEPT ![j] = @ \cup {u}]
    BY <1>1, <1>2, <1>5, <1>7 DEF _inspect_url
  <1>10. 1..(u - 1) \subseteq inspected[j]
    BY <1>4, <1>5, <1>6 DEF AtWork
  <1>11. s # Null
    BY <1>8, NullIsNoJob
  <1> QED BY <1>1, <1>2, <1>5, <1>6, <1>8, <1>9, <1>10, <1>11

LEMMA UrlKeepsJobs ==
    ASSUME JobIInv, NEW w \in Workers, "inspection" \in Kinds, _inspect_url(w)
    PROVE  JobIInv'
  <1>1. PICK j \in JobIds, r \in JobQueue, s \in JobQueue, u \in 1..Urls :
             /\ j = worker[w]["inspection"].job /\ job[j] = r /\ r.kind = "inspection" /\ r # Null /\ s # Null
             /\ u = worker[w]["inspection"].done + 1
             /\ job' = [job EXCEPT ![j] = s]
             /\ s.kind = r.kind /\ s.property = r.property /\ s.status = r.status /\ s.attempts = r.attempts
             /\ s.owner = r.owner /\ s.live = r.live /\ s.processed = u
             /\ 1..(u - 1) \subseteq inspected[j] /\ inspected' = [inspected EXCEPT ![j] = @ \cup {u}]
    BY UrlInspected
  <1>2. PICK k \in Kinds : k = "inspection"
    OBVIOUS
  <1>3. PICK x : x = worker[w][k]
    OBVIOUS
  <1>4. /\ UNCHANGED <<call, metrics, lost>> /\ x.pc = "working"
        /\ worker' = [worker EXCEPT ![w][k].done = u]
    BY <1>1, <1>2, <1>3 DEF _inspect_url, connectionVars
  <1>5. x \in WorkState /\ AtWork(x, k) /\ (lost = 0 => Leased(w, x)) /\ x.job = j
    BY <1>1, <1>2, <1>3, <1>4, Worker
  <1>6. PICK t : t = [x EXCEPT !.done = u]
    OBVIOUS
  <1>7. t \in WorkState /\ t.pc = "working" /\ t.job = j /\ t.attempt = x.attempt /\ t.done = u
    BY <1>4, <1>5, <1>6, SearchJobConstants DEF WorkState
  <1>8. WorkersBut(w, k) /\ worker'[w][k] = t
    <2>1. worker' = [worker EXCEPT ![w][k] = t] /\ JobTypes
      BY <1>3, <1>4, <1>6 DEF JobIInv, JobTypes
    <2> QED BY <1>7, <2>1, WorkerMoves
  <1>9. /\ Ages(r, s) /\ RowOK(s)
        /\ lost = 0 => LastOpen(s)
    BY <1>1, SameAttempts
  <1>10. job'[j] = s /\ inspected'[j] = inspected[j] \cup {u} /\ 1..u \subseteq inspected'[j]
    <2>1. job'[j] = s /\ inspected'[j] = inspected[j] \cup {u}
      BY <1>1 DEF JobIInv, JobTypes
    <2>2. 1..u \subseteq (1..(u - 1)) \cup {u}
      OBVIOUS
    <2> QED BY <1>1, <2>1, <2>2
  <1>11. ResultsGrow
    BY <1>1 DEF ResultsGrow, JobIInv, JobTypes
  <1>12. ProgressOK(s, inspected'[j])
    <2>1. s.status = "completed" => inspected[j] = 1..Urls
      BY <1>1 DEF JobIInv, RowsOK, ProgressOK
    <2>2. s.status = "completed" => inspected'[j] = 1..Urls
      BY <1>10, <2>1
    <2> QED BY <1>1, <1>10, <2>2 DEF ProgressOK
  <1>13. AtWork(t, k)'
    BY <1>1, <1>2, <1>4, <1>5, <1>7, <1>10 DEF AtWork, Jobs, JobIds
  <1>14. ASSUME lost = 0, NEW v \in Workers, NEW l \in Kinds, worker[v][l].pc # "idle", worker[v][l].job = j,
                worker'[v][l] = worker[v][l]
         PROVE  Leased(v, worker[v][l])'
    <2>1. PICK y : y = worker[v][l]
      OBVIOUS
    <2>2. Leased(v, y) /\ y.job = j
      BY <1>14, <2>1, Worker
    <2>3. Leased(v, y)'
      BY <1>1, <1>10, <2>2 DEF Leased, Holds, Running
    <2> QED BY <1>14, <2>1, <2>3
  <1>15. lost = 0 => Leased(w, t)'
    BY <1>1, <1>4, <1>5, <1>7, <1>10 DEF Leased, Holds, Running
  <1>16. metrics' \in Properties \cup {Null} /\ lost' \in Nat /\ (lost' = 0 => lost = 0)
    BY <1>4 DEF JobIInv, JobTypes
  <1>17. \A c \in Calls : call'[c].pc \in Kinds => call'[c] = call[c]
    BY <1>4
  <1>18. lost' = 0 =>
              /\ LastOpen(s)
              /\ \A v \in Workers, l \in Kinds :
                    worker[v][l].pc # "idle" /\ worker[v][l].job = j /\ worker'[v][l] = worker[v][l] /\ ~(v = w /\ l = k)
                    => Leased(v, worker[v][l])'
              /\ w \in Workers /\ k \in Kinds /\ worker'[w][k].pc # "idle" => Leased(w, worker[w][k])'
    BY <1>4, <1>8, <1>9, <1>14, <1>15
  <1>19. w \in Workers /\ k \in Kinds /\ worker'[w][k].pc # "idle" => AtWork(worker[w][k], k)'
    BY <1>8, <1>13
  <1> QED BY <1>1, <1>8, <1>9, <1>11, <1>12, <1>16, <1>17, <1>18, <1>19, OneRowStep
-----------------------------------------------------------------------------
\* Jobs keep the connection.

LEMMA EnqueueKeepsConnection ==
    ASSUME ConnIInv, NEW c \in Calls, NEW k \in Kinds, enqueue(c, k)
    PROVE  ConnIInv'
  <1>1. k \in {"sync", "inspection"}
    BY SearchJobConstants
  <1> QED BY <1>1, CallBegins DEF enqueue

LEMMA CommitKeepsConnection ==
    ASSUME ConnIInv, NEW c \in Calls, NEW k \in Kinds, CommitJob(c, k)
    PROVE  ConnIInv'
  <1>1. call[c].pc # "idle" /\ Returns(c) /\ UNCHANGED conn
    BY SearchJobConstants DEF CommitJob
  <1>2. Undisturbed => InOrder'
    BY <1>1 DEF Undisturbed, InOrder
  <1> QED BY <1>1, <1>2, CallReturns DEF ConnIInv, ConnTypes

LEMMA SameConnection ==
    ASSUME ConnIInv, UNCHANGED connectionVars
    PROVE  ConnIInv'
  BY DEF ConnIInv, ConnTypes, Undisturbed, InOrder, AsRead, connectionVars

LEMMA RenewKeepsConnection ==
    ASSUME ConnIInv, NEW w \in Workers, NEW k \in Kinds, renew(w, k)
    PROVE  ConnIInv'
  <1>1. conn' = [conn EXCEPT !.tokens = TRUE] /\ UNCHANGED <<started, call>>
    BY DEF renew
  <1>2. /\ conn' \in GoogleDataConnection /\ conn'.tokens = TRUE /\ conn'.status = conn.status
        /\ conn'.property = conn.property /\ conn'.baseline = conn.baseline /\ conn'.summary = conn.summary
    BY <1>1 DEF ConnIInv, ConnTypes, GoogleDataConnection
  <1>3. conn.tokens \in BOOLEAN
    BY DEF ConnIInv, ConnTypes, GoogleDataConnection
  <1>4. /\ interruptions' \in 0..MaxInterruptions
        /\ interruptions' = 0 => interruptions = 0 /\ conn.tokens
    BY ConnectionConstants DEF renew, ConnIInv, ConnTypes
  <1>5. interruptions' = 0 => conn'.tokens = conn.tokens
    BY <1>2, <1>3, <1>4
  <1> QED BY <1>1, <1>2, <1>4, <1>5, RowStays

LEMMA FailureKeepsConnection ==
    ASSUME ConnIInv, NEW w \in Workers, NEW k \in Kinds, NEW retryable \in BOOLEAN, fail(w, k, retryable)
    PROVE  ConnIInv'
  <1>1. UNCHANGED <<started, call, interruptions>> /\ (UNCHANGED conn \/ conn' = [conn EXCEPT !.status = "expired"])
    BY DEF fail
  <1>2. /\ conn' \in GoogleDataConnection /\ conn'.status \in {conn.status, "expired"}
        /\ conn'.tokens = conn.tokens /\ conn'.property = conn.property
        /\ conn'.baseline = conn.baseline /\ conn'.summary = conn.summary
    BY <1>1 DEF ConnIInv, ConnTypes, GoogleDataConnection
  <1> QED BY <1>1, <1>2, RowStays DEF ConnIInv, ConnTypes

LEMMA SyncKeepsConnection ==
    ASSUME ConnIInv, NEW w \in Workers, _process_search_sync_job(w)
    PROVE  ConnIInv'
  <1>1. conn' = [conn EXCEPT !.baseline = "ready", !.summary = conn.property] /\ UNCHANGED <<started, call>> /\ Crosses(Calls)
    BY DEF _process_search_sync_job
  <1>2. /\ conn' \in GoogleDataConnection /\ conn'.status = conn.status /\ conn'.tokens = conn.tokens
        /\ conn'.property = conn.property /\ conn'.baseline = "ready" /\ conn'.summary = conn.property
    BY <1>1 DEF ConnIInv, ConnTypes, GoogleDataConnection
  <1>3. Undisturbed => InOrder'
    BY <1>2 DEF Undisturbed, InOrder
  <1> QED BY <1>1, <1>2, <1>3, RowChangesAlone DEF ConnIInv, ConnTypes
-----------------------------------------------------------------------------
\* The invariant.

LEMMA SearchInvInit ==
    ASSUME SearchInit
    PROVE  SearchIInv
  <1>1. ConnIInv
    <2>1. conn = NotConnected /\ started = 0 /\ call = [c \in Calls |-> NoCall] /\ interruptions = 0
      BY DEF SearchInit, ConnectionInit
    <2>2. ConnTypes
      BY <2>1, NotConnectedRow, ConnectionConstants DEF ConnTypes
    <2>3. Undisturbed
      BY <2>1 DEF Undisturbed, InOrder, NotConnected, NoCall
    <2> QED BY <2>2, <2>3 DEF ConnIInv
  <1>2. JobIInv
    <2>1. /\ job = [j \in JobIds |-> Null] /\ worker = [w \in Workers |-> [k \in Kinds |-> Free]]
          /\ metrics = Null /\ inspected = [j \in JobIds |-> {}] /\ lost = 0
      BY DEF SearchInit, JobInit
    <2>2. JobTypes /\ RowsOK /\ OneActive
      BY <2>1, FreeIsAState DEF JobTypes, RowsOK, OneActive
    <2>3. WorkersOK /\ NothingLost
      BY <2>1, FreeIsAState DEF WorkersOK, NothingLost
    <2>4. Enqueuing
      <3>1. \A c \in Calls : call[c].pc = "idle"
        BY DEF SearchInit, ConnectionInit, NoCall
      <3> QED BY <3>1, SearchJobConstants DEF Enqueuing
    <2> QED BY <2>2, <2>3, <2>4 DEF JobIInv
  <1> QED BY <1>1, <1>2 DEF SearchIInv

LEMMA JobStep ==
    ASSUME SearchIInv, NEW k \in Kinds, JobNext(k)
    PROVE  SearchIInv'
  <1> USE DEF SearchIInv
  <1>0. ConnTypes
    BY DEF ConnIInv
  <1>1. ASSUME NEW c \in Calls, enqueue(c, k) PROVE SearchIInv'
    BY <1>0, <1>1, EnqueueKeepsJobs, EnqueueKeepsConnection
  <1>2. ASSUME NEW c \in Calls, CommitJob(c, k) PROVE SearchIInv'
    BY <1>0, <1>2, CommitKeepsJobs, CommitKeepsConnection
  <1>3. ASSUME NEW w \in Workers, claim(w, k) PROVE SearchIInv'
    BY <1>3, ClaimKeepsJobs, SameConnection DEF claim
  <1>4. ASSUME NEW w \in Workers, recover_expired_leases(w, k) PROVE SearchIInv'
    BY <1>4, RecoveryKeepsJobs, SameConnection DEF recover_expired_leases
  <1>5. ASSUME NEW w \in Workers, heartbeat(w, k) PROVE SearchIInv'
    BY <1>5, HeartbeatKeepsJobs, SameConnection DEF heartbeat
  <1>6. ASSUME NEW w \in Workers, Begin(w, k) PROVE SearchIInv'
    BY <1>6, BeginKeepsJobs, SameConnection DEF Begin
  <1>7. ASSUME NEW w \in Workers, renew(w, k) PROVE SearchIInv'
    BY <1>7, RenewKeepsJobs, RenewKeepsConnection
  <1>8. ASSUME NEW w \in Workers, NEW retryable \in BOOLEAN, fail(w, k, retryable) PROVE SearchIInv'
    BY <1>8, FailureKeepsJobs, FailureKeepsConnection
  <1>9. ASSUME NEW w \in Workers, k = "sync", _persist_search_rows(w) PROVE SearchIInv'
    BY <1>9, PersistKeepsJobs, SameConnection DEF _persist_search_rows
  <1>10. ASSUME NEW w \in Workers, k = "sync", _process_search_sync_job(w) PROVE SearchIInv'
    BY <1>10, SyncKeepsJobs, SyncKeepsConnection
  <1>11. ASSUME NEW w \in Workers, k = "inspection", _inspect_url(w) PROVE SearchIInv'
    BY <1>11, UrlKeepsJobs, SameConnection DEF _inspect_url
  <1>12. ASSUME NEW w \in Workers, k = "inspection", _process_job(w) PROVE SearchIInv'
    BY <1>12, InspectionKeepsJobs, SameConnection DEF _process_job
  <1>13. ASSUME NEW j \in JobIds, CooldownEnds(j) PROVE SearchIInv'
    BY <1>13, CooldownKeepsJobs, SameConnection DEF CooldownEnds
  <1>14. ASSUME NEW j \in JobIds, LeaseExpires(j) PROVE SearchIInv'
    BY <1>14, ExpiryKeepsJobs, SameConnection DEF LeaseExpires
  <1>15. ASSUME NEW w \in Workers, WorkerDies(w) PROVE SearchIInv'
    BY <1>15, DeathKeepsJobs, SameConnection DEF WorkerDies
  <1> HIDE DEF SearchIInv
  <1> QED BY <1>1, <1>2, <1>3, <1>4, <1>5, <1>6, <1>7, <1>8, <1>9, <1>10, <1>11, <1>12, <1>13, <1>14, <1>15
       DEF JobNext, Work

LEMMA SearchInvStep ==
    ASSUME SearchIInv, [SearchNext]_searchVars
    PROVE  SearchIInv'
  <1>1. ASSUME NEW k \in Kinds, JobNext(k) PROVE SearchIInv'
    BY <1>1, JobStep
  <1>2. CASE ConnectionNext /\ UNCHANGED jobVars
    BY <1>2, ConnectionStep, ConnectionKeepsJobs DEF SearchIInv, ConnIInv
  <1>3. CASE UNCHANGED searchVars
    <2>1. UNCHANGED <<call, job, worker, inspected, metrics, lost>> /\ UNCHANGED connectionVars
      BY <1>3 DEF searchVars, connectionVars, jobVars
    <2>2. PICK u : u \notin Workers
      BY NoSetContainsEverything
    <2>3. WorkersBut(u, u)
      BY <2>1, NobodyMoves DEF SearchIInv, JobIInv
    <2>4. JobIInv'
      BY <2>1, <2>2, <2>3, NoRowStep DEF SearchIInv
    <2> QED BY <2>1, <2>4, SameConnection DEF SearchIInv
  <1> QED BY <1>1, <1>2, <1>3 DEF SearchNext

\* The inductive invariant, for every value of the constants.
THEOREM SearchInvariance == SearchSpec => []SearchIInv
  BY SearchInvInit, SearchInvStep, PTL DEF SearchSpec

\* Two rows that are one make the cardinality one.
LEMMA AtMostOne ==
    ASSUME NEW S, \A x, y \in S : x = y
    PROVE  Cardinality(S) <= 1
  <1>1. CASE S = {}
    BY <1>1, FS_EmptySet
  <1>2. CASE S # {}
    <2>1. PICK x : x \in S
      BY <1>2
    <2>2. S = {x}
      BY <2>1
    <2> QED BY <2>2, FS_Singleton
  <1> QED BY <1>1, <1>2

\* The connection and the jobs agree on the property and on what was done: a
\* site has one active job of a kind, an inspection that is completed has its
\* results, and a baseline is that of the property that is chosen.
THEOREM SearchAgrees == SearchSpec => []SearchInv
  <1>1. SearchIInv => SearchInv
    <2> SUFFICES ASSUME SearchIInv PROVE SearchInv
      OBVIOUS
    <2> USE DEF SearchIInv
    <2>1. ConnectionTypeOK
      BY DEF ConnIInv, ConnTypes, ConnectionTypeOK, CallState
    <2>2. SearchTypeOK
      BY DEF JobIInv, JobTypes, SearchTypeOK, WorkState
    <2>3. DisconnectedForgets /\ BaselineIsOfTheProperty
      BY DEF ConnIInv, Undisturbed, InOrder, DisconnectedForgets, BaselineIsOfTheProperty
    <2>4. OneActiveJob
      <3> SUFFICES ASSUME NEW k \in Kinds
                   PROVE  Cardinality({j \in Jobs(k) : job[j].status \in ACTIVE_STATUSES}) <= 1
        BY DEF OneActiveJob
      <3>1. PICK S : S = {j \in Jobs(k) : job[j].status \in ACTIVE_STATUSES}
        OBVIOUS
      <3>2. \A x, y \in S : x = y
        BY <3>1 DEF JobIInv, OneActive, ActiveRow, Jobs
      <3>3. Cardinality(S) <= 1
        BY <3>2, AtMostOne
      <3> QED BY <3>1, <3>3
    <2>5. CompletedInspectionsHaveResults
      BY DEF JobIInv, RowsOK, ProgressOK, CompletedInspectionsHaveResults
    <2>6. EndedJobsHaveNoOpenAttempt
      BY DEF JobIInv, NothingLost, LastOpen, Running, EndedJobsHaveNoOpenAttempt
    <2> QED BY <2>1, <2>2, <2>3, <2>4, <2>5, <2>6 DEF SearchInv
  <1> QED BY <1>1, SearchInvariance, PTL
-----------------------------------------------------------------------------
\* Only the holder of a lease writes metrics.

\* What MetricsComeFromTheProperty and SyncsEndByTheirHolder say of a step.
MetricsOfTheProperty ==
    metrics' # metrics =>
        /\ conn.status = "configured" /\ metrics' = conn.property
        /\ \E j \in JobIds : Running(j) /\ job'[j].status = "completed" /\ job[j].property = metrics'
SyncsEnd ==
    \A j \in JobIds : job[j] # Null /\ job[j].kind = "sync" /\ job[j].status # "completed" /\ job'[j].status = "completed"
        => \E w \in Workers : Holds(w, j) /\ worker[w]["sync"].job = j /\ worker'[w]["sync"].job # j

\* No sync is completed, nor are metrics written.
LEMMA NoSyncEnds ==
    ASSUME JobTypes, NEW j \in JobIds, NEW s, job' = [job EXCEPT ![j] = s], UNCHANGED metrics,
           s.status = "completed" => job[j] = Null \/ job[j].kind # "sync" \/ job[j].status = "completed"
    PROVE  MetricsOfTheProperty /\ SyncsEnd
  <1>1. \A i \in JobIds : IF i = j THEN job'[i] = s ELSE job'[i] = job[i]
    BY DEF JobTypes
  <1> QED BY <1>1 DEF MetricsOfTheProperty, SyncsEnd

LEMMA SameJobs ==
    ASSUME UNCHANGED <<job, metrics>>
    PROVE  MetricsOfTheProperty /\ SyncsEnd
  BY DEF MetricsOfTheProperty, SyncsEnd

LEMMA SyncEnds ==
    ASSUME SearchIInv, NEW w \in Workers, "sync" \in Kinds, _process_search_sync_job(w)
    PROVE  MetricsOfTheProperty /\ SyncsEnd
  <1>1. PICK j \in JobIds, r \in JobQueue, s \in JobQueue :
             /\ j = worker[w]["sync"].job /\ job[j] = r /\ r.kind = "sync" /\ Holds(w, j)
             /\ r.status = "running" /\ Len(r.attempts) > 0
             /\ job' = [job EXCEPT ![j] = s]
             /\ Ends(r, s, "completed", Len(r.attempts), "completed")
             /\ InScope(conn, r.property) /\ metrics' = r.property
    BY SyncedJob DEF SearchIInv
  <1>2. JobTypes
    BY DEF SearchIInv, JobIInv
  <1>3. job'[j] = s /\ s.status = "completed" /\ \A i \in JobIds : i # j => job'[i] = job[i]
    BY <1>1, <1>2 DEF JobTypes, Ends
  <1>4. worker'[w]["sync"].job # j
    <2>1. worker'[w]["sync"] = Free
      BY <1>2 DEF _process_search_sync_job, JobTypes
    <2> QED BY <2>1 DEF Free, JobIds
  <1>5. MetricsOfTheProperty
    <2>1. Running(j) /\ job[j].property = metrics' /\ conn.status = "configured" /\ metrics' = conn.property
      BY <1>1 DEF Holds, InScope
    <2> QED BY <1>3, <2>1 DEF MetricsOfTheProperty
  <1> QED BY <1>1, <1>3, <1>4, <1>5 DEF SyncsEnd

LEMMA JobStepMetrics ==
    ASSUME SearchIInv, NEW k \in Kinds, JobNext(k)
    PROVE  MetricsOfTheProperty /\ SyncsEnd
  <1>0. JobIInv /\ JobTypes
    BY DEF SearchIInv, JobIInv
  <1>1. ASSUME NEW c \in Calls, enqueue(c, k) PROVE MetricsOfTheProperty /\ SyncsEnd
    BY <1>1, SameJobs DEF enqueue, jobVars
  <1>2. ASSUME NEW c \in Calls, CommitJob(c, k) PROVE MetricsOfTheProperty /\ SyncsEnd
    <2>1. PICK j \in JobIds, n \in JobQueue :
             /\ job[j] = Null /\ job' = [job EXCEPT ![j] = n]
             /\ n.kind = k /\ n.status = "queued" /\ n.processed = 0 /\ n.attempts = <<>> /\ n.owner = Null
      BY <1>0, <1>2, CommittedRow
    <2>2. UNCHANGED metrics
      BY <1>2 DEF CommitJob
    <2> QED BY <1>0, <2>1, <2>2, NoSyncEnds
  <1>3. ASSUME NEW w \in Workers, claim(w, k) PROVE MetricsOfTheProperty /\ SyncsEnd
    <2>1. PICK j \in JobIds, r \in JobQueue, s \in JobQueue, t \in WorkState :
             /\ job[j] = r /\ r.kind = k /\ r.status \in {"queued", "retry_wait"} /\ RowOK(r)
             /\ job' = [job EXCEPT ![j] = s]
             /\ worker' = [worker EXCEPT ![w][k] = t] /\ t.pc = "claimed" /\ t.job = j /\ t.done = 0
             /\ Ages(r, s) /\ RowOK(s)
             /\ s.status = "running" /\ s.owner = w /\ s.live /\ s.processed = r.processed
             /\ s.attempts = Append(r.attempts, "running") /\ Len(s.attempts) = Len(r.attempts) + 1
      BY <1>0, <1>3, ClaimedJob
    <2>2. UNCHANGED metrics
      BY <1>3 DEF claim
    <2> QED BY <1>0, <2>1, <2>2, NoSyncEnds
  <1>4. ASSUME NEW w \in Workers, recover_expired_leases(w, k) PROVE MetricsOfTheProperty /\ SyncsEnd
    <2>1. PICK j \in JobIds, r \in JobQueue, s \in JobQueue :
             /\ job[j] = r /\ r.status = "running" /\ ~r.live /\ ~Locked(j) /\ RowOK(r) /\ Len(r.attempts) > 0
             /\ job' = [job EXCEPT ![j] = s]
             /\ Ends(r, s, IF Len(r.attempts) < MaxAttempts THEN "retry_wait" ELSE "failed", Len(r.attempts), "failed")
      BY <1>0, <1>4, RecoveredJob
    <2>2. s.status # "completed" /\ UNCHANGED metrics
      BY <1>4, <2>1 DEF Ends, recover_expired_leases
    <2> QED BY <1>0, <2>1, <2>2, NoSyncEnds
  <1>5. ASSUME NEW w \in Workers, heartbeat(w, k) PROVE MetricsOfTheProperty /\ SyncsEnd
    <2>1. PICK j \in JobIds : j = worker[w][k].job /\ job[j] \in JobQueue /\ job[j] # Null
      BY <1>0, <1>5, Worker DEF heartbeat
    <2>2. PICK s : s = [job[j] EXCEPT !.live = TRUE]
      OBVIOUS
    <2>3. job' = [job EXCEPT ![j] = s] /\ s.status = job[j].status /\ UNCHANGED metrics
      BY <1>5, <2>1, <2>2 DEF heartbeat, JobQueue
    <2> QED BY <1>0, <2>3, NoSyncEnds
  <1>6. ASSUME NEW w \in Workers, Begin(w, k) PROVE MetricsOfTheProperty /\ SyncsEnd
    BY <1>6, SameJobs DEF Begin
  <1>7. ASSUME NEW w \in Workers, renew(w, k) PROVE MetricsOfTheProperty /\ SyncsEnd
    BY <1>7, SameJobs DEF renew
  <1>8. ASSUME NEW w \in Workers, NEW retryable \in BOOLEAN, fail(w, k, retryable) PROVE MetricsOfTheProperty /\ SyncsEnd
    <2>1. UNCHANGED metrics
      BY <1>8 DEF fail
    <2>2. CASE UNCHANGED job
      BY <2>1, <2>2, SameJobs
    <2>3. CASE \E j \in JobIds, r \in JobQueue, s \in JobQueue :
                /\ j = worker[w][k].job /\ job[j] = r /\ Holds(w, j) /\ r.status = "running" /\ Len(r.attempts) > 0
                /\ job' = [job EXCEPT ![j] = s]
                /\ \/ Ends(r, s, IF Len(r.attempts) < MaxAttempts THEN "retry_wait" ELSE "failed", Len(r.attempts), "failed")
                   \/ Ends(r, s, "failed", Len(r.attempts), "failed")
      <3>1. PICK j \in JobIds, s \in JobQueue : job' = [job EXCEPT ![j] = s] /\ s.status # "completed"
        BY <2>3 DEF Ends
      <3> QED BY <1>0, <2>1, <3>1, NoSyncEnds
    <2> QED BY <1>0, <1>8, <2>2, <2>3, FailedJob
  <1>9. ASSUME NEW w \in Workers, k = "sync", _persist_search_rows(w) PROVE MetricsOfTheProperty /\ SyncsEnd
    BY <1>9, SameJobs DEF _persist_search_rows
  <1>10. ASSUME NEW w \in Workers, k = "sync", _process_search_sync_job(w) PROVE MetricsOfTheProperty /\ SyncsEnd
    BY <1>10, SyncEnds
  <1>11. ASSUME NEW w \in Workers, k = "inspection", _inspect_url(w) PROVE MetricsOfTheProperty /\ SyncsEnd
    <2>1. PICK j \in JobIds, r \in JobQueue, s \in JobQueue, u \in 1..Urls :
             /\ j = worker[w]["inspection"].job /\ job[j] = r /\ r.kind = "inspection" /\ r # Null /\ s # Null
             /\ u = worker[w]["inspection"].done + 1
             /\ job' = [job EXCEPT ![j] = s]
             /\ s.kind = r.kind /\ s.property = r.property /\ s.status = r.status /\ s.attempts = r.attempts
             /\ s.owner = r.owner /\ s.live = r.live /\ s.processed = u
             /\ 1..(u - 1) \subseteq inspected[j] /\ inspected' = [inspected EXCEPT ![j] = @ \cup {u}]
      BY <1>0, <1>11, UrlInspected
    <2>2. UNCHANGED metrics
      BY <1>11 DEF _inspect_url
    <2> QED BY <1>0, <2>1, <2>2, NoSyncEnds
  <1>12. ASSUME NEW w \in Workers, k = "inspection", _process_job(w) PROVE MetricsOfTheProperty /\ SyncsEnd
    <2>1. PICK j \in JobIds, r \in JobQueue, s \in JobQueue : job[j] = r /\ r.kind = "inspection" /\ job' = [job EXCEPT ![j] = s]
      BY <1>0, <1>12, InspectedJob
    <2>2. UNCHANGED metrics
      BY <1>12 DEF _process_job
    <2> QED BY <1>0, <2>1, <2>2, NoSyncEnds
  <1>13. ASSUME NEW j \in JobIds, CooldownEnds(j) PROVE MetricsOfTheProperty /\ SyncsEnd
    <2>1. PICK s : s = [job[j] EXCEPT !.recent = FALSE]
      OBVIOUS
    <2>2. job[j] \in JobQueue
      BY <1>0, <1>13, ARow DEF CooldownEnds
    <2>3. job' = [job EXCEPT ![j] = s] /\ s.status = job[j].status /\ UNCHANGED metrics
      BY <1>13, <2>1, <2>2 DEF CooldownEnds, JobQueue
    <2> QED BY <1>0, <2>3, NoSyncEnds
  <1>14. ASSUME NEW j \in JobIds, LeaseExpires(j) PROVE MetricsOfTheProperty /\ SyncsEnd
    <2>1. PICK s : s = [job[j] EXCEPT !.live = FALSE]
      OBVIOUS
    <2>2. job[j] \in JobQueue
      BY <1>0, <1>14, ARow DEF LeaseExpires, Running
    <2>3. job' = [job EXCEPT ![j] = s] /\ s.status = job[j].status /\ UNCHANGED metrics
      BY <1>14, <2>1, <2>2 DEF LeaseExpires, JobQueue
    <2> QED BY <1>0, <2>3, NoSyncEnds
  <1>15. ASSUME NEW w \in Workers, WorkerDies(w) PROVE MetricsOfTheProperty /\ SyncsEnd
    BY <1>15, SameJobs DEF WorkerDies
  <1> QED BY <1>1, <1>2, <1>3, <1>4, <1>5, <1>6, <1>7, <1>8, <1>9, <1>10, <1>11, <1>12, <1>13, <1>14, <1>15
       DEF JobNext, Work

\* Metrics change only at the hand of the worker that holds the lease of a sync
\* of the property that is chosen, and nobody else completes a sync.
THEOREM MetricsOfTheHolder == SearchSpec => MetricsAreTheHolders
  <1>1. ASSUME SearchIInv, SearchNext PROVE MetricsOfTheProperty /\ SyncsEnd
    <2>1. CASE ConnectionNext /\ UNCHANGED jobVars
      BY <2>1, SameJobs DEF jobVars
    <2> QED BY <1>1, <2>1, JobStepMetrics DEF SearchNext
  <1>2. SearchIInv /\ [SearchNext]_searchVars => [MetricsOfTheProperty]_searchVars /\ [SyncsEnd]_searchVars
    BY <1>1
  <1>3. SearchSpec => [][MetricsOfTheProperty]_searchVars /\ [][SyncsEnd]_searchVars
    BY <1>2, SearchInvariance, PTL DEF SearchSpec
  <1>4. MetricsAreTheHolders <=> [][MetricsOfTheProperty]_searchVars /\ [][SyncsEnd]_searchVars
    BY DEF MetricsAreTheHolders, MetricsComeFromTheProperty, SyncsEndByTheirHolder, MetricsOfTheProperty, SyncsEnd
  <1> QED BY <1>3, <1>4
-----------------------------------------------------------------------------
\* SearchJobs implements DurableQueue: every step is a step of the abstract
\* queue, or changes nothing of it.

\* What the abstract queue sees of a row.
RowPhase(r) ==
    IF r = Null THEN "absent"
    ELSE IF r.status \in {"queued", "retry_wait"} THEN "waiting"
    ELSE IF r.status = "running" THEN "leased" ELSE "done"
RowHolder(r) == IF r # Null /\ r.status = "running" THEN r.owner ELSE Null
RowUsed(r) == IF r = Null THEN 0 ELSE Len(r.attempts) - (IF r.status = "running" THEN 1 ELSE 0)

\* The abstract state.
phaseOf == [j \in JobIds |-> RowPhase(job[j])]
holderOf == [j \in JobIds |-> RowHolder(job[j])]
usedOf == [j \in JobIds |-> RowUsed(job[j])]

QueueStep == [SearchQueue!QNext]_(SearchQueue!qvars)

\* Two ways to say the mapping.
LEMMA Mapping ==
    /\ [j \in JobIds |-> IF job[j] = Null THEN "absent" ELSE IF Waiting(j) THEN "waiting"
                         ELSE IF Running(j) THEN "leased" ELSE "done"] = phaseOf
    /\ [j \in JobIds |-> IF Running(j) THEN job[j].owner ELSE Null] = holderOf
    /\ [j \in JobIds |-> IF job[j] = Null THEN 0 ELSE Len(job[j].attempts) - (IF Running(j) THEN 1 ELSE 0)] = usedOf
  <1>1. ASSUME NEW j \in JobIds
        PROVE  /\ (IF job[j] = Null THEN "absent" ELSE IF Waiting(j) THEN "waiting"
                         ELSE IF Running(j) THEN "leased" ELSE "done") = RowPhase(job[j])
               /\ (IF Running(j) THEN job[j].owner ELSE Null) = RowHolder(job[j])
               /\ (IF job[j] = Null THEN 0 ELSE Len(job[j].attempts) - (IF Running(j) THEN 1 ELSE 0)) = RowUsed(job[j])
    BY DEF Waiting, Running, RowPhase, RowHolder, RowUsed
  <1> QED BY <1>1 DEF phaseOf, holderOf, usedOf

LEMMA Mapping2 ==
    /\ [j \in JobIds |-> IF job'[j] = Null THEN "absent" ELSE IF Waiting(j)' THEN "waiting"
                         ELSE IF Running(j)' THEN "leased" ELSE "done"] = phaseOf'
    /\ [j \in JobIds |-> IF Running(j)' THEN job'[j].owner ELSE Null] = holderOf'
    /\ [j \in JobIds |-> IF job'[j] = Null THEN 0 ELSE Len(job'[j].attempts) - (IF Running(j)' THEN 1 ELSE 0)] = usedOf'
  <1>1. ASSUME NEW j \in JobIds
        PROVE  /\ (IF job'[j] = Null THEN "absent" ELSE IF Waiting(j)' THEN "waiting"
                         ELSE IF Running(j)' THEN "leased" ELSE "done") = RowPhase(job'[j])
               /\ (IF Running(j)' THEN job'[j].owner ELSE Null) = RowHolder(job'[j])
               /\ (IF job'[j] = Null THEN 0 ELSE Len(job'[j].attempts) - (IF Running(j)' THEN 1 ELSE 0)) = RowUsed(job'[j])
    BY DEF Waiting, Running, RowPhase, RowHolder, RowUsed
  <1> QED BY <1>1 DEF phaseOf, holderOf, usedOf, JobIds

\* A row the abstract queue sees no change of.
SameToQueue(r, s) == RowPhase(s) = RowPhase(r) /\ RowHolder(s) = RowHolder(r) /\ RowUsed(s) = RowUsed(r)

LEMMA Stutters ==
    ASSUME \A j \in JobIds : SameToQueue(job[j], job'[j])
    PROVE  QueueStep
  <1>1. phaseOf' = phaseOf /\ holderOf' = holderOf /\ usedOf' = usedOf
    BY DEF phaseOf, holderOf, usedOf, SameToQueue, JobIds
  <1> QED BY <1>1, Mapping, Mapping2 DEF QueueStep, SearchQueue!qvars

LEMMA SameJobsStutter ==
    ASSUME UNCHANGED job
    PROVE  QueueStep
  BY Stutters DEF SameToQueue

LEMMA RowStutters ==
    ASSUME JobTypes, NEW j \in JobIds, NEW s, job' = [job EXCEPT ![j] = s], SameToQueue(job[j], s)
    PROVE  QueueStep
  <1>1. \A i \in JobIds : SameToQueue(job[i], job'[i])
    BY DEF JobTypes, SameToQueue
  <1> QED BY <1>1, Stutters

\* One row changes.
LEMMA OneRow ==
    ASSUME JobTypes, NEW j \in JobIds, NEW s, job' = [job EXCEPT ![j] = s]
    PROVE  /\ phaseOf' = [phaseOf EXCEPT ![j] = RowPhase(s)]
           /\ holderOf' = [holderOf EXCEPT ![j] = RowHolder(s)]
           /\ usedOf' = [usedOf EXCEPT ![j] = RowUsed(s)]
           /\ phaseOf[j] = RowPhase(job[j]) /\ holderOf[j] = RowHolder(job[j]) /\ usedOf[j] = RowUsed(job[j])
  BY DEF JobTypes, phaseOf, holderOf, usedOf, JobIds

\* The actions of the abstract queue, over the abstract state.
LEMMA Submits ==
    ASSUME NEW j \in JobIds, phaseOf[j] = "absent", phaseOf' = [phaseOf EXCEPT ![j] = "waiting"],
           holderOf' = holderOf, usedOf' = usedOf
    PROVE  QueueStep
  <1>1. SearchQueue!Submit(j)
    BY Mapping, Mapping2 DEF SearchQueue!Submit
  <1> QED BY <1>1 DEF QueueStep, SearchQueue!QNext

LEMMA Leases ==
    ASSUME NEW j \in JobIds, NEW w \in Workers, phaseOf[j] = "waiting", usedOf[j] < MaxAttempts,
           phaseOf' = [phaseOf EXCEPT ![j] = "leased"], holderOf' = [holderOf EXCEPT ![j] = w], usedOf' = usedOf
    PROVE  QueueStep
  <1>1. SearchQueue!Lease(j, w)
    BY Mapping, Mapping2 DEF SearchQueue!Lease
  <1> QED BY <1>1 DEF QueueStep, SearchQueue!QNext

LEMMA Withdraws ==
    ASSUME NEW j \in JobIds, phaseOf[j] = "waiting",
           phaseOf' = [phaseOf EXCEPT ![j] = "done"], holderOf' = [holderOf EXCEPT ![j] = Null], usedOf' = usedOf
    PROVE  QueueStep
  <1>1. SearchQueue!Withdraw(j)
    BY Mapping, Mapping2 DEF SearchQueue!Withdraw
  <1> QED BY <1>1 DEF QueueStep, SearchQueue!QNext

LEMMA Settles ==
    ASSUME NEW j \in JobIds, phaseOf[j] = "leased", NEW phase \in {"waiting", "done"},
           phaseOf' = [phaseOf EXCEPT ![j] = phase], holderOf' = [holderOf EXCEPT ![j] = Null],
           usedOf' = [usedOf EXCEPT ![j] = @ + 1], usedOf[j] + 1 <= MaxAttempts,
           phase = "waiting" => usedOf[j] + 1 < MaxAttempts
    PROVE  QueueStep
  <1>1. phase = "done" =>
          phaseOf' = [u \in JobIds |-> IF u = j THEN "done" ELSE IF u \in {} THEN "waiting" ELSE phaseOf[u]]
    BY DEF phaseOf
  <1>2. SearchQueue!Settle(j, {})
    BY <1>1, Mapping, Mapping2 DEF SearchQueue!Settle
  <1> QED BY <1>2 DEF QueueStep, SearchQueue!QNext

LEMMA UsedUp ==
    ASSUME NEW r, r # Null, NEW n \in Nat, Len(r.attempts) = n
    PROVE  RowUsed(r) = IF r.status = "running" THEN n - 1 ELSE n
  <1>1. CASE r.status = "running"
    BY <1>1 DEF RowUsed
  <1>2. CASE r.status # "running"
    <2>1. RowUsed(r) = n - 0
      BY <1>2 DEF RowUsed
    <2> QED BY <1>2, <2>1
  <1> QED BY <1>1, <1>2

\* An attempt that ends settles the job, or withdraws it when it was not running.
LEMMA EndsSettles ==
    ASSUME SearchIInv, NEW j \in JobIds, NEW r \in JobQueue, NEW s \in JobQueue, NEW status, NEW m, NEW result,
           job[j] = r, job' = [job EXCEPT ![j] = s], Ends(r, s, status, m, result), RowOK(r),
           \/ status = "retry_wait" /\ r.status = "running" /\ Len(r.attempts) < MaxAttempts
           \/ status \in {"completed", "failed"}
    PROVE  QueueStep
  <1>0. JobTypes
    BY DEF SearchIInv, JobIInv
  <1>1. r # Null /\ s # Null /\ Len(r.attempts) \in Nat
    BY NullIsNoJob DEF JobQueue
  <1>2. /\ phaseOf' = [phaseOf EXCEPT ![j] = RowPhase(s)]
        /\ holderOf' = [holderOf EXCEPT ![j] = RowHolder(s)]
        /\ usedOf' = [usedOf EXCEPT ![j] = RowUsed(s)]
        /\ phaseOf[j] = RowPhase(r) /\ holderOf[j] = RowHolder(r) /\ usedOf[j] = RowUsed(r)
    BY <1>0, OneRow
  <1>3. RowHolder(s) = Null /\ RowUsed(s) = Len(r.attempts)
    <2>1. s.status = status /\ s.status # "running" /\ Len(s.attempts) = Len(r.attempts)
      BY DEF Ends
    <2>2. RowHolder(s) = Null
      BY <2>1 DEF RowHolder
    <2> QED BY <1>1, <2>1, <2>2, UsedUp
  <1>4. RowPhase(s) = IF status = "retry_wait" THEN "waiting" ELSE "done"
    BY <1>1 DEF RowPhase, Ends
  <1>5. CASE r.status = "running"
    <2>1. RowPhase(r) = "leased" /\ RowUsed(r) + 1 = Len(r.attempts) /\ Len(r.attempts) <= MaxAttempts
      <3>1. RowUsed(r) = Len(r.attempts) - 1
        BY <1>1, <1>5, UsedUp
      <3> QED BY <1>1, <1>5, <3>1 DEF RowPhase, RowOK
    <2>2. PICK phase \in {"waiting", "done"} : phase = RowPhase(s)
      BY <1>4
    <2>3. phase = "waiting" => usedOf[j] + 1 < MaxAttempts
      BY <1>2, <1>4, <2>1, <2>2
    <2>4. /\ phaseOf[j] = "leased" /\ usedOf[j] + 1 <= MaxAttempts
          /\ phaseOf' = [phaseOf EXCEPT ![j] = phase] /\ holderOf' = [holderOf EXCEPT ![j] = Null]
          /\ usedOf' = [usedOf EXCEPT ![j] = @ + 1]
      BY <1>2, <1>3, <2>1, <2>2
    <2> QED BY <2>3, <2>4, Settles
  <1>6. CASE r.status \in {"queued", "retry_wait"}
    <2>1. RowPhase(r) = "waiting" /\ RowUsed(r) = Len(r.attempts) /\ RowPhase(s) = "done"
      <3>1. RowUsed(r) = Len(r.attempts)
        BY <1>1, <1>6, UsedUp
      <3>2. status # "retry_wait"
        BY <1>6
      <3> QED BY <1>1, <1>4, <1>6, <3>1, <3>2 DEF RowPhase
    <2>2. usedOf' = usedOf
      BY <1>2, <1>3, <2>1 DEF usedOf
    <2> QED BY <1>2, <1>3, <2>1, <2>2, Withdraws
  <1>7. CASE r.status \in {"completed", "failed"}
    <2>1. RowPhase(r) = "done" /\ RowUsed(r) = Len(r.attempts) /\ RowPhase(s) = "done" /\ RowHolder(r) = Null
      <3>1. RowUsed(r) = Len(r.attempts)
        BY <1>1, <1>7, UsedUp
      <3>2. status # "retry_wait"
        BY <1>7
      <3> QED BY <1>1, <1>4, <1>7, <3>1, <3>2 DEF RowPhase, RowHolder
    <2>2. SameToQueue(job[j], s)
      BY <1>3, <2>1 DEF SameToQueue
    <2> QED BY <1>0, <2>2, RowStutters
  <1> QED BY <1>5, <1>6, <1>7 DEF JobQueue, ACTIVE_STATUSES

\* A row that keeps its status, its owner and its attempts.
LEMMA TouchStutters ==
    ASSUME SearchIInv, NEW j \in JobIds, NEW s \in JobQueue, job[j] # Null, job' = [job EXCEPT ![j] = s],
           s.status = job[j].status, s.owner = job[j].owner, s.attempts = job[j].attempts
    PROVE  QueueStep
  <1>1. SameToQueue(job[j], s)
    BY NullIsNoJob DEF SameToQueue, RowPhase, RowHolder, RowUsed
  <1> QED BY <1>1, RowStutters DEF SearchIInv, JobIInv

LEMMA JobStepRefines ==
    ASSUME SearchIInv, NEW k \in Kinds, JobNext(k)
    PROVE  QueueStep
  <1>0. JobIInv /\ JobTypes
    BY DEF SearchIInv, JobIInv
  <1>1. ASSUME NEW c \in Calls, enqueue(c, k) PROVE QueueStep
    BY <1>1, SameJobsStutter DEF enqueue, jobVars
  <1>2. ASSUME NEW c \in Calls, CommitJob(c, k) PROVE QueueStep
    <2>1. PICK j \in JobIds, n \in JobQueue :
             /\ job[j] = Null /\ job' = [job EXCEPT ![j] = n]
             /\ n.kind = k /\ n.status = "queued" /\ n.processed = 0 /\ n.attempts = <<>> /\ n.owner = Null
      BY <1>0, <1>2, CommittedRow
    <2>2. /\ phaseOf' = [phaseOf EXCEPT ![j] = RowPhase(n)]
          /\ holderOf' = [holderOf EXCEPT ![j] = RowHolder(n)]
          /\ usedOf' = [usedOf EXCEPT ![j] = RowUsed(n)]
          /\ phaseOf[j] = RowPhase(job[j]) /\ holderOf[j] = RowHolder(job[j]) /\ usedOf[j] = RowUsed(job[j])
      BY <1>0, <2>1, OneRow
    <2>3. RowPhase(n) = "waiting" /\ RowHolder(n) = Null /\ RowUsed(n) = 0
      <3>1. n # Null /\ Len(n.attempts) = 0
        BY <2>1, NullIsNoJob
      <3>2. RowUsed(n) = 0
        BY <2>1, <3>1, UsedUp
      <3> QED BY <2>1, <3>1, <3>2 DEF RowPhase, RowHolder
    <2>4. RowPhase(job[j]) = "absent" /\ RowHolder(job[j]) = Null /\ RowUsed(job[j]) = 0
      BY <2>1 DEF RowPhase, RowHolder, RowUsed
    <2>5. holderOf' = holderOf /\ usedOf' = usedOf
      BY <2>2, <2>3, <2>4 DEF holderOf, usedOf
    <2> QED BY <2>2, <2>3, <2>4, <2>5, Submits
  <1>3. ASSUME NEW w \in Workers, claim(w, k) PROVE QueueStep
    <2>1. PICK j \in JobIds, r \in JobQueue, s \in JobQueue, t \in WorkState :
             /\ job[j] = r /\ r.kind = k /\ r.status \in {"queued", "retry_wait"} /\ RowOK(r)
             /\ job' = [job EXCEPT ![j] = s]
             /\ worker' = [worker EXCEPT ![w][k] = t] /\ t.pc = "claimed" /\ t.job = j /\ t.done = 0
             /\ Ages(r, s) /\ RowOK(s)
             /\ s.status = "running" /\ s.owner = w /\ s.live /\ s.processed = r.processed
             /\ s.attempts = Append(r.attempts, "running") /\ Len(s.attempts) = Len(r.attempts) + 1
      BY <1>0, <1>3, ClaimedJob
    <2>2. /\ phaseOf' = [phaseOf EXCEPT ![j] = RowPhase(s)]
          /\ holderOf' = [holderOf EXCEPT ![j] = RowHolder(s)]
          /\ usedOf' = [usedOf EXCEPT ![j] = RowUsed(s)]
          /\ phaseOf[j] = RowPhase(job[j]) /\ holderOf[j] = RowHolder(job[j]) /\ usedOf[j] = RowUsed(job[j])
      BY <1>0, <2>1, OneRow
    <2>3. r # Null /\ s # Null /\ Len(r.attempts) \in Nat
      BY NullIsNoJob DEF JobQueue
    <2>4. RowUsed(r) = Len(r.attempts) /\ RowPhase(r) = "waiting" /\ Len(r.attempts) < MaxAttempts
      <3>1. RowUsed(r) = Len(r.attempts)
        BY <2>1, <2>3, UsedUp
      <3> QED BY <2>1, <2>3, <3>1 DEF RowPhase, RowOK
    <2>5. RowUsed(s) = Len(r.attempts) /\ RowPhase(s) = "leased" /\ RowHolder(s) = w
      <3>1. RowUsed(s) = (Len(r.attempts) + 1) - 1
        BY <2>1, <2>3, UsedUp
      <3> QED BY <2>1, <2>3, <3>1 DEF RowPhase, RowHolder
    <2>6. usedOf' = usedOf
      BY <2>1, <2>2, <2>4, <2>5 DEF usedOf
    <2>7. /\ phaseOf[j] = "waiting" /\ usedOf[j] < MaxAttempts
          /\ phaseOf' = [phaseOf EXCEPT ![j] = "leased"] /\ holderOf' = [holderOf EXCEPT ![j] = w]
      BY <2>1, <2>2, <2>4, <2>5
    <2> QED BY <1>3, <2>6, <2>7, Leases
  <1>4. ASSUME NEW w \in Workers, recover_expired_leases(w, k) PROVE QueueStep
    <2>1. PICK j \in JobIds, r \in JobQueue, s \in JobQueue :
             /\ job[j] = r /\ r.status = "running" /\ ~r.live /\ ~Locked(j) /\ RowOK(r) /\ Len(r.attempts) > 0
             /\ job' = [job EXCEPT ![j] = s]
             /\ Ends(r, s, IF Len(r.attempts) < MaxAttempts THEN "retry_wait" ELSE "failed", Len(r.attempts), "failed")
      BY <1>0, <1>4, RecoveredJob
    <2>2. PICK status : /\ Ends(r, s, status, Len(r.attempts), "failed")
                        /\ \/ status = "retry_wait" /\ Len(r.attempts) < MaxAttempts
                           \/ status = "failed"
      BY <2>1
    <2> QED BY <2>1, <2>2, EndsSettles
  <1>5. ASSUME NEW w \in Workers, heartbeat(w, k) PROVE QueueStep
    <2>1. PICK j \in JobIds : j = worker[w][k].job /\ job[j] \in JobQueue /\ job[j] # Null
      BY <1>0, <1>5, Worker DEF heartbeat
    <2>2. PICK s : s = [job[j] EXCEPT !.live = TRUE]
      OBVIOUS
    <2>3. /\ job' = [job EXCEPT ![j] = s] /\ s \in JobQueue
          /\ s.status = job[j].status /\ s.owner = job[j].owner /\ s.attempts = job[j].attempts
      BY <1>5, <2>1, <2>2 DEF heartbeat, JobQueue
    <2> QED BY <2>1, <2>3, TouchStutters
  <1>6. ASSUME NEW w \in Workers, Begin(w, k) PROVE QueueStep
    BY <1>6, SameJobsStutter DEF Begin
  <1>7. ASSUME NEW w \in Workers, renew(w, k) PROVE QueueStep
    BY <1>7, SameJobsStutter DEF renew
  <1>8. ASSUME NEW w \in Workers, NEW retryable \in BOOLEAN, fail(w, k, retryable) PROVE QueueStep
    <2>1. CASE UNCHANGED job
      BY <2>1, SameJobsStutter
    <2>2. CASE \E j \in JobIds, r \in JobQueue, s \in JobQueue :
                /\ j = worker[w][k].job /\ job[j] = r /\ Holds(w, j) /\ r.status = "running" /\ Len(r.attempts) > 0
                /\ job' = [job EXCEPT ![j] = s]
                /\ \/ Ends(r, s, IF Len(r.attempts) < MaxAttempts THEN "retry_wait" ELSE "failed", Len(r.attempts), "failed")
                   \/ Ends(r, s, "failed", Len(r.attempts), "failed")
      <3>1. PICK j \in JobIds, r \in JobQueue, s \in JobQueue :
                /\ job[j] = r /\ Holds(w, j) /\ r.status = "running"
                /\ job' = [job EXCEPT ![j] = s]
                /\ \/ Ends(r, s, IF Len(r.attempts) < MaxAttempts THEN "retry_wait" ELSE "failed", Len(r.attempts), "failed")
                   \/ Ends(r, s, "failed", Len(r.attempts), "failed")
        BY <2>2
      <3>2. PICK status : /\ Ends(r, s, status, Len(r.attempts), "failed")
                          /\ \/ status = "retry_wait" /\ Len(r.attempts) < MaxAttempts
                             \/ status = "failed"
        BY <3>1
      <3>3. RowOK(r)
        BY <1>0, <3>1 DEF JobIInv, RowsOK, Holds, Running
      <3> QED BY <3>1, <3>2, <3>3, EndsSettles
    <2> QED BY <1>0, <1>8, <2>1, <2>2, FailedJob
  <1>9. ASSUME NEW w \in Workers, k = "sync", _persist_search_rows(w) PROVE QueueStep
    BY <1>9, SameJobsStutter DEF _persist_search_rows
  <1>10. ASSUME NEW w \in Workers, k = "sync", _process_search_sync_job(w) PROVE QueueStep
    <2>1. PICK j \in JobIds, r \in JobQueue, s \in JobQueue :
             /\ j = worker[w]["sync"].job /\ job[j] = r /\ r.kind = "sync" /\ Holds(w, j)
             /\ r.status = "running" /\ Len(r.attempts) > 0
             /\ job' = [job EXCEPT ![j] = s]
             /\ Ends(r, s, "completed", Len(r.attempts), "completed")
             /\ InScope(conn, r.property) /\ metrics' = r.property
      BY <1>0, <1>10, SyncedJob
    <2>2. RowOK(r)
      BY <1>0, <2>1 DEF JobIInv, RowsOK, Holds, Running
    <2> QED BY <2>1, <2>2, EndsSettles
  <1>11. ASSUME NEW w \in Workers, k = "inspection", _inspect_url(w) PROVE QueueStep
    <2>1. PICK j \in JobIds, r \in JobQueue, s \in JobQueue, u \in 1..Urls :
             /\ j = worker[w]["inspection"].job /\ job[j] = r /\ r.kind = "inspection" /\ r # Null /\ s # Null
             /\ u = worker[w]["inspection"].done + 1
             /\ job' = [job EXCEPT ![j] = s]
             /\ s.kind = r.kind /\ s.property = r.property /\ s.status = r.status /\ s.attempts = r.attempts
             /\ s.owner = r.owner /\ s.live = r.live /\ s.processed = u
             /\ 1..(u - 1) \subseteq inspected[j] /\ inspected' = [inspected EXCEPT ![j] = @ \cup {u}]
      BY <1>0, <1>11, UrlInspected
    <2> QED BY <2>1, TouchStutters
  <1>12. ASSUME NEW w \in Workers, k = "inspection", _process_job(w) PROVE QueueStep
    <2>1. PICK j \in JobIds, r \in JobQueue, s \in JobQueue, m \in 1..Len(job[worker[w]["inspection"].job].attempts) :
             /\ j = worker[w]["inspection"].job /\ job[j] = r /\ r.kind = "inspection"
             /\ job' = [job EXCEPT ![j] = s]
             /\ Ends(r, s, "completed", m, "completed")
             /\ inspected[j] = 1..Urls
             /\ lost = 0 => m = Len(r.attempts)
      BY <1>0, <1>12, InspectedJob
    <2>2. RowOK(r)
      BY <1>0, <2>1, NullIsNoJob DEF JobIInv, RowsOK
    <2> QED BY <2>1, <2>2, EndsSettles
  <1>13. ASSUME NEW j \in JobIds, CooldownEnds(j) PROVE QueueStep
    <2>1. PICK s : s = [job[j] EXCEPT !.recent = FALSE]
      OBVIOUS
    <2>2. job[j] \in JobQueue /\ job[j] # Null
      BY <1>0, <1>13, ARow DEF CooldownEnds
    <2>3. /\ job' = [job EXCEPT ![j] = s] /\ s \in JobQueue
          /\ s.status = job[j].status /\ s.owner = job[j].owner /\ s.attempts = job[j].attempts
      BY <1>13, <2>1, <2>2 DEF CooldownEnds, JobQueue
    <2> QED BY <2>2, <2>3, TouchStutters
  <1>14. ASSUME NEW j \in JobIds, LeaseExpires(j) PROVE QueueStep
    <2>1. PICK s : s = [job[j] EXCEPT !.live = FALSE]
      OBVIOUS
    <2>2. job[j] \in JobQueue /\ job[j] # Null
      BY <1>0, <1>14, ARow DEF LeaseExpires, Running
    <2>3. /\ job' = [job EXCEPT ![j] = s] /\ s \in JobQueue
          /\ s.status = job[j].status /\ s.owner = job[j].owner /\ s.attempts = job[j].attempts
      BY <1>14, <2>1, <2>2 DEF LeaseExpires, JobQueue
    <2> QED BY <2>2, <2>3, TouchStutters
  <1>15. ASSUME NEW w \in Workers, WorkerDies(w) PROVE QueueStep
    BY <1>15, SameJobsStutter DEF WorkerDies
  <1> QED BY <1>1, <1>2, <1>3, <1>4, <1>5, <1>6, <1>7, <1>8, <1>9, <1>10, <1>11, <1>12, <1>13, <1>14, <1>15
       DEF JobNext, Work

LEMMA QueueStarts ==
    ASSUME SearchInit
    PROVE  SearchQueue!QInit
  <1>1. \A j \in JobIds : job[j] = Null
    BY DEF SearchInit, JobInit
  <1> QED BY <1>1, Mapping DEF SearchQueue!QInit, phaseOf, holderOf, usedOf, RowPhase, RowHolder, RowUsed, Running

\* Search jobs are the tasks of a durable queue, of as many workers and jobs as
\* there are, while leases are lost and stale workers write.
THEOREM SearchJobsAreQueued == SearchSpec => JobsAreQueued
  <1>1. ASSUME SearchIInv, [SearchNext]_searchVars PROVE QueueStep
    <2>1. CASE UNCHANGED jobVars
      BY <2>1, SameJobsStutter DEF jobVars
    <2>2. CASE \E k \in Kinds : JobNext(k)
      BY <1>1, <2>2, JobStepRefines
    <2> QED BY <1>1, <2>1, <2>2 DEF SearchNext, searchVars, jobVars
  <1>2. SearchIInv /\ [SearchNext]_searchVars => [SearchQueue!QNext]_(SearchQueue!qvars)
    BY <1>1 DEF QueueStep
  <1> QED BY <1>2, QueueStarts, SearchInvariance, PTL DEF SearchSpec, JobsAreQueued, SearchQueue!QSpec
-----------------------------------------------------------------------------
OpportunitySpec == OpportunitiesInit /\ [][OpportunitiesNext]_opportunityVars

Shown == [OpportunityKeys -> {"absent", "active", "resolved"}]
Drafted == [OpportunityKeys -> PipelineAction]
Flushed ==
    [pc : {"flushed"}, opportunity : Shown, draft : Drafted, newOpportunity : Shown, newDraft : Drafted]

OpportunityTypes ==
    /\ opportunity \in Shown
    /\ draft \in Drafted
    /\ withdrawn \subseteq OpportunityKeys
    /\ reconciler \in [Reconcilers -> {AtRest} \cup Flushed]
    /\ crossings \in 0..MaxCrossings

\* An action beside its opportunity: a draft is for one that is there, and the mark
\* of a resolved opportunity is on what a reconciler has cancelled, and on that only.
InStep(shown, a, k) ==
    /\ shown = "resolved" => a.status # "draft"
    /\ a.resolved <=> a.status = "cancelled" /\ k \notin withdrawn
    /\ k \in withdrawn => a.status = "cancelled"

\* What users have decided, and no reconciler may.
Decided(a) == a.status \notin {"absent", "draft"} /\ ~(a.status = "cancelled" /\ a.resolved)

\* A reconciler that nobody has crossed has read what is there, and is about to
\* write what is in step again.
ReadOfNow(s) ==
    /\ s.opportunity = opportunity /\ s.draft = draft
    /\ \A k \in OpportunityKeys :
          /\ InStep(s.newOpportunity[k], s.newDraft[k], k)
          /\ Decided(draft[k]) => s.newDraft[k].status = draft[k].status

InStepNow == \A k \in OpportunityKeys : InStep(opportunity[k], draft[k], k)
ReadsOfNow == \A r \in Reconcilers : reconciler[r].pc = "flushed" => ReadOfNow(reconciler[r])

OpportunityIInv == OpportunityTypes /\ (crossings = 0 => InStepNow /\ ReadsOfNow)
-----------------------------------------------------------------------------
AnyVersion == [status : Statuses, version : Nat, resolved : BOOLEAN]

LEMMA AlignedAction ==
    ASSUME NEW a \in PipelineAction, NEW c \in BOOLEAN
    PROVE  /\ Aligned(a, c) \in AnyVersion
           /\ a.status = "absent" => Aligned(a, c).status = "draft" /\ Aligned(a, c).resolved = FALSE
           /\ a.status = "cancelled" /\ a.resolved => Aligned(a, c).status = "draft" /\ ~Aligned(a, c).resolved
           /\ a.status # "absent" /\ ~(a.status = "cancelled" /\ a.resolved) =>
                 Aligned(a, c).status = a.status /\ Aligned(a, c).resolved = a.resolved
<1>0. a \in AnyVersion /\ MaxVersion \in Nat
  BY OpportunityConstants DEF PipelineAction, AnyVersion
<1>1. CASE a.status = "absent"
  <2>1. PICK b : b = [NoAction EXCEPT !.status = "draft", !.version = 1]
    OBVIOUS
  <2>2. b \in AnyVersion /\ b.status = "draft" /\ b.resolved = FALSE
    BY <2>1 DEF NoAction, AnyVersion, Statuses
  <2>3. Aligned(a, c) = b
    BY <1>1, <2>1 DEF Aligned
  <2> QED BY <1>1, <2>2, <2>3
<1>2. CASE a.status # "absent"
  <2>1. PICK b : b = Reactivated(a)
    OBVIOUS
  <2>2. /\ b \in AnyVersion
        /\ a.status = "cancelled" /\ a.resolved => b.status = "draft" /\ b.resolved = FALSE
        /\ ~(a.status = "cancelled" /\ a.resolved) => b = a
    BY <1>0, <2>1 DEF Reactivated, AnyVersion, Statuses
  <2>3. PICK v : v = IF b.status = "draft" /\ c THEN b.version + 1 ELSE b.version
    OBVIOUS
  <2>4. v \in Nat
    BY <2>2, <2>3 DEF AnyVersion
  <2>5. PICK d : d = [b EXCEPT !.version = v]
    OBVIOUS
  <2>6. d \in AnyVersion /\ d.status = b.status /\ d.resolved = b.resolved
    BY <2>2, <2>4, <2>5 DEF AnyVersion
  <2>7. Aligned(a, c) = d
    BY <1>2, <2>1, <2>3, <2>5 DEF Aligned
  <2> QED BY <1>2, <2>2, <2>6, <2>7
<1> QED BY <1>1, <1>2

LEMMA CancelledAction ==
    ASSUME NEW a \in PipelineAction
    PROVE  /\ CancelledByResolution(a) \in AnyVersion
           /\ a.status = "draft" =>
                 CancelledByResolution(a).status = "cancelled" /\ CancelledByResolution(a).resolved = TRUE
           /\ a.status # "draft" => CancelledByResolution(a) = a
  BY OpportunityConstants DEF PipelineAction, AnyVersion, CancelledByResolution, Statuses

\* Whoever commits crosses those that are at work.
LEMMA Crossings ==
    ASSUME OpportunityTypes, NEW others \in SUBSET Reconcilers, CrossesOver(others)
    PROVE  /\ crossings' \in 0..MaxCrossings
           /\ crossings' = 0 => crossings = 0 /\ \A r \in others : reconciler[r].pc = "idle"
  BY OpportunityConstants DEF OpportunityTypes, CrossesOver

LEMMA AtRestOrFlushed ==
    ASSUME OpportunityTypes, NEW r \in Reconcilers
    PROVE  /\ reconciler[r] = AtRest \/ (reconciler[r] \in Flushed /\ reconciler[r].pc = "flushed")
           /\ AtRest.pc = "idle"
  BY DEF OpportunityTypes, Flushed, AtRest
-----------------------------------------------------------------------------
\* Users.

LEMMA MovesKeep ==
    ASSUME OpportunityIInv, NEW k \in OpportunityKeys, NEW from, NEW to \in Statuses, Moves(k, from, to),
           \/ /\ withdrawn' = withdrawn
              /\ to \in {"needs_approval", "approved", "rejected"} /\ from \subseteq {"draft", "needs_approval"}
           \/ /\ withdrawn' = withdrawn \cup {k}
              /\ to = "cancelled" /\ from \subseteq {"draft", "needs_approval", "approved"}
    PROVE  OpportunityIInv'
<1> USE DEF OpportunityTypes
<1>1. OpportunityTypes
  BY DEF OpportunityIInv
<1>2. PICK d : d = draft[k]
  OBVIOUS
<1>v. PICK v : v = d.version + 1
  OBVIOUS
<1>a. PICK a : a = [d EXCEPT !.status = to, !.version = v]
  OBVIOUS
<1>3. draft[k] \in PipelineAction /\ draft[k].version < MaxVersion /\ draft[k].status \in from
  BY <1>1 DEF Moves, Drafted
<1>4. a \in PipelineAction /\ a.status = to /\ a.resolved = draft[k].resolved
  <2>1. MaxVersion \in Nat
    BY OpportunityConstants
  <2>2. d.version \in 0..MaxVersion /\ d.version < MaxVersion
    BY <1>2, <1>3 DEF PipelineAction
  <2>3. v \in 0..MaxVersion
    BY ONLY <2>1, <2>2, <1>v
  <2> QED BY <1>2, <1>3, <1>a, <2>3 DEF PipelineAction
<1>5. draft' = [draft EXCEPT ![k] = a]
  BY <1>1, <1>2, <1>v, <1>a DEF Moves, Drafted
<1>6. draft' \in Drafted /\ draft'[k] = a /\ \A l \in OpportunityKeys \ {k} : draft'[l] = draft[l]
  BY <1>1, <1>4, <1>5 DEF Drafted
<1>7. /\ crossings' \in 0..MaxCrossings
      /\ crossings' = 0 => crossings = 0 /\ \A r \in Reconcilers : reconciler[r].pc = "idle"
  BY <1>1, Crossings DEF Moves
<1>8. OpportunityTypes'
  BY <1>1, <1>6, <1>7 DEF Moves, Shown, Drafted, Flushed, PipelineAction
<1>9. ASSUME crossings' = 0 PROVE InStepNow'
  <2>1. InStepNow
    BY <1>7, <1>9 DEF OpportunityIInv
  <2> SUFFICES ASSUME NEW l \in OpportunityKeys PROVE InStep(opportunity[l], draft[l], l)'
    BY DEF InStepNow, OpportunityKeys
  <2>2. InStep(opportunity[l], draft[l], l) /\ InStep(opportunity[k], draft[k], k)
    BY <2>1 DEF InStepNow
  <2>3. CASE l = k
    <3>1. draft'[k].status = to /\ draft'[k].resolved = draft[k].resolved /\ opportunity' = opportunity
      BY <1>4, <1>6 DEF Moves
    <3> QED BY <2>2, <2>3, <3>1, <1>3 DEF InStep
  <2>4. CASE l # k
    <3>1. draft'[l] = draft[l] /\ opportunity' = opportunity /\ (l \in withdrawn' <=> l \in withdrawn)
      BY <2>4, <1>6 DEF Moves
    <3> QED BY <2>2, <3>1 DEF InStep
  <2> QED BY <2>3, <2>4
<1>10. ASSUME crossings' = 0 PROVE ReadsOfNow'
  BY <1>7, <1>10 DEF ReadsOfNow, Moves
<1> QED BY <1>8, <1>9, <1>10 DEF OpportunityIInv

LEMMA UsersKeep ==
    ASSUME OpportunityIInv, NEW k \in OpportunityKeys, propose(k) \/ decide(k) \/ withdraw(k)
    PROVE  OpportunityIInv'
<1>1. CASE propose(k)
  BY <1>1, MovesKeep DEF propose, Statuses
<1>2. CASE decide(k)
  <2>1. PICK to \in {"approved", "rejected"} : Moves(k, {"needs_approval"}, to)
    BY <1>2 DEF decide
  <2> QED BY <1>2, <2>1, MovesKeep DEF decide, Statuses
<1>3. CASE withdraw(k)
  BY <1>3, MovesKeep DEF withdraw, Statuses
<1> QED BY <1>1, <1>2, <1>3
-----------------------------------------------------------------------------
\* Reconciliation: what a reconciler flushes.

\* What a reconciler makes of an action: it is brought up to date, cancelled or
\* left alone.
LEMMA FlushedAction ==
    ASSUME NEW k \in OpportunityKeys, NEW a \in PipelineAction, NEW changed
    PROVE  \E b, c : /\ b = Aligned(a, k \in changed) /\ c = CancelledByResolution(a)
                     /\ {a, b, c} \subseteq AnyVersion
                     /\ \A shown \in {"absent", "active", "resolved"} : InStep(shown, a, k) =>
                           /\ InStep("active", a, k)
                           /\ InStep("active", b, k) /\ (Decided(a) => b.status = a.status)
                           /\ InStep("resolved", c, k) /\ (Decided(a) => c.status = a.status)
<1>1. (k \in changed) \in BOOLEAN
  OBVIOUS
<1>2. PICK b : b = Aligned(a, k \in changed)
  OBVIOUS
<1>3. /\ b \in AnyVersion
      /\ a.status = "absent" => b.status = "draft" /\ b.resolved = FALSE
      /\ a.status = "cancelled" /\ a.resolved => b.status = "draft" /\ ~b.resolved
      /\ a.status # "absent" /\ ~(a.status = "cancelled" /\ a.resolved) =>
            b.status = a.status /\ b.resolved = a.resolved
  BY <1>1, <1>2, AlignedAction
<1>4. PICK c : c = CancelledByResolution(a)
  OBVIOUS
<1>5. /\ c \in AnyVersion
      /\ a.status = "draft" => c.status = "cancelled" /\ c.resolved = TRUE
      /\ a.status # "draft" => c = a
  BY <1>4, CancelledAction
<1>6. a \in AnyVersion
  BY OpportunityConstants DEF PipelineAction, AnyVersion
<1>7. ASSUME NEW shown \in {"absent", "active", "resolved"}, InStep(shown, a, k)
      PROVE  /\ InStep("active", a, k)
             /\ InStep("active", b, k) /\ (Decided(a) => b.status = a.status)
             /\ InStep("resolved", c, k) /\ (Decided(a) => c.status = a.status)
  BY <1>3, <1>5, <1>7 DEF InStep, Decided
<1> QED BY <1>2, <1>3, <1>4, <1>5, <1>6, <1>7

\* The shape of a step that reconciles.
FlushOf(r, kind, found, top, changed) ==
    LET gone == Resolves(kind, opportunity, found) IN
    [pc |-> "flushed", opportunity |-> opportunity, draft |-> draft,
     newOpportunity |-> [k \in OpportunityKeys |->
        IF k \in found THEN "active" ELSE IF k \in gone THEN "resolved" ELSE opportunity[k]],
     newDraft |-> _reconcile_opportunity_actions(draft, top, gone, changed)]

LEMMA ReconcileKeeps ==
    ASSUME OpportunityIInv, NEW r \in Reconcilers, NEW kind \in {"search", "inspection"}, reconcile(r, kind)
    PROVE  /\ OpportunityIInv'
           /\ LET touched == {k \in OpportunityKeys : reconciler'[r].newOpportunity[k] # opportunity[k]}
              IN  touched \subseteq Own(kind)
           /\ reconciler' = [reconciler EXCEPT ![r] = reconciler'[r]]
<1>1. PICK found \in SUBSET Own(kind), changed \in {{}, Own(kind)} : \E top \in SUBSET found :
          reconciler' = [reconciler EXCEPT ![r] = FlushOf(r, kind, found, top, changed)]
  BY DEF reconcile, FlushOf
<1>2. PICK top \in SUBSET found : reconciler' = [reconciler EXCEPT ![r] = FlushOf(r, kind, found, top, changed)]
  BY <1>1
<1>3. PICK gone : gone = Resolves(kind, opportunity, found)
  OBVIOUS
<1>4. /\ gone \cap found = {} /\ gone \subseteq Own(kind)
      /\ \A k \in gone : opportunity[k] = "active"
  BY <1>3 DEF Resolves, Active
<1>5. PICK n : n = [k \in OpportunityKeys |->
        IF k \in found THEN "active" ELSE IF k \in gone THEN "resolved" ELSE opportunity[k]]
  OBVIOUS
<1>6. PICK m : m = _reconcile_opportunity_actions(draft, top, gone, changed)
  OBVIOUS
<1>7. PICK s : s = [pc |-> "flushed", opportunity |-> opportunity, draft |-> draft, newOpportunity |-> n, newDraft |-> m]
  OBVIOUS
<1>8. s = FlushOf(r, kind, found, top, changed)
  BY <1>3, <1>5, <1>6, <1>7 DEF FlushOf
<1>9. /\ reconciler' = [reconciler EXCEPT ![r] = s]
      /\ s.pc = "flushed" /\ s.opportunity = opportunity /\ s.draft = draft /\ s.newOpportunity = n /\ s.newDraft = m
  <2>1. reconciler' = [reconciler EXCEPT ![r] = s]
    BY <1>2, <1>8
  <2>2. s.pc = "flushed" /\ s.opportunity = opportunity /\ s.draft = draft /\ s.newOpportunity = n /\ s.newDraft = m
    BY <1>7
  <2> QED BY <2>1, <2>2
<1>10. OpportunityTypes
  BY DEF OpportunityIInv
<1>11. /\ opportunity' = opportunity /\ draft' = draft /\ withdrawn' = withdrawn /\ crossings' = crossings
       /\ \A k \in OpportunityKeys : reconciler'[r].newDraft[k].version <= MaxVersion
  BY DEF reconcile
<1>12. reconciler'[r] = s /\ \A q \in Reconcilers \ {r} : reconciler'[q] = reconciler[q]
  BY <1>9, <1>10 DEF OpportunityTypes
<1>13. n \in Shown
  <2>1. \A k \in OpportunityKeys : opportunity[k] \in {"absent", "active", "resolved"}
    BY <1>10 DEF OpportunityTypes, Shown
  <2>2. \A k \in OpportunityKeys : n[k] \in {"absent", "active", "resolved"}
    BY <1>5, <2>1
  <2> QED BY <1>5, <2>2 DEF Shown
<1>14. \A k \in OpportunityKeys : m[k] =
            IF k \in top THEN Aligned(draft[k], k \in changed)
            ELSE IF k \in gone THEN CancelledByResolution(draft[k]) ELSE draft[k]
  BY <1>6 DEF _reconcile_opportunity_actions
<1>15. ASSUME NEW k \in OpportunityKeys PROVE m[k] \in PipelineAction
  <2>1. draft[k] \in PipelineAction
    BY <1>10 DEF OpportunityTypes, Drafted
  <2>2. m[k] \in AnyVersion
    <3>1. PICK b, c : b = Aligned(draft[k], k \in changed) /\ c = CancelledByResolution(draft[k])
                      /\ {draft[k], b, c} \subseteq AnyVersion
      BY <2>1, FlushedAction
    <3>2. m[k] = IF k \in top THEN b ELSE IF k \in gone THEN c ELSE draft[k]
      BY <1>14, <3>1
    <3> QED BY <3>1, <3>2
  <2>3. m[k].version <= MaxVersion
    BY <1>9, <1>11, <1>12
  <2> QED BY <2>2, <2>3, OpportunityConstants DEF AnyVersion, PipelineAction
<1>16. m \in Drafted
  BY <1>6, <1>15 DEF Drafted, _reconcile_opportunity_actions
<1>17. s \in Flushed
  BY <1>7, <1>10, <1>13, <1>16 DEF Flushed, OpportunityTypes
<1>18. OpportunityTypes'
  BY <1>10, <1>9, <1>11, <1>17 DEF OpportunityTypes, Shown, Drafted, PipelineAction, Flushed, AtRest
<1>19. ASSUME crossings' = 0 PROVE InStepNow' /\ ReadsOfNow'
  <2>1. InStepNow /\ ReadsOfNow
    BY <1>11, <1>19 DEF OpportunityIInv
  <2>2. InStepNow'
    <3> SUFFICES ASSUME NEW k \in OpportunityKeys PROVE InStep(opportunity[k], draft[k], k)'
      BY DEF InStepNow, OpportunityKeys
    <3>1. InStep(opportunity[k], draft[k], k)
      BY <2>1 DEF InStepNow
    <3> QED BY <3>1, <1>11 DEF InStep
  <2>3. ASSUME NEW k \in OpportunityKeys
        PROVE  InStep(n[k], m[k], k) /\ (Decided(draft[k]) => m[k].status = draft[k].status)
    <3>1. draft[k] \in PipelineAction /\ opportunity[k] \in {"absent", "active", "resolved"}
      BY <1>10 DEF OpportunityTypes, Drafted, Shown
    <3>2. InStep(opportunity[k], draft[k], k)
      BY <2>1 DEF InStepNow
    <3>3. n[k] = IF k \in found THEN "active" ELSE IF k \in gone THEN "resolved" ELSE opportunity[k]
      BY <1>5
    <3>4. PICK b, c : /\ b = Aligned(draft[k], k \in changed) /\ c = CancelledByResolution(draft[k])
                      /\ InStep("active", draft[k], k)
                      /\ InStep("active", b, k) /\ (Decided(draft[k]) => b.status = draft[k].status)
                      /\ InStep("resolved", c, k) /\ (Decided(draft[k]) => c.status = draft[k].status)
      BY <3>1, <3>2, FlushedAction
    <3>5. m[k] = IF k \in top THEN b ELSE IF k \in gone THEN c ELSE draft[k]
      BY <1>14, <3>4
    <3>6. (k \in top => k \in found) /\ (k \in gone => k \notin found)
      BY <1>4
    <3> QED BY <3>2, <3>3, <3>4, <3>5, <3>6
  <2>4. ReadOfNow(s)'
    <3>1. s.opportunity = opportunity' /\ s.draft = draft'
      BY <1>9, <1>11
    <3>2. ASSUME NEW k \in OpportunityKeys
          PROVE  InStep(s.newOpportunity[k], s.newDraft[k], k)' /\ (Decided(draft[k])' => s.newDraft[k].status = draft'[k].status)
      BY <2>3, <1>9, <1>11 DEF InStep, Decided
    <3> QED BY <3>1, <3>2 DEF ReadOfNow, OpportunityKeys
  <2>5. ASSUME NEW q \in Reconcilers, reconciler'[q].pc = "flushed" PROVE ReadOfNow(reconciler[q])'
    <3>1. CASE q = r
      BY <3>1, <2>4, <1>12 DEF ReadOfNow
    <3>2. CASE q # r
      <4>1. ReadOfNow(reconciler[q])
        BY <2>1, <2>5, <3>2, <1>12 DEF ReadsOfNow
      <4> QED
        <5>1. PICK p : p = reconciler[q]
          OBVIOUS
        <5>2. reconciler'[q] = p
          BY <3>2, <5>1, <1>12
        <5>3. p.opportunity = opportunity' /\ p.draft = draft'
          BY <4>1, <5>1, <1>11 DEF ReadOfNow
        <5>4. ASSUME NEW k \in OpportunityKeys
              PROVE  /\ InStep(p.newOpportunity[k], p.newDraft[k], k)'
                     /\ Decided(draft[k])' => p.newDraft[k].status = draft'[k].status
          BY <4>1, <5>1, <1>11 DEF ReadOfNow, InStep, Decided
        <5> QED BY <5>2, <5>3, <5>4 DEF ReadOfNow, OpportunityKeys
    <3> QED BY <3>1, <3>2
  <2> QED BY <2>2, <2>5 DEF ReadsOfNow
<1>20. {k \in OpportunityKeys : reconciler'[r].newOpportunity[k] # opportunity[k]} \subseteq Own(kind)
  BY <1>4, <1>5, <1>9, <1>12
<1> QED BY <1>9, <1>12, <1>18, <1>19, <1>20 DEF OpportunityIInv
-----------------------------------------------------------------------------
\* Reconciliation: what it commits.

\* The row of an action after the commit of s, where no field is of a third kind.
MergedRow(s, k) ==
    IF s.draft[k].status = "absent" THEN IF draft[k].status = "absent" THEN s.newDraft[k] ELSE draft[k]
    ELSE [f \in DOMAIN NoAction |->
            IF s.newDraft[k][f] # s.draft[k][f] THEN s.newDraft[k][f] ELSE draft[k][f]]

LEMMA MergedActions ==
    ASSUME OpportunityTypes, NEW s \in Flushed, NEW k \in OpportunityKeys
    PROVE  /\ MergedRow(s, k) \in PipelineAction
           /\ s.draft = draft => MergedRow(s, k).status = s.newDraft[k].status /\ MergedRow(s, k).resolved = s.newDraft[k].resolved
<1>1. PICK a, old, new : a = draft[k] /\ old = s.draft[k] /\ new = s.newDraft[k]
  OBVIOUS
<1>2. a \in PipelineAction /\ old \in PipelineAction /\ new \in PipelineAction
  BY <1>1 DEF OpportunityTypes, Flushed, Drafted
<1>3. CASE old.status = "absent"
  <2>1. MergedRow(s, k) = IF a.status = "absent" THEN new ELSE a
    BY <1>1, <1>3 DEF MergedRow
  <2> QED BY <1>1, <1>2, <1>3, <2>1
<1>4. CASE old.status # "absent"
  <2>1. PICK b : b = [f \in DOMAIN NoAction |-> IF new[f] # old[f] THEN new[f] ELSE a[f]]
    OBVIOUS
  <2>2. DOMAIN NoAction = {"status", "version", "resolved"}
    BY DEF NoAction
  <2>3. b = [f \in {"status", "version", "resolved"} |-> IF new[f] # old[f] THEN new[f] ELSE a[f]]
    BY <2>1, <2>2
  <2>4. /\ b.status = IF new.status # old.status THEN new.status ELSE a.status
        /\ b.version = IF new.version # old.version THEN new.version ELSE a.version
        /\ b.resolved = IF new.resolved # old.resolved THEN new.resolved ELSE a.resolved
    BY <2>3
  <2>5. b \in PipelineAction
    BY <1>2, <2>3, <2>4 DEF PipelineAction
  <2>6. MergedRow(s, k) = b
    BY <1>1, <1>4, <2>1 DEF MergedRow
  <2> QED BY <1>1, <2>4, <2>5, <2>6
<1> QED BY <1>3, <1>4

LEMMA CommitKeeps ==
    ASSUME OpportunityIInv, NEW r \in Reconcilers, CommitReconciliation(r)
    PROVE  /\ OpportunityIInv'
           /\ crossings = 0 => \A k \in OpportunityKeys : Decided(draft[k]) => draft'[k].status = draft[k].status
<1>1. PICK s : s = reconciler[r]
  OBVIOUS
<1>2. OpportunityTypes
  BY DEF OpportunityIInv
<1>3. s \in Flushed /\ s.pc = "flushed"
  BY <1>1, <1>2, AtRestOrFlushed DEF CommitReconciliation
<1>4. /\ opportunity' = [k \in OpportunityKeys |->
            IF s.newOpportunity[k] # s.opportunity[k] THEN s.newOpportunity[k] ELSE opportunity[k]]
      /\ draft' = [k \in OpportunityKeys |-> MergedRow(s, k)]
      /\ reconciler' = [reconciler EXCEPT ![r] = AtRest]
      /\ CrossesOver(Reconcilers \ {r}) /\ withdrawn' = withdrawn
  BY <1>1 DEF CommitReconciliation, MergedRow
<1>5. \A k \in OpportunityKeys :
          opportunity'[k] = IF s.newOpportunity[k] # s.opportunity[k] THEN s.newOpportunity[k] ELSE opportunity[k]
  BY <1>4
<1>6. opportunity' \in Shown
  <2>1. \A k \in OpportunityKeys : {s.newOpportunity[k], opportunity[k]} \subseteq {"absent", "active", "resolved"}
    BY <1>2, <1>3 DEF OpportunityTypes, Flushed, Shown
  <2>2. \A k \in OpportunityKeys : opportunity'[k] \in {"absent", "active", "resolved"}
    BY <1>5, <2>1
  <2> QED BY <1>4, <2>2 DEF Shown
<1>7. draft' \in Drafted /\ \A k \in OpportunityKeys : draft'[k] = MergedRow(s, k)
  <2>1. \A k \in OpportunityKeys : MergedRow(s, k) \in PipelineAction
    BY <1>2, <1>3, MergedActions
  <2> QED BY <1>4, <2>1 DEF Drafted
<1>8. /\ crossings' \in 0..MaxCrossings
      /\ crossings' = 0 => crossings = 0 /\ \A q \in Reconcilers \ {r} : reconciler[q].pc = "idle"
  BY <1>2, <1>4, Crossings
<1>9. reconciler' \in [Reconcilers -> {AtRest} \cup Flushed]
  BY <1>2, <1>4 DEF OpportunityTypes
<1>10. OpportunityTypes'
  BY <1>2, <1>4, <1>6, <1>7, <1>8, <1>9 DEF OpportunityTypes, Shown, Drafted, PipelineAction, Flushed, AtRest
<1>11. ASSUME crossings = 0
       PROVE  ReadOfNow(s) /\ \A k \in OpportunityKeys :
                 /\ opportunity'[k] = s.newOpportunity[k]
                 /\ draft'[k].status = s.newDraft[k].status /\ draft'[k].resolved = s.newDraft[k].resolved
  <2>1. ReadOfNow(s)
    BY <1>1, <1>3, <1>11 DEF OpportunityIInv, ReadsOfNow
  <2>2. s.opportunity = opportunity /\ s.draft = draft
    BY <2>1 DEF ReadOfNow
  <2> QED BY <1>2, <1>3, <1>5, <1>7, <2>1, <2>2, MergedActions
<1>12. ASSUME crossings' = 0 PROVE InStepNow' /\ ReadsOfNow'
  <2>1. InStepNow'
    <3> SUFFICES ASSUME NEW k \in OpportunityKeys PROVE InStep(opportunity[k], draft[k], k)'
      BY DEF InStepNow, OpportunityKeys
    <3>1. InStep(s.newOpportunity[k], s.newDraft[k], k)
      BY <1>8, <1>11, <1>12 DEF ReadOfNow
    <3> QED BY <3>1, <1>4, <1>8, <1>11, <1>12 DEF InStep
  <2>2. \A q \in Reconcilers : reconciler'[q].pc = "idle"
    BY <1>2, <1>4, <1>8, <1>12, AtRestOrFlushed DEF OpportunityTypes
  <2> QED BY <2>1, <2>2 DEF ReadsOfNow
<1>13. ASSUME crossings = 0, NEW k \in OpportunityKeys, Decided(draft[k]) PROVE draft'[k].status = draft[k].status
  BY <1>11, <1>13 DEF ReadOfNow
<1> QED BY <1>10, <1>12, <1>13 DEF OpportunityIInv

LEMMA FailureKeeps ==
    ASSUME OpportunityIInv, NEW r \in Reconcilers, ReconciliationFails(r)
    PROVE  OpportunityIInv'
<1>1. OpportunityTypes
  BY DEF OpportunityIInv
<1>2. /\ opportunity' = opportunity /\ draft' = draft /\ withdrawn' = withdrawn /\ crossings' = crossings
      /\ reconciler' = [reconciler EXCEPT ![r] = AtRest]
  BY DEF ReconciliationFails
<1>3. OpportunityTypes'
  BY <1>1, <1>2 DEF OpportunityTypes, Shown, Drafted, PipelineAction, Flushed, AtRest
<1>4. InStepNow => InStepNow'
  <2> SUFFICES ASSUME InStepNow, NEW k \in OpportunityKeys PROVE InStep(opportunity[k], draft[k], k)'
    BY DEF InStepNow, OpportunityKeys
  <2> QED BY <1>2 DEF InStepNow, InStep
<1>5. ASSUME ReadsOfNow, NEW q \in Reconcilers, reconciler'[q].pc = "flushed" PROVE ReadOfNow(reconciler[q])'
  <2>1. q # r /\ reconciler'[q] = reconciler[q]
    BY <1>1, <1>2, <1>5 DEF OpportunityTypes, AtRest
  <2>2. PICK p : p = reconciler[q]
    OBVIOUS
  <2>3. ReadOfNow(p) /\ reconciler'[q] = p
    BY <2>1, <2>2, <1>5 DEF ReadsOfNow
  <2>4. p.opportunity = opportunity' /\ p.draft = draft'
    BY <2>3, <1>2 DEF ReadOfNow
  <2>5. ASSUME NEW k \in OpportunityKeys
        PROVE  /\ InStep(p.newOpportunity[k], p.newDraft[k], k)'
               /\ Decided(draft[k])' => p.newDraft[k].status = draft'[k].status
    BY <2>3, <1>2 DEF ReadOfNow, InStep, Decided
  <2> QED BY <2>3, <2>4, <2>5 DEF ReadOfNow, OpportunityKeys
<1> QED BY <1>2, <1>3, <1>4, <1>5 DEF OpportunityIInv, ReadsOfNow
-----------------------------------------------------------------------------
LEMMA OpportunitiesBegin == OpportunitiesInit => OpportunityIInv
<1> SUFFICES ASSUME OpportunitiesInit PROVE OpportunityIInv
  OBVIOUS
<1>1. NoAction \in PipelineAction /\ NoAction.status = "absent" /\ NoAction.resolved = FALSE
  BY OpportunityConstants DEF NoAction, PipelineAction, Statuses
<1>2. OpportunityTypes
  BY <1>1, OpportunityConstants DEF OpportunitiesInit, OpportunityTypes, Shown, Drafted
<1>3. InStepNow
  BY <1>1 DEF OpportunitiesInit, InStepNow, InStep
<1>4. ReadsOfNow
  BY DEF OpportunitiesInit, ReadsOfNow, AtRest
<1> QED BY <1>2, <1>3, <1>4 DEF OpportunityIInv

LEMMA OpportunitiesStep == OpportunityIInv /\ [OpportunitiesNext]_opportunityVars => OpportunityIInv'
<1> SUFFICES ASSUME OpportunityIInv, [OpportunitiesNext]_opportunityVars PROVE OpportunityIInv'
  OBVIOUS
<1>1. CASE UNCHANGED opportunityVars
  BY <1>1 DEF opportunityVars, OpportunityIInv, OpportunityTypes, InStepNow, ReadsOfNow, ReadOfNow, InStep, Decided,
              OpportunityKeys, Shown, Drafted, PipelineAction, Flushed, AtRest
<1>2. ASSUME NEW k \in OpportunityKeys, propose(k) \/ decide(k) \/ withdraw(k) PROVE OpportunityIInv'
  BY <1>2, UsersKeep
<1>3. ASSUME NEW r \in Reconcilers,
             reconcile(r, "search") \/ reconcile(r, "inspection") \/ CommitReconciliation(r) \/ ReconciliationFails(r)
      PROVE  OpportunityIInv'
  BY <1>3, ReconcileKeeps, CommitKeeps, FailureKeeps
<1> QED BY <1>1, <1>2, <1>3 DEF OpportunitiesNext

\* The inductive invariant, for every value of the constants.
THEOREM OpportunityInvariance == OpportunitySpec => []OpportunityIInv
  BY OpportunitiesBegin, OpportunitiesStep, PTL DEF OpportunitySpec
-----------------------------------------------------------------------------
\* What a step may not do.
DecisionsLeft ==
    \A k \in OpportunityKeys :
       (\E r \in Reconcilers : reconciler[r].pc = "flushed" /\ reconciler'[r].pc = "idle")
       /\ crossings = 0 /\ draft'[k].status # draft[k].status
       => draft[k].status \in {"absent", "draft"} \/ (draft[k].status = "cancelled" /\ draft[k].resolved)

OwnOnly ==
    \A r \in Reconcilers :
       reconciler[r].pc = "idle" /\ reconciler'[r].pc = "flushed"
       => LET touched == {k \in OpportunityKeys : reconciler'[r].newOpportunity[k] # opportunity[k]}
          IN touched \subseteq SearchKeys \/ touched \subseteq InspectionKeys

LEMMA OpportunitySteps ==
    ASSUME OpportunityIInv, OpportunitiesNext
    PROVE  DecisionsLeft /\ OwnOnly
<1>1. OpportunityTypes
  BY DEF OpportunityIInv
<1>2. ASSUME NEW k \in OpportunityKeys, propose(k) \/ decide(k) \/ withdraw(k) PROVE DecisionsLeft /\ OwnOnly
  <2>1. reconciler' = reconciler
    BY <1>2 DEF propose, decide, withdraw, Moves
  <2> QED BY <2>1 DEF DecisionsLeft, OwnOnly
<1>3. ASSUME NEW r \in Reconcilers, NEW kind \in {"search", "inspection"}, reconcile(r, kind)
      PROVE  DecisionsLeft /\ OwnOnly
  <2>1. draft' = draft
    BY <1>3 DEF reconcile
  <2>2. /\ {k \in OpportunityKeys : reconciler'[r].newOpportunity[k] # opportunity[k]} \subseteq Own(kind)
        /\ reconciler' = [reconciler EXCEPT ![r] = reconciler'[r]]
    BY <1>3, ReconcileKeeps
  <2>3. \A q \in Reconcilers : q = r \/ reconciler'[q] = reconciler[q]
    BY <2>2, <1>1 DEF OpportunityTypes
  <2>4. Own(kind) \in {SearchKeys, InspectionKeys}
    BY DEF Own
  <2>5. OwnOnly
    BY <2>2, <2>3, <2>4 DEF OwnOnly
  <2> QED BY <2>1, <2>5 DEF DecisionsLeft
<1>4. ASSUME NEW r \in Reconcilers, CommitReconciliation(r) \/ ReconciliationFails(r) PROVE DecisionsLeft /\ OwnOnly
  <2>1. reconciler' = [reconciler EXCEPT ![r] = AtRest]
    BY <1>4 DEF CommitReconciliation, ReconciliationFails
  <2>2. \A q \in Reconcilers : reconciler'[q] = AtRest \/ reconciler'[q] = reconciler[q]
    BY <2>1, <1>1 DEF OpportunityTypes
  <2>3. OwnOnly
    BY <2>2 DEF OwnOnly, AtRest
  <2>4. CASE CommitReconciliation(r)
    BY <2>3, <2>4, CommitKeeps DEF DecisionsLeft, Decided
  <2>5. CASE ReconciliationFails(r)
    BY <2>3, <2>5 DEF DecisionsLeft, ReconciliationFails
  <2> QED BY <1>4, <2>4, <2>5
<1> QED BY <1>2, <1>3, <1>4 DEF OpportunitiesNext

LEMMA OpportunityMeaning ==
    OpportunityIInv => OpportunitiesTypeOK /\ ResolvedLeavesNoDraft /\ WithdrawnStaysCancelled /\ CancelledDraftsAreMarked
<1> SUFFICES ASSUME OpportunityIInv
             PROVE  OpportunitiesTypeOK /\ ResolvedLeavesNoDraft /\ WithdrawnStaysCancelled /\ CancelledDraftsAreMarked
  OBVIOUS
<1>1. OpportunitiesTypeOK
  BY DEF OpportunityIInv, OpportunityTypes, OpportunitiesTypeOK, Shown, Drafted
<1>2. withdrawn \subseteq OpportunityKeys
  BY DEF OpportunityIInv, OpportunityTypes
<1>3. crossings = 0 => \A k \in OpportunityKeys : InStep(opportunity[k], draft[k], k)
  BY DEF OpportunityIInv, InStepNow
<1> QED BY <1>1, <1>2, <1>3 DEF InStep, ResolvedLeavesNoDraft, WithdrawnStaysCancelled, CancelledDraftsAreMarked

\* Drafts follow their opportunities, and users' decisions do not: as long as
\* nobody commits while a reconciler is at work.
THEOREM OpportunitiesAreSafe == OpportunitySpec => OpportunitySafety
<1>1. OpportunityIInv /\ [OpportunitiesNext]_opportunityVars => [DecisionsLeft]_opportunityVars
  BY OpportunitySteps
<1>2. OpportunityIInv /\ [OpportunitiesNext]_opportunityVars => [OwnOnly]_opportunityVars
  BY OpportunitySteps
<1>3. OpportunitySpec => [][DecisionsLeft]_opportunityVars /\ [][OwnOnly]_opportunityVars
  BY <1>1, <1>2, OpportunityInvariance, PTL DEF OpportunitySpec
<1>4. OpportunitySpec =>
        [](OpportunitiesTypeOK /\ ResolvedLeavesNoDraft /\ WithdrawnStaysCancelled /\ CancelledDraftsAreMarked)
  BY OpportunityMeaning, OpportunityInvariance, PTL
<1>5. ReconcilersLeaveDecisions <=> [][DecisionsLeft]_opportunityVars
  BY DEF ReconcilersLeaveDecisions, DecisionsLeft
<1>6. OwnOpportunitiesOnly <=> [][OwnOnly]_opportunityVars
  BY DEF OwnOpportunitiesOnly, OwnOnly
<1> QED BY <1>3, <1>4, <1>5, <1>6 DEF OpportunitySafety
-----------------------------------------------------------------------------
HalfMetrics == [clicks : Nat, impressions : Nat, position : Nat]

LEMMA RowMetrics ==
    ASSUME SignalsInit, NEW key \in Keys, NEW half \in Halves
    PROVE  rows[<<key, half>>] \in HalfMetrics
  BY SignalConstants DEF SignalsInit, HalfMetrics

LEMMA RecentMetrics ==
    ASSUME SignalsInit, NEW key \in Keys
    PROVE  /\ Recent(key).impressions \in Nat
           /\ Half(key, "previous").clicks \in Nat /\ Half(key, "current").clicks \in Nat
<1>1. \A half \in Halves : rows[<<key, half>>] \in HalfMetrics
  BY RowMetrics
<1>2. PICK a, b : a = rows[<<key, "previous">>] /\ b = rows[<<key, "current">>]
  OBVIOUS
<1>3. a \in HalfMetrics /\ b \in HalfMetrics
  BY <1>1, <1>2 DEF Halves
<1>4. /\ Half(key, "previous").clicks = a.clicks /\ Half(key, "previous").impressions = a.impressions
      /\ Half(key, "current").clicks = b.clicks /\ Half(key, "current").impressions = b.impressions
  BY <1>2 DEF Half
<1>5. Recent(key).impressions = a.impressions + b.impressions
  BY <1>4 DEF Recent, _weighted_metrics
<1> QED BY <1>3, <1>4, <1>5 DEF HalfMetrics

\* What the statement does not return is no opportunity.
LEMMA HavingIsEnough ==
    ASSUME SignalsInit, NEW key \in Keys, ~Having(key)
    PROVE  OfPage(key) = {}
<1>1. PICK m, old, new : m = Recent(key) /\ old = Half(key, "previous") /\ new = Half(key, "current")
  OBVIOUS
<1>2. m.impressions \in Nat /\ m.impressions < 20 /\ old.clicks \in Nat /\ old.clicks < 10
  BY <1>1, RecentMetrics DEF Having
<1>3. LowCtr(key, m) = {}
  BY <1>2 DEF LowCtr
<1>4. StrikingDistance(key, m) = {}
  BY <1>2 DEF StrikingDistance
<1>5. TrafficDecay(key, old, new) = {}
  BY <1>2 DEF TrafficDecay
<1> QED BY <1>1, <1>3, <1>4, <1>5 DEF OfPage

LEMMA DetectorsAreOne ==
    ASSUME SignalsInit
    PROVE  DetectorsAgree
<1> DEFINE groups == {key \in Keys : Having(key)}
<1>2. UNION {OfPage(key) : key \in groups} = UNION {OfPage(key) : key \in Keys}
  BY HavingIsEnough
<1>3. ASSUME NEW q \in Queries
      PROVE  {p \in Pages : <<q, p>> \in groups /\ Recent(<<q, p>>).impressions >= 20}
                = {p \in Pages : Recent(<<q, p>>).impressions >= 20}
  <2>1. ASSUME NEW p \in Pages, Recent(<<q, p>>).impressions >= 20 PROVE <<q, p>> \in groups
    BY <2>1 DEF Keys, Having
  <2> QED BY <2>1
<1> HIDE DEF groups
<1>4. UNION {Cannibalization(q, {p \in Pages : <<q, p>> \in groups /\ Recent(<<q, p>>).impressions >= 20}) : q \in Queries}
        = UNION {Cannibalization(q, {p \in Pages : Recent(<<q, p>>).impressions >= 20}) : q \in Queries}
  BY <1>3
<1>5. _detect_opportunity_candidates_from_db =
          (UNION {OfPage(key) : key \in groups})
            \cup (UNION {Cannibalization(q, {p \in Pages : <<q, p>> \in groups /\ Recent(<<q, p>>).impressions >= 20}) : q \in Queries})
  BY DEF _detect_opportunity_candidates_from_db, groups
<1> QED BY <1>2, <1>4, <1>5, Zenon DEF DetectorsAgree, detect_opportunity_candidates
-----------------------------------------------------------------------------
LEMMA Products ==
    ASSUME NEW a \in Nat, NEW b \in Nat, NEW n \in Nat, a <= b
    PROVE  a * n <= b * n
  OBVIOUS

\* Fewer clicks do not rise where more do not, and fall where more do.
LEMMA FewerClicks ==
    ASSUME NEW b \in HalfMetrics, NEW c \in HalfMetrics, NEW d \in HalfMetrics,
           d.impressions = c.impressions, d.clicks <= c.clicks
    PROVE  /\ ClicksRise(b, d) => ClicksRise(b, c)
           /\ ClicksFall(b, c) => ClicksFall(b, d)
           /\ CtrRises(b, d) => CtrRises(b, c)
           /\ CtrFalls(b, c) => CtrFalls(b, d)
<1>1. /\ b.clicks \in Nat /\ c.clicks \in Nat /\ d.clicks \in Nat
      /\ b.impressions \in Nat /\ c.impressions \in Nat
  BY DEF HalfMetrics
<1>2. AtLeastOne(b.clicks) \in Nat
  BY <1>1 DEF AtLeastOne
<1>3. (ClicksRise(b, d) => ClicksRise(b, c)) /\ (ClicksFall(b, c) => ClicksFall(b, d))
  <2>1. PICK l : l = AtLeastOne(b.clicks)
    OBVIOUS
  <2> QED BY <1>1, <1>2, <2>1 DEF ClicksRise, ClicksFall
<1>4. CtrBase(b, d) = CtrBase(b, c)
  BY DEF CtrBase
<1>5. PICK base : base = CtrBase(b, c)
  OBVIOUS
<1>6. base \in Int
  <2>1. PICK x, y : x = 1000 * b.clicks * c.impressions /\ y = b.impressions * c.impressions
    OBVIOUS
  <2>2. x \in Int /\ y \in Int
    BY <1>1, <2>1
  <2> QED BY <1>5, <2>1, <2>2 DEF CtrBase, Greater
<1>7. PICK missing : missing = b.clicks * c.impressions
  OBVIOUS
<1>8. PICK more, less : more = c.clicks * b.impressions /\ less = d.clicks * b.impressions
  OBVIOUS
<1>9. missing \in Int /\ more \in Int /\ less \in Int
  BY <1>1, <1>7, <1>8
<1>10. less <= more
  BY <1>1, <1>8, Products
<1>11. CtrGain(b, c) = 10000 * (more - missing) /\ CtrGain(b, d) = 10000 * (less - missing)
  BY <1>7, <1>8 DEF CtrGain
<1>12. (10000 * (less - missing) >= base => 10000 * (more - missing) >= base)
       /\ (10000 * (more - missing) <= -base => 10000 * (less - missing) <= -base)
  BY ONLY <1>6, <1>9, <1>10
<1> QED BY <1>3, <1>4, <1>5, <1>11, <1>12 DEF CtrRises, CtrFalls

LEMMA Ratings ==
    ASSUME NEW b \in HalfMetrics, NEW c \in HalfMetrics, NEW d \in HalfMetrics,
           d.impressions = c.impressions, d.clicks <= c.clicks
    PROVE  \/ classify_action_outcome(b, d) = classify_action_outcome(b, c)
           \/ classify_action_outcome(b, d) = "negative" /\ classify_action_outcome(b, c) \in {"neutral", "positive"}
           \/ classify_action_outcome(b, d) = "neutral" /\ classify_action_outcome(b, c) = "positive"
<1>1. Positive(b, d) => Positive(b, c)
  BY FewerClicks DEF Positive
<1>2. Negative(b, c) => Negative(b, d)
  BY FewerClicks DEF Negative
<1> QED BY <1>1, <1>2 DEF classify_action_outcome

\* Both detectors find the same in any metrics, and of two outcomes with the same
\* impressions the one with more clicks is rated no worse.
THEOREM SignalsAreSound == SignalsInit => SignalInv
<1> SUFFICES ASSUME SignalsInit PROVE SignalInv
  OBVIOUS
<1>1. DetectorsAgree
  BY DetectorsAreOne
<1>2. MoreClicksAreNoWorse
  <2>1. PICK worth : worth = [negative |-> 1, insufficient_data |-> 2, neutral |-> 2, positive |-> 3]
    OBVIOUS
  <2>2. worth.negative = 1 /\ worth.insufficient_data = 2 /\ worth.neutral = 2 /\ worth.positive = 3
    BY <2>1
  <2> SUFFICES ASSUME NEW key \in Keys, NEW n \in 0..rows[<<key, "current">>].clicks
               PROVE  worth[classify_action_outcome(rows[<<key, "previous">>], [rows[<<key, "current">>] EXCEPT !.clicks = n])]
                        <= worth[classify_action_outcome(rows[<<key, "previous">>], rows[<<key, "current">>])]
    BY <2>1 DEF MoreClicksAreNoWorse
  <2>3. PICK b, c : b = rows[<<key, "previous">>] /\ c = rows[<<key, "current">>]
    OBVIOUS
  <2>4. b \in HalfMetrics /\ c \in HalfMetrics
    BY <2>3, RowMetrics DEF Halves
  <2>5. PICK d : d = [c EXCEPT !.clicks = n]
    OBVIOUS
  <2>6. d \in HalfMetrics /\ d.impressions = c.impressions /\ d.clicks <= c.clicks
    BY <2>3, <2>4, <2>5 DEF HalfMetrics
  <2>7. PICK v, w : v = classify_action_outcome(b, d) /\ w = classify_action_outcome(b, c)
    OBVIOUS
  <2>8. v \in {"negative", "insufficient_data", "neutral", "positive"} /\ w \in {"negative", "insufficient_data", "neutral", "positive"}
    BY <2>7 DEF classify_action_outcome
  <2>9. v = w \/ (v = "negative" /\ w \in {"neutral", "positive"}) \/ (v = "neutral" /\ w = "positive")
    BY <2>4, <2>6, <2>7, Ratings
  <2>10. worth[v] <= worth[w]
    BY <2>2, <2>8, <2>9
  <2> QED BY <2>3, <2>5, <2>7, <2>10
<1> QED BY <1>1, <1>2 DEF SignalInv
-----------------------------------------------------------------------------
\* Measurements.  Coverage: the cursor says what the words say.  Induction is by the least counterexample.

LEMMA Least ==
    ASSUME NEW T \in SUBSET Nat, T # {}
    PROVE  \E n \in T : \A m \in T : n <= m
<1>1. PICK n \in T : \A m \in T : ~(<<m, n>> \in OpToRel(<, Nat))
  BY WFMin, NatLessThanWellFounded, Zenon
<1>2. \A m \in T : ~(m < n)
  BY <1>1 DEF OpToRel
<1> QED BY <1>2

Ranges == Int \X Int

LEMMA LastIs ==
    ASSUME NEW S \in SUBSET Ranges, IsFiniteSet(S), S # {}
    PROVE  Last(S) \in S /\ \A r \in S : Earlier(r, Last(S))
<1> DEFINE HasLast(U) == \E r \in U : \A s \in U : Earlier(s, r)
<1> DEFINE T == {n \in Nat : \E U \in SUBSET S : Cardinality(U) = n /\ U # {} /\ ~HasLast(U)}
<1>1. SUFFICES HasLast(S)
  BY DEF Last
<1>2. SUFFICES ASSUME ~HasLast(S) PROVE FALSE
  OBVIOUS
<1>3. Cardinality(S) \in T
  BY <1>2, FS_CardinalityType
<1>4. PICK n \in T : \A m \in T : n <= m
  <2>1. T \in SUBSET Nat /\ T # {}
    BY <1>3
  <2> HIDE DEF T
  <2> QED BY <2>1, Least
<1>5. PICK U \in SUBSET S : Cardinality(U) = n /\ U # {} /\ ~HasLast(U)
  OBVIOUS
<1>6. PICK x \in U : TRUE
  BY <1>5
<1> DEFINE V == U \ {x}
<1>7. IsFiniteSet(U) /\ IsFiniteSet(V) /\ Cardinality(V) \in Nat /\ Cardinality(V) < n
  <2>1. IsFiniteSet(U)
    BY FS_Subset
  <2>2. IsFiniteSet(V) /\ Cardinality(V) = Cardinality(U) - 1
    BY <2>1, <1>6, FS_RemoveElement
  <2>3. Cardinality(U) \in Nat /\ Cardinality(V) \in Nat
    BY <2>1, <2>2, FS_CardinalityType
  <2> QED BY <2>1, <2>2, <2>3, <1>5
<1>8. V = {} \/ HasLast(V)
  <2>1. V \in SUBSET S
    OBVIOUS
  <2>2. Cardinality(V) \notin T
    <3>1. n \in Nat
      OBVIOUS
    <3> HIDE DEF T, V
    <3> QED BY <1>4, <1>7, <3>1
  <2> HIDE DEF V, HasLast
  <2> QED BY <2>1, <2>2, <1>7
<1>9. CASE V = {}
  <2>1. U = {x} /\ x \in Ranges
    BY <1>9, <1>6
  <2>2. HasLast(U)
    BY <2>1 DEF Earlier, Ranges
  <2> QED BY <2>2, <1>5
<1>10. CASE HasLast(V)
  <2>1. PICK m \in V : \A s \in V : Earlier(s, m)
    BY <1>10
  <2>2. m \in Ranges /\ x \in Ranges /\ \A s \in V : s \in Ranges
    OBVIOUS
  <2>3. \A s \in U : s = x \/ s \in V
    OBVIOUS
  <2>4. CASE Earlier(x, m)
    BY <2>1, <2>3, <2>4, <1>5
  <2>5. CASE ~Earlier(x, m)
    <3>1. Earlier(m, x) /\ Earlier(x, x)
      BY <2>2, <2>5 DEF Earlier, Ranges
    <3>2. \A s \in V : Earlier(s, x)
      BY <3>1, <2>1, <2>2 DEF Earlier, Ranges
    <3> QED BY <3>1, <3>2, <2>3, <1>5, <1>6
  <2> QED BY <2>4, <2>5
<1> QED BY <1>8, <1>9, <1>10

Advanced(range, cursor, end) ==
    IF cursor = NotYet \/ cursor > end \/ range[2] < cursor THEN cursor
    ELSE IF range[1] > cursor THEN NotYet ELSE After(range)

Moved(g, S, start, end) == IF S = {} THEN start ELSE Advanced(Last(S), g[S \ {Last(S)}], end)

Cursors(R, start, end) == CHOOSE g : g = [S \in SUBSET R |-> Moved(g, S, start, end)]

LEMMA CoverIsCursor ==
    ASSUME NEW R, NEW s, NEW e
    PROVE  _ranges_cover_window(R, s, e) <=>
             R # {} /\ Cursors(R, s, e)[R] # NotYet /\ Cursors(R, s, e)[R] > e
  BY DEF MapThenFoldSet, _ranges_cover_window, Cursors, Moved, Advanced

\* The recursion has a solution, on smaller sets first.
LEMMA CursorsExist ==
    ASSUME NEW R \in SUBSET Ranges, IsFiniteSet(R), NEW s, NEW e
    PROVE  \A S \in SUBSET R : Cursors(R, s, e)[S] = Moved(Cursors(R, s, e), S, s, e)
<1> DEFINE Fits(g, n) == \A S \in SUBSET R : Cardinality(S) <= n => g[S] = Moved(g, S, s, e)
<1> DEFINE T == {n \in Nat : ~\E g : Fits(g, n)}
<1>sub. \A S \in SUBSET R : /\ S \in SUBSET Ranges /\ IsFiniteSet(S) /\ Cardinality(S) \in Nat
                            /\ Cardinality(S) <= Cardinality(R)
  <2> SUFFICES ASSUME NEW S \in SUBSET R
               PROVE  S \in SUBSET Ranges /\ IsFiniteSet(S) /\ Cardinality(S) \in Nat /\ Cardinality(S) <= Cardinality(R)
    OBVIOUS
  <2>1. IsFiniteSet(S) /\ Cardinality(S) <= Cardinality(R)
    BY FS_Subset
  <2> QED BY <2>1, FS_CardinalityType
<1>smaller. \A S \in SUBSET R : S # {} =>
              /\ S \ {Last(S)} \in SUBSET R
              /\ Cardinality(S \ {Last(S)}) = Cardinality(S) - 1
  BY <1>sub, LastIs, FS_RemoveElement
<1>1. T = {}
  <2>1. SUFFICES ASSUME T # {} PROVE FALSE
    OBVIOUS
  <2>2. PICK n \in T : \A m \in T : n <= m
    <3>1. T \in SUBSET Nat
      OBVIOUS
    <3> HIDE DEF T
    <3> QED BY <2>1, <3>1, Least
  <2>3. n \in Nat /\ ~\E g : Fits(g, n)
    OBVIOUS
  <2>4. CASE n = 0
    <3> DEFINE g == [S \in SUBSET R |-> s]
    <3>1. \A S \in SUBSET R : Cardinality(S) <= 0 => S = {}
      BY <1>sub, FS_EmptySet
    <3>2. Fits(g, 0)
      BY <3>1 DEF Moved
    <3> QED BY <3>2, <2>3, <2>4
  <2>5. CASE n # 0
    <3>1. n - 1 \in Nat /\ ~(n <= n - 1)
      BY <2>3, <2>5
    <3>2. n - 1 \notin T
      BY <3>1, <2>2
    <3>3. PICK g : Fits(g, n - 1)
      BY <3>1, <3>2
    <3> DEFINE h == [S \in SUBSET R |-> Moved(g, S, s, e)]
    <3>4. ASSUME NEW S \in SUBSET R, Cardinality(S) <= n
          PROVE  h[S] = Moved(h, S, s, e)
      <4>1. h[S] = Moved(g, S, s, e)
        OBVIOUS
      <4>2. CASE S = {}
        BY <4>1, <4>2 DEF Moved
      <4>3. CASE S # {}
        <5> DEFINE U == S \ {Last(S)}
        <5>1. U \in SUBSET R /\ Cardinality(U) = Cardinality(S) - 1
          BY <4>3, <1>smaller
        <5>2. Cardinality(U) <= n - 1
          BY <5>1, <3>4, <1>sub, <2>3
        <5>3. g[U] = Moved(g, U, s, e)
          BY <5>1, <5>2, <3>3
        <5>4. h[U] = Moved(g, U, s, e)
          BY <5>1
        <5>5. h[U] = g[U]
          BY <5>3, <5>4
        <5> HIDE DEF h
        <5> QED BY <5>5, <4>1, <4>3 DEF Moved
      <4> QED BY <4>2, <4>3
    <3>5. Fits(h, n)
      BY <3>4
    <3> HIDE DEF h, Fits
    <3> QED BY <3>5, <2>3
  <2> QED BY <2>4, <2>5
<1>2. PICK g : Fits(g, Cardinality(R))
  <2>1. Cardinality(R) \in Nat
    BY FS_CardinalityType
  <2> QED BY <2>1, <1>1
<1> DEFINE f == [S \in SUBSET R |-> g[S]]
<1>3. ASSUME NEW S \in SUBSET R
      PROVE  f[S] = Moved(f, S, s, e)
  <2>1. g[S] = Moved(g, S, s, e) /\ f[S] = g[S]
    BY <1>2, <1>sub
  <2>2. S # {} => f[S \ {Last(S)}] = g[S \ {Last(S)}]
    BY <1>smaller
  <2> HIDE DEF f
  <2> QED BY <2>1, <2>2 DEF Moved
<1>4. f = [S \in SUBSET R |-> Moved(f, S, s, e)]
  <2>1. f = [S \in SUBSET R |-> f[S]]
    OBVIOUS
  <2> HIDE DEF f
  <2> QED BY <2>1, <1>3
<1>5. Cursors(R, s, e) = [S \in SUBSET R |-> Moved(Cursors(R, s, e), S, s, e)]
  <2> HIDE DEF f
  <2> QED BY <1>4 DEF Cursors
<1> QED
  <2> DEFINE c == Cursors(R, s, e)
  <2>1. c = [S \in SUBSET R |-> Moved(c, S, s, e)]
    BY <1>5
  <2> HIDE DEF c
  <2>2. \A S \in SUBSET R : c[S] = Moved(c, S, s, e)
    BY <2>1
  <2> QED BY <2>2 DEF c

EveryDay(R, s, e) == \A d \in s..e : \E r \in R : d \in r[1]..r[2]

\* Where the cursor stands after the ranges of S.
Stands(c, S, s, e) ==
    \/ c = NotYet /\ \E d \in s..e : (\A r \in S : d \notin r[1]..r[2]) /\ \E r \in S : d < r[1]
    \/ /\ c \in Int /\ s <= c
       /\ \A d \in s..(c - 1) : \E r \in S : d \in r[1]..r[2]
       /\ c <= e => \A r \in S : r[2] < c

LEMMA OneMore ==
    ASSUME NEW S \in SUBSET Ranges, NEW s \in Int, NEW e \in Int, NEW x \in S, NEW c,
           \A r \in S : Earlier(r, x), Stands(c, S \ {x}, s, e)
    PROVE  Stands(Advanced(x, c, e), S, s, e)
<1> DEFINE U == S \ {x}
<1>0. /\ x[1] \in Int /\ x[2] \in Int /\ NotYet \notin Int
      /\ \A r \in S : r = x \/ r \in U
      /\ \A r \in S : r[1] \in Int /\ r[2] \in Int /\ r[1] <= x[1]
  BY MeasurementConstants DEF Ranges, Earlier
<1>1. CASE c = NotYet
  <2>1. PICK d \in s..e : (\A r \in U : d \notin r[1]..r[2]) /\ \E r \in U : d < r[1]
    BY <1>1, <1>0 DEF Stands
  <2>2. d < x[1]
    BY <2>1, <1>0
  <2>3. \A r \in S : d \notin r[1]..r[2]
    BY <2>1, <2>2, <1>0
  <2> QED BY <1>1, <2>2, <2>3 DEF Stands, Advanced
<1>2. CASE c # NotYet
  <2>1. /\ c \in Int /\ s <= c
        /\ \A d \in s..(c - 1) : \E r \in U : d \in r[1]..r[2]
        /\ c <= e => \A r \in U : r[2] < c
    BY <1>2 DEF Stands
  <2>2. CASE c > e \/ x[2] < c
    <3>1. Advanced(x, c, e) = c
      BY <2>2 DEF Advanced
    <3>2. \A d \in s..(c - 1) : \E r \in S : d \in r[1]..r[2]
      BY <2>1
    <3>3. c <= e => \A r \in S : r[2] < c
      BY <2>1, <2>2, <1>0
    <3> QED BY <3>1, <3>2, <3>3, <2>1 DEF Stands
  <2>3. CASE ~(c > e \/ x[2] < c) /\ x[1] > c
    <3>1. Advanced(x, c, e) = NotYet
      BY <2>3, <1>2 DEF Advanced
    <3>2. c \in s..e /\ \A r \in S : c \notin r[1]..r[2]
      BY <2>1, <2>3, <1>0
    <3> QED BY <3>1, <3>2, <2>3 DEF Stands
  <2>4. CASE ~(c > e \/ x[2] < c) /\ ~(x[1] > c)
    <3>1. Advanced(x, c, e) = x[2] + 1
      BY <2>4, <1>2 DEF Advanced, After
    <3>2. ASSUME NEW d \in s..x[2] PROVE \E r \in S : d \in r[1]..r[2]
      <4>1. CASE d < c
        BY <4>1, <2>1, <1>0
      <4>2. CASE ~(d < c)
        BY <4>2, <2>1, <2>4, <1>0
      <4> QED BY <4>1, <4>2
    <3>3. \A r \in S : r[2] < x[2] + 1
      BY <2>1, <2>4, <1>0
    <3>4. x[2] + 1 \in Int /\ s <= x[2] + 1 /\ x[2] + 1 - 1 = x[2]
      BY <2>1, <2>4, <1>0
    <3>5. PICK b : b = x[2] + 1
      OBVIOUS
    <3>6. b \in Int /\ s <= b /\ b - 1 = x[2]
      BY <3>4, <3>5, <1>0, <2>1
    <3>7. \A d \in s..(b - 1) : \E r \in S : d \in r[1]..r[2]
      BY <3>2, <3>6
    <3>8. \A r \in S : r[2] < b
      BY <3>3, <3>5
    <3>9. Stands(b, S, s, e)
      BY <3>6, <3>7, <3>8 DEF Stands
    <3> QED BY <3>1, <3>5, <3>9
  <2> QED BY <2>2, <2>3, <2>4
<1> QED BY <1>1, <1>2

LEMMA CursorStands ==
    ASSUME NEW R \in SUBSET Ranges, IsFiniteSet(R), NEW s \in Int, NEW e \in Int
    PROVE  Stands(Cursors(R, s, e)[R], R, s, e)
<1> DEFINE c == Cursors(R, s, e)
<1> DEFINE T == {n \in Nat : \E S \in SUBSET R : Cardinality(S) = n /\ ~Stands(c[S], S, s, e)}
<1>0. \A S \in SUBSET R : c[S] = Moved(c, S, s, e)
  BY CursorsExist
<1> HIDE DEF c
<1>1. SUFFICES ASSUME ~Stands(c[R], R, s, e) PROVE FALSE
  BY DEF c
<1>2. Cardinality(R) \in T
  BY <1>1, FS_CardinalityType
<1>3. PICK n \in T : \A m \in T : n <= m
  <2>1. T \in SUBSET Nat /\ T # {}
    BY <1>2
  <2> HIDE DEF T
  <2> QED BY <2>1, Least
<1>4. PICK S \in SUBSET R : Cardinality(S) = n /\ ~Stands(c[S], S, s, e)
  OBVIOUS
<1>5. IsFiniteSet(S) /\ S \in SUBSET Ranges /\ n \in Nat
  BY FS_Subset
<1>6. CASE S = {}
  <2>1. c[S] = s
    BY <1>0, <1>6 DEF Moved
  <2>2. Stands(s, {}, s, e)
    BY DEF Stands
  <2> QED BY <2>1, <2>2, <1>4, <1>6
<1>7. CASE S # {}
  <2> DEFINE x == Last(S)
  <2> DEFINE U == S \ {x}
  <2>1. x \in S /\ \A r \in S : Earlier(r, x)
    BY <1>5, <1>7, LastIs
  <2>2. IsFiniteSet(U) /\ Cardinality(U) = n - 1 /\ Cardinality(U) \in Nat
    BY <2>1, <1>4, <1>5, FS_RemoveElement, FS_CardinalityType
  <2>3. U \in SUBSET R /\ c[S] = Advanced(x, c[U], e)
    BY <1>0, <1>7 DEF Moved
  <2>4. Cardinality(U) \notin T
    <3>1. ~(n <= n - 1)
      BY <1>5
    <3> HIDE DEF T, U
    <3> QED BY <2>2, <3>1, <1>3
  <2>5. Stands(c[U], U, s, e)
    <3> HIDE DEF U
    <3> QED BY <2>2, <2>3, <2>4
  <2> HIDE DEF x
  <2>6. Stands(Advanced(x, c[U], e), S, s, e)
    BY <2>1, <2>5, <1>5, OneMore
  <2> QED BY <2>3, <2>6, <1>4
<1> QED BY <1>6, <1>7

\* _ranges_cover_window says that a window is covered exactly when every day of it is in a range, for any
\* ranges: they may overlap, touch, contain one another or be empty.
THEOREM CoverageIsEveryDay ==
    ASSUME NEW R \in SUBSET Ranges, IsFiniteSet(R), NEW s \in Int, NEW e \in Int, s <= e
    PROVE  _ranges_cover_window(R, s, e) <=> EveryDay(R, s, e)
<1> DEFINE c == Cursors(R, s, e)[R]
<1>1. Stands(c, R, s, e)
  BY CursorStands
<1>2. _ranges_cover_window(R, s, e) <=> R # {} /\ c # NotYet /\ c > e
  BY CoverIsCursor
<1> HIDE DEF c
<1>0. NotYet \notin Int /\ s \in s..e /\ \A r \in R : r[1] \in Int /\ r[2] \in Int
  BY MeasurementConstants DEF Ranges
<1>3. CASE c = NotYet
  BY <1>0, <1>1, <1>2, <1>3 DEF Stands, EveryDay
<1>4. CASE c # NotYet
  <2>1. /\ c \in Int /\ s <= c
        /\ \A d \in s..(c - 1) : \E r \in R : d \in r[1]..r[2]
        /\ c <= e => \A r \in R : r[2] < c
    BY <1>1, <1>4 DEF Stands
  <2>2. CASE c > e
    <3>1. \A d \in s..e : \E r \in R : d \in r[1]..r[2]
      BY <2>1, <2>2
    <3>2. R # {}
      BY <3>1, <1>0
    <3> QED BY <3>1, <3>2, <2>2, <1>2, <1>4 DEF EveryDay
  <2>3. CASE c <= e
    <3>1. c \in s..e /\ \A r \in R : c \notin r[1]..r[2]
      BY <2>1, <2>3, <1>0
    <3>2. ~(c > e)
      BY <2>1, <2>3
    <3> QED BY <3>1, <3>2, <1>2 DEF EveryDay
  <2> QED BY <2>1, <2>2, <2>3
<1> QED BY <1>3, <1>4
-----------------------------------------------------------------------------
\* The inductive invariant.

Executed(a) == a.executed # NotYet

\* The days of an action, in their order.
ActionOK(a, day) ==
    /\ a \in TreatedAction
    /\ a.started # NotYet => a.started <= day
    /\ Executed(a) => a.started = a.executed
    /\ a.completed # NotYet => Executed(a) /\ a.executed <= a.completed /\ a.completed <= day
    /\ a.undone # NotYet => a.completed # NotYet /\ a.completed <= a.undone /\ a.undone <= day
    /\ a.status \in {"approved", "execution_queued", "cancelled"} => ~Executed(a)
    /\ a.status = "validating" => Executed(a) /\ a.completed = NotYet
    /\ a.status = "succeeded" => a.completed # NotYet
    /\ a.status = "rolled_back" <=> a.undone # NotYet

\* A comparison of a whole window after the change, from the first day of its time; and one
\* that the rollback cut short.
Whole(a, day, c, w) ==
    /\ c.from \in {a.executed + 1, FirstDay(a)}
    /\ c.end = c.from + w - 1 /\ c.window_synced
    /\ c.end <= Available(day)
    /\ a.undone # NotYet => c.end < a.undone
Cut(a, c) == a.undone # NotYet /\ c.from = FirstDay(a) /\ c.end = a.undone

\* A window that the rollback cut short for good.
CutShort(a, m, w) == a.undone # NotYet /\ FirstDay(a) + w - 1 >= a.undone /\ m.applied

Comparable(a, day, m, c, w) ==
    c = NoMetrics \/ (Executed(a) /\ (Whole(a, day, c, w) \/ (CutShort(a, m, w) /\ Cut(a, c))))

RecordOK(a, day, m, w) ==
    /\ m.end \in Int /\ (Executed(a) => m.end < a.started)
    /\ Comparable(a, day, m, m.comparison, w)
    /\ m.status = "measured" => m.comparison # NoMetrics
    /\ m.status = "censored" => CutShort(a, m, w)
    /\ m.comparison # NoMetrics => m.applied
    /\ m.applied => Executed(a)

Alike(records) == \A v, w \in Windows : records[v].applied = records[w].applied

RecordsOK ==
    /\ measurement \in Records \cup {NoRecords}
    /\ measurement = NoRecords => treated.status \in {"approved", "cancelled"}
    /\ measurement # NoRecords => Alike(measurement) /\ \A w \in Windows : RecordOK(treated, today, measurement[w], w)

\* A refresh in progress: what it read, what it makes of it, and what is there meanwhile.
PendingOK(a, day, m, read, new, w) ==
    /\ new.applied = read.applied /\ new.end = read.end
    /\ Comparable(a, day, m, read.comparison, w) /\ Comparable(a, day, m, new.comparison, w)
    /\ read.comparison # NoMetrics => new.comparison # NoMetrics /\ m.comparison # NoMetrics
    /\ new.comparison # NoMetrics => m.applied
    /\ read.status = "measured" => read.comparison # NoMetrics
    /\ read.status = "censored" => CutShort(a, m, w)
    /\ new.status = "measured" => new.comparison # NoMetrics /\ Whole(a, day, new.comparison, w)
    /\ new.status = "censored" <=> CutShort(a, m, w) /\ Cut(a, new.comparison)
    /\ new.comparison # read.comparison => new.status \in {"measured", "censored"}
    /\ new.status = "censored" /\ Cut(a, read.comparison) => new.comparison = read.comparison
    /\ new.comparison # read.comparison /\ new.status = "measured" /\ read.status = "measured" =>
          new.comparison.from = FirstDay(a)

Pending(r) == refresh[r].pc = "read"
Computed(r) == Pending(r) /\ refresh[r].read # NoRecords

RefreshersOK ==
    /\ refresh \in [Refreshers -> [pc : {"idle", "read"}, read : Records \cup {NoRecords}, new : Records \cup {NoRecords},
                                   range : Ranges \cup {<<>>}]]
    /\ \A r \in Refreshers : Pending(r) =>
          /\ refresh[r].read = NoRecords <=> refresh[r].new = NoRecords
          /\ r = Sync => refresh[r].range \in Ranges
    /\ \A r \in Refreshers : Computed(r) =>
          /\ measurement # NoRecords
          /\ \A w \in Windows : PendingOK(treated, today, measurement[w], refresh[r].read[w], refresh[r].new[w], w)

\* A refresh that read before the rollback.
Old(r, w) == Computed(r) /\ refresh[r].new[w].status # "censored"
SomeOld(w) == \E r \in Refreshers : Old(r, w)

\* Status and comparison that two transactions left.
Torn(a, m) == m.status # "censored" /\ Cut(a, m.comparison)
TornBack(a, m) == m.status = "censored" /\ ~Cut(a, m.comparison)
\* A refresh that would make an outcome of a comparison it leaves as it is.
Armed(read, new) == new.status = "measured" /\ read.status # "measured" /\ new.comparison = read.comparison

\* How many overtakings it takes to tear a record...
TornCosts(w) ==
    measurement # NoRecords /\ CutShort(treated, measurement[w], w) =>
        /\ Torn(treated, measurement[w]) => overtakings >= 1 /\ (SomeOld(w) => overtakings >= 2)
        /\ TornBack(treated, measurement[w]) => overtakings >= 3
        /\ Torn(treated, measurement[w]) /\ measurement[w].status = "measured" => overtakings >= 3

\* ... and to have a refresh that will.
PendingCosts(r, w) ==
    LET read == refresh[r].read[w]
        new == refresh[r].new[w]
    IN
    Computed(r) =>
        /\ Armed(read, new) =>
              /\ overtakings >= 1
              /\ new.comparison.from # FirstDay(treated) => overtakings >= 2
              /\ CutShort(treated, measurement[w], w) => overtakings >= 3
        /\ CutShort(treated, measurement[w], w) /\ Old(r, w) => overtakings >= 1
        /\ CutShort(treated, measurement[w], w) /\ ~Old(r, w) =>
              /\ Torn(treated, read) => /\ overtakings >= 1 /\ (SomeOld(w) => overtakings >= 2)
                                        /\ ~Cut(treated, measurement[w].comparison) => overtakings >= 3
              /\ TornBack(treated, read) => overtakings >= 3

\* What a record says while nothing overtakes.
Settled(a, day, m, w, ranges) ==
    /\ m.baseline.end = m.end
    /\ m.status = "measured" => m.baseline.window_synced
    /\ m.comparison # NoMetrics /\ Whole(a, day, m.comparison, w) /\ m.comparison.from = FirstDay(a) =>
          m.status = "measured" /\ _ranges_cover_window(ranges, m.comparison.from, m.comparison.end)

Known(r) == IF r = Sync THEN synced \cup {refresh[r].range} ELSE synced

Untouched ==
    overtakings = 0 =>
        /\ measurement # NoRecords => \A w \in Windows : Settled(treated, today, measurement[w], w, synced)
        /\ \A r \in Refreshers : Pending(r) =>
              /\ refresh[r].read = measurement
              /\ measurement # NoRecords => \A w \in Windows : Settled(treated, today, refresh[r].new[w], w, Known(r))

MeasurementIInv ==
    /\ overtakings \in 0..MaxOvertakings /\ today \in Nat
    /\ synced \in SUBSET Ranges /\ IsFiniteSet(synced)
    /\ ActionOK(treated, today) /\ RecordsOK /\ RefreshersOK
    /\ \A w \in Windows : TornCosts(w) /\ \A r \in Refreshers : PendingCosts(r, w)
    /\ Untouched
-----------------------------------------------------------------------------
\* Records, and what a refresh makes of them.

LEMMA Numbers ==
    /\ NotYet \notin Int /\ Lag \in Nat /\ Lag >= 1 /\ Lookback \in Nat
    /\ \A w \in Windows : w \in Nat /\ w >= 1
  BY MeasurementConstants

LEMMA MoreRangesCoverMore ==
    ASSUME NEW R \in SUBSET Ranges, NEW S \in SUBSET R, IsFiniteSet(R), NEW s \in Int, NEW e \in Int, s <= e,
           _ranges_cover_window(S, s, e)
    PROVE  _ranges_cover_window(R, s, e)
<1>1. IsFiniteSet(S) /\ S \in SUBSET Ranges
  BY FS_Subset
<1>2. EveryDay(S, s, e)
  BY <1>1, CoverageIsEveryDay
<1>3. EveryDay(R, s, e)
  BY <1>2 DEF EveryDay
<1> QED BY <1>3, CoverageIsEveryDay

MeasurementStatuses == {"waiting", "baseline_pending", "measured", "censored", "not_applicable"}

LEMMA RecordFields ==
    ASSUME NEW m \in ActionMeasurement
    PROVE  /\ m.status \in MeasurementStatuses /\ m.outcome \in {"insufficient_data", "classified"} /\ m.applied \in BOOLEAN
           /\ m.end \in Day /\ m.baseline \in Metrics /\ m.comparison \in Metrics
           /\ m = [status |-> m.status, outcome |-> m.outcome, applied |-> m.applied, end |-> m.end,
                   baseline |-> m.baseline, comparison |-> m.comparison]
  BY DEF ActionMeasurement, MeasurementStatuses

LEMMA MetricFields ==
    ASSUME NEW c \in Metrics
    PROVE  c.from \in Day /\ c.end \in Day /\ c.window_synced \in BOOLEAN
  BY DEF Metrics

LEMMA ARecord ==
    ASSUME NEW s \in MeasurementStatuses, NEW o \in {"insufficient_data", "classified"}, NEW p \in BOOLEAN, NEW e \in Day,
           NEW b \in Metrics, NEW c \in Metrics
    PROVE  [status |-> s, outcome |-> o, applied |-> p, end |-> e, baseline |-> b, comparison |-> c] \in ActionMeasurement
  BY DEF ActionMeasurement, MeasurementStatuses

LEMMA AMetric ==
    ASSUME NEW R, NEW s \in Int, NEW e \in Int
    PROVE  /\ _metric_window(R, s, e) \in Metrics
           /\ _metric_window(R, s, e).from = s /\ _metric_window(R, s, e).end = e
           /\ _metric_window(R, s, e).window_synced = _ranges_cover_window(R, s, e)
<1>1. _ranges_cover_window(R, s, e) \in BOOLEAN
  BY DEF _ranges_cover_window
<1> QED BY <1>1 DEF _metric_window, Metrics, Day

LEMMA NoMetricsIs == NoMetrics \in Metrics /\ NoMetrics.from = NotYet /\ NoMetrics.end = NotYet
  BY DEF NoMetrics, Metrics, Day

\* There are records or there are none.
LEMMA Exist ==
    ASSUME NEW records \in Records, records # NoRecords
    PROVE  Windows # {}
  BY DEF Records, NoRecords

LEMMA SomeRecords ==
    ASSUME NEW records \in Records, Windows # {}
    PROVE  records # NoRecords
<1>1. PICK w \in Windows : TRUE
  OBVIOUS
<1>2. records[w].status \in MeasurementStatuses
  BY RecordFields DEF Records
<1>3. NoRecords[w].status = "absent"
  BY DEF NoRecords, Absent
<1> QED BY <1>2, <1>3 DEF MeasurementStatuses

\* RefreshedBaseline
LEMMA Rebased ==
    ASSUME NEW m \in ActionMeasurement, m.end \in Int, NEW w \in Windows, NEW R, NEW b, b = RefreshedBaseline(m, w, R)
    PROVE  /\ b \in ActionMeasurement
           /\ b.end = m.end /\ b.applied = m.applied /\ b.comparison = m.comparison /\ b.outcome = m.outcome
           /\ b.status = m.status \/ b.status = "waiting"
           /\ m.baseline.window_synced => b.baseline.window_synced
           /\ m.baseline.end = m.end => b.baseline.end = b.end
<1> DEFINE n == Before(m.end, w, R)
<1>1. n \in Metrics /\ n.end = m.end
  BY AMetric, Numbers DEF Before
<1> HIDE DEF n
<1>2. PICK l : l = IF n.window_synced \/ ~m.baseline.window_synced THEN n ELSE m.baseline
  OBVIOUS
<1>3. PICK t : t = IF n.window_synced /\ m.status = "baseline_pending" THEN "waiting" ELSE m.status
  OBVIOUS
<1>4. b = [m EXCEPT !.baseline = l, !.status = t]
  BY <1>2, <1>3 DEF n, RefreshedBaseline
<1>5. b = [status |-> t, outcome |-> m.outcome, applied |-> m.applied, end |-> m.end, baseline |-> l, comparison |-> m.comparison]
  <2>1. m = [status |-> m.status, outcome |-> m.outcome, applied |-> m.applied, end |-> m.end,
             baseline |-> m.baseline, comparison |-> m.comparison]
    BY RecordFields
  <2> QED BY <1>4, <2>1
<1>6. l \in Metrics /\ (m.baseline.window_synced => l.window_synced) /\ (m.baseline.end = m.end => l.end = m.end)
  BY <1>1, <1>2, RecordFields, MetricFields
<1>7. t \in MeasurementStatuses /\ (t = m.status \/ t = "waiting")
  BY <1>3, RecordFields DEF MeasurementStatuses
<1>8. b \in ActionMeasurement
  BY <1>5, <1>6, <1>7, RecordFields, ARecord
<1> QED BY <1>5, <1>6, <1>7, <1>8

LEMMA FirstDayIs ==
    ASSUME NEW a, NEW day \in Int, ActionOK(a, day), Executed(a)
    PROVE  FirstDay(a) \in Int /\ FirstDay(a) > a.executed /\ a.executed \in Int /\ FirstDay(a) <= day + 1
  BY Numbers DEF FirstDay, ActionOK, Executed, TreatedAction, Day

\* Compared, for the window from s to e.
ComparedFacts(a, day, m, R, s, e, c) ==
    /\ s \in Int /\ e \in Int /\ s <= e
    /\ c \in ActionMeasurement /\ c.end = m.end /\ c.applied = m.applied /\ c.baseline = m.baseline
    /\ UndoneBy(a, e) => c.status = "censored" /\ c.comparison.from = s /\ c.comparison.end = a.undone
                          /\ (m.comparison.from = s /\ m.comparison.end = a.undone => c.comparison = m.comparison)
    /\ ~UndoneBy(a, e) =>
          /\ c.status \in {"waiting", "baseline_pending", "measured"}
          /\ c.status = "measured" <=> e <= Available(day) /\ m.baseline.window_synced /\ _ranges_cover_window(R, s, e)
          /\ c.comparison = IF c.status = "measured" THEN _metric_window(R, s, e) ELSE m.comparison

LEMMA ComparedIs ==
    ASSUME NEW a, NEW day \in Int, ActionOK(a, day), Executed(a), NEW m \in ActionMeasurement, NEW w \in Windows, NEW R,
           NEW c, c = Compared(a, m, w, R, day)
    PROVE  ComparedFacts(a, day, m, R, FirstDay(a), FirstDay(a) + w - 1, c)
<1> DEFINE e == FirstDay(a) + w - 1
<1> SUFFICES ComparedFacts(a, day, m, R, FirstDay(a), e, c)
  OBVIOUS
<1> DEFINE s == FirstDay(a)
<1> DEFINE current == _metric_window(R, s, e)
<1>1. s \in Int /\ e \in Int /\ s <= e /\ day - Lag \in Int /\ a.undone \in Day
  BY FirstDayIs, Numbers DEF ActionOK, TreatedAction
<1>2. current \in Metrics /\ current.window_synced = _ranges_cover_window(R, s, e)
  BY <1>1, AMetric
<1>3. /\ m.comparison \in Metrics /\ m.baseline \in Metrics /\ m.end \in Day /\ m.applied \in BOOLEAN
      /\ m = [status |-> m.status, outcome |-> m.outcome, applied |-> m.applied, end |-> m.end,
              baseline |-> m.baseline, comparison |-> m.comparison]
  BY RecordFields
<1>4. CASE UndoneBy(a, e)
  <2>0. PICK h : h = IF e < a.undone THEN e ELSE a.undone
    OBVIOUS
  <2>1. PICK l : l = [m.comparison EXCEPT !.from = s, !.end = h]
    OBVIOUS
  <2>2. c = [m EXCEPT !.status = "censored", !.outcome = "insufficient_data", !.comparison = l]
    BY <1>4, <2>0, <2>1 DEF Compared
  <2>3. a.undone # NotYet /\ e >= a.undone /\ a.undone \in Int
    BY <1>1, <1>4 DEF UndoneBy, Day
  <2>4. h = a.undone
    BY <1>1, <2>0, <2>3
  <2>5. l \in Metrics /\ l.from = s /\ l.end = a.undone
    <3> HIDE DEF s
    <3> QED BY <1>1, <1>3, <2>1, <2>3, <2>4 DEF Metrics, Day
  <2>8. m.comparison.from = s /\ m.comparison.end = a.undone => l = m.comparison
    <3> HIDE DEF s
    <3> QED BY <1>1, <1>3, <2>1, <2>3, <2>4 DEF Metrics, Day
  <2>6. c = [status |-> "censored", outcome |-> "insufficient_data", applied |-> m.applied, end |-> m.end,
             baseline |-> m.baseline, comparison |-> l]
    BY <1>3, <2>2
  <2>7. c \in ActionMeasurement
    BY <2>6, <2>5, <1>3, ARecord DEF MeasurementStatuses
  <2> QED BY <1>1, <1>4, <2>5, <2>6, <2>7, <2>8 DEF ComparedFacts
<1>5. CASE ~UndoneBy(a, e) /\ e > Available(day)
  <2>1. c = [m EXCEPT !.status = "waiting", !.outcome = "insufficient_data"]
    BY <1>5 DEF Compared
  <2>2. c = [status |-> "waiting", outcome |-> "insufficient_data", applied |-> m.applied, end |-> m.end,
             baseline |-> m.baseline, comparison |-> m.comparison]
    BY <1>3, <2>1
  <2>3. c \in ActionMeasurement
    BY <2>2, <1>3, ARecord DEF MeasurementStatuses
  <2>4. ~(e <= Available(day))
    BY <1>1, <1>5 DEF Available
  <2> QED BY <1>1, <1>5, <2>2, <2>3, <2>4 DEF ComparedFacts
<1>6. CASE ~UndoneBy(a, e) /\ ~(e > Available(day)) /\ (~m.baseline.window_synced \/ ~current.window_synced)
  <2>1. c = [m EXCEPT !.status = Waits(m.baseline), !.outcome = "insufficient_data"]
    BY <1>6 DEF Compared
  <2>2. PICK t : t = Waits(m.baseline)
    OBVIOUS
  <2>3. t \in {"waiting", "baseline_pending"}
    BY <2>2 DEF Waits
  <2>4. c = [status |-> t, outcome |-> "insufficient_data", applied |-> m.applied, end |-> m.end,
             baseline |-> m.baseline, comparison |-> m.comparison]
    BY <1>3, <2>1, <2>2
  <2>5. c \in ActionMeasurement
    BY <2>3, <2>4, <1>3, ARecord DEF MeasurementStatuses
  <2> HIDE DEF current
  <2> QED BY <1>1, <1>2, <1>6, <2>3, <2>4, <2>5 DEF ComparedFacts
<1>7. CASE ~UndoneBy(a, e) /\ ~(e > Available(day)) /\ m.baseline.window_synced /\ current.window_synced
  <2>0. e > Available(day) <=> ~(e <= Available(day))
    BY <1>1 DEF Available
  <2>1. c = [m EXCEPT !.status = "measured", !.outcome = "classified", !.comparison = current]
    BY <1>7 DEF Compared
  <2>2. c = [status |-> "measured", outcome |-> "classified", applied |-> m.applied, end |-> m.end,
             baseline |-> m.baseline, comparison |-> current]
    BY <1>3, <2>1
  <2>3. c \in ActionMeasurement
    BY <2>2, <1>2, <1>3, ARecord DEF MeasurementStatuses
  <2>4. e <= Available(day)
    BY <1>1, <1>7 DEF Available
  <2> QED BY <1>1, <1>2, <1>7, <2>2, <2>3, <2>4 DEF ComparedFacts
<1> QED BY <1>4, <1>5, <1>6, <1>7

Refused(m) == [m EXCEPT !.status = "not_applicable", !.outcome = "insufficient_data"]

LEMMA RefusedIs ==
    ASSUME NEW m \in ActionMeasurement, NEW n, n = Refused(m)
    PROVE  /\ n \in ActionMeasurement /\ n.status = "not_applicable"
           /\ n.end = m.end /\ n.applied = m.applied /\ n.baseline = m.baseline /\ n.comparison = m.comparison
<1>1. m = [status |-> m.status, outcome |-> m.outcome, applied |-> m.applied, end |-> m.end,
           baseline |-> m.baseline, comparison |-> m.comparison]
  BY RecordFields
<1>2. n = [status |-> "not_applicable", outcome |-> "insufficient_data", applied |-> m.applied, end |-> m.end,
           baseline |-> m.baseline, comparison |-> m.comparison]
  BY <1>1 DEF Refused
<1> QED BY <1>2, RecordFields, ARecord DEF MeasurementStatuses

\* What a refresh makes of one record.
RefreshOK(a, day, m, n, w) ==
    /\ PendingOK(a, day, m, m, n, w)
    /\ n.status = "measured" => n.comparison.from = FirstDay(a)
    /\ CutShort(a, m, w) => n.status = "censored"

LEMMA UnmovedOK ==
    ASSUME NEW a, NEW day \in Int, NEW m \in ActionMeasurement, NEW w \in Windows, RecordOK(a, day, m, w), ~m.applied,
           NEW n \in ActionMeasurement, n.end = m.end, n.applied = m.applied, n.comparison = m.comparison,
           n.status \in {"not_applicable", "waiting"} \/ n.status = m.status
    PROVE  RefreshOK(a, day, m, n, w)
<1>1. m.comparison = NoMetrics /\ m.status # "measured" /\ m.status # "censored"
  BY DEF RecordOK, CutShort
<1> QED BY <1>1 DEF RefreshOK, PendingOK, Comparable, CutShort, Cut

LEMMA WholeIsNotCut ==
    ASSUME NEW a, NEW day, NEW c, NEW w, Whole(a, day, c, w), c.end \in Int
    PROVE  ~Cut(a, c)
  BY DEF Whole, Cut

LEMMA ComparedOK ==
    ASSUME NEW a, NEW day \in Int, ActionOK(a, day), Executed(a), NEW m \in ActionMeasurement, NEW w \in Windows,
           RecordOK(a, day, m, w), m.applied, NEW b \in ActionMeasurement, b.end = m.end, b.applied = m.applied,
           b.comparison = m.comparison, NEW R, NEW n, n = Compared(a, b, w, R, day)
    PROVE  RefreshOK(a, day, m, n, w) /\ n \in ActionMeasurement
<1>s. PICK s : s = FirstDay(a)
  OBVIOUS
<1>e. PICK e : e = s + w - 1
  OBVIOUS
<1>0. ComparedFacts(a, day, b, R, s, e, n)
  BY <1>s, <1>e, ComparedIs
<1>1. /\ s \in Int /\ e \in Int /\ s <= e
      /\ n \in ActionMeasurement /\ n.end = b.end /\ n.applied = b.applied /\ n.baseline = b.baseline
      /\ UndoneBy(a, e) => n.status = "censored" /\ n.comparison.from = s /\ n.comparison.end = a.undone
                             /\ (b.comparison.from = s /\ b.comparison.end = a.undone => n.comparison = b.comparison)
      /\ ~UndoneBy(a, e) =>
            /\ n.status \in {"waiting", "baseline_pending", "measured"}
            /\ n.status = "measured" <=>
                  e <= Available(day) /\ b.baseline.window_synced /\ _ranges_cover_window(R, s, e)
            /\ n.comparison = IF n.status = "measured" THEN _metric_window(R, s, e) ELSE b.comparison
  BY <1>0 DEF ComparedFacts
<1>2. CutShort(a, m, w) <=> UndoneBy(a, e)
  BY <1>s, <1>e DEF CutShort, UndoneBy
<1>3. CASE UndoneBy(a, e)
  <2>1. Cut(a, n.comparison) /\ n.comparison # NoMetrics /\ a.undone # NotYet
    BY <1>1, <1>3, <1>s, NoMetricsIs, Numbers DEF Cut, UndoneBy
  <2>3. Cut(a, m.comparison) => n.comparison = m.comparison
    BY <1>1, <1>3, <1>s DEF Cut
  <2>2. PendingOK(a, day, m, m, n, w)
    BY <1>1, <1>2, <1>3, <2>1, <2>3 DEF PendingOK, RecordOK, Comparable
  <2> QED BY <1>1, <1>3, <2>2 DEF RefreshOK
<1>4. CASE ~UndoneBy(a, e) /\ n.status = "measured"
  <2>1. s \in Int /\ NotYet \notin Int
    BY <1>1, Numbers
  <2>2. /\ n.comparison.from = s /\ n.comparison.end = e
        /\ n.comparison.window_synced = _ranges_cover_window(R, s, e)
    <3>1. n.comparison = _metric_window(R, s, e)
      BY <1>1, <1>4
    <3> QED BY <1>1, <2>1, <3>1, AMetric
  <2>3. n.comparison # NoMetrics
    BY <2>1, <2>2, NoMetricsIs
  <2>4. a.undone # NotYet => e < a.undone
    <3>1. a.undone \in Day
      BY DEF ActionOK, TreatedAction
    <3> QED BY <1>1, <1>4, <3>1 DEF UndoneBy, Day
  <2>5. Whole(a, day, n.comparison, w)
    BY <1>1, <1>4, <1>s, <1>e, <2>2, <2>4 DEF Whole
  <2>6. PendingOK(a, day, m, m, n, w)
    BY <1>1, <1>2, <1>4, <1>s, <2>2, <2>3, <2>5 DEF PendingOK, RecordOK, Comparable
  <2> QED BY <1>1, <1>2, <1>4, <1>s, <2>2, <2>6 DEF RefreshOK
<1>5. CASE ~UndoneBy(a, e) /\ n.status # "measured"
  <2>1. n.comparison = m.comparison /\ n.status # "censored"
    BY <1>1, <1>5
  <2>2. PendingOK(a, day, m, m, n, w)
    BY <1>1, <1>2, <1>5, <2>1 DEF PendingOK, RecordOK
  <2> QED BY <1>1, <1>2, <1>5, <2>2 DEF RefreshOK
<1> QED BY <1>3, <1>4, <1>5

LEMMA ComparedSettled ==
    ASSUME NEW a, NEW day \in Int, ActionOK(a, day), Executed(a), NEW m \in ActionMeasurement, NEW w \in Windows,
           RecordOK(a, day, m, w), NEW b \in ActionMeasurement, b.end = m.end,
           b.comparison = m.comparison, m.baseline.window_synced => b.baseline.window_synced,
           m.baseline.end = m.end => b.baseline.end = b.end,
           NEW R \in SUBSET Ranges, IsFiniteSet(R), NEW n, n = Compared(a, b, w, R, day),
           NEW S \in SUBSET R, Settled(a, day, m, w, S)
    PROVE  Settled(a, day, n, w, R)
<1>s. PICK s : s = FirstDay(a)
  OBVIOUS
<1>e. PICK e : e = s + w - 1
  OBVIOUS
<1>0. ComparedFacts(a, day, b, R, s, e, n)
  BY <1>s, <1>e, ComparedIs
<1>1. /\ s \in Int /\ e \in Int /\ s <= e
      /\ n \in ActionMeasurement /\ n.end = b.end /\ n.applied = b.applied /\ n.baseline = b.baseline
      /\ UndoneBy(a, e) => n.status = "censored" /\ n.comparison.from = s /\ n.comparison.end = a.undone
                             /\ (b.comparison.from = s /\ b.comparison.end = a.undone => n.comparison = b.comparison)
      /\ ~UndoneBy(a, e) =>
            /\ n.status \in {"waiting", "baseline_pending", "measured"}
            /\ n.status = "measured" <=>
                  e <= Available(day) /\ b.baseline.window_synced /\ _ranges_cover_window(R, s, e)
            /\ n.comparison = IF n.status = "measured" THEN _metric_window(R, s, e) ELSE b.comparison
  BY <1>0 DEF ComparedFacts
<1>2. s \in Int /\ NotYet \notin Int /\ a.undone \in Day
  BY <1>1, Numbers DEF ActionOK, TreatedAction
<1>3. n.baseline.end = n.end
  BY <1>1 DEF Settled
<1>4. n.status = "measured" => n.baseline.window_synced
  BY <1>1
<1>5. ASSUME n.comparison # NoMetrics, Whole(a, day, n.comparison, w), n.comparison.from = s
      PROVE  n.status = "measured" /\ _ranges_cover_window(R, n.comparison.from, n.comparison.end)
  <2>1. n.comparison.end = e /\ e <= Available(day) /\ (a.undone # NotYet => e < a.undone)
    BY <1>5, <1>e DEF Whole
  <2>2. ~UndoneBy(a, e)
    <3> QED BY <1>1, <1>2, <2>1 DEF UndoneBy, Day
  <2>3. CASE n.status = "measured"
    BY <1>1, <1>5, <2>1, <2>2, <2>3
  <2>4. CASE n.status # "measured"
    <3>1. n.comparison = m.comparison
      BY <1>1, <2>2, <2>4
    <3>2. m.status = "measured" /\ _ranges_cover_window(S, s, e)
      BY <1>5, <1>s, <2>1, <3>1 DEF Settled
    <3>3. b.baseline.window_synced
      BY <3>2 DEF Settled
    <3>4. _ranges_cover_window(R, s, e)
      <4> QED BY <1>1, <1>2, <3>2, MoreRangesCoverMore
    <3> QED BY <1>1, <2>1, <2>2, <2>4, <3>3, <3>4
  <2> QED BY <2>3, <2>4
<1> QED BY <1>3, <1>4, <1>5, <1>s DEF Settled

LEMMA RefreshIs ==
    ASSUME NEW a, NEW day \in Int, ActionOK(a, day), NEW records \in Records, records # NoRecords, Alike(records),
           \A w \in Windows : RecordOK(a, day, records[w], w),
           NEW R \in SUBSET Ranges, IsFiniteSet(R), NEW new, new = Refreshed(a, records, R, day)
    PROVE  /\ new \in Records /\ new # NoRecords
           /\ \A w \in Windows : /\ RefreshOK(a, day, records[w], new[w], w)
                                 /\ \A S \in SUBSET R : Settled(a, day, records[w], w, S) => Settled(a, day, new[w], w, R)
<1>w. Windows # {}
  BY Exist
<1>1. ASSUME NEW w \in Windows
      PROVE  records[w] \in ActionMeasurement /\ RecordOK(a, day, records[w], w) /\ records[w].end \in Int
  BY DEF Records, RecordOK
<1>g. PICK based : based = [w \in Windows |-> RefreshedBaseline(records[w], w, R)]
  OBVIOUS
<1>2. ASSUME NEW w \in Windows
      PROVE  /\ based[w] \in ActionMeasurement
             /\ based[w].end = records[w].end /\ based[w].applied = records[w].applied
             /\ based[w].comparison = records[w].comparison
             /\ based[w].status = records[w].status \/ based[w].status = "waiting"
             /\ records[w].baseline.window_synced => based[w].baseline.window_synced
             /\ records[w].baseline.end = records[w].end => based[w].baseline.end = based[w].end
  <2>1. based[w] = RefreshedBaseline(records[w], w, R)
    BY <1>g
  <2> QED BY <1>1, <2>1, Rebased
<1>s. ASSUME NEW w \in Windows, NEW n \in ActionMeasurement, NEW S \in SUBSET R, Settled(a, day, records[w], w, S),
             n.end = records[w].end, n.comparison = NoMetrics, n.status # "measured",
             records[w].baseline.end = records[w].end => n.baseline.end = n.end
      PROVE  Settled(a, day, n, w, R)
  BY <1>s DEF Settled
<1>3. CASE Untreated(a, records)
  <2>1. new = [w \in Windows |-> Refused(records[w])]
    BY <1>3 DEF Refreshed, Inapplicable, Refused
  <2>2. ASSUME NEW w \in Windows
        PROVE  /\ new[w] \in ActionMeasurement
               /\ RefreshOK(a, day, records[w], new[w], w)
               /\ \A S \in SUBSET R : Settled(a, day, records[w], w, S) => Settled(a, day, new[w], w, R)
    <3>1. new[w] = Refused(records[w])
      BY <2>1
    <3>2. /\ new[w] \in ActionMeasurement /\ new[w].status = "not_applicable"
          /\ new[w].end = records[w].end /\ new[w].applied = records[w].applied
          /\ new[w].baseline = records[w].baseline /\ new[w].comparison = records[w].comparison
      BY <1>1, <3>1, RefusedIs
    <3>3. ~records[w].applied /\ records[w].comparison = NoMetrics
      BY <1>1, <1>3 DEF Untreated, RecordOK
    <3> QED BY <1>1, <1>s, <3>2, <3>3, UnmovedOK
  <2> QED BY <1>w, <2>1, <2>2, SomeRecords DEF Records
<1>4. CASE ~Untreated(a, records) /\ a.completed = NotYet /\ a.executed = NotYet
  <2>1. \/ new = [w \in Windows |-> Refused(based[w])]
        \/ new = based
    BY <1>4, <1>g DEF Refreshed, create_baselines, Inapplicable, Refused
  <2>2. ASSUME NEW w \in Windows
        PROVE  /\ new[w] \in ActionMeasurement
               /\ RefreshOK(a, day, records[w], new[w], w)
               /\ \A S \in SUBSET R : Settled(a, day, records[w], w, S) => Settled(a, day, new[w], w, R)
    <3>1. new[w] = Refused(based[w]) \/ new[w] = based[w]
      BY <2>1
    <3>2. /\ new[w] \in ActionMeasurement
          /\ new[w].status \in {"not_applicable", "waiting"} \/ new[w].status = records[w].status
          /\ new[w].end = records[w].end /\ new[w].applied = records[w].applied
          /\ new[w].baseline = based[w].baseline /\ new[w].comparison = records[w].comparison
      BY <1>2, <3>1, RefusedIs
    <3>3. ~records[w].applied /\ records[w].comparison = NoMetrics /\ records[w].status # "measured"
      BY <1>1, <1>4 DEF Executed, RecordOK
    <3> QED BY <1>1, <1>2, <1>s, <3>2, <3>3, UnmovedOK
  <2> QED BY <1>w, <1>g, <2>1, <2>2, SomeRecords DEF Records
<1>5. CASE ~Untreated(a, records) /\ ~(a.completed = NotYet /\ a.executed = NotYet)
  <2>0. Executed(a) /\ \A w \in Windows : records[w].applied
    BY <1>5 DEF ActionOK, Executed, Untreated, Alike
  <2>m. a.status \in MeasurableStatuses \/ records # NoRecords
    OBVIOUS
  <2>1. new = [w \in Windows |-> Compared(a, based[w], w, R, day)]
    BY <1>5, <1>g DEF Refreshed, create_baselines
  <2>2. ASSUME NEW w \in Windows
        PROVE  /\ new[w] \in ActionMeasurement
               /\ RefreshOK(a, day, records[w], new[w], w)
               /\ \A S \in SUBSET R : Settled(a, day, records[w], w, S) => Settled(a, day, new[w], w, R)
    <3>1. new[w] = Compared(a, based[w], w, R, day)
      BY <2>1
    <3>2. RefreshOK(a, day, records[w], new[w], w) /\ new[w] \in ActionMeasurement
      BY <1>1, <1>2, <2>0, <3>1, ComparedOK
    <3>3. ASSUME NEW S \in SUBSET R, Settled(a, day, records[w], w, S) PROVE Settled(a, day, new[w], w, R)
      BY <1>1, <1>2, <2>0, <3>1, <3>3, ComparedSettled
    <3> QED BY <3>2, <3>3
  <2> QED BY <1>w, <2>1, <2>2, SomeRecords DEF Records
<1> QED BY <1>3, <1>4, <1>5
-----------------------------------------------------------------------------
\* What stays as days pass and the action goes on.

Follows(a, b, day, later) ==
    /\ b.executed = a.executed /\ b.started = a.started
    /\ b.completed = a.completed \/ (a.completed = NotYet /\ b.completed = day)
    /\ b.undone = a.undone \/ (a.undone = NotYet /\ b.undone = day /\ b.completed = a.completed)
    /\ a.undone # NotYet => b.completed = a.completed
    /\ day <= later

LEMMA ActionDays ==
    ASSUME NEW a, NEW day, ActionOK(a, day)
    PROVE  /\ a.started \in Day /\ a.executed \in Day /\ a.completed \in Day /\ a.undone \in Day
           /\ a.undone # NotYet => Executed(a) /\ a.completed # NotYet
           /\ a.completed # NotYet => Executed(a)
  BY DEF ActionOK, TreatedAction

LEMMA WholeStays ==
    ASSUME NEW day \in Int, NEW later \in Int, NEW a, ActionOK(a, day), Executed(a), NEW b, Follows(a, b, day, later),
           NEW c \in Metrics, c.end \in Int, NEW w, Whole(a, day, c, w)
    PROVE  Whole(b, later, c, w)
<1>1. a.executed \in Int /\ NotYet \notin Int /\ Lag \in Nat /\ Lag >= 1
  BY FirstDayIs, Numbers
<1>2. c.from \in {b.executed + 1, FirstDay(b)}
  BY DEF Whole, Follows, FirstDay
<1>3. c.end <= Available(later) /\ c.end < day
  BY <1>1 DEF Whole, Available, Follows
<1>4. b.undone # NotYet => c.end < b.undone
  BY <1>3 DEF Whole, Follows
<1> QED BY <1>2, <1>3, <1>4 DEF Whole

\* Before the rollback nothing is cut, and after it nothing moves.
LEMMA CutStays ==
    ASSUME NEW day, NEW later, NEW a, NEW b, Follows(a, b, day, later), a.undone # NotYet
    PROVE  /\ b.undone = a.undone /\ FirstDay(b) = FirstDay(a)
           /\ \A c : Cut(b, c) <=> Cut(a, c)
           /\ \A m, n, w : n.applied = m.applied => (CutShort(b, n, w) <=> CutShort(a, m, w))
  BY DEF Follows, FirstDay, Cut, CutShort

LEMMA NothingIsNotCut ==
    ASSUME NEW day \in Int, NEW a, ActionOK(a, day)
    PROVE  ~Cut(a, NoMetrics)
  BY FirstDayIs, ActionDays, NoMetricsIs, Numbers DEF Cut

LEMMA WholeEnds ==
    ASSUME NEW day \in Int, NEW a, ActionOK(a, day), Executed(a), NEW w \in Windows, NEW c, Whole(a, day, c, w)
    PROVE  c.from \in Int /\ c.end \in Int /\ c.from > a.executed /\ c.end >= c.from
<1>1. FirstDay(a) \in Int /\ FirstDay(a) > a.executed /\ a.executed \in Int
  BY FirstDayIs
<1> QED BY <1>1, Numbers DEF Whole

LEMMA ComparableStays ==
    ASSUME NEW day \in Int, NEW later \in Int, NEW a, ActionOK(a, day), NEW b, Follows(a, b, day, later),
           NEW c \in Metrics, NEW w \in Windows, NEW m, NEW n, n.applied = m.applied, Comparable(a, day, m, c, w)
    PROVE  Comparable(b, later, n, c, w)
<1>1. CASE c = NoMetrics
  BY <1>1 DEF Comparable
<1>2. CASE Executed(a) /\ Whole(a, day, c, w)
  <2>1. Whole(b, later, c, w)
    BY <1>2, WholeEnds, WholeStays
  <2> QED BY <1>2, <2>1 DEF Comparable, Executed, Follows
<1>3. CASE Executed(a) /\ CutShort(a, m, w) /\ Cut(a, c)
  <2>1. a.undone # NotYet
    BY <1>3 DEF Cut
  <2>2. CutShort(b, n, w) /\ Cut(b, c)
    BY <1>3, <2>1, CutStays
  <2> QED BY <1>3, <2>2 DEF Comparable, Executed, Follows
<1> QED BY <1>1, <1>2, <1>3 DEF Comparable

LEMMA RecordStays ==
    ASSUME NEW day \in Int, NEW later \in Int, NEW a, ActionOK(a, day), Executed(a), NEW b, Follows(a, b, day, later),
           NEW w \in Windows, NEW m \in ActionMeasurement, RecordOK(a, day, m, w)
    PROVE  RecordOK(b, later, m, w)
<1>1. Comparable(b, later, m, m.comparison, w)
  BY ComparableStays, RecordFields DEF RecordOK
<1>2. CutShort(a, m, w) => CutShort(b, m, w)
  <2>1. CutShort(a, m, w) => a.undone # NotYet
    BY DEF CutShort
  <2> QED BY <2>1, CutStays
<1> QED BY <1>1, <1>2 DEF RecordOK, Follows, Executed

LEMMA SameMetrics ==
    ASSUME NEW c \in Metrics, NEW d \in Metrics, c.from = d.from, c.end = d.end, c.window_synced = d.window_synced
    PROVE  c = d
  BY DEF Metrics

\* A refresh in progress, while something else changes the record but not what was applied.
LEMMA PendingStays ==
    ASSUME NEW day \in Int, NEW later \in Int, NEW a, ActionOK(a, day), Executed(a), NEW b, ActionOK(b, later), Follows(a, b, day, later),
           NEW w \in Windows, NEW m, NEW n, n.applied = m.applied, m.comparison # NoMetrics => n.comparison # NoMetrics,
           NEW read \in ActionMeasurement, NEW new \in ActionMeasurement, PendingOK(a, day, m, read, new, w)
    PROVE  PendingOK(b, later, n, read, new, w)
<1>0. read.comparison \in Metrics /\ new.comparison \in Metrics
  BY RecordFields
<1>1. Comparable(b, later, n, read.comparison, w) /\ Comparable(b, later, n, new.comparison, w)
  BY <1>0, ComparableStays DEF PendingOK
<1>2. CutShort(a, m, w) => CutShort(b, n, w)
  <2>1. CutShort(a, m, w) => a.undone # NotYet
    BY DEF CutShort
  <2> QED BY <2>1, CutStays
<1>3. new.status = "measured" => new.comparison # NoMetrics /\ Whole(b, later, new.comparison, w)
  BY <1>0, WholeEnds, WholeStays DEF PendingOK
<1>4. new.status = "censored" <=> CutShort(b, n, w) /\ Cut(b, new.comparison)
  <2>1. CASE a.undone # NotYet
    BY <2>1, CutStays DEF PendingOK
  <2>2. CASE a.undone = NotYet
    <3>1. new.status # "censored"
      BY <2>2 DEF PendingOK, CutShort
    <3>2. ~Cut(b, new.comparison)
      <4>1. CASE new.comparison = NoMetrics
        BY <4>1, NothingIsNotCut
      <4>2. CASE Whole(a, day, new.comparison, w)
        <5>1. Whole(b, later, new.comparison, w)
          BY <1>0, <4>2, WholeEnds, WholeStays
        <5> QED BY <5>1, <4>2, WholeEnds, WholeIsNotCut
      <4> QED BY <4>1, <4>2, <2>2 DEF PendingOK, Comparable, Cut
    <3> QED BY <3>1, <3>2
  <2> QED BY <2>1, <2>2
<1>5. ASSUME new.comparison # read.comparison, new.status = "measured", read.status = "measured"
      PROVE  new.comparison.from = FirstDay(b)
  <2>1. new.comparison.from = FirstDay(a)
    BY <1>5 DEF PendingOK
  <2>2. CASE b.completed = a.completed
    BY <2>1, <2>2 DEF FirstDay, Follows
  <2>3. CASE a.completed = NotYet
    <3>1. a.undone = NotYet /\ FirstDay(a) = a.executed + 1
      BY <2>3, ActionDays DEF FirstDay
    <3>2. Whole(a, day, read.comparison, w) /\ Whole(a, day, new.comparison, w)
      BY <1>5, <3>1 DEF PendingOK, Comparable, Cut
    <3>3. /\ read.comparison.from = new.comparison.from /\ read.comparison.end = new.comparison.end
          /\ read.comparison.window_synced /\ new.comparison.window_synced
      BY <3>1, <3>2 DEF Whole
    <3>4. read.comparison.window_synced = new.comparison.window_synced
      BY <1>0, <3>3, MetricFields
    <3> QED BY <1>0, <1>5, <3>3, <3>4, SameMetrics
  <2> QED BY <2>2, <2>3 DEF Follows
<1>6. read.status = "censored" => CutShort(b, n, w)
  BY <1>2 DEF PendingOK
<1>7. new.status = "censored" /\ Cut(b, read.comparison) => new.comparison = read.comparison
  <2>1. new.status = "censored" => a.undone # NotYet
    BY DEF PendingOK, CutShort
  <2> QED BY <2>1, CutStays DEF PendingOK
<1> QED BY <1>1, <1>3, <1>4, <1>5, <1>6, <1>7 DEF PendingOK

\* Before the execution nothing has been compared.
Blank(m) == m.comparison = NoMetrics /\ m.status # "measured" /\ m.status # "censored"

LEMMA BlankBefore ==
    ASSUME NEW a, ~Executed(a), NEW day, ActionOK(a, day), NEW w, NEW m, NEW read, NEW new
    PROVE  /\ RecordOK(a, day, m, w) => Blank(m) /\ ~m.applied
           /\ PendingOK(a, day, m, read, new, w) => Blank(read) /\ Blank(new) /\ new.applied = read.applied /\ new.end = read.end
<1>1. a.undone = NotYet
  BY ActionDays
<1>2. RecordOK(a, day, m, w) => Blank(m) /\ ~m.applied
  BY <1>1 DEF RecordOK, Comparable, CutShort, Blank
<1>3. PendingOK(a, day, m, read, new, w) => Blank(read) /\ Blank(new) /\ new.applied = read.applied /\ new.end = read.end
  BY <1>1 DEF PendingOK, Comparable, CutShort, Blank
<1> QED BY <1>2, <1>3

LEMMA BlankIsPending ==
    ASSUME NEW day \in Int, NEW a, ActionOK(a, day), NEW w, NEW m, NEW read, NEW new, Blank(read), Blank(new),
           new.applied = read.applied, new.end = read.end
    PROVE  PendingOK(a, day, m, read, new, w)
  BY NothingIsNotCut DEF Blank, PendingOK, Comparable

LEMMA SettledStays ==
    ASSUME NEW day \in Int, NEW later \in Int, NEW a, ActionOK(a, day), NEW b, ActionOK(b, later), Follows(a, b, day, later),
           NEW w \in Windows, NEW m \in ActionMeasurement, NEW n, n.applied = m.applied, Comparable(a, day, n, m.comparison, w),
           NEW R \in SUBSET Ranges, IsFiniteSet(R), NEW S \in SUBSET R, Settled(a, day, m, w, S)
    PROVE  Settled(b, later, m, w, R)
<1> DEFINE c == m.comparison
<1>0. c \in Metrics
  BY RecordFields
<1> HIDE DEF c
<1>1. SUFFICES ASSUME c # NoMetrics, Whole(b, later, c, w), c.from = FirstDay(b)
               PROVE  m.status = "measured" /\ _ranges_cover_window(R, c.from, c.end)
  BY DEF Settled, c
<1>2. Executed(a)
  BY <1>1 DEF Comparable, c
<1>3. CASE Whole(a, day, c, w)
  <2>1. c.from \in Int /\ c.end \in Int /\ c.from > a.executed /\ c.end >= c.from /\ NotYet \notin Int /\ Lag >= 1 /\ Lag \in Nat
    BY <1>2, <1>3, WholeEnds, Numbers
  <2>2. c.from = FirstDay(a)
    <3>1. CASE b.completed = a.completed
      BY <1>1, <3>1 DEF FirstDay, Follows
    <3>2. CASE a.completed = NotYet /\ b.completed = day
      <4>1. FirstDay(b) = day + 1
        BY <2>1, <3>2 DEF FirstDay
      <4>2. c.end <= day - Lag
        BY <1>3 DEF Whole, Available
      <4> QED BY <4>1, <4>2, <1>1, <2>1
    <3> QED BY <3>1, <3>2 DEF Follows
  <2>3. m.status = "measured" /\ _ranges_cover_window(S, c.from, c.end)
    BY <1>1, <1>3, <2>2 DEF Settled, c
  <2>4. _ranges_cover_window(R, c.from, c.end)
    BY <2>1, <2>3, MoreRangesCoverMore
  <2> QED BY <2>3, <2>4
<1>4. CASE Cut(a, c)
  <2>1. Cut(b, c)
    BY <1>4, CutStays DEF Cut
  <2>2. c.end \in Int
    BY <1>4, ActionDays DEF Cut, Day
  <2> QED BY <1>1, <2>1, <2>2, WholeIsNotCut
<1> QED BY <1>1, <1>3, <1>4 DEF Comparable, c
-----------------------------------------------------------------------------
\* The parts of the invariant that a step reads.

LEMMA Facts ==
    ASSUME MeasurementIInv
    PROVE  /\ today \in Int /\ overtakings \in Nat /\ synced \in SUBSET Ranges /\ IsFiniteSet(synced)
           /\ measurement # NoRecords => measurement \in Records /\ Alike(measurement)
           /\ \A w \in Windows : measurement # NoRecords =>
                 measurement[w] \in ActionMeasurement /\ RecordOK(treated, today, measurement[w], w)
           /\ \A r \in Refreshers : Computed(r) =>
                 /\ measurement # NoRecords
                 /\ refresh[r].read \in Records /\ refresh[r].new \in Records /\ refresh[r].new # NoRecords
                 /\ \A w \in Windows :
                       /\ refresh[r].read[w] \in ActionMeasurement /\ refresh[r].new[w] \in ActionMeasurement
                       /\ PendingOK(treated, today, measurement[w], refresh[r].read[w], refresh[r].new[w], w)
<1>1. today \in Int /\ overtakings \in Nat /\ synced \in SUBSET Ranges /\ IsFiniteSet(synced)
  BY MeasurementConstants DEF MeasurementIInv
<1>2. measurement # NoRecords => measurement \in Records /\ Alike(measurement)
  BY DEF MeasurementIInv, RecordsOK
<1>3. ASSUME NEW w \in Windows, measurement # NoRecords
      PROVE  measurement[w] \in ActionMeasurement /\ RecordOK(treated, today, measurement[w], w)
  BY <1>2, <1>3 DEF MeasurementIInv, RecordsOK, Records
<1>4. ASSUME NEW r \in Refreshers, Computed(r)
      PROVE  /\ measurement # NoRecords
             /\ refresh[r].read \in Records /\ refresh[r].new \in Records /\ refresh[r].new # NoRecords
             /\ \A w \in Windows :
                   /\ refresh[r].read[w] \in ActionMeasurement /\ refresh[r].new[w] \in ActionMeasurement
                   /\ PendingOK(treated, today, measurement[w], refresh[r].read[w], refresh[r].new[w], w)
  <2>1. /\ refresh[r].read \in Records \cup {NoRecords} /\ refresh[r].new \in Records \cup {NoRecords}
        /\ refresh[r].read # NoRecords /\ refresh[r].new # NoRecords /\ measurement # NoRecords
        /\ \A w \in Windows : PendingOK(treated, today, measurement[w], refresh[r].read[w], refresh[r].new[w], w)
    BY <1>4 DEF MeasurementIInv, RefreshersOK, Computed
  <2> QED BY <2>1 DEF Records
<1> QED BY <1>1, <1>2, <1>3, <1>4

LEMMA Starts == ASSUME MeasurementsInit PROVE MeasurementIInv
<1>1. MeasurementConstants /\ NotYet \in Day
  BY MeasurementConstants DEF Day
<1>2. ActionOK(treated, today)
  BY <1>1 DEF MeasurementsInit, ActionOK, TreatedAction, Executed, Day
<1>3. RecordsOK
  BY DEF MeasurementsInit, RecordsOK
<1>4. \A r \in Refreshers : refresh[r] = Resting
  BY DEF MeasurementsInit
<1>5. \A r \in Refreshers : ~Pending(r) /\ ~Computed(r)
  BY <1>4 DEF Pending, Computed, Resting
<1>6. RefreshersOK
  <2>1. Resting \in [pc : {"idle", "read"}, read : Records \cup {NoRecords}, new : Records \cup {NoRecords},
                     range : Ranges \cup {<<>>}]
    BY DEF Resting
  <2> QED BY <1>5, <2>1 DEF RefreshersOK, MeasurementsInit
<1>7. \A w \in Windows : TornCosts(w) /\ \A r \in Refreshers : PendingCosts(r, w)
  BY <1>5 DEF TornCosts, PendingCosts, MeasurementsInit
<1>8. Untouched
  BY <1>5 DEF Untouched, MeasurementsInit
<1>9. IsFiniteSet({})
  BY FS_EmptySet
<1> QED BY <1>1, <1>2, <1>3, <1>6, <1>7, <1>8, <1>9 DEF MeasurementIInv, MeasurementsInit

\* While only the day or the syncs move, or nothing.
LEMMA CostsStay ==
    ASSUME \A w \in Windows : TornCosts(w) /\ \A r \in Refreshers : PendingCosts(r, w),
           UNCHANGED <<treated, measurement, refresh, overtakings>>
    PROVE  (\A w \in Windows : TornCosts(w) /\ \A r \in Refreshers : PendingCosts(r, w))'
<1>1. treated' = treated /\ measurement' = measurement /\ refresh' = refresh /\ overtakings' = overtakings
  OBVIOUS
<1>2. \A r : (Computed(r)' <=> Computed(r)) /\ \A w : Old(r, w)' <=> Old(r, w)
  BY <1>1 DEF Old, Computed, Pending
<1>3. \A w : SomeOld(w)' <=> SomeOld(w)
  BY <1>2 DEF SomeOld
<1> QED BY <1>1, <1>2, <1>3 DEF TornCosts, PendingCosts
LEMMA RecordPasses ==
    ASSUME NEW day \in Int, NEW later \in Int, day <= later, NEW a, ActionOK(a, day), NEW w \in Windows,
           NEW m \in ActionMeasurement, RecordOK(a, day, m, w)
    PROVE  RecordOK(a, later, m, w)
<1>1. CASE Executed(a)
  BY <1>1, RecordStays DEF Follows
<1>2. CASE ~Executed(a)
  BY <1>2, BlankBefore DEF RecordOK, Comparable, Blank
<1> QED BY <1>1, <1>2

LEMMA PendingPasses ==
    ASSUME NEW day \in Int, NEW later \in Int, day <= later, NEW a, ActionOK(a, day), ActionOK(a, later), NEW w \in Windows, NEW m,
           NEW read \in ActionMeasurement, NEW new \in ActionMeasurement, PendingOK(a, day, m, read, new, w)
    PROVE  PendingOK(a, later, m, read, new, w)
<1>1. CASE Executed(a)
  BY <1>1, PendingStays DEF Follows
<1>2. CASE ~Executed(a)
  BY <1>2, BlankBefore, BlankIsPending
<1> QED BY <1>1, <1>2

LEMMA SettledPasses ==
    ASSUME NEW day \in Int, NEW later \in Int, day <= later, NEW a, ActionOK(a, day), ActionOK(a, later),
           NEW w \in Windows, NEW m \in ActionMeasurement, NEW n, n.applied = m.applied, Comparable(a, day, n, m.comparison, w),
           NEW R \in SUBSET Ranges, IsFiniteSet(R), NEW S \in SUBSET R, Settled(a, day, m, w, S)
    PROVE  Settled(a, later, m, w, R)
  BY SettledStays DEF Follows

LEMMA DaysPass ==
    ASSUME MeasurementIInv, today' \in Nat, today <= today', synced \subseteq synced', synced' \in SUBSET Ranges,
           IsFiniteSet(synced'), UNCHANGED <<treated, measurement, refresh, overtakings>>
    PROVE  MeasurementIInv'
<1>s. treated' = treated /\ measurement' = measurement /\ refresh' = refresh /\ overtakings' = overtakings
  OBVIOUS
<1>l. PICK later : later = today'
  OBVIOUS
<1>0. today \in Int /\ later \in Int /\ today <= later
  BY <1>l, Facts
<1>1. ActionOK(treated, today) /\ ActionOK(treated, later)
  <2>1. ActionOK(treated, today)
    BY DEF MeasurementIInv
  <2> QED BY <1>0, <2>1, Numbers DEF ActionOK, TreatedAction, Day
<1>2. RecordsOK'
  <2>1. \A w \in Windows : measurement # NoRecords => RecordOK(treated, later, measurement[w], w)
    BY <1>0, <1>1, Facts, RecordPasses
  <2> QED BY <1>s, <1>l, <2>1 DEF MeasurementIInv, RecordsOK
<1>3. RefreshersOK'
  <2>1. ASSUME NEW r \in Refreshers, Computed(r), NEW w \in Windows
        PROVE  PendingOK(treated, later, measurement[w], refresh[r].read[w], refresh[r].new[w], w)
    BY <1>0, <1>1, <2>1, Facts, PendingPasses
  <2>2. \A r : (Computed(r)' <=> Computed(r)) /\ (Pending(r)' <=> Pending(r))
    BY <1>s DEF Computed, Pending
  <2> QED BY <1>s, <1>l, <2>1, <2>2 DEF MeasurementIInv, RefreshersOK
<1>4. (\A w \in Windows : TornCosts(w) /\ \A r \in Refreshers : PendingCosts(r, w))'
  BY CostsStay DEF MeasurementIInv
<1>5. Untouched'
  <2> SUFFICES ASSUME overtakings = 0
               PROVE  /\ measurement # NoRecords => \A w \in Windows : Settled(treated, later, measurement[w], w, synced')
                      /\ \A r \in Refreshers : Pending(r) =>
                            /\ refresh[r].read = measurement
                            /\ measurement # NoRecords => \A w \in Windows : Settled(treated, later, refresh[r].new[w], w, Known(r)')
    BY <1>s, <1>l DEF Untouched, Pending
  <2>1. PICK R : R = synced'
    OBVIOUS
  <2>2. ASSUME measurement # NoRecords, NEW w \in Windows
        PROVE  Settled(treated, later, measurement[w], w, R)
    <3>1. measurement[w] \in ActionMeasurement /\ RecordOK(treated, today, measurement[w], w)
      BY <2>2, Facts
    <3>2. Settled(treated, today, measurement[w], w, synced)
      BY <2>2 DEF MeasurementIInv, Untouched
    <3> QED BY <1>0, <1>1, <2>1, <3>1, <3>2, SettledPasses DEF RecordOK
  <2>3. ASSUME NEW r \in Refreshers, Pending(r), measurement # NoRecords, NEW w \in Windows
        PROVE  Settled(treated, later, refresh[r].new[w], w, Known(r)')
    <3>1. refresh[r].read = measurement /\ Settled(treated, today, refresh[r].new[w], w, Known(r))
      BY <2>3 DEF MeasurementIInv, Untouched
    <3>2. Computed(r)
      BY <2>3, <3>1 DEF Computed
    <3>3. /\ refresh[r].new[w] \in ActionMeasurement
          /\ PendingOK(treated, today, measurement[w], refresh[r].read[w], refresh[r].new[w], w)
      BY <3>2, Facts
    <3>4. measurement[w].applied = refresh[r].new[w].applied /\ Comparable(treated, today, measurement[w], refresh[r].new[w].comparison, w)
      BY <3>1, <3>3 DEF PendingOK
    <3>5. PICK K : K = Known(r)'
      OBVIOUS
    <3>6. K \in SUBSET Ranges /\ IsFiniteSet(K) /\ Known(r) \subseteq K
      <4>1. r = Sync => refresh[r].range \in Ranges
        BY <2>3 DEF MeasurementIInv, RefreshersOK
      <4>2. IsFiniteSet({refresh[r].range}) /\ IsFiniteSet(R \cup {refresh[r].range})
        BY <2>1, FS_Singleton, FS_Union
      <4> QED BY <1>s, <2>1, <3>5, <4>1, <4>2 DEF Known
    <3> QED BY <1>0, <1>1, <3>1, <3>3, <3>4, <3>5, <3>6, SettledPasses
  <2> QED BY <2>1, <2>2, <2>3 DEF MeasurementIInv, Untouched
<1> QED BY <1>s, <1>l, <1>1, <1>2, <1>3, <1>4, <1>5 DEF MeasurementIInv

\* NewDay
LEMMA NewDayKeeps == ASSUME MeasurementIInv, NewDay PROVE MeasurementIInv'
<1>1. today' \in Nat /\ today <= today'
  BY DEF MeasurementIInv, NewDay
<1> QED BY <1>1, DaysPass DEF MeasurementIInv, NewDay

\* A sync without a window to refresh.
LEMMA SyncKeeps ==
    ASSUME MeasurementIInv, NEW range \in Ranges, synced' = synced \cup {range},
           UNCHANGED <<today, treated, measurement, refresh, overtakings>>
    PROVE  MeasurementIInv'
<1>1. synced' \in SUBSET Ranges /\ IsFiniteSet(synced')
  <2>1. IsFiniteSet({range}) /\ IsFiniteSet(synced)
    BY FS_Singleton DEF MeasurementIInv
  <2>2. IsFiniteSet(synced \cup {range})
    BY <2>1, FS_Union
  <2> QED BY <2>2 DEF MeasurementIInv
<1>2. today' \in Nat /\ today <= today'
  BY DEF MeasurementIInv
<1> QED BY <1>1, <1>2, DaysPass

\* RefreshFails
LEMMA FailKeeps == ASSUME MeasurementIInv, NEW r \in Refreshers, RefreshFails(r) PROVE MeasurementIInv'
<1>1. /\ today' = today /\ synced' = synced /\ treated' = treated /\ measurement' = measurement /\ overtakings' = overtakings
      /\ refresh' = [refresh EXCEPT ![r] = Resting]
  BY DEF RefreshFails
<1>2. refresh \in [Refreshers -> [pc : {"idle", "read"}, read : Records \cup {NoRecords}, new : Records \cup {NoRecords},
                                  range : Ranges \cup {<<>>}]]
  BY DEF MeasurementIInv, RefreshersOK
<1>3. /\ refresh'[r] = Resting /\ \A s \in Refreshers \ {r} : refresh'[s] = refresh[s]
      /\ refresh' \in [Refreshers -> [pc : {"idle", "read"}, read : Records \cup {NoRecords}, new : Records \cup {NoRecords},
                                      range : Ranges \cup {<<>>}]]
  BY <1>1, <1>2 DEF Resting
<1>4. ~Pending(r)' /\ ~Computed(r)' /\ \A s \in Refreshers \ {r} : (Pending(s)' <=> Pending(s)) /\ (Computed(s)' <=> Computed(s))
  BY <1>3 DEF Pending, Computed, Resting
<1>5. RefreshersOK'
  BY <1>1, <1>3, <1>4 DEF MeasurementIInv, RefreshersOK
<1>6. \A w : SomeOld(w)' => SomeOld(w)
  BY <1>3, <1>4 DEF SomeOld, Old
<1>7. (\A w \in Windows : TornCosts(w) /\ \A s \in Refreshers : PendingCosts(s, w))'
  <2>1. \A w \in Windows : TornCosts(w)'
    BY <1>1, <1>6 DEF MeasurementIInv, TornCosts
  <2>2. ASSUME NEW w \in Windows, NEW s \in Refreshers PROVE PendingCosts(s, w)'
    <3>1. CASE s = r
      BY <3>1, <1>4 DEF PendingCosts
    <3>2. CASE s # r
      <4>1. PendingCosts(s, w)
        BY DEF MeasurementIInv
      <4>2. (Old(s, w)' <=> Old(s, w)) /\ refresh'[s] = refresh[s] /\ (Computed(s)' <=> Computed(s))
        BY <3>2, <1>3, <1>4 DEF Old
      <4> QED BY <1>1, <1>6, <4>1, <4>2 DEF PendingCosts
    <3> QED BY <3>1, <3>2
  <2> QED BY <2>1, <2>2
<1>8. Untouched'
  <2>1. \A s \in Refreshers \ {r} : Known(s)' = Known(s)
    BY <1>1, <1>3 DEF Known
  <2> QED BY <1>1, <1>3, <1>4, <2>1 DEF MeasurementIInv, Untouched
<1>9. RecordsOK'
  BY <1>1 DEF MeasurementIInv, RecordsOK
<1> QED BY <1>1, <1>5, <1>7, <1>8, <1>9 DEF MeasurementIInv
-----------------------------------------------------------------------------
\* The execution: transactions that every refresh in progress has missed.

\* Overtakes
LEMMA MissedByAll ==
    ASSUME overtakings \in Nat, NEW a, NEW records, Executes(a, records), refresh \in [Refreshers -> [pc : {"idle", "read"}, read : Records \cup {NoRecords}, new : Records \cup {NoRecords}, range : Ranges \cup {<<>>}]]
    PROVE  /\ treated' = a /\ measurement' = records
           /\ today' = today /\ synced' = synced /\ refresh' = refresh
           /\ overtakings' >= overtakings /\ overtakings' \in Nat
           /\ (\E r \in Refreshers : Pending(r)) => overtakings' = overtakings + 1
           /\ overtakings' # overtakings => overtakings < MaxOvertakings /\ overtakings' = overtakings + 1
  BY DEF Executes, Overtakes, Pending

LEMMA Capped ==
    ASSUME overtakings \in 0..MaxOvertakings, overtakings' \in Nat,
           overtakings' # overtakings => overtakings < MaxOvertakings /\ overtakings' = overtakings + 1
    PROVE  overtakings' \in 0..MaxOvertakings
  BY MeasurementConstants

\* What the action and its records are after a transaction.
RecordsAre(a, day, records, ranges) ==
    /\ records \in Records \cup {NoRecords}
    /\ records = NoRecords => a.status \in {"approved", "cancelled"}
    /\ records # NoRecords => Alike(records) /\ \A w \in Windows : RecordOK(a, day, records[w], w)

LEMMA BeforeExecution ==
    ASSUME MeasurementIInv, ~Executed(treated), NEW b, NEW records, Executes(b, records), ActionOK(b, today), b.undone = NotYet,
           RecordsAre(b, today, records, synced), measurement # NoRecords => records # NoRecords,
           \A w \in Windows : records # NoRecords /\ overtakings = 0 => records[w].baseline.end = records[w].end /\ Blank(records[w])
    PROVE  MeasurementIInv'
<1>0. refresh \in [Refreshers -> [pc : {"idle", "read"}, read : Records \cup {NoRecords}, new : Records \cup {NoRecords},
                                  range : Ranges \cup {<<>>}]]
  BY DEF MeasurementIInv, RefreshersOK
<1>1. /\ treated' = b /\ measurement' = records
      /\ today' = today /\ synced' = synced /\ refresh' = refresh
      /\ overtakings' >= overtakings /\ overtakings' \in Nat
      /\ (\E r \in Refreshers : Pending(r)) => overtakings' = overtakings + 1
      /\ overtakings' # overtakings => overtakings < MaxOvertakings /\ overtakings' = overtakings + 1
  BY <1>0, Facts, MissedByAll
<1>2. overtakings' \in 0..MaxOvertakings
  BY <1>1, Capped DEF MeasurementIInv
<1>3. RecordsOK'
  BY <1>1 DEF RecordsOK, RecordsAre
<1>4. \A r : (Pending(r)' <=> Pending(r)) /\ (Computed(r)' <=> Computed(r))
  BY <1>1 DEF Pending, Computed
<1>5. ASSUME NEW r \in Refreshers, Computed(r), NEW w \in Windows
      PROVE  /\ Blank(refresh[r].read[w]) /\ Blank(refresh[r].new[w])
             /\ PendingOK(b, today, records[w], refresh[r].read[w], refresh[r].new[w], w)
  <2>1. PendingOK(treated, today, measurement[w], refresh[r].read[w], refresh[r].new[w], w) /\ today \in Int
    BY <1>5, Facts
  <2>2. /\ Blank(refresh[r].read[w]) /\ Blank(refresh[r].new[w])
        /\ refresh[r].new[w].applied = refresh[r].read[w].applied /\ refresh[r].new[w].end = refresh[r].read[w].end
    BY <2>1, BlankBefore DEF MeasurementIInv
  <2> QED BY <2>1, <2>2, BlankIsPending
<1>6. RefreshersOK'
  <2>1. \A r \in Refreshers : Computed(r) => records # NoRecords
    BY Facts
  <2> QED BY <1>1, <1>4, <1>5, <2>1 DEF MeasurementIInv, RefreshersOK
<1>7. \A w, m : ~CutShort(b, m, w)
  BY DEF CutShort
<1>8. (\A w \in Windows : TornCosts(w) /\ \A r \in Refreshers : PendingCosts(r, w))'
  <2>1. \A w \in Windows : TornCosts(w)'
    BY <1>1, <1>7 DEF TornCosts
  <2>2. ASSUME NEW r \in Refreshers, NEW w \in Windows PROVE PendingCosts(r, w)'
    <3>1. Computed(r) => ~Armed(refresh[r].read[w], refresh[r].new[w])
      BY <1>5 DEF Armed, Blank
    <3> QED BY <1>1, <1>4, <1>7, <3>1 DEF PendingCosts
  <2> QED BY <2>1, <2>2
<1>9. Untouched'
  <2> SUFFICES ASSUME overtakings' = 0
               PROVE  /\ records # NoRecords => \A w \in Windows : Settled(b, today, records[w], w, synced)
                      /\ \A r \in Refreshers : ~Pending(r)
    BY <1>1, <1>4 DEF Untouched
  <2>1. overtakings = 0 /\ \A r \in Refreshers : ~Pending(r)
    BY <1>1, Facts
  <2>2. ASSUME records # NoRecords, NEW w \in Windows PROVE Settled(b, today, records[w], w, synced)
    <3>1. records[w].baseline.end = records[w].end /\ Blank(records[w])
      BY <2>1, <2>2
    <3> QED BY <3>1 DEF Settled, Blank
  <2> QED BY <2>1, <2>2
<1> QED BY <1>1, <1>2, <1>3, <1>6, <1>8, <1>9 DEF MeasurementIInv

LEMMA AfterExecution ==
    ASSUME MeasurementIInv, Executed(treated), NEW b, NEW records, Executes(b, records), ActionOK(b, today),
           Follows(treated, b, today, today), RecordsAre(b, today, records, synced), records # NoRecords,
           measurement # NoRecords => \A w \in Windows :
               /\ records[w].applied = measurement[w].applied
               /\ measurement[w].comparison # NoMetrics => records[w].comparison # NoMetrics
               /\ overtakings = 0 => Settled(b, today, records[w], w, synced)
               /\ treated.undone = NotYet /\ CutShort(b, records[w], w) =>
                     records[w].status = "censored" /\ Cut(b, records[w].comparison),
           treated.undone = NotYet, measurement # NoRecords
    PROVE  MeasurementIInv'
<1>0. refresh \in [Refreshers -> [pc : {"idle", "read"}, read : Records \cup {NoRecords}, new : Records \cup {NoRecords},
                                  range : Ranges \cup {<<>>}]]
  BY DEF MeasurementIInv, RefreshersOK
<1>1. /\ treated' = b /\ measurement' = records
      /\ today' = today /\ synced' = synced /\ refresh' = refresh
      /\ overtakings' >= overtakings /\ overtakings' \in Nat /\ overtakings \in Nat
      /\ (\E r \in Refreshers : Pending(r)) => overtakings' = overtakings + 1
      /\ overtakings' # overtakings => overtakings < MaxOvertakings /\ overtakings' = overtakings + 1
  BY <1>0, Facts, MissedByAll
<1>2. overtakings' \in 0..MaxOvertakings
  BY <1>1, Capped DEF MeasurementIInv
<1>3. RecordsOK'
  BY <1>1 DEF RecordsOK, RecordsAre
<1>4. \A r : (Pending(r)' <=> Pending(r)) /\ (Computed(r)' <=> Computed(r))
  BY <1>1 DEF Pending, Computed
<1>t. today \in Int /\ ActionOK(treated, today)
  BY Facts DEF MeasurementIInv
<1>5. ASSUME NEW r \in Refreshers, Computed(r), NEW w \in Windows
      PROVE  PendingOK(b, today, records[w], refresh[r].read[w], refresh[r].new[w], w)
  <2>1. /\ PendingOK(treated, today, measurement[w], refresh[r].read[w], refresh[r].new[w], w)
        /\ refresh[r].read[w] \in ActionMeasurement /\ refresh[r].new[w] \in ActionMeasurement
    BY <1>5, Facts
  <2> QED BY <1>t, <2>1, PendingStays
<1>6. RefreshersOK'
  BY <1>1, <1>4, <1>5 DEF MeasurementIInv, RefreshersOK
<1>7. \A w \in Windows : TornCosts(w)'
  BY <1>1 DEF TornCosts, Torn, TornBack
<1>8. ASSUME NEW r \in Refreshers, NEW w \in Windows PROVE PendingCosts(r, w)'
  <2> SUFFICES ASSUME Computed(r) PROVE PendingCosts(r, w)'
    BY <1>4 DEF PendingCosts
  <2>1. overtakings' = overtakings + 1 /\ overtakings' >= 1
    BY <1>1 DEF Computed
  <2>2. PICK read : read = refresh[r].read[w]
    OBVIOUS
  <2>3. PICK new : new = refresh[r].new[w]
    OBVIOUS
  <2>4. PendingOK(treated, today, measurement[w], read, new, w) /\ PendingOK(b, today, records[w], read, new, w)
    BY <1>5, <2>2, <2>3, Facts
  <2>5. Old(r, w)'
    <3>1. new.status # "censored"
      BY <2>4 DEF PendingOK, CutShort
    <3> QED BY <1>1, <1>4, <2>3, <3>1 DEF Old
  <2>6. ASSUME Armed(read, new)
        PROVE  /\ overtakings' >= 2
               /\ CutShort(b, records[w], w) => overtakings' >= 3
    <3>1. overtakings >= 1 /\ (new.comparison.from # FirstDay(treated) => overtakings >= 2)
      BY <2>2, <2>3, <2>6 DEF MeasurementIInv, PendingCosts
    <3>2. ASSUME CutShort(b, records[w], w) PROVE new.comparison.from # FirstDay(treated)
      <4>1. Whole(b, today, new.comparison, w)
        BY <2>4, <2>6 DEF PendingOK, Armed
      <4>2. b.undone # NotYet /\ FirstDay(b) = FirstDay(treated) /\ FirstDay(b) + w - 1 >= b.undone
        BY <3>2 DEF CutShort, Follows, FirstDay
      <4>3. new.comparison.end = new.comparison.from + w - 1 /\ new.comparison.end < b.undone
        BY <4>1, <4>2 DEF Whole
      <4>4. b.undone \in Int /\ FirstDay(b) \in Int /\ w \in Int
        BY <1>t, <4>2, ActionDays, FirstDayIs, Numbers DEF Day
      <4> QED BY <4>2, <4>3, <4>4
    <3> QED BY <1>1, <2>1, <3>1, <3>2
  <2> QED BY <1>1, <2>1, <2>2, <2>3, <2>5, <2>6 DEF PendingCosts
<1>9. Untouched'
  <2> SUFFICES ASSUME overtakings' = 0
               PROVE  /\ \A w \in Windows : Settled(b, today, records[w], w, synced)
                      /\ \A r \in Refreshers : ~Pending(r)
    BY <1>1, <1>4 DEF Untouched
  <2> QED BY <1>1
<1> QED BY <1>1, <1>2, <1>3, <1>6, <1>7, <1>8, <1>9 DEF MeasurementIInv
\* Baseline
LEMMA BaselineIs ==
    ASSUME NEW e \in Int, NEW w \in Windows, NEW R, NEW b, b = Baseline(e, w, R)
    PROVE  b \in ActionMeasurement /\ Blank(b) /\ b.end = e /\ ~b.applied /\ b.baseline.end = b.end
<1>1. PICK m : m = Before(e, w, R)
  OBVIOUS
<1>2. m \in Metrics /\ m.end = e
  BY <1>1, AMetric, Numbers DEF Before
<1>3. PICK t : t = Waits(m)
  OBVIOUS
<1>4. t \in {"waiting", "baseline_pending"}
  BY <1>3 DEF Waits
<1>5. b = [status |-> t, outcome |-> "insufficient_data", applied |-> FALSE, end |-> e, baseline |-> m, comparison |-> NoMetrics]
  BY <1>1, <1>3 DEF Baseline
<1>6. e \in Day /\ NoMetrics \in Metrics
  BY NoMetricsIs DEF Day
<1>7. b \in ActionMeasurement
  BY <1>2, <1>4, <1>5, <1>6, ARecord DEF MeasurementStatuses
<1> QED BY <1>2, <1>4, <1>5, <1>7 DEF Blank

LEMMA BlankIsOK ==
    ASSUME NEW a, NEW day, NEW m, NEW w, Blank(m), m.end \in Int, ~m.applied, Executed(a) => m.end < a.started
    PROVE  RecordOK(a, day, m, w)
  BY DEF RecordOK, Blank, Comparable

LEMMA MarkedIsOK ==
    ASSUME NEW a, NEW day, NEW m, NEW w, Blank(m), m.end \in Int, Executed(a), m.end < a.started
    PROVE  RecordOK(a, day, m, w)
  BY DEF RecordOK, Blank, Comparable

LEMMA EnqueueKeeps == ASSUME MeasurementIInv, enqueue_execution PROVE MeasurementIInv'
<1>b. PICK b : b = [treated EXCEPT !.status = "execution_queued"]
  OBVIOUS
<1>s. PICK records : records = create_baselines(treated, measurement, synced, today)
  OBVIOUS
<1>1. treated.status = "approved" /\ Executes(b, records)
  BY <1>b, <1>s DEF enqueue_execution
<1>2. ActionOK(treated, today) /\ treated \in TreatedAction
  BY DEF MeasurementIInv, ActionOK
<1>3. ~Executed(treated) /\ treated.undone = NotYet
  BY <1>1, <1>2, ActionDays DEF ActionOK
<1>4. /\ b \in TreatedAction /\ b.status = "execution_queued"
      /\ b.started = treated.started /\ b.executed = treated.executed /\ b.completed = treated.completed /\ b.undone = treated.undone
  BY <1>b, <1>2 DEF TreatedAction
<1>5. ActionOK(b, today) /\ b.undone = NotYet /\ ~Executed(b)
  BY <1>2, <1>3, <1>4 DEF ActionOK, Executed
<1>6. CASE measurement # NoRecords
  <2>1. records = measurement
    BY <1>6, <1>s DEF create_baselines
  <2>2. ASSUME NEW w \in Windows
        PROVE  /\ RecordOK(b, today, records[w], w) /\ Blank(records[w])
               /\ overtakings = 0 => records[w].baseline.end = records[w].end
    <3>1. RecordOK(treated, today, measurement[w], w)
      BY <1>6, Facts
    <3>2. Blank(measurement[w]) /\ ~measurement[w].applied /\ measurement[w].end \in Int
      BY <3>1, <1>2, <1>3, BlankBefore DEF RecordOK
    <3>3. overtakings = 0 => measurement[w].baseline.end = measurement[w].end
      BY <1>6 DEF MeasurementIInv, Untouched, Settled
    <3> QED BY <1>5, <2>1, <3>2, <3>3, BlankIsOK
  <2>3. RecordsAre(b, today, records, synced)
    BY <1>6, <2>1, <2>2, Facts DEF RecordsAre
  <2> QED BY <1>1, <1>3, <1>5, <2>1, <2>2, <2>3, BeforeExecution
<1>7. CASE measurement = NoRecords
  <2>1. PICK anchor : anchor = IF treated.started # NotYet THEN treated.started ELSE today
    OBVIOUS
  <2>2. anchor - 1 \in Int
    BY <1>2, <2>1, Facts, ActionDays DEF Day
  <2>3. records = [w \in Windows |-> Baseline(anchor - 1, w, synced)]
    BY <1>7, <1>s, <2>1 DEF create_baselines
  <2>4. ASSUME NEW w \in Windows
        PROVE  /\ records[w] \in ActionMeasurement /\ ~records[w].applied /\ records[w].applied = FALSE
               /\ RecordOK(b, today, records[w], w) /\ Blank(records[w]) /\ records[w].baseline.end = records[w].end
    <3>0. PICK e : e = anchor - 1
      OBVIOUS
    <3>1. e \in Int /\ records[w] = Baseline(e, w, synced)
      BY <2>2, <2>3, <3>0
    <3>2. records[w] \in ActionMeasurement /\ Blank(records[w]) /\ records[w].end = e /\ ~records[w].applied
          /\ records[w].baseline.end = records[w].end
      BY <3>1, BaselineIs
    <3>3. records[w].applied = FALSE
      BY <3>2, RecordFields
    <3> QED BY <1>5, <2>2, <3>0, <3>2, <3>3, BlankIsOK
  <2>5. records \in Records /\ Alike(records)
    BY <2>3, <2>4 DEF Records, Alike
  <2>6. RecordsAre(b, today, records, synced)
    BY <2>4, <2>5, SomeRecords, MeasurementConstants DEF RecordsAre
  <2> QED BY <1>1, <1>3, <1>5, <1>7, <2>4, <2>6, BeforeExecution
<1> QED BY <1>6, <1>7

LEMMA CancelKeeps == ASSUME MeasurementIInv, cancel_action PROVE MeasurementIInv'
<1>b. PICK b : b = [treated EXCEPT !.status = "cancelled"]
  OBVIOUS
<1>1. treated.status \in {"approved", "execution_queued"} /\ Executes(b, measurement)
  BY <1>b DEF cancel_action
<1>2. ActionOK(treated, today) /\ treated \in TreatedAction
  BY DEF MeasurementIInv, ActionOK
<1>3. ~Executed(treated) /\ treated.undone = NotYet
  BY <1>1, <1>2, ActionDays DEF ActionOK
<1>4. /\ b \in TreatedAction /\ b.status = "cancelled"
      /\ b.started = treated.started /\ b.executed = treated.executed /\ b.completed = treated.completed /\ b.undone = treated.undone
  BY <1>b, <1>2 DEF TreatedAction
<1>5. ActionOK(b, today) /\ b.undone = NotYet /\ ~Executed(b)
  BY <1>2, <1>3, <1>4 DEF ActionOK, Executed
<1>6. ASSUME NEW w \in Windows, measurement # NoRecords
      PROVE  /\ RecordOK(b, today, measurement[w], w) /\ Blank(measurement[w])
             /\ overtakings = 0 => measurement[w].baseline.end = measurement[w].end
  <2>1. RecordOK(treated, today, measurement[w], w)
    BY <1>6, Facts
  <2>2. Blank(measurement[w]) /\ ~measurement[w].applied /\ measurement[w].end \in Int
    BY <2>1, <1>2, <1>3, BlankBefore DEF RecordOK
  <2>3. overtakings = 0 => measurement[w].baseline.end = measurement[w].end
    BY <1>6 DEF MeasurementIInv, Untouched, Settled
  <2> QED BY <1>5, <2>2, <2>3, BlankIsOK
<1>7. RecordsAre(b, today, measurement, synced)
  BY <1>4, <1>6, Facts DEF RecordsAre, MeasurementIInv, RecordsOK
<1>8. PICK records : records = measurement
  OBVIOUS
<1> QED BY <1>1, <1>3, <1>5, <1>6, <1>7, <1>8, BeforeExecution

\* The three ends of an attempt: the window that it froze goes up to the day before.
LEMMA AttemptKeeps == ASSUME MeasurementIInv, execute_attempt PROVE MeasurementIInv'
<1>0. treated.status = "execution_queued"
  BY DEF execute_attempt
<1>2. ActionOK(treated, today) /\ treated \in TreatedAction /\ today \in Int /\ today \in Day /\ today - 1 \in Int /\ NotYet \notin Int
  BY Facts, Numbers DEF MeasurementIInv, ActionOK, Day
<1>3. ~Executed(treated) /\ treated.undone = NotYet /\ treated.completed = NotYet /\ treated.executed = NotYet
  BY <1>0, <1>2, ActionDays DEF ActionOK, Executed
<1>m. measurement # NoRecords /\ measurement \in Records /\ Alike(measurement)
  BY <1>0, Facts DEF MeasurementIInv, RecordsOK
<1>f. PICK frozen : frozen = refreeze(measurement, synced, today)
  OBVIOUS
<1>g. PICK begun : begun = [treated EXCEPT !.started = today]
  OBVIOUS
<1>4. /\ begun \in TreatedAction /\ begun.started = today /\ begun.status = "execution_queued"
      /\ begun.executed = NotYet /\ begun.completed = NotYet /\ begun.undone = NotYet
  BY <1>0, <1>2, <1>3, <1>g DEF TreatedAction
<1>5. ASSUME NEW w \in Windows
      PROVE  /\ frozen[w] \in ActionMeasurement /\ Blank(frozen[w]) /\ frozen[w].end = today - 1
             /\ frozen[w].applied = FALSE /\ frozen[w].baseline.end = frozen[w].end
  <2>5. PICK e : e = today - 1
    OBVIOUS
  <2>1. PICK b : b = Baseline(e, w, synced)
    OBVIOUS
  <2>2. PICK p : p = measurement[w].applied
    OBVIOUS
  <2>3. frozen[w] = [b EXCEPT !.applied = p]
    BY <1>f, <2>1, <2>2, <2>5 DEF refreeze
  <2>4. p = FALSE
    <3>1. RecordOK(treated, today, measurement[w], w) /\ measurement[w] \in ActionMeasurement
      BY <1>m, Facts
    <3>2. ~measurement[w].applied
      BY <1>2, <1>3, <3>1, BlankBefore
    <3> QED BY <2>2, <3>1, <3>2, RecordFields
  <2>9. e \in Int
    BY <1>2, <2>5
  <2>6. b \in ActionMeasurement /\ Blank(b) /\ b.end = e /\ ~b.applied /\ b.baseline.end = b.end
    BY <2>1, <2>9, BaselineIs
  <2>7. b = [status |-> b.status, outcome |-> b.outcome, applied |-> b.applied, end |-> b.end,
             baseline |-> b.baseline, comparison |-> b.comparison]
    BY <2>6, RecordFields
  <2>10. b.applied = FALSE
    BY <2>6, RecordFields
  <2>8. frozen[w] = b
    BY <2>3, <2>4, <2>7, <2>10
  <2> QED BY <2>5, <2>6, <2>8, <2>10
<1>6. DOMAIN frozen = Windows /\ frozen \in Records /\ Alike(frozen)
  BY <1>5, <1>f DEF refreeze, Records, Alike
<1>7. ASSUME NEW b, NEW records, Executes(b, records), ActionOK(b, today), b.undone = NotYet,
             b.status \notin {"approved", "cancelled"}, Executed(b) => b.started = today,
             records \in Records, Alike(records),
             \A w \in Windows : /\ Blank(records[w]) /\ records[w].end = today - 1 /\ records[w].baseline.end = records[w].end
                                /\ ~records[w].applied \/ Executed(b)
      PROVE  MeasurementIInv'
  <2>1. records # NoRecords
    BY <1>7, MeasurementConstants, SomeRecords
  <2>2. ASSUME NEW w \in Windows PROVE RecordOK(b, today, records[w], w)
    <3>1. Executed(b) => records[w].end < b.started
      BY <1>2, <1>7
    <3> QED BY <1>2, <1>7, <3>1, BlankIsOK, MarkedIsOK
  <2>3. RecordsAre(b, today, records, synced)
    BY <1>7, <2>1, <2>2 DEF RecordsAre
  <2> QED BY <1>3, <1>7, <2>1, <2>3, BeforeExecution
<1>8. ASSUME NEW applied \in BOOLEAN,
             Executes([begun EXCEPT !.executed = today, !.status = "validating"], mark_applied(frozen, applied))
      PROVE  MeasurementIInv'
  <2>1. PICK b : b = [begun EXCEPT !.executed = today, !.status = "validating"]
    OBVIOUS
  <2>2. PICK records : records = mark_applied(frozen, applied)
    OBVIOUS
  <2>3. /\ b \in TreatedAction /\ b.status = "validating" /\ b.executed = today /\ b.started = today
        /\ b.completed = NotYet /\ b.undone = NotYet
    BY <1>2, <1>4, <2>1 DEF TreatedAction
  <2>4. ActionOK(b, today) /\ Executed(b)
    BY <1>2, <2>3 DEF ActionOK, Executed
  <2>5. PICK marked : marked = [w \in Windows |-> [frozen[w] EXCEPT !.applied = applied]]
    OBVIOUS
  <2>6. ASSUME NEW w \in Windows
        PROVE  /\ marked[w] \in ActionMeasurement /\ Blank(marked[w]) /\ marked[w].end = today - 1
               /\ marked[w].applied = applied /\ marked[w].baseline.end = marked[w].end
    <3>1. PICK m : m = frozen[w]
      OBVIOUS
    <3>2. m \in ActionMeasurement /\ Blank(m) /\ m.end = today - 1 /\ m.baseline.end = m.end
      BY <1>5, <3>1
    <3>3. m = [status |-> m.status, outcome |-> m.outcome, applied |-> m.applied, end |-> m.end,
               baseline |-> m.baseline, comparison |-> m.comparison]
      BY <3>2, RecordFields
    <3>4. marked[w] = [status |-> m.status, outcome |-> m.outcome, applied |-> applied, end |-> m.end,
                       baseline |-> m.baseline, comparison |-> m.comparison]
      BY <2>5, <3>1, <3>3
    <3> QED BY <3>2, <3>4, RecordFields, ARecord DEF Blank
  <2>7. records = IF applied THEN marked ELSE [w \in Windows |-> Refused(marked[w])]
    BY <2>2, <2>5 DEF mark_applied, Inapplicable, Refused
  <2>8. ASSUME NEW w \in Windows
        PROVE  /\ records[w] \in ActionMeasurement /\ Blank(records[w]) /\ records[w].end = today - 1
               /\ records[w].applied = applied /\ records[w].baseline.end = records[w].end
    <3>1. CASE applied
      BY <2>6, <2>7, <3>1
    <3>2. CASE ~applied
      <4>1. records[w] = Refused(marked[w])
        BY <2>7, <3>2
      <4> QED BY <2>6, <4>1, RefusedIs DEF Blank
    <3> QED BY <3>1, <3>2
  <2>9. records \in Records /\ Alike(records)
    <3>1. DOMAIN records = Windows /\ records = [w \in Windows |-> records[w]]
      BY <2>5, <2>7
    <3> QED BY <2>8, <3>1 DEF Records, Alike
  <2> QED BY <1>7, <1>8, <2>1, <2>2, <2>3, <2>4, <2>8, <2>9
<1>9. ASSUME Executes(begun, frozen) PROVE MeasurementIInv'
  <2>1. ActionOK(begun, today) /\ ~Executed(begun)
    BY <1>2, <1>4 DEF ActionOK, Executed
  <2> QED BY <1>4, <1>5, <1>6, <1>7, <1>9, <2>1
<1>10. ASSUME Executes([begun EXCEPT !.status = "failed"], frozen) PROVE MeasurementIInv'
  <2>1. PICK b : b = [begun EXCEPT !.status = "failed"]
    OBVIOUS
  <2>2. /\ b \in TreatedAction /\ b.status = "failed" /\ b.executed = NotYet /\ b.started = today
        /\ b.completed = NotYet /\ b.undone = NotYet
    BY <1>4, <2>1 DEF TreatedAction
  <2>3. ActionOK(b, today) /\ ~Executed(b)
    BY <1>2, <2>2 DEF ActionOK, Executed
  <2> QED BY <1>5, <1>6, <1>7, <1>10, <2>1, <2>2, <2>3
<1> QED BY <1>8, <1>9, <1>10, <1>f, <1>g DEF execute_attempt
LEMMA RefreshedIsOK ==
    ASSUME NEW a, NEW day, NEW w, NEW m, NEW n, RecordOK(a, day, m, w), RefreshOK(a, day, m, n, w)
    PROVE  RecordOK(a, day, n, w)
<1>1. n.applied = m.applied /\ n.end = m.end /\ (CutShort(a, m, w) <=> CutShort(a, n, w))
  BY DEF RefreshOK, PendingOK, CutShort
<1>2. Comparable(a, day, n, n.comparison, w)
  BY <1>1 DEF RefreshOK, PendingOK, Comparable
<1> QED BY <1>1, <1>2 DEF RecordOK, RefreshOK, PendingOK

\* The refresh in the transaction of a validation or a rollback.
LEMMA RefreshesInside ==
    ASSUME MeasurementIInv, Executed(treated), NEW b, ActionOK(b, today), Follows(treated, b, today, today), treated.undone = NotYet,
           NEW records, records = Refreshed(b, measurement, synced, today), Executes(b, records)
    PROVE  MeasurementIInv'
<1>1. today \in Int /\ ActionOK(treated, today) /\ synced \in SUBSET Ranges /\ IsFiniteSet(synced)
  BY Facts DEF MeasurementIInv
<1>2. measurement # NoRecords /\ measurement \in Records /\ Alike(measurement)
  BY Facts DEF MeasurementIInv, RecordsOK, ActionOK
<1>3. ASSUME NEW w \in Windows
      PROVE  measurement[w] \in ActionMeasurement /\ RecordOK(b, today, measurement[w], w)
  BY <1>1, <1>2, Facts, RecordStays
<1>4. /\ records \in Records /\ records # NoRecords
      /\ \A w \in Windows : /\ RefreshOK(b, today, measurement[w], records[w], w)
                            /\ \A S \in SUBSET synced : Settled(b, today, measurement[w], w, S) => Settled(b, today, records[w], w, synced)
  BY <1>1, <1>2, <1>3, RefreshIs
<1>5. \A w \in Windows : RecordOK(b, today, records[w], w)
  BY <1>3, <1>4, RefreshedIsOK
<1>6. ASSUME NEW w \in Windows
      PROVE  /\ records[w].applied = measurement[w].applied
             /\ measurement[w].comparison # NoMetrics => records[w].comparison # NoMetrics
             /\ overtakings = 0 => Settled(b, today, records[w], w, synced)
             /\ CutShort(b, records[w], w) => records[w].status = "censored" /\ Cut(b, records[w].comparison)
  <2>1. PendingOK(b, today, measurement[w], measurement[w], records[w], w)
    BY <1>4 DEF RefreshOK
  <2>2. /\ records[w].applied = measurement[w].applied
        /\ measurement[w].comparison # NoMetrics => records[w].comparison # NoMetrics
    BY <2>1 DEF PendingOK
  <2>3. ASSUME overtakings = 0 PROVE Settled(b, today, records[w], w, synced)
    <3>1. Settled(treated, today, measurement[w], w, synced)
      BY <1>2, <2>3 DEF MeasurementIInv, Untouched
    <3>2. RecordOK(treated, today, measurement[w], w)
      BY <1>2, Facts
    <3>3. Settled(b, today, measurement[w], w, synced)
      BY <1>1, <1>3, <3>1, <3>2, SettledStays DEF RecordOK
    <3> QED BY <1>4, <3>3
  <2>4. ASSUME CutShort(b, records[w], w) PROVE records[w].status = "censored" /\ Cut(b, records[w].comparison)
    <3>1. CutShort(b, measurement[w], w)
      BY <2>2, <2>4 DEF CutShort
    <3> QED BY <1>4, <2>1, <3>1 DEF RefreshOK, PendingOK
  <2> QED BY <2>2, <2>3, <2>4
<1>7. Alike(records)
  BY <1>2, <1>6 DEF Alike
<1>8. RecordsAre(b, today, records, synced)
  BY <1>4, <1>5, <1>7 DEF RecordsAre
<1> QED BY <1>1, <1>2, <1>4, <1>6, <1>8, AfterExecution

\* A validation or a rollback that fails.
LEMMA FailsInside ==
    ASSUME MeasurementIInv, Executed(treated), treated.undone = NotYet, Executes([treated EXCEPT !.status = "failed"], measurement)
    PROVE  MeasurementIInv'
<1>b. PICK b : b = [treated EXCEPT !.status = "failed"]
  OBVIOUS
<1>r. PICK records : records = measurement
  OBVIOUS
<1>1. today \in Int /\ ActionOK(treated, today) /\ treated \in TreatedAction /\ synced \in SUBSET Ranges /\ IsFiniteSet(synced)
  BY Facts DEF MeasurementIInv, ActionOK
<1>2. measurement # NoRecords /\ measurement \in Records /\ Alike(measurement)
  BY Facts DEF MeasurementIInv, RecordsOK, ActionOK
<1>3. /\ b \in TreatedAction /\ b.status = "failed"
      /\ b.started = treated.started /\ b.executed = treated.executed /\ b.completed = treated.completed /\ b.undone = treated.undone
  BY <1>b, <1>1 DEF TreatedAction
<1>4. ActionOK(b, today)
  BY <1>1, <1>3 DEF ActionOK, Executed
<1>5. Follows(treated, b, today, today)
  BY <1>1, <1>3 DEF Follows
<1>6. ASSUME NEW w \in Windows
      PROVE  /\ RecordOK(b, today, records[w], w)
             /\ overtakings = 0 => Settled(b, today, records[w], w, synced)
             /\ ~CutShort(b, records[w], w)
  <2>1. RecordOK(treated, today, measurement[w], w) /\ measurement[w] \in ActionMeasurement
    BY <1>2, Facts
  <2>2. overtakings = 0 => Settled(treated, today, measurement[w], w, synced)
    BY <1>2 DEF MeasurementIInv, Untouched
  <2>3. Comparable(treated, today, measurement[w], measurement[w].comparison, w)
    BY <2>1 DEF RecordOK
  <2>4. overtakings = 0 => Settled(b, today, measurement[w], w, synced)
    BY <1>1, <1>4, <1>5, <2>1, <2>2, <2>3, SettledStays
  <2>5. RecordOK(b, today, measurement[w], w)
    BY <1>1, <1>5, <2>1, RecordStays
  <2> QED BY <1>3, <1>r, <2>4, <2>5 DEF CutShort
<1>7. RecordsAre(b, today, records, synced)
  BY <1>2, <1>6, <1>r DEF RecordsAre
<1>8. Executes(b, records)
  BY <1>b, <1>r
<1> QED BY <1>2, <1>4, <1>5, <1>6, <1>7, <1>8, <1>r, AfterExecution

LEMMA ValidateKeeps == ASSUME MeasurementIInv, validate_attempt PROVE MeasurementIInv'
<1>b. PICK b : b = [treated EXCEPT !.status = "succeeded", !.completed = today]
  OBVIOUS
<1>1. today \in Int /\ today \in Day /\ ActionOK(treated, today) /\ treated \in TreatedAction /\ treated.status = "validating" /\ NotYet \notin Int
  BY Facts, Numbers DEF MeasurementIInv, ActionOK, validate_attempt, Day
<1>2. Executed(treated) /\ treated.completed = NotYet /\ treated.undone = NotYet
  BY <1>1, ActionDays DEF ActionOK
<1>3. /\ b \in TreatedAction /\ b.status = "succeeded" /\ b.completed = today
      /\ b.started = treated.started /\ b.executed = treated.executed /\ b.undone = NotYet
  BY <1>b, <1>1, <1>2 DEF TreatedAction
<1>4. treated.executed <= today
  BY <1>1, <1>2 DEF ActionOK, Executed
<1>5. ActionOK(b, today)
  BY <1>1, <1>2, <1>3, <1>4 DEF ActionOK, Executed
<1>6. Follows(treated, b, today, today)
  BY <1>1, <1>2, <1>3 DEF Follows
<1>7. ASSUME Executes(b, Refreshed(b, measurement, synced, today)) PROVE MeasurementIInv'
  <2>1. PICK records : records = Refreshed(b, measurement, synced, today)
    OBVIOUS
  <2> QED BY <1>2, <1>5, <1>6, <1>7, <2>1, RefreshesInside
<1> QED BY <1>2, <1>7, <1>b, FailsInside DEF validate_attempt

LEMMA RollbackKeeps == ASSUME MeasurementIInv, rollback_attempt PROVE MeasurementIInv'
<1>b. PICK b : b = [treated EXCEPT !.status = "rolled_back", !.undone = today]
  OBVIOUS
<1>1. today \in Int /\ today \in Day /\ ActionOK(treated, today) /\ treated \in TreatedAction /\ treated.status = "succeeded" /\ NotYet \notin Int
  BY Facts, Numbers DEF MeasurementIInv, ActionOK, rollback_attempt, Day
<1>2. Executed(treated) /\ treated.completed # NotYet /\ treated.undone = NotYet
  BY <1>1, ActionDays DEF ActionOK
<1>3. /\ b \in TreatedAction /\ b.status = "rolled_back" /\ b.undone = today
      /\ b.started = treated.started /\ b.executed = treated.executed /\ b.completed = treated.completed
  BY <1>b, <1>1, <1>2 DEF TreatedAction
<1>5. ActionOK(b, today)
  BY <1>1, <1>2, <1>3 DEF ActionOK, Executed
<1>6. Follows(treated, b, today, today)
  BY <1>1, <1>2, <1>3 DEF Follows
<1>7. ASSUME Executes(b, Refreshed(b, measurement, synced, today)) PROVE MeasurementIInv'
  <2>1. PICK records : records = Refreshed(b, measurement, synced, today)
    OBVIOUS
  <2> QED BY <1>2, <1>5, <1>6, <1>7, <2>1, RefreshesInside
<1> QED BY <1>2, <1>7, <1>b, FailsInside DEF rollback_attempt
-----------------------------------------------------------------------------
\* Reads

LEMMA ReadKeeps ==
    ASSUME MeasurementIInv, NEW r \in Refreshers, NEW range \in Ranges \cup {<<>>}, r = Sync => range \in Ranges,
           NEW ranges, ranges = (IF r = Sync THEN synced \cup {range} ELSE synced), Reads(r, ranges, range)
    PROVE  MeasurementIInv'
<1>n. PICK new : new = Refreshed(treated, measurement, ranges, today)
  OBVIOUS
<1>s. PICK s : s = [pc |-> "read", read |-> measurement, range |-> range, new |-> new]
  OBVIOUS
<1>1. /\ today' = today /\ synced' = synced /\ treated' = treated /\ measurement' = measurement /\ overtakings' = overtakings
      /\ refresh' = [refresh EXCEPT ![r] = s] /\ refresh[r].pc = "idle"
  BY <1>n, <1>s DEF Reads
<1>2. today \in Int /\ ActionOK(treated, today) /\ overtakings \in Nat
  BY Facts DEF MeasurementIInv
<1>3. ranges \in SUBSET Ranges /\ IsFiniteSet(ranges) /\ synced \in SUBSET ranges
  <2>1. IsFiniteSet({range}) /\ IsFiniteSet(synced) /\ synced \in SUBSET Ranges
    BY FS_Singleton, Facts
  <2>2. IsFiniteSet(synced \cup {range})
    BY <2>1, FS_Union
  <2> QED BY <2>1, <2>2
<1>5. ASSUME measurement # NoRecords
      PROVE  /\ measurement \in Records /\ new \in Records /\ new # NoRecords
             /\ \A w \in Windows : /\ measurement[w] \in ActionMeasurement /\ new[w] \in ActionMeasurement
                                   /\ RecordOK(treated, today, measurement[w], w)
                                   /\ RefreshOK(treated, today, measurement[w], new[w], w)
                                   /\ Settled(treated, today, measurement[w], w, synced) => Settled(treated, today, new[w], w, ranges)
  <2>1. measurement \in Records /\ Alike(measurement)
    BY <1>5, Facts
  <2>2. \A w \in Windows : measurement[w] \in ActionMeasurement /\ RecordOK(treated, today, measurement[w], w)
    BY <1>5, Facts
  <2>3. /\ new \in Records /\ new # NoRecords
        /\ \A w \in Windows : /\ RefreshOK(treated, today, measurement[w], new[w], w)
                              /\ \A S \in SUBSET ranges : Settled(treated, today, measurement[w], w, S) => Settled(treated, today, new[w], w, ranges)
    BY <1>2, <1>3, <1>5, <1>n, <2>1, <2>2, RefreshIs
  <2>4. \A w \in Windows : new[w] \in ActionMeasurement
    BY <2>3 DEF Records
  <2> QED BY <1>3, <2>1, <2>2, <2>3, <2>4
<1>6. measurement = NoRecords => new = NoRecords
  <2> SUFFICES ASSUME measurement = NoRecords PROVE new = NoRecords
    OBVIOUS
  <2> QED BY <1>n DEF MeasurementIInv, RecordsOK, Refreshed, Untreated, MeasurableStatuses
<1>7. refresh \in [Refreshers -> [pc : {"idle", "read"}, read : Records \cup {NoRecords}, new : Records \cup {NoRecords},
                                  range : Ranges \cup {<<>>}]]
  BY DEF MeasurementIInv, RefreshersOK
<1>8. /\ refresh'[r] = s /\ \A z \in Refreshers \ {r} : refresh'[z] = refresh[z]
      /\ refresh' \in [Refreshers -> [pc : {"idle", "read"}, read : Records \cup {NoRecords}, new : Records \cup {NoRecords},
                                      range : Ranges \cup {<<>>}]]
  <2>1. s \in [pc : {"idle", "read"}, read : Records \cup {NoRecords}, new : Records \cup {NoRecords}, range : Ranges \cup {<<>>}]
    <3>1. measurement \in Records \cup {NoRecords}
      BY DEF MeasurementIInv, RecordsOK
    <3>2. new \in Records \cup {NoRecords}
      BY <1>5, <1>6
    <3> QED BY <3>1, <3>2, <1>s
  <2> QED BY <1>1, <1>7, <2>1
<1>9. /\ \A z \in Refreshers \ {r} : (Pending(z)' <=> Pending(z)) /\ (Computed(z)' <=> Computed(z)) /\ \A w : Old(z, w)' <=> Old(z, w)
      /\ Computed(r)' <=> measurement # NoRecords
      /\ s.read = measurement /\ s.new = new /\ s.range = range
  BY <1>8, <1>s DEF Pending, Computed, Old
<1>10. RefreshersOK'
  <2>1. ASSUME NEW w \in Windows, measurement # NoRecords
        PROVE  PendingOK(treated, today, measurement[w], measurement[w], new[w], w)
    BY <1>5, <2>1 DEF RefreshOK
  <2> QED BY <1>1, <1>5, <1>6, <1>8, <1>9, <2>1 DEF MeasurementIInv, RefreshersOK
\* Who reads after the rollback censors the window that it cut.
<1>11. ASSUME NEW w \in Windows, CutShort(treated, measurement[w], w), measurement # NoRecords
       PROVE  /\ new[w].status = "censored"
              /\ SomeOld(w)' => SomeOld(w)
  <2>1. new[w].status = "censored"
    BY <1>5, <1>11 DEF RefreshOK
  <2>2. ~Old(r, w)'
    BY <1>8, <1>9, <2>1 DEF Old
  <2> QED BY <1>9, <2>1, <2>2 DEF SomeOld
<1>12. ASSUME NEW w \in Windows PROVE TornCosts(w)'
  BY <1>1, <1>11 DEF MeasurementIInv, TornCosts
<1>13. ASSUME NEW w \in Windows, NEW z \in Refreshers PROVE PendingCosts(z, w)'
  <2>1. CASE z # r
    <3>1. PendingCosts(z, w)
      BY DEF MeasurementIInv
    <3>2. Computed(z) => measurement # NoRecords
      BY Facts
    <3>3. CutShort(treated, measurement[w], w) /\ measurement # NoRecords => (SomeOld(w)' => SomeOld(w))
      BY <1>11
    <3> QED BY <1>1, <1>8, <1>9, <2>1, <3>1, <3>2, <3>3 DEF PendingCosts
  <2>2. CASE z = r
    <3> SUFFICES ASSUME measurement # NoRecords PROVE PendingCosts(r, w)'
      BY <1>9, <2>2 DEF PendingCosts
    <3>1. ASSUME Armed(measurement[w], new[w])
          PROVE  /\ overtakings >= 1 /\ new[w].comparison.from = FirstDay(treated)
                 /\ ~CutShort(treated, measurement[w], w)
      <4>1. RefreshOK(treated, today, measurement[w], new[w], w)
        BY <1>5
      <4>2. new[w].comparison.from = FirstDay(treated) /\ new[w].comparison = measurement[w].comparison
            /\ Whole(treated, today, new[w].comparison, w) /\ new[w].comparison # NoMetrics
        BY <3>1, <4>1 DEF Armed, RefreshOK, PendingOK
      <4>3. ~Settled(treated, today, measurement[w], w, synced)
        BY <3>1, <4>2 DEF Settled, Armed
      <4>4. overtakings # 0
        BY <4>3 DEF MeasurementIInv, Untouched
      <4>5. ~CutShort(treated, measurement[w], w)
        BY <3>1, <1>11 DEF Armed
      <4> QED BY <1>2, <4>2, <4>4, <4>5
    <3>2. ASSUME CutShort(treated, measurement[w], w)
          PROVE  /\ ~Old(r, w)'
                 /\ Torn(treated, measurement[w]) => overtakings >= 1 /\ (SomeOld(w)' => overtakings >= 2)
                                                     /\ Cut(treated, measurement[w].comparison)
                 /\ TornBack(treated, measurement[w]) => overtakings >= 3
      <4>1. new[w].status = "censored" /\ (SomeOld(w)' => SomeOld(w))
        BY <1>11, <3>2
      <4>2. TornCosts(w)
        BY DEF MeasurementIInv
      <4> QED BY <1>8, <1>9, <3>2, <4>1, <4>2 DEF TornCosts, Old, Torn
    <3> QED BY <1>1, <1>8, <1>9, <3>1, <3>2 DEF PendingCosts
  <2> QED BY <2>1, <2>2
<1>14. Untouched'
  <2> SUFFICES ASSUME overtakings = 0
               PROVE  /\ measurement # NoRecords => \A w \in Windows : Settled(treated, today, measurement[w], w, synced)
                      /\ \A z \in Refreshers : Pending(z)' =>
                            /\ refresh'[z].read = measurement
                            /\ measurement # NoRecords => \A w \in Windows : Settled(treated, today, refresh'[z].new[w], w, Known(z)')
    BY <1>1 DEF Untouched
  <2>1. measurement # NoRecords => \A w \in Windows : Settled(treated, today, measurement[w], w, synced)
    BY DEF MeasurementIInv, Untouched
  <2>2. ASSUME NEW z \in Refreshers \ {r}, Pending(z)'
        PROVE  /\ refresh'[z].read = measurement
               /\ measurement # NoRecords => \A w \in Windows : Settled(treated, today, refresh'[z].new[w], w, Known(z)')
    <3>1. Known(z)' = Known(z)
      BY <1>1, <1>8 DEF Known
    <3> QED BY <1>8, <1>9, <2>2, <3>1 DEF MeasurementIInv, Untouched
  <2>3. Known(r)' = ranges
    BY <1>1, <1>8, <1>9 DEF Known
  <2>4. measurement # NoRecords => \A w \in Windows : Settled(treated, today, new[w], w, ranges)
    BY <1>5, <2>1
  <2> QED BY <1>8, <1>9, <2>1, <2>2, <2>3, <2>4
<1>15. RecordsOK'
  BY <1>1 DEF MeasurementIInv, RecordsOK
<1> QED BY <1>1, <1>10, <1>12, <1>13, <1>14, <1>15 DEF MeasurementIInv
-----------------------------------------------------------------------------
\* The commit of a refresh.

\* Merged, for one record
Merges(m, read, new, n) ==
    /\ n \in ActionMeasurement
    /\ n.status = IF new.status # read.status THEN new.status ELSE m.status
    /\ n.applied = IF new.applied # read.applied THEN new.applied ELSE m.applied
    /\ n.end = IF new.end # read.end THEN new.end ELSE m.end
    /\ n.comparison = IF new.comparison # read.comparison THEN new.comparison ELSE m.comparison
    /\ read = m => n = new

LEMMA MergedIs ==
    ASSUME NEW m \in ActionMeasurement, NEW read \in ActionMeasurement, NEW new \in ActionMeasurement,
           NEW n, n = [f \in DOMAIN new |-> IF new[f] # read[f] THEN new[f] ELSE m[f]]
    PROVE  Merges(m, read, new, n)
<1>1. new = [status |-> new.status, outcome |-> new.outcome, applied |-> new.applied, end |-> new.end,
             baseline |-> new.baseline, comparison |-> new.comparison]
  BY RecordFields
<1>2. DOMAIN new = {"status", "outcome", "applied", "end", "baseline", "comparison"}
  BY <1>1
<1>3. PICK st : st = IF new.status # read.status THEN new.status ELSE m.status
  OBVIOUS
<1>4. PICK ou : ou = IF new.outcome # read.outcome THEN new.outcome ELSE m.outcome
  OBVIOUS
<1>5. PICK ap : ap = IF new.applied # read.applied THEN new.applied ELSE m.applied
  OBVIOUS
<1>6. PICK en : en = IF new.end # read.end THEN new.end ELSE m.end
  OBVIOUS
<1>7. PICK ba : ba = IF new.baseline # read.baseline THEN new.baseline ELSE m.baseline
  OBVIOUS
<1>8. PICK co : co = IF new.comparison # read.comparison THEN new.comparison ELSE m.comparison
  OBVIOUS
<1>9. n = [status |-> st, outcome |-> ou, applied |-> ap, end |-> en, baseline |-> ba, comparison |-> co]
  BY <1>2, <1>3, <1>4, <1>5, <1>6, <1>7, <1>8
<1>10. /\ st \in MeasurementStatuses /\ ou \in {"insufficient_data", "classified"} /\ ap \in BOOLEAN
       /\ en \in Day /\ ba \in Metrics /\ co \in Metrics
  <2>1. st \in MeasurementStatuses /\ ou \in {"insufficient_data", "classified"}
    BY <1>3, <1>4, RecordFields
  <2>2. ap \in BOOLEAN
    BY <1>5, RecordFields
  <2>3. en \in Day
    BY <1>6, RecordFields
  <2>4. ba \in Metrics /\ co \in Metrics
    BY <1>7, <1>8, RecordFields
  <2> QED BY <2>1, <2>2, <2>3, <2>4
<1>11. n \in ActionMeasurement
  BY <1>9, <1>10, ARecord
<1>12. read = m => n = new
  <2>1. read = m => st = new.status /\ ou = new.outcome /\ ap = new.applied /\ en = new.end /\ ba = new.baseline /\ co = new.comparison
    BY <1>3, <1>4, <1>5, <1>6, <1>7, <1>8
  <2> QED BY <1>1, <1>9, <2>1
<1>13. n.status = st /\ n.applied = ap /\ n.end = en /\ n.comparison = co
  BY <1>9
<1> QED BY <1>3, <1>5, <1>6, <1>8, <1>11, <1>12, <1>13 DEF Merges

LEMMA MergedStays ==
    ASSUME NEW a, NEW day \in Int, ActionOK(a, day), NEW w \in Windows, NEW m, RecordOK(a, day, m, w),
           NEW read, NEW new, PendingOK(a, day, m, read, new, w), NEW n, Merges(m, read, new, n)
    PROVE  /\ n.applied = m.applied /\ n.end = m.end
           /\ m.comparison # NoMetrics => n.comparison # NoMetrics
           /\ RecordOK(a, day, n, w)
           /\ CutShort(a, n, w) <=> CutShort(a, m, w)
<1>1. n.applied = m.applied /\ n.end = m.end
  BY DEF Merges, PendingOK
<1>2. CutShort(a, n, w) <=> CutShort(a, m, w)
  BY <1>1 DEF CutShort
<1>3. new.comparison # read.comparison => new.comparison # NoMetrics
  BY NothingIsNotCut DEF PendingOK
<1>4. Comparable(a, day, n, n.comparison, w)
  <2>1. Comparable(a, day, m, n.comparison, w)
    BY DEF Merges, PendingOK, RecordOK
  <2> QED BY <1>2, <2>1 DEF Comparable
<1>5. n.status = "measured" => n.comparison # NoMetrics
  BY <1>3 DEF Merges, PendingOK, RecordOK
<1>6. n.status = "censored" => CutShort(a, n, w)
  BY <1>2 DEF Merges, PendingOK, RecordOK
<1>7. n.comparison # NoMetrics => n.applied
  BY <1>1 DEF Merges, PendingOK, RecordOK
<1>8. m.comparison # NoMetrics => n.comparison # NoMetrics
  BY <1>3 DEF Merges
<1> QED BY <1>1, <1>2, <1>4, <1>5, <1>6, <1>7, <1>8 DEF RecordOK

\* What it takes to leave a torn record: before is the number of overtakings that the refresh has seen happen,
\* old whether it read before the rollback and some whether anyone did.
LEMMA TearsCost ==
    ASSUME NEW a, NEW day \in Int, ActionOK(a, day), Executed(a), NEW w \in Windows, NEW m, NEW read, NEW new,
           PendingOK(a, day, m, read, new, w), CutShort(a, m, w), NEW n, Merges(m, read, new, n), NEW k \in Nat,
           Torn(a, m) => k >= 1, TornBack(a, m) => k >= 3, Torn(a, m) /\ m.status = "measured" => k >= 3,
           Armed(read, new) => k >= 3,
           new.status # "censored" => k >= 1,
           new.status = "censored" /\ Torn(a, read) /\ ~Cut(a, m.comparison) => k >= 3,
           new.status = "censored" /\ TornBack(a, read) => k >= 3
    PROVE  /\ Torn(a, n) => k >= 1
           /\ Torn(a, n) => new.status # "censored" \/ Torn(a, m) \/ k >= 3
           /\ TornBack(a, n) => k >= 3
           /\ Torn(a, n) /\ n.status = "measured" => k >= 3
           /\ Cut(a, m.comparison) /\ ~Cut(a, n.comparison) => new.status # "censored"
<1>1. new.status = "censored" <=> Cut(a, new.comparison)
  BY DEF PendingOK
<1>m. /\ n.status = IF new.status # read.status THEN new.status ELSE m.status
      /\ n.comparison = IF new.comparison # read.comparison THEN new.comparison ELSE m.comparison
  BY DEF Merges
<1>2. CASE new.status # "censored"
  <2>1. ~Cut(a, new.comparison)
    BY <1>1, <1>2
  <2>2. Torn(a, n) => n.comparison = m.comparison /\ new.comparison = read.comparison /\ Cut(a, m.comparison)
    BY <1>m, <2>1 DEF Torn
  <2>3. ASSUME TornBack(a, n) PROVE k >= 3
    <3>1. m.status = "censored" /\ new.status = read.status
      BY <1>m, <1>2, <2>3 DEF TornBack
    <3>2. ASSUME new.comparison # read.comparison PROVE FALSE
      <4>1. new.status = "measured" /\ read.status = "measured"
        BY <1>2, <3>1, <3>2 DEF PendingOK
      <4>2. new.comparison.from = FirstDay(a) /\ Whole(a, day, new.comparison, w)
        BY <3>2, <4>1 DEF PendingOK
      <4>3. FirstDay(a) \in Int /\ w \in Int /\ a.undone \in Int /\ a.undone # NotYet
        BY FirstDayIs, ActionDays, Numbers DEF CutShort, Day
      <4>4. new.comparison.end = FirstDay(a) + w - 1 /\ new.comparison.end < a.undone /\ FirstDay(a) + w - 1 >= a.undone
        BY <4>2, <4>3 DEF Whole, CutShort
      <4> QED BY <4>3, <4>4
    <3> QED BY <1>m, <2>3, <3>1, <3>2 DEF TornBack
  <2>4. ASSUME Torn(a, n), n.status = "measured" PROVE k >= 3
    <3>1. CASE new.status # read.status
      BY <1>m, <2>2, <2>4, <3>1 DEF Armed
    <3>2. CASE new.status = read.status
      BY <1>m, <2>2, <2>4, <3>2 DEF Torn
    <3> QED BY <3>1, <3>2
  <2> QED BY <1>2, <2>3, <2>4
<1>3. CASE new.status = "censored"
  <2>1. Cut(a, new.comparison)
    BY <1>1, <1>3
  <2>2. ASSUME Torn(a, n)
        PROVE  /\ read.status = "censored" /\ m.status = n.status /\ m.status # "censored"
               /\ Torn(a, m) \/ k >= 3
    <3>1. read.status = "censored" /\ m.status = n.status /\ m.status # "censored"
      BY <1>m, <1>3, <2>2 DEF Torn
    <3>2. CASE new.comparison = read.comparison
      BY <1>m, <2>2, <3>1, <3>2 DEF Torn
    <3>3. CASE new.comparison # read.comparison
      <4>1. ~Cut(a, read.comparison)
        BY <1>3, <3>3 DEF PendingOK
      <4> QED BY <1>3, <3>1, <4>1 DEF TornBack
    <3> QED BY <3>1, <3>2, <3>3
  <2>3. ASSUME TornBack(a, n) PROVE k >= 3
    <3>1. new.comparison = read.comparison /\ n.comparison = m.comparison /\ ~Cut(a, m.comparison)
      BY <1>m, <2>1, <2>3 DEF TornBack
    <3>2. CASE read.status # "censored"
      BY <1>3, <2>1, <3>1, <3>2 DEF Torn
    <3>3. CASE read.status = "censored"
      BY <1>m, <1>3, <2>3, <3>1, <3>3 DEF TornBack
    <3> QED BY <3>2, <3>3
  <2>4. Cut(a, m.comparison) => Cut(a, n.comparison)
    BY <1>m, <2>1
  <2>5. k >= 3 => k >= 1
    OBVIOUS
  <2> QED BY <2>2, <2>3, <2>4, <2>5
<1> QED BY <1>2, <1>3
\* refresh_action_measurements
CommitFacts(r) ==
    /\ today' = today /\ treated' = treated
    /\ refresh'[r] = Resting /\ \A z \in Refreshers \ {r} : refresh'[z] = refresh[z]
    /\ refresh' \in [Refreshers -> [pc : {"idle", "read"}, read : Records \cup {NoRecords}, new : Records \cup {NoRecords},
                                    range : Ranges \cup {<<>>}]]
    /\ ~Pending(r)' /\ ~Computed(r)'
    /\ \A z \in Refreshers \ {r} : /\ (Pending(z)' <=> Pending(z)) /\ (Computed(z)' <=> Computed(z))
                                   /\ \A w : Old(z, w)' <=> Old(z, w)
    /\ \A w : SomeOld(w)' => SomeOld(w) /\ overtakings' = overtakings + 1
    /\ overtakings' >= overtakings /\ overtakings' \in 0..MaxOvertakings
    /\ (\E z \in Refreshers \ {r} : Pending(z)) => overtakings' = overtakings + 1
    /\ synced' = IF r = Sync THEN synced \cup {refresh[r].range} ELSE synced
    /\ synced' \in SUBSET Ranges /\ IsFiniteSet(synced') /\ synced \subseteq synced'
    /\ Pending(r)

LEMMA Commits ==
    ASSUME MeasurementIInv, NEW r \in Refreshers, refresh_action_measurements(r)
    PROVE  CommitFacts(r)
<1>1. /\ today' = today /\ treated' = treated /\ Pending(r)
      /\ refresh' = [refresh EXCEPT ![r] = Resting]
      /\ synced' = IF r = Sync THEN synced \cup {refresh[r].range} ELSE synced
  BY DEF refresh_action_measurements, Pending
<1>2. /\ refresh'[r] = Resting /\ \A z \in Refreshers \ {r} : refresh'[z] = refresh[z]
      /\ refresh' \in [Refreshers -> [pc : {"idle", "read"}, read : Records \cup {NoRecords}, new : Records \cup {NoRecords},
                                      range : Ranges \cup {<<>>}]]
  BY <1>1 DEF MeasurementIInv, RefreshersOK, Resting
<1>3. /\ ~Pending(r)' /\ ~Computed(r)'
      /\ \A z \in Refreshers \ {r} : /\ (Pending(z)' <=> Pending(z)) /\ (Computed(z)' <=> Computed(z))
                                     /\ \A w : Old(z, w)' <=> Old(z, w)
  BY <1>2 DEF Pending, Computed, Old, Resting
<1>4. overtakings \in Nat /\ overtakings \in 0..MaxOvertakings /\ MaxOvertakings \in Nat
  BY Facts, MeasurementConstants DEF MeasurementIInv
<1>5. \A z \in Refreshers : refresh[z].pc # "idle" <=> Pending(z)
  BY DEF MeasurementIInv, RefreshersOK, Pending
<1>6. PICK others : others = Refreshers \ {r}
  OBVIOUS
<1>7. Overtakes(others)
  BY <1>6 DEF refresh_action_measurements
<1>8. /\ overtakings' >= overtakings /\ overtakings' \in 0..MaxOvertakings
      /\ (\E z \in Refreshers \ {r} : Pending(z)) => overtakings' = overtakings + 1
  <2>1. CASE \E z \in others : refresh[z].pc # "idle"
    BY <1>4, <1>7, <2>1 DEF Overtakes
  <2>2. CASE ~\E z \in others : refresh[z].pc # "idle"
    BY <1>4, <1>5, <1>6, <1>7, <2>2 DEF Overtakes
  <2> QED BY <2>1, <2>2
<1>9. \A w : SomeOld(w)' => SomeOld(w) /\ overtakings' = overtakings + 1
  BY <1>3, <1>8 DEF SomeOld, Old, Computed
<1>10. synced' \in SUBSET Ranges /\ IsFiniteSet(synced') /\ synced \subseteq synced'
  <2>1. synced \in SUBSET Ranges /\ IsFiniteSet(synced) /\ IsFiniteSet({refresh[r].range})
    BY FS_Singleton, Facts
  <2>2. IsFiniteSet(synced \cup {refresh[r].range})
    BY <2>1, FS_Union
  <2>3. r = Sync => refresh[r].range \in Ranges
    BY <1>1 DEF MeasurementIInv, RefreshersOK
  <2> QED BY <1>1, <2>1, <2>2, <2>3
<1> QED BY <1>1, <1>2, <1>3, <1>8, <1>9, <1>10 DEF CommitFacts

LEMMA NothingCommitted ==
    ASSUME MeasurementIInv, NEW r \in Refreshers, CommitFacts(r), measurement' = measurement
    PROVE  MeasurementIInv'
<1>0. today \in Int /\ ActionOK(treated, today) /\ overtakings \in Nat /\ synced \in SUBSET Ranges
  BY Facts DEF MeasurementIInv
<1>1. RecordsOK'
  BY DEF CommitFacts, MeasurementIInv, RecordsOK
<1>2. RefreshersOK'
  BY DEF CommitFacts, MeasurementIInv, RefreshersOK
<1>3. \A w \in Windows : TornCosts(w)'
  BY <1>0 DEF CommitFacts, MeasurementIInv, TornCosts
<1>4. ASSUME NEW w \in Windows, NEW z \in Refreshers PROVE PendingCosts(z, w)'
  <2>1. CASE z = r
    BY <2>1 DEF CommitFacts, PendingCosts
  <2>2. CASE z # r
    <3>1. PendingCosts(z, w)
      BY DEF MeasurementIInv
    <3> QED BY <1>0, <2>2, <3>1 DEF CommitFacts, PendingCosts
  <2> QED BY <2>1, <2>2
<1>5. Untouched'
  <2> SUFFICES ASSUME overtakings' = 0
               PROVE  /\ measurement # NoRecords => \A w \in Windows : Settled(treated, today, measurement[w], w, synced')
                      /\ \A z \in Refreshers : ~Pending(z)'
    BY DEF Untouched, CommitFacts
  <2>1. overtakings = 0 /\ \A z \in Refreshers : ~Pending(z)'
    BY <1>0 DEF CommitFacts
  <2>2. PICK R : R = synced'
    OBVIOUS
  <2>3. ASSUME measurement # NoRecords, NEW w \in Windows PROVE Settled(treated, today, measurement[w], w, R)
    <3>1. Settled(treated, today, measurement[w], w, synced)
      BY <2>1, <2>3 DEF MeasurementIInv, Untouched
    <3>2. measurement[w] \in ActionMeasurement /\ RecordOK(treated, today, measurement[w], w)
      BY <2>3, Facts
    <3>3. R \in SUBSET Ranges /\ IsFiniteSet(R) /\ synced \in SUBSET R
      BY <2>2 DEF CommitFacts
    <3> QED BY <1>0, <3>1, <3>2, <3>3, SettledPasses DEF RecordOK
  <2> QED BY <2>1, <2>2, <2>3
<1> QED BY <1>0, <1>1, <1>2, <1>3, <1>4, <1>5 DEF MeasurementIInv, CommitFacts

LEMMA MergeCommitted ==
    ASSUME MeasurementIInv, NEW r \in Refreshers, CommitFacts(r), Computed(r), NEW records,
           records = Merged(refresh[r].read, refresh[r].new), measurement' = records
    PROVE  MeasurementIInv'
<1>0. today \in Int /\ ActionOK(treated, today) /\ overtakings \in Nat /\ synced \in SUBSET Ranges /\ overtakings' >= overtakings /\ overtakings' \in Nat
  BY Facts, MeasurementConstants DEF MeasurementIInv, CommitFacts
<1>1. measurement # NoRecords /\ measurement \in Records /\ Alike(measurement)
  BY Facts
<1>2. ASSUME NEW w \in Windows
      PROVE  /\ measurement[w] \in ActionMeasurement /\ RecordOK(treated, today, measurement[w], w)
             /\ refresh[r].read[w] \in ActionMeasurement /\ refresh[r].new[w] \in ActionMeasurement
             /\ PendingOK(treated, today, measurement[w], refresh[r].read[w], refresh[r].new[w], w)
             /\ Merges(measurement[w], refresh[r].read[w], refresh[r].new[w], records[w])
  <2>1. /\ measurement[w] \in ActionMeasurement /\ RecordOK(treated, today, measurement[w], w)
        /\ refresh[r].read[w] \in ActionMeasurement /\ refresh[r].new[w] \in ActionMeasurement
        /\ PendingOK(treated, today, measurement[w], refresh[r].read[w], refresh[r].new[w], w)
    BY <1>1, Facts
  <2>2. PICK read : read = refresh[r].read[w]
    OBVIOUS
  <2>3. PICK new : new = refresh[r].new[w]
    OBVIOUS
  <2>4. records[w] = [f \in DOMAIN new |-> IF new[f] # read[f] THEN new[f] ELSE measurement[w][f]]
    BY <2>2, <2>3 DEF Merged, Computed
  <2> QED BY <2>1, <2>2, <2>3, <2>4, MergedIs
<1>3. ASSUME NEW w \in Windows
      PROVE  /\ records[w] \in ActionMeasurement
             /\ records[w].applied = measurement[w].applied
             /\ measurement[w].comparison # NoMetrics => records[w].comparison # NoMetrics
             /\ RecordOK(treated, today, records[w], w)
             /\ CutShort(treated, records[w], w) <=> CutShort(treated, measurement[w], w)
  <2>1. records[w] \in ActionMeasurement
    BY <1>2 DEF Merges
  <2> QED BY <1>0, <1>2, <2>1, MergedStays
<1>4. records \in Records /\ records # NoRecords /\ Alike(records)
  <2>1. records = [w \in Windows |-> records[w]]
    BY DEF Merged, Computed
  <2>2. records \in Records
    BY <1>3, <2>1 DEF Records
  <2> QED BY <1>1, <1>3, <2>2, SomeRecords, MeasurementConstants DEF Alike
<1>5. RecordsOK'
  BY <1>3, <1>4 DEF RecordsOK, CommitFacts
<1>6. ASSUME NEW z \in Refreshers \ {r}, Computed(z), NEW w \in Windows
      PROVE  PendingOK(treated, today, records[w], refresh[z].read[w], refresh[z].new[w], w)
  <2>1. /\ PendingOK(treated, today, measurement[w], refresh[z].read[w], refresh[z].new[w], w)
        /\ refresh[z].read[w] \in ActionMeasurement /\ refresh[z].new[w] \in ActionMeasurement
    BY <1>6, Facts
  <2>2. CASE Executed(treated)
    <3>1. Follows(treated, treated, today, today)
      BY <1>0 DEF Follows
    <3> QED BY <1>0, <1>3, <2>1, <2>2, <3>1, PendingStays
  <2>3. CASE ~Executed(treated)
    BY <1>0, <2>1, <2>3, BlankBefore, BlankIsPending
  <2> QED BY <2>2, <2>3
<1>7. RefreshersOK'
  BY <1>4, <1>6 DEF CommitFacts, MeasurementIInv, RefreshersOK
<1>8. ASSUME NEW w \in Windows, CutShort(treated, measurement[w], w)
      PROVE  /\ Torn(treated, records[w]) => overtakings >= 1
             /\ Torn(treated, records[w]) => Old(r, w) \/ Torn(treated, measurement[w]) \/ overtakings >= 3
             /\ TornBack(treated, records[w]) => overtakings >= 3
             /\ Torn(treated, records[w]) /\ records[w].status = "measured" => overtakings >= 3
             /\ Cut(treated, measurement[w].comparison) /\ ~Cut(treated, records[w].comparison) => Old(r, w)
  <2>1. PICK read : read = refresh[r].read[w]
    OBVIOUS
  <2>2. PICK new : new = refresh[r].new[w]
    OBVIOUS
  <2>3. Old(r, w) <=> new.status # "censored"
    BY <2>2 DEF Old
  <2>4. /\ Torn(treated, measurement[w]) => overtakings >= 1
        /\ TornBack(treated, measurement[w]) => overtakings >= 3
        /\ Torn(treated, measurement[w]) /\ measurement[w].status = "measured" => overtakings >= 3
    BY <1>1, <1>8 DEF MeasurementIInv, TornCosts
  <2>5. /\ Armed(read, new) => overtakings >= 3
        /\ Old(r, w) => overtakings >= 1
        /\ ~Old(r, w) /\ Torn(treated, read) /\ ~Cut(treated, measurement[w].comparison) => overtakings >= 3
        /\ ~Old(r, w) /\ TornBack(treated, read) => overtakings >= 3
    BY <1>8, <2>1, <2>2 DEF MeasurementIInv, PendingCosts
  <2>6. Executed(treated)
    BY <1>0, <1>8, ActionDays DEF CutShort
  <2>7. PICK m : m = measurement[w]
    OBVIOUS
  <2>8. PICK n : n = records[w]
    OBVIOUS
  <2>9. PICK k : k = overtakings
    OBVIOUS
  <2>10. RecordOK(treated, today, m, w) /\ PendingOK(treated, today, m, read, new, w) /\ Merges(m, read, new, n)
    BY <1>2, <2>1, <2>2, <2>7, <2>8
  <2>11. /\ Torn(treated, n) => k >= 1
         /\ Torn(treated, n) => new.status # "censored" \/ Torn(treated, m) \/ k >= 3
         /\ TornBack(treated, n) => k >= 3
         /\ Torn(treated, n) /\ n.status = "measured" => k >= 3
         /\ Cut(treated, m.comparison) /\ ~Cut(treated, n.comparison) => new.status # "censored"
    BY <1>0, <1>8, <2>3, <2>4, <2>5, <2>6, <2>7, <2>9, <2>10, TearsCost
  <2> QED BY <2>3, <2>7, <2>8, <2>9, <2>11
<1>9. ASSUME NEW w \in Windows PROVE TornCosts(w)'
  <2> SUFFICES ASSUME CutShort(treated, measurement[w], w)
               PROVE  /\ Torn(treated, records[w]) => overtakings' >= 1 /\ (SomeOld(w)' => overtakings' >= 2)
                      /\ TornBack(treated, records[w]) => overtakings' >= 3
                      /\ Torn(treated, records[w]) /\ records[w].status = "measured" => overtakings' >= 3
    BY <1>3 DEF TornCosts, CommitFacts
  <2>1. SomeOld(w)' => overtakings' = overtakings + 1
    BY DEF CommitFacts
  <2> QED BY <1>0, <1>8, <2>1
<1>10. ASSUME NEW w \in Windows, NEW z \in Refreshers PROVE PendingCosts(z, w)'
  <2>1. CASE z = r
    BY <2>1 DEF CommitFacts, PendingCosts
  <2>2. CASE z # r /\ Computed(z)
    <3>1. PendingCosts(z, w)
      BY DEF MeasurementIInv
    <3>2. PICK read : read = refresh[z].read[w]
      OBVIOUS
    <3>3. PICK new : new = refresh[z].new[w]
      OBVIOUS
    <3>4. overtakings' = overtakings + 1
      BY <2>2 DEF CommitFacts, Computed
    <3>5. /\ Armed(read, new) =>
                /\ overtakings >= 1
                /\ new.comparison.from # FirstDay(treated) => overtakings >= 2
                /\ CutShort(treated, measurement[w], w) => overtakings >= 3
          /\ CutShort(treated, measurement[w], w) /\ Old(z, w) => overtakings >= 1
          /\ CutShort(treated, measurement[w], w) /\ ~Old(z, w) =>
                /\ Torn(treated, read) => /\ overtakings >= 1 /\ (SomeOld(w) => overtakings >= 2)
                                          /\ ~Cut(treated, measurement[w].comparison) => overtakings >= 3
                /\ TornBack(treated, read) => overtakings >= 3
      BY <2>2, <3>1, <3>2, <3>3 DEF PendingCosts
    <3>6. ASSUME CutShort(treated, measurement[w], w), ~Old(z, w), Torn(treated, read), ~Cut(treated, records[w].comparison)
          PROVE  overtakings' >= 3
      <4>1. CASE Cut(treated, measurement[w].comparison)
        <5>1. SomeOld(w)
          BY <1>8, <3>6, <4>1 DEF SomeOld
        <5> QED BY <1>0, <3>4, <3>5, <3>6, <5>1
      <4>2. CASE ~Cut(treated, measurement[w].comparison)
        BY <1>0, <3>5, <3>6, <4>2
      <4> QED BY <4>1, <4>2
    <3>7. SomeOld(w)' => SomeOld(w)
      BY DEF CommitFacts
    <3>8. (Old(z, w)' <=> Old(z, w)) /\ refresh'[z] = refresh[z] /\ (Computed(z)' <=> Computed(z)) /\ treated' = treated
      BY <2>2 DEF CommitFacts
    <3>9. CutShort(treated, records[w], w) <=> CutShort(treated, measurement[w], w)
      BY <1>3
    <3> QED BY <1>0, <3>2, <3>3, <3>5, <3>6, <3>7, <3>8, <3>9 DEF PendingCosts
  <2>3. CASE z # r /\ ~Computed(z)
    BY <2>3 DEF CommitFacts, PendingCosts
  <2> QED BY <2>1, <2>2, <2>3
<1>11. Untouched'
  <2> SUFFICES ASSUME overtakings' = 0
               PROVE  /\ \A w \in Windows : Settled(treated, today, records[w], w, synced')
                      /\ \A z \in Refreshers : ~Pending(z)'
    BY DEF Untouched, CommitFacts
  <2>1. overtakings = 0 /\ \A z \in Refreshers : ~Pending(z)'
    BY <1>0 DEF CommitFacts
  <2>2. Pending(r) /\ synced' = Known(r)
    BY DEF CommitFacts, Known
  <2>3. /\ refresh[r].read = measurement
        /\ \A w \in Windows : Settled(treated, today, refresh[r].new[w], w, Known(r))
    BY <1>1, <2>1, <2>2 DEF MeasurementIInv, Untouched
  <2>4. \A w \in Windows : records[w] = refresh[r].new[w]
    BY <1>2, <2>3 DEF Merges
  <2> QED BY <2>1, <2>2, <2>3, <2>4
<1> QED BY <1>0, <1>5, <1>7, <1>9, <1>10, <1>11 DEF MeasurementIInv, CommitFacts

LEMMA RefreshCommitKeeps == ASSUME MeasurementIInv, NEW r \in Refreshers, refresh_action_measurements(r) PROVE MeasurementIInv'
<1>1. CommitFacts(r)
  BY Commits
<1>2. CASE refresh[r].new = NoRecords
  <2>1. measurement' = measurement
    BY <1>2 DEF refresh_action_measurements
  <2> QED BY <1>1, <2>1, NothingCommitted
<1>3. CASE refresh[r].new # NoRecords
  <2>1. Computed(r)
    BY <1>1, <1>3 DEF MeasurementIInv, RefreshersOK, Computed, CommitFacts
  <2>2. PICK records : records = Merged(refresh[r].read, refresh[r].new)
    OBVIOUS
  <2>3. measurement' = records
    BY <1>3, <2>2 DEF refresh_action_measurements
  <2> QED BY <1>1, <2>1, <2>2, <2>3, MergeCommitted
<1> QED BY <1>2, <1>3
-----------------------------------------------------------------------------

LEMMA StepKeeps == ASSUME MeasurementIInv, [MeasurementsNext]_measurementVars PROVE MeasurementIInv'
<1>1. CASE NewDay
  BY <1>1, NewDayKeeps
<1>2. CASE enqueue_execution
  BY <1>2, EnqueueKeeps
<1>3. CASE cancel_action
  BY <1>3, CancelKeeps
<1>4. CASE execute_attempt
  BY <1>4, AttemptKeeps
<1>5. CASE validate_attempt
  BY <1>5, ValidateKeeps
<1>6. CASE rollback_attempt
  BY <1>6, RollbackKeeps
<1>7. CASE ReadForSync
  <2>1. PICK short \in {0, 1} :
          LET range == <<today - Lag - short - Lookback + 1, today - Lag - short>>
              due == \E w \in Windows : measurement[w].status \in {"baseline_pending", "waiting"}
          IN IF due THEN Reads(Sync, synced \cup {range}, range)
             ELSE /\ synced' = synced \cup {range}
                  /\ UNCHANGED <<today, treated, measurement, refresh, overtakings>>
    BY <1>7 DEF ReadForSync
  <2>2. PICK range : range = <<today - Lag - short - Lookback + 1, today - Lag - short>>
    OBVIOUS
  <2>3. range \in Ranges
    BY <2>2, Facts, Numbers DEF Ranges
  <2>4. \/ Reads(Sync, synced \cup {range}, range)
        \/ synced' = synced \cup {range} /\ UNCHANGED <<today, treated, measurement, refresh, overtakings>>
    BY <2>1, <2>2
  <2>5. Sync \in Refreshers
    BY MeasurementConstants
  <2>6. CASE Reads(Sync, synced \cup {range}, range)
    <3>1. PICK ranges : ranges = synced \cup {range}
      OBVIOUS
    <3> QED BY <2>3, <2>5, <2>6, <3>1, ReadKeeps
  <2> QED BY <2>3, <2>4, <2>6, SyncKeeps
<1>8. ASSUME NEW r \in Refreshers, ReadForOperator(r) PROVE MeasurementIInv'
  <2>1. r # Sync /\ Reads(r, synced, <<>>)
    BY <1>8 DEF ReadForOperator
  <2>2. PICK range : range = <<>>
    OBVIOUS
  <2>3. PICK ranges : ranges = synced
    OBVIOUS
  <2> QED BY <2>1, <2>2, <2>3, ReadKeeps
<1>9. ASSUME NEW r \in Refreshers, refresh_action_measurements(r) PROVE MeasurementIInv'
  BY <1>9, RefreshCommitKeeps
<1>10. ASSUME NEW r \in Refreshers, RefreshFails(r) PROVE MeasurementIInv'
  BY <1>10, FailKeeps
<1>11. CASE UNCHANGED measurementVars
  <2>1. today' \in Nat /\ today <= today' /\ synced \subseteq synced' /\ synced' \in SUBSET Ranges /\ IsFiniteSet(synced')
    BY <1>11 DEF measurementVars, MeasurementIInv
  <2> QED BY <1>11, <2>1, DaysPass DEF measurementVars
<1> QED BY <1>1, <1>2, <1>3, <1>4, <1>5, <1>6, <1>7, <1>8, <1>9, <1>10, <1>11 DEF MeasurementsNext

LEMMA MeasuredFacts ==
    ASSUME MeasurementIInv, NEW w \in Windows, Measured(w)
    PROVE  /\ measurement # NoRecords /\ RecordOK(treated, today, measurement[w], w) /\ measurement[w] \in ActionMeasurement
           /\ Executed(treated) /\ measurement[w].applied
           /\ measurement[w].comparison.from > treated.executed
           /\ overtakings <= 2 => Whole(treated, today, measurement[w].comparison, w)
<1>1. measurement # NoRecords
  BY DEF Measured, NoRecords, Absent
<1>2. RecordOK(treated, today, measurement[w], w) /\ measurement[w] \in ActionMeasurement
  BY <1>1, Facts
<1>3. PICK c : c = measurement[w].comparison
  OBVIOUS
<1>4. Executed(treated) /\ measurement[w].applied /\ c # NoMetrics
  BY <1>2, <1>3 DEF Measured, RecordOK
<1>5. Whole(treated, today, c, w) \/ (CutShort(treated, measurement[w], w) /\ Cut(treated, c))
  BY <1>2, <1>3, <1>4 DEF RecordOK, Comparable
<1>6. today \in Int /\ ActionOK(treated, today) /\ overtakings \in Nat
  BY Facts DEF MeasurementIInv
<1>7. c.from > treated.executed
  <2>1. CASE Whole(treated, today, c, w)
    BY <1>4, <1>6, <2>1, WholeEnds
  <2>2. CASE Cut(treated, c)
    BY <1>4, <1>6, <2>2, FirstDayIs DEF Cut
  <2> QED BY <1>5, <2>1, <2>2
<1>8. CutShort(treated, measurement[w], w) /\ Cut(treated, c) => overtakings >= 3
  BY <1>1, <1>3 DEF MeasurementIInv, TornCosts, Torn, Measured
<1>9. overtakings <= 2 => Whole(treated, today, c, w)
  BY <1>5, <1>6, <1>8
<1> QED BY <1>1, <1>2, <1>3, <1>4, <1>7, <1>9

LEMMA InvariantSaysSo == ASSUME MeasurementIInv PROVE MeasurementInv
<1>1. MeasurementsTypeOK
  BY DEF MeasurementIInv, MeasurementsTypeOK, RecordsOK, ActionOK
<1>2. CoverageMeansEveryDay
  <2>1. ASSUME NEW start \in -Lookback..LastDay, NEW w \in Windows
        PROVE  _ranges_cover_window(synced, start, start + w - 1)
                  <=> \A d \in start..(start + w - 1) : \E range \in synced : d \in range[1]..range[2]
    <3>1. PICK e : e = start + w - 1
      OBVIOUS
    <3>2. start \in Int /\ e \in Int /\ start <= e
      BY <3>1, Numbers
    <3>3. _ranges_cover_window(synced, start, e) <=> EveryDay(synced, start, e)
      BY <3>2, Facts, CoverageIsEveryDay
    <3> QED BY <3>1, <3>3 DEF EveryDay
  <2> QED BY <2>1 DEF CoverageMeansEveryDay
<1>3. MeasuredIsFair
  <2>1. ASSUME NEW w \in Windows, Measured(w), NEW m, m = measurement[w]
        PROVE  /\ m.end < treated.started
               /\ m.comparison.from > treated.executed
               /\ overtakings <= 2 => m.comparison.end = m.comparison.from + w - 1 /\ m.comparison.window_synced
               /\ overtakings = 0 => m.baseline.end = m.end /\ m.baseline.window_synced
    <3>1. m.end < treated.started /\ m.comparison.from > treated.executed
      BY <2>1, MeasuredFacts DEF RecordOK
    <3>2. overtakings <= 2 => m.comparison.end = m.comparison.from + w - 1 /\ m.comparison.window_synced
      BY <2>1, MeasuredFacts DEF Whole
    <3>3. overtakings = 0 => m.baseline.end = m.end /\ m.baseline.window_synced
      BY <2>1, MeasuredFacts DEF MeasurementIInv, Untouched, Settled, Measured
    <3> QED BY <3>1, <3>2, <3>3
  <2> QED BY <2>1 DEF MeasuredIsFair
<1>4. MeasuredWasApplied
  BY MeasuredFacts DEF MeasuredWasApplied, Executed
<1>5. RollbackCensors
  BY MeasuredFacts DEF RollbackCensors, Whole
<1> QED BY <1>1, <1>2, <1>3, <1>4, <1>5 DEF MeasurementInv

\* Whatever the lengths of the windows, the lookback of the syncs and the number of refreshes at the
\* same time: a measured outcome of an action was measured after the change, against days before it,
\* of a change that was made; and no outcome is learned from days that a rollback cut off, unless three
\* transactions have overtaken refreshes in progress.
THEOREM MeasurementsAreFair == MeasurementsSpec => []MeasurementInv
<1>1. MeasurementsInit => MeasurementIInv
  BY Starts
<1>2. MeasurementIInv /\ [MeasurementsNext]_measurementVars => MeasurementIInv'
  BY StepKeeps
<1>3. MeasurementIInv => MeasurementInv
  BY InvariantSaysSo
<1> QED BY <1>1, <1>2, <1>3, PTL DEF MeasurementsSpec
=============================================================================
