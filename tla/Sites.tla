------------------------------- MODULE Sites -------------------------------
(*****************************************************************************)
(* Who a site belongs to, and the ways to get one: sites.py, the DNS claims  *)
(* of site_claim_service.py and the claims of free audits in                 *)
(* public_audits.py.                                                         *)
(*                                                                           *)
(* A session keeps the attributes of a row as it first read them: a second   *)
(* SELECT, even FOR UPDATE, checks and writes by the old values.             *)
(*****************************************************************************)
EXTENDS Naturals, Sequences, FiniteSets

CONSTANTS
    Tenants,     \* workspaces
    Domains,
    SiteIds,     \* primary keys of sites
    Tabs,        \* requests that run at the same time
    Null, Deleted,
    Controls,    \* the workspaces that can write to the DNS zone of a domain
    SiteLimit,   \* the quota "sites"
    MaxTokens,   \* bound: verification tokens ever made
    MaxClashes   \* bound: requests that read before another one commits

ASSUME SiteConstants ==
    /\ {Null, Deleted} \cap (Tenants \cup Domains \cup SiteIds) = {}
    /\ Controls \in [Domains -> SUBSET Tenants]
    /\ {SiteLimit, MaxTokens, MaxClashes} \subseteq Nat

VARIABLES
    site,     \* sites
    minted,   \* history: the tokens made so far, with whom and what they are for
    lapsed,   \* tokens made more than thirty minutes ago
    dns,      \* tokens that the TXT records show
    won,      \* history: sites that were claimed through DNS
    audit,    \* per domain a completed free audit: who claimed it, and its site
    tab,      \* requests in progress
    clashes   \* how often a request read while another was about to commit

siteVars == <<site, minted, lapsed, dns, won, audit, tab, clashes>>
rows == <<site, minted, lapsed, dns, won, audit>>
claims == <<minted, lapsed, dns>>
-----------------------------------------------------------------------------
Tokens == 1..MaxTokens
Claim == [by : Tenants, token : Tokens]
Site == [domain : Domains, owner : Tenants \cup {Null}, claim : Claim \cup {Null}]
ASSUME NullIsNoSite == Null # Deleted /\ {Null, Deleted} \cap Site = {} /\ Null \notin Claim

Closed == [pc |-> "idle", by |-> Null, domain |-> Null, id |-> Null, token |-> 0, read |-> Null]

Exists(i) == site[i] \notin {Null, Deleted}
OwnedBy(w) == {i \in SiteIds : Exists(i) /\ site[i].owner = w}
At(d) == {i \in SiteIds : Exists(i) /\ site[i].domain = d}

\* Sites without an owner are left from before workspaces were introduced.
SitesInit ==
    /\ \E d \in Domains, i \in SiteIds :
          site = [j \in SiteIds |-> IF j = i THEN [domain |-> d, owner |-> Null, claim |-> Null] ELSE Null]
    /\ minted = <<>> /\ lapsed = {} /\ dns = {} /\ won = {}
    /\ audit = [d \in Domains |-> [by |-> Null, site |-> Null]]
    /\ tab = [t \in Tabs |-> Closed]
    /\ clashes = 0

\* A request reads what it needs, and keeps it in r.
Opens(t, r) ==
    LET clash == \E u \in Tabs : tab[u].pc # "idle" IN
    /\ tab[t].pc = "idle"
    /\ clash => clashes < MaxClashes
    /\ clashes' = IF clash THEN clashes + 1 ELSE clashes
    /\ tab' = [tab EXCEPT ![t] = r]

Closes(t) == tab' = [tab EXCEPT ![t] = Closed] /\ UNCHANGED clashes

\* Refused, or the process dies: what was not committed is rolled back.
TabCloses(t) == tab[t].pc # "idle" /\ Closes(t) /\ UNCHANGED rows
-----------------------------------------------------------------------------
\* Sites and their quota.

\* assert_resource_quota("sites")
HasSeat(w) == Cardinality(OwnedBy(w)) + 1 <= SiteLimit

create_site_endpoint(t, w, d) ==
    /\ At(d) = {} /\ HasSeat(w)
    /\ Opens(t, [Closed EXCEPT !.pc = "create", !.by = w, !.domain = d])
    /\ UNCHANGED rows

\* A row with a new id; domain is unique.
Insert(i, w, d) ==
    /\ site[i] = Null /\ At(d) = {}
    /\ site' = [site EXCEPT ![i] = [domain |-> d, owner |-> w, claim |-> Null]]

create_site(t) ==
    /\ tab[t].pc = "create"
    /\ \E i \in SiteIds : Insert(i, tab[t].by, tab[t].domain)
    /\ Closes(t)
    /\ UNCHANGED <<claims, won, audit>>

\* Foreign keys: the claim of an audit loses its site.
delete_site(i) ==
    /\ Exists(i) /\ site[i].owner # Null
    /\ site' = [site EXCEPT ![i] = Deleted]
    /\ won' = won \ {i}
    /\ audit' = [d \in Domains |-> IF audit[d].site = i THEN [audit[d] EXCEPT !.site = Null] ELSE audit[d]]
    /\ UNCHANGED <<claims, tab, clashes>>
-----------------------------------------------------------------------------
\* Claims through DNS.

\* A claim of another workspace is respected for its thirty minutes.
Unclaimed(i, w) == site[i].claim # Null => site[i].claim.by = w \/ site[i].claim.token \in lapsed

\* start_site_claim, under the lock of the row.
start_site_claim(w, i) ==
    /\ Exists(i) /\ site[i].owner = Null
    /\ Unclaimed(i, w)
    /\ Len(minted) < MaxTokens
    /\ minted' = Append(minted, [by |-> w, domain |-> site[i].domain])
    /\ site' = [site EXCEPT ![i].claim = [by |-> w, token |-> Len(minted) + 1]]
    /\ UNCHANGED <<lapsed, dns, won, audit, tab, clashes>>

\* Thirty minutes pass; tokens lapse in the order in which they were minted.
ClaimLapses(n) ==
    /\ n \in DOMAIN minted \ lapsed /\ 1..(n - 1) \subseteq lapsed
    /\ lapsed' = lapsed \cup {n}
    /\ UNCHANGED <<site, minted, dns, won, audit, tab, clashes>>

\* A workspace publishes a token of its own in a zone it can write to.
PublishRecord(n) ==
    /\ n \in DOMAIN minted \ dns
    /\ minted[n].by \in Controls[minted[n].domain]
    /\ dns' = dns \cup {n}
    /\ UNCHANGED <<site, minted, lapsed, won, audit, tab, clashes>>

token_matches(claim, w, n) == claim # Null /\ claim.by = w /\ claim.token = n

\* The first half of verify_and_complete_site_claim: a live claim of the
\* workspace, and its token.
verify_claim(t, w, i, n) ==
    /\ Exists(i) /\ site[i].owner = Null
    /\ token_matches(site[i].claim, w, n)
    /\ site[i].claim.token \notin lapsed
    /\ Opens(t, [Closed EXCEPT !.pc = "lookup", !.by = w, !.id = i, !.token = n])
    /\ UNCHANGED rows

\* The lookup takes up to eight seconds.
dns_txt_contains(t) ==
    /\ tab[t].pc = "lookup"
    /\ tab[t].token \in dns
    /\ tab' = [tab EXCEPT ![t].pc = "verified"]
    /\ UNCHANGED <<rows, clashes>>

\* Mutant of StillLive: the time is not checked again after the lookup.
LiveBefore(n) == TRUE

StillLive(n) == n \notin lapsed

\* The second half, under the lock of the row.  Owner, claim and token are
\* checked by the values read before the lookup; the time is the present.
verify_and_complete_site_claim(t) ==
    LET r == tab[t] IN
    /\ r.pc = "verified" /\ Exists(r.id)
    /\ StillLive(r.token)
    /\ site' = [site EXCEPT ![r.id].owner = r.by, ![r.id].claim = Null]
    /\ won' = won \cup {r.id}
    /\ Closes(t)
    /\ UNCHANGED <<claims, audit>>
-----------------------------------------------------------------------------
\* Claims of free audits.

\* The site of the domain is the workspace's own, or there is room for a new one.
MayHave(w, d) == /\ \A i \in At(d) : site[i].owner = w
                 /\ At(d) = {} => HasSeat(w)

Claimable(d, w) == audit[d].by \in {Null, w}

\* claim_free_audit, holding the lock of the audit: an audit has one claimant.
claim_free_audit(t, w, d) ==
    LET own == {i \in SiteIds : i = audit[d].site /\ Exists(i)} IN
    /\ ~\E u \in Tabs : tab[u].pc = "audit" /\ tab[u].domain = d
    /\ Claimable(d, w)
    /\ IF own # {} THEN \A i \in own : site[i].owner = w ELSE MayHave(w, d)
    /\ \E i \in (IF own # {} THEN own ELSE IF At(d) # {} THEN At(d) ELSE {Null}) :
          Opens(t, [Closed EXCEPT !.pc = "audit", !.by = w, !.domain = d, !.id = i])
    /\ UNCHANGED rows

\* The claim is committed with the site it made, and a crawl of it.
CommitAuditClaim(t) ==
    LET r == tab[t] IN
    /\ r.pc = "audit"
    /\ \E i \in SiteIds :
          /\ IF r.id = Null THEN Insert(i, r.by, r.domain) ELSE i = r.id /\ Exists(i) /\ UNCHANGED site
          /\ audit' = [audit EXCEPT ![r.domain] = [by |-> r.by, site |-> i]]
    /\ Closes(t)
    /\ UNCHANGED <<claims, won>>
-----------------------------------------------------------------------------
SitesNext ==
    \/ \E t \in Tabs :
          \/ \E w \in Tenants, d \in Domains : create_site_endpoint(t, w, d) \/ claim_free_audit(t, w, d)
          \/ \E w \in Tenants, i \in SiteIds, n \in DOMAIN minted : verify_claim(t, w, i, n)
          \/ create_site(t) \/ dns_txt_contains(t) \/ verify_and_complete_site_claim(t)
          \/ CommitAuditClaim(t) \/ TabCloses(t)
    \/ \E i \in SiteIds : delete_site(i) \/ \E w \in Tenants : start_site_claim(w, i)
    \/ \E n \in DOMAIN minted : ClaimLapses(n) \/ PublishRecord(n)
-----------------------------------------------------------------------------
\* Properties.

SitesTypeOK ==
    /\ site \in [SiteIds -> Site \cup {Null, Deleted}]
    /\ Len(minted) <= MaxTokens
    /\ lapsed \cup dns \subseteq DOMAIN minted
    /\ audit \in [Domains -> [by : Tenants \cup {Null}, site : SiteIds \cup {Null}]]
    /\ \A d \in Domains : Cardinality(At(d)) <= 1
    /\ clashes \in 0..MaxClashes

\* "This site is no longer available to claim": a site that belongs to a
\* workspace never passes to another, although the check after the lookup reads
\* old values: the time alone keeps two claims apart.
OwnersKeepSites ==
    [][\A i \in SiteIds : Exists(i) /\ site[i].owner # Null /\ site'[i] # Deleted
                          => site'[i].owner = site[i].owner]_siteVars

\* A site without an owner goes to the workspace that shows its own token in
\* the DNS zone of the domain, whoever else claims it at the time.
ClaimsAreProven ==
    [][\A i \in SiteIds : Exists(i) /\ site[i].owner = Null /\ site'[i] # Deleted /\ site'[i].owner # Null
                          => site'[i].owner \in Controls[site[i].domain]]_siteVars

\* Sites beyond the quota are those won through DNS, which no quota counts, and
\* one per clash.
SitesWithinQuota ==
    \A w \in Tenants : Cardinality(OwnedBy(w) \ won) <= SiteLimit + clashes

\* "This audit has already been claimed": a claim stays with its workspace, and
\* what it names is a site of that workspace.
AuditClaimsStay == [][\A d \in Domains : audit[d].by # Null => audit'[d].by = audit[d].by]_siteVars
ClaimedSitesAreOwn ==
    \A d \in Domains : audit[d].site # Null =>
        Exists(audit[d].site) /\ site[audit[d].site].owner = audit[d].by

\* Sites and audits pass to whom they were proven to belong, and stay there.
SiteSafety ==
    [](SitesTypeOK /\ SitesWithinQuota /\ ClaimedSitesAreOwn)
    /\ OwnersKeepSites /\ ClaimsAreProven /\ AuditClaimsStay
=============================================================================
