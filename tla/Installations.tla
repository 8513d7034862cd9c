--------------------------- MODULE Installations ---------------------------
(*****************************************************************************)
(* Installations of the GitHub App and the repositories that sites are       *)
(* connected to: github_app_service.py and routers/github_repository.py.     *)
(*                                                                           *)
(* A request that asks GitHub reads first and commits afterwards.  Only the  *)
(* intent of an installation, and an installation that is removed, are       *)
(* locked meanwhile; what a commit writes is what differs from what was read.*)
(*****************************************************************************)
EXTENDS FiniteSets, Integers

CONSTANTS
    Holders,         \* workspaces
    InstallIntents,  \* github_app_install_intents
    Provided,        \* installations at GitHub
    Repos,           \* repositories that an installation may give access to
    TenantOf,        \* the workspace of every site
    Connectors       \* requests

ASSUME InstallationConstants == \A s \in DOMAIN TenantOf : TenantOf[s] \in Holders

VARIABLES
    install_intent,  \* per intent its workspace and whether it is open
    installation,    \* github_app_installations, by installation_id
    connection,      \* github_repository_connections, one per site
    github_repo,     \* of sites
    connector,       \* requests at work: what they have read
    completions,     \* history: the installations completed with each intent
    crossedSites     \* history: sites whose requests have overlapped

installVars == <<install_intent, installation, connection, github_repo, connector, completions, crossedSites>>
-----------------------------------------------------------------------------
NoInstallIntent == [state |-> "absent"]
NoInstallation == [status |-> "absent"]
NoConnection == [status |-> "absent"]
NoRepo == "none"
Public == "public"
Waiting == [pc |-> "idle"]
ConnectedSites == DOMAIN TenantOf

\* GitHub's ids are numbers, and a repository has a name.
ASSUME NamesAreApart == Public \notin Provided /\ NoRepo \notin Repos

InstallInit ==
    /\ install_intent = [n \in InstallIntents |-> NoInstallIntent]
    /\ installation = [i \in Provided |-> NoInstallation]
    /\ connection = [s \in ConnectedSites |-> NoConnection]
    /\ github_repo = [s \in ConnectedSites |-> NoRepo]
    /\ connector = [q \in Connectors |-> Waiting]
    /\ completions = [n \in InstallIntents |-> {}]
    /\ crossedSites = {}

Moves(q, state) == connector' = [connector EXCEPT ![q] = state]

\* The sites that a request at work may write, and the installation it is about.
SitesOf(w) ==
    CASE w.pc = "connect" -> {w.site}
      [] w.pc = "disconnect" -> w.sites
      [] OTHER -> {}
About(w) == IF w.pc \in {"connect", "disconnect"} THEN {w.installation} \ {Public} ELSE {}
Crossing(q) ==
    crossedSites' = crossedSites \cup
        (UNION {SitesOf(connector[q]) \cap SitesOf(connector[o]) : o \in Connectors \ {q}}) \cup
        (UNION {SitesOf(connector[q]) \cup SitesOf(connector[o]) :
                   o \in {p \in Connectors \ {q} : About(connector[p]) \cap About(connector[q]) # {}}})
-----------------------------------------------------------------------------
create_install_intent(n, t) ==
    /\ install_intent[n] = NoInstallIntent
    /\ install_intent' = [install_intent EXCEPT ![n] = [state |-> "open", tenant |-> t]]
    /\ UNCHANGED <<installation, connection, github_repo, connector, completions, crossedSites>>

InstallIntentExpires(n) ==
    /\ install_intent[n].state = "open" /\ install_intent' = [install_intent EXCEPT ![n].state = "expired"]
    /\ UNCHANGED <<installation, connection, github_repo, connector, completions, crossedSites>>

IntentLocked(n) == \E o \in Connectors : connector[o].pc = "complete" /\ connector[o].install_intent = n

\* complete_installation: the open intent is locked while GitHub is asked.
complete_installation(q, n, i) ==
    /\ connector[q].pc = "idle"
    /\ install_intent[n].state = "open" /\ ~IntentLocked(n)
    /\ Moves(q, [pc |-> "complete", install_intent |-> n, installation |-> i])
    /\ UNCHANGED <<install_intent, installation, connection, github_repo, completions, crossedSites>>

InstallationLocked(i) == \E o \in Connectors : connector[o].pc = "disconnect" /\ connector[o].installation = i

\* An installation that another workspace has is refused.
MayTake(i, t) == installation[i] # NoInstallation => installation[i].tenant = t

CommitInstallation(q) ==
    LET w == connector[q]
        t == install_intent[w.install_intent].tenant
    IN
    /\ w.pc = "complete" /\ ~InstallationLocked(w.installation)
    /\ MayTake(w.installation, t)
    /\ \E status \in {"active", "suspended"} :
          installation' = [installation EXCEPT ![w.installation] = [tenant |-> t, status |-> status]]
    /\ install_intent' = [install_intent EXCEPT ![w.install_intent].state = "consumed"]
    /\ completions' = [completions EXCEPT ![w.install_intent] = @ \cup {w.installation}]
    /\ Moves(q, Waiting)
    /\ UNCHANGED <<connection, github_repo, crossedSites>>
-----------------------------------------------------------------------------
\* connect_authorized_repository reads the site and its installation, and then
\* asks GitHub for the repositories; a public repository needs no installation.
connect_authorized_repository(q, s, i, r) ==
    /\ connector[q].pc = "idle"
    /\ installation[i].status = "active" /\ installation[i].tenant = TenantOf[s]
    /\ Moves(q, [pc |-> "connect", site |-> s, installation |-> i, repo |-> r, read |-> github_repo[s]])
    /\ UNCHANGED <<install_intent, installation, connection, github_repo, completions, crossedSites>>

connect_public_repository(q, s, r) ==
    /\ connector[q].pc = "idle"
    /\ Moves(q, [pc |-> "connect", site |-> s, installation |-> Public, repo |-> r, read |-> github_repo[s]])
    /\ UNCHANGED <<install_intent, installation, connection, github_repo, completions, crossedSites>>

\* The connection is read again, the site is not: its repository is written
\* when it differs from the one that was read.
CommitConnection(q) ==
    LET w == connector[q] IN
    /\ w.pc = "connect"
    /\ connection' = [connection EXCEPT ![w.site] =
          [status |-> "active", installation |-> w.installation, repo |-> w.repo]]
    /\ github_repo' = [github_repo EXCEPT ![w.site] = IF w.repo # w.read THEN w.repo ELSE @]
    /\ Crossing(q) /\ Moves(q, Waiting)
    /\ UNCHANGED <<install_intent, installation, completions>>

disconnect_github_repository(s) ==
    /\ connection' = [connection EXCEPT ![s] = IF @ = NoConnection THEN @ ELSE [@ EXCEPT !.status = "revoked"]]
    /\ github_repo' = [github_repo EXCEPT ![s] = NoRepo]
    /\ crossedSites' = crossedSites \cup UNION {SitesOf(connector[o]) \cap {s} : o \in Connectors}
    /\ UNCHANGED <<install_intent, installation, connector, completions>>

\* disconnect_installation locks the installation and reads its connections,
\* those that were revoked before included.
disconnect_installation(q, i) ==
    /\ connector[q].pc = "idle"
    /\ installation[i] # NoInstallation /\ ~InstallationLocked(i)
    /\ LET sites == {s \in ConnectedSites : connection[s] # NoConnection /\ connection[s].installation = i} IN
       Moves(q, [pc |-> "disconnect", installation |-> i, sites |-> sites,
                 active |-> {s \in sites : connection[s].status = "active"},
                 repos |-> {s \in sites : github_repo[s] # NoRepo}])
    /\ UNCHANGED <<install_intent, installation, connection, github_repo, completions, crossedSites>>

\* Mutant of Cleared: the sites keep their repository.
ClearedNone(w) == {}

Cleared(w) == w.repos

CommitDisconnection(q) ==
    LET w == connector[q] IN
    /\ w.pc = "disconnect"
    /\ installation' = [installation EXCEPT ![w.installation].status = "revoked"]
    /\ connection' = [s \in ConnectedSites |->
          IF s \in w.active THEN [connection[s] EXCEPT !.status = "revoked"] ELSE connection[s]]
    /\ github_repo' = [s \in ConnectedSites |-> IF s \in Cleared(w) THEN NoRepo ELSE github_repo[s]]
    /\ Crossing(q) /\ Moves(q, Waiting)
    /\ UNCHANGED <<install_intent, completions>>

\* GitHub refuses or does not answer, or the process stops.
ConnectorEnds(q) ==
    /\ connector[q].pc # "idle" /\ Moves(q, Waiting)
    /\ UNCHANGED <<install_intent, installation, connection, github_repo, completions, crossedSites>>

InstallNext ==
    \/ \E n \in InstallIntents : InstallIntentExpires(n) \/ \E t \in Holders : create_install_intent(n, t)
    \/ \E s \in ConnectedSites : disconnect_github_repository(s)
    \/ \E q \in Connectors :
          \/ \E n \in InstallIntents, i \in Provided : complete_installation(q, n, i)
          \/ \E s \in ConnectedSites, i \in Provided, r \in Repos : connect_authorized_repository(q, s, i, r)
          \/ \E s \in ConnectedSites, r \in Repos : connect_public_repository(q, s, r)
          \/ \E i \in Provided : disconnect_installation(q, i)
          \/ CommitInstallation(q) \/ CommitConnection(q) \/ CommitDisconnection(q)
          \/ ConnectorEnds(q)
-----------------------------------------------------------------------------
\* Properties.

\* No workspace works through the installation of another: whatever is completed,
\* removed and completed again, a connection's installation is its site's workspace's.
ConnectionsStayInTheirWorkspace ==
    \A s \in ConnectedSites :
        connection[s] # NoConnection /\ connection[s].installation # Public =>
            installation[connection[s].installation].tenant = TenantOf[s]

\* An intent admits one installation, however many callbacks come with its state.
IntentSpentOnce == \A n \in InstallIntents : Cardinality(completions[n]) <= 1

\* What is revoked is gone everywhere: a removed installation is behind no active
\* connection, and a site shows the repository of its active connection and no
\* other; unless two requests that concern the site overlapped.
RevokedIsGone ==
    \A s \in ConnectedSites \ crossedSites :
        /\ github_repo[s] = IF connection[s].status = "active" THEN connection[s].repo ELSE NoRepo
        /\ (connection[s].status = "active" /\ connection[s].installation # Public) =>
              installation[connection[s].installation].status # "revoked"

\* A workspace has what it installed, once, and until it is removed.
InstallationInv ==
    ConnectionsStayInTheirWorkspace /\ IntentSpentOnce /\ RevokedIsGone
=============================================================================
