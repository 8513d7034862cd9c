----------------------------- MODULE Accounts -----------------------------
(*****************************************************************************)
(* Accounts and the provider identities linked to them: register_user of     *)
(* auth_service.py, exchange_oauth_identity and confirm_oauth_link of        *)
(* oauth_service.py.  A request reads, then commits; the unique indexes of   *)
(* users and oauth_identities are all that orders two of them.               *)
(*****************************************************************************)
EXTENDS Naturals, FiniteSets

CONSTANTS
    Emails,       \* addresses, lower case; an account has one
    Providers,    \* identity providers
    Identities,   \* accounts at the providers
    ProviderOf,   \* the provider of each of them
    Browsers,     \* requests that run at the same time
    Absent,       \* NULL
    MaxIntents,   \* bound: link intents ever created
    MaxRaces      \* bound: requests that read before another one commits

ASSUME AccountConstants ==
    /\ Absent \notin Emails
    /\ ProviderOf \in [Identities -> Providers]
    /\ {MaxIntents, MaxRaces} \subseteq Nat

VARIABLES
    account,    \* users, with whether there is a password and a verified address
    workspaces, \* history: workspaces created for each of them
    linked,     \* oauth_identities
    intent,     \* oauth_link_intents
    browser,    \* requests in progress
    proven,     \* history: links whose intent was confirmed with the password
    used,       \* history: how often an intent was confirmed
    races       \* how often a request read while another was about to commit

accountVars == <<account, workspaces, linked, intent, browser, proven, used, races>>
-----------------------------------------------------------------------------
User == [password : BOOLEAN, verified : BOOLEAN]
OAuthIdentity == [user : Emails, at : Identities]
OAuthLinkIntent == [user : Emails, at : Identities, consumed : BOOLEAN, late : BOOLEAN]
ASSUME AbsentIsNoRow == Absent \notin User \cup OAuthLinkIntent

IntentIds == 1..MaxIntents
AtRest == [pc |-> "idle", email |-> Absent, at |-> Absent, id |-> 0, insert |-> FALSE, previous |-> {}]

AccountInit ==
    /\ account = [e \in Emails |-> Absent]
    /\ workspaces = [e \in Emails |-> 0]
    /\ linked = {}
    /\ intent = [i \in IntentIds |-> Absent]
    /\ browser = [b \in Browsers |-> AtRest]
    /\ proven = {}
    /\ used = [i \in IntentIds |-> 0]
    /\ races = 0

OpenIntents(e, p) ==
    {i \in IntentIds : intent[i] # Absent /\ ~intent[i].consumed
                       /\ intent[i].user = e /\ ProviderOf[intent[i].at] = p}

SameProvider(e, a) == {l \in linked : l.user = e /\ ProviderOf[l.at] = ProviderOf[a]}

\* Mutant of Unique: the table has no unique constraints.
UniqueNot(e, a) == TRUE

\* uq_oauth_provider_account and uq_oauth_user_provider
Unique(e, a) == SameProvider(e, a) = {} /\ \A l \in linked : l.at # a

\* _create_identity: refused when another account is linked on either side,
\* nothing to insert when this very link is there.
_create_identity(e, a) ==
    /\ \A l \in linked : l.at = a => l.user = e
    /\ \A l \in SameProvider(e, a) : l.at = a

Finds(b, r) ==
    LET race == \E c \in Browsers : browser[c].pc # "idle" IN
    /\ browser[b].pc = "idle"
    /\ race => races < MaxRaces
    /\ races' = IF race THEN races + 1 ELSE races
    /\ browser' = [browser EXCEPT ![b] = r]
    /\ UNCHANGED <<account, workspaces, linked, intent, proven, used>>

Finishes(b) == browser' = [browser EXCEPT ![b] = AtRest] /\ UNCHANGED races

\* The request is refused, fails on a unique index, or its process dies.
BrowserGivesUp(b) ==
    /\ browser[b].pc # "idle"
    /\ browser' = [browser EXCEPT ![b] = AtRest]
    /\ UNCHANGED <<account, workspaces, linked, intent, proven, used, races>>
-----------------------------------------------------------------------------
register_user(b, e) ==
    /\ account[e] = Absent
    /\ Finds(b, [AtRest EXCEPT !.pc = "register", !.email = e])

\* The user, the workspace and the membership of one transaction.
CreateUser(e, user) ==
    /\ account[e] = Absent
    /\ account' = [account EXCEPT ![e] = user]
    /\ workspaces' = [workspaces EXCEPT ![e] = @ + 1]

CommitRegistration(b) ==
    /\ browser[b].pc = "register"
    /\ CreateUser(browser[b].email, [password |-> TRUE, verified |-> FALSE])
    /\ Finishes(b)
    /\ UNCHANGED <<linked, intent, proven, used>>

LinksAtOnce(e) == account[e].verified

\* exchange_oauth_identity, for an identity no account is linked to: the
\* provider vouches for the address.  (A known identity logs in.)
exchange_oauth_identity(b, a, e) ==
    LET r == [AtRest EXCEPT !.email = e, !.at = a] IN
    /\ \A l \in linked : l.at # a
    /\ \/ account[e] = Absent /\ Finds(b, [r EXCEPT !.pc = "create"])
       \/ /\ account[e] # Absent /\ LinksAtOnce(e)
          /\ _create_identity(e, a)
          /\ Finds(b, [r EXCEPT !.pc = "link"])
       \/ /\ account[e] # Absent /\ ~LinksAtOnce(e) /\ account[e].password
          /\ Finds(b, [r EXCEPT !.pc = "intend", !.previous = OpenIntents(e, ProviderOf[a])])

\* The account an exchange creates.
NewUser == [password |-> FALSE, verified |-> TRUE]

CommitNewUser(b) ==
    LET r == browser[b] IN
    /\ r.pc = "create"
    /\ CreateUser(r.email, NewUser)
    /\ Unique(r.email, r.at)
    /\ linked' = linked \cup {[user |-> r.email, at |-> r.at]}
    /\ Finishes(b)
    /\ UNCHANGED <<intent, proven, used>>

CommitLink(b) ==
    LET r == browser[b] IN
    /\ r.pc = "link"
    /\ Unique(r.email, r.at)
    /\ linked' = linked \cup {[user |-> r.email, at |-> r.at]}
    /\ Finishes(b)
    /\ UNCHANGED <<account, workspaces, intent, proven, used>>

Superseded(r) == r.previous

\* The new intent replaces the open ones that were read.
CommitIntent(b) ==
    LET r == browser[b] IN
    /\ r.pc = "intend"
    /\ \E i \in IntentIds :
          /\ intent[i] = Absent /\ \A j \in 1..(i - 1) : intent[j] # Absent
          /\ intent' = [j \in IntentIds |->
                CASE j = i -> [user |-> r.email, at |-> r.at, consumed |-> FALSE, late |-> FALSE]
                  [] j \in Superseded(r) -> [intent[j] EXCEPT !.consumed = TRUE]
                  [] OTHER -> intent[j]]
    /\ Finishes(b)
    /\ UNCHANGED <<account, workspaces, linked, proven, used>>

\* Ten minutes pass.
IntentLapses(i) ==
    /\ intent[i] # Absent /\ ~intent[i].consumed /\ ~intent[i].late
    /\ intent' = [intent EXCEPT ![i].late = TRUE]
    /\ UNCHANGED <<account, workspaces, linked, browser, proven, used, races>>

\* confirm_oauth_link: the token of an open intent and the right password.
confirm_oauth_link(b, i) ==
    LET w == intent[i] IN
    /\ w # Absent /\ ~w.consumed
    /\ ~w.late => _create_identity(w.user, w.at)
    /\ Finds(b, [AtRest EXCEPT !.pc = IF w.late THEN "lapse" ELSE "confirm", !.id = i, !.email = w.user,
                               !.at = w.at, !.insert = SameProvider(w.user, w.at) = {}])

Consumed(i) == [intent EXCEPT ![i].consumed = TRUE]

\* The identity is inserted unless it was there when it was looked up.
CommitConfirmation(b) ==
    LET r == browser[b] IN
    /\ r.pc = "confirm"
    /\ r.insert => Unique(r.email, r.at)
    /\ linked' = IF r.insert THEN linked \cup {[user |-> r.email, at |-> r.at]} ELSE linked
    /\ account' = [account EXCEPT ![r.email].verified = TRUE]
    /\ intent' = Consumed(r.id)
    /\ proven' = proven \cup {[user |-> r.email, at |-> r.at]}
    /\ used' = [used EXCEPT ![r.id] = @ + 1]
    /\ Finishes(b)
    /\ UNCHANGED workspaces

\* A late intent is consumed and links nothing.
CommitLateIntent(b) ==
    /\ browser[b].pc = "lapse"
    /\ intent' = [intent EXCEPT ![browser[b].id].consumed = TRUE]
    /\ Finishes(b)
    /\ UNCHANGED <<account, workspaces, linked, proven, used>>
-----------------------------------------------------------------------------
AccountNext ==
    \/ \E b \in Browsers :
          \/ \E e \in Emails : register_user(b, e) \/ \E a \in Identities : exchange_oauth_identity(b, a, e)
          \/ \E i \in IntentIds : confirm_oauth_link(b, i)
          \/ CommitRegistration(b) \/ CommitNewUser(b) \/ CommitLink(b) \/ CommitIntent(b)
          \/ CommitConfirmation(b) \/ CommitLateIntent(b) \/ BrowserGivesUp(b)
    \/ \E i \in IntentIds : IntentLapses(i)
-----------------------------------------------------------------------------
\* Properties.

AccountTypeOK ==
    /\ account \in [Emails -> User \cup {Absent}]
    /\ linked \subseteq OAuthIdentity /\ proven \subseteq OAuthIdentity
    /\ intent \in [IntentIds -> OAuthLinkIntent \cup {Absent}]
    /\ \A b \in Browsers : browser[b].pc \in {"idle", "register", "create", "link", "intend", "confirm", "lapse"}
    /\ races \in 0..MaxRaces

\* Two identities of one provider never share an account, nor two accounts an
\* identity, whatever exchanges and confirmations run at the same time.
LinksAreOneToOne ==
    \A k, l \in linked : k.at = l.at \/ (k.user = l.user /\ ProviderOf[k.at] = ProviderOf[l.at]) => k = l

\* An account that was opened with a password has no identity linked to it
\* before that password confirmed a link, by any provider.
PasswordComesFirst ==
    \A l \in linked : account[l.user].password => \E k \in proven : k.user = l.user

\* A registration and an exchange for one address leave one account with one
\* workspace, and no account is left that can neither log in nor be linked.
AccountsAreWhole ==
    \A e \in Emails : /\ workspaces[e] = IF account[e] = Absent THEN 0 ELSE 1
                      /\ account[e] # Absent => account[e].password \/ account[e].verified

\* One open intent per account and provider, and one more per race.
IntentsReplaceEachOther ==
    \A e \in Emails, p \in Providers : Cardinality(OpenIntents(e, p)) <= 1 + races

\* The token of an intent links once; a race may have it confirmed once more.
IntentsWorkOnce == \A i \in IntentIds : used[i] <= 1 + races

\* Accounts, identities and intents agree, whatever exchanges, registrations and
\* confirmations run at the same time.
AccountInv ==
    AccountTypeOK /\ LinksAreOneToOne /\ PasswordComesFirst /\ AccountsAreWhole
    /\ IntentsReplaceEachOther /\ IntentsWorkOnce
=============================================================================
