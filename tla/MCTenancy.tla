----------------------------- MODULE MCTenancy -----------------------------
(*****************************************************************************)
(* The members of a workspace, their accounts, and the sites that workspaces *)
(* claim.  They share no row that one of them changes, so that one run has   *)
(* the sum of them: side says which.                                         *)
(*                                                                           *)
(* claims: the sites with DNS claims and without the wizard.                 *)
(* wizard: the sites with the wizard, without claims of either kind.         *)
(*****************************************************************************)
EXTENDS Workspaces, Accounts, Onboarding, TLC

VARIABLE side

\* The same model values stand for requests of either kind, and for users and
\* sites: the fewer, the fewer permutations.
ASSUME SharedValues == Tabs = Requests /\ SiteIds = Users

AnyUser == CHOOSE u \in Users : TRUE

\* Beside members and accounts there are no sites; beside sites, one member.
NoSites ==
    /\ site = [i \in SiteIds |-> Null]
    /\ minted = <<>> /\ lapsed = {} /\ dns = {} /\ won = {}
    /\ audit = [d \in Domains |-> [by |-> Null, site |-> Null]]
    /\ tab = [t \in Tabs |-> Closed]
    /\ clashes = 0
    /\ wizard = [w \in Founders |-> FreshState]

Init ==
    /\ AccountInit /\ WorkspaceInit
    /\ \/ side \in {"workspaces", "accounts"} /\ NoSites
       \/ side \in {"claims", "wizard"} /\ member[AnyUser] # Nobody /\ OnboardingInit

\* Bound: the last token is not made beside a claimed audit.
ClaimsSide == SitesNext /\ ((\E d \in Domains : audit[d].by # Null) => Len(minted) < MaxTokens)'

\* Bound: a draft does what a repeated step does but for "site", "google" what
\* "cms" does, and the claim of an audit makes a site as create_site does: left
\* out; "cms" comes after the required steps, "goals" after "profile".
Before(step) ==
    [s \in ONBOARDING_STEPS |-> IF s = "cms" THEN Required ELSE IF s = "goals" THEN {"profile"} ELSE {}][step]
WizardSide ==
    /\ OnboardingNext /\ UNCHANGED minted
    /\ \A t \in Tabs : LET r == tab'[t] IN
          /\ r.pc # "audit"
          /\ r.read # Null => /\ r.read.step # "google" /\ (r.read.done \/ r.read.step = "site")
                              /\ Before(r.read.step) \subseteq r.read.state.steps

Next ==
    /\ UNCHANGED side
    /\ \/ side = "workspaces" /\ WorkspaceNext /\ UNCHANGED <<accountVars, onboardingVars>>
       \/ side = "accounts" /\ AccountNext /\ UNCHANGED <<workspaceVars, onboardingVars>>
       \/ side = "claims" /\ UNCHANGED <<wizard, workspaceVars, accountVars>> /\ ClaimsSide
       \/ side = "wizard" /\ UNCHANGED <<workspaceVars, accountVars>> /\ WizardSide

Spec == Init /\ [][Next]_<<workspaceVars, accountVars, onboardingVars, side>>

TwoProviders == [a \in Identities |-> CHOOSE p \in Providers : (p = "github") = (a = "c")]

\* One zone that both workspaces can write to, one that only one of them can.
OneShared ==
    [d \in Domains |-> IF d = CHOOSE e \in Domains : TRUE THEN Tenants ELSE {CHOOSE w \in Tenants : TRUE}]

Symmetry == Permutations(Users) \cup Permutations(Requests)
=============================================================================
