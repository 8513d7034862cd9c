SPECIFICATION Spec
CONSTANTS
    Users = {u1, u2, u3}
    Requests = {q1, q2}
    Nobody = Nobody
    TeamLimit = 1
    MaxInvitations = 2
    MaxCrossings = 1
    Emails = {e1, e2}
    Providers = {"google", "github"}
    Identities = {"a", "b", "c"}
    ProviderOf <- TwoProviders
    Browsers = {b1, b2}
    Absent = Absent
    MaxIntents = 2
    MaxRaces = 1
    Tenants = {w1, w2}
    Founders = {w1}
    Domains = {d1, d2}
    SiteIds = {u1, u2, u3}
    Tabs = {q1, q2}
    Null = Null
    Deleted = Deleted
    Controls <- OneShared
    SiteLimit = 1
    MaxTokens = 2
    MaxClashes = 1
SYMMETRY Symmetry
INVARIANTS
    AnOwnerRemains
    AccountInv
    WizardInv
PROPERTIES
    MembershipSafety
    SiteSafety
CHECK_DEADLOCK FALSE
