SPECIFICATION PartSpec
CONSTANTS
    c1 = c1  c2 = c2  w1 = w1  a1 = a1  a2 = a2  b1 = b1  b2 = b2
    own = own  agent = agent  customer = customer  officer = officer
    browser1 = browser1  merchant = merchant  editor = editor
    Checkouts = {c1, c2}
    Listed = {c1}
    Party <- PartyOf
    Staff = {a1, a2}
    Writers = {w1}
    MaxCapacity = 2
    Patches <- SomePatches
    Limits = {1, NoLimit}
    Keep = Keep
    NoLimit = NoLimit
    Members = {a1, a2}
    Requests = {b1, b2}
    Roles = {own, agent}
    Owner = own
    Managing = {own, agent}
    MemberStatuses = {"ACTIVE", "SUSPENDED"}
    BackOffice = "office"
    Customers = {customer}
    Officers = {officer}
    Data = {1, 2}
    MaxEntries = 6
    Challenges = {a1, a2}
    Verifiers = {b1, b2}
    Browsers = {browser1}
    MaxAttempts = 2
    Clerks = {a1, a2}
    References = {b1, b2}
    NoReference = NoReference
    Writing = {a1, a2}
    MaxMessages = 5
    Merchants = {merchant}
    Editors = {editor}
SYMMETRY OfficeSymmetry
INVARIANTS PartsTypeOK HistoryIsLegal CaseIsComplete TriesBounded OneLogin ThrottleHolds SentIsTrue PaidIsBacked OneCover
PROPERTIES NeverOversold CancelledStays RolesAsAsked ClosedIsQuiet PublishedComplete
\* cases close, tickets fill up and sessions end: each part may rightly stop
CHECK_DEADLOCK FALSE
