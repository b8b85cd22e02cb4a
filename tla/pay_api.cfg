SPECIFICATION Spec
CONSTANTS
    c1 = c1  c2 = c2  k1 = k1  k2 = k2  w1 = w1  w2 = w2  r1 = r1
    Checkouts = {c1}
    Keys = {k1, k2}
    Methods = {"online", "wallet"}
    Total <- OnePrice
    InitialBalance = 3
    Workers = {w1, w2}
    Reconcilers = {r1}
    Crashing = {w1, w2, r1}
    BatchSize = 1
    ReportsFailure = TRUE
SYMMETRY KeySymmetry
INVARIANTS TypeOK OrderIsFunded CompletedHasOrder SuccessIsVerified CallbackDecides
PROPERTIES OrderIsFinal IntentFollowsTable
ACTION_CONSTRAINT OneBesideRun OneRefused
CHECK_DEADLOCK FALSE
