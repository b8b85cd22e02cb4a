SPECIFICATION FairSpec
CONSTANTS
    c1 = c1  c2 = c2  k1 = k1  k2 = k2  w1 = w1  w2 = w2  r1 = r1
    Checkouts = {c1, c2}
    Keys = {k1}
    Methods = {"wallet", "combined"}
    Total <- Prices
    InitialBalance = 2
    Workers = {w1}
    Reconcilers = {r1}
    Crashing = {w1}
    BatchSize = 1
    ReportsFailure = TRUE
INVARIANTS WalletAddsUp
PROPERTIES ImplementsSettlement DecidedGetsResolved
\* every offer may lapse: nothing is left to do then
CHECK_DEADLOCK FALSE
