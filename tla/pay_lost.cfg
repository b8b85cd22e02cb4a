SPECIFICATION FairSpec
CONSTANTS
    c1 = c1  c2 = c2  k1 = k1  k2 = k2  w1 = w1  w2 = w2  r1 = r1
    Checkouts = {c1}
    Keys = {k1}
    Methods = {"online"}
    Total <- OnePrice
    InitialBalance = 0
    Workers = {w1}
    Reconcilers = {r1}
    Crashing = {w1}
    BatchSize = 1
    ReportsFailure = TRUE
PROPERTIES SuccessBecomesOrder
\* every offer may lapse: nothing is left to do then
CHECK_DEADLOCK FALSE
