SPECIFICATION FairSpec
CONSTANTS
    o1 = o1
    o2 = o2
    w1 = w1
    w2 = w2
    p1 = p1
    Orders = {o1, o2}
    HasWallet = {o1}
    HasOnline = {o1, o2}
    Workers = {w1}
    Operators = {}
    Asking = {}
    Crashing = {}
    BatchSize = 2

PROPERTIES PaidConverges
CHECK_DEADLOCK FALSE
