SPECIFICATION Spec
CONSTANTS
    o1 = o1
    o2 = o2
    w1 = w1
    w2 = w2
    p1 = p1
    Orders = {o1}
    HasWallet = {o1}
    HasOnline = {o1}
    Workers = {w1, w2}
    Operators = {p1}
    Asking = {o1}
    Crashing = {w1, w2}
    BatchSize = 2
SYMMETRY WorkerSymmetry
INVARIANTS TypeOK RefundedOnce RefundedIsAccepted ConfirmedAtSupplier RefundClosesRequests
ACTION_CONSTRAINT OneCrew
CHECK_DEADLOCK FALSE
