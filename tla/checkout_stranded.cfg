SPECIFICATION Spec
CONSTANTS
    o1 = o1 r1 = r1 r2 = r2 v1 = v1 v2 = v2 s1 = s1 s2 = s2
    h1 = h1 h2 = h2 w1 = w1 m1 = m1 None = None
    Orders <- OneOrder
    Refs <- TwoRefs
    Vouchers <- TwoVouchers
    Sessions <- TwoSessions
    Requests <- TwoRequests
    FulfilWorkers <- OneFulfilWorker
    ProvisionWorkers <- OneProvisionWorker
    Enabled <- CardEndpoints
    Emitted = {}
    FulfilAttempts = 1
    ProvisionAttempts = 1
    MaxFaults = 0
    HasRouter = TRUE
SYMMETRY Symmetry
INVARIANTS NoStrandedCharge
CHECK_DEADLOCK FALSE
