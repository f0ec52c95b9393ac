SPECIFICATION LiveSpec
CONSTANTS
    o1 = o1 r1 = r1 r2 = r2 v1 = v1 v2 = v2 s1 = s1 s2 = s2
    h1 = h1 h2 = h2 w1 = w1 m1 = m1 None = None
    Orders <- OneOrder
    Refs <- OneRef
    Vouchers <- TwoVouchers
    Sessions <- OneSession
    Requests <- TwoRequests
    FulfilWorkers <- OneFulfilWorker
    ProvisionWorkers <- OneProvisionWorker
    Enabled <- RepairEndpoints
    Emitted = {}
    FulfilAttempts = 2
    ProvisionAttempts = 2
    MaxFaults = 1
    HasRouter = TRUE
PROPERTIES PaidGetsVoucher QueuedOrderActivated StuckOrderRepaired
CHECK_DEADLOCK FALSE
