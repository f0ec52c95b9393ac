SPECIFICATION Spec
CONSTANTS
    y1 = y1 y2 = y2 c1 = c1 c2 = c2 t1 = t1 t2 = t2 h1 = h1 h2 = h2 None = None
    Payments <- TwoPayments
    Cashouts <- OneCashout
    Transfers <- TwoTransfers
    Requests <- TwoRequests
    Amount <- LargeAmount
    AutoMax = 1
    MaxFaults = 0
SYMMETRY Symmetry
INVARIANTS NeverOverpaid
CHECK_DEADLOCK FALSE
