SPECIFICATION Spec
CONSTANTS
    y1 = y1 y2 = y2 c1 = c1 c2 = c2 t1 = t1 t2 = t2 h1 = h1 h2 = h2 None = None
    Payments <- OnePayment
    Cashouts <- TwoCashouts
    Transfers <- TwoTransfers
    Requests <- TwoRequests
    Amount <- UnitAmounts
    AutoMax = 1
    MaxFaults = 1
SYMMETRY Symmetry
INVARIANTS TypeOK MoneyOutIsOnTheBooks SentOnce CompletedWasPaid
PROPERTIES LedgerSpec
CHECK_DEADLOCK FALSE
