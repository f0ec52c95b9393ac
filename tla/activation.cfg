SPECIFICATION Spec
CONSTANTS
    c1 = c1 e1 = e1 e2 = e2 e3 = e3 e4 = e4 e5 = e5 a1 = a1 h1 = h1 h2 = h2 None = None
    Codes <- OneCode
    Emails <- FiveEmails
    Applications <- OneApplication
    Requests <- TwoRequests
    MaxQuota = 2
    MaxFaults = 1
SYMMETRY Symmetry
INVARIANTS TypeOK QuotaBounded CountBacked GrantedHasAccess
PROPERTIES UsedUpIsClosed
