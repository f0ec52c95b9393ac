SPECIFICATION LiveSpec
CONSTANTS
    a1 = a1 a2 = a2 e1 = e1 h1 = h1 h2 = h2
    Venues <- TwoVenues
    Emails <- OneEmail
    Requests <- TwoRequests
    Templates = 3
    MaxBanks = 3
    Topics <- AllTopics
    MaxFaults = 2
INVARIANTS TypeOK DefaultPlansBounded DefaultBankAccount
PROPERTIES AccountKept AccountHeals
CHECK_DEADLOCK FALSE
