SPECIFICATION EventSpec
CONSTANTS
    dtc = dtc
    Unstated = Unstated
    Id <- Ids
    Account <- Accounts
    Option <- Options
    Date <- Days
    Event <- Voluntary
    Submission <- Submissions
    Balance <- Balances
    Source = {dtc}
    MaxRequests = 4
    MaxJournal = 4
    MaxEntries = 4
    MaxLost = 1
    MaxAssigned = 1
    PaidEvent <- PaidEvents
    Holding <- Holdings
    Movement <- Movements
    MaxMoved = 2
CHECK_DEADLOCK FALSE
INVARIANTS
    RetrySafe
    BalancesCover
    RecordsTellThePast
    TamperingShows
    MatchedIsPaid
PROPERTIES
    Implements
