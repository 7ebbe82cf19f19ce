CONSTANTS
    t1 = t1
    d1 = d1
    r1 = r1
    Tickets = {t1, t2}
    Draws = {d1}
    Results = {r1}
    Keys = {k1}
    Payers = {p1, p2}
    DrawsOf <- MCDrawsOf
    Primary <- MCPrimary
    Prize <- MCPrize
    KeepsPotentialWin = TRUE
    NoResult = NoResult
    NoKey = NoKey
    MaxVersion = 1
    MaxStarts = 2
SPECIFICATION ScanSpec
INVARIANTS OnePayoutPerKey
PROPERTIES ScanReachesStale
CHECK_DEADLOCK FALSE
