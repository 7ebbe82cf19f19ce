CONSTANTS
    t1 = t1
    d1 = d1
    r1 = r1
    Tickets = {t1}
    Draws = {d1}
    Results = {r1, r2}
    Keys = {k1}
    Payers = {p1}
    DrawsOf <- MCDrawsOf
    Primary <- MCPrimary
    Prize <- MCPrize
    KeepsPotentialWin = FALSE
    NoResult = NoResult
    NoKey = NoKey
    MaxVersion = 2
    MaxStarts = 1
SPECIFICATION FairSpec
PROPERTIES WinnersGetPaid
CHECK_DEADLOCK FALSE
