CONSTANTS
    t1 = t1
    d1 = d1
    r1 = r1
    Tickets = {t1}
    Draws = {d1, d2}
    Results = {r1, r2}
    Keys = {k1}
    Payers = {p1}
    DrawsOf <- MCDrawsOf
    Primary <- MCPrimary
    Prize <- MCPrize
    KeepsPotentialWin = TRUE
    NoResult = NoResult
    NoKey = NoKey
    MaxVersion = 2
    MaxStarts = 1
SPECIFICATION Spec
INVARIANTS TypeOK SettledTicketsAgree PaidMatchesResults BooksFollowStatus
PROPERTIES PaidIsFinal KeepsPromise
CHECK_DEADLOCK FALSE
