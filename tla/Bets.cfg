SPECIFICATION Spec
CONSTANTS
    Balls = {12, 34, 55}
    Offers <- MCOffers
    Results <- MCResults
    Blocks <- MCBlocks
    Payouts <- MCPayouts
    General = 2
    FreeMinimum = 2
    FreeCount = 2
    MaxClock = 4
    MaxRules = 1
    MaxChanges = 2
CHECK_DEADLOCK FALSE
INVARIANTS FreeNeverRefused PaidMatchIsShown PrizeAsSold
