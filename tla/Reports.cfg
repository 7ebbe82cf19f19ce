SPECIFICATION Spec
CONSTANTS
    d1 = d1
    d2 = d2
    m1 = m1
    m2 = m2
    b1 = b1
    b2 = b2
    NoDraw = NoDraw
    Nothing = Nothing
    Tickets = {t1}
    Merchants = {m1, m2}
    Offices = {b1, b2}
    Contents <- MCContents
    HomeOffice <- MCHomeOffice
    Days = {1, 2}
    Requests <- MCRequests
    Batches <- MCBatches
CHECK_DEADLOCK FALSE
INVARIANTS FiguresAgree  
