SPECIFICATION Spec
CONSTANTS
    b1 = b1
    b2 = b2
    b3 = b3
    m1 = m1
    m2 = m2
    d1 = d1
    o1 = o1
    o2 = o2
    h1 = h1
    h2 = h2
    Branches = {b1, b2, b3}
    Merchants = {m1, m2}
    Devices = {d1}
    Owners = {o1, o2}
    Handlers = {h1, h2}
    Plans = {1, 2}
    Single = {1}
INVARIANTS  DevicesFollowMerchants
SYMMETRY MCSymmetry
