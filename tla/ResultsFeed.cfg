SPECIFICATION Spec
CONSTANTS
    Tenants = {1, 2}
    Replicas = {r1}
    Staff = {s1, s2}
    Bindings <- MCBindings
    Numbers <- MCNumbers
    MaxAttempts = 2
    MaxSaid = 3
    MaxTrouble <- MCTrouble
INVARIANTS NewestWins PlatformAgrees
PROPERTIES PaidIsFinal FeedGetsThrough
