SPECIFICATION JobSpec
CONSTANTS
    Replicas = {r1, r2}
    Subs = {s1}
    Notes = {n1}
    GraceDays = 1
    MaxAttempts = 2
    MaxTime = 3
    MaxActs = 2
    MaxFaults = 1
INVARIANTS GraceIsGranted
PROPERTIES LapsedIsSuspended NotesAreSettled
