CONSTANTS
    Mutations = {1}
    Requests = {q1, q2}
    BatchLimit = 2
    MaxLosses = 1
    MaxFaults = 1
SPECIFICATION FairSpec
INVARIANTS OutboxTellsTheTruth OneHandlerPerMutation
PROPERTIES KeepsSalePromise OutcomesAreFinal QueuedIsDecided
CHECK_DEADLOCK FALSE
