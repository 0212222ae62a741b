SPECIFICATION FairSpec
CONSTANTS
    w1 = w1
    w2 = w2
    NoWorker = NoWorker
    Workers <- MCWorkers
    Stalled <- MCStalled
    Amount = 2
    Cost = 1
    Credit = 2
    Others = 2
    MaxRetries = 2
    MaxFaults = 3
INVARIANTS TypeOK MoneyIsExact ChargedIsCompleted OpenHoldIsWatched RefundedIsStopped
PROPERTIES HoldIsEnded KeepsPromise
CHECK_DEADLOCK FALSE
