CONSTANTS
    Consumers <- MCConsumers
    MaxCmds <- MCMaxCmds
    MaxTime <- MCMaxTime
    DeadlineAge <- MCDeadlineAge
    ExpireAge <- MCExpireAge
    MaxAborts <- MCMaxAborts
SPECIFICATION Spec
INVARIANTS AtMostOnceHandling
CHECK_DEADLOCK FALSE
