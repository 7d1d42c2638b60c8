CONSTANTS
    Consumers <- MCConsumers
    MaxCmds <- MCMaxCmds
    MaxTime <- MCMaxTime
    DeadlineAge <- MCDeadlineAge
    ExpireAge <- MCExpireAge
    MaxAborts <- MCMaxAborts
SPECIFICATION Spec
INVARIANTS TypeOK SingleTerminalTransition
PROPERTIES EveryCommandSettles ImplementsContract
CHECK_DEADLOCK FALSE
