CONSTANTS
    Nodes = {"n1", "n2"}
    ServerURL <- MCServerURL
    Secrets = {"s1", "s2"}
    Lower <- MCLower
    ApiPath = "api"
    InitRows <- MCInitRows
    MaxRestarts = 1
SPECIFICATION Spec
INVARIANTS TypeOK OwnRow SecretInSync
\* Once every agent has started or stopped for good the start-up is over.
CHECK_DEADLOCK FALSE
