CONSTANTS
    Nodes = {"n1", "n2"}
    ServerURL <- MCPrefixURL
    Secrets = {"s1", "s2"}
    Lower <- MCPrefixLower
    ApiPath = "api"
    InitRows <- MCNoRows
    MaxRestarts = 1
SPECIFICATION Spec
INVARIANT OwnRow
CHECK_DEADLOCK FALSE
