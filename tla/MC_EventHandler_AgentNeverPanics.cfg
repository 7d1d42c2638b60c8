CONSTANTS
    Meetings <- MCMeetings
    Users <- MCUsers
    NoUser = NoUser
    MaxEvents = 6
    MaxDups = 0
SPECIFICATION Spec
INVARIANTS AgentNeverPanics
CHECK_DEADLOCK FALSE
