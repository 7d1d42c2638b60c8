CONSTANTS
    Meetings <- MCMeetings
    Users <- MCUsers
    NoUser = NoUser
    MaxEvents = 6
    MaxDups = 1
SPECIFICATION Spec
INVARIANTS NoDuplicateAttendees
CHECK_DEADLOCK FALSE
