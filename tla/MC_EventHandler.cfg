CONSTANTS
    Meetings <- MCMeetings
    Users <- MCUsers
    NoUser = NoUser
    MaxEvents = 6
    MaxDups = 1
SPECIFICATION Spec
INVARIANTS TypeOK AttendeesSound RunningSound
PROPERTIES CatchesUp
CHECK_DEADLOCK FALSE
