CONSTANTS
    MeetingIDs <- MCMeetingIDs
    EmptyID = ""
    Backends = {b1, b2, b3}
    Unsaved = Unsaved
    NoBackend = NoBackend
SPECIFICATION Spec
INVARIANT TypeOK
PROPERTY ImplementsRIB
