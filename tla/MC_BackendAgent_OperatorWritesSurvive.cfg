CONSTANTS
    Meetings <- MCMeetings
    Reqs <- MCReqs
    ReqMeeting <- MCReqMeeting
    AdminStates <- MCAdminStates
SPECIFICATION Spec
INVARIANT OperatorWritesSurvive
