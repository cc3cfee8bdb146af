\* One command at a time beside the service, one revision, two shifts, two things that go wrong.
SPECIFICATION LiveSpec
CONSTANTS
    Owners = {o1}
    Service = service
    MaxVersion = 2
    ReviewAttempts = 2
    MaxShifts = 2
    MaxFaults = 2
CHECK_DEADLOCK FALSE
INVARIANT RevisedWasReturned
INVARIANT OnlyUnprovenSucceeded
PROPERTY CompletedIsReviewed
