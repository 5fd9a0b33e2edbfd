CONSTANTS
    Bookers = {b1, b2}
    Deleters = {d1}
    Updaters = {u1}
    Creators = {}
    Joiners = {}
    Readers = {}
    Tenants = {t1}
    StoredSlots = {s1}
    Requests <- MCRequests
    Inputs <- RaceInputs
    StoredTimeslots <- MCStored
    Emails = {e1, e2}
    e1 = e1
    e2 = e2
    NoRow = NoRow
    BadID = BadID
    MaxWindows = 2
    MaxSlices = 2
    Micro = 2
    Minute = 2
    minDurationMins = 1
    maxDurationMins = 2
    MaxConns = 3
    Cancellable = {b1, d1}
SPECIFICATION FairSpec
INVARIANTS
    LocksExclude
    OneMeetingPerSlot
    OnlyOneBookingWins
    ReferentialIntegrity
    MeetingsAreWhole
    AnswersStayTrue
    ConnectionsReturned
    OnlyWaitsForOthers
    NoCircularWait
PROPERTIES
    ImplementsCalendar
    EveryRequestEnds
