CONSTANTS
    Bookers = {b1}
    Deleters = {d1}
    Updaters = {}
    Creators = {c1}
    Joiners = {n1}
    Readers = {}
    Tenants = {t1}
    StoredSlots = {}
    Requests <- MCRequests
    Inputs <- OfferInputs
    StoredTimeslots <- MCStored
    Emails = {e1, e2}
    e1 = e1
    e2 = e2
    NoRow = NoRow
    BadID = BadID
    MaxWindows = 2
    MaxSlices = 2
    Micro = 2
    Minute = 2
    minDurationMins = 1
    maxDurationMins = 2
    MaxConns = 3
    Cancellable = {c1, n1}
SPECIFICATION Spec
INVARIANTS
    TypeOK
    RowsSatisfyChecks
    EveryMeetingIsListed
PROPERTIES
    OnlyForward
    AvailabilityAppearsWhole
    ImplementsCalendar
