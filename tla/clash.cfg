CONSTANTS
    Bookers = {b1, b2}
    Deleters = {}
    Updaters = {}
    Creators = {}
    Joiners = {}
    Readers = {}
    Tenants = {t1}
    StoredSlots = {s1, s2}
    Requests <- MCRequests
    Inputs <- PlainInputs
    StoredTimeslots <- MCStored
    Emails = {e1, e2}
    e1 = e1
    e2 = e2
    NoRow = NoRow
    BadID = BadID
    MaxWindows = 2
    MaxSlices = 2
    Micro = 2
    Minute = 2
    minDurationMins = 1
    maxDurationMins = 2
    MaxConns = 1
    Cancellable = {}
SPECIFICATION Spec
INVARIANTS
    NoClashingMeetings
