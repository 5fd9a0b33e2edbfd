CONSTANTS
    Bookers = {b1}
    Deleters = {d1}
    Updaters = {}
    Creators = {}
    Joiners = {}
    Readers = {}
    Tenants = {t1}
    StoredSlots = {s1}
    Requests <- MCRequests
    Inputs <- PlainInputs
    StoredTimeslots <- MCStored
    Emails = {e1, e2}
    e1 = e1
    e2 = e2
    NoRow = NoRow
    BadID = BadID
    MaxWindows = 2
    MaxSlices = 2
    Micro = 2
    Minute = 2
    minDurationMins = 1
    maxDurationMins = 2
    MaxConns = 3
    Cancellable = {}
SPECIFICATION Spec
PROPERTIES
    BookedSlotNotDeleted
