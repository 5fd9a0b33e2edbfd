CONSTANTS
    Clients = {c1, c2}
SPECIFICATION FairSpec
INVARIANTS
    PoolOutlivesHandlers
    OnlyTheseCutWork
PROPERTIES
    SignalEndsProcess
    DrainedMeansSuccess
