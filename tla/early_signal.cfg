CONSTANTS
    Clients = {c1}
SPECIFICATION Spec
INVARIANTS
    SignalsAreGraceful
