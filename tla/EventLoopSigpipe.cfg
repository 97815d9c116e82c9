SPECIFICATION Spec
CONSTANTS
    Conns = {c1, c2}
    None = None
    Listeners = {1}
    Descriptors = {2, 3}
    MAX_EVENTS = 2
    CLIENT_TIMEOUT = 0
SYMMETRY Symmetry
INVARIANTS
    SendErrorsAreHandled
CHECK_DEADLOCK FALSE
