SPECIFICATION FairSpec
CONSTANTS
    Conns = {c1, c2}
    None = None
    Listeners = {1}
    Descriptors = {2}
    MAX_EVENTS = 2
    CLIENT_TIMEOUT = 0
PROPERTIES
    QueuedIsTaken
CHECK_DEADLOCK FALSE
