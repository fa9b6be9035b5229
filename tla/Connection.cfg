\* Two sessions share connections, or each has its own.
CONSTANTS
    s1 = s1
    s2 = s2
    synth1 = synth1
    recog1 = recog1
    synth2 = synth2
    Sessions <- MCSessions
    Channels <- MCChannels
    ChannelsOf <- MCChannelsOf
    Connections = {c1, c2}
    InactivityTimeout = TRUE
    TerminationTimeout = TRUE
    MaxReceived = 2
    MaxModified = 1
SPECIFICATION Spec
INVARIANTS
    NoUseAfterFree
    NoMessageAfterDestroy
    ClosedIsOwned
PROPERTY ClosedIsFreed
CHECK_DEADLOCK FALSE
