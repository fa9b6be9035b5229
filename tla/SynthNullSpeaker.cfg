SPECIFICATION Spec
CONSTANTS
    MaxId = 3
    ClientMethods = {"SPEAK", "PAUSE", "RESUME", "CONTROL"}
    EngineMayFail = TRUE
    Pipelined = FALSE
    MaxInFlight = 0
INVARIANT
    NoNullDereference
CHECK_DEADLOCK FALSE
