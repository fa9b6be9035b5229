SPECIFICATION DemoSpec
CONSTANTS
    MaxId = 3
    ClientMethods = {"SPEAK", "STOP", "PAUSE", "RESUME", "CONTROL"}
    EngineMayFail = TRUE
    Pipelined = TRUE
    MaxInFlight = 0
PROPERTY
    DemoImplementsEngine
CHECK_DEADLOCK FALSE
