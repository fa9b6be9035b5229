SPECIFICATION Spec
CONSTANTS
    MaxId = 4
    ClientMethods = {"SET-PARAMS", "DEFINE-GRAMMAR", "RECOGNIZE", "INTERPRET",
                     "GET-RESULT", "START-INPUT-TIMERS", "STOP"}
    EngineMayFail = TRUE
    Pipelined = TRUE
    MaxInFlight = 1
INVARIANTS
    TypeOK
    MachineMatchesClient
    StopFindsRecognition
    ResultNotReplaced
    RecognizingInEngine
    NoNullDereference
CHECK_DEADLOCK FALSE
