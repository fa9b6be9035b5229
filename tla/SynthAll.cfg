SPECIFICATION Spec
CONSTANTS
    MaxId = 4
    ClientMethods = {"SET-PARAMS", "SPEAK", "STOP", "PAUSE", "RESUME",
                     "BARGE-IN-OCCURRED", "CONTROL", "DEFINE-LEXICON"}
    EngineMayFail = TRUE
    Pipelined = TRUE
    MaxInFlight = 1
INVARIANTS
    TypeOK
    MachineMatchesClient
    StopFindsSpeaker
    ResponseMatchesRequest
    AtMostOneResponse
PROPERTY
    NeverBackwards
CHECK_DEADLOCK FALSE
