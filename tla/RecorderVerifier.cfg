\* All requests that change a state or are about what is in progress.
SPECIFICATION Spec
CONSTANTS
    MaxId = 4
    ClientMethods = {"RECORD", "START-INPUT-TIMERS", "SET-PARAMS", "START-SESSION", "END-SESSION",
                     "VERIFY", "GET-INTERMEDIATE-RESULT", "QUERY-VOICEPRINT", "STOP"}
    EngineMayFail = TRUE
    Pipelined = TRUE
    MaxInFlight = 1
INVARIANTS
    RecorderAgrees
    VerifierAgrees
    StopFindsRequest
PROPERTY
    EveryRequestAnswered
CHECK_DEADLOCK FALSE
