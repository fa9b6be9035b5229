SPECIFICATION FairSpec
CONSTANTS
    MaxId = 3
    ClientMethods = {"SET-PARAMS", "SPEAK", "STOP", "BARGE-IN-OCCURRED",
                     "DEFINE-LEXICON"}
    EngineMayFail = TRUE
    Pipelined = FALSE
    MaxInFlight = 1
INVARIANTS
    NoNullDereference
    EngineAgrees
PROPERTIES
    EveryRequestAnswered
    TerminationProceeds
CHECK_DEADLOCK FALSE
