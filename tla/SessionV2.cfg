SPECIFICATION FairSpec
CONSTANTS
    Version = 2
    Known <- MCKnown
    Engines <- MCEngines
    Offers <- MCOffersV2
    Controls = "any"
    MaxMessages = 5
INVARIANTS
    CountExact
    AnswerPresent
    
    OpenMatchesOffer
PROPERTIES
    EveryMessageServed
CHECK_DEADLOCK FALSE
