SPECIFICATION Spec
CONSTANTS
    Version = 1
    Known <- MCKnown
    Engines <- MCTwoEngines
    Offers <- MCOffersV1
    Controls = "any"
    MaxMessages = 6

    
PROPERTIES
    ServesInOrder
CHECK_DEADLOCK FALSE
