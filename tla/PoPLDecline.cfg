SPECIFICATION EmissionSpec
CONSTANTS
    LastEpoch = 24855
PROPERTIES
    RateNeverRises
CHECK_DEADLOCK FALSE
