SPECIFICATION FairSpec
CONSTANTS
    Calls = 1
    Deals = {}
    Slots = {h1}
    MaxClockSkew = 1
    Cap = 1
    Ahead = 0
    Behind = 1
    MaxDelay = 1
    MaxTime = 3
    MaxRestarts = 0
PROPERTY NotUncollectedForever
CHECK_DEADLOCK FALSE
