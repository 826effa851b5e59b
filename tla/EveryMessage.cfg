\* One request, read in two parts.
SPECIFICATION FairSpec
CONSTANTS
    HEAD_LENGHT = 45
    TagOffsets <- MCTagOffsets
    Bodies <- MCBodies
    MaxMessages = 1
CHECK_DEADLOCK FALSE
PROPERTY
    EveryMessageArrives
