SPECIFICATION DSpec
PROPERTIES
    ShutdownEnds
CHECK_DEADLOCK FALSE
