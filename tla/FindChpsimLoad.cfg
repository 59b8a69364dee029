CONSTANTS
    Var <- MCVar
    Chan <- MCChan
    MaxEvent <- MCMaxEvent
    Graphs <- Streams
SPECIFICATION CheckpointSpec
INVARIANTS
    ArmedWhenBlocked
CHECK_DEADLOCK FALSE
