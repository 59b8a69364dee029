SPECIFICATION FairSpec
CONSTANTS
  Var <- MCVar
  Chan <- MCChan
  MaxEvent <- MCMaxEvent
  Graphs <- MCGraphs
INVARIANTS TypeOK ArmedWhenBlocked NoLostWakeup RendezvousPaired JoinsNeverOverrun
PROPERTIES ImplementsTokens StreamInOrder Streaming
CHECK_DEADLOCK FALSE
