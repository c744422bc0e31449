\* Three threads: the backlog holds two while a third connects or fails.
CONSTANT ClientThreads = 3
SPECIFICATION FairProcessSpec
CHECK_DEADLOCK FALSE
INVARIANTS
  ProcessTypeOK
  NoHandlerCutOff
  CountsAgree
PROPERTIES
  ServerEnds
  ClientProcessEnds
