\* Brokers of every type, measured by up to three threads.
CONSTANTS
  Messages <- MCMessages
  Modes = {"V6ANYV4", "V4V6"}
  MaxList = 3
  Attempts = 2
  Timeout = 1
SPECIFICATION Spec
INVARIANTS ThreadsKeepMemory ReachableFirst
PROPERTIES RedirectionEnds
\* A handled redirection is the end.
CHECK_DEADLOCK FALSE
