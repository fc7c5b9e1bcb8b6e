CONSTANTS
  Procs = {1, 2}
  Files <- MCFiles
  Content <- MCContent
  Flushes <- MCFlushes
  Window = 3
  Faults <- MCFaults
SPECIFICATION Spec
INVARIANTS NothingSkipped PushedOnce
PROPERTIES Collected
CHECK_DEADLOCK FALSE
