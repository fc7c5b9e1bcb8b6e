SPECIFICATION FileSpec
CONSTANTS
  Threads = {t1, t2}
  HourLen = 2
  DayLen = 4
  MaxClock = 7
  MaxLogs = 3
  FileFaults = {"fs"}
SYMMETRY Symmetry
INVARIANTS CountIsExact OneFilePerHour WritesOpenFile
PROPERTY LogsKept
CHECK_DEADLOCK FALSE
