SPECIFICATION FairSpec
CONSTANTS
  Loggers = {service, bid}
  Service = service
  LocalAtStart = {}
  Logs = {g1, g2, g3, g4}
  Unimportant = {g4}
  MQMaxSize = 1
  Faults = {"delivery", "pthread_create"}
  NoLog = NoLog
INVARIANT LogInOnePlace
PROPERTIES MonitorOwnsParam MonitorEnds
CHECK_DEADLOCK FALSE
