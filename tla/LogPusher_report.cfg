SPECIFICATION FairSpec
CONSTANTS
  Loggers = {service}
  Service = service
  LocalAtStart = {}
  Logs = {g1, g2, g3}
  Unimportant = {}
  MQMaxSize = 1
  Faults = {"delivery"}
  NoLog = NoLog
PROPERTY RemoteResumes
CHECK_DEADLOCK FALSE
