SPECIFICATION ChannelsSpec
CONSTANTS
  logs = logs
  exec = exec
  shell = shell
  Views = {logs, exec, shell}
  NoView = NoView
  Kind <- KindOf
  MaxQueued = 2
  Shells = 2
  MaxIds = 2
  MaxInput = 1
  MaxOpens = 2
INVARIANTS NoOrphan LiveIsRunning
PROPERTIES NobodyWaits
CHECK_DEADLOCK FALSE
