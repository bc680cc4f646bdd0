SPECIFICATION ConsoleSpec
CONSTANTS
  Keys = {inst}
  InstanceKey = inst
  Users = {u1, u2}
  Viewers = {v1, v2}
  MaxSessions = 2
  Requests <- Asked
INVARIANT ActiveIsServed
PROPERTIES
  RequestsEnd
  IdleIsReaped
CHECK_DEADLOCK FALSE
