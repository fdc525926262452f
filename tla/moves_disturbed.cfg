SPECIFICATION Spec
CONSTANTS
  Clients = {a, b}
  Channels = {lobby, room}
  Default = lobby
  None = None
  Free = Free
CHECK_DEADLOCK FALSE
INVARIANT ListedIsThere
