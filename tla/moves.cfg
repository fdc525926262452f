SPECIFICATION Spec
CONSTANTS
  Clients = {a, b}
  Channels = {lobby, room, den}
  Default = lobby
  None = None
  Free = Free
CHECK_DEADLOCK FALSE
INVARIANTS TypeOK MembersAgree GoneHasLeft NobodyLeftBehind
