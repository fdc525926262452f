SPECIFICATION Spec
CONSTANTS
  FirstId = 1
  LastId = 2
  IdSpace = 2
  SendCountSpace = 3
  ResendLimit = 0
  MaxResends = 1
  IoThreads = {t1}
  NoPacket = NoPacket
INVARIANT WaitingIsFound
