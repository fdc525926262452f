SPECIFICATION FairSpec
CONSTANTS
  FirstId = 0
  LastId = 0
  IdSpace = 16
  SendCountSpace = 4
  ResendLimit = 1
  MaxResends = 2
  IoThreads = {t1, t2}
  NoPacket = NoPacket
INVARIANTS TypeOK ListenerOnce ListenerKept
PROPERTY EntriesDrain
