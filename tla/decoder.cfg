SPECIFICATION FairSpec
CONSTANTS
  IdSpace = 8
  GenerationSpace = 3
  OverflowWindow = 2
  IndexSpace = 24
  Capacity = 2
  Unset = NoPacket
  NoPacket = NoPacket
  IoThreads = {t1,t2}
  Commands <- RoughStream
INVARIANTS TypeOK NeverMisjudged SlotsAligned AcknowledgedIsKept ExactlyOnce NoneSkipped NothingStranded
PROPERTY EverythingDecoded
