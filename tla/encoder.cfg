SPECIFICATION Spec
CONSTANTS
  c1 = c1
  c2 = c2
  v1 = v1
  Null = Null
  SendHead = SendHead
  EncryptHead = EncryptHead
  Packets = {c1, c2}
  Commands <- LongCommand
  Plain <- None
  Handshake <- LongCommand
  WriteEvents = 2
  MaxResends = 1
CHECK_DEADLOCK FALSE
INVARIANTS TypeOK QueuesWellFormed EncryptedOnce NoUseAfterFree 
