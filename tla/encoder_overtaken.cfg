SPECIFICATION Spec
CONSTANTS
  c1 = c1
  c2 = c2
  v1 = v1
  Null = Null
  SendHead = SendHead
  EncryptHead = EncryptHead
  Packets = {c1, v1}
  Commands <- OneCommand
  Plain <- OnePlain
  Handshake <- OneCommand
  WriteEvents = 2
  MaxResends = 0
CHECK_DEADLOCK FALSE
INVARIANT PopAssertions
