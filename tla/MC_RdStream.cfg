CONSTANTS
  Payloads <- MCPayloads
  HdrLen = 4
  SockBuf = 8
  MaxPayload = 2
SPECIFICATION Spec
INVARIANTS TypeOK WrittenFramesHanded
PROPERTIES ImplementsFrameFifo FramesHanded
