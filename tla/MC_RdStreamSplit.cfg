CONSTANTS
  Payloads <- MCPayloads
  HdrLen = 4
  SockBuf = 5
  MaxPayload = 1
SPECIFICATION Spec
INVARIANT LengthReadWhole
