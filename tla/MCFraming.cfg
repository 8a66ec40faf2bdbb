SPECIFICATION Spec
CONSTANTS
  Payloads <- MCPayloads
  MaxPackets = 3
  Chunk = 4
CHECK_DEADLOCK FALSE
INVARIANTS
  TypeOK
  DeliveredAsSent
PROPERTY AllDelivered
