CONSTANTS
  b1 = b1
  b2 = b2
  m1 = m1
  m2 = m2
  p1 = p1
  p2 = p2
  i1 = i1
  i2 = i2
  None = None
  Bridges = {b1, b2}
  Msgs = {m1, m2}
  Payloads = {p1, p2}
  PayloadOf <- TwoPayloads
  Malformed = {p2}
  Mids = {i1, i2}
  MidsOf <- AnyMid
  MaxDeliveries = 3
  MaxEpoch = 3
  MaxFaults <- AnyOnce
SPECIFICATION ScenarioSpec
CHECK_DEADLOCK FALSE
INVARIANTS IInv AckAfterStore ReleasedIsStored TablesAgree
PROPERTIES OneBridgeIsLedger NoRepeats
