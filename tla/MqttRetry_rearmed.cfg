CONSTANTS
  b1 = b1
  b2 = b2
  m1 = m1
  m2 = m2
  p1 = p1
  p2 = p2
  i1 = i1
  i2 = i2
  None = None
  Bridges = {b1}
  Msgs = {m1}
  Payloads = {p1, p2}
  PayloadOf <- OnePayload
  Malformed = {p2}
  Mids = {i1, i2}
  MidsOf <- SharedMid
  MaxDeliveries = 3
  MaxEpoch = 2
  MaxFaults <- TwoDrops
SPECIFICATION FairSpec
CHECK_DEADLOCK FALSE
PROPERTY PublishedIsReleased
