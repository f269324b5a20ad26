CONSTANTS
  b1 = b1
  b2 = b2
  m1 = m1
  m2 = m2
  p1 = p1
  p2 = p2
  i1 = i1
  i2 = i2
  None = None
  Bridges = {b1}
  Msgs = {m1}
  Payloads = {p1, p2}
  PayloadOf <- OnePayload
  Malformed = {p2}
  Mids = {i1, i2}
  MidsOf <- SharedMid
  MaxDeliveries = 2
  MaxEpoch = 3
  MaxFaults <- Outages
  Scopes = {here, there}
  Identity = here
  HistoryLimit = 2
  MaxCommands = 2
  MaxRemaps = 1
  MaxMishaps = 1
  NoCommand = NoCommand
  Corrupt = Corrupt
  Units = {unit}
  Manuals = {manual}
  Stores = 1
  Space = 1
  MaxWrites = 0
  MaxSetbacks = 1
  NoOne = NoOne
  Nothing = Nothing
  Decayed = Decayed
  RequestIds = {r1}
  FrameIds = {1, 2}
  Places = {here, there}
  Home = here
  Life = 1
  Retention = 1
  Slots = 2
  Capacity = 2
  PageSize = 1
  Horizon = 2
  MaxCaptures = 2
  MaxMoves = 1
  MaxTroubles = 1
  Nobody = Nobody
  Done = Done
  Requests = {q1}
  w1 = w1
  w2 = w2
  modelA = modelA
  modelB = modelB
  Unset = Unset
  Windows = {1}
  Valid = {1}
  Preparable = {1}
  Bindings = {modelA, modelB}
  Workers = {w1, w2}
  MaxAttempts = 3
  MaxFailures <- AllOnce
  Models = {n1, n2}
  NoModel = NoModel
  Contents = {c1, c2}
  Length = 2
  MaxIndex = 3
  MaxRows = 2
  MaxAccepted = 3
  MaxRestarts = 1
  Absent = Absent
  RingSlots = 3
  AckBatch = 2
  Turn = 2
  LastNumber = 2
  MaxFlaws = 1
  Blank = Blank
SPECIFICATION LivenessSpec
CHECK_DEADLOCK FALSE
PROPERTIES PublishedIsReleased RowsDrain ConfigSettles ReceivedIsDecided ProcessesGoOn
