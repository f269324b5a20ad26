CONSTANTS
  Scopes = {here, there}
  Identity = here
  HistoryLimit = 2
  MaxCommands = 3
  MaxRemaps = 1
  MaxMishaps = 2
  NoCommand = NoCommand
  Corrupt = Corrupt
  Units = {unit}
  Manuals = {manual}
  Stores = 2
  Space = 1
  MaxWrites = 1
  MaxSetbacks = 2
  NoOne = NoOne
  Nothing = Nothing
  Decayed = Decayed
  RequestIds = {r1, r2}
  FrameIds = {1, 2}
  Places = {here, there}
  Home = here
  Life = 2
  Retention = 1
  Slots = 2
  Capacity = 2
  PageSize = 1
  Horizon = 3
  MaxCaptures = 2
  MaxMoves = 1
  MaxTroubles = 1
  Nobody = Nobody
  Done = Done
  Requests = {q1, q2}
  w1 = w1
  w2 = w2
  modelA = modelA
  modelB = modelB
  Unset = Unset
  Windows = {1, 2}
  Valid = {1, 2}
  Preparable = {1}
  Bindings = {modelA, modelB}
  Workers = {w1, w2}
  MaxAttempts = 3
  MaxFailures <- AllOnce
  Models = {m1, m2}
  NoModel = NoModel
  Contents = {c1, c2}
  Length = 2
  MaxIndex = 3
  MaxRows = 2
  MaxAccepted = 3
  MaxRestarts = 1
  Absent = Absent
  RingSlots = 3
  AckBatch = 2
  Turn = 2
  LastNumber = 3
  MaxFlaws = 1
  Blank = Blank
SPECIFICATION ProcessesSpec
CHECK_DEADLOCK FALSE
INVARIANTS DeviceHolds JobsHold BackupsHold RequestsHold UploadsHold ServerHolds
PROPERTIES ImplementsInbox DecisionsStand
