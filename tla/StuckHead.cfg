CONSTANTS
  RequestIds = {r1}
  FrameIds = {1}
  Places = {here}
  Home = here
  Life = 1
  Retention = 1
  Slots = 1
  Capacity = 2
  PageSize = 1
  Horizon = 3
  MaxCaptures = 1
  MaxMoves = 0
  MaxTroubles = 0
  Nobody = Nobody
  Done = Done
SPECIFICATION WaveformSpec
CHECK_DEADLOCK FALSE
PROPERTY OutboxDrains
