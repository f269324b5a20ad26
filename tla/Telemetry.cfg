CONSTANTS
  Duration = 1
  MergeGap = 1
  NoEvent = NoEvent
  None = None
  Devices = {1, 2}
  Packets <- SentPackets
  Reports <- SentReports
  Times = {1, 2, 3, 4, 5, 6}
  MaxRecords = 3
  MqttKeys = {k1}
  MaxRequests = 6
  MaxRare = 1
SPECIFICATION TelemetrySpec
CHECK_DEADLOCK FALSE
INVARIANTS StoreConsistent EventsHold
PROPERTIES FaultsAreRespected
