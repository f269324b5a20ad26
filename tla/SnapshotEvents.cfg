CONSTANTS
  modelA = modelA
  modelB = modelB
  None = None
  Windows = {1, 2, 3}
  Valid = {1, 2, 3}
  Anomalous = {1, 3}
  Bindings = {modelA, modelB}
  MaxIncidents = 10
  MaxRare = 2
  MaxTransitionAge = 1
  MaxReportAge = 2
  Modes = {"shadow", "events"}
SYMMETRY Symmetry
SPECIFICATION EventsSpec
CHECK_DEADLOCK FALSE
INVARIANTS IncidentsHold ViewHolds
PROPERTIES ReviewKept
