CONSTANTS
  modelA = modelA
  email = email
  None = None
  Windows = {1, 2}
  Valid = {1, 2}
  Anomalous = {1}
  Bindings = {modelA}
  Modes = {"events", "alerts"}
  MaxIncidents = 1
  MaxRare = 1
  MaxTransitionAge = 1
  MaxReportAge = 2
  MaxAttempts = 2
  Channels = {email}
SPECIFICATION FairSpec
CHECK_DEADLOCK FALSE
INVARIANTS AlertsHold
PROPERTIES AnnouncedInOrder AlertsGoOn
