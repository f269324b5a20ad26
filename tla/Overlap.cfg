CONSTANTS
  Units = {unit}
  Manuals = {manual}
  Stores = 2
  Space = 1
  MaxWrites = 1
  MaxSetbacks = 0
  NoOne = NoOne
  Nothing = Nothing
  Decayed = Decayed
SPECIFICATION MaintenanceSpec
CHECK_DEADLOCK FALSE

PROPERTY ResumeSparesOthers
