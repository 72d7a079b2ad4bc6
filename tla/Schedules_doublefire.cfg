SPECIFICATION Spec
CONSTANTS
  Ids = {s1}
  Crons = {{1, 4}}
  Tasks = {"prompt"}
  Editors = {e1}
  Changes <- AllChanges
  Keep = Keep
  NoRow = NoRow
  Nobody = Nobody
  SelectLimit = 1
  Faults = {}
  MaxBehind = 0
  MaxAhead = 0
  MaxTime = 3
PROPERTY NoDoubleFire
