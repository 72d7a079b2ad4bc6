SPECIFICATION FairSpec
CONSTANTS
  Ids = {s1, s2}
  Crons = {{1}, {2}}
  Tasks = {"prompt"}
  Editors = {e1}
  Changes <- SomeChanges
  Keep = Keep
  NoRow = NoRow
  Nobody = Nobody
  SelectLimit = 1
  Faults = {"db_error", "crash"}
  MaxBehind = 1
  MaxAhead = 0
  MaxTime = 2
INVARIANT TypeOK
PROPERTIES
  ClaimsFollowCron
  DisabledComesToRest
  DueIsSelected
