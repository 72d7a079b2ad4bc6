SPECIFICATION FairSpec
CONSTANTS
  Tenants = {t1}
  Editors = {h1, h2}
  Combs = {c1, c2}
  QueenComb = c1
  Requests <- ThreeRequests
  Stores = {"memory", "postgres"}
  Faults = {"error", "disconnect", "crash"}
  MaxLate = 1
  Absent = Absent
  NoOp = NoOp
  None = None
INVARIANTS
  TypeOK
  CopyFollowsRow
  CombsAgree
PROPERTY ReadsRepair
