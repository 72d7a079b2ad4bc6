SPECIFICATION DispatchSpec
CONSTANTS
  Tenants = {t1}
  Ids = {p1}
  Handlers = {h1}
  Stores = {"postgres"}
  Faults = {"crash"}
  NoRow = NoRow
  NoOp = NoOp
  None = None
  Customers = {t1}
  Editors = {e1}
  Combs = {}
  Named = None
  Floor = "sensitive"
  Requests <- OneRequest
  Absent = Absent
  Dispatchers = {d1}
  Secrets = {None}
  Unsupported = {}
PROPERTY DispatchUsesStored
