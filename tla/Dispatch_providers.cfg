SPECIFICATION DispatchSpec
CONSTANTS
  Tenants = {t1, t2}
  Ids = {p1, p2}
  Handlers = {h1, h2}
  Stores = {"memory", "postgres"}
  Faults = {"error", "crash"}
  NoRow = NoRow
  NoOp = NoOp
  None = None
  Customers = {t1}
  Editors = {e1}
  Combs = {}
  Named = p1
  Floor = "private"
  Requests <- OneRequest
  Absent = Absent
  Dispatchers = {d1}
  Secrets = {None, k1}
  Unsupported = {p2}
SYMMETRY Alike
INVARIANTS
  WellTyped
  KeepsADefault
  QueenIsOwn
PROPERTIES
  ImplementsRegistry
  TouchesOwnOnly
  QueenMissingForCause
