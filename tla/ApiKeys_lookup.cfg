SPECIFICATION Spec
CONSTANTS
  Tenants = {t1, t2}
  Keys = {k1, k2, k3}
  Handlers = {h1, h2}
  Stores = {"memory", "postgres"}
  Faults = {"error", "disconnect", "crash"}
  NoKey = NoKey
  NoJob = NoJob
SYMMETRY Interchangeable
INVARIANTS
  TypeOK
  RejectedForCause
  TenantsReachable
PROPERTY RevocationDrains
