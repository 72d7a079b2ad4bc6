SPECIFICATION Spec
CONSTANTS
  Tenants = {t1, t2}
  Sessions = {s1, s2}
  Messages = {m1, m2}
  Handlers = {h1, h2}
  Faults = {"error", "disconnect"}
  NoRow = NoRow
  NoOp = NoOp
  MaxStall = 1
  MaxTime = 3
SYMMETRY Alike
INVARIANTS
  TypeOK
  InOwnSession
  DatedByMessages
PROPERTY ReadsWholeSession
