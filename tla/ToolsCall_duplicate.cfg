SPECIFICATION Spec
CONSTANTS
  Tenants = {t1}
  Calls = {c1, c2}
  Bodies = {run}
  Billable = {run}
  Faults = {}
  MaxDebt = 1
  MaxFunds = 2
INVARIANT DuplicatePostChargedOnce
