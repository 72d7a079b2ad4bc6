SPECIFICATION FairSpec
CONSTANTS
  Tenants = {t1}
  Calls = {c1, c2}
  Bodies = {run, free}
  Billable = {run}
  Faults = {"balance_error", "slow", "lose", "disconnect", "crash"}
  MaxDebt = 1
  MaxFunds = 1
INVARIANTS
  TypeOK
  BilledAsAnswered
  NoStrayPosts
  OverdraftBound
PROPERTIES
  ImplementsSettlement
  SuspensionDrains
  EveryCallEnds
  SuspensionQuiesces
