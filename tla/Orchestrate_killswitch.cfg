SPECIFICATION Spec
CONSTANTS
  Tenants = {t1}
  Tenant = t1
  DEFAULT_MAX_ITERATIONS = 1
  HARD_MAX_ITERATIONS = 1
  NoCap = NoCap
  RequestedCaps = {NoCap}
  Named = {"run_subagent"}
  MaxCalls = 2
PROPERTY KillSwitchStopsTools
