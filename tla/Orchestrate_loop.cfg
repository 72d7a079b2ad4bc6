SPECIFICATION Spec
CONSTANTS
  Tenants = {t1}
  Tenant = t1
  DEFAULT_MAX_ITERATIONS = 2
  HARD_MAX_ITERATIONS = 3
  NoCap = NoCap
  RequestedCaps = {NoCap, 0, 3, 9}
  Named = {"run_subagent", "invented"}
  MaxCalls = 2
INVARIANTS
  TypeOK
  TraceTellsTranscript
  StopReasonIsTrue
PROPERTY ImplementsToolProtocol
