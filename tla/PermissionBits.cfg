SPECIFICATION CalculationSpec
CONSTANTS
  RoleCount = 3
  Inputs <- MCInputs
INVARIANTS PlanExact NoNeedlessRefusal ComparisonsExact
CHECK_DEADLOCK FALSE
