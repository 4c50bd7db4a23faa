SPECIFICATION Spec
CONSTANTS
  PlanFaults <- OneFault
  Kinds <- TwoKinds
  KindOf <- KindOfOne
  Hooks = {"workload"}
  MaxApiErrors = 0
INVARIANT FailureLeavesNothing
CHECK_DEADLOCK FALSE
