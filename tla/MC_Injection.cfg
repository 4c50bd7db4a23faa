SPECIFICATION Spec
CONSTANTS
  PlanFaults <- ThreeFaults
  Kinds <- TwoKinds
  KindOf <- KindOfName
  Hooks = {"workload", "guard"}
  MaxApiErrors = 3
INVARIANTS OneFaultAtATime SuccessLeavesNothing LeftoverExplained
PROPERTIES DriveEnds
CHECK_DEADLOCK FALSE
