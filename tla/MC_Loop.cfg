SPECIFICATION Spec
CONSTANTS
  Runs = {r1}
  Ops = {o1, o2}
  Commands = {"cli_pause", "cli_resume", "cli_abort", "ui_pause", "ui_resume", "ui_abort"}
  OperatorReasons = {"user_kill"}
  Plans <- GatePlans
  Lower <- LowerCased
  HardCap = 2
  MaxCost = 1
  MaxStoreFaults = 0
INVARIANTS GatedInjection SpendBounded OutcomePersisted
PROPERTIES TerminalIsFinal ImplementsLifecycle AbortHonoured OnlyPauseHolds
CHECK_DEADLOCK FALSE
