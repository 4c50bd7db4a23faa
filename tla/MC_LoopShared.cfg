SPECIFICATION Spec
CONSTANTS
  Runs = {r1, r2}
  Ops = {o1}
  Commands = {"cli_abort", "cli_force", "ui_pause", "ui_resume"}
  OperatorReasons = {"user_kill"}
  Plans <- OnePlan
  Lower <- LowerCased
  HardCap = 1
  MaxCost = 0
  MaxStoreFaults = 1
INVARIANTS RowClassified SettledRowIsTerminal
CHECK_DEADLOCK FALSE
SYMMETRY RunSymmetry
