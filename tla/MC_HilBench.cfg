SPECIFICATION Spec
CONSTANTS
  Plans <- BenchPlans
  licensed_bands <- Bands
  MaxActiveFaults = 2
  MaxDuration = 1
  MaxRuns = 4
  MaxLate = 2
  MaxFlips = 1
INVARIANTS HoldsOwnFault SuccessLeavesBenchQuiet OnlyLicensedEmissions
PROPERTIES BenchQuietsDown
CHECK_DEADLOCK FALSE
