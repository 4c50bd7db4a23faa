SPECIFICATION Spec
CONSTANTS
  Plugins <- SomePlugins
  MaxRegistered = 4
INVARIANTS Unwound ReverseOrder ScopesPaired AuditTrail
CHECK_DEADLOCK FALSE
