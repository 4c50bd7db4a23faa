\* Two agent calls of three turns; the budget is reached by two dear responses.
CONSTANTS
    Replies <- MC_Replies
    Costs = {2}
    None = None
    MaxTurns = 3
    MaxBudget = 3
    RepeatLimit = 1
    MaxAttempts = 2
    BackendUp = {"read_file", "query_loki"}
    MaxInvocations = 2
SPECIFICATION Spec
INVARIANTS SpendAttributed CallBudget ConversationComplete NoRunawayLoop AuditComplete
PROPERTIES CallEnds
CHECK_DEADLOCK FALSE
