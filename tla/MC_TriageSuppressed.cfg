\* Two experiments, two operators adding rules; lists of at most two
\* hypotheses, so that the cuts matter.
SPECIFICATION Spec
CONSTANTS
    Regressions <- MCRegressions
    Scenarios <- MCScenarios
    LlmAnswers <- MCLlmAnswers
    FixAnswers <- MCFixAnswers
    Files <- MCFiles
    Expiries <- MCExpiries
    Denied <- MCDenied
    MaxHypotheses = 2
    MinConfidence = 50
    Operators = {o1, o2}
    None = None
    Naive = Naive
    MaxRuns = 2
    MaxNow = 1
    MaxAdds = 2
SYMMETRY MCSymmetry
INVARIANT FixerUsesActive
CHECK_DEADLOCK FALSE
