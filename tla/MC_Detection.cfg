\* Two queries per probe at baseline, up to two probes or five scans, two
\* changes of the scanned artefacts.
SPECIFICATION Spec
CONSTANTS
    Setups <- MCSetups
    Answers <- MCAnswers
    RunCount = 2
    Versions = {"v1", "v2", "v3"}
    Vulnerable = {"v2"}
    Unsigned = {"v2"}
    OddlyNamed = {"v3"}
    Packages <- MCPackages
    MaxChanges = 2
    NaN = NaN
    None = None
INVARIANTS SteadyIsWitnessed ShiftCaught DriftExplained FindingIsNew
CHECK_DEADLOCK FALSE
