---------------------------- MODULE SuiteCoverage ----------------------------
(***************************************************************************)
(* What a regression suite is (regression/scenario.py): its identity, the  *)
(* problems load_suite refuses it for, and its coverage matrix with the    *)
(* footprints that turn a gap into "na" (coverage.py, relevance.py).       *)
(***************************************************************************)
EXTENDS Sequences, SequencesExt, FiniteSets, FaultCatalogue

\* OracleKind, and _ORACLE_PLUGINS, which leaves one of them out.
OracleKind == {"playwright", "command", "metric", "negative"}
OraclePlugins == OracleKind \ {"negative"}

\* _expand: an id from the title unless the file pins one.
ScenarioId_byFault(scn) == IF "pinned" \in DOMAIN scn THEN scn.pinned ELSE <<"scn", scn.fault.name>>
ScenarioId(scn) == IF "pinned" \in DOMAIN scn THEN scn.pinned ELSE <<"scn", scn.title>>

\* validate_suite over [scenarios, all_journeys]: the titles with a problem.
Problems(suite) ==
    LET scns == suite.scenarios
    IN  {i \in DOMAIN scns :
           \/ \E k \in 1 .. i - 1 : scns[k].title = scns[i].title
           \/ scns[i].fault.name \notin Catalogue
           \/ scns[i].journeys = {}
           \/ suite.all_journeys # {} /\ ~(scns[i].journeys \subseteq suite.all_journeys)}

-----------------------------------------------------------------------------
\* suite_fault_targets: what the suite's scenarios aim a fault at; a label
\* selector stands for its values.
FaultTargets(suite, fault) ==
    UNION {scn.fault.targets : scn \in {s \in ToSet(suite.scenarios) : s.fault.name = fault}}

\* check_footprints raises for a journey the suite does not have.
FootprintError(suite, footprints) == ~(DOMAIN footprints \subseteq suite.all_journeys)

FaultAxis(suite, scope) ==
    IF scope # {} THEN scope
    ELSE {f \in Catalogue : \E s \in ToSet(suite.scenarios) : s.fault.category = CategoryOf(f)}

\* CoverageReporter._cell
Cell_noTargets(suite, footprints, fault, journey) ==
    IF \E s \in ToSet(suite.scenarios) : s.fault.name = fault /\ journey \in s.journeys
    THEN "covered"
    ELSE IF /\ journey \in DOMAIN footprints
            /\ FaultTargets(suite, fault) \intersect footprints[journey] = {}
    THEN "na" ELSE "unknown"
Cell(suite, footprints, fault, journey) ==
    IF \E s \in ToSet(suite.scenarios) : s.fault.name = fault /\ journey \in s.journeys
    THEN "covered"
    ELSE IF /\ journey \in DOMAIN footprints
            /\ FaultTargets(suite, fault) # {}
            /\ FaultTargets(suite, fault) \intersect footprints[journey] = {}
    THEN "na" ELSE "unknown"

\* CoverageReporter.render
Matrix(suite, scope, footprints) ==
    [c \in FaultAxis(suite, scope) \X suite.all_journeys |->
        Cell(suite, footprints, c[1], c[2])]
=============================================================================
