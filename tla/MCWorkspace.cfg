CONSTANTS
    Plan = {a, b, c}
    Outside = {x}
    Proc = {p1, p2}
    Version = {v1, v2}
    None = None

    NoTarget = None
    Package = {"bin", "sdk", "idl"}
    RuleSets <- MCRuleSets
SPECIFICATION MCSpec
SYMMETRY MCSymmetry
INVARIANTS DeployIInv AgreesWithAffected LocalRunIInv CallersFollow
PROPERTIES DependenciesFirst FinishedMeansRunning
CHECK_DEADLOCK FALSE
