SPECIFICATION ImportSpec
CONSTANTS
    Symbols = {a, b}
    MaxLabel = 3
    Defects = {"none", "no_open", "no_time"}
    Policies <- SomePolicies
    Units = {1, 2}
    Truths <- SomeTruths
    Declarations <- SomeDeclarations
    Change = 2
    MaxLines = 3
    SampleRows = 1
SYMMETRY SymbolSymmetry
INVARIANTS
    Accounted
    KeptAsDeclared
    DatesNeverSwapped
    NoLookahead
    ScoreTellsBuildable
CHECK_DEADLOCK FALSE
