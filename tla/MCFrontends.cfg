SPECIFICATION Spec
CONSTANTS
    Clients = {c1, c2}
    MaxSteps = 3
    MaxCalls = 2
    MaxPage = 3
SYMMETRY Symmetry
INVARIANTS AllOrRefused FinalSnapshotHolds ScriptReports
