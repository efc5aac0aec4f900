SPECIFICATION Spec
CONSTANTS
    Cells = {doc, a, b, c}
    Root = doc
    None = None
    Gone = Gone
    MaxIds = 7
    MaxFragment = 2
    MaxIllegal = 1
SYMMETRY Symmetry
CHECK_DEADLOCK FALSE
INVARIANTS TableCoherent LinksAgree AllNamed NoOverflow
