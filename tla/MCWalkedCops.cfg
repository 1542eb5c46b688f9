CONSTANTS
    abcSize = abcSize
    emptyLines = emptyLines
    indentationWidth = indentationWidth
    blockNesting = blockNesting
    hashSyntax = hashSyntax
    rescueEnsure = rescueEnsure
    Shapes <- MCShapes
    ClassOf <- MCClassOf
    Rules <- MCRules
    Mask <- MCMask
    Reports <- MCReports
    Frames <- MCFrames
    MaxNesting = 1
    MaxHelpers = 1

SPECIFICATION CopsSpec

CHECK_DEADLOCK FALSE

INVARIANTS
    CopsTypeOK
    ReportsAsAlone
    FramesAreAncestors
    NestingAsStock
    AccessAsStock
    SelfAsStock
    MethodsAsStock
    ScopesAsStock
    LinesAsStock
    CorrectsAsStock
    OffensesAsHistory
