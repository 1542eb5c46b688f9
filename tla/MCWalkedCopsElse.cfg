CONSTANTS
    abcSize = abcSize
    emptyLines = emptyLines
    indentationWidth = indentationWidth
    blockNesting = blockNesting
    hashSyntax = hashSyntax
    rescueEnsure = rescueEnsure
    Shapes <- UnlessElses
    ClassOf <- MCClassOf
    Rules <- MCRules
    Mask <- MCMask
    Reports <- MCReports
    Frames <- MCFrames
    MaxNesting = 1
    MaxHelpers = 1

SPECIFICATION CopsSpec

CHECK_DEADLOCK FALSE

INVARIANT EveryElseBody
