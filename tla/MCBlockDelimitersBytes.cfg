CONSTANTS
    loop = loop
    expect = expect
    None = None
    MCLeads = {0, 1}
    Names = {loop, expect}
    Sources <- MCSources
    PatternSets <- MCPatternSets

SPECIFICATION Spec

INVARIANTS
    SameOffenses
