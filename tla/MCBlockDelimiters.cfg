CONSTANTS
    loop = loop
    expect = expect
    None = None
    MCLeads = {0}
    Names = {loop, expect}
    Sources <- MCSources
    PatternSets <- MCPatternSets

SPECIFICATION Spec

INVARIANTS
    TypeOK
    SameOffenses
    SameIgnored
    CorrectionsApart
