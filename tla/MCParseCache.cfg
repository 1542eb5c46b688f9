CONSTANTS
    Sources = {s1, s2, s3, s4, s5, s6}
    None = None

SPECIFICATION Spec

INVARIANTS
    ClosureSeesItsParse
    ParsesPerFile
    OneTokenBuffer

PROPERTIES
    ImplementsParseService
