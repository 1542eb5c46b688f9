CONSTANTS
    operators = operators
    ascii = ascii
    comma = comma
    semicolon = semicolon
    emptyLines = emptyLines
    debugger = debugger
    unicode = unicode
    blank = blank
    None = None
    Panicked = Panicked
    Sources = {unicode, blank}
    Slots <- MCSlots
    GroupOf <- MCGroupOf
    Switches <- MCSwitches
    TokenSlots = {operators}
    Ascii = ascii
    Walked <- MCWalked
    Readers = {comma, semicolon}
    Finalized = {emptyLines}
    ParsedFor <- MCParsedFor

SPECIFICATION BundleSpec

INVARIANTS
    OneParsePerRun
    NoReentry
    SlotsAreStandalone
