\* Two configs whose files alternate; no plugin gem.
CONSTANTS
    c1 = c1
    c2 = c2
    comma = comma
    semicolon = semicolon
    operators = operators
    letSetup = letSetup
    rspec = rspec
    detect = detect
    performance = performance
    None = None
    Configs = {c1, c2}
    Contents = {x, y}
    Cells = {p, q, r}
    CoreKeys = {comma, semicolon, operators}
    PluginKeys = {}
    Plugins = {}
    Gated = {}
    OwnSwitch = {operators}
    OriginOf <- MCOriginOf
    GroupOf <- MCGroupOf
    Enabled <- MCEnabled
    SwitchedOff <- MCSwitchedOff

SPECIFICATION Spec

SYMMETRY CellSymmetry

INVARIANTS
    TokenNamesItsConfig
    ForcedOncePerConfig
    OneRunPerInvestigation
    NoEntryTwice

PROPERTIES
    ImplementsStandaloneCops
