\* One config; a plugin gem for every file, another for spec files only.
CONSTANTS
    c1 = c1
    c2 = c2
    comma = comma
    semicolon = semicolon
    operators = operators
    letSetup = letSetup
    rspec = rspec
    detect = detect
    performance = performance
    None = None
    Configs = {c1}
    Contents = {x, y}
    Cells = {p, q, r}
    CoreKeys = {comma, operators}
    PluginKeys = {letSetup, detect}
    Plugins = {rspec, performance}
    Gated = {rspec}
    OwnSwitch = {operators}
    OriginOf <- MCOriginOf
    GroupOf <- MCGroupOf
    Enabled <- MCEnabled
    SwitchedOff <- MCSwitchedOff

SPECIFICATION Spec

SYMMETRY CellSymmetry

INVARIANTS
    TypeOK
    TokenNamesItsConfig
    CachedMaskIsCurrent
    FallbackFollowsTheGate

PROPERTIES
    ImplementsStandaloneCops
