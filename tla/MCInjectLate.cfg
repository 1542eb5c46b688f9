CONSTANTS
    delimiters = delimiters
    braces = braces
    procs = procs
    finder = finder
    safe = safe
    waiting = waiting
    rubocop = rubocop
    shirobai = shirobai
    rails = rails
    shirobaiRails = shirobaiRails
    capybara = capybara
    root = root
    nested = nested
    k1 = k1
    k2 = k2
    None = None
    Badges = {delimiters, braces, procs, finder, safe, waiting}
    Gems = {rubocop, shirobai, rails, shirobaiRails, capybara}
    Configs = {root, nested}
    TokenKeys = {k1, k2}
    Needs <- MCNeeds
    Adds <- MCAdds
    Wraps <- MCWraps
    Pushes <- MCPushes
    OwnList <- MCOwnList
    EnabledIn <- MCEnabledIn
    Late = {rails, capybara}

SPECIFICATION Spec

INVARIANTS
    PackedRoundSkipsLikeStock
