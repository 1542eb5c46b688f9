------------------------------ MODULE MCInject ------------------------------
(***************************************************************************)
(* Inject with RuboCop's own cops and two plugin gems:                     *)
(*     delimiters   wrapped by shirobai                                    *)
(*     braces       wrapped by shirobai, lists delimiters                  *)
(*     procs        stays stock, lists delimiters and braces               *)
(*     finder       of rails, wrapped by shirobaiRails, lists delimiters   *)
(*     safe         of rails, stays stock, lists finder and braces         *)
(*     waiting      of capybara, which pushes it onto braces and procs     *)
(***************************************************************************)
EXTENDS Inject

CONSTANTS delimiters, braces, procs, finder, safe, waiting,
          rubocop, shirobai, rails, shirobaiRails, capybara,
          root, nested, k1, k2

MCNeeds == [g \in Gems |->
    CASE g = rubocop -> {} [] g = shirobai -> {rubocop} [] g = rails -> {rubocop}
      [] g = capybara -> {rubocop} [] g = shirobaiRails -> {rubocop, shirobai, rails}]
MCAdds == [g \in Gems |->
    CASE g = rubocop -> {delimiters, braces, procs} [] g = rails -> {finder, safe}
      [] g = capybara -> {waiting} [] OTHER -> {}]
MCWraps == [g \in Gems |->
    CASE g = shirobai -> {delimiters, braces} [] g = shirobaiRails -> {finder} [] OTHER -> {}]
MCPushes == [g \in Gems |-> [b \in Badges |->
    IF g = capybara /\ b \in {braces, procs} THEN <<waiting>> ELSE <<>>]]
MCOwnList == [b \in Badges |->
    CASE b \in {braces, finder} -> <<delimiters>> [] b = procs -> <<delimiters, braces>>
      [] b = safe -> <<finder, braces>> [] b = waiting -> <<procs>> [] OTHER -> <<>>]
MCEnabledIn == [c \in Configs |->
    IF c = root THEN {delimiters, braces, procs, finder, waiting}
    ELSE {braces, finder, safe, waiting}]
=============================================================================
