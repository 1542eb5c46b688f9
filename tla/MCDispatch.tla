----------------------------- MODULE MCDispatch -----------------------------
(***************************************************************************)
(* Dispatch with one config and two plugins, one of them gated             *)
(* (MCDispatchGate.cfg), and with two configs whose files alternate        *)
(* (MCDispatchConfigs.cfg).                                                *)
(***************************************************************************)
EXTENDS Dispatch, TLC

CONSTANTS c1, c2,               \* configs
          comma, semicolon,     \* two core keys of the punctuation group
          operators,            \* SpaceAroundOperators, with a num of its own
          letSetup, rspec,      \* a plugin key and its gated origin
          detect, performance   \* a plugin key and its origin without a gate

MCGroupOf ==
    [k \in CoreKeys |-> IF k = operators THEN {operators} ELSE CoreKeys \ {operators}]

MCOriginOf == [k \in PluginKeys |-> IF k = letSetup THEN rspec ELSE performance]

\* c1 enables one of the two punctuation cops and disables SpaceAroundOperators
\* literally; c2 enables SpaceAroundOperators alone.
MCEnabled == [c \in Configs |-> IF c = c1 THEN {comma} ELSE {operators}]

MCSwitchedOff == [c \in Configs |-> IF c = c1 THEN {operators} ELSE {}]

\* Cells are interchangeable, and so are the contents of the files.
CellSymmetry == Permutations(Cells) \cup Permutations(Contents)

=============================================================================
