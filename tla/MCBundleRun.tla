---------------------------- MODULE MCBundleRun ----------------------------
(***************************************************************************)
(* BundleRun with one slot of each kind: SpaceAroundOperators (token cop   *)
(* with a flag of its own), AsciiIdentifiers, a group of two punctuation   *)
(* cops that read comments, EmptyLines (prefilter and finalizing step) and *)
(* a plain rule.  Of the two sources one has a non-ASCII byte, the other   *)
(* three newlines in a row.                                                *)
(***************************************************************************)
EXTENDS BundleRun

CONSTANTS operators, ascii, comma, semicolon, emptyLines, debugger,
          unicode, blank

MCSlots == {operators, ascii, comma, semicolon, emptyLines, debugger}
MCGroupOf == [k \in MCSlots |-> IF k \in {comma, semicolon} THEN {comma, semicolon} ELSE {k}]
MCSwitches == {operators, ascii}
MCWalked == {comma, semicolon, emptyLines, debugger}
MCParsedFor == [k \in MCSlots |-> CASE k = ascii -> {unicode}
                                    [] k = emptyLines -> {blank}
                                    [] OTHER -> {unicode, blank}]
=============================================================================
