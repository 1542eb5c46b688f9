------------------------- MODULE MCBlockDelimiters -------------------------
(***************************************************************************)
(* BlockDelimiters on five small programs, every one with every set of its *)
(* blocks disabled:                                                        *)
(*     nested    outer do inner do end end                                 *)
(*     bound     puts outer { inner { } }   the argument's block is ignored*)
(*     chained   puts receiver {}.map {} , its receiver's block too        *)
(*     siblings  first {} ; second {} , one of them proper                 *)
(*     single    a block where the outer one of nested was                 *)
(***************************************************************************)
EXTENDS BlockDelimiters

CONSTANTS loop, expect    \* method names
CONSTANT  MCLeads         \* bytes more than characters ahead of the code

Block(s, e, name, style, inner) ==
    [range |-> <<s, e>>, name |-> name, block |-> style, inner |-> inner, binds |-> {}]
Puts(e, args) ==
    [range |-> <<0, e>>, name |-> loop, block |-> "none", inner |-> args, binds |-> args]

nested   == <<Block(0, 6, loop, "improper", {}), Block(2, 5, expect, "improper", {})>>
bound    == <<Puts(6, {2}), Block(1, 6, loop, "improper", {}), Block(2, 5, loop, "improper", {})>>
plain    == [Puts(5, {3}) EXCEPT !.range = <<1, 5>>, !.binds = {}]
chained  == <<Puts(5, {2}), plain, Block(2, 5, expect, "proper", {})>>
siblings == <<Block(0, 2, expect, "improper", {}), Block(3, 6, loop, "improper", {}),
              Block(4, 5, loop, "proper", {})>>
single   == <<Block(0, 5, loop, "improper", {})>>

Blocks(calls) == {calls[i].range : i \in {j \in DOMAIN calls : calls[j].block = "improper"}}

MCSources ==
    UNION {[calls : {calls}, disabled : SUBSET Blocks(calls), lead : MCLeads]
               : calls \in {nested, bound, chained, siblings, single}}
MCPatternSets == {{}, {expect}}
=============================================================================
