----------------------------- MODULE BundleRun -----------------------------
(***************************************************************************)
(* check_all_bundle (crates/shirobai-core/src/rules/bundle.rs): one run    *)
(* over one source under one bundle config, as a user of the parse cache.  *)
(* Every access to the syntax tree, the comments or the tokens is a call   *)
(* of ParseCache; what a slot holds is represented by the source it was    *)
(* computed from, None standing for the empty default.                     *)
(*                                                                         *)
(* The run goes through the stages                                         *)
(*     tokens   the token stream of the token cops                         *)
(*     ascii    Naming/AsciiIdentifiers                                    *)
(*     build    the rules of the shared walk; some read the comments       *)
(*     walk     dispatch::run, all rules over one tree                     *)
(*     finish   the cops off the shared walk, and rules finalized with a   *)
(*              further read of the cache                                  *)
(* Between runs the wrappers' standalone entry points use the same cache.  *)
(* A plugin origin that is awake is a slot of the mask.                    *)
(***************************************************************************)
EXTENDS ParseCache

CONSTANTS
    Slots,        \* what a run can compute
    GroupOf,      \* core_slot::GROUPS: the slots computed together with a slot
    Switches,     \* the slots that also have an enable flag of their own
    TokenSlots,   \* the cops that read the token stream
    Ascii,        \* the slot of Naming/AsciiIdentifiers
    Walked,       \* the slots of the rules on the shared walk
    Readers,      \* those whose build_rule reads the comments from the cache
    Finalized,    \* those finalized after the walk with a read of the cache
    ParsedFor,    \* the sources for which a slot's answer needs the parse
    Panicked      \* no result: the extension raised

VARIABLES
    run,          \* None, or the run in progress
    result        \* what the last run gave

bundleVars == <<cache, spare, closure, visit, allocated, run, result>>

Packed == [mask : SUBSET Slots, switches : SUBSET Switches]
Stages == {"tokens", "ascii", "build", "walk", "finish"}
Filled == [Slots -> Sources \cup {None}]
Runs ==
    [source   : Sources, packed : Packed, stage : Stages,
     todo     : SUBSET Slots,               \* the calls the stage still has to make
     at       : Slots \cup {None},          \* the slot the open call is for
     streams  : Buffers \cup {None},        \* bundle_tokens
     comments : SUBSET Slots,               \* the rules that hold their comments
     slots    : Filled,
     parses   : Nat]                        \* history: parses made by this run
Results == [source : Sources, packed : Packed, slots : Filled]

ASSUME SlotsAssumption ==
    /\ GroupOf \in [Slots -> SUBSET Slots]
    /\ \A k \in Slots : k \in GroupOf[k] /\ \A j \in GroupOf[k] : GroupOf[j] = GroupOf[k]
    /\ Switches \subseteq Slots
    /\ \A k \in Switches : GroupOf[k] = {k}
    /\ Ascii \in Slots \ (TokenSlots \cup Walked)
    /\ GroupOf[Ascii] = {Ascii}
    /\ TokenSlots \subseteq Slots \ Walked
    /\ Walked \subseteq Slots
    /\ Readers \subseteq Walked
    /\ Finalized \subseteq Walked \ Readers
    /\ \A k \in Slots : \A j \in GroupOf[k] : (k \in Walked <=> j \in Walked)
    /\ \A k \in TokenSlots : GroupOf[k] = {k}
    /\ \A k \in Finalized : GroupOf[k] \subseteq Finalized
    /\ ParsedFor \in [Slots -> SUBSET Sources]
    /\ \A k \in TokenSlots \cup (Walked \ Finalized) : ParsedFor[k] = Sources

ASSUME RunNoneAssumption ==
    /\ None \notin Runs
    /\ None \notin Slots
    /\ None \notin Results \cup {Panicked}
    /\ Panicked \notin Results

-----------------------------------------------------------------------------

\* Mutant of On: each slot of a shared rule is gated alone.
OnAlone(p, k) == k \in p.mask /\ (k \in Switches => k \in p.switches)

\* slot_on, any_slot_on and the older enable flags: a rule that fills several
\* slots runs when any of them is on.
On(p, k) == GroupOf[k] \cap p.mask # {} /\ (k \in Switches => k \in p.switches)

OnSlots(p) == {k \in Slots : On(p, k)}

\* The rules pushed onto the walk.  EmptyLines leaves its rule out when a byte
\* scan already shows that there can be no offense.
Rules(r) == {k \in Walked \cap OnSlots(r.packed) : r.source \in ParsedFor[k]}

\* Mutant: the rules fetch their comments when they first need them.
LazyPrefetches(r) == {}

\* The rules whose build_rule collects the comments up front.
Prefetches(r) == Readers \cap Rules(r)

\* The calls left to make after the walk.
Off(r) == OnSlots(r.packed) \ ((Walked \ Finalized) \cup {Ascii})

Todo(r, stage) ==
    CASE stage = "build"  -> Prefetches(r)
      [] stage = "finish" -> Off(r)
      [] OTHER            -> {}

\* Mutant: AsciiIdentifiers is computed with the other cops off the walk.
AsciiLate(stage) ==
    CASE stage = "tokens" -> "build" [] stage = "build" -> "walk"
      [] stage = "walk"   -> "ascii" [] stage = "ascii" -> "finish"

\* The order of the stages: both token consumers come before every rule.
After(stage) ==
    CASE stage = "tokens" -> "ascii" [] stage = "ascii" -> "build"
      [] stage = "build"  -> "walk"  [] stage = "walk"  -> "finish"

Proceed(r) == [r EXCEPT !.stage = After(r.stage), !.todo = Todo(r, After(r.stage)), !.at = None]

\* The values of the slots in `ks`, all computed from `v`.
Fill(r, ks, v) == [k \in Slots |-> IF k \in ks THEN v ELSE r.slots[k]]

\* A call was opened: did it parse?
Opened(r, k) == [r EXCEPT !.at = k, !.parses = @ + (IF cache' = cache THEN 0 ELSE 1)]

BundleInit ==
    /\ Init
    /\ run = None
    /\ result = None

\* check_all_bundle is called.
CheckAll(s, p) ==
    /\ run = None /\ closure = None
    /\ run' = [source |-> s, packed |-> p, stage |-> "tokens", todo |-> {}, at |-> None,
               streams |-> None, comments |-> {}, slots |-> [k \in Slots |-> None],
               parses |-> 0]
    /\ result' = None
    /\ UNCHANGED vars

At(stage) == run # None /\ run.stage = stage

\* The token-cop gate.
Collecting(p) == TokenSlots \cap OnSlots(p) # {}

CollectTokens ==
    /\ At("tokens") /\ Collecting(run.packed)
    /\ WithParsedAndTokens(run.source)
    /\ run' = Opened(run, None)
    /\ UNCHANGED result

Streams == cache.tokens

TokensCollected ==
    /\ At("tokens") /\ closure # None
    /\ Return
    /\ run' = Proceed([run EXCEPT !.streams = Streams])
    /\ UNCHANGED result

NoTokenCop ==
    /\ At("tokens") /\ ~Collecting(run.packed)
    /\ run' = Proceed(run)
    /\ UNCHANGED <<vars, result>>

\* check_ascii_identifiers: an all-ASCII source is answered without a lex.
Lexes(r) == On(r.packed, Ascii) /\ r.source \in ParsedFor[Ascii]

LexIdentifiers ==
    /\ At("ascii") /\ Lexes(run)
    /\ WithParsedAndTokens(run.source)
    /\ run' = Opened(run, Ascii)
    /\ UNCHANGED result

IdentifiersLexed ==
    /\ At("ascii") /\ closure # None
    /\ Return
    /\ run' = Proceed([run EXCEPT !.slots = Fill(run, {Ascii}, cache.owner)])
    /\ UNCHANGED result

NoLex ==
    /\ At("ascii") /\ ~Lexes(run)
    /\ run' = Proceed(IF On(run.packed, Ascii)
                      THEN [run EXCEPT !.slots = Fill(run, {Ascii}, run.source)]
                      ELSE run)
    /\ UNCHANGED <<vars, result>>

\* build_rule of one rule reads the comment ranges.
BuildRule(k) ==
    /\ At("build") /\ k \in run.todo
    /\ WithSharedParse(run.source)
    /\ run' = Opened(run, k)
    /\ UNCHANGED result

RuleBuilt ==
    /\ At("build") /\ closure # None
    /\ Return
    /\ run' = [run EXCEPT !.comments = @ \cup {run.at}, !.todo = @ \ {run.at}, !.at = None]
    /\ UNCHANGED result

\* Every rule is there.
AllBuilt ==
    /\ At("build") /\ run.todo = {} /\ closure = None
    /\ run' = Proceed(run)
    /\ UNCHANGED <<vars, result>>

StartWalk ==
    /\ At("walk")
    /\ WithSharedParse(run.source)
    /\ run' = Opened(run, None)
    /\ UNCHANGED result

\* The walk visits the tree and leaves; the rules' slots are read back.  A rule
\* without its comments has to ask the borrowed cache for them.
Walk ==
    /\ At("walk") /\ closure # None
    /\ IF Readers \cap Rules(run) \subseteq run.comments
       THEN /\ Return
            /\ run' = Proceed([run EXCEPT !.slots = Fill(run, Rules(run) \ Finalized, cache.owner)])
            /\ UNCHANGED result
       ELSE /\ NestedCall(run.source)
            /\ run' = None
            /\ result' = Panicked

\* A cop off the walk: a walk of its own, a comment scan, or the finalizing
\* step of a rule.
OpenCop(k) ==
    /\ At("finish") /\ k \in run.todo /\ run.source \in ParsedFor[k]
    /\ WithSharedParse(run.source)
    /\ run' = Opened(run, k)
    /\ UNCHANGED result

\* A token cop combines the tree with the streams collected first.
Combined(k) ==
    IF k \in TokenSlots /\ run.streams # <<cache.owner>> THEN None ELSE cache.owner

CopDone ==
    /\ At("finish") /\ closure # None
    /\ Return
    /\ run' = [run EXCEPT !.slots = Fill(run, GroupOf[run.at], Combined(run.at)),
                          !.todo = @ \ GroupOf[run.at], !.at = None]
    /\ UNCHANGED result

\* A cop that needs the bytes alone.
ScanBytes(k) ==
    /\ At("finish") /\ k \in run.todo /\ run.source \notin ParsedFor[k] /\ closure = None
    /\ run' = [run EXCEPT !.slots = Fill(run, GroupOf[k], run.source),
                          !.todo = @ \ GroupOf[k]]
    /\ UNCHANGED <<vars, result>>

\* BundleResult goes back to check_all.
Finish ==
    /\ At("finish") /\ run.todo = {} /\ closure = None
    /\ result' = [source |-> run.source, packed |-> run.packed, slots |-> run.slots]
    /\ run' = None
    /\ UNCHANGED vars

\* A standalone entry point, between two runs.
Standalone(s) ==
    /\ run = None
    /\ WithSharedParse(s) \/ WithParsedAndTokens(s)
    /\ UNCHANGED <<run, result>>

StandaloneReturns ==
    /\ run = None
    /\ Return
    /\ UNCHANGED <<run, result>>

\* What the running call itself does next.
RunStep ==
    \/ CollectTokens \/ TokensCollected \/ NoTokenCop
    \/ LexIdentifiers \/ IdentifiersLexed \/ NoLex
    \/ RuleBuilt \/ AllBuilt
    \/ StartWalk \/ Walk
    \/ \E k \in Slots : BuildRule(k) \/ OpenCop(k) \/ ScanBytes(k)
    \/ CopDone \/ Finish

BundleNext ==
    \/ \E s \in Sources, p \in Packed : CheckAll(s, p)
    \/ RunStep
    \/ \E s \in Sources : Standalone(s)
    \/ StandaloneReturns

BundleSpec == BundleInit /\ [][BundleNext]_bundleVars

-----------------------------------------------------------------------------

\* Every variable of the run has its type.
RunTypeOK ==
    /\ run \in Runs \cup {None}
    /\ result \in Results \cup {None, Panicked}

\* "Every later with_parsed on this file reuses it with no re-parse": whatever
\* the cache held before, a run parses its source at most once, however many
\* cops read tokens, comments and tree.
OneParsePerRun == run # None => run.parses <= 1

\* "Re-borrowing the parse cache mid-walk would panic": no rule does.
NoReentry == result # Panicked

\* A run fills exactly the slots that are on, all slots of a group together,
\* each from its own source: what the cop's standalone entry point computes.
SlotsAreStandalone ==
    result \notin {None, Panicked} =>
        \A k \in Slots :
            LET p == result.packed
                asked == GroupOf[k] \cap p.mask # {} /\ (k \in Switches => k \in p.switches)
            IN  result.slots[k] = IF asked THEN result.source ELSE None

=============================================================================
