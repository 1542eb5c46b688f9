--------------------------- MODULE BlockDelimiters ---------------------------
(***************************************************************************)
(* Style/BlockDelimiters, a cop whose verdict on a block depends on the    *)
(* blocks it met before, in this round of an investigation and in earlier  *)
(* ones: crates/shirobai-core/src/rules/block_delimiters.rs records the    *)
(* callbacks of a walk as events and resolves them assuming that every     *)
(* offense is enabled; the wrapper                                         *)
(* lib/shirobai/cop/style/block_delimiters.rb commits that result, or      *)
(* replays the events one by one.  `trace` is a history variable: what the *)
(* stock cop does at the same callbacks.                                   *)
(*                                                                         *)
(* A program is the sequence of its calls in the order they are entered.   *)
(* A range is <<start, end>> in characters; the code keeps byte offsets,   *)
(* `lead` higher when that many more bytes than characters precede them.   *)
(***************************************************************************)
EXTENDS Naturals, Sequences

CONSTANTS
    Sources,       \* the texts an investigation can be given
    PatternSets,   \* the AllowedPatterns a config can have: sets of names
    Names,         \* the method names
    None           \* no text

VARIABLES
    patterns,   \* AllowedPatterns of the cop's config
    ignored,    \* @ignored_ranges, in bytes
    source,     \* the text under investigation
    phase, pos, \* where the round is: the call or event it is at
    events,     \* Visitor.events, in bytes
    resolved,   \* the result of resolve so far
    reported,   \* history: the ranges add_offense was called with
    trace       \* history: the stock cop before the first and after each event

vars == <<patterns, ignored, source, phase, pos, events, resolved, reported, trace>>

Ranges == Nat \X Nat

\* A call, super, yield or lambda: `block` tells whether it has a literal block
\* and whether proper_block_style accepts it; `inner` are its receiver and
\* arguments; `binds` its arguments when a block in them would bind to it:
\* they are not in parentheses, it is no assignment.
Calls == [range : Ranges, name : Names, block : {"none", "proper", "improper"},
          inner : SUBSET Nat, binds : SUBSET Nat]

\* A text with the blocks at which a directive disables the cop.
Texts == [calls : Seq(Calls), disabled : SUBSET Ranges, lead : Nat]

ASSUME SourcesAssumption == Sources \subseteq Texts /\ None \notin Texts
ASSUME PatternsAssumption == PatternSets \subseteq SUBSET Names

Inside(r, outer) == outer[1] <= r[1] /\ r[2] <= outer[2]
Apart(a, b) == a[2] <= b[1] \/ b[2] <= a[1]

\* A call is entered before those in it: of two with a block, the later one is
\* inside the earlier one, or apart from it.
ASSUME NestingAssumption ==
    \A s \in Sources : \A i, j \in DOMAIN s.calls :
        i < j /\ s.calls[i].block # "none" /\ s.calls[j].block # "none" =>
            \/ Apart(s.calls[i].range, s.calls[j].range)
            \/ Inside(s.calls[j].range, s.calls[i].range)

Candidates == [kind : {"candidate"}, block : Ranges, name : Names]
Ignores    == [kind : {"ignore"}, blocks : SUBSET Ranges]
Events     == Candidates \cup Ignores
Resolved   == [offenses : SUBSET Ranges, sendIgnores : SUBSET Ranges,
               conditional : SUBSET Ranges]      \* has_conditional: not empty
Stocks     == [ignored : SUBSET Ranges, reported : SUBSET Ranges]
Phases     == {"idle", "on_block", "on_send", "resolve", "replay"}

-----------------------------------------------------------------------------

Bytes(r) == <<r[1] + source.lead, r[2] + source.lead>>

\* SourceOffsets: the byte range as a character range of the buffer.
Chars(r) == <<r[1] - source.lead, r[2] - source.lead>>

\* Mutant of Contained: ignored_node? instead of part_of_ignored_node?.
SameNode(rs, r) == r \in rs

\* range_contains, inclusive at both ends: is r inside one of rs?
Contained(rs, r) == \E outer \in rs : Inside(r, outer)

\* Mutant of Enabled: the range is recorded beside add_offense's block.
Unguarded(rs) == rs

\* Of these byte ranges, those at which add_offense yields to its block: the
\* offense is enabled.
Enabled(rs) == {r \in rs : Chars(r) \notin source.disabled}

Stock == trace[Len(trace)]
FreshStock(ranges) == <<[ignored |-> ranges, reported |-> {}]>>
NothingResolved == [offenses |-> {}, sendIgnores |-> {}, conditional |-> {}]

Init ==
    /\ patterns \in PatternSets
    /\ ignored = {}
    /\ source = None
    /\ phase = "idle"
    /\ pos = 0
    /\ events = <<>>
    /\ resolved = NothingResolved
    /\ reported = {}
    /\ trace = FreshStock({})

\* The cop is run on a text; both cops still know the ranges of earlier rounds.
Investigate(s) ==
    /\ phase = "idle"
    /\ source' = s
    /\ phase' = "on_block" /\ pos' = 1
    /\ events' = <<>>
    /\ resolved' = NothingResolved
    /\ reported' = {}
    /\ trace' = FreshStock(Stock.ignored)
    /\ UNCHANGED <<patterns, ignored>>

\* A new instance of the cop: both forget the ranges.
NewInstance ==
    /\ phase = "idle"
    /\ ignored' = {}
    /\ trace' = FreshStock({})
    /\ reported' = {}
    /\ UNCHANGED <<patterns, source, phase, pos, events, resolved>>

-----------------------------------------------------------------------------
(* The stock cop. *)

\* on_block: part_of_ignored_node?, matches_allowed_pattern?, add_offense with
\* ignore_node in its block.
StockBlock(r, name) ==
    IF Contained(Stock.ignored, r) \/ name \in patterns THEN Stock
    ELSE [reported |-> Stock.reported \cup {r},
          ignored  |-> Stock.ignored \cup ({r} \ source.disabled)]

\* on_send: every block is ignored, whatever the directives say.
StockSend(rs) == [Stock EXCEPT !.ignored = @ \cup rs]

-----------------------------------------------------------------------------
(* The walk. *)

Call == source.calls[pos]

\* get_blocks: the blocks of an argument, without descending into a block.
Reached(calls) ==
    LET reach[i \in DOMAIN calls] ==
            IF calls[i].block # "none" THEN {i}
            ELSE UNION {reach[j] : j \in calls[i].inner}
    IN  reach
GetBlocks(calls, args) ==
    {calls[i].range : i \in {j \in DOMAIN calls : \E a \in args : j \in Reached(calls)[a]}}

\* Visitor::on_block, before anything of the call's arguments.
OnBlock ==
    /\ phase = "on_block" /\ pos <= Len(source.calls)
    /\ IF Call.block = "improper"
       THEN /\ events' = Append(events, [kind |-> "candidate", block |-> Bytes(Call.range),
                                         name |-> Call.name])
            /\ trace' = Append(trace, StockBlock(Call.range, Call.name))
       ELSE UNCHANGED <<events, trace>>
    /\ phase' = "on_send"
    /\ UNCHANGED <<patterns, ignored, source, pos, resolved, reported>>

\* Visitor::on_send, on_super_or_yield.
OnSend ==
    /\ phase = "on_send"
    /\ LET blocks == GetBlocks(source.calls, Call.binds)
       IN  IF blocks # {}
           THEN /\ events' = Append(events, [kind   |-> "ignore",
                                             blocks |-> {Bytes(r) : r \in blocks}])
                /\ trace' = Append(trace, StockSend(blocks))
           ELSE UNCHANGED <<events, trace>>
    /\ phase' = "on_block" /\ pos' = pos + 1
    /\ UNCHANGED <<patterns, ignored, source, resolved, reported>>

\* AllowedPatterns need the regular expressions of the wrapper.
Walked ==
    /\ phase = "on_block" /\ pos > Len(source.calls)
    /\ phase' = IF patterns = {} THEN "resolve" ELSE "replay"
    /\ pos' = 1
    /\ UNCHANGED <<patterns, ignored, source, events, resolved, reported, trace>>

-----------------------------------------------------------------------------
(* resolve. *)

\* Mutant of Conditional: a candidate inside an offense is dropped for good.
Unconditional(e) == {}

\* The prior_ignored argument.  The bundled run has none, and is asked only
\* when there are none.
Prior == ignored

\* Suppressed whatever the directives say.
Suppressed(e) == Contained(Prior \cup resolved.sendIgnores, e.block)

\* The candidate when it is suppressed by another offense alone.
Conditional(e) == IF Contained(resolved.offenses, e.block) THEN {e.block} ELSE {}

ResolveCandidate(e) ==
    IF Suppressed(e) THEN resolved
    ELSE IF Contained(resolved.offenses, e.block)
    THEN [resolved EXCEPT !.conditional = @ \cup Conditional(e)]
    ELSE [resolved EXCEPT !.offenses = @ \cup {e.block}]

Resolve ==
    /\ phase = "resolve" /\ pos <= Len(events)
    /\ LET e == events[pos]
       IN  resolved' = IF e.kind = "ignore"
                       THEN [resolved EXCEPT !.sendIgnores = @ \cup e.blocks]
                       ELSE ResolveCandidate(e)
    /\ pos' = pos + 1
    /\ UNCHANGED <<patterns, ignored, source, phase, events, reported, trace>>

\* on_new_investigation: the result holds whatever is disabled.
Commit ==
    /\ phase = "resolve" /\ pos > Len(events) /\ resolved.conditional = {}
    /\ ignored' = ignored \cup resolved.sendIgnores \cup Enabled(resolved.offenses)
    /\ reported' = {Chars(r) : r \in resolved.offenses}
    /\ phase' = "idle"
    /\ UNCHANGED <<patterns, source, pos, events, resolved, trace>>

\* has_conditional: the directives decide.
FallBack ==
    /\ phase = "resolve" /\ pos > Len(events) /\ resolved.conditional # {}
    /\ phase' = "replay" /\ pos' = 1
    /\ UNCHANGED <<patterns, ignored, source, events, resolved, reported, trace>>

-----------------------------------------------------------------------------
(* replay_events. *)

ReplayIgnore ==
    /\ phase = "replay" /\ pos <= Len(events) /\ events[pos].kind = "ignore"
    /\ ignored' = ignored \cup events[pos].blocks
    /\ pos' = pos + 1
    /\ UNCHANGED <<patterns, source, phase, events, resolved, reported, trace>>

\* Mutant: what is ignored is the event, its method name included.
WholeEvent(e) == Append(e.block, e.name)

IgnoredRange(e) == e.block

ReplayCandidate ==
    /\ phase = "replay" /\ pos <= Len(events) /\ events[pos].kind = "candidate"
    /\ LET e == events[pos]
       IN  IF Contained(ignored, e.block) \/ e.name \in patterns
           THEN UNCHANGED <<ignored, reported>>
           ELSE /\ reported' = reported \cup {Chars(e.block)}
                /\ ignored' = ignored \cup
                      (IF Enabled({e.block}) = {} THEN {} ELSE {IgnoredRange(e)})
    /\ pos' = pos + 1
    /\ UNCHANGED <<patterns, source, phase, events, resolved, trace>>

Replayed ==
    /\ phase = "replay" /\ pos > Len(events)
    /\ phase' = "idle"
    /\ UNCHANGED <<patterns, ignored, source, pos, events, resolved, reported, trace>>

Next ==
    \/ \E s \in Sources : Investigate(s)
    \/ NewInstance
    \/ OnBlock \/ OnSend \/ Walked
    \/ Resolve \/ Commit \/ FallBack
    \/ ReplayIgnore \/ ReplayCandidate \/ Replayed

Spec == Init /\ [][Next]_vars

-----------------------------------------------------------------------------

\* Every variable has its type.
TypeOK ==
    /\ patterns \in PatternSets
    /\ ignored \in SUBSET Ranges
    /\ source \in Texts \cup {None}
    /\ phase \in Phases
    /\ pos \in Nat
    /\ events \in Seq(Events)
    /\ resolved \in Resolved
    /\ reported \in SUBSET Ranges
    /\ trace \in Seq(Stocks) /\ trace # <<>>

\* Whichever way the wrapper goes, and whatever the directives disable, a round
\* reports the blocks that the stock cop reports.
SameOffenses == phase = "idle" => reported = Stock.reported

\* ... and leaves the next round the ranges that the stock cop would ignore
\* then: "mirroring IgnoredNode's @ignored_nodes".
SameIgnored == phase = "idle" => ignored = Stock.ignored

\* The corrections of a round rewrite blocks that do not overlap: two that did
\* would clobber each other.
CorrectionsApart ==
    \A a, b \in reported \ (IF source = None THEN {} ELSE source.disabled) :
        a # b => Apart(a, b)

=============================================================================
