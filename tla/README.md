# Shirobai in TLA+

Shirobai replaces RuboCop cops by wrappers whose work is done in a Rust
extension. Its promise is that nothing else changes: every wrapper reports the
offenses, and makes the corrections, of the stock cop it replaces. What makes
the promise hard is not the single cop, which the repository compares with the
stock one over large corpora, but what the cops share to be fast: one call into
the extension per file, one parse, one walk, memos that live from file to file,
and cops that carry ranges from one round of autocorrection to the next. This
directory models that shared machinery, checks it with TLC on small instances
and proves it with TLAPS for all instances.

Paths below are relative to the repository. `PROJECT.json` maps each definition
to the lines it translates.

## 1. Inventory

Everything runs in one Ruby thread per process; RuboCop's `--parallel` forks
processes that share no state. There are no messages and no preemption. What
interleaves is *who calls next*: cops of one team ask in the team's order, any
of them may be disabled, re-enabled by a directive in the middle of a file,
excluded by path, or raise; files of several configs alternate; a round of
autocorrection investigates a new source with the same cops; entry points of
the extension are called in between. Each of these orders is an
interleaving of the models.

| Component | State | Operations | What is hard | Correct when |
|---|---|---|---|---|
| **Parse cache** `crates/shirobai-core/src/rules/parse_cache.rs`, `pm_lex.rs` | thread locals `CACHE` (the last source with its parse, comments, perhaps tokens) and `SPARE` (a retired token buffer) | `with_parsed`, `with_parsed_and_comments`, `comment_ranges`, `data_start`, `with_parsed_and_tokens` | an entry built without tokens is rebuilt for a token cop; buffers are recycled between files; both cells stay borrowed while a closure runs | a closure sees the parse and tokens of its own source; one parse per file in the intended order; one buffer per thread |
| **Bundled run** `rules/bundle.rs` | one `BundleResult` being filled | `check_all_bundle`: token streams, AsciiIdentifiers, build rules, shared walk, the other cops | the order of the cache accesses; masks, groups and older enable flags gate every step; a rule that asks the cache for something during the walk panics | one parse; exactly the slots that are on, each the cop's standalone answer |
| **Native extension registry** `ext/shirobai/src/lib.rs` | `BUNDLE_CONFIGS`, append only, thread local | `register_bundle_config`, `check_all`, 130 `check_*` functions | tokens are indices, and never retired | a token always names the config packed for it |
| **Dispatch coordinator** `lib/shirobai/dispatch.rb` | class-level memos: active and forced keys per config, two last-config ivars, bundle tokens, the cached result | `offenses_for`, `bundle_token`, `active_keys`, `force_slot!`, `packed_config`, `register_plugin_packer` | memos by object identity; keys forced on by directives; per-file gates of plugin gems; exceptions rescued around each cop | every cop gets what its standalone entry point computes for this file and config |
| **Plugin gems** `gems/*` | their entry in `@plugin_packers` | registration, `packer`, per-file `gate` | a gate's answer differs from file to file | dormant for a file exactly when the gate says so |
| **Style/BlockDelimiters** `rules/block_delimiters.rs` and its wrapper | `@ignored_ranges` across rounds, events of a walk | `on_block`, `on_send`, `resolve`, `replay_events` | a verdict depends on earlier ones and on which offenses are disabled, which only Ruby knows | the stock cop's offenses and ignored ranges, round after round |
| **Layout/IndentationWidth** `rules/indentation_width.rs` and its wrapper | `@offense_ranges` across rounds, the ranges and ignored nodes of a walk | `offense`, `on_assignment`, `on_begin_node`, `bundle_eligible?` | a range moved before stops later corrections inside it; the bundled run knows of none | the same offenses and corrections as stock, round after round |
| **Cops with state across nodes** `block_nesting.rs`, `useless_access_modifier.rs`, `redundant_self.rs`, `duplicate_methods.rs` and its wrapper | running levels, trackers, shared name arrays, counters of frames; the definitions and markers of earlier files | `enter`, `leave`, `enter_rescue`, `leave_rescue`, `enter_leaf`; `on_new_investigation` | stock cops recurse on a tree of another shape and pass values down; the rules keep running state that `leave` must take back | at the end of the walk, what the stock recursion gives |
| **RSpec dispatcher** `rspec_dispatcher.rs`, `rspec_empty_line.rs` | a stack of entries, an arena of scope frames | `handle_call`, `collect_*`, `resolve`, `finish` | stock cops collect by descending from complete groups; the rule hands items outward as it meets them, and recovers statement lists the parser gem has and prism has not | the stock cops' collections and lists |
| **Cop injection** `lib/shirobai/inject.rb` | RuboCop's registry, `autocorrect_incompatible_with` of each class | `activate!`, `claim_badges!`, `align_*` | lazily autoloaded stock classes; lists name stock classes no team holds any more | a badge is the wrapper's; a round of corrections skips exactly what stock would skip |
| **Shared walk** `rules/dispatch.rs` | buckets of rules by `Interest` | `run`, the `Visit` hooks, `visit_rescue_node` | a rule that masks a hook sees unbalanced enters and leaves; rescue clauses bypass the generic hooks | each rule sees what a walk of its own shows it |
| **Source positions** `rules/line_index.rs`, `source_offsets.rb`, `node_locator.rb` | single-slot caches by source | `line_of`, `line_start`, `column`, `[]` | boundaries, bytes against characters | equal to scanning from the front |
| **Other cop rules and wrappers** | per walk only | pure functions of a syntax tree | each its own rules | the stock cop's offenses |
| **Release and benchmarks** | none | scripts | none modelled | not modelled |

How they interact: RuboCop investigates a file with a team. A wrapper calls
`Dispatch.offenses_for`, which serves the file's cached result or obtains a
token (packing the config when it is new) and calls `check_all`; that looks the
token up in the registry and runs `check_all_bundle`, which reads source, tree,
comments and tokens through the parse cache and drives the rules through the
shared walk. A wrapper that cannot use the bundle (gate, prior ranges, patterns
only Ruby can match) calls its standalone `check_*`, which uses the same parse
cache.

`PROJECT.json` lists under `hazards` what can go wrong in these interactions, by
line, with the properties that would show it.

## 2. Modules

| Module | Models | Composed with |
|---|---|---|
| `ParseService` | the promise of the parse cache: each closure gets its own fresh parse | abstract specification of `ParseCache` |
| `ParseCache` | `parse_cache.rs`, the buffer handling of `pm_lex.rs` | |
| `BundleRun` | `check_all_bundle` and standalone calls between runs | EXTENDS `ParseCache`: every cache access of a run is one of its actions |
| `StandaloneCops` | the promise of the bundle: each cop obtains its standalone answer | abstract specification of `Dispatch` |
| `Dispatch` | `dispatch.rb` with the registry and `check_all` | what `check_all` computes is the slot rule that `BundleRun` establishes |
| `BlockDelimiters` | the cop's rule and wrapper, with the stock cop as a history variable | |
| `Inject` | `inject.rb`, with as much of RuboCop's registry and teams as it relies on | shares with `Dispatch` the moment at which a token is packed |
| `Trees` | syntax trees as sequences of nodes: parents, ancestors, children, depth | |
| `SharedWalk` | `dispatch.rs` (the Rust one): buckets, hooks, the order of the visits, and generic rules with their masks | EXTENDS `Trees` |
| `BlockNesting`, `UselessAccessModifier`, `RedundantSelf`, `DuplicateMethods`, `RSpecScopes`, `IndentationWidth` | one rule each, with the stock cop it stands for | each EXTENDS `SharedWalk`: its state is a variable, its hooks are operators on it |
| `DuplicateRegistry` | what the wrapper of DuplicateMethods keeps from file to file | EXTENDS `DuplicateMethods`, whose events it replays |
| `WalkedCops` | all of these driven by one walk; the next file, the next round | EXTENDS the rules |
| `MC...` | the small instances, with `MC....cfg` | |
| `WalkedCopsProofs` | induction over a tree and over a list, the facts about ancestors the other proofs need, the theorems about the walk, the registry and BlockNesting | EXTENDS `WalkedCops` |
| `ScopesAndWidthsProofs` | the theorems about RSpecScopes and IndentationWidth | EXTENDS `WalkedCopsProofs` |
| `StatefulCopsProofs` | the theorems about DuplicateMethods, and the types of all rules | EXTENDS `ScopesAndWidthsProofs` |
| `RedundantSelfProofs` | the theorems about RedundantSelf | EXTENDS `StatefulCopsProofs` |
| `BundleRunProofs` | the theorems about ParseCache and BundleRun | EXTENDS `BundleRun` |
| the other `...Proofs` | the theorems of a module | |

Operators written as mutants ("Mutant of ...") stand beside the definition they
alter. Each is a plausible bug; replacing the definition by it makes the
property named for it in `PROJECT.json` fail in the same run.

### ParseCache

A parse is represented by the source that owns it, a token buffer by the sources
whose tokens were pushed onto it and not cleared since. `cache` and `spare` are
the two thread locals, `closure` is the running closure, that is, the extent of
the two borrows. `EnsureParsed` and `EnsureParsedWithTokens` are the functions of
the same name, `WithSharedParse` and `WithParsedAndTokens` open a closure, `Return`
ends it, `NestedCall` is a re-entry, whose `borrow_mut` panics and unwinds.
`visit` and `allocated` are history variables. What prism does with a source is
left out.

### BundleRun

`run` is a call of `check_all_bundle` in progress: its stage, the calls left in
the stage, the token streams it holds, the rules that hold their comments, the
slots filled. Each cache access is two steps, opening and closing a `ParseCache`
closure, so a run's own steps are not atomic with respect to the cache. `On`
translates `slot_on`, `any_slot_on` and the enable flags; `After` is the order of
the stages; `Prefetches` the rules whose `build_rule` collects comments;
`ParsedFor` the sources for which a slot's answer needs the tree (EmptyLines,
for instance, is settled by a byte scan for a source with no two empty lines).
A rule that comes to the walk without its comments would re-enter the
cache: `Walk` then ends in a panic. The order of the off-walk cops among
themselves is left open, which includes the order of the code.

### Dispatch

`heap`, `file` and the `cell`s model object identity: `offenses_for` compares
`buffer.source` and the config with `equal?`, and a cell nobody refers to can be
given to another string. The memos are variables of the names they have in the
code without the `@` (`forced`, `active`, `last`, `tokens`, `cached`, `loaded`), and
`registry` is `BUNDLE_CONFIGS`. A wrapper's call of `offenses_for` is `AskCached`,
`AskFresh` (a bundled run, perhaps after `ForceSlot`) or `AskRaises`, the same call
cut short by an exception before or after the token was registered. `Investigate` is
the next file or round; `Recheck` is the same source under another config.
`Slot` is the extension's answer for a key: the source and config it was computed
from, or None, the empty default of a slot that is masked off or dormant.

A gate is a function of path and config, so `Recheck` keeps its answer for a
source and config whose result is cached.

### BlockDelimiters

A program is the sequence of its calls in walk order, with what `get_blocks`
finds below the arguments of each, and a verdict per block for
`proper_block_style`. `OnBlock`, `OnSend` are the callbacks that append `events`;
`Resolve` is one iteration of `resolve`; `Commit` the wrapper's use of its result;
`ReplayIgnore` and `ReplayCandidate` the iterations of `replay_events`. `disabled`
is the set of blocks at which a directive disables the cop, for which
`add_offense` does not yield to its block. `trace` is the stock cop at the same
callbacks. `Investigate` keeps `ignored` for the next round of an instance,
`NewInstance` drops it. `lead` is the number of bytes beyond characters
ahead of the code: the code keeps bytes, the stock cop characters. `NestingAssumption` says that of
two blocks of a text the later one is inside the earlier one or apart from it, as the ranges of
nodes of one tree are.

### Inject

A cop is a badge; its classes are `Stock(b)` and `Wrapper(b)`. `owner` is whom the
registry gives for a badge, `loaded` the badges whose stock constant is resolved,
`lists` what each class's own `autocorrect_incompatible_with` returns, `pushed`
what modules prepended by plugins add to it at every call. `Require` is a gem's
`require`, `activate!` with `ClaimBadges` and `Align` included where it has
wrappers; `LoadStock` is anybody's reference to a lazily registered constant, which
may come at any time; `BeginRound` is a team being built (`Registry#enabled`), the
token being found or packed, and `AlignFor` in the latter case; `EndRound` is
`Team#each_corrector` having called every list. The memo of tokens is `packed`,
its keys beyond the config `TokenKeys`. Gems with wrappers come before the first
token ("requiring a plugin mid-run is not supported", `dispatch.rb:363`); `Late`
is the set of the others that a later config may bring (`LateAssumption`).
`PushesAssumption` says that a module prepended by a gem pushes cops of that gem
which nobody wraps, as rubocop-capybara and rubocop-performance do. The queue in
which the registry holds enlisted classes until it is asked, and exceptions
inside an alignment, are left out.

### SharedWalk and WalkedCops

A tree is a sequence of nodes in the order the walk enters them, each with its parent
and its kind; `ClassOf` says which hook tells of a kind: one of the classes of branch nodes,
a leaf, a rescue clause, or none ("direct", a field of a concrete type, which the
generated visitor visits without a hook). `todo` is the visitor's call stack. One step is
one hook: `EnterBranch`, `LeaveBranch`, `EnterLeaf`, `VisitDirect`, `EnterRescue` (with the
overridden order of `visit_rescue_node`) and `LeaveRescue`, each called for the rules in the
bucket of its interest bit. `WalkedCops` joins each hook with what the six rules make of it.

A rule's module has three parts: its state and hooks, translated from the rule; the
stock cop, written as RuboCop has it, as a recursion or a search over the complete tree, on
the tree of the parser gem (a `resbody` prism has no node for, a block that is the
parent of its call, a `begin` that prism does not keep); and one property that the two agree
when the walk is over. The recursions are written as recursive functions and folds, never
with RECURSIVE, so that the provers can unfold them. The constants carry the assumptions the
proofs rest on: the class of each kind (`ClassesAssumption`,
`NestingKindsAssumption`, `RSpecKindsAssumption`), that a mask has what its rule reports on and
both ends of what it keeps (`MaskAssumption`), that some rule keeps rescue clauses
(`RulesAssumption`), that shapes are trees in the order of the walk (`ShapesAssumption`), that
`MaxNesting` is a number (`MaxNestingAssumption`), and where RSpec's kinds may stand
(`RSpecPlacesAssumption`: a when clause, for instance, stands under a case), those of the
bodies IndentationWidth looks at (`WidthKindsAssumption`), the hooks of what DuplicateMethods keeps
(`MethodKindsAssumption`), the places of an ensure, the value of a constant and an anonymous
class (`MethodPlacesAssumption`), that an assignment has a value and a block is the last part of its
call (`SelfKindsAssumption`). The module of the run evaluates each of them for its instance. Names, receivers and messages are kinds: RedundantSelf, for
instance, is followed for the one name `a`.

* `BlockNesting`: `nesting` is the running level, the deepest one, the suppression under a
  reported node and the frames that take them back. `StockLevels` is the stock cop's
  recursion, which passes level and suppression down. What counts as a block is not the same for the
  two: `Considered` is the rule's `classify`, which takes any call whose `block()` is there,
  a block argument too, `StockConsidered` the stock cop's, which takes the block nodes of the parser gem,
  those of a lambda and of `super` too.
* `UselessAccessModifier`: `access` has the trackers of the open scopes, the depth at which
  they are suspended and what the next statement list arms.
* `RedundantSelf`: `selfs.owners` are the arrays shared under a def or a block, `named` the
  nodes outside of any that were given the name. The names a condition is given are
  `Collected` in the rule, the local variable writes and targets below it, and `Lvasgns` in the stock
  cop.
* `DuplicateMethods`, `DuplicateRegistry`: `methods` has the frames and the events of the walk,
  `registry` the definitions and markers; `path` is the file. `Investigate` is the wrapper
  replaying a file's events (`Replayed` event by event). `registry.log` is a history variable;
  `OffenseByHistory` says of an event in it, without any registry, whether it is an offense.
* `RSpecScopes`: `rspec.scopes` is the arena, `open` the open frames, `stack` the entries;
  `WithFrame`, `WithoutFrame`, `WithClause`, `WithoutClause` are the four changes of `open` and `stack`.
  The operators `LetSetup`, `MultipleMemoizedHelpers` and `RepeatedExampleGroups` are the
  verdicts of `finish`. `calls` has the calls of a name in the order they are visited, and
  `CalledWithin` bisects them by their position in the text (`StartsBefore`), which for the
  condition of a modifier form is another order.
* `IndentationWidth`: `widths.ranges` is `@offense_ranges` of the wrapper, `registered` those of
  the rule, `stock` those of the stock cop. `NextRound` is the next round of the same instance
  over any text of the family; `NextFile` comes with a new instance, or the same. `CheckAll` is the
  rule going through the handlers of a begin when it enters it, `StockRounds` the stock cop at one
  node after the other. That a list of statements is off its column is its kind. The rule and
  its wrapper keep ranges in bytes (`Bytes`), the stock cop in characters; a text with a
  "wide" node has more of the ones than of the others.

## 3. Runs

| Run | Instance | Question |
|---|---|---|
| `parse_cache` | six contents | may any order of calls show a closure another file's parse or tokens, parse more than the order allows, or lose or duplicate the buffer? |
| `dispatch_gate` | one config, two contents, three cells, two core keys (one with an enable number of its own), a gated and an ungated plugin | do gates, tokens and the identity cache give each wrapper its own file's answer? |
| `dispatch_configs` | two configs that enable different keys, three core keys (two in one group), no plugin | does a memo of one config leak into the other, is a key forced twice, is anything packed twice? |
| `bundle_run` | two sources, six slots (a token cop, ascii, a group of two walked rules that read comments, a finalized rule, a plain one) | one parse, no re-entry, the right slots, from any state of the cache? |
| `block_delimiters` | five programs, every subset of their blocks disabled, with and without a pattern | do commit and replay both agree with the stock cop, in every round of an instance? |
| `block_delimiters_bytes` | the same, `lead` 0 or 1 | expected violation, see section 6 |
| `inject` | RuboCop, the core gem, a plugin with its wrapper gem, a third-party gem; two configs, two token keys | do badges stay claimed and does every round skip like stock, whatever is loaded when? |
| `inject_late` | the same, the plugin and the third-party gem may come between rounds | does a round that packs a token skip like stock? |
| `inject_mid_run` | as `inject_late`, for every round | expected violation, see section 6 |
| `walked_cops` | 8,526 trees with their options, of up to 17 nodes, in families made for each rule; six generic rules; MaxNesting 1, MaxHelpers 1 | does every rule of the shared walk see what it would alone, and do the stateful ones give what the stock recursions give, over nodes, files and rounds? |
| `rspec_unless_else` | two examples in the `else` of an `unless` | expected violation, see section 6 |
| `rspec_call_order` | a group that calls a name, under a modifier `if` whose condition calls it | expected violation, see section 6 |

**Bounds and why they suffice.** `ParseCache` has no bound besides its sources:
the cache holds one entry and one spare, so with three sources the current, the
evicted and the next one are distinct; the rest are room for orders. In
`Dispatch` three cells are needed for the file under investigation, the cached
source and a free one that may be reused; two configs for alternation; forcing is bounded
by the keys; the registry by the memo keys. The history counters `runs` and
`forcings` are bounded by properties that are checked, not by guards. One core
key outside a config's mask that has an enable number and one in a group exercise
both forms of a forced slot. In `BundleRun` two sources let any entry of
the cache be the run's or another's, and differ in whether they need the tree
(`unicode`, `blank`). In `BlockDelimiters` the programs nest
two blocks, bind one to a call, reach one through a receiver, and put one where
the previous text had another; ranges of a round then matter to the next one
because sources follow each other in any order. No guard contains a bound made
for the model checker.

In `Inject` the six cops are one of each kind: wrapped with and without a list, stock
with a list of wrapped cops, of a plugin and wrapped, of a plugin and not, pushed by
a third party; two configs of which the second enables cops the first
does not, so that one's alignment is seen by the other; two token keys, so that a
config is packed again.

In `WalkedCops` a family fixes the shape of its trees and fills every place with each
kind that matters there, so that what a rule keeps can be set before, inside and after a
nested construct and asked for after it: one level over MaxNesting in each form of
nesting; two trackers suspended by nested scopes; a name given and read in each place
around calls, blocks and clauses; definitions under the constructs that rename or silence
them; helpers before and after a nested group and in one; two files with at most four
definitions; two rounds, since the second starts from ranges the first kept and a third
from more of the same. Families that only BlockNesting and the generic rules tell apart are
complete up to five nodes. `NextFile` and `NextRound` are taken once (option "another").

`CHECK_DEADLOCK` is left on wherever a next call is always possible; in the three runs of
`WalkedCops` a behaviour ends with its tree.

**Fairness.** No fairness is assumed and no liveness is checked. `check_all_bundle` is
one synchronous call on one thread; nothing in it waits or retries, so that it returns is no property of
an order. The one liveness question of the system, whether rounds of autocorrection end,
depends on the texts of the corrections and is not modelled.

## 4. Proofs

TLAPS proves, for all values of the constants, under the named assumptions of the
modules (None is none of the values; slot tables are closed under groups and
consistent; a key with an enable number is alone in its group):

* `BundleRunProofs`, first part: the parse cache. The inductive invariant adds to the checked properties that
  the entry is of the source visited last (`EntryFollowsVisit`), that no buffer
  holds residue (`NoResidue`), that parses are counted by what the entry is now
  (`ParsesCounted`, `TokensFirstKept`), and that a buffer allocated is in the entry or
  in the spare (`BufferConserved`). Hence `ClosureSafe`, `ParseBound`,
  `BufferBound`, and `CacheTransparent`: the cache implements `ParseService`.
* `DispatchProofs`. The invariant has five groups: memos agree with `Enabled` and
  `forced` (`Keyed`); before the first file no token exists, so a packer cannot
  come late (`NothingYet`); gates speak of loaded origins (`OffLoaded`); tokens
  name what was packed for them, different keys different entries (`Tokened`);
  and what is cached was computed from its own cell, config and
  the current mask, from which the reply was taken (`Answered`). Hence all checked
  invariants and `BundleTransparent`: the coordinator implements
  `StandaloneCops`.
* `BundleRunProofs`, second part. `BundleIsCacheClient`: every behaviour of a run is one of
  `ParseCache`, so its theorems hold inside a run. On top of that invariant, `OpenCall`
  says which call a stage has open, `ParsedOnce` that after the first token or
  tree access the entry stays the run's own, `StreamsCollected` and `CommentsCollected`
  what is in hand before the walk, `SlotsFilled` which slots a stage has filled.
  Hence `OneParse`, `WalkNeverReenters`, `SlotsRight`.
* `BlockDelimitersProofs`, under `Ascii`: no text has bytes beyond its
  characters ahead of the code. The invariant is a simulation of the stock cop:
  `TraceFollows` relates event *i* to step *i* of the trace; `ResolveFollows` says
  that without a conditional candidate the offenses resolved so far are the trace's,
  whatever is disabled; `ReplayFollows` says that a replay has, at event *i*, the
  trace's ranges. Hence `OffensesSame` and `IgnoredSame`.

* `InjectProofs`. Lemmas on `Translate`: it keeps the type of a list, has no effect a
  second time, also when more is wrapped by then (`TranslateTwice`), distributes over
  concatenation and leaves pushes alone. The invariant: a loaded badge has its right owner
  (`Owners`); a stock list translates to the translation of its source, at
  whatever point it was rewritten (`ListsTranslate`); a config aligned at the
  registry's current size has the right lists (`AlignedRight`), sizes only grow
  (`AlignedSmaller`), and what is packed stays aligned when nothing is late
  (`PackedAligned`). Hence `BadgesStayClaimed`, `PackedRoundsRight` for any late gems, and
  `EveryRoundRight` under `Late = {}`, the assumption `inject_mid_run` shows to be
  needed.

* `BlockDelimitersProofs`, second part, without `Ascii`. `ApartInv` says of a walk what the
  `NestingAssumption` says of a text: a later candidate is inside an earlier one or apart from it.
  Of a resolution it says that the offenses found are pairwise apart, since a
  candidate inside a range already found is passed over, and of a replay that what it reported
  with the cop enabled is ignored from then on. Hence `CorrectionsApart`: two corrections of one
  pass never overlap, also when ranges kept from earlier rounds are off.

* `WalkedCopsProofs`, first part. Trees are data, so facts about all of them need induction, and the library's
  induction theorems are out of the provers' reach. `LeastNumber` (a set of naturals that is not
  empty has a least element), proved from the provers' arithmetic alone, takes their place:
  `NatSet` and `NatSetStrong` are induction stated with a set instead of a predicate, and
  `Recursion` shows that a recursive function on 1..n has values in a given set and solves its own
  equation. With them follow what `Filter`, `Children`, `UpTo` and `Above` return.

* `WalkedCopsProofs`, second part. `WalkInv` reads the pending calls as a program. `FramesInv`: executed on
  the stack a rule has now, those calls show every node still to be entered a stack that holds
  exactly its ancestors (`Leads`), for every mask `MaskAssumption` allows. `OrderInv`: for some m
  the first m nodes have been entered, and every later node is a pending visit or below one, in
  the order of the tree. `ReportsInv`: a rule has reported on those of the first m that it reports on. Hence
  `FramesAreAncestors` and `ReportsAsAlone`: a rule that shares its walk with
  others, whatever their masks, sees what it would see alone.

* `WalkedCopsProofs`, third part, and `ScopesAndWidthsProofs`, first part. The same for a walk with the six rules
  attached, over files and rounds, and then three rules:
  * OffensesAsHistory. `HistoryInv`: the definitions known are, per key, the last one kept
    of the log, the scopes are those under which a key was defined twice, the marked names are the
    markers of the current file, and every offense logged is one by the history alone. The
    registry is therefore a summary that loses nothing, over any number of files.
  * NestingAsStock. `NestingInv`, on top of `OrderInv`: the running level and
    suppression are what the stock recursion, over the nodes the rule counts (`LevelsOf` takes
    the nodes as a parameter), hands down below the innermost open ancestor;
    each frame keeps what takes them back, also for a rescue clause and the value of an
    `x rescue y`, until that is entered; the nodes reported are those the stock cop reports among the
    first m; the deepest level is the greatest of theirs. Only the last step asks that the
    nodes the rule counts be those the stock cop counts, which `BlocksApart` excludes otherwise.
  * LinesAsStock and ScopesAsStock. `RSpecInv`: the arena holds one frame per framed node among the
    first m, in their order, and each frame the items its own descent (`FindAllInScope`) finds
    among the first m; a frame's parent is the innermost framed ancestor; the stack
    entries are the path from the root. When the walk is over, m is the whole tree and a
    frame holds what the stock cop collects. What remains is about complete trees only: that
    the frames outward of one are the blocks over it (`OuterScopes`), that a subject is found by
    position (`NamedSubject`), and that what a stock cop finds from a block without a frame is what
    `OutsideFrames` excludes. `CalledWithinIs` is the argument about the search for a call: outside of
    `TurnedCall` the calls are kept in the order of the text (`TurnedIs`, `CallBefore`), so the bisection
    ends at the first one not before the group (`PartitionIs`), which is in the group if any is.

* `ScopesAndWidthsProofs`, second part: `CorrectsAsStock`. The rule looks at the clauses of a begin when it enters
  the begin, the stock cop comes to some of them only after what is inside its main body, and
  each lets what it moved first stop what comes later. The proof removes the order. `Moves` says of a
  body, without any order, whether it moves: its range is inside no range of an earlier round,
  and inside that of no other body that is off its column and looked at (`Due`). That this is
  right is `RangeWithin` and `OuterFirst`: a body whose range has another one inside is that of a node
  above, which both cops look at first, since that node is above whatever has the inner one looked
  at, or is the begin whose handler the inner one is. `RuleInv` then says that the rule's ranges and offenses are a function
  of the set of bodies looked at so far (`LookedBy`, which runs ahead of the walk), `StockInv` the
  same of the stock cop (`StockLookedBy`, which does not). At the end both sets are `Due`
  (`AllLooked`). The rule compares ranges in bytes: `BytesIs` and `RangeInIs` say that within one
  text this is comparing them in characters, so `Moves` takes the unit as a parameter.
  Across rounds it is not. `WidthsInv` carries, for a cop that corrects, that in a text of single bytes the
  ranges kept are the stock cop's, and that in any text the stock cop has none when the wrapper
  has none (`Agree`), which is what `InOneUnit` needs.

* `StatefulCopsProofs`: `MethodsAsStock`. The stock cop climbs from a definition to its ancestors, the
  rule looks into its frames, which are the ancestors that have a hook (`Hooked`). The frame
  operators search the whole stack, so the proof splits each by its last frame (what `Pmn`,
  `FirstBlock`, `RescueScope` and the rest are with one frame more) and shows by induction from
  the root that with the frames above a node they give what the recursion `Around` gives at that node
  (`NameIs` for the name of the module, `AroundTells` for the rest, `ScopeIs` for the rescue, `AnonIs` for
  the anonymous class and its place). `MethodsInv` then says that the frames are those of the open
  nodes, that each counter is the number of them of its kinds (`Tally`), so that what a node
  left behind was taken back, and that the events are those of the stock cop among the first m nodes
  (`StockHistory`).

* `StatefulCopsProofs`, second part: `CopsTypeOK`. Of the six rules four have it from their
  invariants: a counter of DuplicateMethods, for instance, is the number of open nodes of its kinds
  and cannot go below zero. `TypesInv` adds the types of RedundantSelf and UselessAccessModifier, with the
  trackers of each open scope: what they hold for later is a node of the tree or none.

* `RedundantSelfProofs`: `SelfAsStock`. The stock cop's arrays are a matter of order: a def or a block makes all
  nodes under it share one array, and whatever shares later overrides. `ArraysAre` says where this ends: a node's array
  is that of the one owner over it that has none over itself (`FirstOwner`), once that owner was visited.
  Then an array has the name when one of the nodes before gave it there (`StockRunAs`), and the
  stock cop flags a send when none of the arrays of the send and of the nodes over it has. For the rule, `SelfInv` says that its stack has one
  array at most, opened by the hooked node that is an owner with none above (`Starts`), that it holds
  the name when a node below that one gave it, and that `named` has the rest (`NamedAt`).
  What joins the two is about the two trees, in which a block is above its call or below it: the owners over
  a node of the parser gem's tree are those above it and the block of a call above it (`PrismOwners`), and
  outside of the four constructs a name that reaches a send in one tree reaches it in the
  other (`AllowedAlike`), also through an array that is made only after the name was given.

Each theorem follows the same argument: the initial states satisfy the
invariant, each action preserves it (one step per action, one per conjunct it can disturb),
and the property follows. Module headers and comments name the lemmas.

None of the assumptions on trees excludes a tree the parser builds. `RSpecPlacesAssumption`,
`NestingKindsAssumption` and `WidthKindsAssumption` state the shape of prism's nodes (a when clause under a case, two children
of a rescue modifier, a list of statements that has some) and which kinds have a hook;
`MethodPlacesAssumption` also that an argument list, which prism visits without a hook, is no node
of its own here: its elements are the children of the call.

## 5. What is only checked, and what is not modelled

Only model-checked: `AccessAsStock`, whose inductive invariant is still to be written
(section 7), and the violations of section 6. Every other property of a passing run has a theorem.

Known differences the properties of `WalkedCops` exclude by a hypothesis, each visible
when the hypothesis is dropped:

* `NestingAsStock`, `BlocksApart`: with CountBlocks, a call with a block argument (`foo(&blk)`), a lambda, or a
  `super` with a block. `classify` asks `call.block().is_some()` (`block_nesting.rs:126`),
  which is true of a block argument although the comment there speaks of a block; the stock
  cop counts the parser gem's block nodes, which are those of lambdas and `super` as well.
* `SelfAsStock`, `DefInOwner`: a `def` inside a `def` or a block. The stock cop still
  finds the outer array on the inner def and on what is between; the rule looks at the
  innermost array only (`redundant_self.rs:195`).
* `SelfAsStock`, `GivenApart`: an assignment whose value is a call with arguments that is a plain send
  for prism alone, a safe navigation or a call with a block. The name then goes to the
  arguments in the rule, to the value in the stock cop.
* `SelfAsStock`, `GivenBeforeBlock`: a name given in the call of a block, in an argument or in the receiver. The
  parser gem has the block above its call, so the stock cop's array of the block gets the name;
  prism has it below, and the rule opens the block's array after that. The hypothesis was first
  stated of assignments only. The proof did not go through, and TLC found
  `x.foo { |a| }.bar { self.a }`: the stock cop does not flag the send, the rule
  does. The hypothesis is now about patterns, rescue clauses and the parameters of
  inner blocks as well, and the run has such trees.
* `SelfAsStock`, `ShadowedApart`: a condition with, below it, a pattern's variable and no other
  assignment, or `a ||= x` and no other. The rule collects every local variable target and no
  compound assignment (`redundant_self.rs:561`); the stock cop looks for `lvasgn`, which the
  parser gem makes of `||=` and not of a pattern's variable.
* `ScopesAsStock`, `TurnedCall`, of LetSetup only: a call of the name in the condition of a modifier form,
  see section 6.
* `CorrectsAsStock`, `InOneUnit`: ranges kept from an earlier round when there was a multi-byte
  character in some text. The wrapper keeps the rule's byte ranges
  (`indentation_width.rb:56`, `:94`) and compares them with bytes of the next text, the stock cop
  characters with characters; the same conversion as in the finding about `BlockDelimiters`.
* `ScopesAsStock`, `OutsideFrames`: a block without a word of RSpec, with no frame around it, from
  which the stock search finds a helper; and a subject directly in such a block when only
  named ones are asked for. `handle_call` returns before it opens a frame for such a block
  (`rspec_dispatcher.rs:574`), although the header counts every plain block as one. The
  hypothesis was first stated of the helper: no helper with only such blocks over it. TLC
  refuted what the proof made of that with `each { hook { let } ; group }`: the let has a hook over it,
  and the stock cop finds it from the `each` all the same, for the group beside it. The
  hypothesis is now about the block the search starts from.
* `LinesAsStock`, `TypedElse`: see section 6.

Left out of the rules that are modelled: of the RSpec dispatcher what only copies a range
for the wrapper (metadata anchors, focus and pending candidates, described class, empty
groups), heredoc ends, and the one-line rule of hooks, while which let is the final one (`FinalLet`) and what
stands on one line (`OneLiners`) are one definition for the rule and the stock cop; of IndentationWidth the columns, and the
conditions, cases, blocks and class bodies that are checked the way a loop is; in
RedundantSelf parameters of lambdas, and names other than one; in UselessAccessModifier the
`else` clauses and lambdas it passes through and the ensure clause
(`useless_access_modifier.rs:653-673`), which are not in its trees.

Not modelled: parsing and lexing themselves, and the library's tree; the packed
values of a config, taken as the config they come from; the style decision on one
block and the edits of its correction; `line_index.rs`, `source_offsets.rb` and
`node_locator.rb`, pure functions of one text with a single-slot cache in front; Ruby's garbage
collector beyond the reuse of cells; the benchmark and release scripts. The other 100 rules,
which are the bulk of the implementation's lines, are functions of one node and its
neighbourhood: offense ranges and message texts computed from columns and tokens. They hold no
state that outlives a node and meet no other actor, and the repository compares each
with its stock cop over large corpora; a model of them would be a transliteration. The
share of the implementation's lines that is mapped is therefore small, and is meant to be the
share in which order and state decide.

## 6. Findings

`BlockDelimiters` keeps the ranges of earlier rounds as byte offsets. The class
comment says they mirror `IgnoredNode`'s, which are characters. They
agree as long as the number of multi-byte characters ahead of a block does not change
between two rounds of one cop instance. `block_delimiters_bytes` shows the
shortest case: a range kept from the first round, two texts that differ only in
their lead, and a block reported that the stock cop passes over. The proof's
assumption `Ascii` is exactly what excludes it.

`Inject.align_for` is described as re-running the alignment in the middle of a run
when a plugin load has changed the registry's size. Its only caller calls it where a
token is packed, so a config with a memoized token is not aligned again.
`inject_mid_run` shows a round of the first config after a second one has
brought rubocop-capybara: the wrapper's list lacks what stock's has by then.

RSpec/LetSetup asks whether the name of a `let!` is called in its group. `called_within` bisects
the positions of the calls, which the comment above it takes to be sorted because the walk comes
to them in order (`rspec_dispatcher.rs:1409`). The condition of a modifier form stands after what it modifies
and is visited before it. In `describe 'x' do let!(:user) { 1 }; it { user } end if user` the
position of the condition is kept first and is the largest; `rspec_call_order` shows that the call in the
group is then not found, so that the let! is reported as unused, which the stock cop does not do.

In the `else` of an `unless` or of a `case`, the RSpec empty-line cops report nothing.
The generated visitor visits such an else through a field of a concrete type, without a hook,
so that the frame on top of the stack is the `unless` itself, of which `resolve` asks only the
statements before the else, or the `case`, of which it asks none. The comment in `resolve` lists
"an else body", and `rspec_empty_line.rs` says that an else body is always `:begin`.
`rspec_unless_else` has two examples there: the stock cop wants a line between them.

## 7. Plan

Done: the core (parse cache, bundled run, coordinator), the injection and the first cop with
state across rounds, with all their safety properties proved; the shared walk, the registry of definitions, BlockNesting, the RSpec
dispatcher, DuplicateMethods, RedundantSelf and IndentationWidth, proved against the stock cops. Next:

1. `AccessAsStock`: as for BlockNesting, an invariant that says what the trackers of the open scopes
   are below the innermost open ancestor. Its stock cop walks each class body by itself, with a
   state threaded through the recursion, so the two have to be matched scope by scope.
2. Composition: `Dispatch` over `BundleRun`, so that `check_all` is no longer an operator,
   and the theorem that the two together implement `StandaloneCops`.
