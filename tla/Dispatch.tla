------------------------------ MODULE Dispatch ------------------------------
(***************************************************************************)
(* Shirobai::Dispatch (lib/shirobai/dispatch.rb): the per-file coordinator *)
(* that computes every cop's offenses in one call of the native extension  *)
(* and hands each cop its slot, together with the extension's registry of  *)
(* bundle configs (ext/shirobai/src/lib.rs) that its tokens index.         *)
(*                                                                         *)
(* Object identity matters here: the result cache compares                 *)
(* `buffer.source` and the config with `equal?`.  A source string is a     *)
(* cell of the heap; a cell nothing refers to any more can be given to     *)
(* another string.  What a slot holds is represented by the source and the *)
(* config it was computed from, None standing for the empty default of a   *)
(* slot that was not computed.                                             *)
(*                                                                         *)
(* What bundle_token's call of Inject.align_for changes is the state of    *)
(* module Inject; nothing here depends on it.                              *)
(***************************************************************************)
EXTENDS Naturals, Sequences

CONSTANTS
    Configs,      \* RuboCop::Config objects, by identity
    Contents,     \* what a source string can contain
    Cells,        \* heap cells that hold source strings
    CoreKeys,     \* core SLOTS keys
    PluginKeys,   \* SLOTS keys of the plugin origins
    Plugins,      \* the plugin origins
    Gated,        \* the plugin origins registered with a per-file gate
    OriginOf,     \* the origin of each plugin key
    GroupOf,      \* the core keys computed by one shared rule with a key
    Enabled,      \* the core keys of the cops each config enables
    OwnSwitch,    \* the core keys whose cop also packs its own enable num
    SwitchedOff,  \* those with `Enabled: false` in each config
    None

Keys == CoreKeys \cup PluginKeys

\* Tables of lib/shirobai/dispatch.rb and data of the configs.
ASSUME ConstantsAssumption ==
    /\ CoreKeys \cap PluginKeys = {}
    /\ Gated \subseteq Plugins
    /\ OriginOf \in [PluginKeys -> Plugins]
    /\ GroupOf \in [CoreKeys -> SUBSET CoreKeys]
    /\ \A k \in CoreKeys : k \in GroupOf[k]
    /\ OwnSwitch \subseteq CoreKeys
    /\ \A k \in OwnSwitch : GroupOf[k] = {k}
    /\ Enabled \in [Configs -> SUBSET CoreKeys]
    /\ SwitchedOff \in [Configs -> SUBSET OwnSwitch]

VARIABLES
    heap,        \* what each cell contains
    file,        \* None, or the ProcessedSource under investigation
    loaded,      \* @plugin_packers: the origins whose gem registered a packer
    forced,      \* @forced_keys, empty for a config it does not hold
    active,      \* @active_keys: None for a config it does not hold
    last,        \* @last_active_config and @last_active_keys
    tokens,      \* @bundle_tokens, by config, inactive origins, forced keys
    registry,    \* BUNDLE_CONFIGS
    cached,      \* @cached_source, _config, _result, _inactive; None: no source
    reply,       \* what the wrapper that asked last obtained
    forcings,    \* history: how often each key was forced for each config
    runs         \* history: bundled runs and forcings of this investigation

vars == <<heap, file, loaded, forced, active, last, tokens, registry, cached,
          reply, forcings, runs>>

Files     == [cell : Cells, config : Configs, off : SUBSET Gated]
Packed    == [config : Configs, mask : SUBSET CoreKeys, switches : SUBSET OwnSwitch,
              awake : SUBSET Plugins]
TokenKeys == Configs \X (SUBSET Gated) \X (SUBSET CoreKeys)
Results   == [cell : Cells, config : Configs, content : Contents, packed : Packed,
              inactive : SUBSET Gated]
Slots     == [content : Contents, config : Configs] \cup {None}
Replies   == [key : Keys, via : {"bundle", "standalone"}, value : Slots]

\* nil is no object, no key set, no token and no result.
ASSUME NoneAssumption ==
    /\ None \notin Files
    /\ None \notin Results
    /\ None \notin Replies
    /\ \A S \in SUBSET CoreKeys : S # None
    /\ None \notin [config : Configs, keys : SUBSET CoreKeys]
    /\ None \notin [content : Contents, config : Configs]
    /\ None \notin Nat

-----------------------------------------------------------------------------
\* What is packed, and what the extension computes from it.

\* slot_mask_nums: the mask of the enabled and the forced keys.
MaskOf(c, fs) == Enabled[c] \cup fs

\* Mutants of SwitchesOf: the gates of the forced cops stay as packed; a num is
\* written for every key of the mask.
UnforcedSwitches(c, fs) == OwnSwitch \ SwitchedOff[c]
SwitchPerKey(c, fs)     == (OwnSwitch \ SwitchedOff[c]) \cup MaskOf(c, fs)

\* The enable nums the cops' bundle_args pack, then force_cop_gates!: a key in
\* the mask always has its own num on.
SwitchesOf(c, fs) == (OwnSwitch \ SwitchedOff[c]) \cup (OwnSwitch \cap MaskOf(c, fs))

\* packed_config: an origin packs its segment when its packer is registered and
\* the file's gate did not turn it down, else the dormant one.
Pack(c, inactive, fs) ==
    [config |-> c, mask |-> MaskOf(c, fs), switches |-> SwitchesOf(c, fs),
     awake |-> loaded \ inactive]

Computed(content, c) == [content |-> content, config |-> c]

\* check_all: slot k of the result for a source under a packed config.  A rule
\* shared by a group runs when any slot of the group is on and fills them all.
SlotOn(p, k) == GroupOf[k] \cap p.mask # {} /\ (k \in OwnSwitch => k \in p.switches)

Slot(content, p, k) ==
    IF k \in CoreKeys THEN (IF SlotOn(p, k) THEN Computed(content, p.config) ELSE None)
    ELSE (IF OriginOf[k] \in p.awake THEN Computed(content, p.config) ELSE None)

-----------------------------------------------------------------------------

Init ==
    /\ heap \in [Cells -> Contents]
    /\ file = None
    /\ loaded = {}
    /\ forced = [c \in Configs |-> {}]
    /\ active = [c \in Configs |-> None]
    /\ last = None
    /\ tokens = [t \in TokenKeys |-> None]
    /\ registry = <<>>
    /\ cached = None
    /\ reply = None
    /\ forcings = [c \in Configs |-> [k \in CoreKeys |-> 0]]
    /\ runs = [checks |-> 0, forces |-> 0]

\* Mutant: a plugin gem is required in the middle of a run.
RegisterMidRun(o) ==
    /\ loaded' = loaded \cup {o}
    /\ UNCHANGED <<heap, file, forced, active, last, tokens, registry, cached, reply,
                   forcings, runs>>

\* register_plugin_packer, at the require time of a plugin gem: before any lint
\* run packs a config, requiring a plugin later is not supported.
RegisterPluginPacker(o) ==
    /\ file = None
    /\ loaded' = loaded \cup {o}
    /\ UNCHANGED <<heap, file, forced, active, last, tokens, registry, cached, reply,
                   forcings, runs>>

\* RuboCop builds a ProcessedSource, for the next file or for another round of
\* the autocorrect loop.  Its string takes a cell nothing refers to; the gate
\* of each gated origin answers for its path.
Investigate(cell, content, c, off) ==
    /\ cell \notin {r.cell : r \in {file, cached} \ {None}}
    /\ heap' = [heap EXCEPT ![cell] = content]
    /\ file' = [cell |-> cell, config |-> c, off |-> off \cap loaded]
    /\ reply' = None
    /\ runs' = [checks |-> 0, forces |-> 0]
    /\ UNCHANGED <<loaded, forced, active, last, tokens, registry, cached, forcings>>

\* The same ProcessedSource is checked under another config: offenses_for takes
\* the two separately.  A gate gives the same answer for the same two.
Recheck(c, off) ==
    /\ file # None
    /\ c # file.config
    /\ cached # None /\ cached.cell = file.cell /\ cached.config = c
           => off \cap loaded = cached.inactive
    /\ file' = [file EXCEPT !.config = c, !.off = off \cap loaded]
    /\ reply' = None
    /\ runs' = [checks |-> 0, forces |-> 0]
    /\ UNCHANGED <<heap, loaded, forced, active, last, tokens, registry, cached, forcings>>

LastHit(c) == last # None /\ last.config = c

\* active_keys: enabled and forced keys of a config, through the two-ivar cache
\* and then the per-config memo.
ActiveKeys(c) ==
    IF LastHit(c) THEN last.keys
    ELSE IF active[c] # None THEN active[c] ELSE Enabled[c]

Forces(k) == k \in CoreKeys \ ActiveKeys(file.config)

\* Mutants of CacheHit: the config is not compared; the strings are compared
\* with ==; a config with forced keys is never served.
SourceHit   == cached # None /\ cached.cell = file.cell
EqualHit    == cached # None /\ cached.content = heap[file.cell] /\ cached.config = file.config
UnforcedHit == /\ cached # None /\ cached.cell = file.cell /\ cached.config = file.config
               /\ forced[file.config] = {}

\* The cache serves the same string object under the same config object.
CacheHit == cached # None /\ cached.cell = file.cell /\ cached.config = file.config

\* The key belongs to an origin whose wrappers are loaded.
Askable(k) == file # None /\ (k \in PluginKeys => OriginOf[k] \in loaded)

\* The call of active_keys every offenses_for makes, when nothing is forced.
RememberActive(c) ==
    /\ active' = IF LastHit(c) THEN active ELSE [active EXCEPT ![c] = ActiveKeys(c)]
    /\ last' = [config |-> c, keys |-> ActiveKeys(c)]
    /\ UNCHANGED <<forced, forcings>>

\* Mutant: @last_active_config keeps what the inner active_keys call set.
ForceKeepingLast(c, k) ==
    /\ forced' = [forced EXCEPT ![c] = @ \cup {k}]
    /\ active' = [active EXCEPT ![c] = ActiveKeys(c) \cup {k}]
    /\ last' = [config |-> c, keys |-> ActiveKeys(c)]
    /\ forcings' = [forcings EXCEPT ![c][k] = @ + 1]

\* force_slot!: @last_active_config is reset last, because the call of
\* active_keys in between fills it again.
ForceSlot(c, k) ==
    /\ forced' = [forced EXCEPT ![c] = @ \cup {k}]
    /\ active' = [active EXCEPT ![c] = ActiveKeys(c) \cup {k}]
    /\ last' = None
    /\ forcings' = [forcings EXCEPT ![c][k] = @ + 1]

\* The first lines of offenses_for: look the key up, force it when it is a core
\* key outside the mask.
NoteKey(c, k) == IF Forces(k) THEN ForceSlot(c, k) ELSE RememberActive(c)

\* What the wrapper gets: its slot, or for a key of an inactive origin nil,
\* which sends it to its standalone entry point.
Answer(r, k) ==
    IF k \in PluginKeys /\ OriginOf[k] \in r.inactive
    THEN [key |-> k, via |-> "standalone",
          value |-> Computed(heap[file.cell], file.config)]
    ELSE [key |-> k, via |-> "bundle", value |-> Slot(r.content, r.packed, k)]

\* offenses_for, served from the cached result.
AskCached(k) ==
    /\ Askable(k)
    /\ ~Forces(k)
    /\ CacheHit
    /\ RememberActive(file.config)
    /\ reply' = Answer(cached, k)
    /\ UNCHANGED <<heap, file, loaded, tokens, registry, cached, runs>>

\* Mutants: the memo is not keyed on the forced keys; nothing is memoized.
TokenPerGate(c, inactive, fs) ==
    IF tokens[<<c, inactive, fs>>] # None
    THEN UNCHANGED <<tokens, registry>>
    ELSE /\ tokens' = [t \in TokenKeys |-> IF t[1] = c /\ t[2] = inactive
                                           THEN Len(registry) ELSE tokens[t]]
         /\ registry' = Append(registry, Pack(c, inactive, fs))

TokenPerCall(c, inactive, fs) ==
    /\ tokens' = [tokens EXCEPT ![<<c, inactive, fs>>] = Len(registry)]
    /\ registry' = Append(registry, Pack(c, inactive, fs))

\* bundle_token: the memoized token, or a new entry of the extension's registry.
BundleToken(c, inactive, fs) ==
    IF tokens[<<c, inactive, fs>>] # None
    THEN UNCHANGED <<tokens, registry>>
    ELSE /\ tokens' = [tokens EXCEPT ![<<c, inactive, fs>>] = Len(registry)]
         /\ registry' = Append(registry, Pack(c, inactive, fs))

\* offenses_for on a miss, or after a key was forced: one bundled run whose
\* result replaces the cached one.
AskFresh(k) ==
    /\ Askable(k)
    /\ Forces(k) \/ ~CacheHit
    /\ NoteKey(file.config, k)
    /\ BundleToken(file.config, file.off, forced'[file.config])
    /\ cached' = [cell |-> file.cell, config |-> file.config,
                  content |-> heap[file.cell],
                  packed |-> registry'[tokens'[<<file.config, file.off,
                                                 forced'[file.config]>>] + 1],
                  inactive |-> file.off]
    /\ reply' = Answer(cached', k)
    /\ runs' = [checks |-> runs.checks + 1,
                forces |-> runs.forces + (IF Forces(k) THEN 1 ELSE 0)]
    /\ UNCHANGED <<heap, file, loaded>>

\* Mutant: the cached source is dropped only when the wider run has succeeded.
RaisesKeepingCache(k) ==
    /\ Askable(k)
    /\ Forces(k) \/ ~CacheHit
    /\ NoteKey(file.config, k)
    /\ \/ UNCHANGED <<tokens, registry>>
       \/ BundleToken(file.config, file.off, forced'[file.config])
    /\ reply' = None
    /\ runs' = [runs EXCEPT !.forces = @ + (IF Forces(k) THEN 1 ELSE 0)]
    /\ UNCHANGED <<heap, file, loaded, cached>>

\* The same call cut short by an exception, which RuboCop rescues around each
\* cop: in a gate or in packing (nothing is registered), or in check_all (the
\* token stays).  A forced key has already dropped the cached source.
AskRaises(k) ==
    /\ Askable(k)
    /\ Forces(k) \/ ~CacheHit
    /\ NoteKey(file.config, k)
    /\ \/ UNCHANGED <<tokens, registry>>
       \/ BundleToken(file.config, file.off, forced'[file.config])
    /\ cached' = IF Forces(k) THEN None ELSE cached
    /\ reply' = None
    /\ runs' = [runs EXCEPT !.forces = @ + (IF Forces(k) THEN 1 ELSE 0)]
    /\ UNCHANGED <<heap, file, loaded>>

Next ==
    \/ \E o \in Plugins : RegisterPluginPacker(o)
    \/ \E cell \in Cells, content \in Contents, c \in Configs, off \in SUBSET Gated :
           Investigate(cell, content, c, off)
    \/ \E c \in Configs, off \in SUBSET Gated : Recheck(c, off)
    \/ \E k \in Keys : AskCached(k) \/ AskFresh(k) \/ AskRaises(k)

Spec == Init /\ [][Next]_vars

-----------------------------------------------------------------------------

\* Every variable has its type.
TypeOK ==
    /\ heap \in [Cells -> Contents]
    /\ file \in Files \cup {None}
    /\ loaded \in SUBSET Plugins
    /\ forced \in [Configs -> SUBSET CoreKeys]
    /\ active \in [Configs -> (SUBSET CoreKeys) \cup {None}]
    /\ last \in [config : Configs, keys : SUBSET CoreKeys] \cup {None}
    /\ tokens \in [TokenKeys -> Nat \cup {None}]
    /\ registry \in Seq(Packed)
    /\ cached \in Results \cup {None}
    /\ reply \in Replies \cup {None}
    /\ forcings \in [Configs -> [CoreKeys -> Nat]]
    /\ runs \in [checks : Nat, forces : Nat]

\* A token always names the bundle config packed for its memo key, so check_all
\* never meets an unknown token, and never one packed for another config, gate
\* outcome or forced set.
TokenNamesItsConfig ==
    \A c \in Configs, off \in SUBSET Gated, fs \in SUBSET CoreKeys :
        LET t == tokens[<<c, off, fs>>]
        IN  t # None => t < Len(registry) /\ registry[t + 1] = Pack(c, off, fs)

\* "A run registers O(#distinct configs x #distinct gate outcomes x #forced
\* growths) entries": the registry, which never evicts, holds no entry twice.
NoEntryTwice ==
    \A i, j \in 1..Len(registry) : registry[i] = registry[j] => i = j

\* "Each key re-runs at most once per config", whatever is raised in between
\* and however the files of two configs alternate.
ForcedOncePerConfig ==
    \A c \in Configs, k \in CoreKeys : forcings[c][k] <= 1

\* The cached result was computed under the mask its config has now: no slot a
\* later cop may read without forcing it was left out.
CachedMaskIsCurrent ==
    cached # None => cached.packed.mask = Enabled[cached.config] \cup forced[cached.config]

\* Every cop's offenses in one bundled run per investigation, and one more for
\* each key that had to be forced in it.
OneRunPerInvestigation == runs.checks <= 1 + runs.forces

\* A wrapper is sent to its standalone entry point exactly when the gate turned
\* its origin down for the file at hand, never because of an earlier file.
FallbackFollowsTheGate ==
    reply # None =>
        (reply.via = "standalone"
            <=> reply.key \in PluginKeys /\ OriginOf[reply.key] \in file.off)

\* The file and the answer, without the bundle.
FileView  == IF file = None THEN None
             ELSE [content |-> heap[file.cell], config |-> file.config]
ReplyView == IF reply = None THEN None ELSE [key |-> reply.key, value |-> reply.value]

Cops == INSTANCE StandaloneCops WITH file <- FileView, reply <- ReplyView

\* The bundle is transparent: every answer is the one the standalone entry
\* point computes for the source and the config under investigation; never a
\* slot of another file, of another config, masked off or dormant.
ImplementsStandaloneCops == Cops!Spec

=============================================================================
