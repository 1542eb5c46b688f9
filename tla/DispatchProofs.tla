--------------------------- MODULE DispatchProofs ---------------------------
(***************************************************************************)
(* Theorems about Dispatch, for any configs, contents, cells, keys and     *)
(* plugins: its type invariant, its safety invariants, and that it         *)
(* implements StandaloneCops.                                              *)
(***************************************************************************)
EXTENDS Dispatch, TLAPS

-----------------------------------------------------------------------------
\* The inductive invariant, in named parts.

\* The memo of active keys is the enabled keys and the forced ones; a config it
\* does not hold has had nothing forced.
MemoCoherent ==
    \A c \in Configs :
        /\ active[c] # None => active[c] = Enabled[c] \cup forced[c]
        /\ active[c] = None => forced[c] = {}

LastCoherent ==
    last # None => last.keys = Enabled[last.config] \cup forced[last.config]

\* Only what a config does not enable is ever forced, and forced once.
ForcedDisabled == \A c \in Configs : forced[c] \cap Enabled[c] = {}

ForcingsCounted ==
    \A c \in Configs, k \in CoreKeys : forcings[c][k] = IF k \in forced[c] THEN 1 ELSE 0

\* Nothing is packed, cached or answered before the first investigation.
NothingYet ==
    file = None => /\ \A t \in TokenKeys : tokens[t] = None
                   /\ registry = <<>>
                   /\ cached = None
                   /\ reply = None

\* Only a registered origin has a gate that can turn a file down.
OffLoaded == file # None => file.off \subseteq loaded

\* Every token is for a memo key that Pack tells apart, every entry of the
\* registry has its token.
TokenKeysApart ==
    \A c \in Configs, off \in SUBSET Gated, fs \in SUBSET CoreKeys :
        tokens[<<c, off, fs>>] # None => off \subseteq loaded /\ fs \cap Enabled[c] = {}

EveryEntryHasItsToken ==
    \A i \in 1..Len(registry) :
        \E c \in Configs, off \in SUBSET Gated, fs \in SUBSET CoreKeys :
            tokens[<<c, off, fs>>] = i - 1

\* The cached result is what a run now would compute for its source, its config
\* and its inactive origins.
CacheCoherent ==
    cached # None =>
        /\ file # None
        /\ cached.content = heap[cached.cell]
        /\ cached.inactive \subseteq loaded
        /\ cached.packed = Pack(cached.config, cached.inactive, forced[cached.config])
        /\ CacheHit => cached.inactive = file.off

\* A run that found nothing forced leaves its result for the rest of the
\* investigation.
RunsCounted ==
    /\ runs.checks <= 1 + runs.forces
    /\ ~(file # None /\ CacheHit) => runs.checks <= runs.forces

ReplyRight ==
    reply # None =>
        /\ file # None
        /\ reply.value = Computed(heap[file.cell], file.config)
        /\ reply.via = "standalone"
               <=> reply.key \in PluginKeys /\ OriginOf[reply.key] \in file.off

Keyed    == MemoCoherent /\ LastCoherent /\ ForcedDisabled /\ ForcingsCounted
Tokened  == TokenNamesItsConfig /\ TokenKeysApart /\ EveryEntryHasItsToken
Answered == CacheCoherent /\ RunsCounted /\ ReplyRight

IInv == TypeOK /\ Keyed /\ NothingYet /\ OffLoaded /\ Tokened /\ Answered

\* The types of the variables each part is about.
KeyTypes ==
    /\ forced \in [Configs -> SUBSET CoreKeys]
    /\ active \in [Configs -> (SUBSET CoreKeys) \cup {None}]
    /\ last \in [config : Configs, keys : SUBSET CoreKeys] \cup {None}
    /\ forcings \in [Configs -> [CoreKeys -> Nat]]

TokenTypes ==
    /\ tokens \in [TokenKeys -> Nat \cup {None}]
    /\ registry \in Seq(Packed)

-----------------------------------------------------------------------------
\* Operators.

\* active_keys always returns the enabled and the forced keys.
LEMMA ActiveKeysRight ==
    ASSUME KeyTypes, MemoCoherent, LastCoherent, NEW c \in Configs
    PROVE  ActiveKeys(c) = Enabled[c] \cup forced[c]
  <1>1. CASE LastHit(c)
    BY <1>1 DEF LastHit, LastCoherent, ActiveKeys
  <1>2. CASE ~LastHit(c) /\ active[c] # None
    BY <1>2 DEF MemoCoherent, ActiveKeys
  <1>3. CASE ~LastHit(c) /\ active[c] = None
    BY <1>3 DEF MemoCoherent, ActiveKeys
  <1>4. QED  BY <1>1, <1>2, <1>3

\* What is packed is well typed and tells the memo keys apart.
LEMMA PackTyped ==
    ASSUME loaded \in SUBSET Plugins, NEW c \in Configs, NEW off \in SUBSET Gated,
           NEW fs \in SUBSET CoreKeys
    PROVE  Pack(c, off, fs) \in Packed
  BY ConstantsAssumption DEF Pack, Packed, MaskOf, SwitchesOf

\* What is packed tells config, gates that are off and forced keys apart.
LEMMA PackInjective ==
    ASSUME NEW c \in Configs, NEW off \in SUBSET Gated, NEW fs \in SUBSET CoreKeys,
           NEW d \in Configs, NEW no \in SUBSET Gated, NEW gs \in SUBSET CoreKeys,
           off \subseteq loaded, fs \cap Enabled[c] = {},
           no \subseteq loaded, gs \cap Enabled[d] = {},
           Pack(c, off, fs) = Pack(d, no, gs)
    PROVE  c = d /\ off = no /\ fs = gs
  <1>1. c = d /\ Enabled[c] \cup fs = Enabled[d] \cup gs /\ loaded \ off = loaded \ no
    BY DEF Pack, MaskOf
  <1>2. fs = gs
    BY <1>1
  <1>3. off = no
    BY <1>1
  <1>4. QED  BY <1>1, <1>2, <1>3

\* A core slot whose key is in the mask, and a plugin slot whose origin is awake,
\* hold what the standalone entry point computes.
LEMMA SlotComputed ==
    ASSUME NEW c \in Configs, NEW off \in SUBSET Gated, NEW fs \in SUBSET CoreKeys,
           NEW k \in Keys, NEW content \in Contents,
           k \in CoreKeys => k \in Enabled[c] \cup fs,
           k \in PluginKeys => OriginOf[k] \in loaded \ off
    PROVE  Slot(content, Pack(c, off, fs), k) = Computed(content, c)
  <1> DEFINE p == Pack(c, off, fs)
  <1>1. p.config = c /\ p.mask = Enabled[c] \cup fs /\ p.awake = loaded \ off
        /\ p.switches = SwitchesOf(c, fs)
    BY DEF Pack, MaskOf
  <1>2. CASE k \in CoreKeys
    <2>1. k \in GroupOf[k] \cap p.mask
      BY <1>1, <1>2, ConstantsAssumption
    <2>2. k \in OwnSwitch => k \in p.switches
      BY <1>1, <1>2 DEF SwitchesOf, MaskOf
    <2>3. QED  BY <1>1, <1>2, <2>1, <2>2 DEF Slot, SlotOn
  <1>3. CASE k \in PluginKeys
    BY <1>1, <1>3, ConstantsAssumption DEF Slot
  <1>4. QED  BY <1>2, <1>3 DEF Keys

-----------------------------------------------------------------------------
\* NoteKey: the first lines of offenses_for.

\* The memo key tells them apart as well.
LEMMA NoteKeyRight ==
    ASSUME KeyTypes, Keyed, NEW c \in Configs, NEW k \in Keys,
           file.config = c, NoteKey(c, k)
    PROVE  /\ KeyTypes' /\ Keyed'
           /\ forced' = IF Forces(k) THEN [forced EXCEPT ![c] = @ \cup {k}] ELSE forced
           /\ k \in CoreKeys => k \in Enabled[c] \cup forced'[c]
  <1> USE ConstantsAssumption, NoneAssumption
  <1>1. ActiveKeys(c) = Enabled[c] \cup forced[c]
    BY ActiveKeysRight DEF Keyed
  <1>2. CASE Forces(k)
    <2>1. ForceSlot(c, k) /\ k \in CoreKeys /\ k \notin Enabled[c] /\ k \notin forced[c]
      BY <1>1, <1>2 DEF NoteKey, Forces
    <2>2. /\ forced' = [forced EXCEPT ![c] = forced[c] \cup {k}]
          /\ active' = [active EXCEPT ![c] = Enabled[c] \cup forced[c] \cup {k}]
          /\ last' = None
          /\ forcings' = [forcings EXCEPT ![c][k] = forcings[c][k] + 1]
      BY <1>1, <2>1 DEF ForceSlot
    <2>3. KeyTypes'
      BY <2>1, <2>2 DEF KeyTypes
    <2>4. MemoCoherent' /\ LastCoherent'
      <3>1. MemoCoherent'
        BY <2>1, <2>2 DEF KeyTypes, Keyed, MemoCoherent
      <3>2. QED  BY <2>2, <3>1 DEF LastCoherent
    <2>5. ForcedDisabled'
      BY <2>1, <2>2 DEF KeyTypes, Keyed, ForcedDisabled
    <2>6. ForcingsCounted'
      BY <2>1, <2>2 DEF KeyTypes, Keyed, ForcingsCounted
    <2>7. QED  BY <1>2, <2>1, <2>2, <2>3, <2>4, <2>5, <2>6 DEF Keyed, KeyTypes
  <1>3. CASE ~Forces(k)
    <2>1. RememberActive(c) /\ (k \in CoreKeys => k \in Enabled[c] \cup forced[c])
      BY <1>1, <1>3 DEF NoteKey, Forces
    <2>2. /\ forced' = forced /\ forcings' = forcings
          /\ last' = [config |-> c, keys |-> Enabled[c] \cup forced[c]]
          /\ \/ active' = active
             \/ active' = [active EXCEPT ![c] = Enabled[c] \cup forced[c]]
      BY <1>1, <2>1 DEF RememberActive
    <2>3. KeyTypes'
      BY <2>2 DEF KeyTypes
    <2>4. MemoCoherent' /\ LastCoherent'
      <3>1. MemoCoherent'
        BY <2>2 DEF KeyTypes, Keyed, MemoCoherent
      <3>2. QED  BY <2>2, <3>1 DEF LastCoherent
    <2>5. ForcedDisabled' /\ ForcingsCounted'
      BY <2>2 DEF Keyed, ForcedDisabled, ForcingsCounted
    <2>6. QED  BY <1>3, <2>1, <2>2, <2>3, <2>4, <2>5 DEF Keyed
  <1>4. QED  BY <1>2, <1>3

\* bundle_token keeps the memo and the registry in step, and leaves a token for
\* what it was asked.
LEMMA BundleTokenRight ==
    ASSUME TokenTypes, Tokened, loaded \in SUBSET Plugins, loaded' = loaded,
           NEW c \in Configs, NEW off \in SUBSET Gated, NEW fs \in SUBSET CoreKeys,
           off \subseteq loaded, fs \cap Enabled[c] = {},
           BundleToken(c, off, fs)
    PROVE  /\ TokenTypes' /\ Tokened'
           /\ tokens'[<<c, off, fs>>] # None
  <1> USE NoneAssumption
  <1> DEFINE t == <<c, off, fs>>
  <1>0. t \in TokenKeys
    BY DEF TokenKeys
  <1>1. CASE tokens[t] # None
    <2>1. tokens' = tokens /\ registry' = registry
      BY <1>1 DEF BundleToken
    <2>2. TokenTypes' /\ TokenKeysApart' /\ EveryEntryHasItsToken'
      BY <2>1 DEF TokenTypes, Tokened, TokenKeysApart, EveryEntryHasItsToken
    <2>3. TokenNamesItsConfig'
      <3>1. ASSUME NEW d \in Configs, NEW no \in SUBSET Gated, NEW gs \in SUBSET CoreKeys
            PROVE  Pack(d, no, gs)' = Pack(d, no, gs)
        BY DEF Pack, MaskOf, SwitchesOf
      <3>2. QED  BY <2>1, <3>1 DEF Tokened, TokenNamesItsConfig
    <2>4. QED  BY <1>1, <2>1, <2>2, <2>3 DEF Tokened
  <1>2. CASE tokens[t] = None
    <2>1. /\ tokens' = [tokens EXCEPT ![t] = Len(registry)]
          /\ registry' = Append(registry, Pack(c, off, fs))
      BY <1>2 DEF BundleToken
    <2>2. Len(registry) \in Nat /\ Pack(c, off, fs) \in Packed
      BY PackTyped DEF TokenTypes
    <2>3. TokenTypes'
      BY <1>0, <2>1, <2>2 DEF TokenTypes
    <2>4. /\ Len(registry') = Len(registry) + 1
          /\ \A i \in 1..Len(registry) : registry'[i] = registry[i]
          /\ registry'[Len(registry) + 1] = Pack(c, off, fs)
      BY <2>1, <2>2 DEF TokenTypes
    <2>5. ASSUME NEW d \in Configs, NEW no \in SUBSET Gated, NEW gs \in SUBSET CoreKeys
          PROVE  /\ <<d, no, gs>> \in TokenKeys
                 /\ Pack(d, no, gs)' = Pack(d, no, gs)
                 /\ tokens'[<<d, no, gs>>] =
                        IF <<d, no, gs>> = t THEN Len(registry) ELSE tokens[<<d, no, gs>>]
      <3>1. <<d, no, gs>> \in TokenKeys
        BY DEF TokenKeys
      <3>2. Pack(d, no, gs)' = Pack(d, no, gs)
        BY DEF Pack, MaskOf, SwitchesOf
      <3>3. QED  BY <1>0, <2>1, <3>1, <3>2 DEF TokenTypes
    <2>6. TokenNamesItsConfig'
      <3>1. SUFFICES ASSUME NEW d \in Configs, NEW no \in SUBSET Gated,
                            NEW gs \in SUBSET CoreKeys, tokens'[<<d, no, gs>>] # None
                     PROVE  /\ tokens'[<<d, no, gs>>] < Len(registry')
                            /\ registry'[tokens'[<<d, no, gs>>] + 1] = Pack(d, no, gs)'
        BY DEF TokenNamesItsConfig
      <3>2. CASE <<d, no, gs>> = t
        BY <2>2, <2>4, <2>5, <3>2
      <3>3. CASE <<d, no, gs>> # t
        <4>1. tokens[<<d, no, gs>>] \in Nat
          BY <2>5, <3>1, <3>3 DEF TokenTypes
        <4>2. /\ tokens[<<d, no, gs>>] < Len(registry)
              /\ registry[tokens[<<d, no, gs>>] + 1] = Pack(d, no, gs)
          BY <2>5, <3>1, <3>3 DEF Tokened, TokenNamesItsConfig
        <4>3. QED  BY <2>2, <2>4, <2>5, <3>3, <4>1, <4>2
      <3>4. QED  BY <3>2, <3>3
    <2>7. TokenKeysApart'
      <3>1. SUFFICES ASSUME NEW d \in Configs, NEW no \in SUBSET Gated,
                            NEW gs \in SUBSET CoreKeys, tokens'[<<d, no, gs>>] # None
                     PROVE  no \subseteq loaded /\ gs \cap Enabled[d] = {}
        BY DEF TokenKeysApart
      <3>2. QED  BY <2>5, <3>1 DEF Tokened, TokenKeysApart
    <2>8. EveryEntryHasItsToken'
      <3>1. SUFFICES ASSUME NEW i \in 1..(Len(registry) + 1)
                     PROVE  \E d \in Configs, no \in SUBSET Gated, gs \in SUBSET CoreKeys :
                                tokens'[<<d, no, gs>>] = i - 1
        BY <2>4 DEF EveryEntryHasItsToken
      <3>2. CASE i = Len(registry) + 1
        <4>1. tokens'[<<c, off, fs>>] = i - 1
          BY <2>2, <2>5, <3>2
        <4>2. QED  BY <4>1
      <3>3. CASE i \in 1..Len(registry)
        <4>1. PICK d \in Configs, no \in SUBSET Gated, gs \in SUBSET CoreKeys :
                  tokens[<<d, no, gs>>] = i - 1
          BY <3>3 DEF Tokened, EveryEntryHasItsToken
        <4>2. i - 1 # None
          BY <2>2, <3>3
        <4>3. <<d, no, gs>> # t
          BY <1>2, <4>1, <4>2
        <4>4. tokens'[<<d, no, gs>>] = i - 1
          BY <2>5, <4>1, <4>3
        <4>5. QED  BY <4>4
      <3>4. i = Len(registry) + 1 \/ i \in 1..Len(registry)
        BY <2>2
      <3>5. QED  BY <3>2, <3>3, <3>4, Zenon
    <2>9. QED  BY <2>2, <2>3, <2>5, <2>6, <2>7, <2>8 DEF Tokened
  <1>3. QED  BY <1>1, <1>2

-----------------------------------------------------------------------------
\* What a cop obtains.

\* The answer taken from a result that is coherent for the file at hand is the
\* standalone one, by the bundle unless the gate turned the origin down.
LEMMA AnswerRight ==
    ASSUME TypeOK, OffLoaded, NEW k \in Keys, Askable(k), NEW r \in Results,
           NEW fs \in SUBSET CoreKeys,
           r.content = heap[file.cell], r.config = file.config, r.inactive = file.off,
           r.packed = Pack(file.config, file.off, fs),
           k \in CoreKeys => k \in Enabled[file.config] \cup fs
    PROVE  /\ Answer(r, k) \in Replies
           /\ Answer(r, k).key = k
           /\ Answer(r, k).value = Computed(heap[file.cell], file.config)
           /\ Answer(r, k).via = "standalone"
                  <=> k \in PluginKeys /\ OriginOf[k] \in file.off
  <1> USE ConstantsAssumption
  <1>1. /\ file # None
        /\ file.cell \in Cells /\ file.config \in Configs /\ file.off \in SUBSET Gated
        /\ heap[file.cell] \in Contents
    BY DEF Askable, TypeOK, Files
  <1>2. Computed(heap[file.cell], file.config) \in Slots
    BY <1>1 DEF Computed, Slots
  <1>3. CASE k \in PluginKeys /\ OriginOf[k] \in file.off
    BY <1>2, <1>3 DEF Answer, Replies
  <1>4. CASE ~(k \in PluginKeys /\ OriginOf[k] \in file.off)
    <2>1. k \in PluginKeys => OriginOf[k] \in loaded \ file.off
      BY <1>4 DEF Askable
    <2>2. Slot(r.content, r.packed, k) = Computed(heap[file.cell], file.config)
      BY <1>1, <2>1, SlotComputed
    <2>3. Answer(r, k) = [key |-> k, via |-> "bundle",
                          value |-> Computed(heap[file.cell], file.config)]
      BY <1>4, <2>2 DEF Answer
    <2>4. QED  BY <1>2, <1>4, <2>3 DEF Replies
  <1>5. QED  BY <1>3, <1>4

-----------------------------------------------------------------------------
\* The invariant is inductive.

\* Nothing is memoized at first.
LEMMA InitHolds == Init => IInv
  <1> SUFFICES ASSUME Init PROVE IInv
    OBVIOUS
  <1> USE ConstantsAssumption, NoneAssumption DEF Init
  <1>1. TypeOK
    BY DEF TypeOK
  <1>2. Keyed
    BY DEF Keyed, MemoCoherent, LastCoherent, ForcedDisabled, ForcingsCounted
  <1>3. NothingYet /\ OffLoaded
    BY DEF NothingYet, OffLoaded
  <1>4. Tokened
    <2>1. \A c \in Configs, off \in SUBSET Gated, fs \in SUBSET CoreKeys :
              tokens[<<c, off, fs>>] = None
      BY DEF TokenKeys
    <2>2. 1..Len(registry) = {}
      OBVIOUS
    <2>3. TokenNamesItsConfig /\ TokenKeysApart
      BY <2>1 DEF TokenNamesItsConfig, TokenKeysApart
    <2>4. EveryEntryHasItsToken
      BY <2>2, Zenon DEF EveryEntryHasItsToken
    <2>5. QED  BY <2>3, <2>4 DEF Tokened
  <1>5. Answered
    BY DEF Answered, CacheCoherent, RunsCounted, ReplyRight
  <1>6. QED  BY <1>1, <1>2, <1>3, <1>4, <1>5 DEF IInv

\* A plugin registers its packer.
LEMMA RegisterHolds ==
    ASSUME IInv, NEW o \in Plugins, RegisterPluginPacker(o)
    PROVE  IInv'
  <1> USE ConstantsAssumption, NoneAssumption DEF RegisterPluginPacker
  <1>1. TypeOK'
    BY DEF IInv, TypeOK
  <1>2. Keyed'
    BY DEF IInv, Keyed, MemoCoherent, LastCoherent, ForcedDisabled, ForcingsCounted
  <1>3. NothingYet' /\ OffLoaded'
    BY DEF IInv, NothingYet, OffLoaded
  <1>4. Tokened'
    <2>1. \A c \in Configs, off \in SUBSET Gated, fs \in SUBSET CoreKeys :
              tokens[<<c, off, fs>>] = None
      BY DEF TokenKeys, IInv, NothingYet
    <2>2. 1..Len(registry') = {}
      BY DEF IInv, NothingYet
    <2>3. TokenNamesItsConfig' /\ TokenKeysApart'
      BY <2>1 DEF TokenNamesItsConfig, TokenKeysApart
    <2>4. EveryEntryHasItsToken'
      BY <2>2, Zenon DEF EveryEntryHasItsToken
    <2>5. QED  BY <2>3, <2>4 DEF Tokened
  <1>5. Answered'
    BY DEF IInv, NothingYet, Answered, CacheCoherent, RunsCounted, ReplyRight, CacheHit
  <1>6. QED  BY <1>1, <1>2, <1>3, <1>4, <1>5 DEF IInv

\* What an investigation leaves alone: the memos, the tokens and the registry.
LEMMA MemosKept ==
    ASSUME IInv, UNCHANGED <<loaded, forced, active, last, tokens, registry, forcings>>
    PROVE  Keyed' /\ Tokened'
  <1>1. Keyed'
    BY DEF IInv, Keyed, MemoCoherent, LastCoherent, ForcedDisabled, ForcingsCounted
  <1>2. TokenNamesItsConfig'
    <2>1. ASSUME NEW d \in Configs, NEW no \in SUBSET Gated, NEW gs \in SUBSET CoreKeys
          PROVE  Pack(d, no, gs)' = Pack(d, no, gs)
      BY DEF Pack, MaskOf, SwitchesOf
    <2>2. QED  BY <2>1 DEF IInv, Tokened, TokenNamesItsConfig
  <1>3. TokenKeysApart' /\ EveryEntryHasItsToken'
    BY DEF IInv, Tokened, TokenKeysApart, EveryEntryHasItsToken
  <1>4. QED  BY <1>1, <1>2, <1>3 DEF Tokened

\* The next file or round.
LEMMA InvestigateHolds ==
    ASSUME IInv, NEW cell \in Cells, NEW content \in Contents, NEW c \in Configs,
           NEW off \in SUBSET Gated, Investigate(cell, content, c, off)
    PROVE  IInv'
  <1> USE NoneAssumption DEF Investigate
  <1>1. TypeOK' /\ file' # None
    <2>1. file' \in Files
      BY DEF Files
    <2>2. QED  BY <2>1 DEF IInv, TypeOK
  <1>2. Keyed' /\ Tokened'
    BY MemosKept
  <1>3. NothingYet' /\ OffLoaded'
    BY <1>1 DEF NothingYet, OffLoaded
  <1>4. cached # None => cached.cell # cell
    OBVIOUS
  <1>5. ~CacheHit'
    BY <1>4 DEF CacheHit
  <1>6. CacheCoherent'
    <2>1. SUFFICES ASSUME cached # None PROVE CacheCoherent'
      BY DEF CacheCoherent
    <2>2. heap'[cached.cell] = heap[cached.cell]
      BY <1>4, <2>1 DEF IInv, TypeOK, Results
    <2>3. Pack(cached.config, cached.inactive, forced[cached.config])'
              = Pack(cached.config, cached.inactive, forced[cached.config])
      BY DEF Pack, MaskOf, SwitchesOf
    <2>4. QED  BY <1>1, <1>5, <2>1, <2>2, <2>3 DEF IInv, Answered, CacheCoherent
  <1>7. RunsCounted' /\ ReplyRight'
    BY DEF RunsCounted, ReplyRight
  <1>8. QED  BY <1>1, <1>2, <1>3, <1>6, <1>7 DEF IInv, Answered

\* The same source under another config.
LEMMA RecheckHolds ==
    ASSUME IInv, NEW c \in Configs, NEW off \in SUBSET Gated, Recheck(c, off)
    PROVE  IInv'
  <1> USE NoneAssumption DEF Recheck
  <1>1. TypeOK' /\ file' # None /\ file'.cell = file.cell /\ file'.config = c
        /\ file'.off = off \cap loaded
    <2>1. file \in Files
      BY DEF IInv, TypeOK
    <2>2. file' \in Files /\ file'.cell = file.cell /\ file'.config = c
          /\ file'.off = off \cap loaded
      BY <2>1 DEF Files
    <2>3. QED  BY <2>2 DEF IInv, TypeOK
  <1>2. Keyed' /\ Tokened'
    BY MemosKept
  <1>3. NothingYet' /\ OffLoaded'
    BY <1>1 DEF NothingYet, OffLoaded
  <1>4. CacheCoherent'
    <2>1. SUFFICES ASSUME cached # None PROVE CacheCoherent'
      BY DEF CacheCoherent
    <2>2. Pack(cached.config, cached.inactive, forced[cached.config])'
              = Pack(cached.config, cached.inactive, forced[cached.config])
      BY DEF Pack, MaskOf, SwitchesOf
    <2>3. CacheHit' => cached.inactive = file'.off
      BY <1>1, <2>1 DEF CacheHit
    <2>4. QED  BY <1>1, <2>1, <2>2, <2>3 DEF IInv, Answered, CacheCoherent
  <1>5. RunsCounted' /\ ReplyRight'
    BY DEF RunsCounted, ReplyRight
  <1>6. QED  BY <1>1, <1>2, <1>3, <1>4, <1>5 DEF IInv, Answered

\* A wrapper is answered from the cache.
LEMMA AskCachedHolds ==
    ASSUME IInv, NEW k \in Keys, AskCached(k)
    PROVE  IInv' /\ reply' # None /\ reply'.key = k
  <1> USE NoneAssumption
  <1> DEFINE c == file.config
  <1>1. /\ Askable(k) /\ ~Forces(k) /\ CacheHit /\ NoteKey(c, k)
        /\ reply' = Answer(cached, k)
        /\ UNCHANGED <<heap, file, loaded, tokens, registry, cached, runs>>
    BY DEF AskCached, NoteKey
  <1>2. /\ file # None /\ cached # None /\ file \in Files /\ cached \in Results
        /\ c \in Configs /\ cached.config = c /\ cached.cell = file.cell
    BY <1>1 DEF IInv, TypeOK, Files, Askable, CacheHit
  <1>3. /\ KeyTypes' /\ Keyed' /\ forced' = forced
        /\ k \in CoreKeys => k \in Enabled[c] \cup forced[c]
    BY <1>1, <1>2, NoteKeyRight DEF IInv, TypeOK, KeyTypes
  <1>4. /\ cached.content = heap[file.cell] /\ cached.inactive = file.off
        /\ cached.packed = Pack(c, file.off, forced[c])
        /\ forced[c] \in SUBSET CoreKeys
    BY <1>1, <1>2 DEF IInv, Answered, CacheCoherent, TypeOK
  <1>5. /\ reply' \in Replies /\ reply'.key = k
        /\ reply'.value = Computed(heap[file.cell], file.config)
        /\ reply'.via = "standalone" <=> k \in PluginKeys /\ OriginOf[k] \in file.off
    BY <1>1, <1>2, <1>3, <1>4, AnswerRight DEF IInv
  <1>6. TypeOK'
    BY <1>1, <1>3, <1>5 DEF IInv, TypeOK, KeyTypes
  <1>7. NothingYet' /\ OffLoaded'
    BY <1>1, <1>2 DEF IInv, NothingYet, OffLoaded
  <1>8. Tokened'
    <2>1. ASSUME NEW d \in Configs, NEW no \in SUBSET Gated, NEW gs \in SUBSET CoreKeys
          PROVE  Pack(d, no, gs)' = Pack(d, no, gs)
      BY <1>1 DEF Pack, MaskOf, SwitchesOf
    <2>2. TokenNamesItsConfig'
      BY <1>1, <2>1 DEF IInv, Tokened, TokenNamesItsConfig
    <2>3. TokenKeysApart' /\ EveryEntryHasItsToken'
      BY <1>1 DEF IInv, Tokened, TokenKeysApart, EveryEntryHasItsToken
    <2>4. QED  BY <2>2, <2>3 DEF Tokened
  <1>9. CacheCoherent' /\ RunsCounted'
    <2>1. CacheHit' = CacheHit
      BY <1>1 DEF CacheHit
    <2>2. Pack(c, file.off, forced[c])' = Pack(c, file.off, forced[c])
      BY <1>1, <1>3 DEF Pack, MaskOf, SwitchesOf
    <2>3. CacheCoherent'
      BY <1>1, <1>2, <1>3, <1>4, <2>1, <2>2 DEF IInv, Answered, CacheCoherent
    <2>4. RunsCounted'
      BY <1>1, <2>1 DEF IInv, Answered, RunsCounted
    <2>5. QED  BY <2>3, <2>4
  <1>10. ReplyRight'
    BY <1>1, <1>2, <1>5 DEF ReplyRight
  <1>11. QED
    BY <1>3, <1>5, <1>6, <1>7, <1>8, <1>9, <1>10 DEF IInv, Answered

\* What the two ways a bundled run can end have in common.
LEMMA MissRight ==
    ASSUME IInv, NEW k \in Keys, Askable(k), NoteKey(file.config, k),
           UNCHANGED <<heap, file, loaded>>
    PROVE  /\ file # None /\ file \in Files /\ KeyTypes' /\ Keyed'
           /\ forced' = IF Forces(k) THEN [forced EXCEPT ![file.config] = @ \cup {k}]
                        ELSE forced
           /\ k \in CoreKeys => k \in Enabled[file.config] \cup forced'[file.config]
           /\ forced'[file.config] \in SUBSET CoreKeys
           /\ UNCHANGED <<tokens, registry>> => TokenTypes' /\ Tokened'
           /\ BundleToken(file.config, file.off, forced'[file.config])
                  => /\ TokenTypes' /\ Tokened'
                     /\ tokens'[<<file.config, file.off, forced'[file.config]>>] # None
  <1> USE NoneAssumption
  <1> DEFINE c == file.config
             fs == forced'[c]
  <1>1. file # None /\ file \in Files /\ c \in Configs /\ file.off \in SUBSET Gated
        /\ file.off \subseteq loaded /\ loaded \in SUBSET Plugins
    BY DEF IInv, TypeOK, Files, Askable, OffLoaded
  <1>2. /\ KeyTypes' /\ Keyed'
        /\ forced' = IF Forces(k) THEN [forced EXCEPT ![c] = @ \cup {k}] ELSE forced
        /\ k \in CoreKeys => k \in Enabled[c] \cup fs
    BY <1>1, NoteKeyRight DEF IInv, TypeOK, KeyTypes
  <1>3. fs \in SUBSET CoreKeys /\ fs \cap Enabled[c] = {}
    BY <1>1, <1>2 DEF KeyTypes, Keyed, ForcedDisabled
  <1>4. ASSUME UNCHANGED <<tokens, registry>>
        PROVE  TokenTypes' /\ Tokened'
    <2>1. ASSUME NEW d \in Configs, NEW no \in SUBSET Gated, NEW gs \in SUBSET CoreKeys
          PROVE  Pack(d, no, gs)' = Pack(d, no, gs)
      BY DEF Pack, MaskOf, SwitchesOf
    <2>2. TokenNamesItsConfig'
      BY <1>4, <2>1 DEF IInv, Tokened, TokenNamesItsConfig
    <2>3. TokenTypes' /\ TokenKeysApart' /\ EveryEntryHasItsToken'
      BY <1>4 DEF IInv, TypeOK, TokenTypes, Tokened, TokenKeysApart, EveryEntryHasItsToken
    <2>4. QED  BY <2>2, <2>3 DEF Tokened
  <1>5. ASSUME BundleToken(c, file.off, fs)
        PROVE  TokenTypes' /\ Tokened' /\ tokens'[<<c, file.off, fs>>] # None
    <2>1. TokenTypes /\ Tokened
      BY DEF IInv, TypeOK, TokenTypes
    <2>2. QED  BY <1>1, <1>3, <1>5, <2>1, BundleTokenRight
  <1>6. QED  BY <1>1, <1>2, <1>3, <1>4, <1>5

\* A wrapper is answered by a bundled run.
LEMMA AskFreshHolds ==
    ASSUME IInv, NEW k \in Keys, AskFresh(k)
    PROVE  IInv' /\ reply' # None /\ reply'.key = k
  <1> USE NoneAssumption
  <1> DEFINE c == file.config
             fs == forced'[c]
             t == tokens'[<<c, file.off, fs>>]
  <1>1. /\ Askable(k) /\ (Forces(k) \/ ~CacheHit) /\ NoteKey(c, k)
        /\ BundleToken(c, file.off, fs)
        /\ cached' = [cell |-> file.cell, config |-> c, content |-> heap[file.cell],
                      packed |-> registry'[t + 1], inactive |-> file.off]
        /\ reply' = Answer(cached', k)
        /\ runs' = [checks |-> runs.checks + 1,
                    forces |-> runs.forces + (IF Forces(k) THEN 1 ELSE 0)]
        /\ UNCHANGED <<heap, file, loaded>>
    BY DEF AskFresh
  <1>2. /\ file # None /\ file \in Files /\ KeyTypes' /\ Keyed'
        /\ k \in CoreKeys => k \in Enabled[c] \cup fs
        /\ fs \in SUBSET CoreKeys
        /\ TokenTypes' /\ Tokened' /\ t # None
    BY <1>1, MissRight
  <1>3. /\ file.cell \in Cells /\ c \in Configs /\ file.off \in SUBSET Gated
        /\ heap[file.cell] \in Contents /\ file.off \subseteq loaded
        /\ loaded \in SUBSET Plugins
    BY <1>2 DEF IInv, TypeOK, Files, OffLoaded
  <1>4. ASSUME NEW d \in Configs, NEW no \in SUBSET Gated, NEW gs \in SUBSET CoreKeys
        PROVE  Pack(d, no, gs)' = Pack(d, no, gs)
    BY <1>1 DEF Pack, MaskOf, SwitchesOf
  <1>5. registry'[t + 1] = Pack(c, file.off, fs)
    <2>1. \A d \in Configs, no \in SUBSET Gated, gs \in SUBSET CoreKeys :
              tokens'[<<d, no, gs>>] # None
                  => registry'[tokens'[<<d, no, gs>>] + 1] = Pack(d, no, gs)
      BY <1>2, <1>4 DEF Tokened, TokenNamesItsConfig
    <2>2. QED  BY <1>2, <1>3, <2>1
  <1>6. /\ cached' \in Results
        /\ cached'.cell = file.cell /\ cached'.config = c
        /\ cached'.content = heap[file.cell] /\ cached'.inactive = file.off
        /\ cached'.packed = Pack(c, file.off, fs)
    <2>1. Pack(c, file.off, fs) \in Packed
      BY <1>2, <1>3, PackTyped
    <2>2. QED  BY <1>1, <1>3, <1>5, <2>1 DEF Results
  <1>7. /\ reply' \in Replies /\ reply'.key = k
        /\ reply'.value = Computed(heap[file.cell], file.config)
        /\ reply'.via = "standalone" <=> k \in PluginKeys /\ OriginOf[k] \in file.off
    <2>1. \A r \in Results : r = cached' =>
              /\ Answer(r, k) \in Replies
              /\ Answer(r, k).key = k
              /\ Answer(r, k).value = Computed(heap[file.cell], file.config)
              /\ Answer(r, k).via = "standalone"
                     <=> k \in PluginKeys /\ OriginOf[k] \in file.off
      <3>1. SUFFICES ASSUME NEW r \in Results, r = cached'
                     PROVE  /\ Answer(r, k) \in Replies
                            /\ Answer(r, k).key = k
                            /\ Answer(r, k).value = Computed(heap[file.cell], file.config)
                            /\ Answer(r, k).via = "standalone"
                                   <=> k \in PluginKeys /\ OriginOf[k] \in file.off
        OBVIOUS
      <3>2. TypeOK /\ OffLoaded
        BY DEF IInv
      <3>3. QED  BY <1>1, <1>2, <1>6, <3>1, <3>2, AnswerRight
    <2>2. QED  BY <1>1, <1>6, <2>1
  <1>8. runs' \in [checks : Nat, forces : Nat] /\ RunsCounted'
    <2>1. runs \in [checks : Nat, forces : Nat] /\ RunsCounted
      BY DEF IInv, TypeOK, Answered
    <2>2. CacheHit'
      BY <1>1, <1>6 DEF CacheHit, IInv
    <2>3. runs' \in [checks : Nat, forces : Nat] /\ runs'.checks <= 1 + runs'.forces
      BY <1>1, <2>1 DEF RunsCounted
    <2>4. QED  BY <1>1, <1>2, <2>2, <2>3 DEF RunsCounted
  <1>9. TypeOK'
    BY <1>1, <1>2, <1>6, <1>7, <1>8 DEF IInv, TypeOK, KeyTypes, TokenTypes
  <1>10. NothingYet' /\ OffLoaded'
    BY <1>1, <1>2 DEF IInv, NothingYet, OffLoaded
  <1>11. CacheCoherent'
    <2>1. Pack(cached.config, cached.inactive, forced[cached.config])'
              = Pack(c, file.off, fs)
      BY <1>1, <1>6 DEF Pack, MaskOf, SwitchesOf
    <2>2. QED  BY <1>1, <1>2, <1>3, <1>6, <2>1 DEF CacheCoherent
  <1>12. ReplyRight'
    BY <1>1, <1>2, <1>7 DEF ReplyRight
  <1>13. QED
    BY <1>2, <1>7, <1>8, <1>9, <1>10, <1>11, <1>12 DEF IInv, Answered

\* An exception cuts the call short.
LEMMA AskRaisesHolds ==
    ASSUME IInv, NEW k \in Keys, AskRaises(k)
    PROVE  IInv'
  <1> USE NoneAssumption
  <1> DEFINE c == file.config
             fs == forced'[c]
  <1>1. /\ Askable(k) /\ (Forces(k) \/ ~CacheHit) /\ NoteKey(c, k)
        /\ UNCHANGED <<tokens, registry>> \/ BundleToken(c, file.off, fs)
        /\ cached' = IF Forces(k) THEN None ELSE cached
        /\ reply' = None
        /\ runs' = [runs EXCEPT !.forces = @ + (IF Forces(k) THEN 1 ELSE 0)]
        /\ UNCHANGED <<heap, file, loaded>>
    BY DEF AskRaises
  <1>2. /\ file # None /\ file \in Files /\ KeyTypes' /\ Keyed'
        /\ ~Forces(k) => forced' = forced
        /\ TokenTypes' /\ Tokened'
    BY <1>1, MissRight
  <1>3. runs \in [checks : Nat, forces : Nat] /\ RunsCounted /\ CacheCoherent
    BY DEF IInv, TypeOK, Answered
  <1>4. CASE Forces(k)
    <2>1. cached' = None /\ runs' = [runs EXCEPT !.forces = @ + 1]
      BY <1>1, <1>4
    <2>2. runs' \in [checks : Nat, forces : Nat] /\ RunsCounted'
      BY <1>3, <2>1 DEF RunsCounted
    <2>3. CacheCoherent'
      BY <2>1 DEF CacheCoherent
    <2>4. TypeOK'
      BY <1>1, <1>2, <2>1, <2>2 DEF IInv, TypeOK, KeyTypes, TokenTypes
    <2>5. NothingYet' /\ OffLoaded' /\ ReplyRight'
      BY <1>1, <1>2 DEF IInv, NothingYet, OffLoaded, ReplyRight
    <2>6. QED  BY <1>2, <2>2, <2>3, <2>4, <2>5 DEF IInv, Answered
  <1>5. CASE ~Forces(k)
    <2>1. cached' = cached /\ runs' = runs /\ forced' = forced /\ ~CacheHit
      <3>1. runs' = [runs EXCEPT !.forces = runs.forces + 0]
        BY <1>1, <1>5
      <3>2. runs' = runs
        BY <1>3, <3>1
      <3>3. QED  BY <1>1, <1>2, <1>5, <3>2
    <2>2. ~CacheHit' /\ RunsCounted'
      BY <1>1, <1>2, <1>3, <2>1 DEF CacheHit, RunsCounted
    <2>3. CacheCoherent'
      <3>1. ASSUME cached # None
            PROVE  Pack(cached.config, cached.inactive, forced[cached.config])'
                       = Pack(cached.config, cached.inactive, forced[cached.config])
        BY <1>1, <2>1 DEF Pack, MaskOf, SwitchesOf
      <3>2. QED  BY <1>1, <1>3, <2>1, <2>2, <3>1 DEF CacheCoherent
    <2>4. TypeOK'
      BY <1>1, <1>2, <2>1 DEF IInv, TypeOK, KeyTypes, TokenTypes
    <2>5. NothingYet' /\ OffLoaded' /\ ReplyRight'
      BY <1>1, <1>2 DEF IInv, NothingYet, OffLoaded, ReplyRight
    <2>6. QED  BY <1>2, <2>2, <2>3, <2>4, <2>5 DEF IInv, Answered
  <1>6. QED  BY <1>4, <1>5

\* Nothing happens.
LEMMA StutterHolds ==
    ASSUME IInv, UNCHANGED vars
    PROVE  IInv'
  <1> USE DEF vars
  <1>1. TypeOK' /\ NothingYet' /\ OffLoaded'
    BY DEF IInv, TypeOK, NothingYet, OffLoaded
  <1>2. Keyed' /\ Tokened'
    BY MemosKept
  <1>3. CacheCoherent'
    <2>1. Pack(cached.config, cached.inactive, forced[cached.config])'
              = Pack(cached.config, cached.inactive, forced[cached.config])
      BY DEF Pack, MaskOf, SwitchesOf
    <2>2. CacheHit' = CacheHit
      BY DEF CacheHit
    <2>3. QED  BY <2>1, <2>2 DEF IInv, Answered, CacheCoherent
  <1>4. RunsCounted' /\ ReplyRight'
    BY DEF IInv, Answered, RunsCounted, ReplyRight, CacheHit
  <1>5. QED  BY <1>1, <1>2, <1>3, <1>4 DEF IInv, Answered

\* Every reachable state satisfies the inductive invariant: each operation of
\* Dispatch preserves it.
THEOREM InvariantHolds == Spec => []IInv
  <1>1. Init => IInv
    BY InitHolds
  <1>2. IInv /\ [Next]_vars => IInv'
    <2>1. SUFFICES ASSUME IInv, [Next]_vars PROVE IInv'
      OBVIOUS
    <2>2. ASSUME NEW o \in Plugins, RegisterPluginPacker(o) PROVE IInv'
      BY <2>1, <2>2, RegisterHolds
    <2>3. ASSUME NEW cell \in Cells, NEW content \in Contents, NEW c \in Configs,
                 NEW off \in SUBSET Gated, Investigate(cell, content, c, off)
          PROVE  IInv'
      BY <2>1, <2>3, InvestigateHolds
    <2>4. ASSUME NEW c \in Configs, NEW off \in SUBSET Gated, Recheck(c, off)
          PROVE  IInv'
      BY <2>1, <2>4, RecheckHolds
    <2>5. ASSUME NEW k \in Keys, AskCached(k) \/ AskFresh(k) \/ AskRaises(k)
          PROVE  IInv'
      BY <2>1, <2>5, AskCachedHolds, AskFreshHolds, AskRaisesHolds
    <2>6. CASE UNCHANGED vars
      BY <2>1, <2>6, StutterHolds
    <2>7. QED  BY <2>1, <2>2, <2>3, <2>4, <2>5, <2>6 DEF Next
  <1>3. QED  BY <1>1, <1>2, PTL DEF Spec

-----------------------------------------------------------------------------
\* The properties the runs check, for every value of the constants.

\* Every variable of the coordinator keeps its type.
THEOREM TypeCorrect == Spec => []TypeOK
  <1>1. IInv => TypeOK
    BY DEF IInv
  <1>2. QED  BY <1>1, InvariantHolds, PTL

\* A token of bundle_token always indexes the entry packed for its config, gate
\* outcome and forced keys.
THEOREM TokensRight == Spec => []TokenNamesItsConfig
  <1>1. IInv => TokenNamesItsConfig
    BY DEF IInv, Tokened
  <1>2. QED  BY <1>1, InvariantHolds, PTL

\* register_bundle_config is never called twice with the same packed config.
THEOREM RegistryBounded == Spec => []NoEntryTwice
  <1>1. IInv => NoEntryTwice
    <2>1. SUFFICES ASSUME IInv, NEW i \in 1..Len(registry), NEW j \in 1..Len(registry),
                          registry[i] = registry[j]
                   PROVE  i = j
      BY DEF NoEntryTwice
    <2>2. PICK c \in Configs, off \in SUBSET Gated, fs \in SUBSET CoreKeys :
              tokens[<<c, off, fs>>] = i - 1
      BY <2>1 DEF IInv, Tokened, EveryEntryHasItsToken
    <2>3. PICK d \in Configs, no \in SUBSET Gated, gs \in SUBSET CoreKeys :
              tokens[<<d, no, gs>>] = j - 1
      BY <2>1 DEF IInv, Tokened, EveryEntryHasItsToken
    <2>4. i - 1 # None /\ j - 1 # None /\ (i - 1) + 1 = i /\ (j - 1) + 1 = j
      <3>1. Len(registry) \in Nat
        BY <2>1 DEF IInv, TypeOK
      <3>2. QED  BY <3>1, NoneAssumption
    <2>5. Pack(c, off, fs) = registry[i] /\ Pack(d, no, gs) = registry[j]
      BY <2>1, <2>2, <2>3, <2>4 DEF IInv, Tokened, TokenNamesItsConfig
    <2>6. /\ off \subseteq loaded /\ fs \cap Enabled[c] = {}
          /\ no \subseteq loaded /\ gs \cap Enabled[d] = {}
      BY <2>1, <2>2, <2>3, <2>4 DEF IInv, Tokened, TokenKeysApart
    <2>7. c = d /\ off = no /\ fs = gs
      BY <2>1, <2>5, <2>6, PackInjective
    <2>8. i - 1 = j - 1
      BY <2>2, <2>3, <2>7
    <2>9. QED  BY <2>4, <2>8
  <1>2. QED  BY <1>1, InvariantHolds, PTL

\* force_slot! runs at most once for a key and a config.
THEOREM ForcedOnce == Spec => []ForcedOncePerConfig
  <1>1. IInv => ForcedOncePerConfig
    BY DEF IInv, Keyed, ForcingsCounted, ForcedOncePerConfig
  <1>2. QED  BY <1>1, InvariantHolds, PTL

\* offenses_for never serves a result computed under a narrower mask.
THEOREM MaskCurrent == Spec => []CachedMaskIsCurrent
  <1>1. IInv => CachedMaskIsCurrent
    BY DEF IInv, Answered, CacheCoherent, CachedMaskIsCurrent, Pack, MaskOf
  <1>2. QED  BY <1>1, InvariantHolds, PTL

\* check_all runs once per investigation, and once more per forced key.
THEOREM OneRun == Spec => []OneRunPerInvestigation
  <1>1. IInv => OneRunPerInvestigation
    BY DEF IInv, Answered, RunsCounted, OneRunPerInvestigation
  <1>2. QED  BY <1>1, InvariantHolds, PTL

\* A wrapper takes its standalone path exactly when its gate says so.
THEOREM FallbackRight == Spec => []FallbackFollowsTheGate
  <1>1. IInv => FallbackFollowsTheGate
    BY DEF IInv, Answered, ReplyRight, FallbackFollowsTheGate
  <1>2. QED  BY <1>1, InvariantHolds, PTL

-----------------------------------------------------------------------------
\* The bundle implements the standalone cops.

\* Initial states are initial states of the specification.
LEMMA InitImplements == Init => Cops!Init
  BY DEF Init, Cops!Init, FileView, ReplyView

\* Every step is a step of the specification, or none.
LEMMA StepImplements ==
    ASSUME IInv, IInv', [Next]_vars
    PROVE  Cops!Next \/ UNCHANGED <<FileView, ReplyView>>
  <1> USE NoneAssumption
  <1>1. ASSUME NEW o \in Plugins, RegisterPluginPacker(o)
        PROVE  UNCHANGED <<FileView, ReplyView>>
    BY <1>1 DEF RegisterPluginPacker, FileView, ReplyView
  <1>2. ASSUME NEW cell \in Cells, NEW content \in Contents, NEW c \in Configs,
               NEW off \in SUBSET Gated, Investigate(cell, content, c, off)
        PROVE  Cops!Investigate
    <2>1. /\ file' # None /\ file'.cell = cell /\ file'.config = c
          /\ heap'[cell] = content /\ reply' = None
      <3>1. file' \in Files /\ file'.cell = cell /\ file'.config = c
        BY <1>2 DEF Investigate, Files
      <3>2. QED  BY <1>2, <3>1 DEF Investigate, IInv, TypeOK
    <2>2. QED  BY <2>1 DEF Cops!Investigate, FileView, ReplyView
  <1>3. ASSUME NEW c \in Configs, NEW off \in SUBSET Gated, Recheck(c, off)
        PROVE  Cops!Investigate
    <2>1. file \in Files /\ heap[file.cell] \in Contents
      BY <1>3 DEF Recheck, IInv, TypeOK, Files
    <2>2. /\ file' # None /\ file'.cell = file.cell /\ file'.config = c
          /\ heap' = heap /\ reply' = None
      <3>1. file' \in Files /\ file'.cell = file.cell /\ file'.config = c
        BY <1>3, <2>1 DEF Recheck, Files
      <3>2. QED  BY <1>3, <3>1 DEF Recheck
    <2>3. QED  BY <2>1, <2>2 DEF Cops!Investigate, FileView, ReplyView
  <1>4. file # None => FileView # None
    <2>1. ASSUME file # None
          PROVE  [content |-> heap[file.cell], config |-> file.config]
                     \in [content : Contents, config : Configs]
      BY <2>1 DEF IInv, TypeOK, Files
    <2>2. QED  BY <2>1 DEF FileView
  <1>5. ASSUME NEW k \in Keys, AskCached(k) \/ AskFresh(k)
        PROVE  Cops!Inspect(k)
    <2>1. file # None /\ UNCHANGED <<heap, file>>
      BY <1>5 DEF AskCached, AskFresh, Askable
    <2>2. reply' # None /\ reply'.key = k
      BY <1>5, AskCachedHolds, AskFreshHolds
    <2>3. reply'.value = Computed(heap[file.cell], file.config)
      BY <2>1, <2>2 DEF IInv, Answered, ReplyRight, Computed
    <2>4. FileView # None
      BY <1>4, <2>1
    <2>5. ReplyView' = [key |-> k, value |-> Computed(heap[file.cell], file.config)]
      BY <2>2, <2>3 DEF ReplyView
    <2>6. /\ UNCHANGED FileView
          /\ FileView.content = heap[file.cell] /\ FileView.config = file.config
      BY <2>1 DEF FileView
    <2>7. QED  BY <2>4, <2>5, <2>6 DEF Cops!Inspect, Cops!Computed, Computed
  <1>6. ASSUME NEW k \in Keys, AskRaises(k)
        PROVE  Cops!Fail
    <2>1. file # None /\ UNCHANGED <<heap, file>> /\ reply' = None
      BY <1>6 DEF AskRaises, Askable
    <2>2. FileView # None /\ UNCHANGED FileView /\ ReplyView' = None
      BY <1>4, <2>1 DEF FileView, ReplyView
    <2>3. QED  BY <2>2 DEF Cops!Fail
  <1>7. CASE UNCHANGED vars
    BY <1>7 DEF vars, FileView, ReplyView
  <1>8. QED  BY <1>1, <1>2, <1>3, <1>5, <1>6, <1>7 DEF Next, Cops!Next

\* Dispatch implements StandaloneCops: with all its memos, tokens, gates and
\* masks, each answer of offenses_for is what the cop's standalone entry point
\* computes for the file at hand.
THEOREM BundleTransparent == Spec => ImplementsStandaloneCops
  <1>1. Init => Cops!Init
    BY InitImplements
  <1>2. IInv /\ IInv' /\ [Next]_vars => [Cops!Next]_<<FileView, ReplyView>>
    BY StepImplements
  <1>3. QED
    BY <1>1, <1>2, InvariantHolds, PTL DEF Spec, ImplementsStandaloneCops, Cops!Spec

=============================================================================
