-------------------------------- MODULE Inject --------------------------------
(***************************************************************************)
(* Shirobai::Inject (lib/shirobai/inject.rb): how the wrapper classes take *)
(* over the badges of the stock cops in RuboCop's registry, and how the    *)
(* lists of autocorrect_incompatible_with are rewritten so that they name  *)
(* the classes a team is really made of.                                   *)
(*                                                                         *)
(* RuboCop registers a cop by name and loads its class when the constant   *)
(* is first resolved; loading enlists the class, and the class enlisted    *)
(* last owns the badge.  The queue in which the registry keeps enlisted    *)
(* classes until it is asked again is left out.                            *)
(*                                                                         *)
(* Gems are required while RuboCop resolves configs; Dispatch.bundle_token *)
(* calls align_for where it packs a config for a new token.                *)
(***************************************************************************)
EXTENDS Naturals, Sequences, FiniteSets

CONSTANTS
    Badges,      \* the cop names
    Gems,        \* rubocop, shirobai and the plugin gems
    Needs,       \* the gems that a gem requires first
    Adds,        \* the badges whose stock cops a gem registers
    Wraps,       \* the badges for which a gem defines a wrapper
    Pushes,      \* what a gem pushes onto the list of a stock cop, by prepending
    OwnList,     \* the list of each stock cop, by badge
    Configs,
    EnabledIn,   \* the badges each config enables
    TokenKeys,   \* what the tokens of one config differ by
    Late,        \* the gems a config resolved in the middle of a run may bring
    None

VARIABLES
    gems,        \* the gems required so far
    loaded,      \* the badges whose stock constant is resolved
    owner,       \* who owns each badge: a class, or None while it is but a name
    lists,       \* the list of each class, prepended modules aside
    pushed,      \* what the modules prepended so far push
    aligned,     \* @aligned
    packed,      \* the config and token keys with a memoized token
    round        \* None, or the round of corrections in progress

vars == <<gems, loaded, owner, lists, pushed, aligned, packed, round>>

Stock(b)   == [kind |-> "stock", badge |-> b]
Wrapper(b) == [kind |-> "wrapper", badge |-> b]
Classes    == [kind : {"stock", "wrapper"}, badge : Badges]
Rounds     == [config : Configs, token : {"packed", "memoized"}]

StockClasses(bs) == [i \in DOMAIN bs |-> Stock(bs[i])]

ASSUME GemsAssumption ==
    /\ IsFiniteSet(Badges)
    /\ Needs \in [Gems -> SUBSET Gems]
    /\ Adds \in [Gems -> SUBSET Badges]
    /\ Wraps \in [Gems -> SUBSET Badges]
    /\ \A g, h \in Gems : g # h => Adds[g] \cap Adds[h] = {}
    /\ \A g \in Gems : Wraps[g] \subseteq UNION {Adds[h] : h \in Needs[g]}
    /\ OwnList \in [Badges -> Seq(Badges)]
    /\ EnabledIn \in [Configs -> SUBSET Badges]

\* A module that is prepended pushes cops of its own gem, which no gem wraps.
ASSUME PushesAssumption ==
    Pushes \in [Gems -> [Badges -> Seq(Badges \ UNION {Wraps[g] : g \in Gems})]]

\* "Requiring a plugin mid-run is not supported" for the gems with wrappers.
ASSUME LateAssumption ==
    /\ Late \subseteq Gems
    /\ \A g \in Late : Wraps[g] = {} /\ Adds[g] # {}

ASSUME NoneAssumption == None \notin Classes \cup Nat \cup Rounds

-----------------------------------------------------------------------------

Registered(gs) == UNION {Adds[g] : g \in gs}
Wrapped(gs)    == UNION {Wraps[g] : g \in gs}

\* Registry#length: it counts badges and loads nothing.
RegistrySize == Cardinality(Registered(gems))

\* The replacements map, over a list: stock classes to the wrappers `wr`.
Translate(wr, s) ==
    [i \in DOMAIN s |-> IF s[i].kind = "stock" /\ s[i].badge \in wr
                        THEN Wrapper(s[i].badge) ELSE s[i]]

\* autocorrect_incompatible_with as the team calls it.
Effective(cl) == IF cl.kind = "stock" THEN lists[cl] \o pushed[cl.badge] ELSE lists[cl]

Init ==
    /\ gems = {}
    /\ loaded = {}
    /\ owner = [b \in Badges |-> None]
    /\ lists = [cl \in Classes |-> IF cl.kind = "stock" THEN StockClasses(OwnList[cl.badge])
                                   ELSE <<>>]
    /\ pushed = [b \in Badges |-> <<>>]
    /\ aligned = [c \in Configs |-> None]
    /\ packed = {}
    /\ round = None

\* Somebody resolves the constant of a stock cop: its class is enlisted.
LoadStock(b) ==
    /\ b \in Registered(gems) \ loaded
    /\ loaded' = loaded \cup {b}
    /\ owner' = [owner EXCEPT ![b] = Stock(b)]
    /\ UNCHANGED <<gems, lists, pushed, aligned, packed, round>>

\* Mutants of ClaimBadges: the badge is enlisted instead of the class; the stock
\* constants are left to be resolved.
EnlistBadges(gs) ==
    /\ loaded' = loaded \cup Wrapped(gs)
    /\ owner' = [b \in Badges |-> IF b \in Wrapped(gs) THEN b ELSE owner[b]]

ClaimUnloaded(gs) ==
    /\ loaded' = loaded
    /\ owner' = [b \in Badges |-> IF b \in Wrapped(gs) THEN Wrapper(b) ELSE owner[b]]

\* claim_badges!: every stock counterpart is loaded, then its wrapper enlisted.
ClaimBadges(gs) ==
    /\ loaded' = loaded \cup Wrapped(gs)
    /\ owner' = [b \in Badges |-> IF b \in Wrapped(gs) THEN Wrapper(b) ELSE owner[b]]

\* Mutant of BaseList: the pushes of the prepended modules are taken for base.
BakedList(cl) == Effective(cl)

\* base_incompatible_list: the method under the prepended modules.
BaseList(cl) == lists[cl]

\* align_autocorrect_incompatibilities!: wrappers get the whole list of their
\* stock cop; stock cops among `extra` have their own list rewritten.
Align(wr, extra, push) ==
    lists' = [cl \in Classes |->
                IF cl.kind = "wrapper"
                THEN IF cl.badge \in wr
                     THEN Translate(wr, lists[Stock(cl.badge)] \o push[cl.badge])
                     ELSE lists[cl]
                ELSE IF cl \in extra THEN Translate(wr, BaseList(cl)) ELSE lists[cl]]

\* require: the gem's stock cops are registered, its modules prepended; a gem
\* with wrappers defines them and calls activate!.
Require(g) ==
    /\ round = None
    /\ g \notin gems /\ Needs[g] \subseteq gems
    /\ packed = {} \/ g \in Late
    /\ gems' = gems \cup {g}
    /\ pushed' = [b \in Badges |-> pushed[b] \o StockClasses(Pushes[g][b])]
    /\ IF Wraps[g] = {}
       THEN UNCHANGED <<loaded, owner, lists>>
       ELSE /\ ClaimBadges(gems')
            /\ Align(Wrapped(gems'), {}, pushed')
    /\ UNCHANGED <<aligned, packed, round>>

\* Registry#enabled loads the cops it returns.
Enabled(c) == EnabledIn[c] \cap Registered(gems)
LoadEnabled(c) ==
    /\ loaded' = loaded \cup Enabled(c)
    /\ owner' = [b \in Badges |-> IF b \in Enabled(c) \ loaded THEN Stock(b) ELSE owner[b]]

\* Mutant of AlreadyAligned: once for each config.
AlignedOnce(c) == aligned[c] # None

AlreadyAligned(c) == aligned[c] = RegistrySize

AlignFor(c) ==
    IF AlreadyAligned(c) THEN UNCHANGED <<aligned, lists>>
    ELSE /\ aligned' = [aligned EXCEPT ![c] = RegistrySize]
         /\ Align(Wrapped(gems), {owner'[b] : b \in Enabled(c)}, pushed)

\* A team is built, and a wrapper of it asks for its offenses: bundle_token has
\* a token or packs the config, and align_for is called.  The round of
\* corrections follows.
BeginRound(c, k) ==
    /\ round = None
    /\ Enabled(c) \cap Wrapped(gems) # {}
    /\ LoadEnabled(c)
    /\ IF <<c, k>> \in packed THEN UNCHANGED <<aligned, lists>> ELSE AlignFor(c)
    /\ packed' = packed \cup {<<c, k>>}
    /\ round' = [config |-> c, token |-> IF <<c, k>> \in packed THEN "memoized" ELSE "packed"]
    /\ UNCHANGED <<gems, pushed>>

\* Mutant of AfterCall: the rewritten method returns its own array, onto which
\* the prepended modules push.
SharedList(cl) == Effective(cl)

\* The list after it was called: a fresh copy was returned.
AfterCall(cl) == lists[cl]

\* Team#each_corrector has asked every cop of the team for its list.
EndRound ==
    /\ round # None
    /\ lists' = [cl \in Classes |-> IF cl \in {owner[b] : b \in Enabled(round.config)}
                                    THEN AfterCall(cl) ELSE lists[cl]]
    /\ round' = None
    /\ UNCHANGED <<gems, loaded, owner, pushed, aligned, packed>>

Next ==
    \/ \E b \in Badges : LoadStock(b)
    \/ \E g \in Gems : Require(g)
    \/ \E c \in Configs, k \in TokenKeys : BeginRound(c, k)
    \/ EndRound

Spec == Init /\ [][Next]_vars

-----------------------------------------------------------------------------

\* Every variable has its type.
TypeOK ==
    /\ gems \in SUBSET Gems
    /\ loaded \in SUBSET Badges
    /\ owner \in [Badges -> Classes \cup {None}]
    /\ lists \in [Classes -> Seq(Classes)]
    /\ pushed \in [Badges -> Seq(Classes)]
    /\ aligned \in [Configs -> Nat \cup {None}]
    /\ packed \in SUBSET (Configs \X TokenKeys)
    /\ round \in Rounds \cup {None}

\* A badge with a wrapper is owned by it, whichever stock class is loaded later
\* and by whom: claim_badges! "closes every such path at require time".
BadgesClaimed == \A b \in Wrapped(gems) : owner[b] = Wrapper(b)

\* The lists of the team under `round` are those of the stock team, with every
\* replaced class translated, in order and without duplicates.
SkipsLikeStock ==
    \A b \in Enabled(round.config) :
        Effective(owner[b]) =
            Translate(Wrapped(gems), StockClasses(OwnList[b]) \o pushed[b])

\* In a round for which a config was packed, a corrector is skipped if and only
\* if stock would skip it, also when a gem was required since the last one.
PackedRoundSkipsLikeStock == round # None /\ round.token = "packed" => SkipsLikeStock

\* The same in every round: "a size change re-runs the alignment mid-run".
EveryRoundSkipsLikeStock == round # None => SkipsLikeStock

=============================================================================
