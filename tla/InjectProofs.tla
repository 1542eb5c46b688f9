----------------------------- MODULE InjectProofs -----------------------------
(***************************************************************************)
(* Theorems about Inject.  The lemmas say what Translate does: it keeps    *)
(* the type of a list, does nothing a second time, distributes over        *)
(* concatenation and leaves alone what no gem wraps.  The invariant says   *)
(* that a list always translates to the translated list of its stock cop,  *)
(* and that a config counted as aligned has the right lists.               *)
(***************************************************************************)
EXTENDS Inject, TLAPS, SequenceTheorems, FiniteSetTheorems

\* The badges some gem wraps, and the stock classes no gem ever replaces.
Wrappable == UNION {Wraps[g] : g \in Gems}
Unwrapped == {Stock(b) : b \in Badges \ Wrappable}

\* The list of a stock cop as its source has it.
Own(b) == StockClasses(OwnList[b])

-----------------------------------------------------------------------------

\* Stock and wrapper classes have the badge they are named for.
LEMMA ClassKinds ==
    ASSUME NEW b \in Badges
    PROVE  /\ Stock(b) \in Classes /\ Stock(b).kind = "stock" /\ Stock(b).badge = b
           /\ Wrapper(b) \in Classes /\ Wrapper(b).kind = "wrapper" /\ Wrapper(b).badge = b
           /\ Stock(b) # None /\ Wrapper(b) # None
  BY NoneAssumption DEF Stock, Wrapper, Classes

\* A class is the stock class or the wrapper of its badge.
LEMMA ClassIs ==
    ASSUME NEW cl \in Classes
    PROVE  /\ cl.badge \in Badges
           /\ \/ cl.kind = "stock" /\ cl = Stock(cl.badge)
              \/ cl.kind = "wrapper" /\ cl = Wrapper(cl.badge)
  BY DEF Stock, Wrapper, Classes

\* Translate keeps length and type.
LEMMA TranslateType ==
    ASSUME NEW wr \in SUBSET Badges, NEW s \in Seq(Classes)
    PROVE  /\ Translate(wr, s) \in Seq(Classes)
           /\ Len(Translate(wr, s)) = Len(s)
           /\ \A i \in 1 .. Len(s) :
                Translate(wr, s)[i] = IF s[i].kind = "stock" /\ s[i].badge \in wr
                                      THEN Wrapper(s[i].badge) ELSE s[i]
  <1> DEFINE t == Translate(wr, s)
  <1>1. /\ Len(s) \in Nat /\ DOMAIN s = 1 .. Len(s)
        /\ \A i \in 1 .. Len(s) : s[i] \in Classes
    BY LenProperties, ElementOfSeq
  <1>2. /\ DOMAIN t = 1 .. Len(s)
        /\ \A i \in 1 .. Len(s) : t[i] = IF s[i].kind = "stock" /\ s[i].badge \in wr
                                         THEN Wrapper(s[i].badge) ELSE s[i]
    BY <1>1 DEF Translate
  <1>3. \A i \in 1 .. Len(s) : t[i] \in Classes
    BY <1>1, <1>2, ClassKinds
  <1>4. t = [i \in 1 .. Len(s) |-> t[i]]
    BY <1>1 DEF Translate
  <1>5. t \in Seq(Classes) /\ Len(t) = Len(s)
    <2> HIDE DEF t
    <2>1. [i \in 1 .. Len(s) |-> t[i]] \in Seq(Classes)
      BY <1>1, <1>3, IsASeq
    <2> QED BY <2>1, <1>1, <1>2, <1>4, LenProperties
  <1> QED BY <1>2, <1>5

\* Alignment is idempotent, also when more wrappers were defined in between.
LEMMA TranslateTwice ==
    ASSUME NEW wr \in SUBSET Badges, NEW more \in SUBSET Badges, wr \subseteq more,
           NEW s \in Seq(Classes)
    PROVE  Translate(more, Translate(wr, s)) = Translate(more, s)
  <1> DEFINE t == Translate(wr, s)
  <1>1. t \in Seq(Classes) /\ Len(t) = Len(s)
    BY TranslateType
  <1>2. /\ Translate(more, t) \in Seq(Classes) /\ Len(Translate(more, t)) = Len(s)
        /\ Translate(more, s) \in Seq(Classes) /\ Len(Translate(more, s)) = Len(s)
    <2> HIDE DEF t
    <2> QED BY <1>1, TranslateType
  <1>3. ASSUME NEW i \in 1 .. Len(s)
        PROVE  Translate(more, t)[i] = Translate(more, s)[i]
    <2>1. s[i] \in Classes
      BY ElementOfSeq
    <2>2. t[i] = IF s[i].kind = "stock" /\ s[i].badge \in wr THEN Wrapper(s[i].badge) ELSE s[i]
      BY TranslateType
    <2>3. Translate(more, s)[i] =
            IF s[i].kind = "stock" /\ s[i].badge \in more THEN Wrapper(s[i].badge) ELSE s[i]
      BY TranslateType
    <2>4. Translate(more, t)[i] =
            IF t[i].kind = "stock" /\ t[i].badge \in more THEN Wrapper(t[i].badge) ELSE t[i]
      <3> HIDE DEF t
      <3> QED BY <1>1, TranslateType
    <2> HIDE DEF t
    <2>5. CASE s[i].kind = "stock" /\ s[i].badge \in wr
      BY <2>1, <2>2, <2>3, <2>4, <2>5, ClassKinds
    <2>6. CASE ~(s[i].kind = "stock" /\ s[i].badge \in wr)
      BY <2>2, <2>3, <2>4, <2>6
    <2> QED BY <2>5, <2>6
  <1> QED BY <1>2, <1>3, SeqEqual

\* Translating a concatenation is concatenating the translations.
LEMMA TranslateConcat ==
    ASSUME NEW wr \in SUBSET Badges, NEW s \in Seq(Classes), NEW t \in Seq(Classes)
    PROVE  Translate(wr, s \o t) = Translate(wr, s) \o Translate(wr, t)
  <1> DEFINE S == Translate(wr, s)
             T == Translate(wr, t)
             L == Translate(wr, s \o t)
  <1>1. /\ s \o t \in Seq(Classes) /\ Len(s \o t) = Len(s) + Len(t)
        /\ Len(s) \in Nat /\ Len(t) \in Nat
        /\ \A i \in 1 .. Len(s) + Len(t) :
             (s \o t)[i] = IF i <= Len(s) THEN s[i] ELSE t[i - Len(s)]
    BY ConcatProperties, LenProperties
  <1>2. /\ S \in Seq(Classes) /\ Len(S) = Len(s) /\ T \in Seq(Classes) /\ Len(T) = Len(t)
        /\ L \in Seq(Classes) /\ Len(L) = Len(s) + Len(t)
    BY <1>1, TranslateType
  <1>3. /\ S \o T \in Seq(Classes) /\ Len(S \o T) = Len(s) + Len(t)
        /\ \A i \in 1 .. Len(s) + Len(t) :
             (S \o T)[i] = IF i <= Len(s) THEN S[i] ELSE T[i - Len(s)]
    <2>1. S \in Seq(Classes) /\ T \in Seq(Classes) /\ Len(S) = Len(s) /\ Len(T) = Len(t)
      BY <1>2
    <2> HIDE DEF S, T, L
    <2>2. /\ S \o T \in Seq(Classes) /\ Len(S \o T) = Len(S) + Len(T)
          /\ \A i \in 1 .. Len(S) + Len(T) :
               (S \o T)[i] = IF i <= Len(S) THEN S[i] ELSE T[i - Len(S)]
      BY <2>1, ConcatProperties
    <2> QED BY <2>1, <2>2
  <1>4. ASSUME NEW i \in 1 .. Len(s) + Len(t)
        PROVE  L[i] = (S \o T)[i]
    <2>1. L[i] = IF (s \o t)[i].kind = "stock" /\ (s \o t)[i].badge \in wr
                 THEN Wrapper((s \o t)[i].badge) ELSE (s \o t)[i]
      <3>1. \A j \in 1 .. Len(s \o t) :
              L[j] = IF (s \o t)[j].kind = "stock" /\ (s \o t)[j].badge \in wr
                     THEN Wrapper((s \o t)[j].badge) ELSE (s \o t)[j]
        BY <1>1, TranslateType
      <3>2. i \in 1 .. Len(s \o t)
        BY <1>1
      <3> HIDE DEF L
      <3> QED BY <3>1, <3>2
    <2>2. CASE i <= Len(s)
      <3>1. i \in 1 .. Len(s) /\ (s \o t)[i] = s[i] /\ (S \o T)[i] = S[i]
        <4> HIDE DEF S, T
        <4> QED BY <1>1, <1>3, <2>2
      <3> QED BY <2>1, <3>1, TranslateType
    <2>3. CASE ~(i <= Len(s))
      <3>1. /\ i - Len(s) \in 1 .. Len(t)
            /\ (s \o t)[i] = t[i - Len(s)] /\ (S \o T)[i] = T[i - Len(s)]
        <4> HIDE DEF S, T
        <4> QED BY <1>1, <1>3, <2>3
      <3> QED BY <2>1, <3>1, TranslateType
    <2> QED BY <2>2, <2>3
  <1> QED
    <2> HIDE DEF S, T, L
    <2>1. L = S \o T
      BY <1>2, <1>3, <1>4, SeqEqual
    <2> QED BY <2>1 DEF S, T, L

\* Classes no gem wraps are left alone.
LEMMA TranslateNoop ==
    ASSUME NEW wr \in SUBSET Wrappable, Wrappable \subseteq Badges, NEW s \in Seq(Unwrapped)
    PROVE  Translate(wr, s) = s
  <1>1. Unwrapped \subseteq Classes
    BY ClassKinds DEF Unwrapped
  <1>2. s \in Seq(Classes)
    BY <1>1, SeqMonotonic
  <1>3. Translate(wr, s) \in Seq(Classes) /\ Len(Translate(wr, s)) = Len(s)
    BY <1>2, TranslateType
  <1>4. ASSUME NEW i \in 1 .. Len(s)
        PROVE  Translate(wr, s)[i] = s[i]
    <2>1. s[i] \in Unwrapped
      BY ElementOfSeq
    <2>2. s[i].badge \notin wr
      BY <2>1, ClassKinds DEF Unwrapped
    <2> QED BY <1>2, <2>2, TranslateType
  <1> QED BY <1>2, <1>3, <1>4, SeqEqual

-----------------------------------------------------------------------------

\* What the modules prepended push is never replaced.
PushesUnwrapped == pushed \in [Badges -> Seq(Unwrapped)]

\* A gem is required after those it needs.
NeedsClosed == \A g \in gems : Needs[g] \subseteq gems

\* A loaded badge has its last class: the wrapper where there is one.
Owners ==
    /\ Wrapped(gems) \subseteq loaded
    /\ loaded \subseteq Registered(gems)
    /\ \A b \in loaded : owner[b] = IF b \in Wrapped(gems) THEN Wrapper(b) ELSE Stock(b)

\* A stock list is the one of its source, perhaps translated before, perhaps for
\* fewer wrappers than there are now.
ListsTranslate ==
    \A b \in Badges :
        Translate(Wrapped(gems), lists[Stock(b)]) = Translate(Wrapped(gems), Own(b))

\* The lists of the team of config c are right.
Right(c) ==
    \A b \in Enabled(c) :
        /\ b \in loaded
        /\ IF b \in Wrapped(gems)
           THEN lists[Wrapper(b)] = Translate(Wrapped(gems), Own(b) \o pushed[b])
           ELSE lists[Stock(b)] \o pushed[b] = Translate(Wrapped(gems), Own(b) \o pushed[b])

\* A config aligned at the current size of the registry has the right lists.
AlignedRight == \A c \in Configs : aligned[c] = RegistrySize => Right(c)

\* The registry only grows.
AlignedSmaller == \A c \in Configs : aligned[c] # None => aligned[c] <= RegistrySize

\* Nothing is aligned before a token is packed; without late gems what was packed
\* stays aligned.
PackedAligned ==
    /\ \A c \in Configs : aligned[c] # None => packed # {}
    /\ Late = {} => \A c \in Configs, k \in TokenKeys :
                        <<c, k>> \in packed => aligned[c] = RegistrySize

\* A round that was packed for, and any round without late gems, is right.
RoundRight ==
    round # None /\ (round.token = "packed" \/ Late = {}) => Right(round.config)

IInv ==
    /\ TypeOK
    /\ PushesUnwrapped
    /\ NeedsClosed
    /\ Owners
    /\ ListsTranslate
    /\ AlignedRight
    /\ AlignedSmaller
    /\ PackedAligned
    /\ RoundRight

-----------------------------------------------------------------------------

\* What the assumptions say of any set of gems that were required.
LEMMA GemSets ==
    ASSUME NEW gs \in SUBSET Gems
    PROVE  /\ Wrapped(gs) \in SUBSET Wrappable /\ Wrapped(gs) \in SUBSET Badges
           /\ Registered(gs) \in SUBSET Badges
           /\ Cardinality(Registered(gs)) \in Nat
           /\ (\A g \in gs : Needs[g] \subseteq gs) => Wrapped(gs) \subseteq Registered(gs)
           /\ Wrappable \subseteq Badges
  <1>1. /\ Wrapped(gs) \in SUBSET Wrappable /\ Wrapped(gs) \in SUBSET Badges
        /\ Registered(gs) \in SUBSET Badges /\ Wrappable \subseteq Badges
    BY GemsAssumption DEF Wrapped, Registered, Wrappable
  <1>2. Cardinality(Registered(gs)) \in Nat
    BY <1>1, GemsAssumption, FS_Subset, FS_CardinalityType
  <1>3. ASSUME \A g \in gs : Needs[g] \subseteq gs, NEW b \in Wrapped(gs)
        PROVE  b \in Registered(gs)
    <2>1. PICK g \in gs : b \in Wraps[g]
      BY DEF Wrapped
    <2>2. PICK h \in Needs[g] : b \in Adds[h]
      BY <2>1, GemsAssumption
    <2> QED BY <1>3, <2>2 DEF Registered
  <1> QED BY <1>1, <1>2, <1>3

\* A gem that registers badges makes the registry larger.
LEMMA RegistryGrows ==
    ASSUME NEW gs \in SUBSET Gems, NEW g \in Gems \ gs
    PROVE  /\ Cardinality(Registered(gs)) <= Cardinality(Registered(gs \cup {g}))
           /\ Adds[g] # {} => Cardinality(Registered(gs)) < Cardinality(Registered(gs \cup {g}))
  <1> DEFINE old == Registered(gs)
             new == Registered(gs \cup {g})
  <1>1. /\ new \in SUBSET Badges /\ old \subseteq new
        /\ new = old \cup Adds[g] /\ old \cap Adds[g] = {}
    <2>1. Adds \in [Gems -> SUBSET Badges]
      BY GemsAssumption
    <2>2. new \in SUBSET Badges
      BY <2>1 DEF Registered
    <2>3. new = old \cup Adds[g]
      BY <2>1 DEF Registered
    <2>4. ASSUME NEW h \in gs, NEW b \in Adds[h], b \in Adds[g]
          PROVE  FALSE
      BY <2>4, GemsAssumption
    <2>5. old \cap Adds[g] = {}
      BY <2>4 DEF Registered
    <2> HIDE DEF old, new
    <2> QED BY <2>2, <2>3, <2>5
  <1> HIDE DEF old, new
  <1>2. IsFiniteSet(new)
    BY <1>1, GemsAssumption, FS_Subset
  <1>3. /\ Cardinality(old) <= Cardinality(new)
        /\ Cardinality(old) = Cardinality(new) => old = new
        /\ Cardinality(old) \in Nat /\ Cardinality(new) \in Nat
    BY <1>1, <1>2, FS_Subset, FS_CardinalityType
  <1>4. Adds[g] # {} => old # new
    BY <1>1
  <1>5. /\ Cardinality(old) <= Cardinality(new)
        /\ Adds[g] # {} => Cardinality(old) < Cardinality(new)
    BY <1>3, <1>4
  <1> QED BY <1>5 DEF old, new

\* A list of a source is a list of classes.
LEMMA OwnType ==
    ASSUME NEW b \in Badges
    PROVE  Own(b) \in Seq(Classes)
  <1> DEFINE s == OwnList[b]
  <1>1. s \in Seq(Badges)
    BY GemsAssumption
  <1> HIDE DEF s
  <1>2. /\ Len(s) \in Nat /\ DOMAIN s = 1 .. Len(s)
        /\ \A i \in 1 .. Len(s) : Stock(s[i]) \in Classes
    BY <1>1, LenProperties, ElementOfSeq, ClassKinds
  <1>3. [i \in 1 .. Len(s) |-> Stock(s[i])] \in Seq(Classes)
    BY <1>2, IsASeq
  <1> QED BY <1>2, <1>3 DEF Own, StockClasses, s

\* A gem pushes only what no gem wraps.
LEMMA PushedType ==
    ASSUME NEW g \in Gems, NEW b \in Badges
    PROVE  StockClasses(Pushes[g][b]) \in Seq(Unwrapped)
  <1> DEFINE s == Pushes[g][b]
  <1>1. s \in Seq(Badges \ Wrappable)
    BY PushesAssumption DEF Wrappable
  <1> HIDE DEF s
  <1>2. /\ Len(s) \in Nat /\ DOMAIN s = 1 .. Len(s)
        /\ \A i \in 1 .. Len(s) : s[i] \in Badges \ Wrappable
    BY <1>1, LenProperties, ElementOfSeq
  <1>3. \A i \in 1 .. Len(s) : Stock(s[i]) \in Unwrapped
    BY <1>2 DEF Unwrapped
  <1>4. [i \in 1 .. Len(s) |-> Stock(s[i])] \in Seq(Unwrapped)
    BY <1>2, <1>3, IsASeq
  <1> QED BY <1>2, <1>4 DEF StockClasses, s

\* Two lists with the same translation keep it when the same pushes follow, and
\* the base of a list may be translated under them.
LEMMA SameTranslation ==
    ASSUME NEW wr \in SUBSET Wrappable, Wrappable \subseteq Badges,
           NEW s \in Seq(Classes), NEW o \in Seq(Classes), NEW p \in Seq(Unwrapped),
           Translate(wr, s) = Translate(wr, o)
    PROVE  /\ Translate(wr, s \o p) = Translate(wr, o \o p)
           /\ Translate(wr, s) \o p = Translate(wr, o \o p)
  <1>1. p \in Seq(Classes)
    BY SeqMonotonic, ClassKinds DEF Unwrapped
  <1>3. Translate(wr, p) = p
    BY TranslateNoop
  <1>4. /\ Translate(wr, s \o p) = Translate(wr, s) \o Translate(wr, p)
        /\ Translate(wr, o \o p) = Translate(wr, o) \o Translate(wr, p)
    BY <1>1, TranslateConcat
  <1> QED BY <1>3, <1>4

\* Two lists with the same translation keep it when more is wrapped.
LEMMA MoreWrapped ==
    ASSUME NEW wr \in SUBSET Badges, NEW more \in SUBSET Badges, wr \subseteq more,
           NEW s \in Seq(Classes), NEW o \in Seq(Classes), Translate(wr, s) = Translate(wr, o)
    PROVE  Translate(more, s) = Translate(more, o)
  <1>1. /\ Translate(more, Translate(wr, s)) = Translate(more, s)
        /\ Translate(more, Translate(wr, o)) = Translate(more, o)
    BY TranslateTwice
  <1> QED BY <1>1

-----------------------------------------------------------------------------

\* The lists that Align makes of the lists `old`.
AlignedLists(old, wr, extra, push) ==
    [cl \in Classes |->
        IF cl.kind = "wrapper"
        THEN IF cl.badge \in wr THEN Translate(wr, old[Stock(cl.badge)] \o push[cl.badge])
             ELSE old[cl]
        ELSE IF cl \in extra THEN Translate(wr, old[cl]) ELSE old[cl]]

\* What these lists are, class by class.
IsAligned(new, old, wr, extra, push) ==
    /\ new \in [Classes -> Seq(Classes)]
    /\ \A b \in Badges :
         /\ new[Stock(b)] = IF Stock(b) \in extra THEN Translate(wr, old[Stock(b)])
                            ELSE old[Stock(b)]
         /\ new[Wrapper(b)] = IF b \in wr THEN Translate(wr, old[Stock(b)] \o push[b])
                              ELSE old[Wrapper(b)]

\* Align makes them so.
LEMMA AlignEffect ==
    ASSUME NEW wr \in SUBSET Badges, NEW extra, NEW push \in [Badges -> Seq(Classes)],
           NEW old \in [Classes -> Seq(Classes)]
    PROVE  IsAligned(AlignedLists(old, wr, extra, push), old, wr, extra, push)
  <1> DEFINE new(cl) == IF cl.kind = "wrapper"
                        THEN IF cl.badge \in wr
                             THEN Translate(wr, old[Stock(cl.badge)] \o push[cl.badge])
                             ELSE old[cl]
                        ELSE IF cl \in extra THEN Translate(wr, old[cl]) ELSE old[cl]
  <1>1. AlignedLists(old, wr, extra, push) = [cl \in Classes |-> new(cl)]
    BY DEF AlignedLists
  <1>2. old \in [Classes -> Seq(Classes)]
    OBVIOUS
  <1>3. ASSUME NEW cl \in Classes
        PROVE  new(cl) \in Seq(Classes)
    <2>1. old[cl] \in Seq(Classes) /\ Translate(wr, old[cl]) \in Seq(Classes)
      BY <1>2, TranslateType
    <2>2. cl.badge \in Badges
      BY ClassIs
    <2>3. old[Stock(cl.badge)] \in Seq(Classes) /\ push[cl.badge] \in Seq(Classes)
      BY <1>2, <2>2, ClassKinds
    <2>4. old[Stock(cl.badge)] \o push[cl.badge] \in Seq(Classes)
      BY <2>3, ConcatProperties
    <2>5. Translate(wr, old[Stock(cl.badge)] \o push[cl.badge]) \in Seq(Classes)
      BY <2>4, TranslateType
    <2> QED BY <2>1, <2>5
  <1>4. ASSUME NEW b \in Badges
        PROVE  /\ new(Stock(b)) = IF Stock(b) \in extra THEN Translate(wr, old[Stock(b)])
                                  ELSE old[Stock(b)]
               /\ new(Wrapper(b)) = IF b \in wr
                                    THEN Translate(wr, old[Stock(b)] \o push[b])
                                    ELSE old[Wrapper(b)]
    BY ClassKinds
  <1> HIDE DEF new
  <1> QED BY <1>1, <1>3, <1>4, ClassKinds DEF IsAligned

\* Loading the cops of a config gives their badges an owner and takes none away.
LEMMA LoadEffect ==
    ASSUME TypeOK, NeedsClosed, Owners, NEW c \in Configs, LoadEnabled(c), gems' = gems
    PROVE  /\ loaded' \in SUBSET Badges /\ owner' \in [Badges -> Classes \cup {None}]
           /\ Owners' /\ loaded \subseteq loaded'
           /\ \A b \in Enabled(c) : b \in loaded' \cap Badges
  <1>1. gems \in SUBSET Gems /\ loaded \in SUBSET Badges /\ owner \in [Badges -> Classes \cup {None}]
    BY DEF TypeOK
  <1>2. Enabled(c) \subseteq Badges /\ Enabled(c) \subseteq Registered(gems)
    BY <1>1, GemSets DEF Enabled
  <1>3. loaded' = loaded \cup Enabled(c)
    BY DEF LoadEnabled
  <1>4. owner' \in [Badges -> Classes \cup {None}]
    BY <1>1, ClassKinds DEF LoadEnabled
  <1>5. ASSUME NEW b \in loaded'
        PROVE  owner'[b] = IF b \in Wrapped(gems) THEN Wrapper(b) ELSE Stock(b)
    <2>1. owner'[b] = IF b \in Enabled(c) \ loaded THEN Stock(b) ELSE owner[b]
      BY <1>1, <1>2, <1>3 DEF LoadEnabled
    <2> QED BY <1>3, <2>1 DEF Owners
  <1>6. Owners'
    BY <1>2, <1>3, <1>5 DEF Owners, Wrapped, Registered
  <1> QED BY <1>1, <1>2, <1>3, <1>4, <1>6

\* align_for leaves the lists of its config right, and those of a config whose
\* lists were right.
LEMMA AlignForEffect ==
    ASSUME IInv, NEW c \in Configs, LoadEnabled(c), AlignFor(c), UNCHANGED <<gems, pushed>>
    PROVE  /\ lists' \in [Classes -> Seq(Classes)]
           /\ aligned' = [aligned EXCEPT ![c] = RegistrySize]
           /\ ListsTranslate'
           /\ Right(c)'
           /\ \A d \in Configs : Right(d) => Right(d)'
  <1>1. /\ TypeOK /\ NeedsClosed /\ Owners /\ ListsTranslate /\ AlignedRight /\ PushesUnwrapped
        /\ gems' = gems /\ pushed' = pushed
        /\ lists \in [Classes -> Seq(Classes)] /\ aligned \in [Configs -> Nat \cup {None}]
        /\ gems \in SUBSET Gems /\ pushed \in [Badges -> Seq(Classes)]
    BY DEF IInv, TypeOK
  <1>2. /\ Wrapped(gems) \in SUBSET Wrappable /\ Wrapped(gems) \in SUBSET Badges
        /\ Wrappable \subseteq Badges
    BY <1>1, GemSets
  <1>3. /\ Owners' /\ loaded \subseteq loaded' /\ \A b \in Enabled(c) : b \in loaded' \cap Badges
    BY <1>1, LoadEffect
  <1>4. \A d \in Configs : Enabled(d) \subseteq Badges /\ Enabled(d)' = Enabled(d)
    BY <1>1, GemSets DEF Enabled
  <1>5. CASE AlreadyAligned(c)
    <2>1. lists' = lists /\ aligned' = aligned /\ aligned[c] = RegistrySize
      BY <1>5 DEF AlignFor, AlreadyAligned
    <2>2. ListsTranslate'
      BY <1>1, <2>1 DEF ListsTranslate
    <2>3. ASSUME NEW d \in Configs, Right(d)
          PROVE  Right(d)'
      <3>1. ASSUME NEW b \in Enabled(d)'
            PROVE  /\ b \in loaded'
                   /\ IF b \in Wrapped(gems)'
                      THEN lists'[Wrapper(b)] = Translate(Wrapped(gems)', Own(b) \o pushed'[b])
                      ELSE lists'[Stock(b)] \o pushed'[b]
                             = Translate(Wrapped(gems)', Own(b) \o pushed'[b])
        BY <1>1, <1>3, <1>4, <2>1, <2>3 DEF Right
      <3> QED BY <3>1 DEF Right
    <2>4. Right(c)
      BY <1>1, <2>1 DEF AlignedRight
    <2> QED BY <1>1, <2>1, <2>2, <2>3, <2>4
  <1>6. CASE ~AlreadyAligned(c)
    <2>1. PICK ext : ext = {owner'[b] : b \in Enabled(c)}
      OBVIOUS
    <2>2. PICK wr \in SUBSET Wrappable : wr = Wrapped(gems)
      BY <1>2
    <2>3. PICK push \in [Badges -> Seq(Classes)] : push = pushed
      BY <1>1
    <2>4. Align(wr, ext, push) /\ aligned' = [aligned EXCEPT ![c] = RegistrySize]
      BY <1>6, <2>1, <2>2, <2>3 DEF AlignFor
    <2>5. /\ lists' \in [Classes -> Seq(Classes)]
          /\ \A b \in Badges :
               /\ lists'[Stock(b)] = IF Stock(b) \in ext THEN Translate(wr, lists[Stock(b)])
                                     ELSE lists[Stock(b)]
               /\ lists'[Wrapper(b)] = IF b \in wr
                                       THEN Translate(wr, lists[Stock(b)] \o push[b])
                                       ELSE lists[Wrapper(b)]
      <3>1. PICK old \in [Classes -> Seq(Classes)] : old = lists
        BY <1>1
      <3>2. lists' = AlignedLists(old, wr, ext, push)
        BY <2>4, <3>1 DEF Align, BaseList, AlignedLists
      <3>3. /\ wr \in SUBSET Badges /\ push \in [Badges -> Seq(Classes)]
            /\ old \in [Classes -> Seq(Classes)]
        BY <1>1, <1>2, <2>2, <2>3, <3>1
      <3>4. IsAligned(AlignedLists(old, wr, ext, push), old, wr, ext, push)
        BY <3>3, AlignEffect
      <3> QED BY <3>1, <3>2, <3>4 DEF IsAligned
    <2>6. ASSUME NEW b \in Badges
          PROVE  /\ lists[Stock(b)] \in Seq(Classes) /\ Own(b) \in Seq(Classes)
                 /\ push[b] \in Seq(Unwrapped)
                 /\ Translate(wr, lists[Stock(b)]) = Translate(wr, Own(b))
      <3>1. lists[Stock(b)] \in Seq(Classes) /\ Own(b) \in Seq(Classes)
        BY <1>1, OwnType, ClassKinds
      <3>2. push[b] \in Seq(Unwrapped)
        BY <1>1, <2>3 DEF PushesUnwrapped
      <3>3. Translate(wr, lists[Stock(b)]) = Translate(wr, Own(b))
        BY <1>1, <2>2 DEF ListsTranslate
      <3> QED BY <3>1, <3>2, <3>3
    <2>7. ASSUME NEW b \in Badges
          PROVE  /\ Translate(wr, lists'[Stock(b)]) = Translate(wr, Own(b))
                 /\ b \in wr => lists'[Wrapper(b)] = Translate(wr, Own(b) \o push[b])
                 /\ Stock(b) \in ext => lists'[Stock(b)] \o push[b] = Translate(wr, Own(b) \o push[b])
      <3>1. /\ Translate(wr, lists[Stock(b)] \o push[b]) = Translate(wr, Own(b) \o push[b])
            /\ Translate(wr, lists[Stock(b)]) \o push[b] = Translate(wr, Own(b) \o push[b])
        <4>1. PICK old \in Seq(Classes), own \in Seq(Classes), p \in Seq(Unwrapped) :
                old = lists[Stock(b)] /\ own = Own(b) /\ p = push[b]
          BY <2>6
        <4>2. Translate(wr, old) = Translate(wr, own)
          BY <2>6, <4>1
        <4>3. Wrappable \subseteq Badges /\ wr \in SUBSET Wrappable
          BY <1>2, <2>2
        <4>4. /\ Translate(wr, old \o p) = Translate(wr, own \o p)
              /\ Translate(wr, old) \o p = Translate(wr, own \o p)
          BY <4>2, <4>3, SameTranslation
        <4> QED BY <4>1, <4>4
      <3>2. Translate(wr, Translate(wr, lists[Stock(b)])) = Translate(wr, lists[Stock(b)])
        BY <1>2, <2>6, TranslateTwice
      <3> QED BY <2>5, <2>6, <3>1, <3>2
    <2>8. ListsTranslate'
      BY <1>1, <2>2, <2>7 DEF ListsTranslate
    <2>9. Right(c)'
      <3>1. ASSUME NEW b \in Enabled(c)
            PROVE  /\ b \in loaded' /\ b \in Badges
                   /\ b \notin wr => Stock(b) \in ext
        <4>1. b \in loaded' /\ b \in Badges
          BY <1>3
        <4>2. owner'[b] = IF b \in wr THEN Wrapper(b) ELSE Stock(b)
          BY <1>1, <1>3, <2>2 DEF Owners
        <4> QED BY <2>1, <4>1, <4>2
      <3>2. ASSUME NEW b \in Enabled(c)
            PROVE  /\ b \in loaded'
                   /\ IF b \in wr THEN lists'[Wrapper(b)] = Translate(wr, Own(b) \o push[b])
                      ELSE lists'[Stock(b)] \o push[b] = Translate(wr, Own(b) \o push[b])
        BY <2>7, <3>1
      <3> QED BY <1>1, <1>4, <2>2, <2>3, <3>2 DEF Right
    <2>10. ASSUME NEW d \in Configs, Right(d)
           PROVE  Right(d)'
      <3>1. ASSUME NEW b \in Enabled(d)
            PROVE  /\ b \in loaded'
                   /\ IF b \in wr THEN lists'[Wrapper(b)] = Translate(wr, Own(b) \o push[b])
                      ELSE lists'[Stock(b)] \o push[b] = Translate(wr, Own(b) \o push[b])
        <4>1. b \in Badges /\ b \in loaded'
          BY <1>3, <1>4, <2>10 DEF Right
        <4>2. b \notin wr => lists[Stock(b)] \o push[b] = Translate(wr, Own(b) \o push[b])
          BY <2>2, <2>3, <2>10 DEF Right
        <4>3. CASE Stock(b) \in ext
          BY <2>7, <4>1, <4>3
        <4>4. CASE Stock(b) \notin ext
          BY <2>5, <2>7, <4>1, <4>2, <4>4
        <4> QED BY <4>3, <4>4
      <3> QED BY <1>1, <1>4, <2>2, <2>3, <3>1 DEF Right
    <2> QED BY <2>4, <2>5, <2>8, <2>9, <2>10
  <1> QED BY <1>5, <1>6

-----------------------------------------------------------------------------

\* Loading more disturbs no list.
LEMMA RightKept ==
    ASSUME UNCHANGED <<gems, lists, pushed>>, loaded \subseteq loaded'
    PROVE  \A c \in Configs : Right(c) => Right(c)'
  BY DEF Right, Enabled, Registered, Wrapped

\* RuboCop alone: every badge is its stock class.
LEMMA InitInv ==
    ASSUME Init
    PROVE  IInv
  <1> USE DEF Init
  <1>1. /\ None \notin Rounds /\ \A b \in Badges : <<>> \in Seq(Unwrapped) /\ <<>> \in Seq(Classes)
        /\ {} \in SUBSET Badges
    BY NoneAssumption, EmptySeq
  <1>2. ASSUME NEW cl \in Classes
        PROVE  (IF cl.kind = "stock" THEN StockClasses(OwnList[cl.badge]) ELSE <<>>) \in Seq(Classes)
    BY ClassIs, OwnType, EmptySeq DEF Own
  <1>3. lists \in [Classes -> Seq(Classes)]
    BY <1>2
  <1>4. TypeOK
    BY <1>1, <1>3 DEF TypeOK
  <1>5. PushesUnwrapped /\ NeedsClosed
    BY <1>1 DEF PushesUnwrapped, NeedsClosed
  <1>6. Owners
    BY DEF Owners, Wrapped
  <1>7. ListsTranslate
    BY ClassKinds DEF ListsTranslate, Own
  <1>8. RegistrySize # None
    BY GemSets, NoneAssumption DEF RegistrySize
  <1>9. AlignedRight /\ AlignedSmaller /\ PackedAligned /\ RoundRight
    BY <1>8 DEF AlignedRight, AlignedSmaller, PackedAligned, RoundRight
  <1> QED BY <1>4, <1>5, <1>6, <1>7, <1>9 DEF IInv

\* Resolving a lazily registered class changes no owner of a wrapped badge.
LEMMA LoadStockKeeps ==
    ASSUME IInv, NEW b \in Badges, LoadStock(b)
    PROVE  IInv'
  <1>1. /\ TypeOK /\ PushesUnwrapped /\ NeedsClosed /\ Owners /\ ListsTranslate /\ AlignedRight
        /\ AlignedSmaller /\ PackedAligned /\ RoundRight
    BY DEF IInv
  <1>2. /\ b \in Registered(gems) \ loaded /\ loaded' = loaded \cup {b}
        /\ owner' = [owner EXCEPT ![b] = Stock(b)]
        /\ UNCHANGED <<gems, lists, pushed, aligned, packed, round>>
    BY DEF LoadStock
  <1>3. TypeOK'
    BY <1>1, <1>2, ClassKinds DEF TypeOK
  <1>4. /\ PushesUnwrapped' /\ NeedsClosed' /\ ListsTranslate' /\ AlignedSmaller' /\ PackedAligned'
    BY <1>1, <1>2 DEF PushesUnwrapped, NeedsClosed, ListsTranslate, AlignedSmaller, PackedAligned,
                      RegistrySize
  <1>5. Owners'
    BY <1>1, <1>2 DEF Owners, TypeOK, Wrapped, Registered
  <1>6. \A c \in Configs : Right(c) => Right(c)'
    BY <1>2, RightKept
  <1>7. AlignedRight'
    BY <1>1, <1>2, <1>6 DEF AlignedRight, RegistrySize
  <1>8. RoundRight'
    BY <1>1, <1>2, <1>6 DEF RoundRight, TypeOK, Rounds
  <1> QED BY <1>3, <1>4, <1>5, <1>7, <1>8 DEF IInv

\* The end of a round.
LEMMA EndRoundKeeps ==
    ASSUME IInv, EndRound
    PROVE  IInv'
  <1>1. /\ TypeOK /\ PushesUnwrapped /\ NeedsClosed /\ Owners /\ ListsTranslate /\ AlignedRight
        /\ AlignedSmaller /\ PackedAligned /\ RoundRight
    BY DEF IInv
  <1>2. lists' = lists
    <2>1. lists \in [Classes -> Seq(Classes)]
      BY <1>1 DEF TypeOK
    <2>2. lists' = [cl \in Classes |-> lists[cl]]
      BY DEF EndRound, AfterCall
    <2> QED BY <2>1, <2>2
  <1>3. round' = None /\ UNCHANGED <<gems, loaded, owner, pushed, aligned, packed>>
    BY DEF EndRound
  <1>4. TypeOK'
    BY <1>1, <1>2, <1>3 DEF TypeOK
  <1>5. /\ PushesUnwrapped' /\ NeedsClosed' /\ ListsTranslate' /\ AlignedSmaller' /\ PackedAligned'
    BY <1>1, <1>2, <1>3 DEF PushesUnwrapped, NeedsClosed, ListsTranslate, AlignedSmaller,
                            PackedAligned, RegistrySize
  <1>6. Owners'
    BY <1>1, <1>3 DEF Owners, Wrapped, Registered
  <1>7. \A c \in Configs : Right(c) => Right(c)'
    BY <1>2, <1>3, RightKept
  <1>8. AlignedRight' /\ RoundRight'
    BY <1>1, <1>3, <1>7 DEF AlignedRight, RegistrySize, RoundRight
  <1> QED BY <1>4, <1>5, <1>6, <1>8 DEF IInv

\* A team is built; the token is found, or packed and the config aligned.
LEMMA BeginRoundKeeps ==
    ASSUME IInv, NEW c \in Configs, NEW k \in TokenKeys, BeginRound(c, k)
    PROVE  IInv'
  <1>1. /\ TypeOK /\ PushesUnwrapped /\ NeedsClosed /\ Owners /\ ListsTranslate /\ AlignedRight
        /\ AlignedSmaller /\ PackedAligned
    BY DEF IInv
  <1>2. /\ LoadEnabled(c) /\ UNCHANGED <<gems, pushed>>
        /\ packed' = packed \cup {<<c, k>>}
        /\ round' = [config |-> c, token |-> IF <<c, k>> \in packed THEN "memoized" ELSE "packed"]
    BY DEF BeginRound
  <1>3. /\ loaded' \in SUBSET Badges /\ owner' \in [Badges -> Classes \cup {None}]
        /\ Owners' /\ loaded \subseteq loaded'
    BY <1>1, <1>2, LoadEffect
  <1>4. RegistrySize' = RegistrySize /\ RegistrySize \in Nat /\ RegistrySize # None
    BY <1>1, <1>2, GemSets, NoneAssumption DEF RegistrySize, TypeOK
  <1>5. /\ lists' \in [Classes -> Seq(Classes)] /\ aligned' \in [Configs -> Nat \cup {None}]
        /\ ListsTranslate'
        /\ \A d \in Configs : Right(d) => Right(d)'
        /\ \A d \in Configs : aligned'[d] = aligned[d] \/ (d = c /\ aligned'[d] = RegistrySize)
        /\ <<c, k>> \notin packed => (Right(c)' /\ aligned'[c] = RegistrySize)
    <2>1. CASE <<c, k>> \in packed
      <3>1. UNCHANGED <<aligned, lists>>
        BY <2>1 DEF BeginRound
      <3>2. ListsTranslate'
        BY <1>1, <1>2, <3>1 DEF ListsTranslate
      <3>3. \A d \in Configs : Right(d) => Right(d)'
        BY <1>2, <1>3, <3>1, RightKept
      <3> QED BY <1>1, <2>1, <3>1, <3>2, <3>3 DEF TypeOK
    <2>2. CASE <<c, k>> \notin packed
      <3>1. AlignFor(c)
        BY <2>2 DEF BeginRound
      <3>2. /\ lists' \in [Classes -> Seq(Classes)]
            /\ aligned' = [aligned EXCEPT ![c] = RegistrySize]
            /\ ListsTranslate' /\ Right(c)'
            /\ \A d \in Configs : Right(d) => Right(d)'
        BY <1>2, <3>1, AlignForEffect
      <3> QED BY <1>1, <1>4, <3>2 DEF TypeOK
    <2> QED BY <2>1, <2>2
  <1>6. TypeOK'
    <2>1. round' \in Rounds
      BY <1>2 DEF Rounds
    <2>2. packed' \in SUBSET (Configs \X TokenKeys)
      BY <1>1, <1>2 DEF TypeOK
    <2>3. gems' \in SUBSET Gems /\ pushed' \in [Badges -> Seq(Classes)]
      BY <1>1, <1>2 DEF TypeOK
    <2> QED BY <1>3, <1>5, <2>1, <2>2, <2>3 DEF TypeOK
  <1>7. PushesUnwrapped' /\ NeedsClosed'
    BY <1>1, <1>2 DEF PushesUnwrapped, NeedsClosed
  <1>8. AlignedRight'
    <2>1. ASSUME NEW d \in Configs, aligned'[d] = RegistrySize
          PROVE  Right(d)'
      <3>1. CASE aligned'[d] = aligned[d]
        BY <1>1, <1>5, <2>1, <3>1 DEF AlignedRight
      <3>2. CASE aligned'[d] # aligned[d]
        <4>1. d = c
          BY <1>5, <3>2
        <4>2. <<c, k>> \notin packed
          BY <3>2, <4>1 DEF BeginRound
        <4> QED BY <1>5, <4>1, <4>2
      <3> QED BY <3>1, <3>2
    <2> QED BY <1>4, <2>1 DEF AlignedRight
  <1>9. AlignedSmaller'
    BY <1>1, <1>4, <1>5 DEF AlignedSmaller
  <1>10. PackedAligned'
    <2>1. packed' # {}
      BY <1>2
    <2>2. ASSUME Late = {}, NEW d \in Configs, NEW j \in TokenKeys, <<d, j>> \in packed'
          PROVE  aligned'[d] = RegistrySize
      <3>1. CASE <<d, j>> \in packed
        BY <1>1, <1>5, <2>2, <3>1 DEF PackedAligned
      <3>2. CASE <<d, j>> \notin packed
        BY <1>2, <1>5, <2>2, <3>2
      <3> QED BY <3>1, <3>2
    <2> QED BY <1>4, <2>1, <2>2 DEF PackedAligned
  <1>11. RoundRight'
    <2>1. round'.config = c
      BY <1>2
    <2>2. CASE <<c, k>> \notin packed
      BY <1>5, <2>1, <2>2 DEF RoundRight
    <2>3. CASE <<c, k>> \in packed
      <3>1. round'.token # "packed"
        BY <1>2, <2>3
      <3>2. Late = {} => Right(c)'
        BY <1>1, <1>5, <2>3 DEF PackedAligned, AlignedRight
      <3> QED BY <2>1, <3>1, <3>2 DEF RoundRight
    <2> QED BY <2>2, <2>3
  <1> QED BY <1>3, <1>5, <1>6, <1>7, <1>8, <1>9, <1>10, <1>11 DEF IInv

\* What is pushed and registered after a gem was required.
LEMMA RequireGem ==
    ASSUME IInv, NEW g \in Gems, Require(g)
    PROVE  /\ gems' = gems \cup {g} /\ gems' \in SUBSET Gems /\ NeedsClosed'
           /\ Wrapped(gems) \subseteq Wrapped(gems')
           /\ Registered(gems) \subseteq Registered(gems')
           /\ pushed' \in [Badges -> Seq(Classes)] /\ PushesUnwrapped'
           /\ RegistrySize \in Nat /\ RegistrySize' \in Nat /\ RegistrySize <= RegistrySize'
           /\ packed # {} => RegistrySize < RegistrySize'
  <1>1. /\ gems \in SUBSET Gems /\ NeedsClosed /\ PushesUnwrapped
        /\ g \notin gems /\ Needs[g] \subseteq gems /\ gems' = gems \cup {g}
        /\ packed = {} \/ g \in Late
        /\ pushed' = [b \in Badges |-> pushed[b] \o StockClasses(Pushes[g][b])]
    BY DEF IInv, TypeOK, Require
  <1>2. gems' \in SUBSET Gems
    BY <1>1
  <1>3. NeedsClosed'
    BY <1>1 DEF NeedsClosed
  <1>4. Wrapped(gems) \subseteq Wrapped(gems') /\ Registered(gems) \subseteq Registered(gems')
    BY <1>1 DEF Wrapped, Registered
  <1>5. ASSUME NEW b \in Badges
        PROVE  pushed[b] \o StockClasses(Pushes[g][b]) \in Seq(Unwrapped)
    <2>1. PICK old \in Seq(Unwrapped), more \in Seq(Unwrapped) :
            old = pushed[b] /\ more = StockClasses(Pushes[g][b])
      BY <1>1, PushedType DEF PushesUnwrapped
    <2>2. old \o more \in Seq(Unwrapped)
      BY <2>1, ConcatProperties
    <2> QED BY <2>1, <2>2
  <1>6. PushesUnwrapped'
    BY <1>1, <1>5 DEF PushesUnwrapped
  <1>7. Unwrapped \subseteq Classes
    BY ClassKinds DEF Unwrapped
  <1>8. pushed' \in [Badges -> Seq(Classes)]
    BY <1>6, <1>7, SeqMonotonic DEF PushesUnwrapped
  <1>9. /\ RegistrySize \in Nat /\ RegistrySize' \in Nat /\ RegistrySize <= RegistrySize'
        /\ packed # {} => RegistrySize < RegistrySize'
    <2>1. PICK gs \in SUBSET Gems : gs = gems
      BY <1>1
    <2>2. g \in Gems \ gs
      BY <1>1, <2>1
    <2>3. /\ Cardinality(Registered(gs)) <= Cardinality(Registered(gs \cup {g}))
          /\ Adds[g] # {} => Cardinality(Registered(gs)) < Cardinality(Registered(gs \cup {g}))
      BY <2>2, RegistryGrows
    <2>4. Cardinality(Registered(gs)) \in Nat /\ Cardinality(Registered(gs \cup {g})) \in Nat
      BY <2>1, <2>2, GemSets
    <2>5. packed # {} => Adds[g] # {}
      BY <1>1, LateAssumption
    <2>6. /\ RegistrySize = Cardinality(Registered(gs))
          /\ RegistrySize' = Cardinality(Registered(gs \cup {g}))
      BY <1>1, <2>1 DEF RegistrySize
    <2> QED BY <2>3, <2>4, <2>5, <2>6
  <1> QED BY <1>1, <1>2, <1>3, <1>4, <1>6, <1>8, <1>9

\* A gem is required, with its claims and its alignment if it has wrappers.
LEMMA RequireKeeps ==
    ASSUME IInv, NEW g \in Gems, Require(g)
    PROVE  IInv'
  <1>1. /\ TypeOK /\ NeedsClosed /\ Owners /\ ListsTranslate /\ AlignedSmaller /\ PackedAligned
        /\ round = None /\ UNCHANGED <<aligned, packed, round>>
    BY DEF IInv, Require
  <1>2. /\ gems' = gems \cup {g} /\ gems' \in SUBSET Gems /\ NeedsClosed'
        /\ Wrapped(gems) \subseteq Wrapped(gems')
        /\ Registered(gems) \subseteq Registered(gems')
        /\ pushed' \in [Badges -> Seq(Classes)] /\ PushesUnwrapped'
        /\ RegistrySize \in Nat /\ RegistrySize' \in Nat /\ RegistrySize <= RegistrySize'
        /\ packed # {} => RegistrySize < RegistrySize'
    BY RequireGem
  <1>3. PICK wr \in SUBSET Badges, more \in SUBSET Badges :
          wr = Wrapped(gems) /\ more = Wrapped(gems')
    <2>1. \A gs \in SUBSET Gems : Wrapped(gs) \in SUBSET Badges
      BY GemSets
    <2> QED BY <1>1, <1>2, <2>1 DEF TypeOK
  <1>4. wr \subseteq more
    BY <1>2, <1>3
  <1>5. more \subseteq Registered(gems') /\ Registered(gems') \subseteq Badges
    <2>1. PICK gs \in SUBSET Gems : gs = gems'
      BY <1>2
    <2>2. \A h \in gs : Needs[h] \subseteq gs
      BY <1>2, <2>1 DEF NeedsClosed
    <2>3. Wrapped(gs) \subseteq Registered(gs) /\ Registered(gs) \subseteq Badges
      BY <2>2, GemSets
    <2> QED BY <1>3, <2>1, <2>3
  <1>6. /\ lists \in [Classes -> Seq(Classes)] /\ loaded \in SUBSET Badges
        /\ owner \in [Badges -> Classes \cup {None}]
    BY <1>1 DEF TypeOK
  <1>7. /\ loaded' \in SUBSET Badges /\ owner' \in [Badges -> Classes \cup {None}]
        /\ lists' \in [Classes -> Seq(Classes)]
        /\ \A b \in Badges : lists'[Stock(b)] = lists[Stock(b)]
        /\ Owners'
    <2>1. CASE Wraps[g] = {}
      <3>1. UNCHANGED <<loaded, owner, lists>>
        BY <2>1 DEF Require
      <3>2. more = wr
        BY <1>2, <1>3, <2>1 DEF Wrapped
      <3>3. Owners'
        BY <1>1, <1>2, <1>3, <3>1, <3>2 DEF Owners
      <3> QED BY <1>6, <3>1, <3>3
    <2>2. CASE Wraps[g] # {}
      <3>1. /\ loaded' = loaded \cup more
            /\ owner' = [b \in Badges |-> IF b \in more THEN Wrapper(b) ELSE owner[b]]
            /\ Align(more, {}, pushed')
        BY <1>3, <2>2 DEF Require, ClaimBadges, Align, BaseList
      <3>2. loaded' \in SUBSET Badges /\ owner' \in [Badges -> Classes \cup {None}]
        BY <1>3, <1>6, <3>1, ClassKinds
      <3>3. PICK old \in [Classes -> Seq(Classes)], push \in [Badges -> Seq(Classes)] :
              old = lists /\ push = pushed'
        BY <1>2, <1>6
      <3>4. lists' = AlignedLists(old, more, {}, push)
        BY <3>1, <3>3 DEF Align, BaseList, AlignedLists
      <3>5. IsAligned(AlignedLists(old, more, {}, push), old, more, {}, push)
        BY <1>3, <3>3, AlignEffect
      <3>6. /\ lists' \in [Classes -> Seq(Classes)]
            /\ \A b \in Badges : lists'[Stock(b)] = lists[Stock(b)]
        BY <3>3, <3>4, <3>5 DEF IsAligned
      <3>7. ASSUME NEW b \in loaded'
            PROVE  owner'[b] = IF b \in more THEN Wrapper(b) ELSE Stock(b)
        <4>1. b \in Badges /\ owner'[b] = IF b \in more THEN Wrapper(b) ELSE owner[b]
          BY <3>1, <3>2
        <4>2. b \notin more => b \in loaded /\ b \notin wr
          BY <1>4, <3>1
        <4> QED BY <1>1, <1>3, <4>1, <4>2 DEF Owners
      <3>8. more \subseteq loaded' /\ loaded' \subseteq Registered(gems')
        BY <1>1, <1>2, <1>5, <3>1 DEF Owners
      <3> QED BY <1>3, <3>2, <3>6, <3>7, <3>8 DEF Owners
    <2> QED BY <2>1, <2>2
  <1>8. TypeOK'
    BY <1>1, <1>2, <1>7 DEF TypeOK
  <1>9. ListsTranslate'
    <2>1. ASSUME NEW b \in Badges
          PROVE  Translate(more, lists'[Stock(b)]) = Translate(more, Own(b))
      <3>1. PICK old \in Seq(Classes), own \in Seq(Classes) : old = lists[Stock(b)] /\ own = Own(b)
        BY <1>6, OwnType, ClassKinds
      <3>2. Translate(wr, old) = Translate(wr, own)
        BY <1>1, <1>3, <3>1 DEF ListsTranslate
      <3>3. Translate(more, old) = Translate(more, own)
        BY <1>4, <3>2, MoreWrapped
      <3> QED BY <1>7, <3>1, <3>3
    <2> QED BY <1>3, <2>1 DEF ListsTranslate
  <1>10. \A c \in Configs : aligned'[c] # RegistrySize'
    <2>1. ASSUME NEW c \in Configs, aligned[c] = RegistrySize'
          PROVE  FALSE
      <3>1. aligned[c] # None
        BY <1>2, <2>1, NoneAssumption
      <3>2. packed # {} /\ aligned[c] <= RegistrySize
        BY <1>1, <3>1 DEF PackedAligned, AlignedSmaller
      <3> QED BY <1>2, <2>1, <3>2
    <2> QED BY <1>1, <2>1
  <1>11. AlignedRight'
    BY <1>10 DEF AlignedRight
  <1>12. AlignedSmaller'
    <2>1. ASSUME NEW c \in Configs, aligned[c] # None
          PROVE  aligned[c] <= RegistrySize'
      BY <1>1, <1>2, <2>1 DEF AlignedSmaller, TypeOK
    <2> QED BY <1>1, <2>1 DEF AlignedSmaller
  <1>13. PackedAligned'
    <2>1. Late = {} => packed = {}
      BY DEF Require
    <2> QED BY <1>1, <2>1 DEF PackedAligned
  <1>14. RoundRight'
    BY <1>1 DEF RoundRight
  <1> QED BY <1>2, <1>7, <1>8, <1>9, <1>11, <1>12, <1>13, <1>14 DEF IInv

\* Every action keeps the invariant.
LEMMA NextKeeps ==
    ASSUME IInv, [Next]_vars
    PROVE  IInv'
  <1>1. ASSUME NEW b \in Badges, LoadStock(b) PROVE IInv'
    BY <1>1, LoadStockKeeps
  <1>2. ASSUME NEW g \in Gems, Require(g) PROVE IInv'
    BY <1>2, RequireKeeps
  <1>3. ASSUME NEW c \in Configs, NEW k \in TokenKeys, BeginRound(c, k) PROVE IInv'
    BY <1>3, BeginRoundKeeps
  <1>4. CASE EndRound
    BY <1>4, EndRoundKeeps
  <1>5. CASE UNCHANGED vars
    BY <1>5 DEF vars, IInv, TypeOK, PushesUnwrapped, NeedsClosed, Owners, ListsTranslate, Right,
                AlignedRight, AlignedSmaller, PackedAligned, RoundRight, RegistrySize, Enabled,
                Registered, Wrapped
  <1> QED BY <1>1, <1>2, <1>3, <1>4, <1>5 DEF Next

-----------------------------------------------------------------------------

\* Under a right config the team's lists are those of the stock team, translated.
LEMMA RightSkips ==
    ASSUME IInv, round # None, Right(round.config)
    PROVE  SkipsLikeStock
  <1>1. /\ round.config \in Configs /\ gems \in SUBSET Gems /\ Owners
    BY DEF IInv, TypeOK, Rounds
  <1>2. ASSUME NEW b \in Enabled(round.config)
        PROVE  Effective(owner[b]) =
                 Translate(Wrapped(gems), StockClasses(OwnList[b]) \o pushed[b])
    <2>1. b \in Badges /\ b \in loaded
      BY <1>1, GemSets DEF Enabled, Right
    <2>2. owner[b] = IF b \in Wrapped(gems) THEN Wrapper(b) ELSE Stock(b)
      BY <1>1, <2>1 DEF Owners
    <2>3. IF b \in Wrapped(gems)
          THEN lists[Wrapper(b)] = Translate(Wrapped(gems), Own(b) \o pushed[b])
          ELSE lists[Stock(b)] \o pushed[b] = Translate(Wrapped(gems), Own(b) \o pushed[b])
      BY DEF Right
    <2>4. CASE b \in Wrapped(gems)
      BY <2>1, <2>2, <2>3, <2>4, ClassKinds DEF Effective, Own
    <2>5. CASE b \notin Wrapped(gems)
      BY <2>1, <2>2, <2>3, <2>5, ClassKinds DEF Effective, Own
    <2> QED BY <2>4, <2>5
  <1> QED BY <1>2 DEF SkipsLikeStock

\* The inductive invariant: owners, lists and memos agree with the gems required.
THEOREM InvariantHolds == Spec => []IInv
  <1>1. Init => IInv
    BY InitInv
  <1>2. IInv /\ [Next]_vars => IInv'
    BY NextKeeps
  <1> QED BY <1>1, <1>2, PTL DEF Spec

\* Every variable has its type, whatever gems are required and in which order.
THEOREM TypeCorrect == Spec => []TypeOK
  <1>1. IInv => TypeOK
    BY DEF IInv
  <1> QED BY <1>1, InvariantHolds, PTL

\* claim_badges! keeps each badge for its wrapper: no order of gems and no later
\* resolution of a stock constant gives it back.
THEOREM BadgesStayClaimed == Spec => []BadgesClaimed
  <1>1. IInv => BadgesClaimed
    BY DEF IInv, Owners, BadgesClaimed
  <1> QED BY <1>1, InvariantHolds, PTL

\* A round for which a token was packed skips the correctors that stock skips,
\* whatever plugin gem was loaded since the last one.
THEOREM PackedRoundsRight == Spec => []PackedRoundSkipsLikeStock
  <1>1. IInv => PackedRoundSkipsLikeStock
    BY RightSkips DEF IInv, RoundRight, PackedRoundSkipsLikeStock
  <1> QED BY <1>1, InvariantHolds, PTL

\* When no gem comes in the middle of a run, every round skips like stock, also
\* those that find their token in the memo.
THEOREM EveryRoundRight ==
    ASSUME Late = {}
    PROVE  Spec => []EveryRoundSkipsLikeStock
  <1>1. IInv => EveryRoundSkipsLikeStock
    BY RightSkips DEF IInv, RoundRight, EveryRoundSkipsLikeStock
  <1> QED BY <1>1, InvariantHolds, PTL

=============================================================================
