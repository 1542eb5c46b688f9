-------------------------- MODULE BundleRunProofs --------------------------
(***************************************************************************)
(* Proofs about ParseCache, for any set of file contents: the inductive    *)
(* invariant, the safety properties of the runs, and the refinement of     *)
(* ParseService.  And about BundleRun, for any slots, groups and sources:  *)
(* a bundled run is a client of the parse cache (so what is shown of that  *)
(* holds of it), it parses once, never re-enters the cache, and fills the  *)
(* slots that are on with what their standalone entry points compute.      *)
(***************************************************************************)
EXTENDS BundleRun, TLAPS

-----------------------------------------------------------------------------
(* The parse cache.                                                        *)

HasTokens == cache # None /\ cache.tokens # None

\* Nothing has happened before the first call; afterwards the entry is that of
\* the last source asked for.
EntryFollowsVisit ==
    IF cache = None
    THEN visit.source = None /\ visit.parses = 0 /\ visit.first = "plain" /\ spare = None
    ELSE cache.owner = visit.source

\* The tokens of an entry are those of its own source.
NoResidue == cache # None => cache.tokens \in {None, <<cache.owner>>}

\* The parses of a visit, counted by what the entry has become.
ParsesCounted ==
    cache # None =>
        visit.parses = (IF visit.first = "tokens" \/ cache.tokens = None THEN 1 ELSE 2)

TokensFirstKept == cache # None /\ visit.first = "tokens" => cache.tokens # None

\* The one buffer is in the entry or in the spare.
BufferConserved ==
    /\ HasTokens => spare = None
    /\ allocated = (IF HasTokens \/ spare # None THEN 1 ELSE 0)

IInv ==
    /\ TypeOK
    /\ ClosureSeesItsParse
    /\ EntryFollowsVisit
    /\ NoResidue
    /\ ParsesCounted
    /\ TokensFirstKept
    /\ BufferConserved

-----------------------------------------------------------------------------

\* Clearing first makes the lexed buffer hold the tokens of s alone, whatever
\* the reused buffer held.
LEMMA LexedAlone ==
    ASSUME NEW s \in Sources, NEW buf
    PROVE  /\ LexInto(buf, s) = <<s>>
           /\ <<s>> \in Buffers
           /\ <<s>> # None
<1>1. LexInto(buf, s) = <<s>>
  BY DEF LexInto, Cleared
<1>2. <<s>> \in Buffers
  BY DEF Buffers
<1> QED
  BY <1>1, <1>2, NoneAssumption

\* The cache begins empty.
LEMMA InitIInv == Init => IInv
BY NoneAssumption DEF Init, IInv, TypeOK, Visits, Apis, ClosureSeesItsParse, EntryFollowsVisit,
      NoResidue, ParsesCounted, TokensFirstKept, BufferConserved, HasTokens

\* A token-free call: a hit changes nothing but the closure, a miss retires
\* the buffer of the evicted entry.
LEMMA SharedParseIInv ==
    ASSUME IInv, NEW s \in Sources, WithSharedParse(s)
    PROVE  IInv'
<1> USE DEF IInv, TypeOK, ClosureSeesItsParse, EntryFollowsVisit, NoResidue,
            ParsesCounted, TokensFirstKept, BufferConserved, HasTokens
<1>1. closure' \in Calls /\ closure'.source = s /\ closure'.api = "plain" /\ closure' # None
  BY NoneAssumption DEF WithSharedParse, Calls, Apis
<1>2. CASE PlainHit(s)
  <2>1. /\ UNCHANGED <<cache, spare, allocated>>
        /\ visit' = Visited(s, 0, "plain")
    BY <1>2 DEF WithSharedParse, EnsureParsed
  <2>2. visit' = visit
    BY <1>2, <2>1 DEF PlainHit, Visited, Visits
  <2> QED
    BY <1>1, <1>2, <2>1, <2>2 DEF PlainHit
<1>3. CASE ~PlainHit(s)
  <2>1. /\ spare' = RecoverSpare
        /\ cache' = [owner |-> s, tokens |-> None]
        /\ visit' = Visited(s, 1, "plain")
        /\ allocated' = allocated
    BY <1>3 DEF WithSharedParse, EnsureParsed
  <2>2. visit.source # s
    BY <1>3, NoneAssumption DEF PlainHit
  <2>3. visit' = [source |-> s, parses |-> 1, first |-> "plain"]
    BY <2>1, <2>2 DEF Visited
  <2>4. cache' \in Entries /\ cache' # None
    BY <2>1, NoneAssumption DEF Entries
  <2>5. spare' \in Buffers \cup {None}
    BY <2>1 DEF RecoverSpare, Entries
  <2>6. visit' \in Visits
    BY <2>3 DEF Visits, Apis
  <2>7. allocated' = (IF HasTokens' \/ spare' # None THEN 1 ELSE 0)
    BY <2>1, <2>4 DEF RecoverSpare
  <2> QED
    BY <1>1, <2>1, <2>3, <2>4, <2>5, <2>6, <2>7
<1> QED
  BY <1>2, <1>3

\* A token call: a hit changes nothing but the closure, a rebuild moves the one
\* buffer, cleared and lexed again, into the new entry.
LEMMA TokensIInv ==
    ASSUME IInv, NEW s \in Sources, WithParsedAndTokens(s)
    PROVE  IInv'
<1> USE DEF IInv, TypeOK, ClosureSeesItsParse, EntryFollowsVisit, NoResidue,
            ParsesCounted, TokensFirstKept, BufferConserved, HasTokens
<1>1. closure' \in Calls /\ closure'.source = s /\ closure' # None
  BY NoneAssumption DEF WithParsedAndTokens, Calls, Apis
<1>2. CASE TokensHit(s)
  <2>1. /\ UNCHANGED <<cache, spare, allocated>>
        /\ visit' = Visited(s, 0, "tokens")
    BY <1>2 DEF WithParsedAndTokens, EnsureParsedWithTokens
  <2>2. visit' = visit
    BY <1>2, <2>1 DEF TokensHit, Visited, Visits
  <2> QED
    BY <1>1, <1>2, <2>1, <2>2 DEF TokensHit
<1>3. CASE ~TokensHit(s)
  <2> DEFINE buf == IF RecoverSpare = None THEN <<>> ELSE RecoverSpare
  <2>1. /\ cache' = [owner |-> s, tokens |-> LexInto(buf, s)]
        /\ allocated' = allocated + (IF RecoverSpare = None THEN 1 ELSE 0)
        /\ spare' = None
        /\ visit' = Visited(s, 1, "tokens")
    BY <1>3 DEF WithParsedAndTokens, EnsureParsedWithTokens
  <2>2. cache' = [owner |-> s, tokens |-> <<s>>]
    BY <2>1, LexedAlone
  <2>3. cache' \in Entries /\ cache' # None /\ cache'.tokens # None
    BY <2>2, LexedAlone, NoneAssumption DEF Entries
  <2>4. allocated' = 1
    BY <2>1 DEF RecoverSpare
  <2>5. CASE visit.source = s
    <3>1. cache # None /\ cache.tokens = None
      BY <1>3, <2>5, NoneAssumption DEF TokensHit
    <3>2. visit.parses = 1 /\ visit.first = "plain"
      BY <3>1 DEF Visits, Apis
    <3>3. /\ visit'.source = s
          /\ visit'.parses = 2
          /\ visit'.first = "plain"
          /\ visit' \in Visits
      BY <2>1, <2>5, <3>2 DEF Visited, Visits, Apis
    <3> QED
      BY <1>1, <2>1, <2>2, <2>3, <2>4, <3>3
  <2>6. CASE visit.source # s
    <3>1. visit' = [source |-> s, parses |-> 1, first |-> "tokens"]
      BY <2>1, <2>6 DEF Visited
    <3>2. visit' \in Visits
      BY <3>1 DEF Visits, Apis
    <3> QED
      BY <1>1, <2>1, <2>2, <2>3, <2>4, <3>1, <3>2
  <2> QED
    BY <2>5, <2>6
<1> QED
  BY <1>2, <1>3

\* Every access, return and re-entry keeps the invariant.
LEMMA NextIInv == IInv /\ [Next]_vars => IInv'
<1> SUFFICES ASSUME IInv, [Next]_vars PROVE IInv'
  OBVIOUS
<1>1. ASSUME NEW s \in Sources, WithSharedParse(s) PROVE IInv'
  BY <1>1, SharedParseIInv
<1>2. ASSUME NEW s \in Sources, WithParsedAndTokens(s) PROVE IInv'
  BY <1>2, TokensIInv
<1>3. ASSUME closure' = None, UNCHANGED <<cache, spare, visit, allocated>> PROVE IInv'
  BY <1>3 DEF IInv, TypeOK, ClosureSeesItsParse, EntryFollowsVisit, NoResidue,
              ParsesCounted, TokensFirstKept, BufferConserved, HasTokens
<1>4. CASE UNCHANGED vars
  BY <1>4 DEF vars, IInv, TypeOK, ClosureSeesItsParse, EntryFollowsVisit, NoResidue,
              ParsesCounted, TokensFirstKept, BufferConserved, HasTokens
<1> QED
  BY <1>1, <1>2, <1>3, <1>4 DEF Next, NestedCall, Return

\* The inductive invariant of parse_cache.rs: entry, spare and running closure agree.
THEOREM InvariantHolds == Spec => []IInv
BY InitIInv, NextIInv, PTL DEF Spec

\* Type correctness.
THEOREM TypeCorrect == Spec => []TypeOK
<1>1. IInv => TypeOK
  BY DEF IInv
<1> QED
  BY <1>1, InvariantHolds, PTL

\* A running closure always reads a parse of its own source and, when it asked
\* for tokens, that source's tokens without residue (with_shared_parse and
\* with_parsed_and_tokens over ensure_parsed and ensure_parsed_with_tokens).
THEOREM ClosureSafe == Spec => []ClosureSeesItsParse
<1>1. IInv => ClosureSeesItsParse
  BY DEF IInv
<1> QED
  BY <1>1, InvariantHolds, PTL

\* One parse per file when a token consumer is first, two in any other order.
THEOREM ParseBound == Spec => []ParsesPerFile
<1>1. IInv => ParsesPerFile
  BY DEF IInv, TypeOK, Visits, EntryFollowsVisit, ParsesCounted, ParsesPerFile
<1> QED
  BY <1>1, InvariantHolds, PTL

\* One token buffer per thread, handed back and forth between entry and spare.
THEOREM BufferBound == Spec => []OneTokenBuffer
<1>1. IInv => OneTokenBuffer
  BY DEF IInv, BufferConserved, HasTokens, OneTokenBuffer
<1> QED
  BY <1>1, InvariantHolds, PTL

-----------------------------------------------------------------------------

\* A running closure has a view, and None is not one.
LEMMA ViewNotNone ==
    ASSUME TypeOK, ClosureSeesItsParse, closure # None
    PROVE  View \in Views /\ View # None
BY NoneAssumption DEF TypeOK, ClosureSeesItsParse, View, Views, Calls, Entries

\* Both begin with no closure running.
LEMMA InitRefines == Init => Service!Init
BY DEF Init, Service!Init, View

\* A call starts a fresh parse of its source, the end of a closure ends the
\* view: hits, misses, rebuilds and the spare buffer are invisible.
LEMMA StepRefines == IInv /\ IInv' /\ [Next]_vars => [Service!Next]_View
<1> SUFFICES ASSUME IInv, IInv', [Next]_vars PROVE [Service!Next]_View
  OBVIOUS
<1>1. ASSUME NEW s \in Sources, closure = None, closure' # None, closure'.source = s
      PROVE  Service!Next
  <2>1. View = None
    BY <1>1 DEF View
  <2>2. cache'.owner = s /\ (closure'.api = "tokens" => cache'.tokens = <<s>>)
    BY <1>1 DEF IInv, ClosureSeesItsParse
  <2>3. View' \in {[asked |-> s, owner |-> s, tokens |-> None],
                   [asked |-> s, owner |-> s, tokens |-> <<s>>]}
    BY <1>1, <2>2 DEF View
  <2> QED
    BY <2>1, <2>3 DEF Service!Next, Service!Serve, Service!TokensOf
<1>2. ASSUME NEW s \in Sources, WithSharedParse(s) \/ WithParsedAndTokens(s)
      PROVE  Service!Next
  <2>1. closure = None /\ closure' # None /\ closure'.source = s
    BY <1>2, NoneAssumption DEF WithSharedParse, WithParsedAndTokens, Calls, Apis
  <2> QED
    BY <2>1, <1>1
<1>3. ASSUME closure # None, closure' = None PROVE Service!Next
  <2>1. View # None
    BY <1>3, ViewNotNone DEF IInv
  <2>2. View' = None
    BY <1>3 DEF View
  <2> QED
    BY <2>1, <2>2 DEF Service!Next, Service!Finish
<1>4. CASE UNCHANGED vars
  BY <1>4 DEF vars, View
<1> QED
  BY <1>2, <1>3, <1>4 DEF Next, NestedCall, Return

\* The cache, its hits and its reused buffer are transparent: ParseCache
\* implements ParseService.
THEOREM CacheTransparent == Spec => ImplementsParseService
BY InvariantHolds, InitRefines, StepRefines, PTL DEF Spec, ImplementsParseService, Service!Spec

-----------------------------------------------------------------------------
(* The bundled run.                                                        *)

\* An open call of a run is for the run's source.
OpenCall ==
    run # None /\ closure # None =>
        /\ closure.source = run.source
        /\ run.stage = "tokens" => closure.api = "tokens" /\ Collecting(run.packed)
        /\ run.stage = "ascii" => Lexes(run)
        /\ run.stage \in {"build", "finish"} => run.at \in run.todo

\* After its parse the run finds its source in the cache, with tokens as long
\* as a token consumer may follow.
ParsedOnce ==
    run # None =>
        \/ run.parses = 0
        \/ /\ run.parses = 1
           /\ PlainHit(run.source)
           /\ run.stage \in {"tokens", "ascii"} => TokensHit(run.source)

\* The streams are collected before every token cop.
StreamsCollected ==
    run # None /\ run.stage # "tokens" /\ Collecting(run.packed) =>
        run.streams = <<run.source>>

\* The comments are collected before the walk.
CommentsCollected ==
    run # None =>
        /\ run.stage = "build" => Prefetches(run) \subseteq run.comments \cup run.todo
        /\ run.stage = "walk" => Prefetches(run) \subseteq run.comments

\* The slots a run has filled so far.
Done(r) ==
    CASE r.stage \in {"tokens", "ascii"} -> {}
      [] r.stage \in {"build", "walk"}   -> OnSlots(r.packed) \cap {Ascii}
      [] r.stage = "finish"              -> OnSlots(r.packed) \ r.todo

Complete(r, ks) == r.slots = [k \in Slots |-> IF k \in ks THEN r.source ELSE None]

SlotsFilled ==
    run # None =>
        /\ Complete(run, Done(run))
        /\ run.stage = "finish" => run.todo \subseteq OnSlots(run.packed)

RunInv ==
    /\ RunTypeOK
    /\ OpenCall
    /\ ParsedOnce
    /\ StreamsCollected
    /\ CommentsCollected
    /\ SlotsFilled

BInv == IInv /\ RunInv /\ SlotsAreStandalone /\ NoReentry

-----------------------------------------------------------------------------

\* The slots of a group are on together: the enable flags belong to slots that
\* are a group of their own.
LEMMA GroupOn ==
    ASSUME NEW p \in Packed, NEW k \in OnSlots(p)
    PROVE  k \in GroupOf[k] /\ GroupOf[k] \subseteq OnSlots(p)
<1>1. k \in Slots /\ k \in GroupOf[k] /\ GroupOf[k] \subseteq Slots
  BY SlotsAssumption DEF OnSlots
<1>2. ASSUME NEW j \in GroupOf[k] PROVE On(p, j)
  <2>1. j \in Slots /\ GroupOf[j] = GroupOf[k]
    BY <1>1, SlotsAssumption
  <2>2. j \in Switches => j = k
    BY <1>1, <2>1, SlotsAssumption
  <2> QED
    BY <2>1, <2>2 DEF OnSlots, On
<1> QED
  BY <1>1, <1>2 DEF OnSlots

\* A token cop that is on makes the run collect the streams.
LEMMA TokenCopCollects ==
    ASSUME NEW p \in Packed, NEW k \in OnSlots(p), k \in TokenSlots
    PROVE  Collecting(p)
BY DEF Collecting

\* What a call does to the cache, seen by its caller.
LEMMA PlainOpened ==
    ASSUME NEW s \in Sources, WithSharedParse(s)
    PROVE  /\ closure = None
           /\ closure' = [source |-> s, api |-> "plain"]
           /\ PlainHit(s) => cache' = cache
           /\ PlainHit(s)'
<1>1. CASE PlainHit(s)
  BY <1>1 DEF WithSharedParse, EnsureParsed, PlainHit
<1>2. CASE ~PlainHit(s)
  <2>1. cache' = [owner |-> s, tokens |-> None]
    BY <1>2 DEF WithSharedParse, EnsureParsed
  <2>2. cache' \in Entries /\ cache'.owner = s
    BY <2>1 DEF Entries
  <2> QED
    BY <1>2, <2>2, NoneAssumption DEF WithSharedParse, PlainHit
<1> QED
  BY <1>1, <1>2

\* Opening a closure with tokens leaves the cache with the tree and the tokens of
\* that source, and as it was if it had them.
LEMMA TokensOpened ==
    ASSUME NEW s \in Sources, WithParsedAndTokens(s)
    PROVE  /\ closure = None
           /\ closure' = [source |-> s, api |-> "tokens"]
           /\ TokensHit(s) => cache' = cache
           /\ TokensHit(s)' /\ PlainHit(s)'
<1>1. CASE TokensHit(s)
  BY <1>1 DEF WithParsedAndTokens, EnsureParsedWithTokens, PlainHit, TokensHit
<1>2. CASE ~TokensHit(s)
  <2>1. PICK buf : cache' = [owner |-> s, tokens |-> LexInto(buf, s)]
    BY <1>2 DEF WithParsedAndTokens, EnsureParsedWithTokens
  <2>2. cache' = [owner |-> s, tokens |-> <<s>>]
    BY <2>1, LexedAlone
  <2>3. cache' \in Entries /\ cache'.owner = s /\ cache'.tokens = <<s>> /\ <<s>> # None
    BY <2>2, LexedAlone DEF Entries
  <2> QED
    BY <1>2, <2>3, NoneAssumption DEF WithParsedAndTokens, PlainHit, TokensHit
<1> QED
  BY <1>1, <1>2

\* The run after it opened a call.
LEMMA RunOpened ==
    ASSUME NEW r \in Runs, NEW k \in Slots \cup {None}, NEW n, n = Opened(r, k)
    PROVE  /\ n \in Runs
           /\ n.source = r.source /\ n.packed = r.packed /\ n.stage = r.stage
           /\ n.todo = r.todo /\ n.at = k /\ n.streams = r.streams
           /\ n.comments = r.comments /\ n.slots = r.slots
           /\ n.parses = r.parses + (IF cache' = cache THEN 0 ELSE 1)
<1> DEFINE more == IF cache' = cache THEN 0 ELSE 1
           counted == r.parses + more
<1>1. counted \in Nat /\ counted = r.parses + (IF cache' = cache THEN 0 ELSE 1)
  BY DEF Runs
<1>2. n = [r EXCEPT !.at = k, !.parses = counted]
  BY DEF Opened
<1> HIDE DEF counted
<1>3. /\ n.source = r.source /\ n.packed = r.packed /\ n.stage = r.stage
      /\ n.todo = r.todo /\ n.at = k /\ n.streams = r.streams
      /\ n.comments = r.comments /\ n.slots = r.slots /\ n.parses = counted
  BY <1>2 DEF Runs
<1>4. n \in Runs
  BY <1>1, <1>2 DEF Runs
<1> QED
  BY <1>1, <1>3, <1>4

\* The run in its next stage.
LEMMA RunProceeded ==
    ASSUME NEW r \in Runs, r.stage \in Stages \ {"finish"}, NEW n, n = Proceed(r)
    PROVE  /\ n \in Runs
           /\ n.source = r.source /\ n.packed = r.packed
           /\ n.stage = After(r.stage) /\ n.stage \in Stages
           /\ n.todo = Todo(r, After(r.stage)) /\ n.streams = r.streams
           /\ n.comments = r.comments /\ n.slots = r.slots /\ n.parses = r.parses
<1>1. After(r.stage) \in Stages
  BY DEF After, Stages
<1>2. Prefetches(r) \subseteq Slots /\ Off(r) \subseteq Slots
  BY SlotsAssumption DEF Prefetches, Rules, Off, OnSlots
<1>3. Todo(r, After(r.stage)) \subseteq Slots
  BY <1>1, <1>2 DEF Todo
<1> QED
  BY <1>1, <1>3 DEF Proceed, Runs

-----------------------------------------------------------------------------

\* A run opens a call: nothing of what it has gathered changes.
LEMMA OpenedInv ==
    ASSUME RunInv, run # None, NEW k \in Slots \cup {None}, run' = Opened(run, k),
           result' = result,
           NEW s, s = run.source, closure'.source = s,
           run.stage = "tokens" => closure'.api = "tokens" /\ Collecting(run.packed),
           run.stage = "ascii" => Lexes(run),
           run.stage \in {"build", "finish"} => k \in run.todo,
           PlainHit(s)',
           run.stage \in {"tokens", "ascii"} => TokensHit(s)',
           run.parses = 1 => cache' = cache
    PROVE  RunInv'
<1>1. run \in Runs /\ result' \in Results \cup {None, Panicked}
  BY DEF RunInv, RunTypeOK
<1>2. /\ run' \in Runs
      /\ run'.source = run.source /\ run'.packed = run.packed /\ run'.stage = run.stage
      /\ run'.todo = run.todo /\ run'.at = k /\ run'.streams = run.streams
      /\ run'.comments = run.comments /\ run'.slots = run.slots
      /\ run'.parses = run.parses + (IF cache' = cache THEN 0 ELSE 1)
  BY <1>1, RunOpened
<1>3. RunTypeOK'
  BY <1>1, <1>2 DEF RunTypeOK
<1>4. OpenCall'
  BY <1>2 DEF OpenCall, Lexes
<1>5. ParsedOnce'
  <2>1. run.parses \in Nat /\ run.parses \in {0, 1}
    BY <1>1 DEF RunInv, ParsedOnce, Runs
  <2>2. run'.parses \in {0, 1}
    BY <1>2, <2>1
  <2> QED
    BY <1>2, <2>2 DEF ParsedOnce, PlainHit, TokensHit
<1>6. StreamsCollected' /\ CommentsCollected'
  BY <1>2 DEF RunInv, StreamsCollected, CommentsCollected, Prefetches, Rules
<1>7. SlotsFilled'
  BY <1>2 DEF RunInv, SlotsFilled, Complete, Done
<1> QED
  BY <1>3, <1>4, <1>5, <1>6, <1>7 DEF RunInv

\* The two accesses that want tokens: the stage that collects them and the identifier scan.
LEMMA TokensOpenedInv ==
    ASSUME IInv, RunInv, CollectTokens \/ LexIdentifiers
    PROVE  RunInv'
<1>1. run # None /\ run.stage \in {"tokens", "ascii"} /\ WithParsedAndTokens(run.source)
      /\ result' = result
  BY DEF CollectTokens, LexIdentifiers, At
<1>2. PICK k \in Slots \cup {None} : run' = Opened(run, k)
  <2>1. CASE CollectTokens
    BY <2>1 DEF CollectTokens
  <2>2. CASE LexIdentifiers
    BY <2>2, SlotsAssumption DEF LexIdentifiers
  <2> QED
    BY <2>1, <2>2
<1>3. PICK s \in Sources : s = run.source
  BY <1>1 DEF RunInv, RunTypeOK, Runs
<1>4. /\ closure' = [source |-> s, api |-> "tokens"]
      /\ TokensHit(s) => cache' = cache
      /\ TokensHit(s)' /\ PlainHit(s)'
  BY <1>1, <1>3, TokensOpened
<1>5. run.parses = 1 => cache' = cache
  BY <1>1, <1>3, <1>4 DEF RunInv, ParsedOnce
<1>6. /\ run.stage = "tokens" => Collecting(run.packed)
      /\ run.stage = "ascii" => Lexes(run)
  BY <1>1 DEF CollectTokens, LexIdentifiers, At
<1> QED
  BY <1>1, <1>2, <1>3, <1>4, <1>5, <1>6, OpenedInv

\* The accesses that want the tree only.
LEMMA PlainOpenedInv ==
    ASSUME IInv, RunInv, NEW j \in Slots, BuildRule(j) \/ StartWalk \/ OpenCop(j)
    PROVE  RunInv'
<1>1. /\ run # None /\ run.stage \in {"build", "walk", "finish"}
      /\ WithSharedParse(run.source) /\ result' = result
  BY DEF BuildRule, StartWalk, OpenCop, At
<1>2. PICK k \in Slots \cup {None} :
        /\ run' = Opened(run, k)
        /\ run.stage \in {"build", "finish"} => k \in run.todo
  <2>1. CASE BuildRule(j)
    BY <2>1 DEF BuildRule
  <2>2. CASE StartWalk
    BY <2>2 DEF StartWalk, At
  <2>3. CASE OpenCop(j)
    BY <2>3 DEF OpenCop
  <2> QED
    BY <2>1, <2>2, <2>3
<1>3. PICK s \in Sources : s = run.source
  BY <1>1 DEF RunInv, RunTypeOK, Runs
<1>4. /\ closure' = [source |-> s, api |-> "plain"]
      /\ PlainHit(s) => cache' = cache
      /\ PlainHit(s)'
  BY <1>1, <1>3, PlainOpened
<1>5. run.parses = 1 => cache' = cache
  BY <1>1, <1>3, <1>4 DEF RunInv, ParsedOnce
<1> QED
  BY <1>1, <1>2, <1>3, <1>4, <1>5, OpenedInv

\* A step that ends a call, or needs none, keeps what is known of the parse.
LEMMA QuietInv ==
    ASSUME RunInv, run # None, run' \in Runs, closure' = None, cache' = cache,
           run'.source = run.source, run'.parses = run.parses, result' = result,
           run'.stage \in {"tokens", "ascii"} => run.stage \in {"tokens", "ascii"}
    PROVE  RunTypeOK' /\ OpenCall' /\ ParsedOnce'
BY DEF RunInv, RunTypeOK, OpenCall, ParsedOnce, PlainHit, TokensHit

\* What the slots hold when some more are filled with the run's own source.
LEMMA FilledMore ==
    ASSUME NEW r \in Runs, NEW ks, Complete(r, ks), NEW more,
           NEW n, n.source = r.source, n.slots = Fill(r, more, r.source)
    PROVE  Complete(n, ks \cup more)
BY DEF Complete, Fill

\* The token streams are in hand; the next stage begins.
LEMMA TokensCollectedInv ==
    ASSUME IInv, RunInv, TokensCollected PROVE RunInv'
<1> DEFINE r == [run EXCEPT !.streams = Streams]
<1>1. /\ run \in Runs /\ run.stage = "tokens" /\ run # None /\ closure # None
      /\ run' = Proceed(r) /\ closure' = None /\ cache' = cache /\ result' = result
  BY DEF TokensCollected, At, Return, RunInv, RunTypeOK
<1>2. Streams = <<run.source>> /\ Streams \in Buffers
  <2>1. closure.source = run.source /\ closure.api = "tokens" /\ run.source \in Sources
    BY <1>1 DEF RunInv, OpenCall, Runs
  <2> QED
    BY <1>1, <2>1, LexedAlone DEF IInv, ClosureSeesItsParse, Streams
<1>3. /\ r \in Runs /\ r.source = run.source /\ r.packed = run.packed
      /\ r.stage = "tokens" /\ r.streams = <<run.source>>
      /\ r.slots = run.slots /\ r.parses = run.parses
  BY <1>1, <1>2 DEF Runs
<1> HIDE DEF r
<1>4. /\ run' \in Runs
      /\ run'.source = run.source /\ run'.packed = run.packed /\ run'.stage = "ascii"
      /\ run'.streams = <<run.source>> /\ run'.slots = run.slots
      /\ run'.parses = run.parses
  BY <1>1, <1>3, RunProceeded DEF Stages, After
<1>5. RunTypeOK' /\ OpenCall' /\ ParsedOnce'
  BY <1>1, <1>4, QuietInv
<1>6. StreamsCollected' /\ CommentsCollected'
  BY <1>4 DEF StreamsCollected, CommentsCollected
<1>7. SlotsFilled'
  BY <1>1, <1>4 DEF RunInv, SlotsFilled, Complete, Done
<1> QED
  BY <1>5, <1>6, <1>7 DEF RunInv

\* No cop of the run reads tokens: that stage is passed over.
LEMMA NoTokenCopInv ==
    ASSUME IInv, RunInv, NoTokenCop PROVE RunInv'
<1>1. /\ run \in Runs /\ run.stage = "tokens" /\ run # None /\ ~Collecting(run.packed)
      /\ run' = Proceed(run) /\ closure' = closure /\ cache' = cache /\ result' = result
  BY DEF NoTokenCop, At, RunInv, RunTypeOK, vars
<1>2. closure' = None
  BY <1>1 DEF RunInv, OpenCall
<1>3. /\ run' \in Runs
      /\ run'.source = run.source /\ run'.packed = run.packed /\ run'.stage = "ascii"
      /\ run'.slots = run.slots /\ run'.parses = run.parses
  BY <1>1, RunProceeded DEF Stages, After
<1>4. RunTypeOK' /\ OpenCall' /\ ParsedOnce'
  BY <1>1, <1>2, <1>3, QuietInv
<1>5. StreamsCollected' /\ CommentsCollected'
  BY <1>1, <1>3 DEF StreamsCollected, CommentsCollected
<1>6. SlotsFilled'
  BY <1>1, <1>3 DEF RunInv, SlotsFilled, Complete, Done
<1> QED
  BY <1>4, <1>5, <1>6 DEF RunInv

\* The run leaves the ascii stage with AsciiIdentifiers filled if it is on.
LEMMA AsciiInv ==
    ASSUME IInv, RunInv, IdentifiersLexed \/ NoLex PROVE RunInv'
<1> DEFINE mine == OnSlots(run.packed) \cap {Ascii}
           r == [run EXCEPT !.slots = Fill(run, mine, run.source)]
<1>1. run \in Runs /\ run.stage = "ascii" /\ run # None /\ result' = result
  BY DEF IdentifiersLexed, NoLex, At, RunInv, RunTypeOK
<1>2. Fill(run, {}, run.source) = run.slots /\ Fill(run, mine, run.source) \in Filled
  BY <1>1 DEF Fill, Runs, Filled
<1>3. closure' = None /\ cache' = cache /\ run' = Proceed(r)
  <2>1. CASE IdentifiersLexed
    <3>1. Lexes(run) /\ closure.source = run.source
      BY <1>1, <2>1 DEF IdentifiersLexed, RunInv, OpenCall
    <3>2. mine = {Ascii}
      BY <3>1, SlotsAssumption DEF Lexes, OnSlots
    <3>3. cache.owner = run.source
      BY <2>1, <3>1 DEF IdentifiersLexed, IInv, ClosureSeesItsParse
    <3> QED
      BY <2>1, <3>2, <3>3 DEF IdentifiersLexed, Return
  <2>2. CASE NoLex
    <3>1. closure' = None /\ cache' = cache
      BY <1>1, <2>2 DEF NoLex, RunInv, OpenCall, vars
    <3>2. CASE On(run.packed, Ascii)
      <4>1. mine = {Ascii}
        BY <3>2, SlotsAssumption DEF OnSlots
      <4> QED
        BY <2>2, <3>1, <3>2, <4>1 DEF NoLex
    <3>3. CASE ~On(run.packed, Ascii)
      <4>1. mine = {}
        BY <3>3 DEF OnSlots
      <4>2. r = run
        BY <1>1, <1>2, <4>1 DEF Runs
      <4> QED
        BY <2>2, <3>1, <3>3, <4>2 DEF NoLex
    <3> QED
      BY <3>2, <3>3
  <2> QED
    BY <2>1, <2>2
<1>4. /\ r \in Runs /\ r.source = run.source /\ r.packed = run.packed
      /\ r.stage = "ascii" /\ r.streams = run.streams
      /\ r.slots = Fill(run, mine, run.source) /\ r.parses = run.parses
  BY <1>1, <1>2 DEF Runs
<1> HIDE DEF r
<1>5. /\ run' \in Runs
      /\ run'.source = run.source /\ run'.packed = run.packed /\ run'.stage = "build"
      /\ run'.todo = Prefetches(r) /\ run'.streams = run.streams
      /\ run'.slots = Fill(run, mine, run.source) /\ run'.parses = run.parses
  BY <1>3, <1>4, RunProceeded DEF Stages, After, Todo
<1>6. RunTypeOK' /\ OpenCall' /\ ParsedOnce'
  BY <1>1, <1>3, <1>5, QuietInv
<1>7. StreamsCollected'
  BY <1>1, <1>5 DEF RunInv, StreamsCollected
<1>8. CommentsCollected'
  BY <1>4, <1>5 DEF CommentsCollected, Prefetches, Rules
<1>9. SlotsFilled'
  <2>1. Complete(run, {}) /\ Complete(run', {} \cup mine)
    BY <1>1, <1>5, FilledMore DEF RunInv, SlotsFilled, Done
  <2> QED
    BY <1>5, <2>1 DEF SlotsFilled, Done
<1> QED
  BY <1>6, <1>7, <1>8, <1>9 DEF RunInv

\* A rule that reads comments has been built with them.
LEMMA RuleBuiltInv ==
    ASSUME IInv, RunInv, RuleBuilt PROVE RunInv'
<1>1. /\ run \in Runs /\ run.stage = "build" /\ run # None /\ closure # None
      /\ closure' = None /\ cache' = cache /\ result' = result
      /\ run' = [run EXCEPT !.comments = @ \cup {run.at}, !.todo = @ \ {run.at}, !.at = None]
  BY DEF RuleBuilt, At, Return, RunInv, RunTypeOK
<1>2. run.at \in run.todo /\ run.at \in Slots
  BY <1>1 DEF RunInv, OpenCall, Runs
<1>3. run' \in Runs
  BY <1>1, <1>2 DEF Runs
<1>4. /\ run'.source = run.source /\ run'.packed = run.packed /\ run'.stage = "build"
      /\ run'.streams = run.streams /\ run'.slots = run.slots /\ run'.parses = run.parses
      /\ run'.comments = run.comments \cup {run.at} /\ run'.todo = run.todo \ {run.at}
  BY <1>1 DEF Runs
<1>5. RunTypeOK' /\ OpenCall' /\ ParsedOnce'
  BY <1>1, <1>3, <1>4, QuietInv
<1>6. StreamsCollected' /\ CommentsCollected'
  BY <1>1, <1>4 DEF RunInv, StreamsCollected, CommentsCollected, Prefetches, Rules
<1>7. SlotsFilled'
  BY <1>1, <1>4 DEF RunInv, SlotsFilled, Complete, Done
<1> QED
  BY <1>5, <1>6, <1>7 DEF RunInv

\* Every rule of the walk is built.
LEMMA AllBuiltInv ==
    ASSUME IInv, RunInv, AllBuilt PROVE RunInv'
<1>1. /\ run \in Runs /\ run.stage = "build" /\ run # None /\ run.todo = {}
      /\ run' = Proceed(run) /\ closure' = None /\ cache' = cache /\ result' = result
  BY DEF AllBuilt, At, RunInv, RunTypeOK, vars
<1>2. /\ run' \in Runs
      /\ run'.source = run.source /\ run'.packed = run.packed /\ run'.stage = "walk"
      /\ run'.streams = run.streams /\ run'.comments = run.comments
      /\ run'.slots = run.slots /\ run'.parses = run.parses
  BY <1>1, RunProceeded DEF Stages, After
<1>3. RunTypeOK' /\ OpenCall' /\ ParsedOnce'
  BY <1>1, <1>2, QuietInv
<1>4. StreamsCollected' /\ CommentsCollected'
  BY <1>1, <1>2 DEF RunInv, StreamsCollected, CommentsCollected, Prefetches, Rules
<1>5. SlotsFilled'
  BY <1>1, <1>2 DEF RunInv, SlotsFilled, Complete, Done
<1> QED
  BY <1>3, <1>4, <1>5 DEF RunInv

\* The comments are all there: the walk never asks the cache again, and the
\* rules on it are read back, all filled from the run's source.
LEMMA WalkInv ==
    ASSUME IInv, RunInv, Walk PROVE RunInv' /\ result' = result /\ Return
<1> DEFINE ks == Rules(run) \ Finalized
           r == [run EXCEPT !.slots = Fill(run, ks, run.source)]
<1>1. run \in Runs /\ run.stage = "walk" /\ run # None /\ closure # None
  BY DEF Walk, At, RunInv, RunTypeOK
<1>2. Readers \cap Rules(run) \subseteq run.comments
  BY <1>1 DEF RunInv, CommentsCollected, Prefetches
<1>3. cache.owner = run.source
  BY <1>1 DEF RunInv, OpenCall, IInv, ClosureSeesItsParse
<1>4. Return /\ run' = Proceed(r) /\ result' = result
  BY <1>2, <1>3 DEF Walk
<1>5. closure' = None /\ cache' = cache
  BY <1>4 DEF Return
<1>6. Fill(run, ks, run.source) \in Filled
  BY <1>1 DEF Fill, Runs, Filled
<1>7. /\ r \in Runs /\ r.source = run.source /\ r.packed = run.packed
      /\ r.stage = "walk" /\ r.streams = run.streams
      /\ r.slots = Fill(run, ks, run.source) /\ r.parses = run.parses
  BY <1>1, <1>6 DEF Runs
<1> HIDE DEF r
<1>8. /\ run' \in Runs
      /\ run'.source = run.source /\ run'.packed = run.packed /\ run'.stage = "finish"
      /\ run'.todo = Off(run) /\ run'.streams = run.streams
      /\ run'.slots = Fill(run, ks, run.source) /\ run'.parses = run.parses
  <2>1. r.stage \in Stages \ {"finish"} /\ After(r.stage) = "finish"
    BY <1>7 DEF Stages, After
  <2>2. Off(r) = Off(run)
    BY <1>7 DEF Off
  <2>3. Todo(r, "finish") = Off(run)
    BY <2>2 DEF Todo
  <2> QED
    BY <1>4, <1>7, <2>1, <2>3, RunProceeded
<1>9. RunTypeOK' /\ OpenCall' /\ ParsedOnce'
  BY <1>1, <1>4, <1>5, <1>8, QuietInv
<1>10. StreamsCollected' /\ CommentsCollected'
  BY <1>1, <1>8 DEF RunInv, StreamsCollected, CommentsCollected
<1>11. SlotsFilled'
  <2> DEFINE on == OnSlots(run.packed)
  <2>1. Complete(run, on \cap {Ascii})
    BY <1>1 DEF RunInv, SlotsFilled, Done
  <2>2. Complete(run', (on \cap {Ascii}) \cup ks)
    BY <1>1, <1>8, <2>1, FilledMore
  <2>3. run.source \in Sources
    BY <1>1 DEF Runs
  <2>4. ks = (Walked \ Finalized) \cap on
    BY <2>3, SlotsAssumption DEF Rules
  <2>5. (on \cap {Ascii}) \cup ks = on \ Off(run)
    BY <2>4 DEF Off
  <2>6. Off(run) \subseteq on
    BY DEF Off
  <2> QED
    BY <1>8, <2>2, <2>5, <2>6 DEF SlotsFilled, Done
<1> QED
  BY <1>4, <1>9, <1>10, <1>11 DEF RunInv

\* One more cop off the walk is filled, with its group.
LEMMA CopFilledInv ==
    ASSUME RunInv, run # None, run.stage = "finish", NEW k \in run.todo,
           run' = [run EXCEPT !.slots = Fill(run, GroupOf[k], run.source),
                              !.todo = @ \ GroupOf[k], !.at = run'.at],
           run'.at \in Slots \cup {None},
           closure' = None, cache' = cache, result' = result
    PROVE  RunInv'
<1>1. run \in Runs /\ run.todo \subseteq OnSlots(run.packed)
  BY DEF RunInv, RunTypeOK, SlotsFilled
<1>2. run.packed \in Packed /\ k \in OnSlots(run.packed)
  BY <1>1 DEF Runs
<1>3. GroupOf[k] \subseteq OnSlots(run.packed)
  BY <1>2, GroupOn
<1>4. Fill(run, GroupOf[k], run.source) \in Filled
  BY <1>1 DEF Fill, Runs, Filled
<1>5. run' \in Runs
  BY <1>1, <1>4 DEF Runs
<1>6. /\ run'.source = run.source /\ run'.packed = run.packed /\ run'.stage = "finish"
      /\ run'.streams = run.streams /\ run'.parses = run.parses
      /\ run'.slots = Fill(run, GroupOf[k], run.source)
      /\ run'.todo = run.todo \ GroupOf[k]
  BY <1>1 DEF Runs
<1>7. RunTypeOK' /\ OpenCall' /\ ParsedOnce'
  BY <1>5, <1>6, QuietInv
<1>8. StreamsCollected' /\ CommentsCollected'
  BY <1>6 DEF RunInv, StreamsCollected, CommentsCollected
<1>9. SlotsFilled'
  <2> DEFINE on == OnSlots(run.packed)
  <2>1. Complete(run, on \ run.todo)
    BY DEF RunInv, SlotsFilled, Done
  <2>2. Complete(run', (on \ run.todo) \cup GroupOf[k])
    BY <1>1, <1>6, <2>1, FilledMore
  <2>3. (on \ run.todo) \cup GroupOf[k] = on \ (run.todo \ GroupOf[k])
    BY <1>3
  <2> QED
    BY <1>1, <1>6, <2>2, <2>3 DEF SlotsFilled, Done
<1> QED
  BY <1>7, <1>8, <1>9 DEF RunInv

\* An off-walk cop comes back from its own access.
LEMMA CopDoneInv ==
    ASSUME IInv, RunInv, CopDone PROVE RunInv'
<1>1. /\ run \in Runs /\ run # None /\ run.stage = "finish" /\ closure # None
      /\ closure' = None /\ cache' = cache /\ result' = result
  BY DEF CopDone, At, Return, RunInv, RunTypeOK
<1>2. run.at \in run.todo /\ cache.owner = run.source
  BY <1>1 DEF RunInv, OpenCall, IInv, ClosureSeesItsParse
<1>3. run.at \in OnSlots(run.packed)
  BY <1>1, <1>2 DEF RunInv, SlotsFilled
<1>4. Combined(run.at) = run.source
  <2>1. run.packed \in Packed
    BY <1>1 DEF Runs
  <2>2. run.at \in TokenSlots => Collecting(run.packed)
    BY <1>3, <2>1, TokenCopCollects
  <2>3. run.at \in TokenSlots => run.streams = <<cache.owner>>
    BY <1>1, <1>2, <2>2 DEF RunInv, StreamsCollected
  <2> QED
    BY <1>2, <2>3 DEF Combined
<1>5. run' = [run EXCEPT !.slots = Fill(run, GroupOf[run.at], run.source),
                         !.todo = @ \ GroupOf[run.at], !.at = None]
  BY <1>4 DEF CopDone
<1>6. run'.at = None
  BY <1>1, <1>5 DEF Runs
<1>7. run' = [run EXCEPT !.slots = Fill(run, GroupOf[run.at], run.source),
                         !.todo = @ \ GroupOf[run.at], !.at = run'.at]
  BY <1>5, <1>6
<1> QED
  BY <1>1, <1>2, <1>6, <1>7, CopFilledInv

\* A cop that a byte scan settles fills its slots without an access.
LEMMA ScanBytesInv ==
    ASSUME IInv, RunInv, NEW k \in Slots, ScanBytes(k) PROVE RunInv'
<1>1. /\ run \in Runs /\ run # None /\ run.stage = "finish" /\ k \in run.todo
      /\ closure' = None /\ cache' = cache /\ result' = result
      /\ run' = [run EXCEPT !.slots = Fill(run, GroupOf[k], run.source),
                            !.todo = @ \ GroupOf[k]]
  BY DEF ScanBytes, At, RunInv, RunTypeOK, vars
<1>2. run'.at = run.at /\ run.at \in Slots \cup {None}
  BY <1>1 DEF Runs
<1>3. run' = [run EXCEPT !.slots = Fill(run, GroupOf[k], run.source),
                         !.todo = @ \ GroupOf[k], !.at = run'.at]
  BY <1>1, <1>2 DEF Runs
<1> QED
  BY <1>1, <1>2, <1>3, CopFilledInv

\* A run begins, for any source and any packed configs.
LEMMA CheckAllInv ==
    ASSUME IInv, RunInv, NEW s \in Sources, NEW p \in Packed, CheckAll(s, p)
    PROVE  RunInv'
<1>1. run' \in Runs
  BY SlotsAssumption DEF CheckAll, Runs, Stages, Filled
<1>2. /\ closure' = None /\ run'.source = s /\ run'.stage = "tokens"
      /\ run'.parses = 0 /\ run'.slots = [k \in Slots |-> None] /\ result' = None
  BY DEF CheckAll, vars
<1> QED
  BY <1>1, <1>2 DEF RunInv, RunTypeOK, OpenCall, ParsedOnce, StreamsCollected,
                    CommentsCollected, SlotsFilled, Complete, Done

\* The run is over: its slots are what the standalone entry points compute.
LEMMA FinishInv ==
    ASSUME IInv, RunInv, Finish PROVE RunInv' /\ SlotsAreStandalone' /\ NoReentry'
<1>1. /\ run \in Runs /\ run # None /\ run.stage = "finish" /\ run.todo = {} /\ run' = None
      /\ result' = [source |-> run.source, packed |-> run.packed, slots |-> run.slots]
  BY DEF Finish, At, RunInv, RunTypeOK
<1>2. result' \in Results
  BY <1>1 DEF Runs, Results
<1>3. Complete(run, OnSlots(run.packed))
  BY <1>1 DEF RunInv, SlotsFilled, Done
<1>4. /\ result'.source = run.source /\ result'.packed = run.packed
      /\ result'.slots = [k \in Slots |-> IF k \in OnSlots(run.packed) THEN run.source ELSE None]
  BY <1>1, <1>3 DEF Complete
<1>5. SlotsAreStandalone'
  BY <1>4 DEF SlotsAreStandalone, OnSlots, On
<1>6. NoReentry'
  BY <1>2, RunNoneAssumption DEF NoReentry
<1>7. RunInv'
  BY <1>1, <1>2 DEF RunInv, RunTypeOK, OpenCall, ParsedOnce, StreamsCollected,
                    CommentsCollected, SlotsFilled
<1> QED
  BY <1>5, <1>6, <1>7

\* Between runs only the cache changes.
LEMMA IdleInv ==
    ASSUME RunInv, run = None, UNCHANGED <<run, result>> PROVE RunInv'
BY DEF RunInv, RunTypeOK, OpenCall, ParsedOnce, StreamsCollected, CommentsCollected, SlotsFilled

-----------------------------------------------------------------------------

\* Every step of a run is a step of the cache or leaves it alone.
LEMMA CacheStep ==
    ASSUME IInv, RunInv, [BundleNext]_bundleVars PROVE [Next]_vars
<1>1. ASSUME run # None, WithSharedParse(run.source) \/ WithParsedAndTokens(run.source)
      PROVE  Next
  <2>1. run.source \in Sources
    BY <1>1 DEF RunInv, RunTypeOK, Runs
  <2> QED
    BY <1>1, <2>1 DEF Next
<1>2. Return => Next
  BY DEF Next
<1>3. CASE \E k \in Slots : BuildRule(k) \/ OpenCop(k)
  BY <1>1, <1>3 DEF BuildRule, OpenCop, At
<1>4. CASE CollectTokens \/ LexIdentifiers \/ StartWalk
  BY <1>1, <1>4 DEF CollectTokens, LexIdentifiers, StartWalk, At
<1>5. CASE TokensCollected \/ IdentifiersLexed \/ RuleBuilt \/ CopDone \/ StandaloneReturns
  BY <1>2, <1>5 DEF TokensCollected, IdentifiersLexed, RuleBuilt, CopDone, StandaloneReturns
<1>6. CASE Walk
  BY <1>2, <1>6, WalkInv
<1>7. CASE \E s \in Sources : Standalone(s)
  BY <1>7 DEF Standalone, Next
<1>8. CASE NoTokenCop \/ NoLex \/ AllBuilt \/ Finish
  BY <1>8 DEF NoTokenCop, NoLex, AllBuilt, Finish
<1>9. CASE \E s \in Sources, p \in Packed : CheckAll(s, p)
  BY <1>9 DEF CheckAll
<1>10. CASE \E k \in Slots : ScanBytes(k)
  BY <1>10 DEF ScanBytes
<1>11. CASE UNCHANGED bundleVars
  BY <1>11 DEF bundleVars, vars
<1> QED
  BY <1>3, <1>4, <1>5, <1>6, <1>7, <1>8, <1>9, <1>10, <1>11 DEF BundleNext, RunStep

\* A step leaves the result alone, forgets it, or is the end of the run.
LEMMA StepInv ==
    ASSUME BInv, [BundleNext]_bundleVars
    PROVE  RunInv' /\ SlotsAreStandalone' /\ NoReentry'
<1> USE DEF BInv
<1>1. result' = result => SlotsAreStandalone' /\ NoReentry'
  BY DEF SlotsAreStandalone, NoReentry
<1>2. ASSUME NEW k \in Slots, BuildRule(k) \/ OpenCop(k)
      PROVE  RunInv' /\ result' = result
  BY <1>2, PlainOpenedInv DEF BuildRule, OpenCop
<1>3. CASE StartWalk
  BY <1>1, <1>3, SlotsAssumption, PlainOpenedInv DEF StartWalk
<1>4. CASE CollectTokens \/ LexIdentifiers
  BY <1>1, <1>4, TokensOpenedInv DEF CollectTokens, LexIdentifiers
<1>5. CASE TokensCollected \/ NoTokenCop
  BY <1>1, <1>5, TokensCollectedInv, NoTokenCopInv DEF TokensCollected, NoTokenCop
<1>6. CASE IdentifiersLexed \/ NoLex
  BY <1>1, <1>6, AsciiInv DEF IdentifiersLexed, NoLex
<1>7. CASE RuleBuilt \/ AllBuilt
  BY <1>1, <1>7, RuleBuiltInv, AllBuiltInv DEF RuleBuilt, AllBuilt
<1>8. CASE Walk
  BY <1>1, <1>8, WalkInv
<1>9. CASE CopDone
  BY <1>1, <1>9, CopDoneInv DEF CopDone
<1>10. ASSUME NEW k \in Slots, ScanBytes(k) PROVE RunInv' /\ result' = result
  BY <1>10, ScanBytesInv DEF ScanBytes
<1>11. CASE Finish
  BY <1>11, FinishInv
<1>12. ASSUME NEW s \in Sources, NEW p \in Packed, CheckAll(s, p)
       PROVE  RunInv' /\ SlotsAreStandalone' /\ NoReentry'
  <2>1. RunInv'
    BY <1>12, CheckAllInv
  <2>2. result' = None
    BY <1>12 DEF CheckAll
  <2> QED
    BY <2>1, <2>2, RunNoneAssumption DEF SlotsAreStandalone, NoReentry
<1>13. CASE (\E s \in Sources : Standalone(s)) \/ StandaloneReturns
  BY <1>1, <1>13, IdleInv DEF Standalone, StandaloneReturns
<1>14. CASE UNCHANGED bundleVars
  <2>1. RunInv'
    BY <1>14 DEF bundleVars, RunInv, RunTypeOK, OpenCall, ParsedOnce, PlainHit, TokensHit,
                 StreamsCollected, CommentsCollected, Prefetches, Rules, SlotsFilled,
                 Complete, Done, Lexes
  <2> QED
    BY <1>1, <1>14, <2>1 DEF bundleVars
<1> QED
  BY <1>1, <1>2, <1>3, <1>4, <1>5, <1>6, <1>7, <1>8, <1>9, <1>10, <1>11, <1>12, <1>13, <1>14
     DEF BundleNext, RunStep

\* Nothing runs at first.
LEMMA BundleInitInv == BundleInit => BInv
<1> SUFFICES ASSUME BundleInit PROVE BInv
  OBVIOUS
<1>1. IInv
  BY InitIInv DEF BundleInit
<1>2. RunInv
  BY DEF BundleInit, RunInv, RunTypeOK, OpenCall, ParsedOnce, StreamsCollected,
         CommentsCollected, SlotsFilled
<1>3. SlotsAreStandalone /\ NoReentry
  BY RunNoneAssumption DEF BundleInit, SlotsAreStandalone, NoReentry
<1> QED
  BY <1>1, <1>2, <1>3 DEF BInv

\* Every step of a run, and every access between runs, keeps the invariant.
LEMMA BundleNextInv == BInv /\ [BundleNext]_bundleVars => BInv'
<1> SUFFICES ASSUME BInv, [BundleNext]_bundleVars PROVE BInv'
  OBVIOUS
<1>1. IInv'
  BY CacheStep, NextIInv DEF BInv
<1>2. RunInv' /\ SlotsAreStandalone' /\ NoReentry'
  BY StepInv
<1> QED
  BY <1>1, <1>2 DEF BInv

\* The inductive invariant of a bundled run.
THEOREM BundleInvariantHolds == BundleSpec => []BInv
BY BundleInitInv, BundleNextInv, PTL DEF BundleSpec

\* A bundled run, and the standalone entry points between runs, use the parse
\* cache as ParseCache says: all that is proved of the cache holds of them.
THEOREM BundleIsCacheClient == BundleSpec => Spec
<1>1. BundleInit => Init
  BY DEF BundleInit
<1>2. BInv /\ [BundleNext]_bundleVars => [Next]_vars
  BY CacheStep DEF BInv
<1> QED
  BY <1>1, <1>2, BundleInvariantHolds, PTL DEF BundleSpec, Spec

\* Type correctness of the run.
THEOREM RunTypeCorrect == BundleSpec => []RunTypeOK
<1>1. BInv => RunTypeOK
  BY DEF BInv, RunInv
<1> QED
  BY <1>1, BundleInvariantHolds, PTL

\* check_all_bundle parses its source at most once, whatever the cache held
\* and whichever slots are on.
THEOREM OneParse == BundleSpec => []OneParsePerRun
<1>1. BInv => OneParsePerRun
  BY DEF BInv, RunInv, ParsedOnce, OneParsePerRun
<1> QED
  BY <1>1, BundleInvariantHolds, PTL

\* No rule asks the parse cache for its comments during the shared walk.
THEOREM WalkNeverReenters == BundleSpec => []NoReentry
<1>1. BInv => NoReentry
  BY DEF BInv
<1> QED
  BY <1>1, BundleInvariantHolds, PTL

\* The bundle is transparent: exactly the slots that are on are filled, each
\* with what its standalone entry point computes from the run's source.
THEOREM SlotsRight == BundleSpec => []SlotsAreStandalone
<1>1. BInv => SlotsAreStandalone
  BY DEF BInv
<1> QED
  BY <1>1, BundleInvariantHolds, PTL
=============================================================================
