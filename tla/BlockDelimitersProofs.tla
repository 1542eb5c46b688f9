----------------------- MODULE BlockDelimitersProofs -----------------------
(***************************************************************************)
(* Proofs about BlockDelimiters, for any programs, directives and number   *)
(* of rounds of an instance: the resolved and the replayed events give the *)
(* verdicts of the stock cop.  They hold of texts in which byte and        *)
(* character offsets agree; the run block_delimiters_bytes shows that they *)
(* do not hold of others.                                                  *)
(***************************************************************************)
EXTENDS BlockDelimiters, TLAPS

\* Every text is ASCII up to its last block.
Ascii == \A s \in Sources : s.lead = 0

\* The text of a running round is one of the inputs.
SourceKnown ==
    /\ source \in Sources \cup {None}
    /\ phase # "idle" => source \in Sources
    /\ phase \in {"on_block", "on_send"} => pos >= 1
    /\ phase = "on_send" => pos <= Len(source.calls)

\* The stock cop after one event.
StockAfter(st, e) ==
    IF e.kind = "ignore" THEN [st EXCEPT !.ignored = @ \cup e.blocks]
    ELSE IF Contained(st.ignored, e.block) \/ e.name \in patterns THEN st
    ELSE [reported |-> st.reported \cup {e.block},
          ignored  |-> st.ignored \cup ({e.block} \ source.disabled)]

\* The trace goes with the events.
TraceFollows ==
    phase # "idle" =>
        /\ Len(trace) = Len(events) + 1
        /\ trace[1].reported = {}
        /\ \A i \in 1..Len(events) : trace[i + 1] = StockAfter(trace[i], events[i])

\* Until a round commits, the cop knows the ranges the stock cop began with.
BeforeCommit ==
    phase \in {"on_block", "on_send", "resolve"} => ignored = trace[1].ignored

WalkBegins == phase \in {"on_block", "on_send"} => resolved = NothingResolved /\ reported = {}

\* What is resolved so far is what the stock cop has done so far, unless its
\* verdict hangs on a directive.
ResolveFollows ==
    phase = "resolve" =>
        /\ pos \in 1..Len(events) + 1
        /\ patterns = {}
        /\ reported = {}
        /\ resolved.conditional = {} =>
              /\ resolved.offenses = trace[pos].reported
              /\ ignored \cup resolved.sendIgnores \cup (resolved.offenses \ source.disabled)
                    = trace[pos].ignored

ReplayFollows ==
    phase = "replay" =>
        /\ pos \in 1..Len(events) + 1
        /\ ignored = trace[pos].ignored
        /\ reported = trace[pos].reported

IInv ==
    /\ TypeOK
    /\ SourceKnown
    /\ TraceFollows
    /\ BeforeCommit
    /\ WalkBegins
    /\ ResolveFollows
    /\ ReplayFollows
    /\ SameOffenses
    /\ SameIgnored

-----------------------------------------------------------------------------

\* In an ASCII text offsets need no conversion.
LEMMA SameOffsets ==
    ASSUME Ascii, source \in Sources, NEW r \in Ranges
    PROVE  Bytes(r) = r /\ Chars(r) = r
<1>1. source.lead = 0
  BY DEF Ascii
<1>2. r = <<r[1], r[2]>> /\ r[1] \in Nat /\ r[2] \in Nat
  BY DEF Ranges
<1>3. r[1] + 0 = r[1] /\ r[2] + 0 = r[2] /\ r[1] - 0 = r[1] /\ r[2] - 0 = r[2]
  BY <1>2
<1> QED
  BY <1>1, <1>2, <1>3 DEF Bytes, Chars

\* Under Ascii a set of ranges is the same in bytes and in characters.
LEMMA SameOffsetsOfSets ==
    ASSUME Ascii, source \in Sources, NEW rs \in SUBSET Ranges
    PROVE  /\ {Bytes(r) : r \in rs} = rs /\ {Chars(r) : r \in rs} = rs
           /\ Enabled(rs) = rs \ source.disabled
<1>1. \A r \in rs : Bytes(r) = r /\ Chars(r) = r
  BY SameOffsets
<1> QED
  BY <1>1 DEF Enabled

\* The ranges of a step of the stock cop are ranges.
LEMMA StockTyped ==
    ASSUME NEW st \in Stocks, NEW e \in Events
    PROVE  StockAfter(st, e) \in Stocks
<1>1. CASE e.kind = "ignore"
  <2>1. e.blocks \in SUBSET Ranges
    BY <1>1 DEF Events, Ignores, Candidates
  <2> QED
    BY <1>1, <2>1 DEF StockAfter, Stocks
<1>2. CASE e.kind # "ignore"
  <2>1. e.block \in Ranges
    BY <1>2 DEF Events, Ignores, Candidates
  <2> QED
    BY <1>2, <2>1 DEF StockAfter, Stocks
<1> QED
  BY <1>1, <1>2

\* The first round has no ranges.
LEMMA InitIInv == Init => IInv
<1> SUFFICES ASSUME Init PROVE IInv
  OBVIOUS
<1>1. /\ trace = <<[ignored |-> {}, reported |-> {}]>>
      /\ trace \in Seq(Stocks) /\ trace # <<>>
  BY DEF Init, FreshStock, Stocks
<1>2. Stock.ignored = {} /\ Stock.reported = {}
  BY <1>1 DEF Stock
<1>3. TypeOK
  BY <1>1 DEF Init, TypeOK, Phases, Resolved, NothingResolved
<1>4. SourceKnown /\ TraceFollows /\ BeforeCommit /\ WalkBegins
  BY DEF Init, SourceKnown, TraceFollows, BeforeCommit, WalkBegins
<1>5. ResolveFollows /\ ReplayFollows
  BY DEF Init, ResolveFollows, ReplayFollows
<1>6. SameOffenses /\ SameIgnored
  BY <1>2 DEF Init, SameOffenses, SameIgnored
<1> QED
  BY <1>3, <1>4, <1>5, <1>6 DEF IInv

\* The next round of an instance keeps its ranges.
LEMMA InvestigateIInv ==
    ASSUME IInv, NEW s \in Sources, Investigate(s) PROVE IInv'
<1>1. Stock \in Stocks
  BY DEF IInv, TypeOK, Stock
<1>2. /\ trace' = <<[ignored |-> Stock.ignored, reported |-> {}]>>
      /\ trace' \in Seq(Stocks) /\ trace' # <<>> /\ Len(trace') = 1
      /\ trace'[1].ignored = Stock.ignored /\ trace'[1].reported = {}
  BY <1>1 DEF Investigate, FreshStock, Stocks
<1>3. TypeOK'
  BY <1>2, SourcesAssumption DEF IInv, TypeOK, Investigate, Phases, Resolved, NothingResolved
<1>4. ignored = Stock.ignored
  BY DEF IInv, SameIgnored, Investigate
<1>5. events' = <<>> /\ Len(events') = 0
  BY DEF Investigate
<1> QED
  BY <1>2, <1>3, <1>4, <1>5 DEF Investigate, IInv, SourceKnown, TraceFollows, BeforeCommit,
     WalkBegins, ResolveFollows, ReplayFollows, SameOffenses, SameIgnored

\* A new instance has none.
LEMMA NewInstanceIInv ==
    ASSUME IInv, NewInstance PROVE IInv'
<1>1. /\ trace' = <<[ignored |-> {}, reported |-> {}]>>
      /\ trace' \in Seq(Stocks) /\ trace' # <<>>
  BY DEF NewInstance, FreshStock, Stocks
<1>2. Stock'.ignored = {} /\ Stock'.reported = {}
  BY <1>1 DEF Stock
<1>3. TypeOK'
  BY <1>1 DEF IInv, TypeOK, NewInstance
<1>4. SourceKnown' /\ TraceFollows' /\ BeforeCommit' /\ WalkBegins'
  BY DEF NewInstance, IInv, SourceKnown, TraceFollows, BeforeCommit, WalkBegins
<1>5. ResolveFollows' /\ ReplayFollows'
  BY DEF NewInstance, ResolveFollows, ReplayFollows
<1>6. SameOffenses' /\ SameIgnored'
  BY <1>2 DEF NewInstance, SameOffenses, SameIgnored
<1> QED
  BY <1>3, <1>4, <1>5, <1>6 DEF IInv

\* An event and what the stock cop does at it are recorded together.
LEMMA Recorded ==
    ASSUME TypeOK, TraceFollows, phase # "idle", NEW e \in Events,
           events' = Append(events, e), trace' = Append(trace, StockAfter(Stock, e)),
           source' = source, patterns' = patterns
    PROVE  /\ TraceFollows' /\ trace'[1] = trace[1]
           /\ events' \in Seq(Events) /\ trace' \in Seq(Stocks) /\ trace' # <<>>
<1>1. /\ events \in Seq(Events) /\ trace \in Seq(Stocks)
      /\ Len(trace) = Len(events) + 1 /\ Len(events) \in Nat
  BY DEF TypeOK, TraceFollows
<1>2. Stock = trace[Len(trace)] /\ Stock \in Stocks
  BY <1>1 DEF Stock
<1>3. StockAfter(Stock, e) \in Stocks
  BY <1>2, StockTyped
<1>4. /\ events' \in Seq(Events) /\ Len(events') = Len(events) + 1
      /\ trace' \in Seq(Stocks) /\ Len(trace') = Len(trace) + 1
  BY <1>1, <1>3
<1>5. /\ \A i \in 1..Len(events) : events'[i] = events[i]
      /\ \A i \in 1..Len(trace) : trace'[i] = trace[i]
      /\ events'[Len(events')] = e /\ trace'[Len(trace')] = StockAfter(Stock, e)
  BY <1>1, <1>3, <1>4
<1>6. \A st, f : StockAfter(st, f)' = StockAfter(st, f)
  BY DEF StockAfter
<1>7. ASSUME NEW i \in 1..Len(events')
      PROVE  trace'[i + 1] = StockAfter(trace'[i], events'[i])
  <2>1. CASE i \in 1..Len(events)
    BY <1>1, <1>5, <2>1 DEF TraceFollows
  <2>2. CASE i = Len(events')
    BY <1>1, <1>2, <1>4, <1>5, <2>2
  <2> QED
    BY <1>1, <1>4, <2>1, <2>2
<1>8. trace'[1] = trace[1]
  BY <1>1, <1>5
<1>9. TraceFollows'
  BY <1>1, <1>4, <1>7, <1>8 DEF TraceFollows, StockAfter
<1> QED
  BY <1>1, <1>4, <1>8, <1>9

\* A block is met, by the cop and by the stock cop.
LEMMA OnBlockIInv ==
    ASSUME Ascii, IInv, OnBlock PROVE IInv'
<1>1. /\ source \in Sources /\ source \in Texts /\ pos \in 1..Len(source.calls)
      /\ phase = "on_block" /\ phase' = "on_send"
  BY SourcesAssumption DEF IInv, TypeOK, SourceKnown, OnBlock, Texts
<1>2. Call \in Calls /\ Call.range \in Ranges /\ Call.name \in Names
  <2>1. source.calls \in Seq(Calls)
    BY <1>1 DEF Texts
  <2>2. Call \in Calls
    BY <1>1, <2>1 DEF Call
  <2> QED
    BY <2>2 DEF Calls
<1>3. /\ TraceFollows' /\ trace'[1] = trace[1]
      /\ events' \in Seq(Events) /\ trace' \in Seq(Stocks) /\ trace' # <<>>
  <2> DEFINE e == [kind |-> "candidate", block |-> Bytes(Call.range), name |-> Call.name]
  <2>1. CASE Call.block = "improper"
    <3>1. Bytes(Call.range) = Call.range
      BY <1>1, <1>2, SameOffsets
    <3>2. e \in Events /\ e.kind = "candidate" /\ e.block = Call.range /\ e.name = Call.name
      BY <1>2, <3>1 DEF Events, Candidates
    <3>3. StockAfter(Stock, e) = StockBlock(Call.range, Call.name)
      BY <3>2 DEF StockAfter, StockBlock
    <3>4. /\ events' = Append(events, e) /\ trace' = Append(trace, StockAfter(Stock, e))
          /\ source' = source /\ patterns' = patterns
      BY <2>1, <3>3 DEF OnBlock
    <3> QED
      BY <1>1, <3>2, <3>4, Recorded DEF IInv
  <2>2. CASE Call.block # "improper"
    BY <1>1, <2>2 DEF OnBlock, IInv, TypeOK, TraceFollows, StockAfter
  <2> QED
    BY <2>1, <2>2
<1>4. TypeOK'
  BY <1>3 DEF IInv, TypeOK, OnBlock, Phases
<1>5. SourceKnown' /\ WalkBegins' /\ BeforeCommit'
  BY <1>1, <1>3 DEF IInv, SourceKnown, WalkBegins, BeforeCommit, OnBlock
<1>6. ResolveFollows' /\ ReplayFollows' /\ SameOffenses' /\ SameIgnored'
  BY <1>1 DEF ResolveFollows, ReplayFollows, SameOffenses, SameIgnored
<1> QED
  BY <1>3, <1>4, <1>5, <1>6 DEF IInv

\* A call is met.
LEMMA OnSendIInv ==
    ASSUME Ascii, IInv, OnSend PROVE IInv'
<1> DEFINE blocks == GetBlocks(source.calls, Call.binds)
<1>1. /\ source \in Sources /\ source \in Texts /\ pos \in Nat
      /\ phase = "on_send" /\ phase' = "on_block" /\ pos' = pos + 1 /\ pos >= 1
  BY SourcesAssumption DEF IInv, TypeOK, SourceKnown, OnSend
<1>2. blocks \in SUBSET Ranges
  <2>1. source.calls \in Seq(Calls)
    BY <1>1 DEF Texts
  <2>2. \A i \in DOMAIN source.calls : source.calls[i] \in Calls
    BY <2>1
  <2>3. \A c \in Calls : c.range \in Ranges
    BY DEF Calls
  <2> QED
    BY <2>2, <2>3 DEF GetBlocks
<1> HIDE DEF blocks
<1>3. /\ TraceFollows' /\ trace'[1] = trace[1]
      /\ events' \in Seq(Events) /\ trace' \in Seq(Stocks) /\ trace' # <<>>
  <2> DEFINE e == [kind |-> "ignore", blocks |-> {Bytes(r) : r \in blocks}]
  <2>1. CASE blocks # {}
    <3>1. {Bytes(r) : r \in blocks} = blocks
      BY <1>1, <1>2, SameOffsetsOfSets
    <3>2. e \in Events /\ e.kind = "ignore" /\ e.blocks = blocks
      BY <1>2, <3>1 DEF Events, Ignores
    <3>3. StockAfter(Stock, e) = StockSend(blocks)
      BY <3>2 DEF StockAfter, StockSend
    <3>4. /\ events' = Append(events, e) /\ trace' = Append(trace, StockAfter(Stock, e))
          /\ source' = source /\ patterns' = patterns
      BY <2>1, <3>3 DEF OnSend, blocks
    <3> QED
      BY <1>1, <3>2, <3>4, Recorded DEF IInv
  <2>2. CASE blocks = {}
    BY <1>1, <2>2 DEF OnSend, IInv, TypeOK, TraceFollows, StockAfter, blocks
  <2> QED
    BY <2>1, <2>2
<1>4. TypeOK'
  BY <1>1, <1>3 DEF IInv, TypeOK, OnSend, Phases
<1>5. SourceKnown' /\ WalkBegins' /\ BeforeCommit'
  BY <1>1, <1>3 DEF IInv, SourceKnown, WalkBegins, BeforeCommit, OnSend
<1>6. ResolveFollows' /\ ReplayFollows' /\ SameOffenses' /\ SameIgnored'
  BY <1>1 DEF ResolveFollows, ReplayFollows, SameOffenses, SameIgnored
<1> QED
  BY <1>3, <1>4, <1>5, <1>6 DEF IInv

\* The walk is over: resolve takes the events, or replay if there are patterns.
LEMMA WalkedIInv ==
    ASSUME IInv, Walked PROVE IInv'
<1>1. /\ phase = "on_block" /\ phase' \in {"resolve", "replay"} /\ pos' = 1
      /\ phase' = "resolve" => patterns = {}
      /\ UNCHANGED <<patterns, ignored, source, events, resolved, reported, trace>>
  BY DEF Walked
<1>2. TypeOK' /\ SourceKnown' /\ TraceFollows' /\ BeforeCommit' /\ WalkBegins'
  BY <1>1 DEF IInv, TypeOK, SourceKnown, TraceFollows, StockAfter, BeforeCommit, WalkBegins, Phases
<1>3. Len(events) \in Nat /\ trace[1].reported = {} /\ ignored = trace[1].ignored
      /\ resolved = NothingResolved /\ reported = {}
  BY <1>1 DEF IInv, TypeOK, TraceFollows, BeforeCommit, WalkBegins
<1>4. ResolveFollows' /\ ReplayFollows'
  BY <1>1, <1>3 DEF ResolveFollows, ReplayFollows, NothingResolved
<1>5. SameOffenses' /\ SameIgnored'
  BY <1>1 DEF SameOffenses, SameIgnored
<1> QED
  BY <1>2, <1>4, <1>5 DEF IInv

\* In resolve a range covers a block in the code's sets exactly when it does
\* in the stock cop's, as long as no verdict hangs on a directive.
LEMMA ContainedUnion ==
    ASSUME NEW rs, NEW qs, NEW r
    PROVE  Contained(rs \cup qs, r) <=> Contained(rs, r) \/ Contained(qs, r)
BY DEF Contained

\* A range inside one of some ranges is inside one of more.
LEMMA ContainedMore ==
    ASSUME NEW rs, NEW qs, rs \subseteq qs, NEW r, Contained(rs, r)
    PROVE  Contained(qs, r)
BY DEF Contained

\* An iteration of resolve.
LEMMA ResolveIInv ==
    ASSUME Ascii, IInv, Resolve PROVE IInv'
<1> DEFINE e == events[pos]
<1>1. /\ phase = "resolve" /\ phase' = "resolve" /\ pos' = pos + 1
      /\ UNCHANGED <<patterns, ignored, source, phase, events, reported, trace>>
      /\ source \in Sources /\ pos \in 1..Len(events) /\ patterns = {} /\ reported = {}
  BY DEF Resolve, IInv, TypeOK, SourceKnown, ResolveFollows
<1>2. e \in Events /\ trace[pos + 1] = StockAfter(trace[pos], e)
  BY <1>1 DEF IInv, TypeOK, TraceFollows
<1>3. Len(trace) = Len(events) + 1 /\ Len(events) \in Nat /\ trace[pos] \in Stocks
  BY <1>1 DEF IInv, TypeOK, TraceFollows
<1>4. resolved \in Resolved
  BY DEF IInv, TypeOK
<1>5. /\ resolved' \in Resolved
      /\ resolved'.conditional = {} =>
            /\ resolved'.offenses = trace[pos + 1].reported
            /\ ignored \cup resolved'.sendIgnores \cup (resolved'.offenses \ source.disabled)
                  = trace[pos + 1].ignored
  <2> DEFINE prior == ignored \cup resolved.sendIgnores
             all == prior \cup (resolved.offenses \ source.disabled)
  <2>0. resolved.conditional = {} =>
            resolved.offenses = trace[pos].reported /\ all = trace[pos].ignored
    BY <1>1 DEF IInv, ResolveFollows
  <2>1. CASE e.kind = "ignore"
    <3>1. resolved' = [resolved EXCEPT !.sendIgnores = @ \cup e.blocks]
      BY <2>1 DEF Resolve
    <3>2. e.blocks \in SUBSET Ranges
      BY <1>2, <2>1 DEF Events, Candidates, Ignores
    <3>3. trace[pos + 1] = [trace[pos] EXCEPT !.ignored = @ \cup e.blocks]
      BY <1>2, <2>1 DEF StockAfter
    <3> QED
      BY <1>3, <1>4, <2>0, <3>1, <3>2, <3>3 DEF Resolved, Stocks
  <2>2. CASE e.kind # "ignore"
    <3>1. e.block \in Ranges /\ resolved' = ResolveCandidate(e)
      BY <1>2, <2>2 DEF Resolve, Events, Candidates, Ignores
    <3>2. trace[pos + 1] =
             IF Contained(trace[pos].ignored, e.block) THEN trace[pos]
             ELSE [reported |-> trace[pos].reported \cup {e.block},
                   ignored  |-> trace[pos].ignored \cup ({e.block} \ source.disabled)]
      BY <1>1, <1>2, <2>2 DEF StockAfter
    <3>3. CASE Suppressed(e)
      <4>1. resolved' = resolved /\ Contained(prior, e.block)
        BY <3>1, <3>3 DEF ResolveCandidate, Suppressed, Prior
      <4>2. Contained(all, e.block)
        BY <4>1, ContainedUnion
      <4> QED
        BY <1>4, <2>0, <3>2, <4>1, <4>2
    <3>4. CASE ~Suppressed(e) /\ Contained(resolved.offenses, e.block)
      <4>1. resolved' = [resolved EXCEPT !.conditional = @ \cup {e.block}]
        BY <3>1, <3>4 DEF ResolveCandidate, Conditional
      <4>2. resolved' \in Resolved /\ resolved'.conditional # {}
        BY <1>4, <3>1, <4>1 DEF Resolved
      <4> QED
        BY <4>2
    <3>5. CASE ~Suppressed(e) /\ ~Contained(resolved.offenses, e.block)
      <4>1. resolved' = [resolved EXCEPT !.offenses = @ \cup {e.block}]
        BY <3>1, <3>5 DEF ResolveCandidate
      <4>2. ~Contained(prior, e.block)
        BY <3>5 DEF Suppressed, Prior
      <4>3. ~Contained(resolved.offenses \ source.disabled, e.block)
        BY <3>5 DEF Contained
      <4>4. ~Contained(all, e.block)
        BY <4>2, <4>3, ContainedUnion
      <4>5. /\ resolved' \in Resolved
            /\ resolved'.offenses = resolved.offenses \cup {e.block}
            /\ resolved'.sendIgnores = resolved.sendIgnores
            /\ resolved'.conditional = resolved.conditional
        BY <1>4, <3>1, <4>1 DEF Resolved
      <4>6. resolved.conditional = {} =>
               /\ trace[pos + 1].reported = resolved.offenses \cup {e.block}
               /\ trace[pos + 1].ignored = all \cup ({e.block} \ source.disabled)
        <5> HIDE DEF all
        <5> SUFFICES ASSUME resolved.conditional = {}
                     PROVE  /\ trace[pos + 1].reported = resolved.offenses \cup {e.block}
                            /\ trace[pos + 1].ignored = all \cup ({e.block} \ source.disabled)
          OBVIOUS
        <5>1. resolved.offenses = trace[pos].reported /\ all = trace[pos].ignored
          BY <2>0
        <5>2. trace[pos + 1] = [reported |-> trace[pos].reported \cup {e.block},
                                ignored  |-> trace[pos].ignored \cup ({e.block} \ source.disabled)]
          BY <3>2, <4>4, <5>1
        <5> QED
          BY <5>1, <5>2
      <4>7. ignored \cup resolved'.sendIgnores \cup (resolved'.offenses \ source.disabled)
               = all \cup ({e.block} \ source.disabled)
        <5> HIDE DEF all
        <5>1. all = prior \cup (resolved.offenses \ source.disabled)
          BY DEF all
        <5> QED
          BY <4>5, <5>1
      <4> QED
        BY <2>0, <4>5, <4>6, <4>7
    <3> QED
      BY <3>3, <3>4, <3>5
  <2> QED
    BY <2>1, <2>2
<1> HIDE DEF e
<1>6. TypeOK' /\ SourceKnown' /\ TraceFollows' /\ BeforeCommit' /\ WalkBegins'
  BY <1>1, <1>5 DEF IInv, TypeOK, SourceKnown, TraceFollows, StockAfter, BeforeCommit, WalkBegins
<1>7. ResolveFollows' /\ ReplayFollows' /\ SameOffenses' /\ SameIgnored'
  BY <1>1, <1>3, <1>5 DEF ResolveFollows, ReplayFollows, SameOffenses, SameIgnored
<1> QED
  BY <1>6, <1>7 DEF IInv

\* No candidate was suppressed by an offense alone: the result is committed.
LEMMA CommitIInv ==
    ASSUME Ascii, IInv, Commit PROVE IInv'
<1>1. /\ phase = "resolve" /\ phase' = "idle" /\ pos > Len(events) /\ resolved.conditional = {}
      /\ UNCHANGED <<patterns, source, pos, events, resolved, trace>>
      /\ source \in Sources /\ pos \in 1..Len(events) + 1
      /\ resolved \in Resolved /\ ignored \in SUBSET Ranges
  BY DEF Commit, IInv, TypeOK, SourceKnown, ResolveFollows
<1>2. pos = Len(trace)
  BY <1>1 DEF IInv, TypeOK, TraceFollows
<1>3. resolved.offenses \in SUBSET Ranges /\ resolved.sendIgnores \in SUBSET Ranges
  BY <1>1 DEF Resolved
<1>4. /\ ignored' = ignored \cup resolved.sendIgnores \cup (resolved.offenses \ source.disabled)
      /\ reported' = resolved.offenses
  BY <1>1, <1>3, SameOffsetsOfSets DEF Commit
<1>5. ignored' = Stock.ignored /\ reported' = Stock.reported
  BY <1>1, <1>2, <1>4 DEF IInv, ResolveFollows, Stock
<1>6. Stock' = Stock
  BY <1>1 DEF Stock
<1>7. TypeOK'
  BY <1>1, <1>3, <1>4 DEF IInv, TypeOK, Phases
<1>8. SourceKnown' /\ TraceFollows' /\ BeforeCommit' /\ WalkBegins'
  BY <1>1 DEF IInv, SourceKnown, TraceFollows, BeforeCommit, WalkBegins
<1>9. ResolveFollows' /\ ReplayFollows'
  BY <1>1 DEF ResolveFollows, ReplayFollows
<1>10. SameOffenses' /\ SameIgnored'
  BY <1>5, <1>6 DEF SameOffenses, SameIgnored
<1> QED
  BY <1>7, <1>8, <1>9, <1>10 DEF IInv

\* A conditional candidate, so the result is not committed: a replay begins.
LEMMA FallBackIInv ==
    ASSUME IInv, FallBack PROVE IInv'
<1>1. /\ phase = "resolve" /\ phase' = "replay" /\ pos' = 1
      /\ UNCHANGED <<patterns, ignored, source, events, resolved, reported, trace>>
      /\ reported = {} /\ ignored = trace[1].ignored
  BY DEF FallBack, IInv, ResolveFollows, BeforeCommit
<1>2. TypeOK' /\ SourceKnown' /\ TraceFollows' /\ BeforeCommit' /\ WalkBegins'
  BY <1>1 DEF IInv, TypeOK, SourceKnown, TraceFollows, StockAfter, BeforeCommit, WalkBegins, Phases
<1>3. Len(events) \in Nat /\ trace[1].reported = {}
  BY <1>1 DEF IInv, TypeOK, TraceFollows
<1>4. ResolveFollows' /\ ReplayFollows' /\ SameOffenses' /\ SameIgnored'
  BY <1>1, <1>3 DEF ResolveFollows, ReplayFollows, SameOffenses, SameIgnored
<1> QED
  BY <1>2, <1>4 DEF IInv

\* Replaying an event is what the stock cop does at it.
LEMMA ReplayIInv ==
    ASSUME Ascii, IInv, ReplayIgnore \/ ReplayCandidate PROVE IInv'
<1> DEFINE e == events[pos]
<1>1. /\ phase = "replay" /\ phase' = "replay" /\ pos' = pos + 1
      /\ UNCHANGED <<patterns, source, phase, events, resolved, trace>>
      /\ source \in Sources /\ pos \in 1..Len(events)
      /\ ignored = trace[pos].ignored /\ reported = trace[pos].reported
  BY DEF ReplayIgnore, ReplayCandidate, IInv, TypeOK, SourceKnown, ReplayFollows
<1>2. e \in Events /\ trace[pos + 1] = StockAfter(trace[pos], e)
  BY <1>1 DEF IInv, TypeOK, TraceFollows
<1>3. Len(trace) = Len(events) + 1 /\ Len(events) \in Nat /\ trace[pos] \in Stocks
  BY <1>1 DEF IInv, TypeOK, TraceFollows
<1>4. trace[pos + 1] \in Stocks
  BY <1>2, <1>3, StockTyped
<1>5. ignored' = trace[pos + 1].ignored /\ reported' = trace[pos + 1].reported
  <2>1. CASE ReplayIgnore
    BY <1>1, <1>2, <1>3, <2>1 DEF ReplayIgnore, StockAfter, Stocks
  <2>2. CASE ReplayCandidate
    <3>1. e.kind = "candidate" /\ e.block \in Ranges
      BY <1>2, <2>2 DEF ReplayCandidate, Events, Candidates, Ignores
    <3>2. /\ Chars(e.block) = e.block
          /\ Enabled({e.block}) = {e.block} \ source.disabled
      BY <1>1, <3>1, SameOffsets, SameOffsetsOfSets
    <3>3. (IF Enabled({e.block}) = {} THEN {} ELSE {IgnoredRange(e)})
             = {e.block} \ source.disabled
      BY <3>2 DEF IgnoredRange
    <3> DEFINE silent == Contained(ignored, e.block) \/ e.name \in patterns
    <3>4. CASE silent
      <4>1. trace[pos + 1] = trace[pos]
        BY <1>1, <1>2, <3>1, <3>4 DEF StockAfter
      <4> QED
        BY <1>1, <2>2, <3>4, <4>1 DEF ReplayCandidate
    <3>5. CASE ~silent
      <4>1. trace[pos + 1] = [reported |-> trace[pos].reported \cup {e.block},
                              ignored  |-> trace[pos].ignored \cup ({e.block} \ source.disabled)]
        BY <1>1, <1>2, <3>1, <3>5 DEF StockAfter
      <4>2. /\ reported' = reported \cup {e.block}
            /\ ignored' = ignored \cup ({e.block} \ source.disabled)
        BY <2>2, <3>2, <3>3, <3>5 DEF ReplayCandidate
      <4> QED
        BY <1>1, <4>1, <4>2
    <3> QED
      BY <3>4, <3>5
  <2> QED
    BY <2>1, <2>2
<1> HIDE DEF e
<1>6. TypeOK'
  BY <1>1, <1>4, <1>5 DEF IInv, TypeOK, Stocks
<1>7. SourceKnown' /\ TraceFollows' /\ BeforeCommit' /\ WalkBegins'
  BY <1>1 DEF IInv, SourceKnown, TraceFollows, StockAfter, BeforeCommit, WalkBegins
<1>8. ResolveFollows' /\ ReplayFollows' /\ SameOffenses' /\ SameIgnored'
  BY <1>1, <1>3, <1>5 DEF ResolveFollows, ReplayFollows, SameOffenses, SameIgnored
<1> QED
  BY <1>6, <1>7, <1>8 DEF IInv

\* The replay is over.
LEMMA ReplayedIInv ==
    ASSUME IInv, Replayed PROVE IInv'
<1>1. /\ phase = "replay" /\ phase' = "idle" /\ pos > Len(events)
      /\ UNCHANGED <<patterns, ignored, source, pos, events, resolved, reported, trace>>
      /\ pos \in 1..Len(events) + 1
      /\ ignored = trace[pos].ignored /\ reported = trace[pos].reported
  BY DEF Replayed, IInv, ReplayFollows
<1>2. pos = Len(trace)
  BY <1>1 DEF IInv, TypeOK, TraceFollows
<1>3. TypeOK' /\ SourceKnown' /\ TraceFollows' /\ BeforeCommit' /\ WalkBegins'
  BY <1>1 DEF IInv, TypeOK, SourceKnown, TraceFollows, BeforeCommit, WalkBegins, Phases
<1>4. ResolveFollows' /\ ReplayFollows' /\ SameOffenses' /\ SameIgnored'
  BY <1>1, <1>2 DEF ResolveFollows, ReplayFollows, SameOffenses, SameIgnored, Stock
<1> QED
  BY <1>3, <1>4 DEF IInv

\* Every step keeps the invariant.
LEMMA NextIInv ==
    ASSUME Ascii, IInv, [Next]_vars PROVE IInv'
<1>1. CASE \E s \in Sources : Investigate(s)
  BY <1>1, InvestigateIInv
<1>2. CASE NewInstance
  BY <1>2, NewInstanceIInv
<1>3. CASE OnBlock \/ OnSend \/ Walked
  BY <1>3, OnBlockIInv, OnSendIInv, WalkedIInv
<1>4. CASE Resolve \/ Commit \/ FallBack
  BY <1>4, ResolveIInv, CommitIInv, FallBackIInv
<1>5. CASE ReplayIgnore \/ ReplayCandidate \/ Replayed
  BY <1>5, ReplayIInv, ReplayedIInv
<1>6. CASE UNCHANGED vars
  BY <1>6 DEF vars, IInv, TypeOK, SourceKnown, TraceFollows, StockAfter, BeforeCommit,
     WalkBegins, ResolveFollows, ReplayFollows, SameOffenses, SameIgnored, Stock
<1> QED
  BY <1>1, <1>2, <1>3, <1>4, <1>5, <1>6 DEF Next

\* The inductive invariant: the code keeps step with the stock cop.
THEOREM InvariantHolds == ASSUME Ascii PROVE Spec => []IInv
<1>1. IInv /\ [Next]_vars => IInv'
  BY NextIInv
<1> QED
  BY <1>1, InitIInv, PTL DEF Spec

\* Resolving with every offense assumed enabled, and replaying when has_conditional
\* is set, reports what the stock cop reports, whatever the directives disable.
THEOREM OffensesSame == ASSUME Ascii PROVE Spec => []SameOffenses
<1>1. IInv => SameOffenses
  BY DEF IInv
<1> QED
  BY <1>1, InvariantHolds, PTL

\* The ranges handed to the next round are the nodes the stock cop ignores.
THEOREM IgnoredSame == ASSUME Ascii PROVE Spec => []SameIgnored
<1>1. IInv => SameIgnored
  BY DEF IInv
<1> QED
  BY <1>1, InvariantHolds, PTL

-----------------------------------------------------------------------------
(* The corrections of a round.  Nothing here needs ASCII texts: within a     *)
(* round all offsets differ by the same lead.                                *)

\* The calls whose block the walk has passed.
Passed ==
    CASE phase = "on_block" -> 1..pos - 1
      [] phase = "on_send" -> 1..pos
      [] OTHER -> DOMAIN source.calls

IsCandidate(i) == i \in 1..Len(events) /\ events[i].kind = "candidate"

\* A candidate is the block of a call that was passed ...
CandidatesPassed ==
    phase # "idle" =>
        \A i \in 1..Len(events) : IsCandidate(i) =>
            \E k \in Passed \cap DOMAIN source.calls :
                /\ source.calls[k].block = "improper"
                /\ events[i].block = Bytes(source.calls[k].range)

\* ... and a later one is inside an earlier one, or apart from it.
CandidatesNest ==
    phase # "idle" =>
        \A i, j \in 1..Len(events) : i < j /\ IsCandidate(i) /\ IsCandidate(j) =>
            \/ Apart(events[i].block, events[j].block)
            \/ Inside(events[j].block, events[i].block)

NothingReported == phase \in {"on_block", "on_send", "resolve"} => reported = {}

NothingBefore == phase \in {"on_block", "on_send"} => resolved = NothingResolved

\* What resolve takes for an offense it met as a candidate, inside no other.
OffensesApart ==
    phase = "resolve" =>
        /\ pos \in 1..Len(events) + 1
        /\ \A a \in resolved.offenses : \E i \in 1..pos - 1 : IsCandidate(i) /\ events[i].block = a
        /\ \A a, b \in resolved.offenses : a # b => Apart(a, b)

\* What a replay reported it met as a candidate, and ignores if it is enabled.
ReportedIgnored ==
    phase = "replay" =>
        /\ pos \in 1..Len(events) + 1
        /\ \A a \in reported : \E i \in 1..pos - 1 :
              /\ IsCandidate(i) /\ a = Chars(events[i].block)
              /\ a \notin source.disabled => events[i].block \in ignored

\* The inductive invariant.
ApartInv ==
    /\ TypeOK /\ SourceKnown
    /\ CandidatesPassed /\ CandidatesNest
    /\ NothingReported /\ NothingBefore
    /\ OffensesApart /\ ReportedIgnored
    /\ CorrectionsApart

\* A text is a text, and what its calls are.
LEMMA SourceIs ==
    ASSUME source \in Sources
    PROVE  /\ source \in Texts /\ source.lead \in Nat /\ Len(source.calls) \in Nat
           /\ \A i \in DOMAIN source.calls : source.calls[i] \in Calls
           /\ DOMAIN source.calls = 1..Len(source.calls)
<1>1. source \in Texts
  BY SourcesAssumption
<1>2. source.calls \in Seq(Calls) /\ source.lead \in Nat
  BY <1>1 DEF Texts
<1> QED
  BY <1>1, <1>2

\* Two ranges of a text stand to each other in bytes as they do in characters.
LEMMA Shifted ==
    ASSUME source \in Sources, NEW r \in Ranges, NEW q \in Ranges
    PROVE  /\ Bytes(r) \in Ranges /\ Chars(Bytes(r)) = r
           /\ Apart(Bytes(r), Bytes(q)) <=> Apart(r, q)
           /\ Inside(Bytes(r), Bytes(q)) <=> Inside(r, q)
<1>1. source.lead \in Nat
  BY SourceIs
<1>2. PICK lead : lead = source.lead /\ lead \in Nat
  BY <1>1
<1>3. /\ r = <<r[1], r[2]>> /\ r[1] \in Nat /\ r[2] \in Nat
      /\ q = <<q[1], q[2]>> /\ q[1] \in Nat /\ q[2] \in Nat
  BY DEF Ranges
<1>4. /\ Bytes(r) = <<r[1] + lead, r[2] + lead>>
      /\ Bytes(q) = <<q[1] + lead, q[2] + lead>>
  BY <1>2 DEF Bytes
<1>5. Chars(Bytes(r)) = <<(r[1] + lead) - lead, (r[2] + lead) - lead>>
  BY <1>2, <1>4 DEF Chars
<1>6. (r[1] + lead) - lead = r[1] /\ (r[2] + lead) - lead = r[2]
  BY <1>2, <1>3
<1>7. Bytes(r) \in Ranges
  BY <1>2, <1>3, <1>4 DEF Ranges
<1>8. Chars(Bytes(r)) = r
  BY <1>3, <1>5, <1>6
<1>9. Apart(Bytes(r), Bytes(q)) <=> Apart(r, q)
  BY <1>2, <1>3, <1>4 DEF Apart
<1>10. Inside(Bytes(r), Bytes(q)) <=> Inside(r, q)
  BY <1>2, <1>3, <1>4 DEF Inside
<1> QED
  BY <1>7, <1>8, <1>9, <1>10

\* The range of a candidate is one of a block of the text.
LEMMA CandidateIs ==
    ASSUME source \in Sources, CandidatesPassed, phase # "idle", NEW i, IsCandidate(i)
    PROVE  \E r \in Ranges : events[i].block = Bytes(r)
<1>1. PICK k \in DOMAIN source.calls : events[i].block = Bytes(source.calls[k].range)
  BY DEF CandidatesPassed, IsCandidate
<1>2. source.calls[k].range \in Ranges
  BY SourceIs DEF Calls
<1> QED
  BY <1>1, <1>2

\* With characters as with bytes: of two candidates apart neither is in the other.
LEMMA CandidatesApart ==
    ASSUME source \in Sources, CandidatesPassed, phase # "idle",
           NEW i, IsCandidate(i), NEW j, IsCandidate(j),
           Apart(events[i].block, events[j].block)
    PROVE  Apart(Chars(events[i].block), Chars(events[j].block))
<1>1. PICK r \in Ranges : events[i].block = Bytes(r)
  BY CandidateIs
<1>2. PICK q \in Ranges : events[j].block = Bytes(q)
  BY CandidateIs
<1> QED
  BY <1>1, <1>2, Shifted

-----------------------------------------------------------------------------

\* The first round has reported nothing.
LEMMA ApartInit == Init => ApartInv
<1> SUFFICES ASSUME Init PROVE ApartInv
  OBVIOUS
<1>1. TypeOK /\ SourceKnown
  BY InitIInv DEF IInv
<1> QED
  BY <1>1 DEF Init, ApartInv, CandidatesPassed, CandidatesNest, NothingReported, NothingBefore,
     OffensesApart, ReportedIgnored, CorrectionsApart

\* Between rounds: a text to investigate, or a new instance.
LEMMA ApartBetween ==
    ASSUME ApartInv, (\E s \in Sources : Investigate(s)) \/ NewInstance
    PROVE  ApartInv'
<1>1. CASE \E s \in Sources : Investigate(s)
  <2>1. PICK s \in Sources : Investigate(s)
    BY <1>1
  <2>2. /\ phase' = "on_block" /\ pos' = 1 /\ events' = <<>> /\ reported' = {}
        /\ resolved' = NothingResolved /\ source' = s
    BY <2>1 DEF Investigate
  <2>3. Stock \in Stocks
    BY DEF ApartInv, TypeOK, Stock
  <2>4. trace' \in Seq(Stocks) /\ trace' # <<>>
    BY <2>1, <2>3 DEF Investigate, FreshStock, Stocks
  <2>5. TypeOK'
    BY <2>1, <2>2, <2>4, SourcesAssumption
       DEF ApartInv, TypeOK, Investigate, Phases, Resolved, NothingResolved
  <2>6. SourceKnown'
    BY <2>2 DEF SourceKnown
  <2>7. Len(events') = 0
    BY <2>2
  <2>8. CandidatesPassed' /\ CandidatesNest'
    BY <2>7 DEF CandidatesPassed, CandidatesNest
  <2> QED
    BY <2>2, <2>5, <2>6, <2>8 DEF ApartInv, NothingReported, NothingBefore, OffensesApart,
       ReportedIgnored, CorrectionsApart
<1>2. CASE NewInstance
  <2>1. trace' \in Seq(Stocks) /\ trace' # <<>>
    BY <1>2 DEF NewInstance, FreshStock, Stocks
  <2>2. TypeOK' /\ SourceKnown'
    BY <1>2, <2>1 DEF NewInstance, ApartInv, TypeOK, SourceKnown
  <2> QED
    BY <1>2, <2>2 DEF NewInstance, ApartInv, CandidatesPassed, CandidatesNest, NothingReported,
       NothingBefore, OffensesApart, ReportedIgnored, CorrectionsApart
<1> QED
  BY <1>1, <1>2

\* A block is met: it is inside those before it, or apart from them.
LEMMA ApartOnBlock ==
    ASSUME ApartInv, OnBlock PROVE ApartInv'
<1>1. /\ source \in Sources /\ pos \in 1..Len(source.calls) /\ pos \in DOMAIN source.calls
      /\ phase = "on_block" /\ phase' = "on_send" /\ reported = {}
      /\ UNCHANGED <<patterns, ignored, source, pos, resolved, reported>>
      /\ events \in Seq(Events) /\ trace \in Seq(Stocks) /\ trace # <<>>
  BY SourceIs DEF ApartInv, TypeOK, SourceKnown, OnBlock, NothingReported
<1>2. Call \in Calls /\ Call = source.calls[pos] /\ Call.range \in Ranges /\ Call.name \in Names
  BY <1>1, SourceIs DEF Call, Calls
<1>3. Stock \in Stocks
  BY <1>1 DEF Stock
<1> DEFINE e == [kind |-> "candidate", block |-> Bytes(Call.range), name |-> Call.name]
<1>4. e \in Events
  BY <1>1, <1>2, Shifted DEF Events, Candidates
<1>5. CASE Call.block = "improper"
  <2>1. events' = Append(events, e) /\ trace' = Append(trace, StockBlock(Call.range, Call.name))
    BY <1>5 DEF OnBlock
  <2>2. StockBlock(Call.range, Call.name) \in Stocks
    BY <1>2, <1>3 DEF StockBlock, Stocks
  <2>3. /\ events' \in Seq(Events) /\ Len(events') = Len(events) + 1 /\ Len(events) \in Nat
        /\ \A i \in 1..Len(events) : events'[i] = events[i]
        /\ events'[Len(events) + 1] = e
        /\ trace' \in Seq(Stocks) /\ trace' # <<>>
    BY <1>1, <1>4, <2>1, <2>2
  <2>4. TypeOK' /\ SourceKnown'
    BY <1>1, <2>3 DEF ApartInv, TypeOK, SourceKnown, Phases
  <2>5. \A r : Bytes(r)' = Bytes(r)
    BY <1>1 DEF Bytes
  <2>6. \A i \in 1..Len(events) : IsCandidate(i)' => IsCandidate(i)
    BY <2>3 DEF IsCandidate
  <2>7. ASSUME NEW i \in 1..Len(events), IsCandidate(i)
        PROVE  \E k \in 1..pos - 1 : /\ k \in DOMAIN source.calls
                                     /\ source.calls[k].block = "improper"
                                     /\ events[i].block = Bytes(source.calls[k].range)
    BY <1>1, <2>7 DEF ApartInv, CandidatesPassed, Passed
  <2>8. CandidatesPassed'
    <3>1. Passed' = 1..pos
      BY <1>1 DEF Passed
    <3>2. ASSUME NEW i \in 1..Len(events'), IsCandidate(i)'
          PROVE  \E k \in 1..pos : /\ k \in DOMAIN source.calls
                                   /\ source.calls[k].block = "improper"
                                   /\ events'[i].block = Bytes(source.calls[k].range)
      <4>1. CASE i \in 1..Len(events)
        <5>1. PICK k \in 1..pos - 1 : /\ k \in DOMAIN source.calls
                                      /\ source.calls[k].block = "improper"
                                      /\ events[i].block = Bytes(source.calls[k].range)
          BY <2>6, <2>7, <3>2, <4>1
        <5>2. k \in 1..pos
          BY <1>1
        <5> QED
          BY <2>3, <4>1, <5>1, <5>2
      <4>2. CASE i = Len(events) + 1
        <5>1. events'[i].block = Bytes(source.calls[pos].range) /\ pos \in 1..pos
          BY <1>1, <1>2, <2>3, <4>2
        <5> QED
          BY <1>1, <1>2, <1>5, <5>1
      <4> QED
        BY <2>3, <4>1, <4>2
    <3> QED
      BY <1>1, <2>5, <3>1, <3>2 DEF CandidatesPassed
  <2>9. CandidatesNest'
    <3>1. ASSUME NEW i \in 1..Len(events'), NEW j \in 1..Len(events'), i < j,
                 IsCandidate(i)', IsCandidate(j)'
          PROVE  \/ Apart(events'[i].block, events'[j].block)
                 \/ Inside(events'[j].block, events'[i].block)
      <4>1. i \in 1..Len(events) /\ events'[i] = events[i] /\ IsCandidate(i)
        BY <2>3, <2>6, <3>1
      <4>2. CASE j \in 1..Len(events)
        BY <2>3, <2>6, <3>1, <4>1, <4>2 DEF ApartInv, CandidatesNest, OnBlock
      <4>3. CASE j = Len(events) + 1
        <5>1. PICK k \in 1..pos - 1 : /\ k \in DOMAIN source.calls
                                      /\ source.calls[k].block = "improper"
                                      /\ events[i].block = Bytes(source.calls[k].range)
          BY <2>7, <4>1
        <5>2. k < pos
          BY <1>1
        <5>3. \/ Apart(source.calls[k].range, Call.range)
              \/ Inside(Call.range, source.calls[k].range)
          BY <1>1, <1>2, <1>5, <5>1, <5>2, NestingAssumption
        <5>4. source.calls[k].range \in Ranges
          BY <1>1, <5>1, SourceIs DEF Calls
        <5>5. events'[j].block = Bytes(Call.range)
          BY <2>3, <4>3
        <5> QED
          BY <1>1, <1>2, <4>1, <5>1, <5>3, <5>4, <5>5, Shifted
      <4> QED
        BY <2>3, <4>2, <4>3
    <3> QED
      BY <3>1 DEF CandidatesNest
  <2> QED
    BY <1>1, <2>4, <2>8, <2>9 DEF ApartInv, NothingReported, NothingBefore, OffensesApart,
       ReportedIgnored, CorrectionsApart
<1>6. CASE Call.block # "improper"
  <2>1. events' = events /\ trace' = trace
    BY <1>6 DEF OnBlock
  <2>2. TypeOK' /\ SourceKnown'
    BY <1>1, <2>1 DEF ApartInv, TypeOK, SourceKnown, Phases
  <2>3. Passed \subseteq Passed'
    BY <1>1 DEF Passed
  <2>4. CandidatesPassed'
    BY <1>1, <2>1, <2>3 DEF ApartInv, CandidatesPassed, IsCandidate, Bytes
  <2>5. CandidatesNest'
    BY <1>1, <2>1 DEF ApartInv, CandidatesNest, IsCandidate
  <2> QED
    BY <1>1, <2>2, <2>4, <2>5 DEF ApartInv, NothingReported, NothingBefore, OffensesApart,
       ReportedIgnored, CorrectionsApart
<1> QED
  BY <1>5, <1>6

\* A call with its ignored blocks adds no candidate.
LEMMA ApartOnSend ==
    ASSUME ApartInv, OnSend PROVE ApartInv'
<1> DEFINE blocks == GetBlocks(source.calls, Call.binds)
<1>1. /\ source \in Sources /\ pos \in Nat /\ pos >= 1
      /\ phase = "on_send" /\ phase' = "on_block" /\ pos' = pos + 1 /\ reported = {}
      /\ UNCHANGED <<patterns, ignored, source, resolved, reported>>
      /\ events \in Seq(Events) /\ trace \in Seq(Stocks) /\ trace # <<>>
  BY DEF ApartInv, TypeOK, SourceKnown, OnSend, NothingReported
<1>2. blocks \in SUBSET Ranges
  <2>1. \A i \in DOMAIN source.calls : source.calls[i].range \in Ranges
    BY <1>1, SourceIs DEF Calls
  <2> QED
    BY <2>1 DEF GetBlocks
<1> DEFINE e == [kind |-> "ignore", blocks |-> {Bytes(r) : r \in blocks}]
<1>3. \/ events' = Append(events, e) /\ trace' = Append(trace, StockSend(blocks))
      \/ events' = events /\ trace' = trace
  BY DEF OnSend
<1> HIDE DEF blocks
<1>4. e \in Events
  BY <1>1, <1>2, Shifted DEF Events, Ignores
<1>5. StockSend(blocks) \in Stocks
  <2>1. Stock \in Stocks
    BY <1>1 DEF Stock
  <2> QED
    BY <1>2, <2>1 DEF StockSend, Stocks
<1>6. e.kind # "candidate"
  OBVIOUS
<1> HIDE DEF e
<1>7. /\ events' \in Seq(Events) /\ trace' \in Seq(Stocks) /\ trace' # <<>>
      /\ Len(events) \in Nat /\ Len(events') \in Nat
      /\ \A i \in 1..Len(events') : IsCandidate(i)' => IsCandidate(i) /\ events'[i] = events[i]
  <2>1. CASE events' = events /\ trace' = trace
    BY <1>1, <2>1 DEF IsCandidate
  <2>2. CASE events' = Append(events, e) /\ trace' = Append(trace, StockSend(blocks))
    <3>1. /\ events' \in Seq(Events) /\ Len(events') = Len(events) + 1 /\ Len(events) \in Nat
          /\ \A i \in 1..Len(events) : events'[i] = events[i]
          /\ events'[Len(events) + 1] = e
          /\ trace' \in Seq(Stocks) /\ trace' # <<>>
      BY <1>1, <1>4, <1>5, <2>2
    <3> QED
      BY <1>6, <3>1 DEF IsCandidate
  <2> QED
    BY <1>3, <2>1, <2>2
<1>8. TypeOK' /\ SourceKnown'
  BY <1>1, <1>7 DEF ApartInv, TypeOK, SourceKnown, Phases
<1>9. Passed' = Passed
  BY <1>1 DEF Passed
<1>10. \A i \in 1..Len(events') : IsCandidate(i)' => i \in 1..Len(events)
  BY <1>7 DEF IsCandidate
<1>11. CandidatesPassed'
  <2>1. \A r : Bytes(r)' = Bytes(r)
    BY <1>1 DEF Bytes
  <2> QED
    BY <1>1, <1>7, <1>9, <1>10, <2>1 DEF ApartInv, CandidatesPassed
<1>12. CandidatesNest'
  BY <1>1, <1>7, <1>10 DEF ApartInv, CandidatesNest
<1> QED
  BY <1>1, <1>8, <1>11, <1>12 DEF ApartInv, NothingReported, NothingBefore, OffensesApart,
     ReportedIgnored, CorrectionsApart

\* After the walk the candidates stay as they are.
LEMMA CandidatesStay ==
    ASSUME ApartInv, phase # "idle", phase' \in {"resolve", "replay", "idle"},
           UNCHANGED <<source, events>>
    PROVE  /\ CandidatesPassed' /\ CandidatesNest'
           /\ \A i : IsCandidate(i)' <=> IsCandidate(i)
           /\ \A r : Chars(r)' = Chars(r)
<1>1. Passed' = DOMAIN source.calls
  BY DEF Passed
<1>2. \A r : Bytes(r)' = Bytes(r) /\ Chars(r)' = Chars(r)
  BY DEF Bytes, Chars
<1>3. \A i : IsCandidate(i)' <=> IsCandidate(i)
  BY DEF IsCandidate
<1>4. CandidatesPassed'
  BY <1>1, <1>2, <1>3 DEF ApartInv, CandidatesPassed
<1>5. CandidatesNest'
  BY <1>3 DEF ApartInv, CandidatesNest
<1> QED
  BY <1>2, <1>3, <1>4, <1>5

\* The walk is over.
LEMMA ApartWalked ==
    ASSUME ApartInv, Walked PROVE ApartInv'
<1>1. /\ phase = "on_block" /\ phase' \in {"resolve", "replay"} /\ pos' = 1
      /\ UNCHANGED <<patterns, ignored, source, events, resolved, reported, trace>>
      /\ reported = {} /\ resolved = NothingResolved /\ Len(events) \in Nat
  BY DEF Walked, ApartInv, NothingReported, NothingBefore, TypeOK
<1>2. TypeOK' /\ SourceKnown'
  BY <1>1 DEF ApartInv, TypeOK, SourceKnown, Phases
<1>3. CandidatesPassed' /\ CandidatesNest'
  BY <1>1, CandidatesStay
<1> QED
  BY <1>1, <1>2, <1>3 DEF ApartInv, NothingReported, NothingBefore, OffensesApart,
     ReportedIgnored, CorrectionsApart, NothingResolved

\* An offense that resolve takes is inside none it has.
LEMMA ApartResolve ==
    ASSUME ApartInv, Resolve PROVE ApartInv'
<1> DEFINE e == events[pos]
<1>1. /\ phase = "resolve" /\ phase' = "resolve" /\ pos' = pos + 1
      /\ UNCHANGED <<patterns, ignored, source, phase, events, reported, trace>>
      /\ source \in Sources /\ pos \in 1..Len(events) /\ reported = {} /\ Len(events) \in Nat
      /\ resolved \in Resolved /\ e \in Events
  BY DEF Resolve, ApartInv, TypeOK, SourceKnown, OffensesApart, NothingReported
<1>2. \/ resolved'.offenses = resolved.offenses /\ resolved' \in Resolved
      \/ /\ IsCandidate(pos) /\ ~Contained(resolved.offenses, e.block)
         /\ resolved'.offenses = resolved.offenses \cup {e.block} /\ resolved' \in Resolved
  <2>1. CASE e.kind = "ignore"
    <3>1. resolved' = [resolved EXCEPT !.sendIgnores = @ \cup e.blocks]
      BY <2>1 DEF Resolve
    <3>2. e.blocks \in SUBSET Ranges
      BY <1>1, <2>1 DEF Events, Candidates, Ignores
    <3> QED
      BY <1>1, <3>1, <3>2 DEF Resolved
  <2>2. CASE e.kind # "ignore"
    <3>1. e.block \in Ranges /\ resolved' = ResolveCandidate(e) /\ IsCandidate(pos)
      BY <1>1, <2>2 DEF Resolve, Events, Candidates, Ignores, IsCandidate
    <3>2. CASE Suppressed(e)
      BY <1>1, <3>1, <3>2 DEF ResolveCandidate
    <3>3. CASE ~Suppressed(e) /\ Contained(resolved.offenses, e.block)
      <4>1. resolved' = [resolved EXCEPT !.conditional = @ \cup {e.block}]
        BY <3>1, <3>3 DEF ResolveCandidate, Conditional
      <4> QED
        BY <1>1, <3>1, <4>1 DEF Resolved
    <3>4. CASE ~Suppressed(e) /\ ~Contained(resolved.offenses, e.block)
      <4>1. resolved' = [resolved EXCEPT !.offenses = @ \cup {e.block}]
        BY <3>1, <3>4 DEF ResolveCandidate
      <4> QED
        BY <1>1, <3>1, <3>4, <4>1 DEF Resolved
    <3> QED
      BY <3>2, <3>3, <3>4
  <2> QED
    BY <2>1, <2>2
<1> HIDE DEF e
<1>3. TypeOK' /\ SourceKnown'
  BY <1>1, <1>2 DEF ApartInv, TypeOK, SourceKnown
<1>4. /\ CandidatesPassed' /\ CandidatesNest'
      /\ \A i : IsCandidate(i)' <=> IsCandidate(i)
  BY <1>1, CandidatesStay
<1>5. OffensesApart'
  <2>1. pos' \in 1..Len(events') + 1
    BY <1>1
  <2>2. \A a \in resolved.offenses :
            \E i \in 1..pos - 1 : IsCandidate(i) /\ events[i].block = a
    BY <1>1 DEF ApartInv, OffensesApart
  <2>3. \A a, b \in resolved.offenses : a # b => Apart(a, b)
    BY <1>1 DEF ApartInv, OffensesApart
  <2>4. \A i \in 1..pos - 1 : i \in 1..pos
    BY <1>1
  <2>5. CASE resolved'.offenses = resolved.offenses
    BY <1>1, <1>4, <2>1, <2>2, <2>3, <2>4, <2>5 DEF OffensesApart
  <2>6. CASE /\ IsCandidate(pos) /\ ~Contained(resolved.offenses, e.block)
             /\ resolved'.offenses = resolved.offenses \cup {e.block}
    <3>1. ASSUME NEW a \in resolved.offenses PROVE Apart(a, e.block)
      <4>1. PICK i \in 1..pos - 1 : IsCandidate(i) /\ events[i].block = a
        BY <2>2
      <4>2. i < pos /\ i \in 1..Len(events)
        BY <1>1
      <4>3. Apart(a, e.block) \/ Inside(e.block, a)
        BY <1>1, <2>6, <4>1, <4>2 DEF ApartInv, CandidatesNest, e
      <4>4. ~Inside(e.block, a)
        BY <2>6 DEF Contained
      <4> QED
        BY <4>3, <4>4
    <3>2. \A a, b : Apart(a, b) <=> Apart(b, a)
      BY DEF Apart
    <3>3. \A a, b \in resolved'.offenses : a # b => Apart(a, b)
      BY <2>3, <2>6, <3>1, <3>2
    <3>4. pos \in 1..pos /\ events[pos].block = e.block
      BY <1>1 DEF e
    <3>5. \A a \in resolved'.offenses :
              \E i \in 1..pos : IsCandidate(i) /\ events[i].block = a
      BY <2>2, <2>4, <2>6, <3>4
    <3>6. pos' - 1 = pos
      BY <1>1
    <3> QED
      BY <1>1, <1>4, <2>1, <3>3, <3>5, <3>6 DEF OffensesApart
  <2> QED
    BY <1>2, <2>5, <2>6
<1> QED
  BY <1>1, <1>3, <1>4, <1>5 DEF ApartInv, NothingReported, NothingBefore, ReportedIgnored,
     CorrectionsApart

\* What is committed are the offenses of resolve, in characters.
LEMMA ApartCommit ==
    ASSUME ApartInv, Commit PROVE ApartInv'
<1>1. /\ phase = "resolve" /\ phase' = "idle"
      /\ UNCHANGED <<patterns, source, pos, events, resolved, trace>>
      /\ source \in Sources /\ resolved \in Resolved /\ ignored \in SUBSET Ranges
      /\ ignored' = ignored \cup resolved.sendIgnores \cup Enabled(resolved.offenses)
      /\ reported' = {Chars(r) : r \in resolved.offenses}
  BY DEF Commit, ApartInv, TypeOK, SourceKnown
<1>2. ASSUME NEW a \in resolved.offenses PROVE \E i : IsCandidate(i) /\ events[i].block = a
  BY <1>1 DEF ApartInv, OffensesApart
<1>3. ASSUME NEW a \in resolved.offenses
      PROVE  Chars(a) \in Ranges
  <2>1. PICK i : IsCandidate(i) /\ events[i].block = a
    BY <1>2
  <2>2. PICK r \in Ranges : events[i].block = Bytes(r)
    BY <1>1, <2>1, CandidateIs DEF ApartInv
  <2>3. Chars(Bytes(r)) = r
    BY <1>1, Shifted
  <2> QED
    BY <2>1, <2>2, <2>3
<1>4. ignored' \in SUBSET Ranges /\ reported' \in SUBSET Ranges
  BY <1>1, <1>3 DEF Resolved, Enabled
<1>5. TypeOK' /\ SourceKnown'
  BY <1>1, <1>4 DEF ApartInv, TypeOK, SourceKnown, Phases
<1>6. ASSUME NEW a \in reported', NEW b \in reported', a # b
      PROVE  Apart(a, b)
  <2>1. PICK x \in resolved.offenses : a = Chars(x)
    BY <1>1
  <2>2. PICK y \in resolved.offenses : b = Chars(y)
    BY <1>1
  <2>3. Apart(x, y)
    BY <1>1, <1>6, <2>1, <2>2 DEF ApartInv, OffensesApart
  <2>4. PICK i : IsCandidate(i) /\ events[i].block = x
    BY <1>2
  <2>5. PICK j : IsCandidate(j) /\ events[j].block = y
    BY <1>2
  <2> QED
    BY <1>1, <2>1, <2>2, <2>3, <2>4, <2>5, CandidatesApart DEF ApartInv
<1>7. CandidatesPassed' /\ CandidatesNest'
  BY <1>1, CandidatesStay
<1> QED
  BY <1>1, <1>5, <1>6, <1>7 DEF ApartInv, NothingReported, NothingBefore, OffensesApart,
     ReportedIgnored, CorrectionsApart

\* The directives decide: a replay begins with nothing reported.
LEMMA ApartFallBack ==
    ASSUME ApartInv, FallBack PROVE ApartInv'
<1>1. /\ phase = "resolve" /\ phase' = "replay" /\ pos' = 1 /\ reported = {}
      /\ UNCHANGED <<patterns, ignored, source, events, resolved, reported, trace>>
      /\ Len(events) \in Nat
  BY DEF FallBack, ApartInv, NothingReported, TypeOK
<1>2. TypeOK' /\ SourceKnown'
  BY <1>1 DEF ApartInv, TypeOK, SourceKnown, Phases
<1>3. CandidatesPassed' /\ CandidatesNest'
  BY <1>1, CandidatesStay
<1> QED
  BY <1>1, <1>2, <1>3 DEF ApartInv, NothingReported, NothingBefore, OffensesApart,
     ReportedIgnored, CorrectionsApart

\* A replay reports a block that is inside no enabled one it has reported.
LEMMA ApartReplay ==
    ASSUME ApartInv, ReplayIgnore \/ ReplayCandidate PROVE ApartInv'
<1> DEFINE e == events[pos]
<1>1. /\ phase = "replay" /\ phase' = "replay" /\ pos' = pos + 1
      /\ UNCHANGED <<patterns, source, phase, events, resolved, trace>>
      /\ source \in Sources /\ source # None /\ pos \in 1..Len(events) /\ Len(events) \in Nat
      /\ e \in Events /\ ignored \in SUBSET Ranges /\ reported \in SUBSET Ranges
  BY SourcesAssumption
     DEF ReplayIgnore, ReplayCandidate, ApartInv, TypeOK, SourceKnown, ReportedIgnored
<1>2. /\ CandidatesPassed' /\ CandidatesNest'
      /\ \A i : IsCandidate(i)' <=> IsCandidate(i)
      /\ \A r : Chars(r)' = Chars(r)
  BY <1>1, CandidatesStay
<1>3. \A a \in reported : \E i \in 1..pos - 1 :
          /\ IsCandidate(i) /\ a = Chars(events[i].block)
          /\ a \notin source.disabled => events[i].block \in ignored
  BY <1>1 DEF ApartInv, ReportedIgnored
<1>4. \A a, b \in reported \ source.disabled : a # b => Apart(a, b)
  BY <1>1 DEF ApartInv, CorrectionsApart
<1>5. \A i \in 1..pos - 1 : i \in 1..pos
  BY <1>1
<1>6. CASE reported' = reported /\ ignored \subseteq ignored' /\ ignored' \in SUBSET Ranges
  <2>1. TypeOK' /\ SourceKnown'
    BY <1>1, <1>6 DEF ApartInv, TypeOK, SourceKnown
  <2>2. ReportedIgnored'
    <3>1. pos' - 1 = pos /\ pos' \in 1..Len(events') + 1
      BY <1>1
    <3>2. \A a \in reported' : \E i \in 1..pos :
              /\ IsCandidate(i) /\ a = Chars(events[i].block)
              /\ a \notin source.disabled => events[i].block \in ignored'
      BY <1>3, <1>5, <1>6
    <3> QED
      BY <1>1, <1>2, <3>1, <3>2 DEF ReportedIgnored
  <2>3. CorrectionsApart'
    BY <1>1, <1>4, <1>6 DEF CorrectionsApart
  <2> QED
    BY <1>1, <1>2, <2>1, <2>2, <2>3 DEF ApartInv, NothingReported, NothingBefore, OffensesApart
<1>7. CASE ReplayIgnore
  <2>1. e.blocks \in SUBSET Ranges
    BY <1>1, <1>7 DEF ReplayIgnore, Events, Candidates, Ignores
  <2> QED
    BY <1>1, <1>6, <1>7, <2>1 DEF ReplayIgnore
<1>8. CASE ReplayCandidate
  <2>1. e.kind = "candidate" /\ e.block \in Ranges /\ IsCandidate(pos)
    BY <1>1, <1>8 DEF ReplayCandidate, Events, Candidates, Ignores, IsCandidate
  <2>2. CASE Contained(ignored, e.block) \/ e.name \in patterns
    BY <1>1, <1>6, <1>8, <2>2 DEF ReplayCandidate
  <2>3. CASE ~(Contained(ignored, e.block) \/ e.name \in patterns)
    <3> DEFINE c == Chars(e.block)
    <3>1. /\ reported' = reported \cup {c}
          /\ ignored' = ignored \cup (IF Enabled({e.block}) = {} THEN {} ELSE {e.block})
      BY <1>8, <2>3 DEF ReplayCandidate, IgnoredRange
    <3>2. PICK r \in Ranges : e.block = Bytes(r)
      BY <1>1, <2>1, CandidateIs DEF ApartInv
    <3>3. c \in Ranges
      BY <1>1, <3>2, Shifted
    <3>4. c \notin source.disabled => e.block \in ignored'
      BY <3>1 DEF Enabled
    <3>5. ignored \subseteq ignored' /\ ignored' \in SUBSET Ranges
      BY <1>1, <2>1, <3>1
    <3>6. ASSUME NEW a \in reported \ source.disabled
          PROVE  Apart(a, c)
      <4>1. PICK i \in 1..pos - 1 : IsCandidate(i) /\ a = Chars(events[i].block)
                                    /\ events[i].block \in ignored
        BY <1>3
      <4>2. ~Inside(e.block, events[i].block)
        BY <2>3, <4>1 DEF Contained
      <4>3. i < pos /\ i \in 1..Len(events)
        BY <1>1
      <4>4. Apart(events[i].block, e.block)
        BY <1>1, <2>1, <4>1, <4>2, <4>3 DEF ApartInv, CandidatesNest
      <4> QED
        BY <1>1, <2>1, <4>1, <4>4, CandidatesApart DEF ApartInv
    <3> HIDE DEF c, e
    <3>7. \A a, b : Apart(a, b) <=> Apart(b, a)
      BY DEF Apart
    <3>8. CorrectionsApart'
      BY <1>1, <1>4, <3>1, <3>6, <3>7 DEF CorrectionsApart
    <3>9. ReportedIgnored'
      <4>1. pos \in 1..pos /\ c = Chars(events[pos].block) /\ e.block = events[pos].block
        BY <1>1 DEF c, e
      <4>2. \A a \in reported' : \E i \in 1..pos :
                /\ IsCandidate(i) /\ a = Chars(events[i].block)
                /\ a \notin source.disabled => events[i].block \in ignored'
        <5>1. ASSUME NEW a \in reported
              PROVE  \E i \in 1..pos :
                        /\ IsCandidate(i) /\ a = Chars(events[i].block)
                        /\ a \notin source.disabled => events[i].block \in ignored'
          BY <1>3, <1>5, <3>5
        <5>2. \E i \in 1..pos :
                  /\ IsCandidate(i) /\ c = Chars(events[i].block)
                  /\ c \notin source.disabled => events[i].block \in ignored'
          BY <2>1, <3>4, <4>1
        <5> QED
          BY <3>1, <5>1, <5>2
      <4>3. pos' - 1 = pos /\ pos' \in 1..Len(events') + 1
        BY <1>1
      <4> QED
        BY <1>1, <1>2, <4>2, <4>3 DEF ReportedIgnored
    <3>10. TypeOK' /\ SourceKnown'
      <4>1. reported' \in SUBSET Ranges
        BY <1>1, <3>1, <3>3
      <4> QED
        BY <1>1, <3>5, <4>1 DEF ApartInv, TypeOK, SourceKnown
    <3> QED
      BY <1>1, <1>2, <3>8, <3>9, <3>10 DEF ApartInv, NothingReported, NothingBefore, OffensesApart
  <2> QED
    BY <2>2, <2>3
<1> QED
  BY <1>7, <1>8

\* The replay is over.
LEMMA ApartReplayed ==
    ASSUME ApartInv, Replayed PROVE ApartInv'
<1>1. /\ phase = "replay" /\ phase' = "idle"
      /\ UNCHANGED <<patterns, ignored, source, pos, events, resolved, reported, trace>>
  BY DEF Replayed
<1>2. TypeOK' /\ SourceKnown'
  BY <1>1 DEF ApartInv, TypeOK, SourceKnown, Phases
<1>3. CandidatesPassed' /\ CandidatesNest'
  BY <1>1, CandidatesStay
<1> QED
  BY <1>1, <1>2, <1>3 DEF ApartInv, NothingReported, NothingBefore, OffensesApart,
     ReportedIgnored, CorrectionsApart

\* Every step keeps the invariant.
LEMMA ApartNext == ApartInv /\ [Next]_vars => ApartInv'
<1> SUFFICES ASSUME ApartInv, [Next]_vars PROVE ApartInv'
  OBVIOUS
<1>1. CASE UNCHANGED vars
  BY <1>1 DEF vars, ApartInv, TypeOK, SourceKnown, CandidatesPassed, CandidatesNest, Passed,
     IsCandidate, Bytes, Chars, NothingReported, NothingBefore, OffensesApart, ReportedIgnored,
     CorrectionsApart
<1> QED
  BY <1>1, ApartBetween, ApartOnBlock, ApartOnSend, ApartWalked, ApartResolve, ApartCommit,
     ApartFallBack, ApartReplay, ApartReplayed DEF Next

\* The inductive invariant of a round's corrections, in any text.
THEOREM ApartInvariantHolds == Spec => []ApartInv
<1> QED
  BY ApartInit, ApartNext, PTL DEF Spec

\* Every variable of the cop has its type, in any text.
THEOREM TypeCorrect == Spec => []TypeOK
<1>1. ApartInv => TypeOK
  BY DEF ApartInv
<1> QED
  BY <1>1, ApartInvariantHolds, PTL

\* The corrections of a round never overlap, whichever way the wrapper goes and
\* whatever the directives disable: resolve and replay both drop a block that is
\* inside one they report.
THEOREM CorrectionsStayApart == Spec => []CorrectionsApart
<1>1. ApartInv => CorrectionsApart
  BY DEF ApartInv
<1> QED
  BY <1>1, ApartInvariantHolds, PTL
=============================================================================
