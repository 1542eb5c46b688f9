------------------------- MODULE IndentationWidth -------------------------
(***************************************************************************)
(* Layout/IndentationWidth (crates/shirobai-core/src/rules/                *)
(* indentation_width.rs and lib/shirobai/cop/layout/indentation_width.rb): *)
(* which of the bodies that are not indented as they should be does a      *)
(* round of corrections move?  A body that moves takes all its lines with  *)
(* it, so none inside a range that was moved before may move again, in the *)
(* same round or in an earlier one of the same instance of the cop.        *)
(*                                                                         *)
(* Kinds: "shifted" and "shiftedBody" are lists of statements off their    *)
(* column; "while" and "def" have one or an aligned list, "whileAllowed"   *)
(* stands on a line that matches AllowedPatterns; "assign" (`a = while`)   *)
(* and "modifier" (`private def`) have one of these; "begin" with          *)
(* "rescue" clauses, "beginElse" and "ensure" has a list in each.          *)
(* A character position in the text is the number of the node that starts  *)
(* there; a "wide" node, in the trees that are "multibyte", has a byte     *)
(* more than it has characters.                                            *)
(***************************************************************************)
EXTENDS SharedWalk, SequencesExt

Loops == {"while", "whileAllowed", "def"}
OffColumn == {"shifted", "shiftedBody"}

\* The generated visitor has a hook for each of these kinds; a program is no
\* clause; a list of statements has some; what is assigned or modified is one
\* of Loops if a body of it is looked at.
ASSUME WidthKindsAssumption ==
    \A t \in Shapes : \A n \in DOMAIN t.kind :
        /\ t.kind[n] \in Loops \cup {"begin", "assign", "modifier"} => Class(t, n) \in Branches
        /\ Class(t, n) = "rescue" => n # 1
        /\ t.kind[n] = "wide" => "multibyte" \in t.options
        /\ t.kind[n] \in OffColumn => /\ Class(t, n) # "rescue"
                                     /\ \E k \in DOMAIN t.kind : t.parent[k] = n
        /\ t.kind[n] \in {"assign", "modifier"} =>
              /\ \E k \in DOMAIN t.kind : t.parent[k] = n
              /\ \A k, j \in DOMAIN t.kind :
                    t.parent[k] = n /\ t.parent[j] = k /\ t.kind[j] \in OffColumn => t.kind[k] \in Loops

VARIABLE widths

\* ranges: @offense_ranges of the wrapper, in bytes; stock: those of the stock
\* cop, in characters.
WidthsAfter(ranges, stock, registered) ==
    [ranges |-> ranges, stock |-> stock, registered |-> registered, ignored |-> {}, offenses |-> {}]

WidthsFresh == WidthsAfter({}, {}, {})

WidthsInit == widths = WidthsFresh

Extent(n) == <<n, Max({n} \cup Below(tree.parent, n))>>

\* The byte offsets of a range of the text.
WideUpTo(n) == Cardinality({k \in DOMAIN tree.kind : Kind(k) = "wide" /\ k <= n})

Bytes(range) == <<range[1] + WideUpTo(range[1] - 1), range[2] + WideUpTo(range[2])>>

Within(range, other) == other[1] <= range[1] /\ range[2] <= other[2]

\* bundle_eligible?
BundleEligible(ranges) == "AllowedPatterns" \notin tree.options /\ ranges = {}

\* Mutant: the bundled run serves every round of a config without patterns.
SeedBundled(ranges) == IF "AllowedPatterns" \notin tree.options THEN {} ELSE ranges

\* The ranges the rule starts with: none in the bundled run.
Seed(ranges) == IF BundleEligible(ranges) THEN {} ELSE ranges

\* allowed_line?: the lines are handed to the standalone call alone.
AllowedLine(n) == ~BundleEligible(widths.ranges) /\ "AllowedPatterns" \in tree.options /\ Kind(n) = "whileAllowed"

ShiftedLists(n) ==
    {k \in DOMAIN tree.kind : tree.parent[k] = n /\ Kind(k) \in OffColumn}

\* The rescue clauses, else and ensure of a begin.
Handlers(n) ==
    LET handler(k) ==
            /\ Class(tree, k) = "rescue" \/ Kind(k) \in {"beginElse", "ensure"}
            /\ \A m \in Ancestors(tree.parent, k) \cap Below(tree.parent, n) : Class(tree, m) = "rescue"
    IN  Filter(UpTo(Len(tree.kind)), {k \in Below(tree.parent, n) : handler(k)})

\* What moves: the first statement, of a begin with handlers everything to
\* their end.
CorrectRange(n, list) ==
    LET first == Children(tree.parent, list)[1]
    IN  <<first, Extent(IF Kind(n) = "begin" /\ Handlers(n) # <<>> THEN n ELSE first)[2]>>

\* offense
Offense(s, list, range) ==
    LET within == \E r \in s.registered : Within(range, r)
    IN  [s EXCEPT !.registered = IF within THEN @ ELSE @ \cup {range},
                  !.offenses = @ \cup {[list |-> list, range |-> range, autocorrect |-> ~within]}]

CheckIndentation(s, n) ==
    IF ShiftedLists(n) = {} \/ AllowedLine(n) THEN s
    ELSE LET list == CHOOSE k \in ShiftedLists(n) : TRUE
         IN  Offense(s, list, Bytes(CorrectRange(n, list)))

\* One node after the other.
CheckAll(s, ns) ==
    LET after[i \in 0 .. Len(ns)] == IF i = 0 THEN s ELSE CheckIndentation(after[i - 1], ns[i])
    IN  after[Len(ns)]

\* dispatch: a begin checks its handlers at once; what an assignment or a
\* modifier checked is ignored when the walk comes to it.
IndentationDispatch(s, n) ==
    CASE Kind(n) \in {"assign", "modifier"} ->
            LET value == Children(tree.parent, n)[1]
            IN  [CheckIndentation(s, value) EXCEPT !.ignored = @ \cup {Extent(value)}]
      [] Kind(n) \in Loops -> IF Extent(n) \in s.ignored THEN s ELSE CheckIndentation(s, n)
      [] Kind(n) = "begin" -> CheckAll(s, <<n>> \o Handlers(n))
      [] OTHER -> s

WidthsEnter == widths' = IndentationDispatch(widths, Node)

-----------------------------------------------------------------------------
(* The stock cop.                                                          *)

StockOffense(h, list, range) ==
    LET within == "Autocorrect" \in tree.options /\ \E r \in h.ranges : Within(range, r)
    IN  [h EXCEPT !.ranges = IF within \/ "Autocorrect" \notin tree.options THEN @ ELSE @ \cup {range},
                  !.out = @ \cup {<<list, ~within>>}]

StockCheck(h, n) ==
    IF \/ ShiftedLists(n) = {} \/ n \in h.ignored
       \/ "AllowedPatterns" \in tree.options /\ Kind(n) = "whileAllowed"
    THEN h
    ELSE LET list == CHOOSE k \in ShiftedLists(n) : TRUE
         IN  StockOffense(h, list, CorrectRange(n, list))

StockCheckAll(h, ns) ==
    LET after[i \in 0 .. Len(ns)] == IF i = 0 THEN h ELSE StockCheck(after[i - 1], ns[i])
    IN  after[Len(ns)]

\* A begin before its handlers that are no clauses, the last one first.
WithLate(n) == <<n>> \o Reverse(Filter(Handlers(n), {k \in Nodes : Class(tree, k) # "rescue"}))

\* The callbacks at a node: on_kwbegin, on_ensure and on_rescue (the else)
\* before what is inside, on_resbody at each clause.
StockCallback(h, n) ==
    CASE Kind(n) = "begin" -> StockCheckAll(h, WithLate(n))
      [] Kind(n) \in {"assign", "modifier"} ->
            LET value == Children(tree.parent, n)[1]
            IN  [StockCheck(h, value) EXCEPT !.ignored = @ \cup {value}]
      [] Kind(n) \in Loops \/ Class(tree, n) = "rescue" -> StockCheck(h, n)
      [] OTHER -> h

\* A round over the whole text.
StockRounds(ranges) ==
    LET after[n \in 0 .. Len(tree.kind)] ==
            IF n = 0 THEN [ranges |-> ranges, ignored |-> {}, out |-> {}]
            ELSE StockCallback(after[n - 1], n)
    IN  after

StockRound(ranges) == StockRounds(ranges)[Len(tree.kind)]

\* The next round of the instance: the wrapper has kept what it corrected, and
\* the corrected text is another program.
NextWidths ==
    LET ranges == widths.ranges \cup {o.range : o \in {x \in widths.offenses : x.autocorrect}}
    IN  widths' = WidthsAfter(ranges, StockRound(widths.stock).ranges, Seed(ranges))

\* The ranges of earlier rounds are in bytes, those of the stock cop in
\* characters: they cover the same places of the next text only where the two
\* agree, or where there are none.
InOneUnit == "multibyte" \notin tree.options \/ widths.ranges = {}

\* In every round the same bodies are reported, and the same ones moved, as by
\* the stock cop: whether the bundled run or a call of its own answers, with the
\* clauses of a begin ahead of what is inside it, and whatever was moved before
\* in a text of single bytes.
CorrectsAsStock ==
    todo = <<>> /\ InOneUnit =>
        {<<o.list, "Autocorrect" \in tree.options => o.autocorrect>> : o \in widths.offenses}
            = StockRound(widths.stock).out

=============================================================================
