---------------------------- MODULE RSpecScopes ----------------------------
(***************************************************************************)
(* The RSpec dispatcher                                                    *)
(* (crates/shirobai-core/src/rules/rspec_dispatcher.rs): one rule of the   *)
(* shared walk for all RSpec cops.  The stock cops collect lets, subjects  *)
(* and examples by descending from each group to the next barrier, and     *)
(* ask ancestors; the rule hands each item to the frames that are open     *)
(* where it stands and gives its verdicts at the end.                      *)
(*                                                                         *)
(* Kinds: "group" and "sharedGroup", "include" (include_examples), "hook", *)
(* "example" and "exampleLine" (on one line), "letA", "letB", "bangA"      *)
(* (let!(:a)), "subjectC" (named) and "subject", all with a block of their *)
(* own; "bangSendA" (let!(:a, &b)); "numGroup" (a group whose block uses   *)
(* _1) and "each", no word of RSpec; "callA" and "subjectRef", uses of a   *)
(* and of subject.  Lists of statements: "program", "stmts", "else" of an  *)
(* `if`, "when", "rescue" and those no hook tells of: "then", "main" (of   *)
(* a begin), "unlessElse", "caseElse", "beginElse", "ensure".  The first   *)
(* child of a "modifierIf" (`x if y`) is its condition, which is visited   *)
(* before what it modifies and stands after it.                            *)
(***************************************************************************)
EXTENDS SharedWalk, SequencesExt

CONSTANT MaxHelpers    \* RSpec/MultipleMemoizedHelpers: Max

VARIABLE rspec

SpecGroups == {"group", "sharedGroup"}
Examples == {"example", "exampleLine"}
Bangs == {"bangA", "bangSendA"}
Lets == {"letA", "letB"} \cup Bangs
Subjects == {"subjectC", "subject"}
Roles == SpecGroups \cup {"numGroup", "include", "hook"} \cup Examples \cup Lets \cup Subjects

\* The calls of the language with a block of the plain kind.
Framed == Roles \ {"numGroup", "bangSendA"}

ScopeChanges == SpecGroups \cup {"include"}

\* variable_definition?: the name, or nil.
VarDef(k) ==
    CASE k \in {"letA"} \cup Bangs -> "a" [] k = "letB" -> "b" [] k = "subjectC" -> "c"
      [] OTHER -> "nil"

\* A frame of the arena: collects the items of its kind of query.
Scope(n, parent) == [node |-> n, parent |-> parent, lets |-> <<>>, subjects |-> <<>>, examples |-> <<>>]

RSpecFresh ==
    [stack |-> <<>>, open |-> <<>>, scopes |-> <<>>, topSpecs |-> 0, calls |-> <<>>,
     named |-> {}, variables |-> {}, lines |-> {}]

RSpecInit == rspec = RSpecFresh

\* The statements of the body of a block call.
BodyOf(n) ==
    LET blocks == {b \in DOMAIN tree.kind : tree.parent[b] = n /\ Kind(b) = "block"}
        body == {k \in DOMAIN tree.kind : tree.parent[k] \in blocks /\ Kind(k) = "stmts"}
    IN  IF body = {} THEN <<>> ELSE Children(tree.parent, CHOOSE k \in body : TRUE)

\* find_direct_subject_def: the first subject in the body, 0 if there is none.
DirectSubject(n) ==
    LET defs == {i \in DOMAIN BodyOf(n) : Kind(BodyOf(n)[i]) \in Subjects}
    IN  IF defs = {} THEN 0 ELSE BodyOf(n)[Min(defs)]

\* The calls whose frames are open, the outermost first.
OpenNodes(s) == [i \in DOMAIN s.open |-> s.scopes[s.open[i]].node]

\* named_subject_offense, for a reference under the frames of these calls.
NamedSubject(nodes) ==
    LET used == {i \in DOMAIN nodes : Kind(nodes[i]) \in Examples \cup {"hook"}}
        shared == {i \in DOMAIN nodes : Kind(nodes[i]) = "sharedGroup"}
        defined == {i \in DOMAIN nodes : DirectSubject(nodes[i]) # 0}
    IN  /\ used # {}
        /\ "IgnoreSharedExamples" \in tree.options => \A i \in shared : Min(used) < i
        /\ "NamedOnly" \in tree.options =>
              defined # {} /\ Kind(DirectSubject(nodes[Max(defined)])) = "subjectC"

\* The positions of the open frames that stop an item.
Stops(s, barriers) == {i \in DOMAIN s.open : Kind(OpenNodes(s)[i]) \in barriers}

\* Mutant: the barrier itself does not collect.
ReceiversInside(s, barriers) ==
    {s.open[i] : i \in (Max(Stops(s, barriers) \cup {0}) + 1) .. Len(s.open)}

\* Every open frame from the innermost outward, up to and including the first
\* barrier.
Receivers(s, barriers) == {s.open[i] : i \in Max(Stops(s, barriers) \cup {1}) .. Len(s.open)}

Deliver(scopes, to, query, n) ==
    [j \in DOMAIN scopes |->
        IF j \in to THEN [scopes[j] EXCEPT ![query] = Append(@, n)] ELSE scopes[j]]

Attribute(s, query, n, barriers) ==
    [s EXCEPT !.scopes = Deliver(@, Receivers(s, barriers), query, n)]

\* collect_let, collect_subject and collect_example.
Collect(s, n) ==
    LET always == ScopeChanges \cup Examples
    IN  CASE Kind(n) \in Lets -> Attribute(s, "lets", n, always \cup Lets)
          [] Kind(n) \in Subjects -> Attribute(s, "subjects", n, always \cup Subjects)
          [] Kind(n) \in Examples -> Attribute(s, "examples", n, always)
          [] OTHER -> s

OpenScope(s, n) ==
    IF Kind(n) \notin Framed THEN s
    ELSE [s EXCEPT !.scopes = Append(@, Scope(n, IF s.open = <<>> THEN 0 ELSE Last(s.open))),
                   !.open = Append(@, Len(s.scopes) + 1)]

-----------------------------------------------------------------------------
(* EmptyLineAfter...: is a concept followed by a statement of its list?    *)

Handled(begin) == \E k \in DOMAIN tree.kind : tree.parent[k] = begin /\ Kind(k) \in {"rescue", "ensure"}

InList(n) ==
    Filter(Children(tree.parent, n), {k \in DOMAIN tree.kind : Kind(k) # "rescue"})

\* The lists of the innermost frame, which may hold the node.
Lists(f) ==
    LET part(kinds) == {k \in DOMAIN tree.kind : tree.parent[k] = f /\ Kind(k) \in kinds}
    IN  CASE Kind(f) \in {"program", "stmts", "rescue", "else", "when"} -> {f}
          [] Kind(f) \in {"if", "unless", "while"} -> part({"then"})
          [] Kind(f) = "begin" -> part({"main", "ensure", "beginElse"})
          [] OTHER -> {}

\* Mutant: a plain `begin` is a list like any other.
ResolvePlain(f, n) ==
    \E l \in Lists(f) :
        \E i \in 1 .. Len(InList(l)) - 1 : InList(l)[i] = n

\* resolve, in the innermost frame f.
Resolve(f, n) ==
    \E l \in Lists(f) :
        /\ Kind(l) = "main" => Handled(f)
        /\ \E i \in 1 .. Len(InList(l)) - 1 : InList(l)[i] = n

\* example_one_liner_allowed
OneLiners(n) ==
    LET up == tree.parent[n]
    IN  /\ Kind(n) = "exampleLine"
        /\ \E i \in 1 .. Len(InList(up)) - 1 : InList(up)[i] = n /\ Kind(InList(up)[i + 1]) = "exampleLine"

\* handle_final_let
FinalLet(n) ==
    LET lets == {i \in DOMAIN BodyOf(n) : Kind(BodyOf(n)[i]) \in Lets}
    IN  IF lets = {} \/ Max(lets \cup {0}) = Len(BodyOf(n)) THEN {}
        ELSE {<<"finalLet", BodyOf(n)[Max(lets)]>>}

\* empty_line_concepts, in the innermost frame f.
EmptyLineConcepts(f, inSpec, n) ==
    LET concept ==
            CASE Kind(n) \in Examples /\ ~OneLiners(n) -> {"example"}
              [] Kind(n) \in SpecGroups -> {"exampleGroup"}
              [] Kind(n) = "hook" -> {"hook"}
              [] Kind(n) \in Subjects /\ inSpec -> {"subject"}
              [] OTHER -> {}
    IN  (IF Kind(n) \in ScopeChanges THEN FinalLet(n) ELSE {})
            \cup {<<c, n>> : c \in {d \in concept : Resolve(f, n)}}

-----------------------------------------------------------------------------

\* The hooks that tell of the calls and of the lists of statements.
ASSUME RSpecKindsAssumption ==
    \A kind \in DOMAIN ClassOf :
        /\ kind \in Roles \cup {"callA", "subjectRef"} => ClassOf[kind] = "call"
        /\ kind \in {"then", "main", "beginElse", "ensure"} => ClassOf[kind] = "direct"
        /\ kind \in {"program", "stmts", "else", "when", "if", "unless", "while", "begin"}
              => ClassOf[kind] \in Branches
        /\ kind = "rescue" => ClassOf[kind] = "rescue"

\* The places a word of the language may have: below the program, whose
\* statements are its children; a list no hook tells of is part of another
\* construct, which is the one its kind names; nothing is below a let! with a
\* block-pass.
RSpecPlaces(t) ==
    \A k \in DOMAIN t.kind :
        t.kind[k] \in Roles =>
            LET up == t.parent[k] IN
            /\ up # 0 /\ t.kind[1] = "program"
            /\ Class(t, up) = "direct" => t.parent[up] # 1 /\ Class(t, t.parent[up]) # "direct"
            /\ t.kind[up] = "then" => t.kind[t.parent[up]] \in {"if", "unless", "while"}
            /\ t.kind[up] \in {"main", "beginElse", "ensure"} => t.kind[t.parent[up]] = "begin"
            /\ t.kind[k] = "bangSendA" => \A j \in DOMAIN t.parent : t.parent[j] # k

ASSUME RSpecPlacesAssumption == \A t \in Shapes : RSpecPlaces(t)

-----------------------------------------------------------------------------

\* handle_call, up to the stack entry.
HandleCall(s, n) ==
    LET referred ==
            [s EXCEPT !.calls = IF Kind(n) = "callA" THEN Append(@, n) ELSE @,
                      !.named = IF Kind(n) \in {"subjectRef", "subject"} /\ NamedSubject(OpenNodes(s))
                                THEN @ \cup {n} ELSE @]
        candidate == s.topSpecs > 0 /\ VarDef(Kind(n)) # "nil"
    IN  IF Kind(n) \notin Roles THEN referred
        ELSE [OpenScope(Collect(referred, n), n) EXCEPT
                !.variables = IF candidate THEN @ \cup {n} ELSE @,
                !.lines = @ \cup EmptyLineConcepts(Last(s.stack).node, s.topSpecs > 0, n)]

TopSpec(s, n) == Len(s.stack) = 1 /\ Kind(n) \in SpecGroups \cup {"numGroup"}

\* enter
WithFrame(s, n) ==
    LET t == IF Class(tree, n) = "call" THEN HandleCall(s, n) ELSE s
        top == TopSpec(s, n)
    IN  [t EXCEPT !.topSpecs = @ + IF top THEN 1 ELSE 0,
                  !.stack = Append(@, [node |-> n, scope |-> Kind(n) \in Framed, top |-> top])]

\* leave
WithoutFrame(s) ==
    LET entry == Last(s.stack)
    IN  [s EXCEPT !.stack = Front(@),
                  !.open = IF entry.scope THEN Front(@) ELSE @,
                  !.topSpecs = @ - IF entry.top THEN 1 ELSE 0]

\* enter_rescue and leave_rescue
WithClause(s, n) == [s EXCEPT !.stack = Append(@, [node |-> n, scope |-> FALSE, top |-> FALSE])]
WithoutClause(s) == [s EXCEPT !.stack = Front(@)]

RSpecEnter == rspec' = WithFrame(rspec, Node)
RSpecLeave == rspec' = WithoutFrame(rspec)
RSpecRescue == rspec' = WithClause(rspec, Node)
RSpecRescueLeave == rspec' = WithoutClause(rspec)

\* Where things stand in the text: n is k or below it ...
UnderOrAt(k, n) == k = n \/ n \in Below(tree.parent, k)

LateCondition(c) == tree.parent[c] # 0 /\ Kind(tree.parent[c]) = "modifierIf" /\ c = tree.parent[c] + 1

\* ... k is visited before n and stands after it ...
Turned(k, n) ==
    \E c \in DOMAIN tree.kind :
        LateCondition(c) /\ UnderOrAt(c, k) /\ n \in Below(tree.parent, tree.parent[c]) /\ ~UnderOrAt(c, n)

\* ... and k starts before n.
StartsBefore(k, n) == (k < n /\ ~Turned(k, n)) \/ Turned(n, k)

\* partition_point bisects to a place with a position before n, or none, ahead of
\* it and one that is not, or none, after it: the only one if they are sorted.
PartitionPoint(positions, n) ==
    CHOOSE i \in 0 .. Len(positions) :
        (i > 0 => StartsBefore(positions[i], n)) /\ (i < Len(positions) => ~StartsBefore(positions[i + 1], n))

\* called_within: does the first call found at or after the start of n start
\* before its end?
CalledWithin(s, n) ==
    LET from == PartitionPoint(s.calls, n)
    IN  /\ from < Len(s.calls)
        /\ \E k \in DOMAIN tree.kind :
              UnderOrAt(n, k) /\ (k = s.calls[from + 1] \/ StartsBefore(s.calls[from + 1], k))

\* finish: LetSetup.
OuterScopes(s, j) ==
    LET outer[i \in 0 .. Len(s.scopes)] ==
            IF i = 0 THEN {} ELSE {i} \cup outer[s.scopes[i].parent]
    IN  outer[s.scopes[j].parent]

LetSetup(s) ==
    LET changes == {j \in DOMAIN s.scopes : Kind(s.scopes[j].node) \in ScopeChanges}
        bangs(j) == {l \in ToSet(s.scopes[j].lets) : Kind(l) \in Bangs}
        overridden(j) == \E i \in OuterScopes(s, j) \cap changes : bangs(i) # {}
    IN  UNION {bangs(j) : j \in {i \in changes : ~overridden(i) /\ ~CalledWithin(s, s.scopes[i].node)}}

\* finish: the groups with too many helpers, and how many.
HelperNodes(s, j) ==
    UNION {ToSet(s.scopes[i].lets) \cup
              (IF "CountSubjects" \in tree.options THEN ToSet(s.scopes[i].subjects) ELSE {})
              : i \in {j} \cup OuterScopes(s, j)}

MultipleMemoizedHelpers(s) ==
    LET count(j) == Cardinality({VarDef(Kind(l)) : l \in HelperNodes(s, j)})
    IN  {<<s.scopes[j].node, count(j)>> :
            j \in {i \in DOMAIN s.scopes : Kind(s.scopes[i].node) \in SpecGroups /\ count(i) > MaxHelpers}}

\* finish: the examples of the groups with several.
RepeatedExampleGroups(s) ==
    {<<s.scopes[j].node, s.scopes[j].examples>> :
        j \in {i \in DOMAIN s.scopes : Kind(s.scopes[i].node) = "group" /\ Len(s.scopes[i].examples) >= 2}}

-----------------------------------------------------------------------------
(* The stock cops of rubocop-rspec.                                        *)

\* The nodes the parser gem calls `block`.
StockBlocks == Framed \cup {"each"}
BlocksOver(n) == {k \in Ancestors(tree.parent, n) : Kind(k) \in StockBlocks}

\* find_all_in_scope from the block k: the items with no other item, no scope
\* change and no example on the way.
FindAllInScope(k, items) ==
    {n \in Below(tree.parent, k) :
        /\ Kind(n) \in items
        /\ \A m \in Ancestors(tree.parent, n) \cap Below(tree.parent, k) :
              Kind(m) \notin ScopeChanges \cup Examples \cup items}

StockLetSetup ==
    LET changes == {k \in DOMAIN tree.kind : Kind(k) \in ScopeChanges}
        bangs(k) == {l \in FindAllInScope(k, Lets) : Kind(l) \in Bangs}
    IN  UNION {bangs(k) : k \in
            {g \in changes : /\ \A j \in Below(tree.parent, g) : Kind(j) # "callA"
                             /\ \A o \in Ancestors(tree.parent, g) \cap changes : bangs(o) = {}}}

StockHelpers ==
    LET helpers(k) == FindAllInScope(k, Lets)
                        \cup (IF "CountSubjects" \in tree.options THEN FindAllInScope(k, Subjects) ELSE {})
        count(g) == Cardinality({VarDef(Kind(l)) : l \in UNION {helpers(k) : k \in {g} \cup BlocksOver(g)}})
    IN  {<<g, count(g)>> : g \in {k \in DOMAIN tree.kind : Kind(k) \in SpecGroups /\ count(k) > MaxHelpers}}

StockExampleGroups ==
    LET found(g) == Filter(UpTo(Len(tree.kind)), FindAllInScope(g, Examples))
    IN  {<<g, found(g)>> : g \in {k \in DOMAIN tree.kind : Kind(k) = "group" /\ Len(found(k)) >= 2}}

StockNamedSubject ==
    LET ignored(e) == /\ "IgnoreSharedExamples" \in tree.options
                      /\ \E k \in BlocksOver(e) : Kind(k) = "sharedGroup"
        defined(n) == {k \in BlocksOver(n) : DirectSubject(k) # 0}
        named(n) == defined(n) # {} /\ Kind(DirectSubject(Max(defined(n)))) = "subjectC"
    IN  {n \in DOMAIN tree.kind :
            /\ Kind(n) \in {"subjectRef", "subject"}
            /\ \E e \in BlocksOver(n) : Kind(e) \in Examples \cup {"hook"} /\ ~ignored(e)
            /\ "NamedOnly" \in tree.options => named(n)}

\* inside_example_group?
StockInsideGroup(n) ==
    \E k \in {n} \cup Ancestors(tree.parent, n) :
        tree.parent[k] = 1 /\ Kind(k) \in SpecGroups \cup {"numGroup"} /\ k # n

StockVariables ==
    {n \in DOMAIN tree.kind : Kind(n) \in Lets \cup {"subjectC"} /\ StockInsideGroup(n)}

\* The rule opens no frame for a block without a word of RSpec: a helper found
\* from one that no frame is around of, and a subject of such a block.
OutsideFrames ==
    \/ \E k \in DOMAIN tree.kind :
          /\ Kind(k) = "each" /\ \A b \in BlocksOver(k) : Kind(b) \notin Framed
          /\ FindAllInScope(k, Lets) \cup FindAllInScope(k, Subjects) # {}
    \/ /\ "NamedOnly" \in tree.options
       /\ \E k \in DOMAIN tree.kind : Kind(k) = "each" /\ DirectSubject(k) # 0

\* A call in a condition that comes after what it modifies: the positions of the
\* calls are not in their order.
TurnedCall ==
    \E k, c \in DOMAIN tree.kind : Kind(k) = "callA" /\ LateCondition(c) /\ UnderOrAt(c, k)

\* Handing each item to the frames open at its place gives, at the end of the
\* walk, what the stock cops collect by descending from each group, whatever
\* comes before or after a nested group: the same unused let! (where the calls
\* come in the order of the text), helper counts, example lists, anonymous
\* subjects and variable names.
ScopesAsStock ==
    todo = <<>> /\ ~OutsideFrames =>
        /\ TurnedCall \/ LetSetup(rspec) = StockLetSetup
        /\ MultipleMemoizedHelpers(rspec) = StockHelpers
        /\ RepeatedExampleGroups(rspec) = StockExampleGroups
        /\ rspec.named = StockNamedSubject
        /\ rspec.variables = StockVariables

\* The comment at rspec_dispatcher.rs:1409 says that called_within is true for a
\* call inside the scope's subtree, as the offsets come in the order of the walk.
MethodCalled ==
    todo = <<>> =>
        \A j \in DOMAIN rspec.scopes :
            LET n == rspec.scopes[j].node
            IN  CalledWithin(rspec, n) <=> \E k \in Below(tree.parent, n) : Kind(k) = "callA"

\* last_child?: not the last statement of what the parser gem makes a `begin`.
StockFollowed(n) ==
    LET up == tree.parent[n]
    IN  /\ Kind(up) \in {"program", "stmts", "then", "else", "unlessElse", "when", "caseElse", "main",
                         "rescue", "beginElse", "ensure"}
        /\ Kind(up) = "main" => Handled(tree.parent[up])
        /\ Last(InList(up)) # n

StockLines ==
    LET concept(n) ==
            CASE Kind(n) \in Examples /\ ~OneLiners(n) -> {"example"}
              [] Kind(n) \in SpecGroups -> {"exampleGroup"}
              [] Kind(n) = "hook" -> {"hook"}
              [] Kind(n) \in Subjects /\ StockInsideGroup(n) -> {"subject"}
              [] OTHER -> {}
    IN  UNION {UNION {{<<c, n>> : c \in {d \in concept(n) : StockFollowed(n)}} : n \in DOMAIN tree.kind},
               UNION {FinalLet(n) : n \in {k \in DOMAIN tree.kind : Kind(k) \in ScopeChanges}}}

\* The else of an `unless` or of a `case`, which no hook tells of.
TypedElse == \E k \in DOMAIN tree.kind : Kind(k) \in {"unlessElse", "caseElse"}

\* From the innermost frame the rule recovers the lists of statements the parser
\* gem has: the same concepts are candidates for a missing line after them.
LinesAsStock == todo = <<>> /\ ~TypedElse => rspec.lines = StockLines

\* The comment at rspec_dispatcher.rs:790 lists "an else body" among the places
\* resolve looks in, and rspec_empty_line.rs:44 has "else body ... always :begin".
EveryElseBody == todo = <<>> => rspec.lines = StockLines

=============================================================================
