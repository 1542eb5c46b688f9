----------------------- MODULE ScopesAndWidthsProofs -----------------------
(***************************************************************************)
(* ScopesAsStock and LinesAsStock, of RSpecScopes: the frames of the rule  *)
(* against the collections of the stock cops, which descend from each      *)
(* group and each example.                                                 *)
(*                                                                         *)
(* CorrectsAsStock, of IndentationWidth: in every round of an instance the *)
(* rule moves the bodies the stock cop moves.                              *)
(*                                                                         *)
(* That rule looks at the handlers of a begin when it enters the begin,    *)
(* the stock cop at the clauses when it comes to them.  What moves does    *)
(* not depend on that: a range that is not inside any range of an earlier  *)
(* round, nor inside that of another body that is off its column (Moves).  *)
(* For of two such bodies the one whose range has the other inside is the  *)
(* outer one (RangeWithin), and both cops look at it first.                *)
(***************************************************************************)
EXTENDS WalkedCopsProofs, FiniteSetTheorems

-----------------------------------------------------------------------------
(* The RSpec dispatcher: its frames against the collections of the stock   *)
(* cops.                                                                   *)

FramedNodes == {k \in Nodes : Kind(k) \in Framed}

\* The calls with a frame above a node, the outermost first.
FramedAbove(n) == Filter(ParserAbove(n), FramedNodes)

Queries == {"lets", "subjects", "examples"}

\* What each query collects, and where it stops.
Items(query) == CASE query = "lets" -> Lets [] query = "subjects" -> Subjects [] query = "examples" -> Examples
Barriers(query) == ScopeChanges \cup Examples \cup Items(query)

ScopeType == [node : Nat, parent : Nat, lets : Seq(Nat), subjects : Seq(Nat), examples : Seq(Nat)]

RSpecTyped(s) ==
    s \in [stack : Seq([node : Nat, scope : BOOLEAN, top : BOOLEAN]), open : Seq(Nat),
           scopes : Seq(ScopeType), topSpecs : Nat, calls : Seq(Nat), named : SUBSET Nat,
           variables : SUBSET Nat, lines : {s.lines}]

\* What its sequences are.
LEMMA RSpecSequences ==
    ASSUME NEW s, RSpecTyped(s)
    PROVE  /\ s.scopes \in Seq(ScopeType) /\ Len(s.scopes) \in Nat /\ DOMAIN s.scopes = 1 .. Len(s.scopes)
           /\ s.open \in Seq(Nat) /\ Len(s.open) \in Nat /\ DOMAIN s.open = 1 .. Len(s.open)
<1>1. s.scopes \in Seq(ScopeType) /\ s.open \in Seq(Nat)
  BY DEF RSpecTyped
<1> QED
  BY <1>1

\* The open frames are those of these calls.
OpenIs(s, nodes) == s.open \in Seq(1 .. Len(s.scopes)) /\ OpenNodes(s) = nodes

\* The arena has a frame for each of the first m nodes that gets one.
ScopesAre(s, m) == [j \in 1 .. Len(s.scopes) |-> s.scopes[j].node] = Filter(UpTo(m), FramedNodes)

\* A word of the language, and what the cops ask for, is a call for the walk.
LEMMA RoleIsCall ==
    ASSUME tree \in Shapes, NEW k \in Nodes, Kind(k) \in Roles \cup {"callA", "subjectRef"}
    PROVE  Class(tree, k) = "call" /\ Class(tree, k) \in Branches
<1>1. Kind(k) \in DOMAIN ClassOf
  BY TreeFacts DEF Kind
<1>2. Class(tree, k) = "call"
  BY <1>1, RSpecKindsAssumption DEF Class, Kind
<1> QED
  BY <1>2 DEF Branches, ClassIndex

\* The calls above a node, as a set.
LEMMA FramedAboveIs ==
    ASSUME tree \in Shapes, NEW n \in Nodes
    PROVE  /\ FramedAbove(n) \in Seq(Nodes) /\ Increasing(FramedAbove(n))
           /\ Elements(FramedAbove(n)) = Over(n) \cap FramedNodes
<1>1. PICK s, S : s = ParserAbove(n) /\ S = FramedNodes
  OBVIOUS
<1>2. s \in Seq(Nodes) /\ Increasing(s) /\ Elements(s) = Over(n) \cap Kept(n)
  BY <1>1, ParserOverIs
<1>3. s \in Seq(Nat)
  <2>1. Nodes \subseteq Nat
    BY TreeFacts
  <2> QED
    BY <1>2, <2>1, SeqMonotonic
<1>4. Filter(s, S) \in Seq(Nodes) /\ Increasing(Filter(s, S)) /\ Elements(Filter(s, S)) = Elements(s) \cap S
  BY <1>2, <1>3, FilterType, FilterIncreasing, FilterElements
<1>5. S \subseteq Kept(n)
  <2>1. ASSUME NEW k \in FramedNodes PROVE k \in Kept(n)
    <3>1. k \in Nodes /\ Class(tree, k) \in Branches
      BY <2>1, RoleIsCall DEF FramedNodes, Framed
    <3> QED
      BY <3>1 DEF Kept
  <2> QED
    BY <1>1, <2>1
<1> QED
  BY <1>1, <1>2, <1>4, <1>5 DEF FramedAbove

\* Nothing is below a let! with a block-pass.
LEMMA NothingBelow ==
    ASSUME tree \in Shapes, NEW k \in Nodes, Kind(k) = "bangSendA", NEW n \in Nodes
    PROVE  k \notin Over(n)
<1>1. ASSUME NEW j \in Nodes PROVE tree.parent[j] # k
  <2>1. RSpecPlaces(tree)
    BY RSpecPlacesAssumption
  <2>2. k \in DOMAIN tree.kind /\ tree.kind[k] = "bangSendA" /\ j \in DOMAIN tree.parent
    BY TreeFacts DEF Kind, Nodes
  <2>3. "bangSendA" \in Roles
    BY DEF Roles, Lets, Bangs
  <2> QED
    BY <2>1, <2>2, <2>3 DEF RSpecPlaces
<1> DEFINE S == {i \in Nat : i \in Nodes => k \notin Over(i)}
<1>2. ASSUME NEW i \in Nat, \A j \in Nat : j < i => j \in S
      PROVE  i \in S
  <2> SUFFICES ASSUME i \in Nodes PROVE k \notin Over(i)
    OBVIOUS
  <2>1. CASE tree.parent[i] = 0
    BY <2>1, OverIs
  <2>2. CASE tree.parent[i] # 0
    <3>1. PICK u : u = tree.parent[i] /\ u \in 1 .. i - 1 /\ u \in Nodes /\ Over(i) = Over(u) \cup {u}
      BY <2>2, OverIs
    <3>2. u \in S /\ u # k
      BY <1>1, <1>2, <3>1
    <3> QED
      BY <3>1, <3>2
  <2> QED
    BY <2>1, <2>2
<1> HIDE DEF S
<1>3. \A i \in Nat : i \in S
  BY <1>2, NatSetStrong
<1>4. n \in Nat
  BY TreeFacts
<1> QED
  BY <1>3, <1>4 DEF S

\* The positions from the last of some on, or from the first.
LEMMA FromLast ==
    ASSUME NEW l \in Nat, NEW T, T \subseteq 1 .. l, NEW i
    PROVE  i \in Max(T \cup {1}) .. l <=> i \in 1 .. l /\ \A k \in i + 1 .. l : k \notin T
<1>1. PICK S : S = T \cup {1}
  OBVIOUS
<1>2. S \subseteq 1 .. l + 1 /\ S # {} /\ l + 1 \in Nat
  BY <1>1
<1>3. PICK x \in S : \A y \in S : y <= x
  BY <1>2, GreatestNumber
<1>4. \A z \in S : (\A y \in S : z >= y) => z = x
  BY <1>2, <1>3
<1>5. \A y \in S : x >= y
  BY <1>2, <1>3
<1>6. Max(S) = x
  BY <1>3, <1>4, <1>5 DEF Max
<1>7. x \in Nat /\ x >= 1 /\ (x = 1 \/ x \in T)
  BY <1>1, <1>2, <1>3
<1>8. ASSUME i \in x .. l PROVE i \in 1 .. l /\ \A k \in i + 1 .. l : k \notin T
  BY <1>1, <1>2, <1>3, <1>7, <1>8
<1>9. ASSUME i \in 1 .. l, \A k \in i + 1 .. l : k \notin T PROVE i \in x .. l
  BY <1>1, <1>2, <1>3, <1>7, <1>9
<1> QED
  BY <1>1, <1>6, <1>8, <1>9

\* The scopes of the first m nodes.
LEMMA ScopeNodesAre ==
    ASSUME tree \in Shapes, NEW m \in Nat, NEW s, RSpecTyped(s), ScopesAre(s, m)
    PROVE  /\ \A j \in 1 .. Len(s.scopes) : s.scopes[j].node \in FramedNodes /\ s.scopes[j].node <= m
           /\ \A j, k \in 1 .. Len(s.scopes) : j < k => s.scopes[j].node < s.scopes[k].node
           /\ \A x \in FramedNodes : x <= m => \E j \in 1 .. Len(s.scopes) : s.scopes[j].node = x
<1>1. PICK f, S : f = Filter(UpTo(m), S) /\ S = FramedNodes
  OBVIOUS
<1>2. UpTo(m) \in Seq(Nat) /\ Increasing(UpTo(m)) /\ Elements(UpTo(m)) = 1 .. m
  <2>1. UpTo(m) \in Seq(1 .. m) /\ 1 .. m \subseteq Nat
    BY UpToIs
  <2>2. UpTo(m) \in Seq(Nat)
    BY <2>1, SeqMonotonic
  <2> QED
    BY <2>2, UpToIs
<1>3. f \in Seq(Nat) /\ Increasing(f) /\ Elements(f) = 1 .. m \cap S
  BY <1>1, <1>2, FilterType, FilterIncreasing, FilterElements
<1>4. PICK l \in Nat : l = Len(s.scopes)
  <2>1. s.scopes \in Seq(ScopeType)
    BY DEF RSpecTyped
  <2> QED
    BY <2>1
<1>5. f = [j \in 1 .. l |-> s.scopes[j].node]
  BY <1>1, <1>4 DEF ScopesAre
<1>6. Len(f) = l /\ \A j \in 1 .. l : f[j] = s.scopes[j].node
  BY <1>3, <1>5
<1>7. S \subseteq Nat /\ \A x \in S : x >= 1
  BY <1>1, TreeFacts DEF FramedNodes
<1>8. ASSUME NEW x \in S, x <= m PROVE \E j \in 1 .. l : f[j] = x
  <2>1. x \in Elements(f)
    BY <1>3, <1>7, <1>8
  <2> QED
    BY <1>6, <2>1 DEF Elements
<1>9. ASSUME NEW j \in 1 .. l PROVE f[j] \in S /\ f[j] <= m
  <2>1. f[j] \in Elements(f)
    BY <1>6 DEF Elements
  <2> QED
    BY <1>3, <2>1
<1>10. \A j, k \in 1 .. l : j < k => s.scopes[j].node < s.scopes[k].node
  BY <1>3, <1>6 DEF Increasing
<1>11. \A j \in 1 .. l : s.scopes[j].node \in FramedNodes /\ s.scopes[j].node <= m
  BY <1>1, <1>6, <1>9
<1>12. \A x \in FramedNodes : x <= m => \E j \in 1 .. l : s.scopes[j].node = x
  BY <1>1, <1>6, <1>8
<1> QED
  BY <1>4, <1>10, <1>11, <1>12

\* What a frame collects: it is above the node, and no frame in between stops it.
LEMMA CollectedIs ==
    ASSUME tree \in Shapes, NEW n \in Nodes, NEW query \in Queries, Kind(n) \in Items(query),
           NEW k \in FramedNodes
    PROVE  n \in FindAllInScope(k, Items(query))
              <=> /\ k \in Over(n)
                  /\ \A x \in Over(n) \cap FramedNodes : k < x => Kind(x) \notin Barriers(query)
<1>1. k \in Nodes /\ Over(n) \subseteq Nodes
  BY OverIs DEF FramedNodes
<1>2. \A x \in Nodes : x \in Below(tree.parent, k) <=> k \in Over(x)
  BY DEF Below, Over, Nodes
<1>3. n \in FindAllInScope(k, Items(query))
         <=> /\ k \in Over(n)
             /\ \A x \in Over(n) : k \in Over(x) => Kind(x) \notin Barriers(query)
  <2>1. n \in FindAllInScope(k, Items(query))
           <=> /\ n \in Below(tree.parent, k)
               /\ \A x \in Over(n) \cap Below(tree.parent, k) : Kind(x) \notin Barriers(query)
    BY DEF FindAllInScope, Over, Barriers
  <2> QED
    BY <1>1, <1>2, <2>1
<1>4. ASSUME k \in Over(n), NEW x \in Over(n) \cap FramedNodes, k < x PROVE k \in Over(x)
  BY <1>4, OverOneAnother
<1>5. ASSUME NEW x \in Over(n), k \in Over(x) PROVE k < x
  <2>1. Over(x) \subseteq 1 .. x - 1
    BY <1>1, OverIs
  <2>2. x \in Nat
    BY <1>1, TreeFacts
  <2> QED
    BY <1>5, <2>1, <2>2
<1>6. ASSUME NEW x \in Over(n), Kind(x) \in Barriers(query) PROVE x \in FramedNodes
  <2>1. Kind(x) # "bangSendA"
    BY <1>1, NothingBelow
  <2>2. Kind(x) \in Framed
    BY <1>6, <2>1 DEF Barriers, Queries, Items, ScopeChanges, SpecGroups, Examples, Lets, Bangs, Subjects,
                      Framed, Roles
  <2> QED
    BY <1>1, <2>2 DEF FramedNodes
<1> QED
  BY <1>3, <1>4, <1>5, <1>6

\* What handing an item outward from the innermost frame does: it comes to the
\* frames whose descent finds it.
LEMMA HandedTo ==
    ASSUME tree \in Shapes, NEW n \in Nodes, NEW query \in Queries, Kind(n) \in Items(query),
           NEW s, RSpecTyped(s), OpenIs(s, FramedAbove(n)), ScopesAre(s, n - 1),
           NEW j \in 1 .. Len(s.scopes)
    PROVE  j \in Receivers(s, Barriers(query)) <=> n \in FindAllInScope(s.scopes[j].node, Items(query))
<1>1. PICK nodes : nodes = FramedAbove(n) /\ nodes = OpenNodes(s)
  BY DEF OpenIs
<1>2. PICK l \in Nat : l = Len(s.open) /\ DOMAIN s.open = 1 .. l
  <2>1. PICK S : S = 1 .. Len(s.scopes)
    OBVIOUS
  <2>2. s.open \in Seq(S)
    BY <2>1 DEF OpenIs
  <2> QED
    BY <2>2
<1>3. nodes \in Seq(Nodes) /\ Len(nodes) = l /\ \A i \in 1 .. l : nodes[i] = s.scopes[s.open[i]].node
  <2>1. nodes = [i \in 1 .. l |-> s.scopes[s.open[i]].node]
    BY <1>1, <1>2 DEF OpenNodes
  <2>2. nodes \in Seq(Nodes)
    BY <1>1, FramedAboveIs
  <2> QED
    BY <2>1, <2>2
<1>4. \A i, k \in 1 .. l : i < k => nodes[i] < nodes[k]
  BY <1>1, <1>3, FramedAboveIs DEF Increasing
<1>5. \A x : x \in Over(n) \cap FramedNodes <=> \E i \in 1 .. l : nodes[i] = x
  <2>1. Elements(nodes) = Over(n) \cap FramedNodes
    BY <1>1, FramedAboveIs
  <2> QED
    BY <1>3, <2>1 DEF Elements
<1>6. \A i \in 1 .. l : s.open[i] \in 1 .. Len(s.scopes)
  BY <1>2 DEF OpenIs
<1>7. PICK T : T = {i \in 1 .. l : Kind(nodes[i]) \in Barriers(query)}
  OBVIOUS
<1>8. PICK to : to = {s.open[i] : i \in Max(T \cup {1}) .. l}
  OBVIOUS
<1>9. \A i : i \in Max(T \cup {1}) .. l <=> i \in 1 .. l /\ \A k \in i + 1 .. l : k \notin T
  BY <1>7, FromLast
<1>10. j \in to <=> \E i \in 1 .. l : s.open[i] = j /\ \A k \in i + 1 .. l : Kind(nodes[k]) \notin Barriers(query)
  <2>1. ASSUME NEW i \in 1 .. l, NEW k \in i + 1 .. l PROVE k \in T <=> Kind(nodes[k]) \in Barriers(query)
    BY <1>7, <2>1
  <2>2. j \in to <=> \E i \in 1 .. l : s.open[i] = j /\ \A k \in i + 1 .. l : k \notin T
    BY <1>8, <1>9
  <2> QED
    BY <2>1, <2>2
<1>11. PICK x : x = s.scopes[j].node
  OBVIOUS
<1>12. x \in FramedNodes /\ x \in Nat
  <2>1. n - 1 \in Nat
    BY TreeFacts
  <2>2. x \in FramedNodes
    BY <1>11, <2>1, ScopeNodesAre
  <2> QED
    BY <2>2, TreeFacts DEF FramedNodes
<1>13. \A k \in 1 .. l : nodes[k] \in Nat
  BY <1>3, TreeFacts
<1>14. n \in FindAllInScope(x, Items(query))
          <=> /\ x \in Over(n)
              /\ \A y \in Over(n) \cap FramedNodes : x < y => Kind(y) \notin Barriers(query)
  BY <1>12, CollectedIs
<1>15. ASSUME NEW i \in 1 .. l, s.open[i] = j, \A k \in i + 1 .. l : Kind(nodes[k]) \notin Barriers(query)
       PROVE  n \in FindAllInScope(x, Items(query))
  <2>1. nodes[i] = x
    BY <1>3, <1>11, <1>15
  <2>2. ASSUME NEW y \in Over(n) \cap FramedNodes, x < y PROVE Kind(y) \notin Barriers(query)
    <3>1. PICK k \in 1 .. l : nodes[k] = y
      BY <1>5
    <3>2. k > i
      BY <1>4, <1>13, <2>1, <2>2, <3>1
    <3> QED
      BY <1>15, <3>1, <3>2
  <2> QED
    BY <1>5, <1>14, <2>1, <2>2
<1>16. ASSUME n \in FindAllInScope(x, Items(query))
       PROVE  \E i \in 1 .. l : s.open[i] = j /\ \A k \in i + 1 .. l : Kind(nodes[k]) \notin Barriers(query)
  <2>1. x \in Over(n) /\ \A y \in Over(n) \cap FramedNodes : x < y => Kind(y) \notin Barriers(query)
    BY <1>14, <1>16
  <2>2. PICK i \in 1 .. l : nodes[i] = x
    BY <1>5, <1>12, <2>1
  <2>3. s.open[i] = j
    <3>1. s.scopes[s.open[i]].node = s.scopes[j].node /\ s.open[i] \in 1 .. Len(s.scopes)
      BY <1>3, <1>6, <1>11, <2>2
    <3>2. n - 1 \in Nat
      BY TreeFacts
    <3>3. \A a, b \in 1 .. Len(s.scopes) : a < b => s.scopes[a].node < s.scopes[b].node
      BY <3>2, ScopeNodesAre
    <3>4. PICK a, c : a = s.open[i] /\ c = Len(s.scopes)
      OBVIOUS
    <3>5. c \in Nat
      BY <3>4 DEF RSpecTyped
    <3>6. a \in 1 .. c /\ j \in 1 .. c /\ s.scopes[a].node = s.scopes[j].node
      BY <3>1, <3>4
    <3>7. s.scopes[j].node \in Nat
      BY <1>11, <1>12
    <3>8. ~(a < j) /\ ~(j < a)
      BY <3>3, <3>4, <3>6, <3>7
    <3> QED
      BY <3>4, <3>5, <3>6, <3>8
  <2>4. ASSUME NEW k \in i + 1 .. l PROVE Kind(nodes[k]) \notin Barriers(query)
    <3>1. k \in 1 .. l /\ i < k
      BY <2>4
    <3> QED
      BY <1>4, <1>5, <2>1, <2>2, <3>1
  <2> QED
    BY <2>3, <2>4
<1>17. j \in to <=> n \in FindAllInScope(x, Items(query))
  BY <1>10, <1>15, <1>16
<1>18. T = {i \in DOMAIN s.open : Kind(OpenNodes(s)[i]) \in Barriers(query)}
  BY <1>1, <1>2, <1>7
<1>19. Receivers(s, Barriers(query)) = to
  <2>1. PICK S : S = Stops(s, Barriers(query)) /\ S = T
    BY <1>18 DEF Stops
  <2>2. Receivers(s, Barriers(query)) = {s.open[i] : i \in Max(S \cup {1}) .. Len(s.open)}
    BY <2>1 DEF Receivers
  <2>3. PICK first, last : first = Max(T \cup {1}) /\ last = Len(s.open)
    OBVIOUS
  <2>4. Receivers(s, Barriers(query)) = {s.open[i] : i \in first .. last}
    BY <2>1, <2>2, <2>3, Zenon
  <2>5. to = {s.open[i] : i \in first .. last}
    BY <1>2, <1>8, <2>3, Zenon
  <2> QED
    BY <2>4, <2>5
<1> QED
  BY <1>11, <1>17, <1>19

\* A frame after a node that may be one of its items.
Gather(c, query, n) == IF n \in FindAllInScope(c.node, Items(query)) THEN Append(c[query], n) ELSE c[query]

Gathered(c, n) ==
    [node |-> c.node, parent |-> c.parent, lets |-> Gather(c, "lets", n),
     subjects |-> Gather(c, "subjects", n), examples |-> Gather(c, "examples", n)]

\* Only items are found.
LEMMA FoundIsItem ==
    ASSUME NEW k, NEW items, NEW n \in FindAllInScope(k, items)
    PROVE  Kind(n) \in items /\ n \in Below(tree.parent, k) /\ n \in Nodes /\ k \in Over(n)
BY DEF FindAllInScope, Below, Over, Nodes

\* collect_let, collect_subject and collect_example.
LEMMA CollectIs ==
    ASSUME tree \in Shapes, NEW n \in Nodes, NEW s, RSpecTyped(s), OpenIs(s, FramedAbove(n)),
           ScopesAre(s, n - 1)
    PROVE  Collect(s, n) = [s EXCEPT !.scopes = [j \in 1 .. Len(s.scopes) |-> Gathered(s.scopes[j], n)]]
<1>1. DOMAIN s.scopes = 1 .. Len(s.scopes) /\ \A j \in 1 .. Len(s.scopes) : s.scopes[j] \in ScopeType
  BY DEF RSpecTyped
<1> DEFINE To(query) == Receivers(s, Barriers(query))
<1>2. ASSUME NEW query \in Queries, Kind(n) \in Items(query), NEW j \in 1 .. Len(s.scopes)
      PROVE  j \in To(query) <=> n \in FindAllInScope(s.scopes[j].node, Items(query))
  BY <1>2, HandedTo
<1>3. ASSUME NEW query \in Queries
      PROVE  Attribute(s, query, n, Barriers(query)) =
                [s EXCEPT !.scopes = Deliver(s.scopes, To(query), query, n)]
  BY DEF Attribute
<1> HIDE DEF To
<1>4. ASSUME NEW query \in Queries, Kind(n) \in Items(query), NEW j \in 1 .. Len(s.scopes)
      PROVE  (IF j \in To(query) THEN [s.scopes[j] EXCEPT ![query] = Append(s.scopes[j][query], n)]
              ELSE s.scopes[j]) = Gathered(s.scopes[j], n)
  <2>1. PICK c, found : c = s.scopes[j] /\ found = FindAllInScope(c.node, Items(query)) /\ c \in ScopeType
    BY <1>1
  <2>2. ASSUME NEW q \in Queries, q # query PROVE n \notin FindAllInScope(c.node, Items(q))
    <3>1. Kind(n) \notin Items(q)
      BY <1>4, <2>2 DEF Queries, Items, Lets, Bangs, Subjects, Examples
    <3> QED
      BY <3>1, FoundIsItem
  <2>3. j \in To(query) <=> n \in found
    BY <1>2, <1>4, <2>1
  <2>4. \A q \in Queries : Gather(c, q, n) = IF q = query /\ j \in To(query) THEN Append(c[q], n) ELSE c[q]
    BY <2>1, <2>2, <2>3 DEF Gather
  <2>5. CASE query = "lets"
    BY <2>1, <2>4, <2>5 DEF Gathered, ScopeType, Queries
  <2>6. CASE query = "subjects"
    BY <2>1, <2>4, <2>6 DEF Gathered, ScopeType, Queries
  <2>7. CASE query = "examples"
    BY <2>1, <2>4, <2>7 DEF Gathered, ScopeType, Queries
  <2> QED
    BY <2>5, <2>6, <2>7 DEF Queries
<1>5. ASSUME NEW query \in Queries, Kind(n) \in Items(query)
      PROVE  Attribute(s, query, n, Barriers(query)) =
                [s EXCEPT !.scopes = [j \in 1 .. Len(s.scopes) |-> Gathered(s.scopes[j], n)]]
  <2>1. Deliver(s.scopes, To(query), query, n) = [j \in 1 .. Len(s.scopes) |-> Gathered(s.scopes[j], n)]
    BY <1>1, <1>4, <1>5 DEF Deliver
  <2> QED
    BY <1>3, <2>1
<1>6. CASE \E query \in Queries : Kind(n) \in Items(query)
  <2>1. PICK query \in Queries : Kind(n) \in Items(query)
    BY <1>6
  <2>2. /\ Barriers("lets") = (ScopeChanges \cup Examples) \cup Lets
        /\ Barriers("subjects") = (ScopeChanges \cup Examples) \cup Subjects
        /\ Barriers("examples") = ScopeChanges \cup Examples
        /\ Items("lets") = Lets /\ Items("subjects") = Subjects /\ Items("examples") = Examples
    BY DEF Barriers, Items
  <2>3. /\ Kind(n) \in Lets => Kind(n) \notin Subjects \cup Examples
        /\ Kind(n) \in Subjects => Kind(n) \notin Examples
    BY DEF Lets, Bangs, Subjects, Examples
  <2>4. Collect(s, n) = Attribute(s, query, n, Barriers(query))
    BY <2>1, <2>2, <2>3 DEF Collect, Queries
  <2> QED
    BY <1>5, <2>1, <2>4
<1>7. CASE \A query \in Queries : Kind(n) \notin Items(query)
  <2>1. Kind(n) \notin Lets \cup Subjects \cup Examples
    BY <1>7 DEF Queries, Items
  <2>2. Collect(s, n) = s
    BY <2>1 DEF Collect
  <2>3. ASSUME NEW j \in 1 .. Len(s.scopes) PROVE Gathered(s.scopes[j], n) = s.scopes[j]
    <3>1. PICK c : c = s.scopes[j] /\ c \in ScopeType
      BY <1>1
    <3>2. \A q \in Queries : n \notin FindAllInScope(c.node, Items(q))
      BY <1>7, FoundIsItem
    <3>3. \A q \in Queries : Gather(c, q, n) = c[q]
      BY <3>2 DEF Gather
    <3> QED
      BY <3>1, <3>3 DEF Gathered, ScopeType, Queries
  <2>4. [j \in 1 .. Len(s.scopes) |-> Gathered(s.scopes[j], n)] = s.scopes
    BY <1>1, <2>3 DEF RSpecTyped
  <2>5. [s EXCEPT !.scopes = s.scopes] = s
    BY DEF RSpecTyped
  <2> QED
    BY <2>2, <2>4, <2>5
<1> QED
  BY <1>6, <1>7

\* What the stock cop finds from k among the first m nodes.
Found(k, query, m) == Filter(UpTo(m), FindAllInScope(k, Items(query)))

\* Every frame has its items among the first m nodes.
ContentsAre(s, m) ==
    \A j \in 1 .. Len(s.scopes) : \A query \in Queries :
        s.scopes[j][query] = Found(s.scopes[j].node, query, m)

\* The parent of a frame is the frame of the innermost call above.
ParentsAre(s) ==
    \A j \in 1 .. Len(s.scopes) :
        LET nodes == FramedAbove(s.scopes[j].node)
            up == s.scopes[j].parent
        IN  /\ up < j
            /\ IF nodes = <<>> THEN up = 0 ELSE up # 0 /\ s.scopes[up].node = Last(nodes)

\* The arena, for the first m nodes, filled from the first c.
Arena(s, nodes, m, c) ==
    RSpecTyped(s) /\ OpenIs(s, nodes) /\ ScopesAre(s, m) /\ ContentsAre(s, c) /\ ParentsAre(s)

SameArena(s, t) == t.open = s.open /\ t.scopes = s.scopes
SameRest(s, t) == /\ t.stack = s.stack /\ t.topSpecs = s.topSpecs /\ t.calls = s.calls
                  /\ t.named = s.named /\ t.variables = s.variables /\ t.lines = s.lines

\* One more number to keep or not.
LEMMA FilterUpTo ==
    ASSUME NEW n \in Nat \ {0}, NEW S
    PROVE  Filter(UpTo(n), S) = IF n \in S THEN Append(Filter(UpTo(n - 1), S), n) ELSE Filter(UpTo(n - 1), S)
<1>1. PICK k \in Nat : k = n - 1 /\ n = k + 1
  OBVIOUS
<1>2. UpTo(k) \in Seq(Nat) /\ UpTo(n) = Append(UpTo(k), n)
  <2>1. UpTo(k) \in Seq(1 .. k) /\ 1 .. k \subseteq Nat
    BY UpToIs
  <2>2. UpTo(k) \in Seq(Nat)
    BY <2>1, SeqMonotonic
  <2>3. UpTo(k + 1) = Append(UpTo(k), k + 1)
    BY UpToIs
  <2> QED
    BY <1>1, <2>2, <2>3
<1>3. PICK u : u = UpTo(k) /\ u \in Seq(Nat) /\ UpTo(n) = Append(u, n) /\ n \in Nat
  BY <1>2
<1>4. Filter(Append(u, n), S) = IF n \in S THEN Append(Filter(u, S), n) ELSE Filter(u, S)
  <2>1. u \in Seq(Nat)
    BY <1>3
  <2>2. n \in Nat
    BY <1>3
  <2> QED
    BY <2>1, <2>2, FilterAppend, Zenon
<1>5. UpTo(n - 1) = u /\ UpTo(n) = Append(u, n)
  BY <1>1, <1>3
<1> QED
  BY <1>4, <1>5, Zenon

\* What is kept of the first numbers has these elements.
LEMMA FilterUpToIs ==
    ASSUME NEW m \in Nat, NEW S
    PROVE  /\ Filter(UpTo(m), S) \in Seq(Nat) /\ Increasing(Filter(UpTo(m), S))
           /\ Elements(Filter(UpTo(m), S)) = 1 .. m \cap S
<1>1. UpTo(m) \in Seq(1 .. m) /\ 1 .. m \subseteq Nat /\ Increasing(UpTo(m)) /\ Elements(UpTo(m)) = 1 .. m
  BY UpToIs
<1>2. UpTo(m) \in Seq(Nat)
  BY <1>1, SeqMonotonic
<1> QED
  BY <1>1, <1>2, FilterType, FilterIncreasing, FilterElements

\* Nothing is kept.
LEMMA FilterNone ==
    ASSUME NEW m \in Nat, NEW S, 1 .. m \cap S = {}
    PROVE  Filter(UpTo(m), S) = <<>>
<1>1. PICK f : f = Filter(UpTo(m), S) /\ f \in Seq(Nat) /\ Elements(f) = {}
  BY FilterUpToIs
<1>2. Len(f) = 0
  <2>1. SUFFICES ASSUME 1 \in 1 .. Len(f) PROVE FALSE
    BY <1>1
  <2> QED
    BY <1>1, <2>1 DEF Elements
<1> QED
  BY <1>1, <1>2

\* The arena does not depend on the rest.
LEMMA ArenaSame ==
    ASSUME NEW s, NEW t, NEW nodes, NEW m, NEW c, Arena(s, nodes, m, c), RSpecTyped(t), SameArena(s, t)
    PROVE  Arena(t, nodes, m, c)
BY DEF Arena, OpenIs, OpenNodes, ScopesAre, ContentsAre, ParentsAre, SameArena

\* Each item comes to the frames that are to have it.
LEMMA CollectArena ==
    ASSUME tree \in Shapes, NEW n \in Nodes, NEW s, Arena(s, FramedAbove(n), n - 1, n - 1),
           NEW t, t = Collect(s, n)
    PROVE  Arena(t, FramedAbove(n), n - 1, n) /\ SameRest(s, t)
<1>1. n \in Nat \ {0} /\ n - 1 \in Nat
  BY TreeFacts
<1>2. RSpecTyped(s) /\ OpenIs(s, FramedAbove(n)) /\ ScopesAre(s, n - 1)
  BY DEF Arena
<1>3. PICK l \in Nat : l = Len(s.scopes) /\ DOMAIN s.scopes = 1 .. l
  BY <1>2, RSpecSequences
<1>4. PICK new : new = [j \in 1 .. l |-> Gathered(s.scopes[j], n)]
  OBVIOUS
<1>5. t = [s EXCEPT !.scopes = new]
  BY <1>2, <1>3, <1>4, CollectIs
<1>6. ASSUME NEW j \in 1 .. l
      PROVE  /\ s.scopes[j] \in ScopeType /\ new[j] \in ScopeType
             /\ new[j].node = s.scopes[j].node /\ new[j].parent = s.scopes[j].parent
             /\ \A query \in Queries : new[j][query] = Gather(s.scopes[j], query, n)
  <2>1. PICK c : c = s.scopes[j] /\ c \in ScopeType
    BY <1>2, <1>3 DEF RSpecTyped
  <2>2. new[j] = Gathered(c, n)
    BY <1>4, <2>1
  <2>3. ASSUME NEW query \in Queries PROVE Gather(c, query, n) \in Seq(Nat)
    <3>1. c[query] \in Seq(Nat)
      BY <2>1 DEF Queries, ScopeType
    <3> QED
      BY <1>1, <3>1 DEF Gather
  <2>4. Gathered(c, n) \in ScopeType
    BY <2>1, <2>3 DEF Gathered, ScopeType, Queries
  <2> QED
    BY <2>1, <2>2, <2>4 DEF Gathered, Queries
<1>7. new \in Seq(ScopeType) /\ Len(new) = l
  BY <1>4, <1>6
<1>8. RSpecTyped(t) /\ t.scopes = new /\ t.open = s.open /\ SameRest(s, t)
  BY <1>2, <1>5, <1>7 DEF RSpecTyped, SameRest
<1>9. OpenIs(t, FramedAbove(n))
  <2>1. s.open \in Seq(1 .. l) /\ OpenNodes(s) = FramedAbove(n)
    BY <1>2, <1>3 DEF OpenIs
  <2>2. \A i \in DOMAIN s.open : new[s.open[i]].node = s.scopes[s.open[i]].node
    BY <1>6, <2>1
  <2>3. OpenNodes(t) = OpenNodes(s)
    BY <1>8, <2>2 DEF OpenNodes
  <2> QED
    BY <1>7, <1>8, <2>1, <2>3 DEF OpenIs
<1>10. ScopesAre(t, n - 1)
  <2>1. [j \in 1 .. l |-> new[j].node] = [j \in 1 .. l |-> s.scopes[j].node]
    BY <1>6
  <2> QED
    BY <1>2, <1>3, <1>7, <1>8, <2>1 DEF ScopesAre
<1>11. ContentsAre(t, n)
  <2>1. ASSUME NEW j \in 1 .. l, NEW query \in Queries PROVE new[j][query] = Found(new[j].node, query, n)
    <3>1. PICK c, S : c = s.scopes[j] /\ S = FindAllInScope(c.node, Items(query))
      OBVIOUS
    <3>2. c[query] = Filter(UpTo(n - 1), S)
      BY <1>3, <2>1, <3>1 DEF Arena, ContentsAre, Found
    <3>3. Filter(UpTo(n), S) = IF n \in S THEN Append(Filter(UpTo(n - 1), S), n) ELSE Filter(UpTo(n - 1), S)
      BY <1>1, FilterUpTo
    <3>4. Gather(c, query, n) = Filter(UpTo(n), S)
      BY <3>1, <3>2, <3>3 DEF Gather
    <3> QED
      BY <1>6, <2>1, <3>1, <3>4 DEF Found
  <2> QED
    BY <1>7, <1>8, <2>1 DEF ContentsAre
<1>12. ParentsAre(t)
  <2>1. ParentsAre(s)
    BY DEF Arena
  <2>2. ASSUME NEW j \in 1 .. l
        PROVE  LET nodes == FramedAbove(new[j].node)
                   up == new[j].parent
               IN  /\ up < j
                   /\ IF nodes = <<>> THEN up = 0 ELSE up # 0 /\ new[up].node = Last(nodes)
    <3>1. PICK nodes, up : nodes = FramedAbove(s.scopes[j].node) /\ up = s.scopes[j].parent
      OBVIOUS
    <3>2. /\ up < j
          /\ IF nodes = <<>> THEN up = 0 ELSE up # 0 /\ s.scopes[up].node = Last(nodes)
      BY <1>3, <2>1, <2>2, <3>1 DEF ParentsAre
    <3>3. up \in Nat
      BY <1>6, <2>2, <3>1 DEF ScopeType
    <3>4. up # 0 => new[up].node = s.scopes[up].node
      BY <1>3, <1>6, <2>2, <3>2, <3>3
    <3> QED
      BY <1>6, <2>2, <3>1, <3>2, <3>4
  <2> QED
    BY <1>7, <1>8, <2>2 DEF ParentsAre
<1> QED
  BY <1>8, <1>9, <1>10, <1>11, <1>12 DEF Arena

\* The calls with an open frame once a node is entered.
FramedAfter(n) == IF Kind(n) \in Framed THEN Append(FramedAbove(n), n) ELSE FramedAbove(n)

\* A frame is opened for a call that gets one.
LEMMA OpenArena ==
    ASSUME tree \in Shapes, NEW n \in Nodes, NEW s, Arena(s, FramedAbove(n), n - 1, n),
           NEW t, t = OpenScope(s, n)
    PROVE  Arena(t, FramedAfter(n), n, n) /\ SameRest(s, t)
<1>1. n \in Nat \ {0} /\ n - 1 \in Nat
  BY TreeFacts
<1>2. PICK nodes : nodes = FramedAbove(n) /\ nodes \in Seq(Nodes)
  BY FramedAboveIs
<1>3. /\ RSpecTyped(s) /\ OpenIs(s, nodes) /\ ScopesAre(s, n - 1) /\ ContentsAre(s, n)
      /\ ParentsAre(s)
  BY <1>2 DEF Arena
<1>4. ScopesAre(s, n - 1) => [j \in 1 .. Len(s.scopes) |-> s.scopes[j].node] = Filter(UpTo(n - 1), FramedNodes)
  BY DEF ScopesAre
<1>5. Filter(UpTo(n), FramedNodes) = IF n \in FramedNodes THEN Append(Filter(UpTo(n - 1), FramedNodes), n)
                                     ELSE Filter(UpTo(n - 1), FramedNodes)
  BY <1>1, FilterUpTo
<1>6. n \in FramedNodes <=> Kind(n) \in Framed
  BY DEF FramedNodes
<1>7. CASE Kind(n) \notin Framed
  <2>1. t = s /\ FramedAfter(n) = nodes
    BY <1>2, <1>7 DEF OpenScope, FramedAfter
  <2>2. ScopesAre(t, n)
    BY <1>3, <1>4, <1>5, <1>6, <1>7, <2>1 DEF ScopesAre
  <2> QED
    BY <1>3, <2>1, <2>2 DEF Arena, SameRest
<1>8. CASE Kind(n) \in Framed
  <2>1. PICK l \in Nat, k \in Nat : /\ l = Len(s.scopes) /\ DOMAIN s.scopes = 1 .. l
                                    /\ k = Len(s.open) /\ DOMAIN s.open = 1 .. k
    BY <1>3, RSpecSequences
  <2>2. PICK open : open = s.open /\ open \in Seq(1 .. l) /\ Len(open) = k
    BY <1>3, <2>1 DEF OpenIs
  <2>3. Len(nodes) = k /\ \A i \in 1 .. k : nodes[i] = s.scopes[open[i]].node
    <3>1. nodes = [i \in 1 .. k |-> s.scopes[open[i]].node]
      BY <1>3, <2>1, <2>2 DEF OpenIs, OpenNodes
    <3> QED
      BY <1>2, <3>1
  <2>4. PICK up : up = IF open = <<>> THEN 0 ELSE Last(open)
    OBVIOUS
  <2>5. /\ up \in 0 .. l /\ (nodes = <<>> => up = 0)
        /\ nodes # <<>> => up # 0 /\ s.scopes[up].node = Last(nodes)
    <3>1. k = 0 => open = <<>> /\ nodes = <<>>
      BY <1>2, <2>2, <2>3
    <3>2. k # 0 => /\ k \in 1 .. k /\ open # <<>> /\ Last(open) = open[k] /\ Last(nodes) = nodes[k]
                   /\ open[k] \in 1 .. l
      BY <2>2, <2>3 DEF Last
    <3> QED
      BY <2>3, <2>4, <3>1, <3>2
  <2>6. PICK c, new : c = Scope(n, up) /\ new = Append(s.scopes, c)
    OBVIOUS
  <2>7. /\ c \in ScopeType /\ c.node = n /\ c.parent = up
        /\ \A query \in Queries : c[query] = <<>>
    BY <1>1, <2>5, <2>6 DEF Scope, ScopeType, Queries
  <2>8. t = [s EXCEPT !.scopes = new, !.open = Append(open, l + 1)]
    BY <1>8, <2>1, <2>2, <2>4, <2>6 DEF OpenScope
  <2>9. /\ new \in Seq(ScopeType) /\ Len(new) = l + 1 /\ new[l + 1] = c
        /\ \A j \in 1 .. l : new[j] = s.scopes[j]
    BY <1>3, <2>1, <2>6, <2>7 DEF RSpecTyped
  <2>10. PICK longer : longer = Append(open, l + 1)
    OBVIOUS
  <2>11. /\ longer \in Seq(1 .. l + 1) /\ longer \in Seq(Nat) /\ Len(longer) = k + 1 /\ longer[k + 1] = l + 1
         /\ \A i \in 1 .. k : longer[i] = open[i]
    <3>1. 1 .. l \subseteq 1 .. l + 1 /\ 1 .. l + 1 \subseteq Nat /\ l + 1 \in 1 .. l + 1
      OBVIOUS
    <3>2. open \in Seq(1 .. l + 1)
      BY <2>2, <3>1, SeqMonotonic
    <3>3. longer \in Seq(1 .. l + 1)
      BY <2>10, <3>1, <3>2
    <3>4. longer \in Seq(Nat)
      BY <3>1, <3>3, SeqMonotonic
    <3> QED
      BY <2>2, <2>10, <3>3, <3>4
  <2>12. RSpecTyped(t) /\ t.scopes = new /\ t.open = longer /\ SameRest(s, t)
    BY <1>3, <2>8, <2>9, <2>10, <2>11 DEF RSpecTyped, SameRest
  <2>13. OpenIs(t, Append(nodes, n))
    <3>1. ASSUME NEW i \in 1 .. k PROVE new[longer[i]].node = nodes[i]
      <4>1. longer[i] = open[i] /\ open[i] \in 1 .. l
        <5>1. longer[i] = open[i]
          BY <2>11, <3>1
        <5>2. PICK S : S = 1 .. l
          OBVIOUS
        <5>3. open \in Seq(S) /\ i \in 1 .. Len(open)
          BY <2>2, <3>1, <5>2
        <5> QED
          BY <5>1, <5>2, <5>3
      <4>2. new[open[i]] = s.scopes[open[i]]
        BY <2>9, <4>1
      <4> QED
        BY <2>3, <3>1, <4>1, <4>2
    <3>2. new[longer[k + 1]].node = n
      BY <2>7, <2>9, <2>11
    <3>3. DOMAIN longer = 1 .. k + 1
      BY <2>11
    <3>4. OpenNodes(t) = [i \in 1 .. k + 1 |-> new[longer[i]].node]
      BY <2>12, <3>3 DEF OpenNodes
    <3>5. PICK after : after = Append(nodes, n)
      OBVIOUS
    <3>6. after \in Seq(Nodes) /\ Len(after) = k + 1 /\ after[k + 1] = n /\ \A i \in 1 .. k : after[i] = nodes[i]
      BY <1>2, <2>3, <3>5
    <3>7. [i \in 1 .. k + 1 |-> new[longer[i]].node] = after
      BY <3>1, <3>2, <3>6
    <3> QED
      BY <2>9, <2>11, <2>12, <3>4, <3>5, <3>7 DEF OpenIs
  <2>14. ScopesAre(t, n)
    <3>1. PICK f : f = Filter(UpTo(n - 1), FramedNodes) /\ f \in Seq(Nat)
      BY <1>1, FilterUpToIs
    <3>2. f = [j \in 1 .. l |-> s.scopes[j].node]
      BY <1>3, <1>4, <2>1, <3>1
    <3>3. Len(f) = l /\ \A j \in 1 .. l : f[j] = s.scopes[j].node
      BY <3>1, <3>2
    <3>4. PICK g : g = Append(f, n)
      OBVIOUS
    <3>5. g \in Seq(Nat) /\ Len(g) = l + 1 /\ g[l + 1] = n /\ \A j \in 1 .. l : g[j] = f[j]
      BY <1>1, <3>1, <3>3, <3>4
    <3>6. \A j \in 1 .. l + 1 : new[j].node = g[j]
      BY <2>7, <2>9, <3>3, <3>5
    <3>7. [j \in 1 .. l + 1 |-> new[j].node] = g
      BY <3>5, <3>6
    <3> QED
      BY <1>5, <1>6, <1>8, <2>9, <2>12, <3>1, <3>4, <3>7 DEF ScopesAre
  <2>15. ContentsAre(t, n)
    <3>1. ASSUME NEW query \in Queries PROVE c[query] = Found(n, query, n)
      <4>1. ASSUME NEW x \in FindAllInScope(n, Items(query)) PROVE x \notin 1 .. n
        <5>1. x \in Nodes /\ n \in Over(x)
          BY <4>1, FoundIsItem
        <5>2. Over(x) \subseteq 1 .. x - 1 /\ x \in Nat
          BY <5>1, OverIs, TreeFacts
        <5> QED
          BY <1>1, <5>1, <5>2
      <4>2. 1 .. n \cap FindAllInScope(n, Items(query)) = {}
        BY <4>1
      <4>3. n \in Nat
        BY <1>1
      <4>4. Found(n, query, n) = <<>>
        BY <4>2, <4>3, FilterNone DEF Found
      <4> QED
        BY <2>7, <4>4
    <3>2. ASSUME NEW j \in 1 .. l + 1, NEW query \in Queries PROVE new[j][query] = Found(new[j].node, query, n)
      <4>1. CASE j = l + 1
        BY <2>7, <2>9, <3>1, <4>1
      <4>2. CASE j \in 1 .. l
        BY <1>3, <2>1, <2>9, <4>2 DEF ContentsAre
      <4> QED
        BY <4>1, <4>2
    <3> QED
      BY <2>9, <2>12, <3>2 DEF ContentsAre
  <2>16. ParentsAre(t)
    <3>1. ASSUME NEW j \in 1 .. l + 1
          PROVE  LET above == FramedAbove(new[j].node)
                     outer == new[j].parent
                 IN  /\ outer < j
                     /\ IF above = <<>> THEN outer = 0 ELSE outer # 0 /\ new[outer].node = Last(above)
      <4>1. CASE j = l + 1
        <5>1. new[j].node = n /\ new[j].parent = up
          BY <2>7, <2>9, <4>1
        <5>2. up # 0 => new[up] = s.scopes[up]
          BY <2>5, <2>9
        <5> QED
          BY <1>2, <2>5, <4>1, <5>1, <5>2
      <4>2. CASE j \in 1 .. l
        <5>1. PICK above, outer : above = FramedAbove(s.scopes[j].node) /\ outer = s.scopes[j].parent
          OBVIOUS
        <5>2. /\ outer < j
              /\ IF above = <<>> THEN outer = 0 ELSE outer # 0 /\ s.scopes[outer].node = Last(above)
          BY <1>3, <2>1, <4>2, <5>1 DEF ParentsAre
        <5>3. outer \in Nat
          <6>1. s.scopes[j] \in ScopeType
            BY <1>3, <2>1, <4>2 DEF RSpecTyped
          <6> QED
            BY <5>1, <6>1 DEF ScopeType
        <5>4. outer # 0 => new[outer] = s.scopes[outer]
          BY <2>9, <4>2, <5>2, <5>3
        <5> QED
          BY <2>9, <4>2, <5>1, <5>2, <5>4
      <4> QED
        BY <4>1, <4>2
    <3> QED
      BY <2>9, <2>12, <3>1 DEF ParentsAre
  <2>17. FramedAfter(n) = Append(nodes, n)
    BY <1>2, <1>8 DEF FramedAfter
  <2> QED
    BY <2>12, <2>13, <2>14, <2>15, <2>16, <2>17 DEF Arena
<1> QED
  BY <1>7, <1>8

TopKinds == SpecGroups \cup {"numGroup"}

\* The nodes above are inside a group at the top of the file.
InSpec(above) == Len(above) >= 2 /\ Kind(above[2]) \in TopKinds

IsNamed(k) == Kind(k) \in {"subjectRef", "subject"} /\ NamedSubject(FramedAbove(k))

IsCandidate(k) == VarDef(Kind(k)) # "nil" /\ InSpec(ParserAbove(k))

LinesAt(k) ==
    IF Kind(k) \in Roles THEN EmptyLineConcepts(Last(ParserAbove(k)), InSpec(ParserAbove(k)), k) ELSE {}

CallNodes == {k \in Nodes : Kind(k) = "callA"}

\* What is noted of the first m nodes.
FactsAre(s, m) ==
    /\ s.calls = Filter(UpTo(m), CallNodes)
    /\ s.named = {k \in 1 .. m : IsNamed(k)}
    /\ s.variables = {k \in 1 .. m : IsCandidate(k)}
    /\ s.lines = UNION {LinesAt(k) : k \in 1 .. m}

\* The entries of the nodes above.
StackIs(s, above) ==
    /\ Len(s.stack) = Len(above)
    /\ \A i \in 1 .. Len(above) :
          /\ s.stack[i].node = above[i]
          /\ s.stack[i].scope <=> Kind(above[i]) \in Framed
          /\ s.stack[i].top <=> i = 2 /\ Kind(above[i]) \in TopKinds
    /\ s.topSpecs = IF InSpec(above) THEN 1 ELSE 0

\* The root is above every other node.
LEMMA RootOver ==
    ASSUME tree \in Shapes, NEW n \in Nodes, n # 1
    PROVE  1 \in Over(n)
<1> DEFINE S == {i \in Nat : i \in Nodes /\ i # 1 => 1 \in Over(i)}
<1>1. ASSUME NEW i \in Nat, \A j \in Nat : j < i => j \in S
      PROVE  i \in S
  <2> SUFFICES ASSUME i \in Nodes, i # 1 PROVE 1 \in Over(i)
    OBVIOUS
  <2>1. PICK p : p = tree.parent /\ IsTree(p) /\ i \in 2 .. Len(p)
    BY TreeFacts DEF Nodes
  <2>2. p[i] \in 1 .. i - 1
    BY <2>1 DEF IsTree
  <2>3. PICK u : u = p[i] /\ u \in Nodes /\ u \in 1 .. i - 1 /\ Over(i) = Over(u) \cup {u}
    BY <2>1, <2>2, OverIs
  <2>4. u \in S /\ u \in Nat
    BY <1>1, <2>3
  <2> QED
    BY <2>3, <2>4
<1> HIDE DEF S
<1>2. \A i \in Nat : i \in S
  BY <1>1, NatSetStrong
<1>3. n \in Nat
  BY TreeFacts
<1> QED
  BY <1>2, <1>3 DEF S

\* A word of the language is below the program.
LEMMA RoleBelow ==
    ASSUME tree \in Shapes, NEW n \in Nodes, Kind(n) \in Roles
    PROVE  /\ tree.parent[n] # 0 /\ n # 1 /\ 1 \in Nodes /\ Kind(1) = "program"
           /\ Class(tree, 1) \in Branches
           /\ Len(ParserAbove(n)) \in Nat \ {0} /\ ParserAbove(n)[1] = 1
<1>1. RSpecPlaces(tree) /\ n \in DOMAIN tree.kind /\ tree.kind[n] \in Roles
  BY TreeFacts, RSpecPlacesAssumption DEF Kind
<1>2. tree.parent[n] # 0 /\ Kind(1) = "program"
  BY <1>1 DEF RSpecPlaces, Kind
<1>3. 1 \in Nodes /\ n # 1 /\ n \in Nat
  <2>1. IsTree(tree.parent) /\ n \in 1 .. Len(tree.parent)
    BY TreeFacts DEF Nodes
  <2> QED
    BY <1>2, <2>1, TreeFacts DEF IsTree
<1>4. Class(tree, 1) \in Branches
  <2>1. Kind(1) \in DOMAIN ClassOf
    BY <1>3, TreeFacts DEF Kind
  <2> QED
    BY <1>2, <2>1, RSpecKindsAssumption DEF Class, Kind
<1>5. PICK s : s = ParserAbove(n) /\ s \in Seq(Nodes) /\ Increasing(s) /\ Elements(s) = Over(n) \cap Kept(n)
  BY ParserOverIs
<1>6. 1 \in Elements(s)
  BY <1>3, <1>4, <1>5, RootOver DEF Kept
<1>7. PICK i \in 1 .. Len(s) : s[i] = 1
  BY <1>6 DEF Elements
<1>8. \A j \in 1 .. Len(s) : s[j] \in Nat /\ s[j] >= 1
  <2>1. PICK S : S = Nodes /\ S \subseteq Nat /\ \A k \in S : k >= 1
    BY TreeFacts
  <2>2. s \in Seq(S)
    BY <1>5, <2>1
  <2>3. \A j \in 1 .. Len(s) : s[j] \in S
    BY <2>2
  <2> QED
    BY <2>1, <2>3
<1>9. i = 1
  <2>1. SUFFICES ASSUME 1 < i PROVE FALSE
    BY <1>7
  <2>2. 1 \in 1 .. Len(s) /\ s[1] < s[i]
    BY <1>5, <1>7, <2>1 DEF Increasing
  <2> QED
    BY <1>7, <1>8, <2>2
<1> QED
  BY <1>2, <1>3, <1>4, <1>5, <1>7, <1>9

\* A node that is no word of the language brings nothing.
LEMMA OtherArena ==
    ASSUME tree \in Shapes, NEW n \in Nodes, Kind(n) \notin Roles, NEW s, NEW nodes,
           Arena(s, nodes, n - 1, n - 1)
    PROVE  Arena(s, nodes, n, n)
<1>1. n \in Nat \ {0}
  BY TreeFacts
<1>2. n \notin FramedNodes
  BY DEF FramedNodes, Framed
<1>3. ScopesAre(s, n)
  BY <1>1, <1>2, FilterUpTo DEF Arena, ScopesAre
<1>4. ASSUME NEW k, NEW query \in Queries PROVE Found(k, query, n) = Found(k, query, n - 1)
  <2>1. Kind(n) \notin Items(query)
    BY <1>4 DEF Queries, Items, Roles
  <2>2. n \notin FindAllInScope(k, Items(query))
    BY <2>1, FoundIsItem
  <2> QED
    BY <1>1, <2>2, FilterUpTo DEF Found
<1>5. ContentsAre(s, n)
  BY <1>4 DEF Arena, ContentsAre
<1> QED
  BY <1>3, <1>5 DEF Arena

\* What is noted does not depend on the rest.
LEMMA FactsSame ==
    ASSUME NEW s, NEW t, NEW m, FactsAre(s, m), t.calls = s.calls, t.named = s.named,
           t.variables = s.variables, t.lines = s.lines
    PROVE  FactsAre(t, m)
BY DEF FactsAre

\* One more node.
LEMMA FactsStep ==
    ASSUME tree \in Shapes, NEW n \in Nodes, NEW s, FactsAre(s, n - 1), NEW t,
           t.calls = IF Kind(n) = "callA" THEN Append(s.calls, n) ELSE s.calls,
           t.named = IF IsNamed(n) THEN s.named \cup {n} ELSE s.named,
           t.variables = IF IsCandidate(n) THEN s.variables \cup {n} ELSE s.variables,
           t.lines = s.lines \cup LinesAt(n)
    PROVE  FactsAre(t, n)
<1>1. n \in Nat \ {0}
  BY TreeFacts
<1>2. 1 .. n = 1 .. n - 1 \cup {n} /\ n \notin 1 .. n - 1
  BY <1>1
<1>3. t.calls = Filter(UpTo(n), CallNodes)
  <2>1. n \in CallNodes <=> Kind(n) = "callA"
    BY DEF CallNodes
  <2>2. s.calls = Filter(UpTo(n - 1), CallNodes)
    BY DEF FactsAre
  <2> QED
    BY <1>1, <2>1, <2>2, FilterUpTo, Zenon
<1>4. t.named = {k \in 1 .. n : IsNamed(k)}
  BY <1>2 DEF FactsAre
<1>5. t.variables = {k \in 1 .. n : IsCandidate(k)}
  BY <1>2 DEF FactsAre
<1>6. t.lines = UNION {LinesAt(k) : k \in 1 .. n}
  <2>1. {LinesAt(k) : k \in 1 .. n} = {LinesAt(k) : k \in 1 .. n - 1} \cup {LinesAt(n)}
    BY <1>2
  <2> QED
    BY <2>1 DEF FactsAre
<1> QED
  BY <1>3, <1>4, <1>5, <1>6 DEF FactsAre

\* The innermost frame and the top-level groups, from the stack.
LEMMA StackGives ==
    ASSUME NEW s, RSpecTyped(s), NEW above, StackIs(s, above)
    PROVE  /\ s.topSpecs > 0 <=> InSpec(above)
           /\ Len(above) \in Nat \ {0} => Last(s.stack).node = Last(above)
<1>1. s.topSpecs > 0 <=> InSpec(above)
  BY DEF StackIs
<1>2. ASSUME Len(above) \in Nat \ {0} PROVE Last(s.stack).node = Last(above)
  <2>1. Len(s.stack) = Len(above) /\ Len(above) \in 1 .. Len(above)
    BY <1>2 DEF StackIs
  <2> QED
    BY <2>1 DEF StackIs, Last
<1> QED
  BY <1>1, <1>2

\* The concepts of a node.
LEMMA LinesAre ==
    ASSUME tree \in Shapes, NEW n \in Nodes, Kind(n) \in Roles, NEW s, RSpecTyped(s),
           StackIs(s, ParserAbove(n))
    PROVE  EmptyLineConcepts(Last(s.stack).node, s.topSpecs > 0, n) = LinesAt(n)
<1>1. PICK above : above = ParserAbove(n) /\ Len(above) \in Nat \ {0}
  BY RoleBelow
<1>2. Last(s.stack).node = Last(above) /\ (s.topSpecs > 0 <=> InSpec(above))
  BY <1>1, StackGives
<1>3. PICK a, b, f : a = (s.topSpecs > 0) /\ b = InSpec(above) /\ f = Last(above)
  OBVIOUS
<1>4. a = b
  BY <1>2, <1>3 DEF InSpec
<1>5. EmptyLineConcepts(f, a, n) = EmptyLineConcepts(f, b, n)
  BY <1>4
<1> QED
  BY <1>1, <1>2, <1>3, <1>5 DEF LinesAt

\* What is noted of a call before its frame opens.
Referred(s, n) ==
    [s EXCEPT !.calls = IF Kind(n) = "callA" THEN Append(@, n) ELSE @,
              !.named = IF Kind(n) \in {"subjectRef", "subject"} /\ NamedSubject(OpenNodes(s))
                        THEN @ \cup {n} ELSE @]

\* The calls and the references to the subject, and nothing else.
AddsReferences(s, r, n) ==
    /\ RSpecTyped(r) /\ SameArena(s, r)
    /\ r.stack = s.stack /\ r.topSpecs = s.topSpecs
    /\ r.variables = s.variables /\ r.lines = s.lines
    /\ r.calls = IF Kind(n) = "callA" THEN Append(s.calls, n) ELSE s.calls
    /\ r.named = IF IsNamed(n) THEN s.named \cup {n} ELSE s.named

\* That is what a call adds to what the rule has collected of references.
LEMMA ReferredIs ==
    ASSUME tree \in Shapes, NEW n \in Nodes, NEW s, RSpecTyped(s), OpenIs(s, FramedAbove(n)),
           NEW r, r = Referred(s, n)
    PROVE  AddsReferences(s, r, n)
<1>1. n \in Nat
  BY TreeFacts
<1>2. OpenNodes(s) = FramedAbove(n)
  BY DEF OpenIs
<1>3. PICK calls, named :
         /\ calls = IF Kind(n) = "callA" THEN Append(s.calls, n) ELSE s.calls
         /\ named = IF IsNamed(n) THEN s.named \cup {n} ELSE s.named
  OBVIOUS
<1>4. calls \in Seq(Nat) /\ named \in SUBSET Nat
  BY <1>1, <1>3 DEF RSpecTyped
<1>5. r = [s EXCEPT !.calls = calls, !.named = named]
  BY <1>2, <1>3 DEF Referred, IsNamed
<1>6. RSpecTyped(r)
  BY <1>4, <1>5 DEF RSpecTyped
<1>7. r.calls = calls /\ r.named = named
  BY <1>5 DEF RSpecTyped
<1>8. /\ r.open = s.open /\ r.scopes = s.scopes /\ r.stack = s.stack /\ r.topSpecs = s.topSpecs
      /\ r.variables = s.variables /\ r.lines = s.lines
  BY <1>5 DEF RSpecTyped
<1> QED
  BY <1>3, <1>6, <1>7, <1>8, Zenon DEF SameArena, AddsReferences

\* handle_call
LEMMA HandleCallIs ==
    ASSUME tree \in Shapes, NEW n \in Nodes, NEW s, Arena(s, FramedAbove(n), n - 1, n - 1),
           FactsAre(s, n - 1), StackIs(s, ParserAbove(n)), NEW t, t = HandleCall(s, n)
    PROVE  /\ Arena(t, FramedAfter(n), n, n) /\ FactsAre(t, n)
           /\ t.stack = s.stack /\ t.topSpecs = s.topSpecs
<1>1. n \in Nat
  BY TreeFacts
<1>2. RSpecTyped(s) /\ OpenIs(s, FramedAbove(n))
  BY DEF Arena
<1>3. PICK r : r = Referred(s, n)
  OBVIOUS
<1>4. /\ RSpecTyped(r) /\ SameArena(s, r)
      /\ r.stack = s.stack /\ r.topSpecs = s.topSpecs
      /\ r.variables = s.variables /\ r.lines = s.lines
      /\ r.calls = IF Kind(n) = "callA" THEN Append(s.calls, n) ELSE s.calls
      /\ r.named = IF IsNamed(n) THEN s.named \cup {n} ELSE s.named
  <2>1. AddsReferences(s, r, n)
    BY <1>2, <1>3, ReferredIs
  <2> QED
    BY <2>1 DEF AddsReferences
<1>5. Arena(r, FramedAbove(n), n - 1, n - 1)
  BY <1>4, ArenaSame
<1>6. CASE Kind(n) \notin Roles
  <2>1. t = r
    BY <1>3, <1>6 DEF HandleCall, Referred
  <2>2. FramedAfter(n) = FramedAbove(n)
    BY <1>6 DEF FramedAfter, Framed
  <2>3. ~IsCandidate(n) /\ LinesAt(n) = {}
    <3>1. VarDef(Kind(n)) = "nil"
      BY <1>6 DEF VarDef, Roles, Lets, Bangs, Subjects
    <3> QED
      BY <1>6, <3>1 DEF IsCandidate, LinesAt
  <2>4. FactsAre(t, n)
    <3>1. t.variables = IF IsCandidate(n) THEN s.variables \cup {n} ELSE s.variables
      BY <1>4, <2>1, <2>3
    <3>2. t.lines = s.lines \cup LinesAt(n)
      BY <1>4, <2>1, <2>3
    <3> QED
      BY <1>4, <2>1, <3>1, <3>2, FactsStep
  <2>5. Arena(r, FramedAbove(n), n, n)
    BY <1>5, <1>6, OtherArena
  <2> QED
    BY <1>4, <2>1, <2>2, <2>4, <2>5
<1>7. CASE Kind(n) \in Roles
  <2>1. PICK c : c = Collect(r, n)
    OBVIOUS
  <2>2. Arena(c, FramedAbove(n), n - 1, n) /\ SameRest(r, c)
    BY <1>5, <2>1, CollectArena
  <2>3. PICK o : o = OpenScope(c, n)
    OBVIOUS
  <2>4. Arena(o, FramedAfter(n), n, n) /\ SameRest(c, o)
    BY <2>2, <2>3, OpenArena
  <2>5. PICK variables, lines :
           /\ variables = IF s.topSpecs > 0 /\ VarDef(Kind(n)) # "nil" THEN o.variables \cup {n} ELSE o.variables
           /\ lines = o.lines \cup EmptyLineConcepts(Last(s.stack).node, s.topSpecs > 0, n)
    OBVIOUS
  <2>6. t = [o EXCEPT !.variables = variables, !.lines = lines]
    BY <1>3, <1>7, <2>1, <2>3, <2>5 DEF HandleCall, Referred
  <2>7. RSpecTyped(o)
    BY <2>4 DEF Arena
  <2>8. variables \in SUBSET Nat
    BY <1>1, <2>5, <2>7 DEF RSpecTyped
  <2>9. /\ RSpecTyped(t) /\ SameArena(o, t) /\ t.stack = o.stack /\ t.topSpecs = o.topSpecs
        /\ t.calls = o.calls /\ t.named = o.named /\ t.variables = variables /\ t.lines = lines
    BY <2>6, <2>7, <2>8 DEF RSpecTyped, SameArena
  <2>10. Arena(t, FramedAfter(n), n, n)
    BY <2>4, <2>9, ArenaSame
  <2>11. /\ o.stack = s.stack /\ o.topSpecs = s.topSpecs /\ o.calls = r.calls /\ o.named = r.named
         /\ o.variables = s.variables /\ o.lines = s.lines
    BY <1>4, <2>2, <2>4 DEF SameRest
  <2>12. s.topSpecs > 0 /\ VarDef(Kind(n)) # "nil" <=> IsCandidate(n)
    BY <1>2, StackGives DEF IsCandidate
  <2>13. lines = s.lines \cup LinesAt(n)
    BY <1>2, <1>7, <2>5, <2>11, LinesAre
  <2>14. variables = IF IsCandidate(n) THEN s.variables \cup {n} ELSE s.variables
    BY <2>5, <2>11, <2>12
  <2>15. FactsAre(t, n)
    BY <1>4, <2>9, <2>11, <2>13, <2>14, FactsStep
  <2> QED
    BY <2>9, <2>10, <2>11, <2>15
<1> QED
  BY <1>6, <1>7

\* What holds of the rule when the first m nodes are entered and these are above.
RSpecInvAt(s, above, m) == Arena(s, Filter(above, FramedNodes), m, m) /\ FactsAre(s, m) /\ StackIs(s, above)

\* The open frames below a node.
LEMMA FramedAfterIs ==
    ASSUME tree \in Shapes, NEW n \in Nodes
    PROVE  Filter(Append(ParserAbove(n), n), FramedNodes) = FramedAfter(n)
<1>1. PICK s : s = ParserAbove(n) /\ s \in Seq(Nodes)
  BY ParserOverIs
<1>2. Filter(Append(s, n), FramedNodes) = IF n \in FramedNodes THEN Append(Filter(s, FramedNodes), n)
                                          ELSE Filter(s, FramedNodes)
  BY <1>1, FilterAppend
<1>3. n \in FramedNodes <=> Kind(n) \in Framed
  BY DEF FramedNodes
<1> QED
  BY <1>1, <1>2, <1>3 DEF FramedAfter, FramedAbove

\* A node that is no call is none of those the rule looks for.
LEMMA NoCall ==
    ASSUME tree \in Shapes, NEW n \in Nodes, Class(tree, n) # "call"
    PROVE  Kind(n) \notin Roles \cup {"callA", "subjectRef"}
BY RoleIsCall

\* Nothing is noted of such a node.
LEMMA OtherNode ==
    ASSUME tree \in Shapes, NEW n \in Nodes, Class(tree, n) # "call",
           NEW s, Arena(s, FramedAbove(n), n - 1, n - 1), FactsAre(s, n - 1)
    PROVE  Arena(s, FramedAbove(n), n, n) /\ FactsAre(s, n)
<1>1. Kind(n) \notin Roles \cup {"callA", "subjectRef"}
  BY NoCall
<1>2. Arena(s, FramedAbove(n), n, n)
  BY <1>1, OtherArena
<1>3. VarDef(Kind(n)) = "nil"
  BY <1>1 DEF VarDef, Roles, Lets, Bangs, Subjects
<1>4. ~IsNamed(n) /\ ~IsCandidate(n) /\ LinesAt(n) = {} /\ Kind(n) # "callA"
  BY <1>1, <1>3 DEF IsNamed, IsCandidate, LinesAt, Roles, Subjects
<1>5. s.lines = s.lines \cup LinesAt(n)
  BY <1>4
<1>6. /\ s.calls = IF Kind(n) = "callA" THEN Append(s.calls, n) ELSE s.calls
      /\ s.named = IF IsNamed(n) THEN s.named \cup {n} ELSE s.named
      /\ s.variables = IF IsCandidate(n) THEN s.variables \cup {n} ELSE s.variables
  BY <1>4
<1>7. FactsAre(s, n)
  BY <1>5, <1>6, FactsStep
<1> QED
  BY <1>2, <1>7

Entries == [node : Nat, scope : BOOLEAN, top : BOOLEAN]

IsTop(n, above) == Len(above) = 1 /\ Kind(n) \in TopKinds

\* The entry of a node below these.
EntryIs(e, n, above) ==
    /\ e \in Entries /\ e.node = n
    /\ e.scope <=> Kind(n) \in Framed
    /\ e.top <=> IsTop(n, above)

\* The path grows by a node.
LEMMA InSpecAppend ==
    ASSUME NEW n \in Nodes, NEW above \in Seq(Nodes)
    PROVE  /\ InSpec(Append(above, n)) <=> InSpec(above) \/ IsTop(n, above)
           /\ ~(InSpec(above) /\ IsTop(n, above))
<1>1. PICK new : new = Append(above, n)
  OBVIOUS
<1>2. PICK l : l = Len(above)
  OBVIOUS
<1>3. l \in Nat /\ Len(new) = l + 1 /\ new[l + 1] = n /\ \A i \in 1 .. l : new[i] = above[i]
  BY <1>1, <1>2
<1>4. CASE l >= 2
  BY <1>1, <1>2, <1>3, <1>4 DEF InSpec, IsTop
<1>5. CASE l = 1
  BY <1>1, <1>2, <1>3, <1>5 DEF InSpec, IsTop
<1>6. CASE l = 0
  BY <1>1, <1>2, <1>3, <1>6 DEF InSpec, IsTop
<1> QED
  BY <1>3, <1>4, <1>5, <1>6

\* So does the stack.
LEMMA StackPush ==
    ASSUME NEW n \in Nodes, NEW above \in Seq(Nodes), NEW s, s.stack \in Seq(Entries),
           StackIs(s, above), NEW e, EntryIs(e, n, above), NEW t, t.stack = Append(s.stack, e),
           t.topSpecs = IF IsTop(n, above) THEN s.topSpecs + 1 ELSE s.topSpecs
    PROVE  StackIs(t, Append(above, n))
<1>1. PICK new, l : new = Append(above, n) /\ l = Len(above)
  OBVIOUS
<1>2. l \in Nat /\ Len(new) = l + 1 /\ new[l + 1] = n /\ \A i \in 1 .. l : new[i] = above[i]
  BY <1>1
<1>3. Len(s.stack) = l /\ \A i \in 1 .. l : /\ s.stack[i].node = above[i]
                                            /\ s.stack[i].scope <=> Kind(above[i]) \in Framed
                                            /\ s.stack[i].top <=> i = 2 /\ Kind(above[i]) \in TopKinds
  BY <1>1 DEF StackIs
<1>4. PICK st : st = t.stack
  OBVIOUS
<1>5. e \in Entries
  BY DEF EntryIs
<1>6. Len(st) = l + 1 /\ st[l + 1] = e /\ \A i \in 1 .. l : st[i] = s.stack[i]
  BY <1>3, <1>4, <1>5
<1>7. ASSUME NEW i \in 1 .. l + 1
      PROVE  /\ st[i].node = new[i]
             /\ st[i].scope <=> Kind(new[i]) \in Framed
             /\ st[i].top <=> i = 2 /\ Kind(new[i]) \in TopKinds
  <2>1. CASE i = l + 1
    <3>1. st[i] = e /\ new[i] = n /\ (l = 1 <=> i = 2)
      BY <1>2, <1>6, <2>1
    <3> QED
      BY <1>1, <3>1 DEF EntryIs, IsTop
  <2>2. CASE i \in 1 .. l
    <3>1. st[i] = s.stack[i] /\ new[i] = above[i]
      BY <1>2, <1>6, <2>2
    <3> QED
      BY <1>3, <2>2, <3>1
  <2> QED
    BY <1>2, <2>1, <2>2
<1>8. s.topSpecs = IF InSpec(above) THEN 1 ELSE 0
  BY DEF StackIs
<1>9. /\ InSpec(new) <=> InSpec(above) \/ IsTop(n, above)
      /\ ~(InSpec(above) /\ IsTop(n, above))
  BY <1>1, InSpecAppend
<1>10. t.topSpecs = IF InSpec(new) THEN 1 ELSE 0
  BY <1>8, <1>9
<1> QED
  BY <1>1, <1>2, <1>4, <1>6, <1>7, <1>10 DEF StackIs

\* The rest stays.
FrameAdded(s, t, e, n, above) ==
    /\ RSpecTyped(t) /\ SameArena(s, t)
    /\ t.calls = s.calls /\ t.named = s.named /\ t.variables = s.variables /\ t.lines = s.lines
    /\ t.stack = Append(s.stack, e)
    /\ t.topSpecs = IF IsTop(n, above) THEN s.topSpecs + 1 ELSE s.topSpecs

\* The node is entered.
LEMMA Framing ==
    ASSUME tree \in Shapes, NEW n \in Nodes, NEW above, above = ParserAbove(n),
           NEW s, Arena(s, FramedAfter(n), n, n), FactsAre(s, n), StackIs(s, above),
           NEW e, EntryIs(e, n, above), NEW t, FrameAdded(s, t, e, n, above)
    PROVE  RSpecInvAt(t, Append(above, n), n)
<1>1. above \in Seq(Nodes) /\ s.stack \in Seq(Entries)
  BY ParserOverIs DEF Arena, RSpecTyped, Entries
<1>2. StackIs(t, Append(above, n))
  BY <1>1, StackPush DEF FrameAdded
<1>3. Arena(t, FramedAfter(n), n, n)
  BY ArenaSame DEF FrameAdded
<1>4. FactsAre(t, n)
  BY FactsSame DEF FrameAdded
<1> QED
  BY <1>2, <1>3, <1>4, FramedAfterIs DEF RSpecInvAt

\* enter
LEMMA RSpecVisit ==
    ASSUME tree \in Shapes, NEW n \in Nodes, NEW s, RSpecInvAt(s, ParserAbove(n), n - 1)
    PROVE  RSpecInvAt(WithFrame(s, n), Append(ParserAbove(n), n), n)
<1>1. PICK above : above = ParserAbove(n)
  OBVIOUS
<1>2. Arena(s, FramedAbove(n), n - 1, n - 1) /\ FactsAre(s, n - 1) /\ StackIs(s, above) /\ n \in Nat
  BY <1>1, TreeFacts DEF RSpecInvAt, FramedAbove
<1>3. PICK t : t = IF Class(tree, n) = "call" THEN HandleCall(s, n) ELSE s
  OBVIOUS
<1>4. /\ Arena(t, FramedAfter(n), n, n) /\ FactsAre(t, n)
      /\ t.stack = s.stack /\ t.topSpecs = s.topSpecs
  <2>1. CASE Class(tree, n) = "call"
    BY <1>1, <1>2, <1>3, <2>1, HandleCallIs
  <2>2. CASE Class(tree, n) # "call"
    <3>1. Arena(s, FramedAbove(n), n, n) /\ FactsAre(s, n)
      BY <1>2, <2>2, OtherNode
    <3>2. FramedAfter(n) = FramedAbove(n)
      BY <2>2, NoCall DEF FramedAfter, Framed
    <3> QED
      BY <1>3, <2>2, <3>1, <3>2
  <2> QED
    BY <2>1, <2>2
<1>5. RSpecTyped(t) /\ RSpecTyped(s) /\ StackIs(t, above)
  BY <1>2, <1>4 DEF Arena, StackIs
<1>6. PICK e, d : /\ e = [node |-> n, scope |-> Kind(n) \in Framed, top |-> TopSpec(s, n)]
                  /\ d = t.topSpecs + IF TopSpec(s, n) THEN 1 ELSE 0
  OBVIOUS
<1>7. TopSpec(s, n) <=> IsTop(n, above)
  BY <1>2 DEF TopSpec, StackIs, TopKinds, IsTop
<1>8. EntryIs(e, n, above)
  <2>1. TopSpec(s, n) \in BOOLEAN /\ (Kind(n) \in Framed) \in BOOLEAN
    BY DEF TopSpec
  <2> QED
    BY <1>2, <1>6, <1>7, <2>1 DEF EntryIs, Entries
<1>9. d \in Nat /\ d = IF IsTop(n, above) THEN t.topSpecs + 1 ELSE t.topSpecs
  <2>1. t.topSpecs \in Nat
    BY <1>5 DEF RSpecTyped
  <2> QED
    BY <1>6, <1>7, <2>1
<1>10. PICK u : u = WithFrame(s, n)
  OBVIOUS
<1>11. u = [t EXCEPT !.topSpecs = d, !.stack = Append(t.stack, e)]
  BY <1>3, <1>6, <1>10 DEF WithFrame
<1>12. Append(t.stack, e) \in Seq(Entries)
  BY <1>5, <1>8 DEF RSpecTyped, EntryIs, Entries
<1>13. FrameAdded(t, u, e, n, above)
  BY <1>5, <1>9, <1>11, <1>12 DEF RSpecTyped, SameArena, FrameAdded, Entries
<1> QED
  BY <1>1, <1>4, <1>5, <1>8, <1>10, <1>13, Framing

\* enter_rescue
LEMMA RSpecVisitClause ==
    ASSUME tree \in Shapes, NEW n \in Nodes, Class(tree, n) = "rescue", NEW s,
           RSpecInvAt(s, ParserAbove(n), n - 1)
    PROVE  RSpecInvAt(WithClause(s, n), Append(ParserAbove(n), n), n)
<1>1. PICK above : above = ParserAbove(n)
  OBVIOUS
<1>2. Arena(s, FramedAbove(n), n - 1, n - 1) /\ FactsAre(s, n - 1) /\ StackIs(s, above) /\ n \in Nat
  BY <1>1, TreeFacts DEF RSpecInvAt, FramedAbove
<1>3. Kind(n) \notin Framed /\ ~IsTop(n, above)
  BY NoCall DEF Framed, IsTop, TopKinds, Roles
<1>4. Arena(s, FramedAbove(n), n, n) /\ FactsAre(s, n) /\ FramedAfter(n) = FramedAbove(n)
  BY <1>2, <1>3, OtherNode DEF FramedAfter
<1>5. RSpecTyped(s)
  BY <1>2 DEF Arena
<1>6. PICK e : e = [node |-> n, scope |-> FALSE, top |-> FALSE]
  OBVIOUS
<1>7. EntryIs(e, n, above)
  BY <1>2, <1>3, <1>6 DEF EntryIs, Entries
<1>8. PICK u : u = WithClause(s, n)
  OBVIOUS
<1>9. u = [s EXCEPT !.stack = Append(s.stack, e)]
  BY <1>6, <1>8 DEF WithClause
<1>10. Append(s.stack, e) \in Seq(Entries)
  BY <1>5, <1>7 DEF RSpecTyped, EntryIs, Entries
<1>11. FrameAdded(s, u, e, n, above)
  BY <1>3, <1>5, <1>9, <1>10 DEF RSpecTyped, SameArena, FrameAdded, Entries
<1> QED
  BY <1>1, <1>2, <1>4, <1>7, <1>8, <1>11, Framing

\* enter_leaf, and where no hook tells of the node.
LEMMA RSpecSkip ==
    ASSUME tree \in Shapes, NEW n \in Nodes, Class(tree, n) \in {"leaf", "direct"}, NEW s,
           RSpecInvAt(s, ParserAbove(n), n - 1)
    PROVE  RSpecInvAt(s, ParserAbove(n), n)
<1>1. Arena(s, FramedAbove(n), n - 1, n - 1) /\ FactsAre(s, n - 1)
  BY DEF RSpecInvAt, FramedAbove
<1>2. Arena(s, FramedAbove(n), n, n) /\ FactsAre(s, n)
  BY <1>1, OtherNode
<1> QED
  BY <1>2 DEF RSpecInvAt, FramedAbove

\* The stack without the entry of the node.
LEMMA StackPop ==
    ASSUME NEW n \in Nodes, NEW above \in Seq(Nodes), NEW s, s.stack \in Seq(Entries),
           StackIs(s, Append(above, n)), NEW t, t.stack = Front(s.stack),
           t.topSpecs = IF IsTop(n, above) THEN s.topSpecs - 1 ELSE s.topSpecs
    PROVE  StackIs(t, above) /\ EntryIs(Last(s.stack), n, above) /\ t.stack \in Seq(Entries)
<1>1. PICK new, l : new = Append(above, n) /\ l = Len(above)
  OBVIOUS
<1>2. l \in Nat /\ Len(new) = l + 1 /\ new[l + 1] = n /\ \A i \in 1 .. l : new[i] = above[i]
  BY <1>1
<1>3. PICK st : st = s.stack
  OBVIOUS
<1>4. /\ Len(st) = l + 1
      /\ \A i \in 1 .. l + 1 : /\ st[i].node = new[i]
                               /\ st[i].scope <=> Kind(new[i]) \in Framed
                               /\ st[i].top <=> i = 2 /\ Kind(new[i]) \in TopKinds
  BY <1>1, <1>2, <1>3 DEF StackIs
<1>5. PICK fr : fr = t.stack
  OBVIOUS
<1>6. fr \in Seq(Entries) /\ Len(fr) = l /\ \A i \in 1 .. l : fr[i] = st[i]
  BY <1>2, <1>3, <1>4, <1>5 DEF Front
<1>7. PICK e : e = Last(st) /\ e = st[l + 1] /\ e \in Entries
  BY <1>2, <1>3, <1>4 DEF Last
<1>8. EntryIs(e, n, above)
  <2>1. l + 1 \in 1 .. l + 1 /\ (l + 1 = 2 <=> l = 1)
    BY <1>2
  <2> QED
    BY <1>1, <1>2, <1>4, <1>7, <2>1 DEF EntryIs, IsTop
<1>9. \A i \in 1 .. l : /\ fr[i].node = above[i]
                        /\ fr[i].scope <=> Kind(above[i]) \in Framed
                        /\ fr[i].top <=> i = 2 /\ Kind(above[i]) \in TopKinds
  BY <1>2, <1>4, <1>6
<1>10. s.topSpecs = IF InSpec(new) THEN 1 ELSE 0
  BY <1>1 DEF StackIs
<1>11. /\ InSpec(new) <=> InSpec(above) \/ IsTop(n, above)
       /\ ~(InSpec(above) /\ IsTop(n, above))
  BY <1>1, InSpecAppend
<1>12. t.topSpecs = IF InSpec(above) THEN 1 ELSE 0
  BY <1>10, <1>11
<1> QED
  BY <1>1, <1>3, <1>5, <1>6, <1>7, <1>8, <1>9, <1>12 DEF StackIs

\* leave
LEMMA RSpecPop ==
    ASSUME tree \in Shapes, NEW n \in Nodes, NEW s, NEW m,
           RSpecInvAt(s, Append(ParserAbove(n), n), m)
    PROVE  RSpecInvAt(WithoutFrame(s), ParserAbove(n), m)
<1>1. PICK above, nodes : /\ above = ParserAbove(n) /\ above \in Seq(Nodes)
                          /\ nodes = FramedAbove(n) /\ nodes \in Seq(Nodes)
  BY ParserOverIs, FramedAboveIs
<1>2. Arena(s, FramedAfter(n), m, m) /\ FactsAre(s, m) /\ StackIs(s, Append(above, n))
  BY <1>1, FramedAfterIs DEF RSpecInvAt
<1>3. RSpecTyped(s) /\ s.stack \in Seq(Entries) /\ OpenIs(s, FramedAfter(n))
  BY <1>2 DEF Arena, RSpecTyped, Entries
<1>4. PICK t, e, top : t = WithoutFrame(s) /\ e = Last(s.stack) /\ top = IsTop(n, above)
  OBVIOUS
<1>5. PICK d, open, st :
         /\ d = s.topSpecs - IF e.top THEN 1 ELSE 0
         /\ open = IF e.scope THEN Front(s.open) ELSE s.open
         /\ st = Front(s.stack)
  OBVIOUS
<1>6. t = [s EXCEPT !.stack = st, !.open = open, !.topSpecs = d]
  BY <1>4, <1>5 DEF WithoutFrame
<1>7. t.stack = st /\ t.topSpecs = d
  BY <1>3, <1>6 DEF RSpecTyped
<1>8. PICK u : u = [stack |-> st, topSpecs |-> IF IsTop(n, above) THEN s.topSpecs - 1 ELSE s.topSpecs]
  OBVIOUS
<1>9. StackIs(u, above) /\ EntryIs(e, n, above) /\ st \in Seq(Entries)
  BY <1>1, <1>2, <1>3, <1>4, <1>5, <1>8, StackPop
<1>10. s.topSpecs \in Nat
  BY <1>3 DEF RSpecTyped
<1>11. d = u.topSpecs /\ d \in Nat
  <2>1. d = IF IsTop(n, above) THEN s.topSpecs - 1 ELSE s.topSpecs
    BY <1>5, <1>9, <1>10 DEF EntryIs
  <2>2. u.topSpecs \in Nat
    BY <1>9 DEF StackIs
  <2> QED
    BY <1>8, <2>1, <2>2
<1>12. StackIs(t, above)
  BY <1>7, <1>8, <1>9, <1>11 DEF StackIs
<1>13. PICK k : k = Len(nodes) /\ k \in Nat
  BY <1>1
<1>14. s.open \in Seq(1 .. Len(s.scopes)) /\ OpenNodes(s) = FramedAfter(n) /\ Len(s.scopes) \in Nat
  BY <1>3 DEF OpenIs, RSpecTyped
<1>15. open \in Seq(1 .. Len(s.scopes)) /\ open \in Seq(Nat)
       /\ [i \in DOMAIN open |-> s.scopes[open[i]].node] = nodes
  <2>1. CASE Kind(n) \notin Framed
    <3>1. open = s.open /\ FramedAfter(n) = nodes
      BY <1>1, <1>5, <1>9, <2>1 DEF EntryIs, FramedAfter
    <3> QED
      BY <1>3, <1>14, <3>1 DEF OpenNodes, RSpecTyped
  <2>2. CASE Kind(n) \in Framed
    <3>1. open = Front(s.open) /\ FramedAfter(n) = Append(nodes, n)
      BY <1>1, <1>5, <1>9, <2>2 DEF EntryIs, FramedAfter
    <3>2. PICK o, after : o = s.open /\ after = Append(nodes, n)
      OBVIOUS
    <3>3. Len(after) = k + 1 /\ \A i \in 1 .. k : after[i] = nodes[i]
      BY <1>1, <1>13, <3>2
    <3>4. after = [i \in DOMAIN o |-> s.scopes[o[i]].node]
      BY <1>14, <3>1, <3>2 DEF OpenNodes
    <3>5. Len(o) = k + 1
      <4>1. o \in Seq(1 .. Len(s.scopes)) /\ after \in Seq(Nodes)
        BY <1>1, <1>14, <3>2
      <4> QED
        BY <3>3, <3>4, <4>1
    <3>6. ASSUME NEW i \in 1 .. k PROVE s.scopes[o[i]].node = nodes[i]
      <4>1. i \in DOMAIN o
        BY <1>13, <1>14, <3>2, <3>5
      <4>2. after[i] = s.scopes[o[i]].node
        BY <3>4, <4>1
      <4> QED
        BY <3>3, <4>2
    <3>7. open \in Seq(1 .. Len(s.scopes)) /\ Len(open) = k /\ \A i \in 1 .. k : open[i] = o[i]
      BY <1>13, <1>14, <3>1, <3>2, <3>5 DEF Front
    <3>8. [i \in DOMAIN open |-> s.scopes[open[i]].node] = nodes
      <4>1. DOMAIN open = 1 .. k
        BY <1>13, <3>7
      <4>2. nodes = [i \in 1 .. k |-> nodes[i]]
        BY <1>1, <1>13
      <4>3. \A i \in 1 .. k : s.scopes[open[i]].node = nodes[i]
        BY <3>6, <3>7
      <4> QED
        BY <4>1, <4>2, <4>3, Zenon
    <3>9. 1 .. Len(s.scopes) \subseteq Nat
      BY <1>14
    <3> QED
      BY <3>7, <3>8, <3>9, SeqMonotonic
  <2> QED
    BY <2>1, <2>2
<1>16. /\ RSpecTyped(t) /\ t.open = open /\ t.scopes = s.scopes
       /\ t.calls = s.calls /\ t.named = s.named /\ t.variables = s.variables /\ t.lines = s.lines
  BY <1>3, <1>6, <1>9, <1>11, <1>15 DEF RSpecTyped, Entries
<1>17. OpenIs(t, nodes)
  BY <1>15, <1>16 DEF OpenIs, OpenNodes
<1>18. ScopesAre(t, m) /\ ContentsAre(t, m) /\ ParentsAre(t)
  BY <1>2, <1>16 DEF Arena, ScopesAre, ContentsAre, ParentsAre
<1>19. FactsAre(t, m)
  BY <1>2, <1>16, FactsSame
<1> QED
  BY <1>1, <1>4, <1>12, <1>16, <1>17, <1>18, <1>19 DEF RSpecInvAt, Arena, FramedAbove

\* leave_rescue
LEMMA RSpecPopClause ==
    ASSUME tree \in Shapes, NEW n \in Nodes, Class(tree, n) = "rescue", NEW s, NEW m,
           RSpecInvAt(s, Append(ParserAbove(n), n), m)
    PROVE  RSpecInvAt(WithoutClause(s), ParserAbove(n), m)
<1>1. PICK above : above = ParserAbove(n) /\ above \in Seq(Nodes)
  BY ParserOverIs
<1>2. Kind(n) \notin Framed /\ ~IsTop(n, above)
  BY NoCall DEF Framed, IsTop, TopKinds, Roles
<1>3. StackIs(s, Append(above, n)) /\ RSpecTyped(s) /\ s.stack \in Seq(Entries)
  BY <1>1 DEF RSpecInvAt, Arena, RSpecTyped, Entries
<1>4. PICK e, st : e = Last(s.stack) /\ st = Front(s.stack)
  OBVIOUS
<1>5. PICK u : u = [stack |-> st, topSpecs |-> s.topSpecs]
  OBVIOUS
<1>6. EntryIs(e, n, above)
  BY <1>1, <1>2, <1>3, <1>4, <1>5, StackPop
<1>7. ~e.scope /\ ~e.top
  BY <1>2, <1>6 DEF EntryIs
<1>8. WithoutFrame(s) = [s EXCEPT !.stack = st, !.open = s.open, !.topSpecs = s.topSpecs - 0]
  BY <1>4, <1>7 DEF WithoutFrame
<1>9. s.topSpecs - 0 = s.topSpecs
  BY <1>3 DEF RSpecTyped
<1>10. WithoutFrame(s) = WithoutClause(s)
  BY <1>3, <1>4, <1>8, <1>9 DEF WithoutClause, RSpecTyped
<1> QED
  BY <1>10, RSpecPop

\* While the tree stays, so does what is asked of it.
LEMMA SameRSpec ==
    ASSUME tree' = tree
    PROVE  \A s, above, m : RSpecInvAt(s, above, m)' = RSpecInvAt(s, above, m)
<1>1. Nodes' = Nodes /\ \A n : Kind(n)' = Kind(n)
  BY DEF Kind, Nodes
<1>2. FramedNodes' = FramedNodes /\ CallNodes' = CallNodes
  BY <1>1 DEF FramedNodes, CallNodes
<1>3. \A n : ParserAbove(n)' = ParserAbove(n)
  BY <1>1 DEF ParserAbove, Class, Subsequents
<1>4. \A n : FramedAbove(n)' = FramedAbove(n)
  BY <1>2, <1>3 DEF FramedAbove
<1>5. \A k, items : FindAllInScope(k, items)' = FindAllInScope(k, items)
  BY <1>1 DEF FindAllInScope
<1>6. \A n : DirectSubject(n)' = DirectSubject(n)
  <2>1. \A n : BodyOf(n)' = BodyOf(n)
    BY DEF BodyOf, Kind
  <2> QED
    BY <1>1, <2>1 DEF DirectSubject
<1>7. \A nodes : NamedSubject(nodes)' = NamedSubject(nodes)
  BY <1>1, <1>6 DEF NamedSubject
<1>8. \A n : IsNamed(n)' = IsNamed(n)
  BY <1>1, <1>4, <1>7 DEF IsNamed
<1>9. \A above : InSpec(above)' = InSpec(above)
  BY <1>1 DEF InSpec
<1>10. \A n : IsCandidate(n)' = IsCandidate(n)
  BY <1>1, <1>3, <1>9 DEF IsCandidate
<1>11. \A f, inSpec, n : EmptyLineConcepts(f, inSpec, n)' = EmptyLineConcepts(f, inSpec, n)
  <2>1. \A n : BodyOf(n)' = BodyOf(n)
    BY DEF BodyOf, Kind
  <2>2. \A n : InList(n)' = InList(n)
    BY DEF InList, Kind
  <2>3. \A n : Handled(n)' <=> Handled(n)
    BY DEF Handled, Kind
  <2>4. \A f : Lists(f)' = Lists(f)
    BY DEF Lists, Kind
  <2>5. \A f, n : Resolve(f, n)' <=> Resolve(f, n)
    BY <1>1, <2>2, <2>3, <2>4 DEF Resolve
  <2>6. \A n : OneLiners(n)' <=> OneLiners(n)
    BY <1>1, <2>2 DEF OneLiners
  <2>7. \A n : FinalLet(n)' = FinalLet(n)
    BY <1>1, <2>1 DEF FinalLet
  <2> QED
    BY <1>1, <2>5, <2>6, <2>7 DEF EmptyLineConcepts
<1>12. \A n : LinesAt(n)' = LinesAt(n)
  BY <1>1, <1>3, <1>9, <1>11 DEF LinesAt
<1>13. \A s, m : FactsAre(s, m)' = FactsAre(s, m)
  BY <1>1, <1>2, <1>8, <1>10, <1>12 DEF FactsAre
<1>14. \A s, above : StackIs(s, above)' = StackIs(s, above)
  BY <1>1, <1>9 DEF StackIs
<1>15. \A s, nodes, m, c : Arena(s, nodes, m, c)' = Arena(s, nodes, m, c)
  <2>1. \A s, m : ScopesAre(s, m)' = ScopesAre(s, m)
    BY <1>2 DEF ScopesAre
  <2>2. \A s, m : ContentsAre(s, m)' = ContentsAre(s, m)
    BY <1>5 DEF ContentsAre, Found
  <2>3. \A s : ParentsAre(s)' = ParentsAre(s)
    BY <1>4 DEF ParentsAre
  <2> QED
    BY <2>1, <2>2, <2>3 DEF Arena, RSpecTyped, OpenIs, OpenNodes
<1> QED
  BY <1>2, <1>13, <1>14, <1>15 DEF RSpecInvAt

\* Of the nodes that are entered, the rule has what the stock cops find.
RSpecInv ==
    \E s, above, calls :
        /\ s = rspec /\ above = frames[ClauseRule] /\ calls = todo
        /\ \E m \in 0 .. Len(tree.parent) : OrderInv(calls, m) /\ RSpecInvAt(s, above, m)

\* How many nodes those are.
LEMMA RSpecInvIs ==
    ASSUME RSpecInv
    PROVE  \E m \in 0 .. Len(tree.parent) : OrderInv(todo, m) /\ RSpecInvAt(rspec, frames[ClauseRule], m)
BY DEF RSpecInv

\* A step within a tree.
LEMMA RSpecInvAfter ==
    ASSUME tree' = tree, NEW m \in 0 .. Len(tree.parent), OrderInv(todo', m),
           RSpecInvAt(rspec', frames'[ClauseRule], m)
    PROVE  RSpecInv'
<1>1. PICK calls, s, above : calls = todo' /\ s = rspec' /\ above = frames'[ClauseRule]
  OBVIOUS
<1>2. OrderInv(calls, m)' /\ RSpecInvAt(s, above, m)'
  BY <1>1, SameRSpec, SameStock
<1>3. ClauseRule' = ClauseRule
  BY DEF ClauseRule
<1> QED
  BY <1>1, <1>2, <1>3 DEF RSpecInv

\* A walk starts with the rule fresh.
LEMMA RSpecStart ==
    ASSUME WalkInit, RSpecInit
    PROVE  RSpecInv
<1>1. /\ tree \in Shapes /\ todo = <<<<"visit", 1>>>> /\ frames = [r \in Rules |-> <<>>]
      /\ rspec = RSpecFresh
  BY DEF WalkInit, RSpecInit
<1>2. OrderInv(todo, 0) /\ 0 \in 0 .. Len(tree.parent)
  BY <1>1, OrderStart, TreeFacts
<1>3. frames[ClauseRule] = <<>>
  BY <1>1, ClauseRuleIs
<1>4. PICK s : s = rspec
  OBVIOUS
<1>5. /\ s.stack = <<>> /\ s.open = <<>> /\ s.scopes = <<>> /\ s.topSpecs = 0
      /\ s.calls = <<>> /\ s.named = {} /\ s.variables = {} /\ s.lines = {} /\ RSpecTyped(s)
  BY <1>1, <1>4 DEF RSpecFresh, RSpecTyped
<1>6. Len(<<>>) = 0 /\ DOMAIN <<>> = {} /\ 1 .. 0 = {}
  OBVIOUS
<1>7. Filter(<<>>, FramedNodes) = <<>>
  BY FilterEmpty
<1>8. OpenIs(s, <<>>)
  BY <1>5 DEF OpenIs, OpenNodes
<1>9. ScopesAre(s, 0)
  <2>1. Filter(UpTo(0), FramedNodes) = <<>>
    BY FilterNone
  <2> QED
    BY <1>5, <2>1 DEF ScopesAre
<1>10. ContentsAre(s, 0) /\ ParentsAre(s)
  BY <1>5 DEF ContentsAre, ParentsAre
<1>11. FactsAre(s, 0)
  <2>1. Filter(UpTo(0), CallNodes) = <<>>
    BY FilterNone
  <2> QED
    BY <1>5, <1>6, <2>1 DEF FactsAre
<1>12. StackIs(s, <<>>)
  BY <1>5 DEF StackIs, InSpec
<1>13. RSpecInvAt(s, <<>>, 0)
  BY <1>5, <1>7, <1>8, <1>9, <1>10, <1>11, <1>12 DEF RSpecInvAt, Arena
<1> QED
  BY <1>2, <1>3, <1>4, <1>13 DEF RSpecInv

\* A node is visited.
LEMMA RSpecVisited ==
    ASSUME WalkInv, RSpecInv, OnBranch \/ OnLeaf \/ OnDirect \/ OnRescue
    PROVE  RSpecInv'
<1>1. PICK m \in 0 .. Len(tree.parent) : OrderInv(todo, m) /\ RSpecInvAt(rspec, frames[ClauseRule], m)
  BY RSpecInvIs
<1>2. Next("visit") /\ WalkNext
  BY DEF OnBranch, OnLeaf, OnDirect, OnRescue, EnterBranch, EnterLeaf, VisitDirect, EnterRescue, WalkNext
<1>3. /\ Node = m + 1 /\ m + 1 \in Nodes /\ m + 1 \in 0 .. Len(tree.parent)
      /\ tree' = tree /\ OrderInv(todo', m + 1)
  BY <1>1, <1>2, VisitIsNext
<1>4. PICK n, s : n = Node /\ s = rspec
  OBVIOUS
<1>5. /\ tree \in Shapes /\ n \in Nodes /\ n = m + 1 /\ n - 1 = m
      /\ frames[ClauseRule] = ParserAbove(n)
      /\ EnterBranch \/ EnterRescue => frames'[ClauseRule] = Append(ParserAbove(n), n)
      /\ EnterLeaf \/ VisitDirect => frames'[ClauseRule] = ParserAbove(n)
  BY <1>2, <1>3, <1>4, ClauseVisited
<1>6. RSpecInvAt(s, ParserAbove(n), n - 1)
  BY <1>1, <1>4, <1>5
<1>7. CASE OnBranch
  <2>1. rspec' = WithFrame(s, n) /\ frames'[ClauseRule] = Append(ParserAbove(n), n)
    BY <1>4, <1>5, <1>7 DEF OnBranch, RSpecEnter
  <2>2. RSpecInvAt(WithFrame(s, n), Append(ParserAbove(n), n), n)
    BY <1>5, <1>6, RSpecVisit
  <2> QED
    BY <1>3, <1>5, <2>1, <2>2, RSpecInvAfter
<1>8. CASE OnRescue
  <2>1. /\ rspec' = WithClause(s, n) /\ frames'[ClauseRule] = Append(ParserAbove(n), n)
        /\ Class(tree, n) = "rescue"
    BY <1>4, <1>5, <1>8 DEF OnRescue, RSpecRescue, EnterRescue
  <2>2. RSpecInvAt(WithClause(s, n), Append(ParserAbove(n), n), n)
    BY <1>5, <1>6, <2>1, RSpecVisitClause
  <2> QED
    BY <1>3, <1>5, <2>1, <2>2, RSpecInvAfter
<1>9. CASE OnLeaf \/ OnDirect
  <2>1. /\ rspec' = s /\ frames'[ClauseRule] = ParserAbove(n) /\ Class(tree, n) \in {"leaf", "direct"}
    BY <1>4, <1>5, <1>9 DEF OnLeaf, EnterLeaf, OnDirect, VisitDirect, copVars
  <2>2. RSpecInvAt(s, ParserAbove(n), n)
    BY <1>5, <1>6, <2>1, RSpecSkip
  <2> QED
    BY <1>3, <1>5, <2>1, <2>2, RSpecInvAfter
<1> QED
  BY <1>7, <1>8, <1>9

\* A node is left.
LEMMA RSpecLeft ==
    ASSUME WalkInv, RSpecInv, OnLeave \/ OnRescueLeave
    PROVE  RSpecInv'
<1>1. PICK m \in 0 .. Len(tree.parent) : OrderInv(todo, m) /\ RSpecInvAt(rspec, frames[ClauseRule], m)
  BY RSpecInvIs
<1>2. LeaveBranch \/ LeaveRescue
  BY DEF OnLeave, OnRescueLeave
<1>3. PICK n, s : n = Node /\ s = rspec
  OBVIOUS
<1>4. /\ tree \in Shapes /\ n \in Nodes /\ tree' = tree
      /\ frames[ClauseRule] = Append(ParserAbove(n), n)
      /\ frames'[ClauseRule] = ParserAbove(n)
      /\ OrderInv(todo', m)
  BY <1>1, <1>2, <1>3, ClauseLeft
<1>5. RSpecInvAt(s, Append(ParserAbove(n), n), m)
  BY <1>1, <1>3, <1>4
<1>6. CASE OnLeave
  <2>1. rspec' = WithoutFrame(s)
    BY <1>3, <1>6 DEF OnLeave, RSpecLeave
  <2>2. RSpecInvAt(WithoutFrame(s), ParserAbove(n), m)
    BY <1>4, <1>5, RSpecPop
  <2> QED
    BY <1>4, <2>1, <2>2, RSpecInvAfter
<1>7. CASE OnRescueLeave
  <2>1. rspec' = WithoutClause(s) /\ LeaveRescue
    BY <1>3, <1>7 DEF OnRescueLeave, RSpecRescueLeave
  <2>2. Class(tree, n) = "rescue"
    BY <1>3, <2>1, CallFrames DEF LeaveRescue, Next, Calls, Node
  <2>3. RSpecInvAt(WithoutClause(s), ParserAbove(n), m)
    BY <1>4, <1>5, <2>2, RSpecPopClause
  <2> QED
    BY <1>4, <2>1, <2>3, RSpecInvAfter
<1> QED
  BY <1>6, <1>7

\* A step of the rules keeps what the rule runs on, or starts it afresh.
LEMMA RSpecNext ==
    ASSUME WalkInv, RSpecInv, [CopsNext]_<<walkVars, copVars, fileVars>>
    PROVE  RSpecInv' \/ (WalkInit /\ RSpecInit)'
<1>1. CASE OnHook
  BY <1>1, RSpecVisited, RSpecLeft DEF OnHook
<1>2. CASE OnInvestigation \/ UNCHANGED <<walkVars, copVars, fileVars>>
  <2>1. UNCHANGED <<walkVars, rspec>>
    BY <1>2 DEF OnInvestigation, Investigate, copVars
  <2>2. PICK m \in 0 .. Len(tree.parent) : OrderInv(todo, m) /\ RSpecInvAt(rspec, frames[ClauseRule], m)
    BY RSpecInvIs
  <2>3. tree' = tree /\ OrderInv(todo', m) /\ RSpecInvAt(rspec', frames'[ClauseRule], m)
    BY <2>1, <2>2 DEF walkVars
  <2> QED
    BY <2>2, <2>3, RSpecInvAfter
<1>3. CASE NextFile \/ NextRound
  <2>1. WalkAgain
    BY <1>3 DEF NextFile, NextRound
  <2> QED
    BY <2>1, AgainIsWalkStart DEF WalkAgain, RSpecInit, RSpecFresh
<1> QED
  BY <1>1, <1>2, <1>3 DEF CopsNext

\* At every node of every tree, the frames of the RSpec rule have what the stock
\* cops find among the nodes entered so far.
THEOREM RSpecRunsLikeStock == CopsSpec => []RSpecInv
<1>1. WalkInit /\ RSpecInit => RSpecInv
  BY RSpecStart
<1>2. CopsInit => WalkInit /\ RSpecInit
  BY DEF CopsInit
<1>3. (WalkInit /\ RSpecInit)' => RSpecInv'
  BY <1>1, PTL
<1>4. WalkInv /\ RSpecInv /\ [CopsNext]_<<walkVars, copVars, fileVars>> => RSpecInv'
  BY <1>3, RSpecNext
<1> QED
  BY <1>1, <1>2, <1>4, CopsWalkInv, PTL DEF CopsSpec

\* What is above a node is above what is below it.
LEMMA OverInOver ==
    ASSUME tree \in Shapes, NEW n \in Nodes, NEW x \in Over(n)
    PROVE  x \in Nodes /\ Over(x) \subseteq Over(n)
<1> DEFINE S == {i \in Nat : i \in Nodes => \A y \in Over(i) : Over(y) \subseteq Over(i)}
<1>1. ASSUME NEW i \in Nat, \A j \in Nat : j < i => j \in S
      PROVE  i \in S
  <2> SUFFICES ASSUME i \in Nodes, NEW y \in Over(i)
               PROVE  Over(y) \subseteq Over(i)
    OBVIOUS
  <2>1. PICK u : u = tree.parent[i] /\ u \in Nodes /\ u \in 1 .. i - 1 /\ Over(i) = Over(u) \cup {u}
    BY OverIs
  <2>2. u \in S
    BY <1>1, <2>1
  <2> QED
    BY <2>1, <2>2
<1> HIDE DEF S
<1>2. \A i \in Nat : i \in S
  BY <1>1, NatSetStrong
<1>3. n \in Nat
  BY TreeFacts
<1> QED
  BY <1>2, <1>3, OverIs DEF S

\* What the parser gem has right above a word of the language: its parent, or
\* what that is part of when no hook tells of the parent.
HookParent(n) ==
    IF Class(tree, tree.parent[n]) = "direct" THEN tree.parent[tree.parent[n]] ELSE tree.parent[n]

\* It is the innermost of the ancestors, and the root only for a statement of
\* the program.
LEMMA HookParentIs ==
    ASSUME tree \in Shapes, NEW n \in Nodes, Kind(n) \in Roles
    PROVE  /\ HookParent(n) \in Nodes /\ HookParent(n) \in Over(n)
           /\ Class(tree, HookParent(n)) \in Branches \cup {"rescue"}
           /\ ParserAbove(n) = Append(ParserAbove(HookParent(n)), HookParent(n))
           /\ Last(ParserAbove(n)) = HookParent(n)
           /\ tree.parent[n] # 1 => HookParent(n) # 1
<1>1. /\ IsTree(tree.parent) /\ n \in DOMAIN tree.kind /\ DOMAIN tree.kind = Nodes /\ WellFormed(tree)
      /\ Nodes = 1 .. Len(tree.parent) /\ Len(tree.kind) = Len(tree.parent) /\ Len(tree.parent) \in Nat
  BY TreeFacts, ShapesAssumption DEF Nodes
<1>2. PICK u : u = tree.parent[n] /\ u # 0 /\ u \in Nodes /\ Over(n) = Over(u) \cup {u} /\ n # 1
  BY OverIs, RoleBelow
<1>3. ASSUME NEW k \in Nodes PROVE Class(tree, k) \in Branches \cup {"leaf", "rescue", "direct"}
  <2>1. tree.kind[k] \in DOMAIN ClassOf
    BY <1>1, <1>3 DEF WellFormed
  <2> QED
    BY <2>1, ClassesAssumption DEF Class
<1>4. ASSUME NEW k \in Nodes, k # 1 PROVE Class(tree, tree.parent[k]) # "leaf"
  BY <1>1, <1>4 DEF WellFormed
<1>5. Class(tree, n) = "call"
  BY RoleIsCall
<1>6. /\ Class(tree, u) = "direct" => tree.parent[u] # 1 /\ Class(tree, tree.parent[u]) # "direct"
      /\ tree.kind[1] = "program"
  BY <1>1, <1>2, RSpecPlacesAssumption DEF RSpecPlaces, Kind
<1>7. ASSUME NEW c \in Nodes, NEW p \in Nodes, p = tree.parent[c], p # 0, Class(tree, p) \in Branches \cup {"rescue"},
             Class(tree, c) # "rescue"
      PROVE  ParserAbove(c) = Append(ParserAbove(p), p) /\ Last(ParserAbove(c)) = p
  <2>1. c \notin Subsequents(tree, p)
    BY <1>7 DEF Subsequents
  <2>2. ParserAbove(c) = Append(ParserAbove(p), p)
    BY <1>7, <2>1, ParserAboveStep
  <2>3. PICK s \in Seq(Nodes) : s = ParserAbove(p)
    BY <1>7, ParserAboveType
  <2>4. Last(Append(s, p)) = p
    BY <1>7, <2>3 DEF Last
  <2> QED
    BY <2>2, <2>3, <2>4
<1>8. CASE Class(tree, u) # "direct"
  <2>1. Class(tree, u) \in Branches \cup {"rescue"}
    BY <1>2, <1>3, <1>4, <1>8
  <2>2. HookParent(n) = u
    BY <1>2, <1>8 DEF HookParent
  <2>3. ParserAbove(n) = Append(ParserAbove(u), u) /\ Last(ParserAbove(n)) = u
    BY <1>2, <1>5, <1>7, <2>1
  <2> QED
    BY <1>2, <2>1, <2>2, <2>3
<1>9. CASE Class(tree, u) = "direct"
  <2>1. u # 1
    <3>1. Class(tree, 1) \in Branches
      BY RoleBelow
    <3>2. "direct" \notin Branches
      BY DEF Branches, ClassIndex
    <3> QED
      BY <1>9, <3>1, <3>2
  <2>2. PICK g : g = tree.parent[u] /\ g # 1 /\ Class(tree, g) # "direct"
    BY <1>6, <1>9
  <2>3. g \in 1 .. u - 1 /\ g # 0
    <3>1. u \in 2 .. Len(tree.parent)
      BY <1>1, <1>2, <2>1
    <3>2. u \in Nat
      BY <1>1, <1>2
    <3> QED
      BY <2>2, <3>1, <3>2, TreeFacts
  <2>4. g \in Nodes /\ Over(u) = Over(g) \cup {g}
    BY <1>2, <2>2, <2>3, OverIs
  <2>5. Class(tree, g) \in Branches \cup {"rescue"}
    BY <1>2, <1>3, <1>4, <2>1, <2>2, <2>4
  <2>6. HookParent(n) = g
    BY <1>2, <1>9, <2>2 DEF HookParent
  <2>7. ParserAbove(u) = Append(ParserAbove(g), g) /\ Last(ParserAbove(u)) = g
    BY <1>2, <1>7, <1>9, <2>2, <2>3, <2>4, <2>5
  <2>8. ParserAbove(n) = ParserAbove(u)
    <3>1. Class(tree, u) \notin Branches /\ Class(tree, u) # "rescue"
      BY <1>9 DEF Branches, ClassIndex
    <3> QED
      BY <1>2, <3>1, ParserAboveStep
  <2> QED
    BY <1>2, <2>2, <2>4, <2>5, <2>6, <2>7, <2>8
<1> QED
  BY <1>8, <1>9

\* The nodes the parser gem has above n, by what is above n.
LEMMA KeptIs ==
    ASSUME tree \in Shapes, NEW n \in Nodes, NEW k
    PROVE  k \in Kept(n) <=> /\ k \in Nodes
                             /\ \/ Class(tree, k) \in Branches
                                \/ /\ Class(tree, k) = "rescue" /\ n \notin Subsequents(tree, k)
                                   /\ \A z \in Over(n) : z \notin Subsequents(tree, k)
<1>1. Over(n) = {Above(tree.parent, n)[i] : i \in DOMAIN Above(tree.parent, n)}
  BY DEF Over, Ancestors
<1> QED
  BY <1>1 DEF Kept

\* What it has above a node it has above everything below the node.
LEMMA KeptBelow ==
    ASSUME tree \in Shapes, NEW n \in Nodes, NEW x \in Over(n), NEW k \in Over(x), k \in Kept(x)
    PROVE  k \in Over(n) /\ k \in Kept(n) /\ k < x
<1>1. x \in Nodes /\ k \in Nodes /\ k < x /\ Over(n) \subseteq 1 .. n - 1
  <2>1. x \in Nodes
    BY OverIs
  <2>2. k \in Nodes /\ k \in 1 .. x - 1
    BY <2>1, OverIs
  <2>3. Nodes \subseteq Nat
    BY TreeFacts
  <2> QED
    BY <2>1, <2>2, <2>3, OverIs
<1>2. Over(x) \subseteq Over(n)
  BY OverInOver
<1>3. ASSUME NEW z \in Over(n) \cup {n}, Class(tree, k) = "rescue" PROVE z \notin Subsequents(tree, k)
  <2> SUFFICES ASSUME z \in Subsequents(tree, k) PROVE FALSE
    OBVIOUS
  <2>1. z \in Nodes /\ tree.parent[z] = k /\ k # 0 /\ Over(z) = Over(k) \cup {k}
    <3>1. z \in Nodes /\ tree.parent[z] = k
      BY DEF Subsequents, Nodes
    <3>2. k # 0
      BY <1>1, TreeFacts
    <3> QED
      BY <3>1, <3>2, OverIs
  <2>2. x \notin Over(z)
    <3>1. Over(k) \subseteq 1 .. k - 1
      BY <1>1, OverIs
    <3>2. k \in Nat /\ x \in Nat
      BY <1>1, TreeFacts
    <3> QED
      BY <1>1, <2>1, <3>1, <3>2
  <2>3. z \in Over(n) /\ z # x /\ z \notin Over(x)
    <3>1. z # n
      BY <2>2
    <3>2. x \notin Subsequents(tree, k) /\ \A y \in Over(x) : y \notin Subsequents(tree, k)
      <4>1. Class(tree, k) \notin Branches
        BY <1>3 DEF Branches, ClassIndex
      <4> QED
        BY <1>1, <4>1, KeptIs
    <3> QED
      BY <3>1, <3>2
  <2>4. z < x \/ x < z
    BY <1>1, <2>1, <2>3, TreeFacts
  <2> QED
    BY <2>2, <2>3, <2>4, OverOneAnother
<1>4. k \in Kept(n)
  BY <1>1, <1>3, KeptIs
<1> QED
  BY <1>1, <1>2, <1>4

\* A word of the language is inside a group at the top of the file for the rule
\* just when it is for the stock cops.
LEMMA InSpecIs ==
    ASSUME tree \in Shapes, NEW n \in Nodes, Kind(n) \in Roles
    PROVE  InSpec(ParserAbove(n)) <=> StockInsideGroup(n)
<1>1. PICK s : s = ParserAbove(n)
  OBVIOUS
<1>2. /\ s \in Seq(Nodes) /\ Increasing(s) /\ Elements(s) = Over(n) \cap Kept(n)
      /\ Len(s) \in Nat \ {0} /\ s[1] = 1 /\ 1 \in Nodes /\ Nodes \subseteq Nat
  BY <1>1, ParserOverIs, RoleBelow, TreeFacts
<1>3. TopKinds \subseteq Roles
  BY DEF TopKinds, SpecGroups, Roles
<1>4. StockInsideGroup(n) <=> \E x \in Over(n) : tree.parent[x] = 1 /\ Kind(x) \in TopKinds
  <2>1. n \notin Over(n)
    BY OverIs, TreeFacts
  <2> QED
    BY <2>1 DEF StockInsideGroup, Over, TopKinds
<1>5. ASSUME NEW x \in Over(n) \cap Kept(n), x # 1 PROVE \E i \in 2 .. Len(s) : s[i] = x
  <2>1. x \in Elements(s)
    BY <1>2
  <2>2. PICK i \in 1 .. Len(s) : s[i] = x
    BY <2>1 DEF Elements
  <2>3. i # 1
    BY <1>2, <1>5, <2>2
  <2> QED
    BY <1>2, <2>2, <2>3
<1>6. ASSUME NEW x \in Over(n) \cap Kept(n), NEW y \in Over(n) \cap Kept(n), x # 1, Len(s) >= 2, s[2] = y
      PROVE  y <= x /\ y # 1
  <2>1. PICK i \in 2 .. Len(s) : s[i] = x
    BY <1>5, <1>6
  <2>2. x \in Nat /\ y \in Nat
    BY <1>2, <1>6, OverIs
  <2>3. i # 2 => y < x
    BY <1>2, <1>6, <2>1 DEF Increasing
  <2>4. 1 < y
    <3>1. 1 \in 1 .. Len(s) /\ 2 \in 1 .. Len(s)
      BY <1>2, <1>6
    <3> QED
      BY <1>2, <1>6, <3>1 DEF Increasing
  <2> QED
    BY <1>6, <2>1, <2>2, <2>3, <2>4
<1>7. ASSUME InSpec(s) PROVE StockInsideGroup(n)
  <2>1. Len(s) >= 2 /\ Kind(s[2]) \in TopKinds
    BY <1>7 DEF InSpec
  <2>2. PICK x : x = s[2]
    OBVIOUS
  <2>3. x \in Over(n) \cap Kept(n) /\ x \in Nodes
    <3>1. 2 \in 1 .. Len(s)
      BY <1>2, <2>1
    <3>2. x \in Elements(s)
      BY <2>2, <3>1 DEF Elements
    <3> QED
      BY <1>2, <3>2, OverIs
  <2>4. ASSUME tree.parent[x] # 1 PROVE FALSE
    <3>1. PICK f : f = HookParent(x) /\ f \in Over(x) /\ f \in Nodes /\ f # 1
                   /\ ParserAbove(x) = Append(ParserAbove(f), f)
      BY <1>3, <2>1, <2>2, <2>3, <2>4, HookParentIs
    <3>2. f \in Kept(x)
      <4>1. PICK t \in Seq(Nodes) : t = ParserAbove(f)
        BY <3>1, ParserAboveType
      <4>2. f \in Elements(Append(t, f))
        BY <3>1, <4>1, ElementsAppend
      <4> QED
        BY <2>3, <3>1, <4>1, <4>2, ParserOverIs
    <3>3. f \in Over(n) \cap Kept(n) /\ f < x
      BY <2>3, <3>1, <3>2, KeptBelow
    <3>4. x <= f
      BY <1>6, <2>1, <2>2, <2>3, <3>1, <3>3
    <3> QED
      BY <1>2, <2>3, <3>1, <3>3, <3>4
  <2> QED
    BY <1>4, <2>1, <2>2, <2>3, <2>4
<1>8. ASSUME StockInsideGroup(n) PROVE InSpec(s)
  <2>1. PICK x \in Over(n) : tree.parent[x] = 1 /\ Kind(x) \in TopKinds
    BY <1>4, <1>8
  <2>2. x \in Nodes /\ Class(tree, x) \in Branches /\ x # 1
    <3>1. x \in Nodes
      BY OverIs
    <3>2. Class(tree, x) \in Branches
      BY <1>3, <2>1, <3>1, RoleIsCall
    <3>3. x # 1
      BY <1>3, <2>1, <3>1, RoleBelow
    <3> QED
      BY <3>1, <3>2, <3>3
  <2>3. x \in Over(n) \cap Kept(n)
    BY <2>2 DEF Kept
  <2>4. PICK i \in 2 .. Len(s) : s[i] = x
    BY <1>5, <2>2, <2>3
  <2>5. Len(s) >= 2 /\ 2 \in 1 .. Len(s)
    BY <1>2, <2>4
  <2>6. PICK y : y = s[2] /\ y \in Over(n) \cap Kept(n)
    BY <1>2, <2>5 DEF Elements
  <2>7. y <= x /\ y # 1
    BY <1>6, <2>2, <2>3, <2>5, <2>6
  <2>8. y = x
    <3> SUFFICES ASSUME y < x PROVE FALSE
      BY <2>2, <2>6, <2>7, OverIs, TreeFacts
    <3>1. y \in Over(x)
      BY <2>6, OverOneAnother
    <3>2. Over(1) = {} /\ Over(x) = Over(1) \cup {1}
      <4>1. tree.parent[1] = 0
        BY TreeFacts
      <4> QED
        BY <1>2, <2>1, <2>2, <4>1, OverIs
    <3> QED
      BY <2>7, <3>1, <3>2
  <2> QED
    BY <2>1, <2>5, <2>6, <2>8 DEF InSpec
<1> QED
  BY <1>1, <1>7, <1>8

\* A statement of the list l that is not its last.
Followed(l, n) == \E i \in 1 .. Len(InList(l)) - 1 : InList(l)[i] = n

\* The statements of a list.
LEMMA InListIs ==
    ASSUME tree \in Shapes, NEW l
    PROVE  /\ InList(l) \in Seq(Nodes) /\ Increasing(InList(l))
           /\ Elements(InList(l)) = {k \in Nodes : tree.parent[k] = l /\ Kind(k) # "rescue"}
<1>1. PICK s, S : s = Children(tree.parent, l) /\ S = {k \in DOMAIN tree.kind : Kind(k) # "rescue"}
  OBVIOUS
<1>2. /\ IsTree(tree.parent) /\ DOMAIN tree.parent = Nodes /\ DOMAIN tree.kind = Nodes /\ Nodes \subseteq Nat
  BY TreeFacts DEF Nodes
<1>3. s \in Seq(Nodes) /\ Increasing(s) /\ Elements(s) = {k \in Nodes : tree.parent[k] = l}
  BY <1>1, <1>2, ChildrenAre
<1>4. s \in Seq(Nat)
  BY <1>2, <1>3, SeqMonotonic
<1>5. Filter(s, S) \in Seq(Nodes) /\ Increasing(Filter(s, S)) /\ Elements(Filter(s, S)) = Elements(s) \cap S
  BY <1>3, <1>4, FilterType, FilterIncreasing, FilterElements
<1>6. InList(l) = Filter(s, S)
  BY <1>1 DEF InList
<1> QED
  BY <1>1, <1>2, <1>3, <1>5, <1>6

\* A word of the language is followed in the list that is its parent, or in none.
LEMMA FollowedIs ==
    ASSUME tree \in Shapes, NEW n \in Nodes, Kind(n) \in Roles
    PROVE  /\ \A l : Followed(l, n) => tree.parent[n] = l
           /\ Followed(tree.parent[n], n) <=> Last(InList(tree.parent[n])) # n
<1>1. ASSUME NEW l, Followed(l, n) PROVE tree.parent[n] = l
  <2>1. PICK s \in Seq(Nodes) : s = InList(l)
    BY InListIs
  <2>2. PICK i \in 1 .. Len(s) - 1 : s[i] = n
    BY <1>1, <2>1 DEF Followed
  <2>3. n \in Elements(s)
    BY <2>2 DEF Elements
  <2> QED
    BY <2>1, <2>3, InListIs
<1>2. PICK s : s = InList(tree.parent[n]) /\ s \in Seq(Nodes) /\ Increasing(s) /\ n \in Elements(s)
  <2>1. Kind(n) # "rescue"
    <3>1. n \in DOMAIN tree.kind /\ tree.kind[n] \in DOMAIN ClassOf
      BY TreeFacts DEF Nodes
    <3>2. Class(tree, n) = "call"
      BY RoleIsCall
    <3> QED
      BY <3>1, <3>2, RSpecKindsAssumption DEF Class, Kind
  <2>2. n \in Elements(InList(tree.parent[n]))
    BY <2>1, InListIs
  <2> QED
    BY <2>2, InListIs
<1>3. PICK k \in Nat : k = Len(s)
  BY <1>2
<1>4. PICK j \in 1 .. k : s[j] = n
  BY <1>2, <1>3 DEF Elements
<1>5. Last(s) = s[k]
  BY <1>3 DEF Last
<1>6. Followed(tree.parent[n], n) <=> \E i \in 1 .. k - 1 : s[i] = n
  BY <1>2, <1>3 DEF Followed
<1>7. ASSUME NEW i \in 1 .. k - 1, s[i] = n, s[k] = n PROVE FALSE
  <2>1. s[i] < s[k]
    BY <1>2, <1>3, <1>7 DEF Increasing
  <2>2. n \in Nat
    BY TreeFacts
  <2> QED
    BY <1>7, <2>1, <2>2
<1>8. ASSUME s[k] # n PROVE \E i \in 1 .. k - 1 : s[i] = n
  BY <1>4, <1>8
<1>9. Followed(tree.parent[n], n) <=> s[k] # n
  BY <1>6, <1>7, <1>8
<1> QED
  BY <1>1, <1>2, <1>5, <1>9

\* What the parser gem makes lists of statements.
StockLists ==
    {"program", "stmts", "then", "else", "unlessElse", "when", "caseElse", "main", "rescue", "beginElse", "ensure"}

\* From the innermost frame, the list that holds a word is found.
LEMMA ListsAre ==
    ASSUME tree \in Shapes, ~TypedElse, NEW n \in Nodes, Kind(n) \in Roles,
           NEW f, f = HookParent(n), NEW up, up = tree.parent[n]
    PROVE  /\ up \in Lists(f) <=> Kind(up) \in StockLists
           /\ up \in Lists(f) /\ Kind(up) = "main" => f = tree.parent[up]
<1>1. /\ up \in Nodes /\ f \in Nodes /\ DOMAIN tree.kind = Nodes
      /\ \A k \in Nodes : Kind(k) \in DOMAIN ClassOf /\ Class(tree, k) = ClassOf[Kind(k)]
  <2>1. up \in Nodes
    BY OverIs, RoleBelow
  <2>2. f \in Nodes
    BY HookParentIs
  <2>3. DOMAIN tree.kind = Nodes /\ \A k \in Nodes : tree.kind[k] \in DOMAIN ClassOf
    BY TreeFacts DEF Nodes
  <2> QED
    BY <2>1, <2>2, <2>3 DEF Class, Kind
<1>2. Kind(up) \notin {"unlessElse", "caseElse"}
  BY <1>1 DEF TypedElse
<1>3. up # 0 /\ tree.parent[up] # up
  <2>1. PICK p, l : p = tree.parent /\ l = Len(p)
    OBVIOUS
  <2>2. up \in 1 .. l /\ l \in Nat /\ p[1] = 0 /\ \A k \in 2 .. l : p[k] \in 1 .. k - 1
    BY <1>1, <2>1, TreeFacts
  <2>3. up # 0 /\ p[up] # up
    BY <2>2
  <2> QED
    BY <2>1, <2>3
<1>4. \A kind \in DOMAIN ClassOf :
         /\ kind \in {"then", "main", "beginElse", "ensure"} => ClassOf[kind] = "direct"
         /\ kind \in {"program", "stmts", "else", "when", "if", "unless", "while", "begin"}
               => ClassOf[kind] \in Branches
         /\ kind = "rescue" => ClassOf[kind] = "rescue"
  BY RSpecKindsAssumption, Zenon
<1>5. "direct" \notin Branches
  BY DEF Branches, ClassIndex
<1>6. CASE Class(tree, up) # "direct"
  <2>1. f = up
    BY <1>6 DEF HookParent
  <2>2. Kind(up) \notin {"then", "main", "beginElse", "ensure"}
    BY <1>1, <1>4, <1>6
  <2>3. Kind(up) \in StockLists <=> Kind(up) \in {"program", "stmts", "rescue", "else", "when"}
    BY <1>2, <2>2 DEF StockLists
  <2>4. up \in Lists(up) <=> Kind(up) \in {"program", "stmts", "rescue", "else", "when"}
    BY <1>3 DEF Lists
  <2> QED
    BY <2>1, <2>2, <2>3, <2>4
<1>7. CASE Class(tree, up) = "direct"
  <2>1. f = tree.parent[up]
    BY <1>7 DEF HookParent
  <2>2. Kind(up) \notin {"program", "stmts", "else", "when", "rescue"}
    BY <1>1, <1>4, <1>5, <1>7
  <2>3. Kind(up) \in StockLists <=> Kind(up) \in {"then", "main", "beginElse", "ensure"}
    BY <1>2, <2>2 DEF StockLists
  <2>4. /\ Kind(up) = "then" => Kind(f) \in {"if", "unless", "while"}
        /\ Kind(up) \in {"main", "beginElse", "ensure"} => Kind(f) = "begin"
    <3>1. n \in DOMAIN tree.kind /\ tree.kind[n] \in Roles
      BY <1>1 DEF Kind
    <3>2. RSpecPlaces(tree)
      BY RSpecPlacesAssumption
    <3> QED
      BY <2>1, <3>1, <3>2 DEF RSpecPlaces, Kind
  <2>5. up \in Lists(f) <=>
           \/ Kind(f) \in {"if", "unless", "while"} /\ Kind(up) = "then"
           \/ Kind(f) = "begin" /\ Kind(up) \in {"main", "ensure", "beginElse"}
    BY <1>1, <1>3, <2>1 DEF Lists
  <2>6. up \in Lists(f) <=> Kind(up) \in {"then", "main", "beginElse", "ensure"}
    BY <2>4, <2>5
  <2> QED
    BY <2>1, <2>3, <2>6
<1> QED
  BY <1>6, <1>7

\* resolve finds a following statement just when the stock cop does.
LEMMA ResolveIs ==
    ASSUME tree \in Shapes, ~TypedElse, NEW n \in Nodes, Kind(n) \in Roles
    PROVE  Resolve(Last(ParserAbove(n)), n) <=> StockFollowed(n)
<1>1. PICK f, up : f = Last(ParserAbove(n)) /\ up = tree.parent[n]
  OBVIOUS
<1>2. f = HookParent(n)
  BY <1>1, HookParentIs
<1>3. /\ up \in Lists(f) <=> Kind(up) \in StockLists
      /\ up \in Lists(f) /\ Kind(up) = "main" => f = tree.parent[up]
  BY <1>1, <1>2, ListsAre
<1>4. \A l : Followed(l, n) => l = up
  BY <1>1, FollowedIs
<1>5. Resolve(f, n) <=> \E l \in Lists(f) : (Kind(l) = "main" => Handled(f)) /\ Followed(l, n)
  BY DEF Resolve, Followed
<1>6. Resolve(f, n) <=> up \in Lists(f) /\ (Kind(up) = "main" => Handled(f)) /\ Followed(up, n)
  BY <1>4, <1>5
<1>7. Followed(up, n) <=> Last(InList(up)) # n
  BY <1>1, FollowedIs
<1>8. StockFollowed(n) <=>
         Kind(up) \in StockLists /\ (Kind(up) = "main" => Handled(tree.parent[up])) /\ Last(InList(up)) # n
  BY <1>1 DEF StockFollowed, StockLists
<1> QED
  BY <1>1, <1>3, <1>6, <1>7, <1>8

\* At the end of a walk the rule has what is there at every node.
LEMMA RSpecEnd ==
    ASSUME WalkInv, RSpecInv, todo = <<>>
    PROVE  /\ tree \in Shapes /\ Len(tree.kind) \in Nat /\ Nodes = 1 .. Len(tree.kind)
           /\ DOMAIN tree.kind = Nodes
           /\ RSpecInvAt(rspec, frames[ClauseRule], Len(tree.kind))
<1>1. PICK m \in 0 .. Len(tree.parent) : OrderInv(todo, m) /\ RSpecInvAt(rspec, frames[ClauseRule], m)
  BY RSpecInvIs
<1>2. tree \in Shapes /\ OrderInv(<<>>, m)
  BY <1>1 DEF WalkInv
<1>3. m = Len(tree.parent)
  BY <1>2, OrderEnd
<1>4. Len(tree.kind) = Len(tree.parent) /\ Nodes = 1 .. Len(tree.parent) /\ Len(tree.parent) \in Nat
  BY <1>2, TreeFacts
<1>5. DOMAIN tree.kind = Nodes
  BY <1>2, <1>4, TreeFacts
<1> QED
  BY <1>1, <1>2, <1>3, <1>4, <1>5

\* What is looked at after a node, if it is a statement.
Concept(inSpec, n) ==
    CASE Kind(n) \in Examples /\ ~OneLiners(n) -> {"example"}
      [] Kind(n) \in SpecGroups -> {"exampleGroup"}
      [] Kind(n) = "hook" -> {"hook"}
      [] Kind(n) \in Subjects /\ inSpec -> {"subject"}
      [] OTHER -> {}

\* The concepts of a node for the stock cops.
StockLinesAt(n) == {<<c, n>> : c \in {d \in Concept(StockInsideGroup(n), n) : StockFollowed(n)}}

FinalLetAt(n) == IF Kind(n) \in ScopeChanges THEN FinalLet(n) ELSE {}

\* The rule has the same.
LEMMA LinesAtIs ==
    ASSUME tree \in Shapes, ~TypedElse, NEW n \in Nodes
    PROVE  LinesAt(n) = FinalLetAt(n) \cup StockLinesAt(n)
<1>1. CASE Kind(n) \in Roles
  <2>1. InSpec(ParserAbove(n)) <=> StockInsideGroup(n)
    BY <1>1, InSpecIs
  <2>2. Resolve(Last(ParserAbove(n)), n) <=> StockFollowed(n)
    BY <1>1, ResolveIs
  <2>3. PICK f, s : f = Last(ParserAbove(n)) /\ s = ParserAbove(n)
    OBVIOUS
  <2>4. EmptyLineConcepts(f, InSpec(s), n) =
           FinalLetAt(n) \cup {<<c, n>> : c \in {d \in Concept(InSpec(s), n) : Resolve(f, n)}}
    BY DEF EmptyLineConcepts, FinalLetAt, Concept
  <2>5. Concept(InSpec(s), n) = Concept(StockInsideGroup(n), n)
    BY <2>1, <2>3 DEF Concept
  <2>6. LinesAt(n) = EmptyLineConcepts(f, InSpec(s), n)
    BY <1>1, <2>3 DEF LinesAt
  <2> QED
    BY <2>2, <2>3, <2>4, <2>5, <2>6 DEF StockLinesAt
<1>2. CASE Kind(n) \notin Roles
  <2>1. Kind(n) \notin Examples \cup SpecGroups \cup {"hook", "include"} \cup Subjects
    BY <1>2 DEF Roles
  <2>2. Concept(StockInsideGroup(n), n) = {}
    BY <2>1 DEF Concept
  <2>3. FinalLetAt(n) = {}
    BY <2>1 DEF FinalLetAt, ScopeChanges
  <2>4. StockLinesAt(n) = {}
    BY <2>2 DEF StockLinesAt
  <2>5. LinesAt(n) = {}
    BY <1>2 DEF LinesAt
  <2> QED
    BY <2>3, <2>4, <2>5
<1> QED
  BY <1>1, <1>2

\* On every tree without the else of an `unless` or of a `case`, the dispatcher
\* takes the statements of the concepts it looks at from the lists the parser gem
\* has them in: it reports the nodes the stock cops look at.
THEOREM LinesFollowStock == CopsSpec => []LinesAsStock
<1>1. ASSUME WalkInv, RSpecInv, todo = <<>>, ~TypedElse
      PROVE  rspec.lines = StockLines
  <2>1. /\ tree \in Shapes /\ DOMAIN tree.kind = Nodes
        /\ rspec.lines = UNION {LinesAt(k) : k \in Nodes}
    <3>1. FactsAre(rspec, Len(tree.kind)) /\ Nodes = 1 .. Len(tree.kind)
      BY <1>1, RSpecEnd DEF RSpecInvAt
    <3> QED
      BY <1>1, <3>1, RSpecEnd DEF FactsAre
  <2>2. \A n \in Nodes : LinesAt(n) = FinalLetAt(n) \cup StockLinesAt(n)
    BY <1>1, <2>1, LinesAtIs
  <2>3. StockLines = UNION {UNION {StockLinesAt(n) : n \in Nodes},
                            UNION {FinalLet(n) : n \in {k \in Nodes : Kind(k) \in ScopeChanges}}}
    BY <2>1 DEF StockLines, StockLinesAt, Concept
  <2>4. \A e : e \in rspec.lines <=> \E n \in Nodes : e \in FinalLetAt(n) \cup StockLinesAt(n)
    BY <2>1, <2>2
  <2>5. \A e : e \in StockLines <=> \E n \in Nodes : e \in FinalLetAt(n) \cup StockLinesAt(n)
    BY <2>3 DEF FinalLetAt
  <2> QED
    BY <2>4, <2>5
<1>2. WalkInv /\ RSpecInv => LinesAsStock
  BY <1>1 DEF LinesAsStock
<1> QED
  BY <1>2, CopsWalkInv, RSpecRunsLikeStock, PTL

\* The greatest of some numbers.
LEMMA MaxIs ==
    ASSUME NEW S, S \subseteq Nat, NEW x \in S, \A y \in S : y <= x
    PROVE  Max(S) = x
<1>1. \A y \in S : x >= y
  OBVIOUS
<1>2. \A z \in S : (\A y \in S : z >= y) => z = x
  OBVIOUS
<1> QED
  BY <1>1, <1>2 DEF Max

\* And the least.
LEMMA MinIs ==
    ASSUME NEW S, S \subseteq Nat, NEW x \in S, \A y \in S : x <= y
    PROVE  Min(S) = x
<1>1. \A z \in S : (\A y \in S : z <= y) => z = x
  OBVIOUS
<1> QED
  BY <1>1 DEF Min

\* The first and the last of some positions.
LEMMA FirstAndLast ==
    ASSUME NEW l \in Nat, NEW T, T \subseteq 1 .. l, T # {}
    PROVE  /\ Max(T) \in T /\ \A i \in T : i <= Max(T)
           /\ Min(T) \in T /\ \A i \in T : Min(T) <= i
<1>1. T \subseteq Nat
  OBVIOUS
<1>2. PICK x \in T : \A y \in T : y <= x
  BY GreatestNumber
<1>3. PICK z \in T : \A y \in T : z <= y
  BY <1>1, LeastNumber
<1>4. Max(T) = x /\ Min(T) = z
  BY <1>1, <1>2, <1>3, MaxIs, MinIs
<1> QED
  BY <1>2, <1>3, <1>4

\* The names are defined in the same places.
LEMMA CandidateIs ==
    ASSUME tree \in Shapes, NEW n \in Nodes
    PROVE  IsCandidate(n) <=> Kind(n) \in Lets \cup {"subjectC"} /\ StockInsideGroup(n)
<1>1. VarDef(Kind(n)) # "nil" <=> Kind(n) \in Lets \cup {"subjectC"}
  BY DEF VarDef, Lets, Bangs
<1>2. Kind(n) \in Lets \cup {"subjectC"} => Kind(n) \in Roles
  BY DEF Roles, Subjects
<1> QED
  BY <1>1, <1>2, InSpecIs DEF IsCandidate

\* The blocks the parser gem has over a node, and those with a frame.
LEMMA BlocksAre ==
    ASSUME tree \in Shapes, NEW n \in Nodes
    PROVE  /\ BlocksOver(n) \subseteq Nodes /\ BlocksOver(n) \subseteq Over(n)
           /\ \A k : k \in BlocksOver(n) /\ Kind(k) # "each" <=> k \in Over(n) \cap FramedNodes
<1>1. Over(n) \subseteq Nodes
  BY OverIs
<1>2. BlocksOver(n) = {k \in Over(n) : Kind(k) \in Framed \cup {"each"}}
  BY DEF BlocksOver, StockBlocks, Over
<1>3. "each" \notin Framed
  BY DEF Framed, Roles, SpecGroups, Examples, Lets, Bangs, Subjects
<1> QED
  BY <1>1, <1>2, <1>3 DEF FramedNodes

\* Where a reference to the subject may stand.
Users == Examples \cup {"hook"}

\* The positions of the frames of these kinds.
At(nodes, kinds) == {i \in DOMAIN nodes : Kind(nodes[i]) \in kinds}
Defining(nodes) == {i \in DOMAIN nodes : DirectSubject(nodes[i]) # 0}
DefinedOver(n) == {k \in BlocksOver(n) : DirectSubject(k) # 0}

\* The frames over a node, in the order in which they were opened.
HoldsFrames(s, n) ==
    /\ Len(s) \in Nat /\ DOMAIN s = 1 .. Len(s)
    /\ \A i \in 1 .. Len(s) : s[i] \in Over(n) \cap FramedNodes /\ s[i] \in Nat
    /\ \A i, j \in 1 .. Len(s) : i < j => s[i] < s[j]
    /\ \A x \in Over(n) \cap FramedNodes : \E i \in 1 .. Len(s) : s[i] = x

\* The frames above a node, by their positions.
LEMMA FramePositions ==
    ASSUME tree \in Shapes, NEW n \in Nodes, NEW s, s = FramedAbove(n)
    PROVE  HoldsFrames(s, n)
<1>1. s \in Seq(Nodes) /\ Increasing(s) /\ Elements(s) = Over(n) \cap FramedNodes /\ Nodes \subseteq Nat
  BY FramedAboveIs, TreeFacts
<1>2. Len(s) \in Nat /\ DOMAIN s = 1 .. Len(s) /\ \A i \in 1 .. Len(s) : s[i] \in Nat
  <2>1. s \in Seq(Nat)
    BY <1>1, SeqMonotonic
  <2> QED
    BY <2>1
<1>3. \A i \in 1 .. Len(s) : s[i] \in Over(n) \cap FramedNodes
  BY <1>1 DEF Elements
<1>4. \A x \in Over(n) \cap FramedNodes : \E i \in 1 .. Len(s) : s[i] = x
  BY <1>1 DEF Elements
<1> QED
  BY <1>1, <1>2, <1>3, <1>4 DEF Increasing, HoldsFrames

\* A frame of an example or a hook is a block of one.
LEMMA UsedIs ==
    ASSUME tree \in Shapes, NEW n \in Nodes, NEW kinds \in SUBSET Framed
    PROVE  At(FramedAbove(n), kinds) # {} <=> \E e \in BlocksOver(n) : Kind(e) \in kinds
<1>1. PICK s : s = FramedAbove(n)
  OBVIOUS
<1>2. \A k : k \in BlocksOver(n) /\ Kind(k) \in kinds <=> k \in Over(n) \cap FramedNodes /\ Kind(k) \in kinds
  <2>1. "each" \notin kinds
    BY DEF Framed, Roles, SpecGroups, Examples, Lets, Bangs, Subjects
  <2> QED
    BY <2>1, BlocksAre
<1>3. ASSUME NEW i \in At(s, kinds) PROVE \E e \in BlocksOver(n) : Kind(e) \in kinds
  <2>1. i \in 1 .. Len(s) /\ Kind(s[i]) \in kinds
    BY <1>1, FramePositions DEF At, HoldsFrames
  <2>2. s[i] \in Over(n) \cap FramedNodes
    BY <1>1, <2>1, FramePositions DEF HoldsFrames
  <2> QED
    BY <1>2, <2>1, <2>2
<1>4. ASSUME NEW e \in BlocksOver(n), Kind(e) \in kinds PROVE At(s, kinds) # {}
  <2>1. e \in Over(n) \cap FramedNodes
    BY <1>2, <1>4
  <2>2. PICK i \in 1 .. Len(s) : s[i] = e
    BY <1>1, <2>1, FramePositions DEF HoldsFrames
  <2>3. DOMAIN s = 1 .. Len(s)
    BY <1>1, FramePositions DEF HoldsFrames
  <2> QED
    BY <1>4, <2>2, <2>3 DEF At
<1> QED
  BY <1>1, <1>3, <1>4

\* No shared group is around the outermost example or hook just when one of them
\* has none around it.
LEMMA SharedIs ==
    ASSUME tree \in Shapes, NEW n \in Nodes
    PROVE  (/\ At(FramedAbove(n), Users) # {}
            /\ \A i \in At(FramedAbove(n), {"sharedGroup"}) : Min(At(FramedAbove(n), Users)) < i)
           <=> \E e \in BlocksOver(n) : /\ Kind(e) \in Users
                                        /\ \A k \in BlocksOver(e) : Kind(k) # "sharedGroup"
<1>1. PICK s, used, shared : s = FramedAbove(n) /\ used = At(s, Users) /\ shared = At(s, {"sharedGroup"})
  OBVIOUS
<1>2. PICK l \in Nat : l = Len(s)
  BY <1>1, FramePositions DEF HoldsFrames
<1>3. /\ DOMAIN s = 1 .. l
      /\ \A i \in 1 .. l : s[i] \in Over(n) /\ s[i] \in FramedNodes /\ s[i] \in Nat
      /\ \A i, j \in 1 .. l : i < j => s[i] < s[j]
      /\ \A x \in Over(n) \cap FramedNodes : \E i \in 1 .. l : s[i] = x
  BY <1>1, <1>2, FramePositions DEF HoldsFrames
<1>4. used = {i \in 1 .. l : Kind(s[i]) \in Users} /\ shared = {i \in 1 .. l : Kind(s[i]) = "sharedGroup"}
  BY <1>1, <1>3 DEF At
<1>5. /\ Users \subseteq Framed /\ "sharedGroup" \in Framed /\ "each" \notin Framed
      /\ "sharedGroup" \notin Users
  BY DEF Users, Framed, Roles, SpecGroups, Examples, Lets, Bangs, Subjects
<1>6. ASSUME NEW i \in 1 .. l PROVE s[i] \in Nodes /\ (s[i] \in BlocksOver(n))
  BY <1>3, <1>6, BlocksAre
<1>7. ASSUME used # {}, \A i \in shared : Min(used) < i
      PROVE  \E e \in BlocksOver(n) : Kind(e) \in Users /\ \A k \in BlocksOver(e) : Kind(k) # "sharedGroup"
  <2>1. PICK j \in used : j = Min(used) /\ j \in 1 .. l
    BY <1>4, <1>7, FirstAndLast
  <2>2. PICK e : e = s[j] /\ e \in Nodes /\ e \in Over(n) /\ e \in BlocksOver(n) /\ Kind(e) \in Users /\ e \in Nat
    BY <1>3, <1>4, <1>6, <2>1
  <2>3. ASSUME NEW k \in BlocksOver(e), Kind(k) = "sharedGroup" PROVE FALSE
    <3>1. k \in Over(e) /\ k \in FramedNodes
      BY <1>5, <2>2, <2>3, BlocksAre
    <3>2. k \in Over(n) /\ k < e /\ k \in Nat
      BY <2>2, <3>1, OverInOver, OverIs, TreeFacts
    <3>3. PICK i \in 1 .. l : s[i] = k
      BY <1>3, <3>1, <3>2
    <3>4. j < i
      BY <1>4, <1>7, <2>1, <2>3, <3>3
    <3>5. e < k
      BY <1>3, <2>1, <2>2, <3>3, <3>4
    <3> QED
      BY <2>2, <3>2, <3>5
  <2> QED
    BY <2>2, <2>3
<1>8. ASSUME NEW e \in BlocksOver(n), Kind(e) \in Users, \A k \in BlocksOver(e) : Kind(k) # "sharedGroup",
             NEW i \in shared
      PROVE  Min(used) < i
  <2>1. e \in Over(n) \cap FramedNodes /\ e \in Nodes
    BY <1>5, <1>8, BlocksAre
  <2>2. PICK j \in 1 .. l : s[j] = e
    BY <1>3, <2>1
  <2>3. j \in used
    BY <1>4, <1>8, <2>2
  <2>4. PICK m : m = Min(used) /\ m \in used /\ m <= j /\ m \in 1 .. l
    BY <1>4, <2>3, FirstAndLast
  <2>5. i \in 1 .. l /\ Kind(s[i]) = "sharedGroup"
    BY <1>4, <1>8
  <2>6. i # m
    BY <1>4, <1>5, <2>4, <2>5
  <2>7. ASSUME i < m PROVE FALSE
    <3>1. i < j
      BY <2>4, <2>5, <2>7
    <3>2. s[i] < e /\ s[i] \in Over(n) /\ s[i] \in FramedNodes
      BY <1>3, <2>2, <2>5, <3>1
    <3>3. s[i] \in Over(e)
      BY <2>1, <3>2, OverOneAnother
    <3>4. s[i] \in BlocksOver(e)
      BY <2>1, <3>2, <3>3, BlocksAre
    <3> QED
      BY <1>8, <2>5, <3>4
  <2> QED
    BY <2>4, <2>5, <2>6, <2>7
<1>9. ASSUME NEW e \in BlocksOver(n), Kind(e) \in Users PROVE used # {}
  BY <1>1, <1>5, <1>9, UsedIs
<1> QED
  BY <1>1, <1>7, <1>8, <1>9

\* The innermost definition of a subject, when no block without a frame has one.
LEMMA DefinedIs ==
    ASSUME tree \in Shapes, NEW n \in Nodes,
           \A k \in Nodes : Kind(k) = "each" => DirectSubject(k) = 0
    PROVE  /\ Defining(FramedAbove(n)) # {} <=> DefinedOver(n) # {}
           /\ Defining(FramedAbove(n)) # {} =>
                 FramedAbove(n)[Max(Defining(FramedAbove(n)))] = Max(DefinedOver(n))
<1>1. PICK s, D, B : s = FramedAbove(n) /\ D = Defining(s) /\ B = DefinedOver(n)
  OBVIOUS
<1>2. PICK l \in Nat : l = Len(s)
  BY <1>1, FramePositions DEF HoldsFrames
<1>3. /\ DOMAIN s = 1 .. l
      /\ \A i \in 1 .. l : s[i] \in Over(n) \cap FramedNodes /\ s[i] \in Nat
      /\ \A i, j \in 1 .. l : i < j => s[i] < s[j]
      /\ \A x \in Over(n) \cap FramedNodes : \E i \in 1 .. l : s[i] = x
  BY <1>1, <1>2, FramePositions DEF HoldsFrames
<1>4. D = {i \in 1 .. l : DirectSubject(s[i]) # 0}
  BY <1>1, <1>3 DEF Defining
<1>5. B = {k \in Over(n) \cap FramedNodes : DirectSubject(k) # 0}
  <2>1. B = {k \in BlocksOver(n) : DirectSubject(k) # 0} /\ BlocksOver(n) \subseteq Nodes
    BY <1>1, BlocksAre DEF DefinedOver
  <2>2. \A k : k \in BlocksOver(n) /\ Kind(k) # "each" <=> k \in Over(n) \cap FramedNodes
    BY BlocksAre
  <2> QED
    BY <2>1, <2>2
<1>6. ASSUME NEW k \in B PROVE \E i \in D : s[i] = k
  BY <1>3, <1>4, <1>5
<1>7. ASSUME NEW i \in D PROVE s[i] \in B
  BY <1>3, <1>4, <1>5
<1>8. ASSUME D # {} PROVE s[Max(D)] = Max(B)
  <2>1. PICK m : m = Max(D) /\ m \in D /\ \A i \in D : i <= m
    BY <1>4, <1>8, FirstAndLast
  <2>2. B \subseteq Nat
    BY <1>3, <1>6, <1>4
  <2>3. ASSUME NEW k \in B PROVE k <= s[m]
    <3>1. PICK i \in D : s[i] = k
      BY <1>6
    <3>2. i <= m /\ i \in 1 .. l /\ m \in 1 .. l
      BY <1>4, <2>1
    <3>3. i = m \/ i < m
      BY <3>2
    <3>4. i < m => s[i] < s[m]
      BY <1>3, <3>2
    <3>5. s[i] \in Nat /\ s[m] \in Nat
      BY <1>3, <3>2
    <3> QED
      BY <3>1, <3>3, <3>4, <3>5
  <2>4. s[m] \in B
    BY <1>7, <2>1
  <2> QED
    BY <2>1, <2>2, <2>3, <2>4, MaxIs
<1>9. D # {} <=> B # {}
  BY <1>6, <1>7
<1> QED
  BY <1>1, <1>8, <1>9

\* The same references are named.
LEMMA NamedIs ==
    ASSUME tree \in Shapes, ~OutsideFrames, NEW n \in Nodes
    PROVE  IsNamed(n) <=> n \in StockNamedSubject
<1>1. PICK s, used, shared, D, B :
         /\ s = FramedAbove(n) /\ used = At(s, Users) /\ shared = At(s, {"sharedGroup"})
         /\ D = Defining(s) /\ B = DefinedOver(n)
  OBVIOUS
<1>2. NamedSubject(s) <=>
         /\ used # {}
         /\ "IgnoreSharedExamples" \in tree.options => \A i \in shared : Min(used) < i
         /\ "NamedOnly" \in tree.options => D # {} /\ Kind(DirectSubject(s[Max(D)])) = "subjectC"
  <2>1. /\ used = {i \in DOMAIN s : Kind(s[i]) \in Examples \cup {"hook"}}
        /\ shared = {i \in DOMAIN s : Kind(s[i]) = "sharedGroup"}
        /\ D = {i \in DOMAIN s : DirectSubject(s[i]) # 0}
    BY <1>1 DEF At, Users, Defining
  <2> QED
    BY <2>1 DEF NamedSubject
<1>3. n \in StockNamedSubject <=>
         /\ Kind(n) \in {"subjectRef", "subject"}
         /\ \E e \in BlocksOver(n) :
               /\ Kind(e) \in Users
               /\ ~("IgnoreSharedExamples" \in tree.options /\ \E k \in BlocksOver(e) : Kind(k) = "sharedGroup")
         /\ "NamedOnly" \in tree.options => B # {} /\ Kind(DirectSubject(Max(B))) = "subjectC"
  <2>1. B = {k \in BlocksOver(n) : DirectSubject(k) # 0}
    BY <1>1 DEF DefinedOver
  <2>2. n \in DOMAIN tree.kind
    BY TreeFacts DEF Nodes
  <2> QED
    BY <2>1, <2>2 DEF StockNamedSubject, Users
<1>4. Users \subseteq Framed
  BY DEF Users, Framed, Roles, SpecGroups, Examples, Lets, Bangs, Subjects
<1>5. used # {} <=> \E e \in BlocksOver(n) : Kind(e) \in Users
  BY <1>1, <1>4, UsedIs
<1>6. (used # {} /\ \A i \in shared : Min(used) < i)
         <=> \E e \in BlocksOver(n) : Kind(e) \in Users /\ \A k \in BlocksOver(e) : Kind(k) # "sharedGroup"
  BY <1>1, SharedIs
<1>7. ASSUME "NamedOnly" \in tree.options
      PROVE  (D # {} <=> B # {}) /\ (D # {} => s[Max(D)] = Max(B))
  <2>1. \A k \in Nodes : Kind(k) = "each" => DirectSubject(k) = 0
    <3>1. Nodes = DOMAIN tree.kind
      BY TreeFacts DEF Nodes
    <3> QED
      BY <1>7, <3>1 DEF OutsideFrames
  <2> QED
    BY <1>1, <2>1, DefinedIs
<1>8. IsNamed(n) <=> Kind(n) \in {"subjectRef", "subject"} /\ NamedSubject(s)
  BY <1>1 DEF IsNamed
<1>9. PICK ignore : ignore \in BOOLEAN /\ (ignore <=> "IgnoreSharedExamples" \in tree.options)
  OBVIOUS
<1>10. (used # {} /\ (ignore => \A i \in shared : Min(used) < i))
         <=> \E e \in BlocksOver(n) :
               Kind(e) \in Users /\ ~(ignore /\ \E k \in BlocksOver(e) : Kind(k) = "sharedGroup")
  <2>1. CASE ignore
    BY <1>6, <2>1
  <2>2. CASE ~ignore
    BY <1>5, <2>2
  <2> QED
    BY <2>1, <2>2
<1>11. ("NamedOnly" \in tree.options => D # {} /\ Kind(DirectSubject(s[Max(D)])) = "subjectC")
         <=> ("NamedOnly" \in tree.options => B # {} /\ Kind(DirectSubject(Max(B))) = "subjectC")
  BY <1>7
<1> QED
  BY <1>2, <1>3, <1>8, <1>9, <1>10, <1>11

\* The arena at the end of a walk: a frame for every node that gets one.
Full(s) ==
    /\ RSpecTyped(s) /\ ParentsAre(s)
    /\ ScopesAre(s, Len(tree.kind)) /\ ContentsAre(s, Len(tree.kind))

\* The frame of a node, and its items.
LEMMA FullIs ==
    ASSUME tree \in Shapes, NEW s, Full(s)
    PROVE  /\ Len(s.scopes) \in Nat /\ DOMAIN s.scopes = 1 .. Len(s.scopes)
           /\ \A j \in 1 .. Len(s.scopes) :
                 /\ s.scopes[j].node \in FramedNodes /\ s.scopes[j].node \in Nodes
                 /\ s.scopes[j].parent \in 0 .. j - 1
           /\ \A j, k \in 1 .. Len(s.scopes) : s.scopes[j].node = s.scopes[k].node => j = k
           /\ \A x \in FramedNodes : \E j \in 1 .. Len(s.scopes) : s.scopes[j].node = x
<1>1. RSpecTyped(s) /\ ScopesAre(s, Len(tree.kind)) /\ ParentsAre(s)
  BY DEF Full
<1>2. Len(tree.kind) \in Nat /\ Nodes = 1 .. Len(tree.kind) /\ FramedNodes \subseteq Nodes
  BY TreeFacts DEF FramedNodes
<1>3. PICK t \in Seq(ScopeType) : t = s.scopes
  <2>1. s.scopes \in Seq(ScopeType)
    BY <1>1 DEF RSpecTyped
  <2> QED
    BY <2>1
<1>4. PICK l \in Nat : l = Len(t) /\ DOMAIN t = 1 .. l
  OBVIOUS
<1>5. /\ \A j \in 1 .. l : t[j].node \in FramedNodes /\ t[j].node <= Len(tree.kind)
      /\ \A j, k \in 1 .. l : j < k => t[j].node < t[k].node
      /\ \A x \in FramedNodes : x <= Len(tree.kind) => \E j \in 1 .. l : t[j].node = x
  <2>1. PICK m \in Nat : m = Len(tree.kind)
    BY <1>2
  <2>2. ScopesAre(s, m)
    BY <1>1, <2>1
  <2>3. /\ \A j \in 1 .. Len(s.scopes) : s.scopes[j].node \in FramedNodes /\ s.scopes[j].node <= m
        /\ \A j, k \in 1 .. Len(s.scopes) : j < k => s.scopes[j].node < s.scopes[k].node
        /\ \A x \in FramedNodes : x <= m => \E j \in 1 .. Len(s.scopes) : s.scopes[j].node = x
    <3>1. RSpecTyped(s)
      BY <1>1
    <3> QED
      BY <2>2, <3>1, ScopeNodesAre
  <2> QED
    BY <1>3, <1>4, <2>1, <2>3, Zenon
<1>6. ASSUME NEW j \in 1 .. l PROVE t[j].parent \in 0 .. j - 1
  <2>1. t[j].parent \in Nat
    <3>1. t[j] \in ScopeType
      BY <1>4
    <3> QED
      BY <3>1 DEF ScopeType
  <2>2. t[j].parent < j
    BY <1>1, <1>3, <1>4 DEF ParentsAre
  <2> QED
    BY <2>1, <2>2
<1>7. ASSUME NEW j \in 1 .. l, NEW k \in 1 .. l, t[j].node = t[k].node PROVE j = k
  <2>1. t[j].node \in Nat /\ t[k].node \in Nat
    BY <1>2, <1>5
  <2>2. ~(j < k) /\ ~(k < j)
    BY <1>5, <1>7, <2>1
  <2> QED
    BY <2>2
<1>8. \A x \in FramedNodes : \E j \in 1 .. l : t[j].node = x
  BY <1>2, <1>5
<1> QED
  BY <1>2, <1>3, <1>4, <1>5, <1>6, <1>7, <1>8

\* The frames over a frame are its parent's, and the parent.
LEMMA ParentScope ==
    ASSUME tree \in Shapes, NEW s, Full(s), NEW j \in 1 .. Len(s.scopes),
           NEW q, q = s.scopes[j].parent, NEW x \in FramedNodes
    PROVE  x \in Over(s.scopes[j].node)
              <=> q # 0 /\ (x = s.scopes[q].node \/ x \in Over(s.scopes[q].node))
<1>1. PICK n : n = s.scopes[j].node /\ n \in Nodes
  BY FullIs
<1>2. PICK a : a = FramedAbove(n)
  OBVIOUS
<1>3. IF a = <<>> THEN q = 0 ELSE q # 0 /\ s.scopes[q].node = Last(a)
  BY <1>1, <1>2 DEF Full, ParentsAre
<1>4. /\ Len(a) \in Nat
      /\ \A i \in 1 .. Len(a) : a[i] \in Over(n) \cap FramedNodes /\ a[i] \in Nat
      /\ \A i, k \in 1 .. Len(a) : i < k => a[i] < a[k]
      /\ \A y \in Over(n) \cap FramedNodes : \E i \in 1 .. Len(a) : a[i] = y
  <2>1. HoldsFrames(a, n)
    BY <1>1, <1>2, FramePositions
  <2> QED
    BY <2>1 DEF HoldsFrames
<1>5. CASE a = <<>>
  <2>1. x \notin Over(n)
    BY <1>4, <1>5
  <2> QED
    BY <1>1, <1>3, <1>5, <2>1
<1>6. CASE a # <<>>
  <2>1. Len(a) # 0
    <3>1. a \in Seq(Nodes)
      BY <1>1, <1>2, FramedAboveIs
    <3> QED
      BY <1>6, <3>1
  <2>2. PICK l \in Nat \ {0} : l = Len(a)
    BY <1>4, <2>1
  <2>3. PICK g : g = a[l]
    OBVIOUS
  <2>4. s.scopes[q].node = g /\ q # 0
    BY <1>3, <1>6, <2>2, <2>3 DEF Last
  <2>5. g \in Over(n) /\ g \in FramedNodes /\ g \in Nat
    BY <1>4, <2>2, <2>3
  <2>6. ASSUME x \in Over(n) PROVE x = g \/ x \in Over(g)
    <3>1. PICK i \in 1 .. l : a[i] = x
      BY <1>4, <2>2, <2>6
    <3>2. i = l \/ a[i] < a[l]
      BY <1>4, <2>2, <3>1
    <3>3. x = g \/ x < g
      BY <2>3, <3>1, <3>2
    <3> QED
      BY <1>1, <2>5, <2>6, <3>3, OverOneAnother
  <2>7. ASSUME x = g \/ x \in Over(g) PROVE x \in Over(n)
    BY <1>1, <2>5, <2>7, OverInOver
  <2> QED
    BY <1>1, <2>4, <2>6, <2>7
<1> QED
  BY <1>5, <1>6

-----------------------------------------------------------------------------

Outers(s, f) ==
    f = [i \in 0 .. Len(s.scopes) |-> IF i = 0 THEN {} ELSE {i} \cup f[s.scopes[i].parent]]

\* The chain of the parents is defined for every frame.
LEMMA OutersDefined ==
    ASSUME tree \in Shapes, NEW s, Full(s)
    PROVE  \E f : Outers(s, f)
<1>1. PICK n \in Nat : n = Len(s.scopes)
  BY FullIs
<1>2. PICK t : t = s.scopes
  OBVIOUS
<1> DEFINE V == SUBSET (1 .. n)
           q == [j \in 1 .. n |-> t[j].parent]
           G == [c \in (1 .. n) \X V |-> {c[1]} \cup c[2]]
<1>3. \A j \in 1 .. n : q[j] = t[j].parent /\ q[j] \in 0 .. j - 1
  BY <1>1, <1>2, FullIs
<1>4. \A j \in 1 .. n : \A v \in V : G[<<j, v>>] = {j} \cup v /\ G[<<j, v>>] \in V
  OBVIOUS
<1>5. {} \in V
  OBVIOUS
<1> HIDE DEF G, q, V
<1>6. RecursiveStep(n, V, q, G)
  BY <1>3, <1>4 DEF RecursiveStep
<1>7. PICK f : SolvesRecursion(f, n, V, {}, q, G)
  BY <1>5, <1>6, Recursion
<1>8. f \in [0 .. n -> V] /\ f[0] = {}
  BY <1>7 DEF SolvesRecursion
<1>9. ASSUME NEW j \in 1 .. n PROVE f[j] = {j} \cup f[t[j].parent]
  <2>1. q[j] \in 0 .. n /\ q[j] = t[j].parent
    BY <1>3
  <2>2. f[j] = G[<<j, f[q[j]]>>]
    BY <1>7 DEF SolvesRecursion
  <2>3. f[q[j]] \in V
    BY <1>8, <2>1
  <2> QED
    BY <1>4, <2>1, <2>2, <2>3
<1> DEFINE g == [i \in 0 .. n |-> IF i = 0 THEN {} ELSE {i} \cup f[t[i].parent]]
<1>10. ASSUME NEW i \in 0 .. n PROVE f[i] = g[i]
  <2>1. CASE i = 0
    BY <1>8, <2>1
  <2>2. CASE i \in 1 .. n
    BY <1>9, <2>2
  <2> QED
    BY <2>1, <2>2
<1>11. f = g
  <2>1. DOMAIN f = 0 .. n /\ DOMAIN g = 0 .. n /\ f = [i \in 0 .. n |-> f[i]]
    BY <1>8
  <2> HIDE DEF g
  <2>2. g = [i \in 0 .. n |-> g[i]]
    BY DEF g
  <2> QED
    BY <1>10, <2>1, <2>2
<1> QED
  BY <1>1, <1>2, <1>11 DEF Outers

\* The frames further out are those of the nodes above.
LEMMA OuterScopesAre ==
    ASSUME tree \in Shapes, NEW s, Full(s), NEW j \in 1 .. Len(s.scopes)
    PROVE  OuterScopes(s, j) = {k \in 1 .. Len(s.scopes) : s.scopes[k].node \in Over(s.scopes[j].node)}
<1> DEFINE g == CHOOSE g : Outers(s, g)
<1>1. Outers(s, g)
  BY OutersDefined
<1>2. OuterScopes(s, j) = g[s.scopes[j].parent]
  BY DEF OuterScopes, Outers
<1> HIDE DEF g
<1>3. PICK n \in Nat : n = Len(s.scopes)
  BY FullIs
<1>4. PICK t : t = s.scopes
  OBVIOUS
<1>5. g = [i \in 0 .. n |-> IF i = 0 THEN {} ELSE {i} \cup g[t[i].parent]]
  BY <1>1, <1>3, <1>4 DEF Outers
<1>6. g[0] = {} /\ \A i \in 1 .. n : g[i] = {i} \cup g[t[i].parent]
  <2>1. 0 \in 0 .. n
    OBVIOUS
  <2>2. \A i \in 0 .. n : g[i] = IF i = 0 THEN {} ELSE {i} \cup g[t[i].parent]
    BY <1>5
  <2>3. ASSUME NEW i \in 1 .. n PROVE g[i] = {i} \cup g[t[i].parent]
    <3>1. i \in 0 .. n /\ i # 0
      OBVIOUS
    <3> QED
      BY <2>2, <3>1
  <2>4. g[0] = {}
    BY <2>1, <2>2
  <2> QED
    BY <2>3, <2>4
<1>7. /\ \A i \in 1 .. n : t[i].node \in FramedNodes /\ t[i].parent \in 0 .. i - 1
      /\ \A i, k \in 1 .. n : t[i].node = t[k].node => i = k
  BY <1>3, <1>4, FullIs
<1>8. ASSUME NEW i \in 1 .. n, NEW k \in 1 .. n
      PROVE  t[k].node \in Over(t[i].node)
                <=> /\ t[i].parent # 0
                    /\ k = t[i].parent \/ t[k].node \in Over(t[t[i].parent].node)
  <2>1. PICK q : q = t[i].parent /\ q \in 0 .. n
    BY <1>7
  <2>2. t[k].node \in Over(t[i].node) <=> q # 0 /\ (t[k].node = t[q].node \/ t[k].node \in Over(t[q].node))
    <3>1. PICK x : x = t[k].node /\ x \in FramedNodes
      BY <1>7
    <3>2. i \in 1 .. Len(s.scopes) /\ q = s.scopes[i].parent
      BY <1>3, <1>4, <2>1
    <3>3. x \in Over(s.scopes[i].node) <=> q # 0 /\ (x = s.scopes[q].node \/ x \in Over(s.scopes[q].node))
      BY <3>1, <3>2, ParentScope
    <3> QED
      BY <1>4, <3>1, <3>3
  <2>3. ASSUME q # 0 PROVE t[k].node = t[q].node <=> k = q
    <3>1. q \in 1 .. n
      BY <2>1, <2>3
    <3> QED
      BY <1>7, <3>1
  <2> QED
    BY <2>1, <2>2, <2>3
<1> DEFINE S == {i \in Nat : i \in 1 .. n =>
                    g[i] = {i} \cup {k \in 1 .. n : t[k].node \in Over(t[i].node)}}
<1>9. ASSUME NEW i \in 1 .. n, t[i].parent \in S
      PROVE  g[t[i].parent] = {k \in 1 .. n : t[k].node \in Over(t[i].node)}
  <2>1. PICK q : q = t[i].parent /\ q \in 0 .. n
    BY <1>7
  <2>2. CASE q = 0
    BY <1>6, <1>8, <2>1, <2>2
  <2>3. CASE q # 0
    <3>1. q \in 1 .. n
      BY <2>1, <2>3
    <3>2. g[q] = {q} \cup {k \in 1 .. n : t[k].node \in Over(t[q].node)}
      BY <1>9, <2>1, <3>1
    <3>3. \A k \in 1 .. n : t[k].node \in Over(t[i].node) <=> k = q \/ t[k].node \in Over(t[q].node)
      BY <1>8, <2>1, <2>3
    <3>4. {q} \cup {k \in 1 .. n : t[k].node \in Over(t[q].node)}
             = {k \in 1 .. n : t[k].node \in Over(t[i].node)}
      BY <3>1, <3>3
    <3> QED
      BY <2>1, <3>2, <3>4, Zenon
  <2> QED
    BY <2>2, <2>3
<1>10. ASSUME NEW i \in Nat, \A k \in Nat : k < i => k \in S
       PROVE  i \in S
  <2> SUFFICES ASSUME i \in 1 .. n
               PROVE  g[i] = {i} \cup {k \in 1 .. n : t[k].node \in Over(t[i].node)}
    OBVIOUS
  <2>1. t[i].parent \in S
    <3>1. PICK q : q = t[i].parent /\ q \in 0 .. i - 1
      BY <1>7
    <3>2. q \in Nat /\ q < i
      BY <3>1
    <3> QED
      BY <1>10, <3>1, <3>2
  <2> QED
    BY <1>6, <1>9, <2>1
<1> HIDE DEF S
<1>11. \A i \in Nat : i \in S
  BY <1>10, NatSetStrong
<1>12. t[j].parent \in S
  BY <1>3, <1>7, <1>11
<1> QED
  BY <1>2, <1>3, <1>4, <1>9, <1>12

\* At the end every frame has what the stock cops find from its node.
LEMMA ItemsAre ==
    ASSUME tree \in Shapes, NEW s, Full(s), NEW j \in 1 .. Len(s.scopes), NEW g, g = s.scopes[j].node
    PROVE  /\ ToSet(s.scopes[j].lets) = FindAllInScope(g, Lets)
           /\ ToSet(s.scopes[j].subjects) = FindAllInScope(g, Subjects)
           /\ s.scopes[j].examples = Filter(UpTo(Len(tree.kind)), FindAllInScope(g, Examples))
<1>1. PICK m \in Nat : m = Len(tree.kind) /\ Nodes = 1 .. m
  BY TreeFacts
<1>2. \A query \in Queries : s.scopes[j][query] = Found(g, query, m)
  BY <1>1 DEF Full, ContentsAre
<1>3. Items("lets") = Lets /\ Items("subjects") = Subjects /\ Items("examples") = Examples
  BY DEF Items
<1>4. /\ s.scopes[j].lets = Filter(UpTo(m), FindAllInScope(g, Lets))
      /\ s.scopes[j].subjects = Filter(UpTo(m), FindAllInScope(g, Subjects))
      /\ s.scopes[j].examples = Filter(UpTo(m), FindAllInScope(g, Examples))
  BY <1>2, <1>3 DEF Queries, Found
<1>5. ASSUME NEW S, S \subseteq Nodes PROVE ToSet(Filter(UpTo(m), S)) = S
  <2>1. PICK f : f = Filter(UpTo(m), S)
    OBVIOUS
  <2>2. f \in Seq(Nat) /\ Elements(f) = 1 .. m \cap S
    BY <2>1, FilterUpToIs
  <2>3. ToSet(f) = Elements(f)
    BY <2>2 DEF ToSet, Elements
  <2> QED
    BY <1>1, <1>5, <2>1, <2>2, <2>3
<1>6. \A items : FindAllInScope(g, items) \subseteq Nodes
  BY DEF FindAllInScope, Below, Nodes
<1> QED
  BY <1>1, <1>4, <1>5, <1>6

\* All between a node and one below it is below it.
LEMMA BetweenIs ==
    ASSUME tree \in Shapes, NEW n \in Nodes, NEW e \in Nodes, n \in Over(e),
           NEW a \in Nodes, n < a, a <= e
    PROVE  n \in Over(a)
<1>1. PICK p, N : p = tree.parent /\ N = Len(p) /\ N \in Nat /\ Nodes = 1 .. N
  BY TreeFacts
<1>2. ASSUME NEW j \in 2 .. N
      PROVE  /\ p[j] \in 1 .. j - 1 /\ p[j] \in Nodes /\ Over(j) = Over(p[j]) \cup {p[j]}
             /\ \A i \in p[j] + 1 .. j : p[i] >= p[j]
  <2>1. p[j] \in 1 .. j - 1 /\ \A i \in p[j] + 1 .. j : p[i] >= p[j]
    BY <1>1, TreeFacts
  <2>2. j \in Nodes /\ p[j] # 0
    BY <1>1, <2>1
  <2>3. p[j] \in Nodes /\ Over(j) = Over(p[j]) \cup {p[j]}
    BY <1>1, <2>2, OverIs
  <2> QED
    BY <2>1, <2>3
<1> DEFINE S == {j \in Nat : j \in Nodes /\ n \in Over(j) => \A i \in n + 1 .. j : p[i] >= n}
<1>3. ASSUME NEW j \in Nat, \A k \in Nat : k < j => k \in S
      PROVE  j \in S
  <2> SUFFICES ASSUME j \in Nodes, n \in Over(j), NEW i \in n + 1 .. j PROVE p[i] >= n
    OBVIOUS
  <2>1. j \in 2 .. N /\ n \in Nat /\ i \in Nat
    <3>1. n \in 1 .. j - 1
      BY OverIs
    <3> QED
      BY <1>1, <3>1
  <2>2. PICK u : u = p[j] /\ u \in 1 .. j - 1 /\ u \in Nodes /\ Over(j) = Over(u) \cup {u}
    BY <1>2, <2>1
  <2>3. CASE n = u
    BY <1>2, <2>1, <2>2, <2>3
  <2>4. CASE n \in Over(u)
    <3>1. n < u
      BY <2>2, <2>4, OverIs
    <3>2. CASE i <= u
      <4>1. u \in S
        BY <1>3, <2>2
      <4>2. i \in n + 1 .. u
        BY <2>1, <2>2, <3>2
      <4> QED
        BY <2>2, <2>4, <4>1, <4>2
    <3>3. CASE u < i
      <4>1. p[i] >= u
        BY <1>2, <2>1, <2>2, <3>3
      <4>2. p[i] \in Nat
        <5>1. i \in 2 .. N
          BY <1>1, <2>1, <2>2, <3>3
        <5> QED
          BY <1>2, <5>1
      <4> QED
        BY <2>1, <2>2, <3>1, <4>1, <4>2
    <3> QED
      BY <2>1, <2>2, <3>2, <3>3
  <2> QED
    BY <2>2, <2>3, <2>4
<1> HIDE DEF S
<1>4. \A j \in Nat : j \in S
  BY <1>3, NatSetStrong
<1>5. \A i \in n + 1 .. e : p[i] >= n
  <2>1. e \in Nat /\ e \in S
    BY <1>1, <1>4
  <2> QED
    BY <2>1 DEF S
<1> DEFINE T == {i \in Nat : i \in n + 1 .. e => n \in Over(i)}
<1>6. ASSUME NEW i \in Nat, \A k \in Nat : k < i => k \in T
      PROVE  i \in T
  <2> SUFFICES ASSUME i \in n + 1 .. e PROVE n \in Over(i)
    OBVIOUS
  <2>1. i \in 2 .. N /\ n \in Nat /\ e \in Nat
    BY <1>1
  <2>2. PICK u : u = p[i] /\ u \in 1 .. i - 1 /\ u \in Nodes /\ Over(i) = Over(u) \cup {u}
    BY <1>2, <2>1
  <2>3. u >= n
    BY <1>5, <2>2
  <2>4. CASE u = n
    BY <2>2, <2>4
  <2>5. CASE u # n
    <3>1. u \in n + 1 .. e
      BY <2>1, <2>2, <2>3, <2>5
    <3>2. u \in T
      BY <1>6, <2>2
    <3> QED
      BY <2>2, <3>1, <3>2
  <2> QED
    BY <2>4, <2>5
<1> HIDE DEF T
<1>7. \A i \in Nat : i \in T
  BY <1>6, NatSetStrong
<1>8. a \in T /\ a \in n + 1 .. e
  BY <1>1, <1>7
<1> QED
  BY <1>8 DEF T

-----------------------------------------------------------------------------
(* The search for a call, in the order of the text.                        *)

\* At a node or over it.
LEMMA UnderOrAtIs ==
    ASSUME NEW k \in Nodes, NEW n \in Nodes
    PROVE  /\ UnderOrAt(k, n) <=> k = n \/ k \in Over(n)
           /\ n \in Below(tree.parent, k) <=> k \in Over(n)
BY DEF UnderOrAt, Below, Over, Nodes

\* A node stands after one that is visited after it if it is in a condition for
\* which the other is not.
LEMMA TurnedIs ==
    ASSUME tree \in Shapes, NEW k \in Nodes, NEW n \in Nodes
    PROVE  Turned(k, n) <=>
              \E c \in Nodes : /\ LateCondition(c) /\ (c = k \/ c \in Over(k))
                               /\ tree.parent[c] \in Nodes /\ tree.parent[c] \in Over(n)
                               /\ ~(c = n \/ c \in Over(n))
<1>1. DOMAIN tree.kind = Nodes
  BY TreeFacts
<1>2. ASSUME NEW c \in Nodes, LateCondition(c) PROVE tree.parent[c] \in Nodes
  BY <1>2, OverIs DEF LateCondition
<1>3. ASSUME NEW c \in Nodes, tree.parent[c] \in Nodes
      PROVE  n \in Below(tree.parent, tree.parent[c]) <=> tree.parent[c] \in Over(n)
  BY <1>3, UnderOrAtIs
<1>4. ASSUME NEW c \in Nodes
      PROVE  (UnderOrAt(c, k) <=> c = k \/ c \in Over(k)) /\ (UnderOrAt(c, n) <=> c = n \/ c \in Over(n))
  BY UnderOrAtIs
<1> QED
  BY <1>1, <1>2, <1>3, <1>4 DEF Turned

\* A call in no condition stands before what comes after it in the walk, and
\* before the conditions it is visited after.
LEMMA CallBefore ==
    ASSUME tree \in Shapes, ~TurnedCall, NEW a \in CallNodes, NEW n \in Nodes
    PROVE  /\ StartsBefore(a, n) <=> a < n \/ Turned(n, a)
           /\ \A c \in Nodes : LateCondition(c) => c # a /\ c \notin Over(a)
<1>1. a \in Nodes /\ Kind(a) = "callA" /\ DOMAIN tree.kind = Nodes
  BY TreeFacts DEF CallNodes
<1>2. ASSUME NEW c \in Nodes, LateCondition(c) PROVE c # a /\ c \notin Over(a)
  BY <1>1, <1>2, UnderOrAtIs DEF TurnedCall
<1>3. ~Turned(a, n)
  BY <1>1, <1>2, TurnedIs
<1> QED
  BY <1>2, <1>3 DEF StartsBefore

\* What is bisected is the first call that is not before the node.
LEMMA PartitionIs ==
    ASSUME NEW positions \in Seq(Nat), NEW n
    PROVE  /\ PartitionPoint(positions, n) \in 0 .. Len(positions)
           /\ PartitionPoint(positions, n) > 0 => StartsBefore(positions[PartitionPoint(positions, n)], n)
           /\ PartitionPoint(positions, n) < Len(positions)
                 => ~StartsBefore(positions[PartitionPoint(positions, n) + 1], n)
<1> DEFINE T == {i \in 0 .. Len(positions) : i < Len(positions) => ~StartsBefore(positions[i + 1], n)}
<1>1. PICK l \in Nat : l = Len(positions)
  OBVIOUS
<1>2. l \in T /\ T \subseteq Nat
  BY <1>1
<1>3. PICK i \in T : \A j \in T : i <= j
  BY <1>2, LeastNumber
<1>4. i \in 0 .. l /\ (i < l => ~StartsBefore(positions[i + 1], n))
  BY <1>1, <1>3
<1>5. ASSUME i > 0 PROVE StartsBefore(positions[i], n)
  <2>1. i - 1 \in 0 .. l /\ i - 1 < l /\ ~(i <= i - 1) /\ (i - 1) + 1 = i
    BY <1>4, <1>5
  <2>2. i - 1 \notin T
    BY <1>3, <2>1
  <2> QED
    BY <1>1, <2>1, <2>2
<1>6. \E k \in 0 .. Len(positions) :
        (k > 0 => StartsBefore(positions[k], n)) /\ (k < Len(positions) => ~StartsBefore(positions[k + 1], n))
  BY <1>1, <1>4, <1>5
<1> QED
  BY <1>6 DEF PartitionPoint

\* Where no condition that is visited early has a call in it, the search finds
\* the call in a group, if there is one.
LEMMA CalledWithinIs ==
    ASSUME tree \in Shapes, ~TurnedCall, NEW s, s.calls = Filter(UpTo(Len(tree.kind)), CallNodes),
           NEW g \in FramedNodes
    PROVE  CalledWithin(s, g) <=> \E k \in Below(tree.parent, g) : Kind(k) = "callA"
<1>1. PICK calls, l : calls = s.calls /\ l = Len(calls)
  OBVIOUS
<1>2. /\ calls \in Seq(Nat) /\ l \in Nat
      /\ \A i \in 1 .. l : calls[i] \in CallNodes
      /\ \A a \in CallNodes : \E i \in 1 .. l : calls[i] = a
      /\ \A i, j \in 1 .. l : i < j => calls[i] < calls[j]
  <2>1. Nodes = 1 .. Len(tree.kind) /\ Len(tree.kind) \in Nat
    BY TreeFacts
  <2>2. calls \in Seq(Nat) /\ Increasing(calls) /\ Elements(calls) = 1 .. Len(tree.kind) \cap CallNodes
    BY <1>1, <2>1, FilterUpToIs
  <2>3. Elements(calls) = CallNodes
    BY <2>1, <2>2 DEF CallNodes
  <2> QED
    BY <1>1, <2>2, <2>3 DEF Elements, Increasing
<1>3. PICK from : from = PartitionPoint(calls, g)
  OBVIOUS
<1>4. /\ from \in 0 .. l /\ (from > 0 => StartsBefore(calls[from], g))
      /\ from < l => ~StartsBefore(calls[from + 1], g)
  BY <1>1, <1>2, <1>3, PartitionIs
<1>5. CalledWithin(s, g) <=>
         from < l /\ \E k \in Nodes : UnderOrAt(g, k) /\ (k = calls[from + 1] \/ StartsBefore(calls[from + 1], k))
  BY <1>1, <1>3, TreeFacts DEF CalledWithin
<1>6. /\ g \in Nodes /\ g \in Nat /\ CallNodes \subseteq Nodes /\ CallNodes \subseteq Nat /\ g \notin CallNodes
      /\ \A k \in Nodes : k \in Nat /\ (k \in Below(tree.parent, g) <=> g \in Over(k))
  <2>1. g \in Nodes /\ Kind(g) # "callA"
    BY DEF FramedNodes, Framed, Roles, SpecGroups, Examples, Lets, Bangs, Subjects
  <2> QED
    BY <2>1, UnderOrAtIs, TreeFacts DEF CallNodes
<1>7. Below(tree.parent, g) \subseteq Nodes
  BY DEF Below, Nodes
<1>8. ASSUME CalledWithin(s, g) PROVE \E k \in CallNodes : g \in Over(k)
  <2>1. PICK a : a = calls[from + 1]
    OBVIOUS
  <2>2. from < l /\ from + 1 \in 1 .. l
    BY <1>2, <1>4, <1>5, <1>8
  <2>3. a \in CallNodes /\ ~StartsBefore(a, g)
    BY <1>2, <1>4, <2>1, <2>2
  <2>4. ~(a < g) /\ ~Turned(g, a) /\ g < a
    BY <1>6, <2>3, CallBefore
  <2>5. PICK k \in Nodes : UnderOrAt(g, k) /\ (k = a \/ StartsBefore(a, k))
    BY <1>5, <1>8, <2>1
  <2>6. g = k \/ g \in Over(k)
    BY <1>6, <2>5, UnderOrAtIs
  <2>7. CASE k = a
    BY <1>6, <2>3, <2>6, <2>7
  <2>8. CASE a < k
    <3>1. g \in Over(k) /\ a <= k
      BY <1>6, <2>3, <2>4, <2>6, <2>8
    <3> QED
      BY <1>6, <2>3, <2>4, <3>1, BetweenIs
  <2>9. CASE Turned(k, a)
    <3>1. PICK c \in Nodes : /\ LateCondition(c) /\ (c = k \/ c \in Over(k))
                             /\ tree.parent[c] \in Nodes /\ tree.parent[c] \in Over(a)
                             /\ ~(c = a \/ c \in Over(a))
      BY <1>6, <2>3, <2>9, TurnedIs
    <3>2. ~(c = g \/ c \in Over(g))
      BY <1>6, <2>3, <2>4, <3>1, TurnedIs
    <3>3. g \in Over(c)
      <4>1. CASE c = k
        BY <2>6, <3>2, <4>1
      <4>2. CASE c \in Over(k)
        <5>1. g \in Over(k)
          BY <2>6, <3>2, <4>2
        <5>2. c \in Nat /\ c # g /\ ~(c < g)
          BY <1>6, <3>2, <4>2, <5>1, OverOneAnother
        <5>3. g < c
          BY <1>6, <5>2
        <5> QED
          BY <4>2, <5>1, <5>3, OverOneAnother
      <4> QED
        BY <3>1, <4>1, <4>2
    <3>4. g = tree.parent[c] \/ g \in Over(tree.parent[c])
      <4>1. Over(c) = Over(tree.parent[c]) \cup {tree.parent[c]}
        BY <3>1, OverIs DEF LateCondition
      <4> QED
        BY <3>3, <4>1
    <3>5. g \in Over(a)
      BY <1>6, <2>3, <3>1, <3>4, OverInOver
    <3> QED
      BY <2>3, <3>5
  <2> QED
    BY <2>3, <2>5, <2>7, <2>8, <2>9, CallBefore
<1>9. ASSUME NEW b \in CallNodes, g \in Over(b) PROVE CalledWithin(s, g)
  <2>1. g < b
    <3>1. g \in 1 .. b - 1 /\ b \in Nat
      BY <1>6, <1>9, OverIs
    <3> QED
      BY <3>1
  <2>2. ASSUME NEW a \in CallNodes PROVE ~Turned(g, a)
    <3>1. SUFFICES ASSUME Turned(g, a) PROVE FALSE
      OBVIOUS
    <3>2. PICK c \in Nodes : LateCondition(c) /\ (c = g \/ c \in Over(g))
      BY <1>6, <3>1, TurnedIs
    <3>3. c \in Over(b)
      BY <1>6, <1>9, <3>2, OverInOver
    <3> QED
      BY <3>2, <3>3, CallBefore
  <2>3. PICK j \in 1 .. l : calls[j] = b
    BY <1>2
  <2>4. ~(from >= j)
    <3>1. SUFFICES ASSUME from >= j PROVE FALSE
      OBVIOUS
    <3>2. from \in 1 .. l /\ StartsBefore(calls[from], g) /\ calls[from] \in CallNodes
      BY <1>2, <1>4, <3>1
    <3>3. calls[from] < g
      BY <1>6, <2>2, <3>2, CallBefore
    <3>4. from = j \/ calls[j] < calls[from]
      BY <1>2, <3>1, <3>2
    <3>5. b \in Nat /\ g \in Nat /\ calls[from] \in Nat
      BY <1>6, <3>2
    <3> QED
      BY <2>1, <2>3, <3>3, <3>4, <3>5
  <2>5. from < l /\ from + 1 \in 1 .. l /\ (from + 1 = j \/ from + 1 < j)
    BY <1>2, <1>4, <2>4
  <2>6. PICK a : a = calls[from + 1] /\ a \in CallNodes /\ ~StartsBefore(a, g)
    BY <1>2, <1>4, <2>5
  <2>7. ~(a < g) /\ a # g /\ g < a
    BY <1>6, <2>6, CallBefore
  <2>8. a = b \/ a < b
    BY <1>2, <2>3, <2>5, <2>6
  <2>9. g \in Over(a)
    <3>1. a <= b
      BY <1>6, <2>6, <2>8
    <3> QED
      BY <1>6, <1>9, <2>6, <2>7, <3>1, BetweenIs
  <2>10. UnderOrAt(g, a) /\ a \in Nodes
    BY <1>6, <2>6, <2>9, UnderOrAtIs
  <2> QED
    BY <1>5, <2>5, <2>6, <2>10
<1>10. CalledWithin(s, g) <=> \E k \in CallNodes : g \in Over(k)
  BY <1>8, <1>9
<1>11. (\E k \in CallNodes : g \in Over(k)) <=> \E k \in Below(tree.parent, g) : Kind(k) = "callA"
  BY <1>6, <1>7 DEF CallNodes
<1> QED
  BY <1>10, <1>11

-----------------------------------------------------------------------------

BangsOf(g) == {l \in FindAllInScope(g, Lets) : Kind(l) \in Bangs}

\* A group of which no let! is called, and none around has let! of its own.
Quiet(g) ==
    /\ Kind(g) \in ScopeChanges
    /\ \A j \in Below(tree.parent, g) : Kind(j) # "callA"
    /\ \A o \in Over(g) : Kind(o) \in ScopeChanges => BangsOf(o) = {}

\* LetSetup reports the same.
LEMMA LetSetupIs ==
    ASSUME tree \in Shapes, NEW s, Full(s), s.calls = Filter(UpTo(Len(tree.kind)), CallNodes), ~TurnedCall
    PROVE  LetSetup(s) = StockLetSetup
<1>1. PICK n, t : n = Len(s.scopes) /\ t = s.scopes /\ n \in Nat /\ DOMAIN t = 1 .. n
  BY FullIs
<1>2. /\ \A j \in 1 .. n : t[j].node \in FramedNodes /\ t[j].node \in Nodes
      /\ \A x \in FramedNodes : \E j \in 1 .. n : t[j].node = x
  BY <1>1, FullIs
<1>3. ScopeChanges \subseteq Framed /\ DOMAIN tree.kind = Nodes
  <2>1. ScopeChanges \subseteq Framed
    BY DEF ScopeChanges, SpecGroups, Framed, Roles
  <2> QED
    BY <2>1, TreeFacts DEF Nodes
<1>4. StockLetSetup = UNION {BangsOf(g) : g \in {k \in Nodes : Quiet(k)}}
  <2>1. StockLetSetup =
           UNION {BangsOf(g) : g \in {k \in {x \in Nodes : Kind(x) \in ScopeChanges} :
                /\ \A j \in Below(tree.parent, k) : Kind(j) # "callA"
                /\ \A o \in Over(k) \cap {x \in Nodes : Kind(x) \in ScopeChanges} : BangsOf(o) = {}}}
    BY <1>3 DEF StockLetSetup, BangsOf, Over
  <2>2. ASSUME NEW k \in Nodes
        PROVE  Quiet(k) <=>
                  /\ k \in {x \in Nodes : Kind(x) \in ScopeChanges}
                  /\ \A j \in Below(tree.parent, k) : Kind(j) # "callA"
                  /\ \A o \in Over(k) \cap {x \in Nodes : Kind(x) \in ScopeChanges} : BangsOf(o) = {}
    <3>1. Over(k) \subseteq Nodes
      BY OverIs
    <3> QED
      BY <3>1 DEF Quiet
  <2> QED
    BY <2>1, <2>2
<1> DEFINE Changes == {j \in 1 .. n : Kind(t[j].node) \in ScopeChanges}
           BangsAt(j) == {l \in ToSet(t[j].lets) : Kind(l) \in Bangs}
           OverBangs(j) == \E i \in OuterScopes(s, j) \cap Changes : BangsAt(i) # {}
           Called(j) == CalledWithin(s, t[j].node)
<1>5. LetSetup(s) = UNION {BangsAt(j) : j \in {i \in Changes : ~OverBangs(i) /\ ~Called(i)}}
  BY <1>1 DEF LetSetup
<1>6. ASSUME NEW j \in 1 .. n PROVE BangsAt(j) = BangsOf(t[j].node)
  <2>1. ToSet(t[j].lets) = FindAllInScope(t[j].node, Lets)
    BY <1>1, ItemsAre
  <2> QED
    BY <2>1 DEF BangsOf
<1>7. ASSUME NEW j \in 1 .. n
      PROVE  Called(j) <=> \E k \in Below(tree.parent, t[j].node) : Kind(k) = "callA"
  <2>1. t[j].node \in FramedNodes
    BY <1>2
  <2> QED
    BY <2>1, CalledWithinIs
<1>8. ASSUME NEW j \in 1 .. n
      PROVE  OverBangs(j) <=> \E o \in Over(t[j].node) : Kind(o) \in ScopeChanges /\ BangsOf(o) # {}
  <2>1. OuterScopes(s, j) = {k \in 1 .. n : t[k].node \in Over(t[j].node)}
    BY <1>1, OuterScopesAre
  <2>2. OverBangs(j) <=> \E i \in 1 .. n : t[i].node \in Over(t[j].node) /\ Kind(t[i].node) \in ScopeChanges
                                       /\ BangsOf(t[i].node) # {}
    BY <1>6, <2>1
  <2>3. Over(t[j].node) \subseteq Nodes
    BY <1>2, OverIs
  <2>4. \A o \in Over(t[j].node) : Kind(o) \in ScopeChanges => \E i \in 1 .. n : t[i].node = o
    BY <1>2, <1>3, <2>3 DEF FramedNodes
  <2> HIDE DEF OverBangs
  <2> QED
    BY <2>2, <2>4
<1> HIDE DEF Called, OverBangs, BangsAt
<1>9. ASSUME NEW j \in 1 .. n PROVE j \in Changes /\ ~OverBangs(j) /\ ~Called(j) <=> Quiet(t[j].node)
  BY <1>7, <1>8 DEF Quiet
<1>10. \A e : e \in LetSetup(s) <=> \E j \in 1 .. n : Quiet(t[j].node) /\ e \in BangsOf(t[j].node)
  BY <1>5, <1>6, <1>9
<1>11. \A k \in Nodes : Quiet(k) => \E j \in 1 .. n : t[j].node = k
  BY <1>2, <1>3 DEF Quiet, FramedNodes
<1>12. \A e : e \in StockLetSetup <=> \E k \in Nodes : Quiet(k) /\ e \in BangsOf(k)
  BY <1>4
<1>13. \A e : e \in LetSetup(s) <=> e \in StockLetSetup
  BY <1>2, <1>10, <1>11, <1>12
<1> QED
  BY <1>13

\* So does RepeatedExampleGroups.
LEMMA ExampleGroupsAre ==
    ASSUME tree \in Shapes, NEW s, Full(s)
    PROVE  RepeatedExampleGroups(s) = StockExampleGroups
<1>1. PICK n, t : n = Len(s.scopes) /\ t = s.scopes /\ n \in Nat /\ DOMAIN t = 1 .. n
  BY FullIs
<1>2. /\ \A j \in 1 .. n : t[j].node \in FramedNodes /\ t[j].node \in Nodes
      /\ \A x \in FramedNodes : \E j \in 1 .. n : t[j].node = x
  BY <1>1, FullIs
<1>3. DOMAIN tree.kind = Nodes
  BY TreeFacts DEF Nodes
<1> DEFINE F(g) == Filter(UpTo(Len(tree.kind)), FindAllInScope(g, Examples))
<1>4. \A j \in 1 .. n : t[j].examples = F(t[j].node)
  BY <1>1, ItemsAre
<1>5. StockExampleGroups = {<<g, F(g)>> : g \in {k \in Nodes : Kind(k) = "group" /\ Len(F(k)) >= 2}}
  BY <1>3 DEF StockExampleGroups
<1>6. RepeatedExampleGroups(s) =
         {<<t[j].node, t[j].examples>> :
             j \in {i \in 1 .. n : Kind(t[i].node) = "group" /\ Len(t[i].examples) >= 2}}
  BY <1>1 DEF RepeatedExampleGroups
<1> HIDE DEF F
<1>7. RepeatedExampleGroups(s) =
         {<<t[j].node, F(t[j].node)>> :
             j \in {i \in 1 .. n : Kind(t[i].node) = "group" /\ Len(F(t[i].node)) >= 2}}
  BY <1>4, <1>6
<1>8. \A k \in Nodes : Kind(k) = "group" => \E j \in 1 .. n : t[j].node = k
  <2>1. "group" \in Framed
    BY DEF Framed, Roles, SpecGroups
  <2> QED
    BY <1>2, <2>1 DEF FramedNodes
<1> QED
  BY <1>2, <1>5, <1>7, <1>8

\* What is found from a block without a frame is found from the innermost frame
\* around it.
LEMMA FoundOutside ==
    ASSUME tree \in Shapes, NEW items \in {Lets, Subjects}, NEW x \in Nodes, Kind(x) = "each",
           Over(x) \cap FramedNodes # {}
    PROVE  \E b \in Over(x) \cap FramedNodes : FindAllInScope(x, items) \subseteq FindAllInScope(b, items)
<1>1. x \in Nat /\ Over(x) \subseteq 1 .. x - 1 /\ Over(x) \subseteq Nodes /\ Nodes \subseteq Nat
  BY OverIs, TreeFacts
<1>2. PICK T : T = Over(x) \cap FramedNodes /\ T \subseteq 1 .. x - 1 /\ T # {} /\ x - 1 \in Nat
  <2>1. Over(x) \cap FramedNodes \subseteq 1 .. x - 1
    BY <1>1
  <2>2. x - 1 \in Nat
    BY TreeFacts
  <2> QED
    BY <2>1, <2>2
<1>3. PICK b \in T : \A y \in T : y <= b
  BY <1>2, GreatestNumber
<1>4. PICK stop : stop = ScopeChanges \cup Examples \cup items
  OBVIOUS
<1>5. /\ stop \subseteq Framed \cup {"bangSendA"} /\ "each" \notin stop
  BY <1>4 DEF ScopeChanges, SpecGroups, Examples, Lets, Bangs, Subjects, Framed, Roles
<1>6. ASSUME NEW n \in FindAllInScope(x, items) PROVE n \in FindAllInScope(b, items)
  <2>1. /\ n \in Nodes /\ x \in Over(n) /\ Kind(n) \in items
        /\ \A m \in Over(n) : x \in Over(m) => Kind(m) \notin stop
    <3>1. n \in Below(tree.parent, x) /\ Kind(n) \in items
          /\ \A m \in Over(n) \cap Below(tree.parent, x) : Kind(m) \notin stop
      BY <1>4 DEF FindAllInScope, Over
    <3>2. n \in Nodes /\ x \in Over(n)
      BY <3>1 DEF Below, Over, Nodes
    <3>3. Over(n) \subseteq Nodes
      BY <3>2, OverIs
    <3>4. \A m \in Nodes : x \in Over(m) => m \in Below(tree.parent, x)
      BY DEF Below, Over, Nodes
    <3> QED
      BY <3>1, <3>2, <3>3, <3>4
  <2>2. b \in Over(n)
    BY <1>2, <2>1, OverInOver
  <2>3. ASSUME NEW m \in Over(n), b \in Over(m), Kind(m) \in stop PROVE FALSE
    <3>1. m \in Nodes /\ m \in Nat /\ Over(m) \subseteq 1 .. m - 1
      BY <2>1, OverIs, TreeFacts
    <3>2. b < m
      BY <2>3, <3>1
    <3>3. m # x
      BY <1>5, <2>3
    <3>4. x \notin Over(m)
      BY <2>1, <2>3
    <3>5. m < x
      BY <1>1, <2>1, <3>1, <3>3, <3>4, OverOneAnother
    <3>6. m \in Over(x)
      BY <2>1, <3>5, OverOneAnother
    <3>7. Kind(m) # "bangSendA"
      BY <3>1, <3>6, NothingBelow
    <3>8. m \in T
      BY <1>2, <1>5, <2>3, <3>1, <3>6, <3>7 DEF FramedNodes
    <3> QED
      BY <1>2, <1>3, <3>1, <3>2, <3>8
  <2>4. n \in Below(tree.parent, b)
    BY <2>1, <2>2 DEF Below, Over, Nodes
  <2>5. \A m \in Over(n) \cap Below(tree.parent, b) : Kind(m) \notin stop
    BY <2>3 DEF Below, Over
  <2> QED
    BY <1>4, <2>1, <2>4, <2>5 DEF FindAllInScope, Over
<1> QED
  BY <1>2, <1>3, <1>6

\* The helpers of a block.
HelpersOf(k) ==
    FindAllInScope(k, Lets)
        \cup (IF "CountSubjects" \in tree.options THEN FindAllInScope(k, Subjects) ELSE {})

\* The helpers of a group are those of the frames around it.
LEMMA HelpersAre ==
    ASSUME tree \in Shapes, ~OutsideFrames, NEW s, Full(s), NEW j \in 1 .. Len(s.scopes),
           NEW g, g = s.scopes[j].node
    PROVE  HelperNodes(s, j) = UNION {HelpersOf(k) : k \in {g} \cup BlocksOver(g)}
<1>1. PICK n, t : n = Len(s.scopes) /\ t = s.scopes /\ n \in Nat /\ DOMAIN t = 1 .. n
  BY FullIs
<1>2. /\ g \in Nodes /\ g \in FramedNodes /\ g = t[j].node
      /\ \A i \in 1 .. n : t[i].node \in FramedNodes
      /\ \A x \in FramedNodes : \E i \in 1 .. n : t[i].node = x
      /\ \A i \in 1 .. n : t[i].node = g => i = j
  BY <1>1, FullIs
<1>3. \A i \in 1 .. n : ToSet(t[i].lets) \cup
                           (IF "CountSubjects" \in tree.options THEN ToSet(t[i].subjects) ELSE {})
                        = HelpersOf(t[i].node)
  BY <1>1, ItemsAre DEF HelpersOf
<1>4. {j} \cup OuterScopes(s, j) = {i \in 1 .. n : t[i].node \in {g} \cup Over(g)}
  <2>1. OuterScopes(s, j) = {k \in 1 .. n : t[k].node \in Over(g)}
    BY <1>1, OuterScopesAre
  <2> QED
    BY <1>1, <1>2, <2>1
<1> DEFINE Has(i) == ToSet(t[i].lets) \cup
                        (IF "CountSubjects" \in tree.options THEN ToSet(t[i].subjects) ELSE {})
<1>5. \A e : e \in HelperNodes(s, j)
               <=> \E i \in 1 .. n : t[i].node \in {g} \cup Over(g) /\ e \in HelpersOf(t[i].node)
  <2>1. HelperNodes(s, j) = UNION {Has(i) : i \in {j} \cup OuterScopes(s, j)}
    BY <1>1 DEF HelperNodes
  <2>2. \A i \in 1 .. n : Has(i) = HelpersOf(t[i].node)
    BY <1>3
  <2> HIDE DEF Has
  <2>3. \A e : e \in HelperNodes(s, j) <=> \E i \in {j} \cup OuterScopes(s, j) : e \in Has(i)
    BY <2>1
  <2> QED
    BY <1>4, <2>2, <2>3
<1>6. \A e : e \in HelperNodes(s, j)
               <=> \E k \in FramedNodes : k \in {g} \cup Over(g) /\ e \in HelpersOf(k)
  BY <1>2, <1>5
<1>7. \A k : k \in BlocksOver(g) /\ Kind(k) # "each" <=> k \in Over(g) \cap FramedNodes
  BY <1>2, BlocksAre
<1>8. ASSUME NEW x \in BlocksOver(g), Kind(x) = "each", NEW e \in HelpersOf(x)
      PROVE  \E k \in FramedNodes : k \in Over(g) /\ e \in HelpersOf(k)
  <2>1. x \in Over(g) /\ x \in Nodes
    BY <1>2, BlocksAre
  <2>2. PICK items \in {Lets, Subjects} :
           /\ e \in FindAllInScope(x, items)
           /\ items = Subjects => "CountSubjects" \in tree.options
    <3>1. Lets # Subjects
      <4>1. "letA" \in Lets /\ "letA" \notin Subjects
        BY DEF Lets, Subjects
      <4> QED
        BY <4>1
    <3>2. CASE e \in FindAllInScope(x, Lets)
      BY <3>1, <3>2
    <3>3. CASE e \notin FindAllInScope(x, Lets)
      BY <1>8, <3>3 DEF HelpersOf
    <3> QED
      BY <3>2, <3>3
  <2>3. Over(x) \cap FramedNodes # {}
    <3>1. DOMAIN tree.kind = Nodes
      BY TreeFacts DEF Nodes
    <3>2. FindAllInScope(x, Lets) \cup FindAllInScope(x, Subjects) # {}
      BY <2>2
    <3>3. PICK b \in BlocksOver(x) : Kind(b) \in Framed
      BY <1>8, <2>1, <3>1, <3>2 DEF OutsideFrames
    <3>4. Kind(b) # "each"
      BY <3>3 DEF Framed, Roles, SpecGroups, Examples, Lets, Bangs, Subjects
    <3> QED
      BY <2>1, <3>3, <3>4, BlocksAre
  <2>4. PICK b \in Over(x) \cap FramedNodes : FindAllInScope(x, items) \subseteq FindAllInScope(b, items)
    BY <1>8, <2>1, <2>3, FoundOutside
  <2>5. b \in Over(g)
    BY <1>2, <2>1, <2>4, OverInOver
  <2>6. e \in HelpersOf(b)
    BY <2>2, <2>4 DEF HelpersOf
  <2> QED
    BY <2>4, <2>5, <2>6
<1>9. \A e : e \in UNION {HelpersOf(k) : k \in {g} \cup BlocksOver(g)}
               <=> \E k \in {g} \cup BlocksOver(g) : e \in HelpersOf(k)
  OBVIOUS
<1>10. \A e : e \in HelperNodes(s, j) <=> e \in UNION {HelpersOf(k) : k \in {g} \cup BlocksOver(g)}
  BY <1>2, <1>6, <1>7, <1>8, <1>9
<1> QED
  BY <1>10

\* MultipleMemoizedHelpers counts the same.
LEMMA MemoizedHelpersAre ==
    ASSUME tree \in Shapes, ~OutsideFrames, NEW s, Full(s)
    PROVE  MultipleMemoizedHelpers(s) = StockHelpers
<1>1. PICK n, t : n = Len(s.scopes) /\ t = s.scopes /\ n \in Nat /\ DOMAIN t = 1 .. n
  BY FullIs
<1>2. /\ \A j \in 1 .. n : t[j].node \in FramedNodes /\ t[j].node \in Nodes
      /\ \A x \in FramedNodes : \E j \in 1 .. n : t[j].node = x
  BY <1>1, FullIs
<1>3. DOMAIN tree.kind = Nodes
  BY TreeFacts DEF Nodes
<1> DEFINE C(g) == Cardinality({VarDef(Kind(l)) : l \in UNION {HelpersOf(k) : k \in {g} \cup BlocksOver(g)}})
<1>4. StockHelpers = {<<g, C(g)>> : g \in {k \in Nodes : Kind(k) \in SpecGroups /\ C(k) > MaxHelpers}}
  BY <1>3 DEF StockHelpers, HelpersOf
<1>5. MultipleMemoizedHelpers(s) =
         {<<t[j].node, Cardinality({VarDef(Kind(l)) : l \in HelperNodes(s, j)})>> :
             j \in {i \in 1 .. n : Kind(t[i].node) \in SpecGroups
                                   /\ Cardinality({VarDef(Kind(l)) : l \in HelperNodes(s, i)}) > MaxHelpers}}
  BY <1>1 DEF MultipleMemoizedHelpers
<1>6. \A j \in 1 .. n : Cardinality({VarDef(Kind(l)) : l \in HelperNodes(s, j)}) = C(t[j].node)
  BY <1>1, HelpersAre
<1> HIDE DEF C
<1>7. MultipleMemoizedHelpers(s) =
         {<<t[j].node, C(t[j].node)>> :
             j \in {i \in 1 .. n : Kind(t[i].node) \in SpecGroups /\ C(t[i].node) > MaxHelpers}}
  BY <1>5, <1>6
<1>8. \A k \in Nodes : Kind(k) \in SpecGroups => \E j \in 1 .. n : t[j].node = k
  <2>1. SpecGroups \subseteq Framed
    BY DEF Framed, Roles, SpecGroups
  <2> QED
    BY <1>2, <2>1 DEF FramedNodes
<1> QED
  BY <1>2, <1>4, <1>7, <1>8

-----------------------------------------------------------------------------

\* On every tree without helpers under a block that is no word of the language,
\* the frames give at the end of the walk what the stock cops collect: the helper
\* counts, the example lists, the anonymous subjects and the names of variables,
\* and, where no condition of a modifier form has a call in it, the unused let!.
THEOREM ScopesFollowStock == CopsSpec => []ScopesAsStock
<1>1. ASSUME WalkInv, RSpecInv, todo = <<>>, ~OutsideFrames
      PROVE  /\ TurnedCall \/ LetSetup(rspec) = StockLetSetup
             /\ MultipleMemoizedHelpers(rspec) = StockHelpers
             /\ RepeatedExampleGroups(rspec) = StockExampleGroups
             /\ rspec.named = StockNamedSubject
             /\ rspec.variables = StockVariables
  <2>1. PICK s, m, above : s = rspec /\ m = Len(tree.kind) /\ above = frames[ClauseRule]
    OBVIOUS
  <2>2. tree \in Shapes /\ Nodes = 1 .. m /\ DOMAIN tree.kind = Nodes /\ RSpecInvAt(s, above, m)
    BY <1>1, <2>1, RSpecEnd
  <2>3. Full(s)
    BY <2>1, <2>2 DEF RSpecInvAt, Arena, Full
  <2>4. /\ s.calls = Filter(UpTo(m), CallNodes)
        /\ s.named = {k \in Nodes : IsNamed(k)}
        /\ s.variables = {k \in Nodes : IsCandidate(k)}
    BY <2>2 DEF RSpecInvAt, FactsAre
  <2>5. s.named = StockNamedSubject
    <3>1. StockNamedSubject \subseteq Nodes
      BY <2>2 DEF StockNamedSubject
    <3>2. \A k \in Nodes : IsNamed(k) <=> k \in StockNamedSubject
      BY <1>1, <2>2, NamedIs
    <3> QED
      BY <2>4, <3>1, <3>2
  <2>6. s.variables = StockVariables
    <3>1. \A k \in Nodes : IsCandidate(k) <=> Kind(k) \in Lets \cup {"subjectC"} /\ StockInsideGroup(k)
      BY <2>2, CandidateIs
    <3> QED
      BY <2>2, <2>4, <3>1 DEF StockVariables
  <2>7. TurnedCall \/ LetSetup(s) = StockLetSetup
    BY <2>1, <2>2, <2>3, <2>4, LetSetupIs
  <2>8. MultipleMemoizedHelpers(s) = StockHelpers
    BY <1>1, <2>2, <2>3, MemoizedHelpersAre
  <2>9. RepeatedExampleGroups(s) = StockExampleGroups
    BY <2>2, <2>3, ExampleGroupsAre
  <2> QED
    BY <2>1, <2>5, <2>6, <2>7, <2>8, <2>9
<1>2. WalkInv /\ RSpecInv => ScopesAsStock
  BY <1>1 DEF ScopesAsStock
<1> QED
  BY <1>2, CopsWalkInv, RSpecRunsLikeStock, PTL

-----------------------------------------------------------------------------
(* IndentationWidth: parts of the text.                                    *)

\* The nodes below, and the last of a node and those.
UnderNode(n) == Below(tree.parent, n)
EndOf(n) == Max({n} \cup UnderNode(n))

\* A node's part of the text: itself and all that is below it.
LEMMA ExtentIs ==
    ASSUME tree \in Shapes, NEW n \in Nodes
    PROVE  /\ Extent(n) = <<n, EndOf(n)>>
           /\ EndOf(n) \in Nodes /\ EndOf(n) \in Nat /\ n <= EndOf(n)
           /\ UnderNode(n) = {a \in Nodes : n \in Over(a)}
           /\ \A a \in Nodes : n <= a /\ a <= EndOf(n) <=> a = n \/ n \in Over(a)
<1>1. PICK p, N : p = tree.parent /\ N = Len(p) /\ N \in Nat /\ Nodes = 1 .. N /\ DOMAIN p = 1 .. N
  BY TreeFacts DEF Nodes
<1>2. UnderNode(n) = {a \in Nodes : n \in Over(a)}
  BY <1>1 DEF UnderNode, Below, Over
<1>3. PICK T : T = {n} \cup UnderNode(n)
  OBVIOUS
<1>4. n \in T /\ T \subseteq 1 .. N
  BY <1>1, <1>2, <1>3
<1>5. PICK x : x \in T /\ \A y \in T : y <= x
  BY <1>1, <1>4, GreatestNumber
<1>8. Max(T) = x
  <2>1. T \subseteq Nat
    BY <1>1, <1>4
  <2> QED
    BY <1>5, <2>1, MaxIs
<1>9. EndOf(n) = x
  BY <1>3, <1>8 DEF EndOf
<1>10. x \in Nodes /\ x \in Nat /\ n <= x /\ (x = n \/ n \in Over(x))
  BY <1>1, <1>2, <1>3, <1>4, <1>5
<1>11. ASSUME NEW a \in Nodes, n <= a, a <= x, a # n PROVE n \in Over(a)
  <2>1. n < a /\ n \in Nat
    BY <1>1, <1>11
  <2>2. n \in Over(x)
    BY <1>1, <1>10, <1>11, <2>1
  <2> QED
    BY <1>10, <1>11, <2>1, <2>2, BetweenIs
<1>12. ASSUME NEW a \in Nodes, n \in Over(a) PROVE n <= a /\ a <= x
  <2>1. n \in 1 .. a - 1
    BY <1>12, OverIs
  <2> QED
    BY <1>1, <1>2, <1>3, <1>5, <1>12, <2>1
<1>13. Extent(n) = <<n, EndOf(n)>>
  BY DEF Extent, EndOf, UnderNode
<1> QED
  BY <1>2, <1>9, <1>10, <1>11, <1>12, <1>13

-----------------------------------------------------------------------------
(* What is looked at, and where it would move.                             *)

\* What a node assigns or modifies.
Value(n) == Children(tree.parent, n)[1]

HandlerNodes(n) ==
    {k \in UnderNode(n) :
        /\ Class(tree, k) = "rescue" \/ Kind(k) \in {"beginElse", "ensure"}
        /\ \A a \in Over(k) \cap UnderNode(n) : Class(tree, a) = "rescue"}

\* The nodes whose bodies the rule looks at when it enters a node.
LookedAt(n) ==
    IF Kind(n) \in {"assign", "modifier"} THEN {Value(n)}
    ELSE IF Kind(n) \in Loops THEN {n}
    ELSE IF Kind(n) = "begin" THEN {n} \cup HandlerNodes(n) ELSE {}

\* A body is off its column, and no pattern allows it.
Off(n) == ShiftedLists(n) # {} /\ ~("AllowedPatterns" \in tree.options /\ Kind(n) = "whileAllowed")

Due == {x \in Nodes : Off(x) /\ \E n \in Nodes : x \in LookedAt(n)}

ListOf(n) == CHOOSE k \in ShiftedLists(n) : TRUE
RangeOf(n) == CorrectRange(n, ListOf(n))

\* What is assigned or modified is the first child.
LEMMA ValueIs ==
    ASSUME tree \in Shapes, NEW n \in Nodes, Kind(n) \in {"assign", "modifier"}
    PROVE  /\ Value(n) \in Nodes /\ tree.parent[Value(n)] = n /\ n < Value(n)
           /\ Over(Value(n)) = Over(n) \cup {n}
           /\ Class(tree, n) \in Branches
           /\ ShiftedLists(Value(n)) # {} => Kind(Value(n)) \in Loops
<1>1. PICK p : p = tree.parent /\ IsTree(p) /\ Nodes = DOMAIN p
  BY TreeFacts DEF Nodes
<1>2. PICK s : s = Children(p, n) /\ s \in Seq(Nodes) /\ Elements(s) = {j \in Nodes : p[j] = n}
  BY <1>1, ChildrenAre
<1>3. DOMAIN tree.kind = Nodes
  BY TreeFacts
<1>4. /\ Class(tree, n) \in Branches
      /\ \E k \in Nodes : p[k] = n
      /\ \A k, j \in Nodes : p[k] = n /\ p[j] = k /\ Kind(j) \in OffColumn => Kind(k) \in Loops
  BY <1>1, <1>3, WidthKindsAssumption DEF Kind
<1>5. Elements(s) # {}
  BY <1>2, <1>4
<1>6. Len(s) >= 1
  BY <1>2, <1>5 DEF Elements
<1>7. PICK v : v = Value(n) /\ v \in Elements(s)
  BY <1>1, <1>2, <1>6 DEF Value, Elements
<1>8. v \in Nodes /\ p[v] = n
  BY <1>2, <1>7
<1>9. n # 0
  BY TreeFacts
<1>10. n \in 1 .. v - 1 /\ Over(v) = Over(n) \cup {n}
  BY <1>1, <1>8, <1>9, OverIs
<1>11. n < v
  BY <1>1, <1>8, <1>10, TreeFacts
<1>12. ShiftedLists(v) # {} => Kind(v) \in Loops
  BY <1>1, <1>3, <1>4, <1>8 DEF ShiftedLists
<1> QED
  BY <1>1, <1>4, <1>7, <1>8, <1>10, <1>11, <1>12

\* The handlers of a begin, in their order.
LEMMA HandlersAre ==
    ASSUME tree \in Shapes, NEW n \in Nodes
    PROVE  /\ Handlers(n) \in Seq(Nodes) /\ Elements(Handlers(n)) = HandlerNodes(n)
           /\ Increasing(Handlers(n))
<1>1. PICK N : N = Len(tree.kind) /\ N \in Nat /\ Nodes = 1 .. N
  BY TreeFacts
<1>2. UnderNode(n) \subseteq Nodes
  BY ExtentIs
<1>3. UpTo(N) \in Seq(1 .. N) /\ Elements(UpTo(N)) = 1 .. N /\ Increasing(UpTo(N))
  BY <1>1, UpToIs
<1>4. Handlers(n) = Filter(UpTo(N), HandlerNodes(n))
  BY <1>1 DEF Handlers, HandlerNodes, UnderNode, Over
<1>5. UpTo(N) \in Seq(Nat)
  <2>1. 1 .. N \subseteq Nat
    OBVIOUS
  <2> QED
    BY <1>3, <2>1, SeqMonotonic
<1>6. Handlers(n) \in Seq(Nodes)
  BY <1>1, <1>3, <1>4, FilterType
<1>7. Elements(Handlers(n)) = Elements(UpTo(N)) \cap HandlerNodes(n)
  BY <1>3, <1>4, FilterElements
<1>8. Increasing(Handlers(n))
  BY <1>3, <1>4, <1>5, FilterIncreasing
<1>9. HandlerNodes(n) \subseteq Nodes
  BY <1>2 DEF HandlerNodes
<1> QED
  BY <1>1, <1>3, <1>6, <1>7, <1>8, <1>9

\* The list that is off its column, and what of it moves.
LEMMA RangeIs ==
    ASSUME tree \in Shapes, NEW x \in Nodes, ShiftedLists(x) # {}
    PROVE  /\ ListOf(x) \in Nodes /\ tree.parent[ListOf(x)] = x /\ Kind(ListOf(x)) \in OffColumn
           /\ Class(tree, ListOf(x)) # "rescue"
           /\ \E f \in Nodes, e \in Nat :
                 /\ RangeOf(x) = <<f, e>> /\ tree.parent[f] = ListOf(x) /\ f <= e
                 /\ Over(f) = Over(x) \cup {x, ListOf(x)}
                 /\ e = EndOf(f) \/ (Kind(x) = "begin" /\ e = EndOf(x))
<1>1. PICK p : p = tree.parent /\ IsTree(p) /\ Nodes = DOMAIN p /\ DOMAIN tree.kind = Nodes
               /\ 0 \notin Nodes /\ Nodes \subseteq Nat
  BY TreeFacts DEF Nodes
<1>2. PICK l : l = ListOf(x) /\ l \in Nodes /\ p[l] = x /\ Kind(l) \in OffColumn
  BY <1>1 DEF ListOf, ShiftedLists
<1>3. Class(tree, l) # "rescue" /\ \E k \in Nodes : p[k] = l
  BY <1>1, <1>2, WidthKindsAssumption DEF Kind
<1>4. PICK s : s = Children(p, l) /\ s \in Seq(Nodes) /\ Elements(s) = {j \in Nodes : p[j] = l}
  BY <1>1, ChildrenAre
<1>5. Elements(s) # {}
  BY <1>3, <1>4
<1>6. Len(s) >= 1
  BY <1>4, <1>5 DEF Elements
<1>7. PICK f : f = s[1] /\ f \in Elements(s)
  BY <1>4, <1>6 DEF Elements
<1>8. f \in Nodes /\ p[f] = l
  BY <1>4, <1>7
<1>9. Over(f) = Over(x) \cup {x, l}
  <2>1. Over(f) = Over(l) \cup {l}
    BY <1>1, <1>2, <1>8, OverIs
  <2>2. Over(l) = Over(x) \cup {x}
    BY <1>1, <1>2, OverIs
  <2> QED
    BY <2>1, <2>2
<1>10. /\ Extent(f) = <<f, EndOf(f)>> /\ EndOf(f) \in Nat /\ f <= EndOf(f)
       /\ Extent(x) = <<x, EndOf(x)>> /\ EndOf(x) \in Nat
       /\ \A a \in Nodes : a = x \/ x \in Over(a) => a <= EndOf(x)
  BY <1>8, ExtentIs
<1>11. f <= EndOf(x)
  BY <1>8, <1>9, <1>10
<1>12. RangeOf(x) = <<f, Extent(IF Kind(x) = "begin" /\ Handlers(x) # <<>> THEN x ELSE f)[2]>>
  BY <1>1, <1>2, <1>4, <1>7 DEF RangeOf, CorrectRange
<1>13. \E e \in Nat : /\ RangeOf(x) = <<f, e>> /\ f <= e
                      /\ e = EndOf(f) \/ (Kind(x) = "begin" /\ e = EndOf(x))
  <2>1. CASE Kind(x) = "begin" /\ Handlers(x) # <<>>
    BY <1>10, <1>11, <1>12, <2>1
  <2>2. CASE ~(Kind(x) = "begin" /\ Handlers(x) # <<>>)
    BY <1>10, <1>12, <2>2
  <2> QED
    BY <2>1, <2>2
<1> QED
  BY <1>1, <1>2, <1>3, <1>8, <1>9, <1>13

\* What is due is a loop, a begin or a handler of one.
LEMMA DueIs ==
    ASSUME tree \in Shapes, NEW x \in Due
    PROVE  /\ x \in Nodes /\ Off(x) /\ ShiftedLists(x) # {}
           /\ Kind(x) \notin OffColumn \cup {"assign", "modifier"}
           /\ \/ Kind(x) \in Loops \/ Kind(x) = "begin"
              \/ \E n \in Nodes : Kind(n) = "begin" /\ x \in HandlerNodes(n)
<1>1. x \in Nodes /\ Off(x) /\ ShiftedLists(x) # {}
  BY DEF Due, Off
<1>2. PICK n \in Nodes : x \in LookedAt(n)
  BY DEF Due
<1>3. DOMAIN tree.kind = Nodes
  BY TreeFacts
<1>4. Class(tree, x) = "rescue" => Kind(x) \notin OffColumn \cup {"assign", "modifier"}
  <2>1. "rescue" \notin Branches
    BY DEF Branches, ClassIndex
  <2> QED
    BY <1>1, <1>3, <2>1, WidthKindsAssumption DEF Kind
<1>5. CASE Kind(n) \in {"assign", "modifier"}
  <2>1. x = Value(n)
    BY <1>2, <1>5 DEF LookedAt
  <2>2. Kind(x) \in Loops
    BY <1>1, <1>5, <2>1, ValueIs
  <2> QED
    BY <1>1, <2>2 DEF Loops, OffColumn
<1>6. CASE Kind(n) \in Loops
  <2>1. x = n
    BY <1>2, <1>6 DEF LookedAt, Loops
  <2> QED
    BY <1>1, <1>6, <2>1 DEF Loops, OffColumn
<1>7. CASE Kind(n) = "begin"
  <2>1. x = n \/ x \in HandlerNodes(n)
    BY <1>2, <1>7 DEF LookedAt, Loops
  <2>2. CASE x = n
    BY <1>1, <1>7, <2>2 DEF OffColumn
  <2>3. CASE x \in HandlerNodes(n)
    <3>1. Class(tree, x) = "rescue" \/ Kind(x) \in {"beginElse", "ensure"}
      BY <2>3 DEF HandlerNodes
    <3>2. Kind(x) \notin OffColumn \cup {"assign", "modifier"}
      BY <1>4, <3>1 DEF OffColumn
    <3> QED
      BY <1>1, <1>7, <2>3, <3>2
  <2> QED
    BY <2>1, <2>2, <2>3
<1> QED
  BY <1>2, <1>5, <1>6, <1>7 DEF LookedAt

-----------------------------------------------------------------------------
(* The order in which they are looked at.                                  *)

\* Different bodies start at different places; of two ranges one inside the
\* other, the inner one is of a node below that of the outer one, in its list
\* unless that is a begin.
LEMMA RangeWithin ==
    ASSUME tree \in Shapes, NEW x \in Due, NEW y \in Due, x # y
    PROVE  /\ RangeOf(x)[1] \in Nat /\ RangeOf(x)[2] \in Nat /\ RangeOf(x)[1] # RangeOf(y)[1]
           /\ Within(RangeOf(x), RangeOf(y)) =>
                 y \in Over(x) /\ (Kind(y) = "begin" \/ ListOf(y) \in Over(x))
<1>1. /\ x \in Nodes /\ ShiftedLists(x) # {} /\ Kind(x) \notin OffColumn
      /\ y \in Nodes /\ ShiftedLists(y) # {} /\ Kind(y) \notin OffColumn
  BY DueIs
<1>2. PICK u : u = ListOf(x) /\ u \in Nodes /\ tree.parent[u] = x /\ Kind(u) \in OffColumn
  BY <1>1, RangeIs
<1>3. PICK v : v = ListOf(y) /\ v \in Nodes /\ tree.parent[v] = y /\ Kind(v) \in OffColumn
  BY <1>1, RangeIs
<1>4. PICK f \in Nodes, e \in Nat :
          /\ RangeOf(x) = <<f, e>> /\ tree.parent[f] = u /\ f <= e /\ Over(f) = Over(x) \cup {x, u}
  BY <1>1, <1>2, RangeIs
<1>5. PICK g \in Nodes, d \in Nat :
          /\ RangeOf(y) = <<g, d>> /\ tree.parent[g] = v /\ Over(g) = Over(y) \cup {y, v}
          /\ d = EndOf(g) \/ (Kind(y) = "begin" /\ d = EndOf(y))
  BY <1>1, <1>3, RangeIs
<1>6. PICK N : N \in Nat /\ Nodes = 1 .. N
  BY TreeFacts
<1>7. f # g
  BY <1>2, <1>3, <1>4, <1>5
<1>8. ASSUME Within(RangeOf(x), RangeOf(y))
      PROVE  y \in Over(x) /\ (Kind(y) = "begin" \/ v \in Over(x))
  <2>1. g <= f /\ e <= d
    BY <1>4, <1>5, <1>8 DEF Within
  <2>2. g < f /\ f <= d /\ f \in Nat /\ g \in Nat
    BY <1>4, <1>6, <1>7, <2>1
  <2>3. CASE d = EndOf(g)
    <3>1. g \in Over(f)
      BY <1>4, <1>5, <2>2, <2>3, ExtentIs
    <3>2. g # u
      BY <1>1, <1>2, <1>3, <1>5
    <3>3. g = x \/ g \in Over(x)
      BY <1>4, <3>1, <3>2
    <3>4. Over(g) \subseteq Over(x)
      BY <1>1, <3>3, OverInOver
    <3> QED
      BY <1>5, <3>4
  <2>4. CASE Kind(y) = "begin" /\ d = EndOf(y)
    <3>1. y \in 1 .. g - 1
      BY <1>5, OverIs
    <3>2. y <= f /\ y # f
      BY <1>6, <2>2, <3>1
    <3>3. y \in Over(f)
      BY <1>1, <1>4, <2>2, <2>4, <3>2, ExtentIs
    <3>4. y # u
      BY <1>1, <1>2
    <3> QED
      BY <1>4, <2>4, <3>3, <3>4
  <2> QED
    BY <1>5, <2>3, <2>4
<1> QED
  BY <1>3, <1>4, <1>5, <1>6, <1>7, <1>8

\* The outer one is above the assignment or the begin that has the inner one
\* looked at, if it is not that begin.
LEMMA OuterFirst ==
    ASSUME tree \in Shapes, NEW x \in Due, NEW y \in Due, x # y, Within(RangeOf(x), RangeOf(y)),
           NEW n \in Nodes, x \in LookedAt(n)
    PROVE  y \in Over(n) \/ (y = n /\ Kind(n) = "begin" /\ x \in HandlerNodes(n))
<1>1. /\ x \in Nodes /\ ShiftedLists(x) # {}
      /\ y \in Nodes /\ ShiftedLists(y) # {} /\ Kind(y) \notin {"assign", "modifier"}
  BY DueIs
<1>2. y \in Over(x) /\ (Kind(y) = "begin" \/ ListOf(y) \in Over(x))
  BY RangeWithin
<1>3. CASE Kind(n) \in {"assign", "modifier"}
  <2>1. x = Value(n)
    BY <1>3 DEF LookedAt
  <2>2. Over(x) = Over(n) \cup {n}
    BY <1>3, <2>1, ValueIs
  <2> QED
    BY <1>1, <1>2, <1>3, <2>2
<1>4. CASE x = n
  BY <1>2, <1>4
<1>5. CASE Kind(n) = "begin" /\ x \in HandlerNodes(n)
  <2>1. n \in Over(x) /\ x \in UnderNode(n)
    BY <1>1, <1>5, ExtentIs DEF HandlerNodes
  <2>2. DOMAIN tree.kind = Nodes /\ "rescue" \notin Branches
    BY TreeFacts DEF Branches, ClassIndex
  <2>3. CASE y \in Over(n) \/ y = n
    BY <1>5, <2>3
  <2>4. CASE y > n
    <3>1. n \in Over(y)
      BY <1>1, <1>2, <2>1, <2>4, OverOneAnother
    <3>2. Class(tree, y) = "rescue"
      BY <1>1, <1>2, <1>5, <3>1, ExtentIs DEF HandlerNodes
    <3>3. Kind(y) # "begin"
      BY <1>1, <2>2, <3>2, WidthKindsAssumption DEF Kind
    <3>4. PICK l : l = ListOf(y) /\ l \in Nodes /\ tree.parent[l] = y /\ Class(tree, l) # "rescue"
      BY <1>1, RangeIs
    <3>5. Over(l) = Over(y) \cup {y}
      <4>1. y # 0
        BY <1>1, TreeFacts
      <4> QED
        BY <3>4, <4>1, OverIs
    <3>6. l \in UnderNode(n)
      BY <3>1, <3>4, <3>5, ExtentIs
    <3>7. l \in Over(x)
      BY <1>2, <3>3, <3>4
    <3> QED
      BY <1>5, <3>4, <3>6, <3>7 DEF HandlerNodes
  <2>5. CASE y < n
    BY <1>1, <1>2, <2>1, <2>5, OverOneAnother
  <2>6. y \in Nat /\ n \in Nat
    BY <1>1, TreeFacts
  <2> QED
    BY <2>3, <2>4, <2>5, <2>6
<1> QED
  BY <1>3, <1>4, <1>5 DEF LookedAt

\* A body is looked at once, but for what is assigned or modified.
LEMMA LookedAtOnce ==
    ASSUME tree \in Shapes, NEW x \in Due, NEW k \in Nodes, NEW n \in Nodes,
           x \in LookedAt(k), x \in LookedAt(n), k < n
    PROVE  /\ Kind(k) \in {"assign", "modifier"} /\ x = Value(k)
           /\ n = x /\ Kind(n) \in Loops
<1>1. x \in Nodes /\ ShiftedLists(x) # {} /\ k \in Nat /\ n \in Nat /\ x \in Nat
  BY DueIs, TreeFacts
<1>2. DOMAIN tree.kind = Nodes /\ "rescue" \notin Branches
  BY TreeFacts DEF Branches, ClassIndex
<1>3. ASSUME NEW m \in Nodes, x \in LookedAt(m)
      PROVE  \/ Kind(m) \in {"assign", "modifier"} /\ x = Value(m) /\ Kind(x) \in Loops /\ tree.parent[x] = m
             \/ Kind(m) \in Loops /\ x = m
             \/ Kind(m) = "begin" /\ x = m
             \/ Kind(m) = "begin" /\ x \in HandlerNodes(m) /\ m \in Over(x)
  <2>1. x \in HandlerNodes(m) => m \in Over(x)
    BY <1>1, ExtentIs DEF HandlerNodes
  <2>2. CASE Kind(m) \in {"assign", "modifier"}
    BY <1>1, <1>3, <2>2, ValueIs DEF LookedAt
  <2> QED
    BY <1>3, <2>1, <2>2 DEF LookedAt
<1>4. \A m \in Nodes : x \in HandlerNodes(m) => Kind(x) \notin Loops \cup {"begin"}
  <2> SUFFICES ASSUME NEW m \in Nodes, x \in HandlerNodes(m) PROVE Kind(x) \notin Loops \cup {"begin"}
    OBVIOUS
  <2>1. Class(tree, x) = "rescue" \/ Kind(x) \in {"beginElse", "ensure"}
    BY DEF HandlerNodes
  <2>2. CASE Class(tree, x) = "rescue"
    BY <1>1, <1>2, <2>2, WidthKindsAssumption DEF Kind
  <2>3. CASE Kind(x) \in {"beginElse", "ensure"}
    BY <2>3 DEF Loops
  <2> QED
    BY <2>1, <2>2, <2>3
<1>5. ASSUME Kind(k) = "begin", x \in HandlerNodes(k), k \in Over(x),
             Kind(n) = "begin", x \in HandlerNodes(n), n \in Over(x)
      PROVE  FALSE
  <2>1. k \in Over(n)
    BY <1>1, <1>5, OverOneAnother
  <2>2. n \in UnderNode(k)
    BY <2>1, ExtentIs
  <2>3. Class(tree, n) = "rescue"
    BY <1>5, <2>2 DEF HandlerNodes
  <2> QED
    BY <1>2, <1>5, <2>3, WidthKindsAssumption DEF Kind
<1>6. \/ Kind(k) \in {"assign", "modifier"} /\ x = Value(k) /\ Kind(x) \in Loops /\ tree.parent[x] = k
      \/ Kind(k) \in Loops /\ x = k
      \/ Kind(k) = "begin" /\ x = k
      \/ Kind(k) = "begin" /\ x \in HandlerNodes(k) /\ k \in Over(x)
  BY <1>3
<1>7. \/ Kind(n) \in {"assign", "modifier"} /\ x = Value(n) /\ Kind(x) \in Loops /\ tree.parent[x] = n
      \/ Kind(n) \in Loops /\ x = n
      \/ Kind(n) = "begin" /\ x = n
      \/ Kind(n) = "begin" /\ x \in HandlerNodes(n) /\ n \in Over(x)
  BY <1>3
<1>8. x # k
  <2>1. SUFFICES ASSUME x = k PROVE FALSE
    OBVIOUS
  <2>2. n # x
    BY <1>1, <2>1
  <2>3. CASE tree.parent[x] = n
    <3>1. n # 0
      BY <1>1, TreeFacts
    <3>2. n \in Over(x)
      BY <1>1, <2>3, <3>1, OverIs
    <3>3. n \in 1 .. x - 1
      BY <1>1, <3>2, OverIs
    <3> QED
      BY <1>1, <2>1, <3>3
  <2>4. CASE n \in Over(x)
    <3>1. n \in 1 .. x - 1
      BY <1>1, <2>4, OverIs
    <3> QED
      BY <1>1, <2>1, <3>1
  <2> QED
    BY <1>7, <2>2, <2>3, <2>4
<1>9. CASE Kind(k) = "begin" /\ x \in HandlerNodes(k) /\ k \in Over(x)
  BY <1>4, <1>5, <1>7, <1>9
<1>10. CASE Kind(k) \in {"assign", "modifier"} /\ x = Value(k) /\ Kind(x) \in Loops /\ tree.parent[x] = k
  <2>1. Kind(x) # "begin"
    BY <1>10 DEF Loops
  <2>2. tree.parent[x] # n
    BY <1>1, <1>10
  <2> QED
    BY <1>4, <1>7, <1>10, <2>1, <2>2
<1> QED
  BY <1>6, <1>8, <1>9, <1>10

-----------------------------------------------------------------------------
(* What moves.                                                             *)

Pairs == Nat \X Nat

\* A cop counts in bytes or in characters.
Units == {"bytes", "characters"}

RangeIn(x, unit) == IF unit = "bytes" THEN Bytes(RangeOf(x)) ELSE RangeOf(x)

\* In a round that starts with the ranges B: the bodies inside none of them and
\* inside no other body that is due.
Moves(x, B, unit) ==
    /\ \A r \in B : ~Within(RangeIn(x, unit), r)
    /\ \A y \in Due \ {x} : ~Within(RangeIn(x, unit), RangeIn(y, unit))

\* The ranges once the bodies in D have been looked at.
RangesKept(D, B, unit) == B \cup {RangeIn(x, unit) : x \in {z \in D : Moves(z, B, unit)}}

\* A range inside one that is inside a third.
LEMMA WithinWithin ==
    ASSUME NEW a \in Pairs, NEW b \in Pairs, NEW c \in Pairs, Within(a, b), Within(b, c)
    PROVE  Within(a, c)
<1>1. /\ a[1] \in Nat /\ a[2] \in Nat /\ b[1] \in Nat /\ b[2] \in Nat /\ c[1] \in Nat /\ c[2] \in Nat
  BY DEF Pairs
<1> QED
  BY <1>1 DEF Within

\* The further in the text, the more bytes are ahead.
LEMMA WideUpToIs ==
    ASSUME tree \in Shapes, NEW n \in Int
    PROVE  /\ WideUpTo(n) \in Nat
           /\ \A k \in Int : k <= n => WideUpTo(k) <= WideUpTo(n)
           /\ "multibyte" \notin tree.options => WideUpTo(n) = 0
<1> DEFINE Wide(m) == {k \in DOMAIN tree.kind : Kind(k) = "wide" /\ k <= m}
<1>1. PICK N \in Nat : DOMAIN tree.kind = 1 .. N
  BY TreeFacts
<1>2. IsFiniteSet(1 .. N)
  BY FS_Interval
<1>3. \A m : Wide(m) \in SUBSET (1 .. N)
  BY <1>1
<1>4. \A m : IsFiniteSet(Wide(m)) /\ Cardinality(Wide(m)) \in Nat
  <2> SUFFICES ASSUME NEW m PROVE IsFiniteSet(Wide(m)) /\ Cardinality(Wide(m)) \in Nat
    OBVIOUS
  <2> HIDE DEF Wide
  <2>1. IsFiniteSet(Wide(m))
    BY <1>2, <1>3, FS_Subset
  <2> QED
    BY <2>1, FS_CardinalityType
<1>5. ASSUME NEW k \in Int, k <= n PROVE Cardinality(Wide(k)) <= Cardinality(Wide(n))
  <2>1. Wide(k) \in SUBSET Wide(n)
    <3>1. \A j \in 1 .. N : j <= k => j <= n
      BY <1>5
    <3> QED
      BY <1>1, <3>1
  <2> HIDE DEF Wide
  <2> QED
    BY <1>4, <2>1, FS_Subset
<1>6. ASSUME "multibyte" \notin tree.options PROVE Wide(n) = {}
  BY <1>6, WidthKindsAssumption DEF Kind
<1>7. \A m : WideUpTo(m) = Cardinality(Wide(m))
  BY DEF WideUpTo
<1> HIDE DEF Wide
<1>8. "multibyte" \notin tree.options => WideUpTo(n) = 0
  BY <1>6, <1>7, FS_EmptySet
<1> QED
  BY <1>4, <1>5, <1>7, <1>8

\* In bytes as in characters, of one text.
LEMMA BytesIs ==
    ASSUME tree \in Shapes, NEW a \in Pairs, NEW b \in Pairs
    PROVE  /\ Bytes(a) \in Pairs
           /\ Within(Bytes(a), Bytes(b)) <=> Within(a, b)
           /\ a[1] # b[1] => Bytes(a)[1] # Bytes(b)[1]
           /\ "multibyte" \notin tree.options => Bytes(a) = a
<1>1. PICK p, q, f, e \in Nat : a = <<p, q>> /\ b = <<f, e>>
  BY DEF Pairs
<1>2. PICK p1, q1, f1, e1 \in Nat :
         p1 = WideUpTo(p - 1) /\ q1 = WideUpTo(q) /\ f1 = WideUpTo(f - 1) /\ e1 = WideUpTo(e)
  <2>1. p - 1 \in Int /\ q \in Int /\ f - 1 \in Int /\ e \in Int
    OBVIOUS
  <2> QED
    BY <2>1, WideUpToIs
<1>3. Bytes(a) = <<p + p1, q + q1>> /\ Bytes(b) = <<f + f1, e + e1>>
  BY <1>1, <1>2 DEF Bytes
<1>4. (p <= f => p1 <= f1) /\ (f <= p => f1 <= p1)
  <2>1. p - 1 \in Int /\ f - 1 \in Int /\ (p <= f => p - 1 <= f - 1) /\ (f <= p => f - 1 <= p - 1)
    OBVIOUS
  <2> QED
    BY <1>2, <2>1, WideUpToIs
<1>5. (q <= e => q1 <= e1) /\ (e <= q => e1 <= q1)
  BY <1>2, WideUpToIs
<1>6. (f + f1 <= p + p1 <=> f <= p) /\ (q + q1 <= e + e1 <=> q <= e) /\ (p # f => p + p1 # f + f1)
  BY <1>4, <1>5
<1>7. ASSUME "multibyte" \notin tree.options PROVE p + p1 = p /\ q + q1 = q
  <2>1. p1 = 0 /\ q1 = 0
    <3>1. p - 1 \in Int /\ q \in Int
      OBVIOUS
    <3> QED
      BY <1>2, <1>7, <3>1, WideUpToIs
  <2> QED
    BY <2>1
<1>8. Within(Bytes(a), Bytes(b)) <=> f + f1 <= p + p1 /\ q + q1 <= e + e1
  BY <1>3 DEF Within
<1>9. Within(a, b) <=> f <= p /\ q <= e
  BY <1>1 DEF Within
<1>10. Bytes(a) \in Pairs
  <2>1. p + p1 \in Nat /\ q + q1 \in Nat
    OBVIOUS
  <2> QED
    BY <1>3, <2>1 DEF Pairs
<1> QED
  BY <1>1, <1>3, <1>6, <1>7, <1>8, <1>9, <1>10

\* A range is a pair of numbers.
LEMMA RangeType ==
    ASSUME tree \in Shapes, NEW x \in Nodes, ShiftedLists(x) # {}
    PROVE  RangeOf(x) \in Pairs /\ RangeIn(x, "bytes") \in Pairs /\ ListOf(x) \in Nat
<1>1. PICK f \in Nodes, e \in Nat : RangeOf(x) = <<f, e>>
  BY RangeIs
<1>2. ListOf(x) \in Nodes
  BY RangeIs
<1>3. RangeOf(x) \in Pairs
  BY <1>1, TreeFacts DEF Pairs
<1>4. RangeIn(x, "bytes") \in Pairs
  BY <1>3, BytesIs DEF RangeIn
<1> QED
  BY <1>2, <1>3, <1>4, TreeFacts

\* Of the bodies that are due the ranges lie alike in either unit.
LEMMA RangeInIs ==
    ASSUME tree \in Shapes, NEW unit \in Units, NEW x \in Due, NEW y \in Due
    PROVE  /\ RangeIn(x, unit) \in Pairs
           /\ Within(RangeIn(x, unit), RangeIn(y, unit)) <=> Within(RangeOf(x), RangeOf(y))
           /\ x # y => RangeIn(x, unit)[1] # RangeIn(y, unit)[1]
           /\ "multibyte" \notin tree.options => RangeIn(x, unit) = RangeOf(x)
<1>1. RangeOf(x) \in Pairs /\ RangeOf(y) \in Pairs
  BY DueIs, RangeType
<1>2. x # y => RangeOf(x)[1] # RangeOf(y)[1]
  BY RangeWithin
<1>3. CASE unit = "bytes"
  <2>1. RangeIn(x, unit) = Bytes(RangeOf(x)) /\ RangeIn(y, unit) = Bytes(RangeOf(y))
    BY <1>3 DEF RangeIn
  <2> QED
    BY <1>1, <1>2, <2>1, BytesIs
<1>4. CASE unit # "bytes"
  <2>1. RangeIn(x, unit) = RangeOf(x) /\ RangeIn(y, unit) = RangeOf(y)
    BY <1>4 DEF RangeIn
  <2> QED
    BY <1>1, <1>2, <2>1
<1> QED
  BY <1>3, <1>4

\* In a first round the bodies that move are the same in either unit.
LEMMA FirstMoves ==
    ASSUME tree \in Shapes, NEW x \in Due
    PROVE  Moves(x, {}, "bytes") <=> Moves(x, {}, "characters")
<1>1. "bytes" \in Units /\ "characters" \in Units
  BY DEF Units
<1>2. \A y \in Due : Within(RangeIn(x, "bytes"), RangeIn(y, "bytes"))
                        <=> Within(RangeIn(x, "characters"), RangeIn(y, "characters"))
  BY <1>1, RangeInIs
<1> QED
  BY <1>2 DEF Moves

\* In a text of single bytes they always are.
LEMMA SingleByteMoves ==
    ASSUME tree \in Shapes, "multibyte" \notin tree.options, NEW x \in Due, NEW B
    PROVE  /\ RangeIn(x, "bytes") = RangeOf(x) /\ RangeIn(x, "characters") = RangeOf(x)
           /\ Moves(x, B, "bytes") <=> Moves(x, B, "characters")
<1>1. "bytes" \in Units /\ "characters" \in Units
  BY DEF Units
<1>2. \A y \in Due : RangeIn(y, "bytes") = RangeOf(y) /\ RangeIn(y, "characters") = RangeOf(y)
  BY <1>1, RangeInIs
<1> QED
  BY <1>2 DEF Moves

\* Once the outer ones have been looked at, the ranges that are kept say whether
\* a body moves.
LEMMA MovesIs ==
    ASSUME tree \in Shapes, NEW unit \in Units, NEW B, B \subseteq Pairs, NEW D, D \subseteq Due,
           NEW x \in Due, x \notin D,
           \A y \in Due : y # x /\ Within(RangeOf(x), RangeOf(y)) => y \in D
    PROVE  (\E r \in RangesKept(D, B, unit) : Within(RangeIn(x, unit), r)) <=> ~Moves(x, B, unit)
<1>1. \A y \in Due : RangeIn(y, unit) \in Pairs
  BY RangeInIs
<1>2. ASSUME NEW r \in RangesKept(D, B, unit), Within(RangeIn(x, unit), r)
      PROVE  ~Moves(x, B, unit)
  <2>1. CASE r \in B
    BY <1>2, <2>1 DEF Moves
  <2>2. CASE r \notin B
    <3>1. PICK y \in D : r = RangeIn(y, unit)
      BY <1>2, <2>2 DEF RangesKept
    <3> QED
      BY <1>2, <3>1 DEF Moves
  <2> QED
    BY <2>1, <2>2
<1>3. ASSUME NEW r \in B, Within(RangeIn(x, unit), r)
      PROVE  \E t \in RangesKept(D, B, unit) : Within(RangeIn(x, unit), t)
  BY <1>3 DEF RangesKept
<1>4. ASSUME NEW y \in Due \ {x}, Within(RangeIn(x, unit), RangeIn(y, unit))
      PROVE  \E t \in RangesKept(D, B, unit) : Within(RangeIn(x, unit), t)
  <2> DEFINE S == {z \in Due \ {x} : Within(RangeIn(x, unit), RangeIn(z, unit))}
             T == {RangeIn(z, unit)[1] : z \in S}
  <2>1. T \subseteq Nat /\ T # {}
    <3>1. \A z \in Due : RangeIn(z, unit)[1] \in Nat
      BY <1>1 DEF Pairs
    <3>2. y \in S
      BY <1>4
    <3> QED
      BY <3>1, <3>2
  <2>2. PICK k \in T : \A j \in T : k <= j
    BY <2>1, LeastNumber
  <2>3. PICK z \in S : k = RangeIn(z, unit)[1]
    BY <2>2
  <2>4. z \in Due /\ z # x /\ z \in D /\ Within(RangeIn(x, unit), RangeIn(z, unit))
    BY <2>3, RangeInIs
  <2>5. CASE Moves(z, B, unit)
    <3>1. RangeIn(z, unit) \in RangesKept(D, B, unit)
      BY <2>4, <2>5 DEF RangesKept
    <3> QED
      BY <2>4, <3>1
  <2>6. CASE \E r \in B : Within(RangeIn(z, unit), r)
    <3>1. PICK r \in B : Within(RangeIn(z, unit), r)
      BY <2>6
    <3>2. r \in Pairs
      BY <3>1
    <3>3. Within(RangeIn(x, unit), r)
      BY <1>1, <2>4, <3>1, <3>2, WithinWithin
    <3> QED
      BY <1>3, <3>1, <3>3
  <2>7. CASE \E v \in Due \ {z} : Within(RangeIn(z, unit), RangeIn(v, unit))
    <3>1. PICK v \in Due \ {z} : Within(RangeIn(z, unit), RangeIn(v, unit))
      BY <2>7
    <3>2. Within(RangeIn(x, unit), RangeIn(v, unit))
      BY <1>1, <2>4, <3>1, WithinWithin
    <3>3. /\ RangeIn(v, unit)[1] \in Nat /\ RangeIn(z, unit)[1] \in Nat /\ RangeIn(x, unit)[1] \in Nat
          /\ RangeIn(z, unit)[1] # RangeIn(v, unit)[1] /\ RangeIn(z, unit)[1] # RangeIn(x, unit)[1]
          /\ RangeIn(v, unit)[1] <= RangeIn(z, unit)[1] /\ RangeIn(z, unit)[1] <= RangeIn(x, unit)[1]
      <4>1. RangeIn(v, unit)[1] \in Nat /\ RangeIn(z, unit)[1] \in Nat /\ RangeIn(x, unit)[1] \in Nat
        BY <1>1, <2>4, <3>1 DEF Pairs
      <4>2. RangeIn(z, unit)[1] # RangeIn(v, unit)[1] /\ RangeIn(z, unit)[1] # RangeIn(x, unit)[1]
        BY <2>4, <3>1, RangeInIs
      <4> QED
        BY <2>4, <3>1, <4>1, <4>2 DEF Within
    <3>4. v # x
      BY <3>3
    <3>5. RangeIn(v, unit)[1] \in T
      BY <3>1, <3>2, <3>4
    <3>6. RangeIn(z, unit)[1] <= RangeIn(v, unit)[1]
      BY <2>2, <2>3, <3>5
    <3> QED
      BY <3>3, <3>6
  <2> QED
    BY <2>5, <2>6, <2>7 DEF Moves
<1> QED
  BY <1>2, <1>3, <1>4 DEF Moves

-----------------------------------------------------------------------------
(* The rule looks at a body.                                               *)

Corrections == [list : Nat, range : Pairs, autocorrect : BOOLEAN]

RuleStates ==
    [ranges : SUBSET Pairs, stock : SUBSET Pairs, registered : SUBSET Pairs,
     ignored : SUBSET Pairs, offenses : SUBSET Corrections]

\* The rule has looked at the bodies in D.
RuleHas(s, D, B) ==
    /\ s.registered = RangesKept(D, B, "bytes")
    /\ s.offenses = {[list |-> ListOf(x), range |-> RangeIn(x, "bytes"), autocorrect |-> Moves(x, B, "bytes")] : x \in D}

\* It is a body's turn: it has not been looked at, those around it have.
Ready(x, D) ==
    Off(x) => /\ x \in Due \ D
              /\ \A y \in Due : y # x /\ Within(RangeOf(x), RangeOf(y)) => y \in D

\* What the lines allow is what the patterns allow.
LEMMA OffIs ==
    ASSUME NEW x
    PROVE  Off(x) <=> ~(ShiftedLists(x) = {} \/ AllowedLine(x))
BY DEF Off, AllowedLine, BundleEligible

\* The state of the rule keeps its shape.
LEMMA CheckType ==
    ASSUME tree \in Shapes, NEW x \in Nodes, NEW s \in RuleStates
    PROVE  /\ CheckIndentation(s, x) \in RuleStates
           /\ ~Off(x) => CheckIndentation(s, x) = s
           /\ LET t == CheckIndentation(s, x)
              IN  t.ranges = s.ranges /\ t.stock = s.stock /\ t.ignored = s.ignored
<1>1. CASE ~Off(x)
  <2>1. CheckIndentation(s, x) = s
    BY <1>1, OffIs DEF CheckIndentation
  <2> QED
    BY <2>1
<1>2. CASE Off(x)
  <2>1. ShiftedLists(x) # {}
    BY <1>2 DEF Off
  <2>2. PICK l, r : l = ListOf(x) /\ r = RangeIn(x, "bytes") /\ l \in Nat /\ r \in Pairs
    BY <2>1, RangeType
  <2>3. PICK moves \in BOOLEAN : moves <=> ~(\E q \in s.registered : Within(r, q))
    OBVIOUS
  <2>4. PICK c : c = [list |-> l, range |-> r, autocorrect |-> moves]
    OBVIOUS
  <2>5. c \in Corrections
    BY <2>2, <2>3, <2>4 DEF Corrections
  <2>6. s.registered \subseteq Pairs /\ s.offenses \subseteq Corrections
    BY DEF RuleStates
  <2>7. PICK kept : kept \subseteq Pairs /\ kept = IF moves THEN s.registered \cup {r} ELSE s.registered
    <3>1. (IF moves THEN s.registered \cup {r} ELSE s.registered) \subseteq Pairs
      BY <2>2, <2>6
    <3> QED
      BY <3>1
  <2>8. PICK t : t = CheckIndentation(s, x)
    OBVIOUS
  <2>9. t = [s EXCEPT !.registered = kept, !.offenses = s.offenses \cup {c}]
    <3>1. t = Offense(s, l, r)
      BY <1>2, <2>2, <2>8, OffIs DEF CheckIndentation, ListOf, RangeOf, RangeIn
    <3>2. (\E q \in s.registered : Within(r, q)) = ~moves /\ ~~moves = moves
      BY <2>3
    <3>3. t = [s EXCEPT !.registered = IF ~moves THEN @ ELSE @ \cup {r},
                        !.offenses = @ \cup {[list |-> l, range |-> r, autocorrect |-> ~~moves]}]
      BY <3>1, <3>2 DEF Offense
    <3> QED
      BY <2>4, <2>7, <3>2, <3>3
  <2>10. PICK all : all = s.offenses \cup {c} /\ all \subseteq Corrections
    BY <2>5, <2>6
  <2>11. t = [s EXCEPT !.registered = kept, !.offenses = all]
    BY <2>9, <2>10
  <2>12. t \in RuleStates /\ t.ranges = s.ranges /\ t.stock = s.stock /\ t.ignored = s.ignored
    BY <2>7, <2>10, <2>11 DEF RuleStates
  <2> QED
    BY <1>2, <2>8, <2>12
<1> QED
  BY <1>1, <1>2

\* When it is a body's turn the rule gives it its due.
LEMMA CheckIs ==
    ASSUME tree \in Shapes, NEW x \in Nodes, NEW s \in RuleStates,
           NEW B, B \subseteq Pairs, NEW D, D \subseteq Due, RuleHas(s, D, B), Ready(x, D)
    PROVE  RuleHas(CheckIndentation(s, x), D \cup ({x} \cap Due), B)
<1>1. CASE ~Off(x)
  <2>1. CheckIndentation(s, x) = s /\ x \notin Due
    BY <1>1, CheckType DEF Due
  <2>2. D \cup ({x} \cap Due) = D
    BY <2>1
  <2> QED
    BY <2>1, <2>2
<1>2. CASE Off(x)
  <2>1. /\ ShiftedLists(x) # {} /\ x \in Due /\ x \notin D
        /\ \A y \in Due : y # x /\ Within(RangeOf(x), RangeOf(y)) => y \in D
    BY <1>2 DEF Off, Ready
  <2>2. PICK l, r : l = ListOf(x) /\ r = RangeIn(x, "bytes") /\ l \in Nat /\ r \in Pairs
    BY <2>1, RangeType
  <2>3. PICK moves \in BOOLEAN : moves <=> Moves(x, B, "bytes")
    BY DEF Moves
  <2>4. moves = Moves(x, B, "bytes")
    BY <2>3 DEF Moves
  <2>5. (\E q \in s.registered : Within(r, q)) <=> ~moves
    <3>1. "bytes" \in Units
      BY DEF Units
    <3> QED
      BY <2>1, <2>2, <2>3, <3>1, MovesIs DEF RuleHas
  <2>6. CheckIndentation(s, x) = Offense(s, l, r)
    BY <1>2, <2>2, OffIs DEF CheckIndentation, ListOf, RangeOf, RangeIn
  <2>7. PICK t : t = CheckIndentation(s, x)
    OBVIOUS
  <2>8. (\E q \in s.registered : Within(r, q)) = ~moves
    BY <2>5
  <2>9. /\ t.registered = IF ~moves THEN s.registered ELSE s.registered \cup {r}
        /\ t.offenses = s.offenses \cup {[list |-> l, range |-> r, autocorrect |-> moves]}
    <3>1. t = [s EXCEPT !.registered = IF ~moves THEN @ ELSE @ \cup {r},
                        !.offenses = @ \cup {[list |-> l, range |-> r, autocorrect |-> ~~moves]}]
      BY <2>6, <2>7, <2>8 DEF Offense
    <3>2. ~~moves = moves
      BY <2>3
    <3> QED
      BY <3>1, <3>2 DEF RuleStates
  <2>10. D \cup ({x} \cap Due) = D \cup {x}
    BY <2>1
  <2>11. t.registered = RangesKept(D \cup {x}, B, "bytes")
    BY <2>2, <2>3, <2>9 DEF RuleHas, RangesKept
  <2>12. t.offenses = {[list |-> ListOf(z), range |-> RangeIn(z, "bytes"), autocorrect |-> Moves(z, B, "bytes")] : z \in D \cup {x}}
    BY <2>2, <2>4, <2>9 DEF RuleHas
  <2> QED
    BY <2>7, <2>10, <2>11, <2>12 DEF RuleHas
<1> QED
  BY <1>1, <1>2

\* A fold: what G makes of the value so far at each of 1 .. n.
FoldsTo(f, n, v0, G) == f = [i \in 0 .. n |-> IF i = 0 THEN v0 ELSE G[<<i, f[i - 1]>>]]

\* Every fold has its values.
LEMMA FoldDefined ==
    ASSUME NEW n \in Nat, NEW V, NEW v0 \in V, NEW G, \A j \in 1 .. n : \A v \in V : G[<<j, v>>] \in V
    PROVE  \E f : FoldsTo(f, n, v0, G) /\ f \in [0 .. n -> V]
<1>1. PICK q : q = [j \in 1 .. n |-> j - 1]
  OBVIOUS
<1>2. RecursiveStep(n, V, q, G)
  BY <1>1 DEF RecursiveStep
<1>3. PICK f : SolvesRecursion(f, n, V, v0, q, G)
  BY <1>2, Recursion
<1>4. f \in [0 .. n -> V] /\ f[0] = v0
  BY <1>3 DEF SolvesRecursion
<1>5. \A j \in 1 .. n : f[j] = G[<<j, f[j - 1]>>]
  BY <1>1, <1>3 DEF SolvesRecursion
<1> DEFINE g == [i \in 0 .. n |-> IF i = 0 THEN v0 ELSE G[<<i, f[i - 1]>>]]
<1>6. ASSUME NEW i \in 0 .. n PROVE f[i] = g[i]
  <2>1. CASE i = 0
    BY <1>4, <2>1
  <2>2. CASE i \in 1 .. n
    <3>1. g[i] = G[<<i, f[i - 1]>>]
      BY <2>2
    <3> QED
      BY <1>5, <2>2, <3>1
  <2> QED
    BY <2>1, <2>2
<1>7. f = g
  BY <1>4, <1>6
<1>8. FoldsTo(f, n, v0, G)
  BY <1>7 DEF FoldsTo
<1> QED
  BY <1>4, <1>8

\* It is the turn of one body after the other.
Turns(ns, D) ==
    \A i \in 1 .. Len(ns) : Ready(ns[i], D \cup ({ns[j] : j \in 1 .. i - 1} \cap Due))

\* The states of the rule along a list of nodes.
Checked(s, ns, f) ==
    f = [i \in 0 .. Len(ns) |-> IF i = 0 THEN s ELSE CheckIndentation(f[i - 1], ns[i])]

LEMMA CheckedDefined ==
    ASSUME tree \in Shapes, NEW ns \in Seq(Nodes), NEW s \in RuleStates
    PROVE  \E f : Checked(s, ns, f)
<1>1. PICK n \in Nat : n = Len(ns) /\ \A i \in 1 .. n : ns[i] \in Nodes
  OBVIOUS
<1>2. PICK G : G = [c \in (1 .. n) \X RuleStates |-> CheckIndentation(c[2], ns[c[1]])]
  OBVIOUS
<1>3. \A j \in 1 .. n : \A v \in RuleStates :
          G[<<j, v>>] = CheckIndentation(v, ns[j]) /\ G[<<j, v>>] \in RuleStates
  BY <1>1, <1>2, CheckType
<1>4. PICK f : FoldsTo(f, n, s, G) /\ f \in [0 .. n -> RuleStates]
  BY <1>3, FoldDefined
<1> DEFINE g == [i \in 0 .. n |-> IF i = 0 THEN s ELSE CheckIndentation(f[i - 1], ns[i])]
<1>5. ASSUME NEW i \in 0 .. n PROVE f[i] = g[i]
  <2>1. f[i] = IF i = 0 THEN s ELSE G[<<i, f[i - 1]>>]
    BY <1>4 DEF FoldsTo
  <2>2. CASE i = 0
    BY <2>1, <2>2
  <2>3. CASE i \in 1 .. n
    <3>1. i - 1 \in 0 .. n /\ i # 0
      BY <2>3
    <3>2. f[i - 1] \in RuleStates
      BY <1>4, <3>1
    <3> QED
      BY <1>3, <2>1, <2>3, <3>1, <3>2
  <2> QED
    BY <2>2, <2>3
<1>6. f = g
  BY <1>4, <1>5
<1> QED
  BY <1>1, <1>6 DEF Checked

\* One after the other, each when it is its turn.
LEMMA CheckAllIs ==
    ASSUME tree \in Shapes, NEW ns \in Seq(Nodes), NEW s \in RuleStates,
           NEW B, B \subseteq Pairs, NEW D, D \subseteq Due, RuleHas(s, D, B), Turns(ns, D)
    PROVE  /\ CheckAll(s, ns) \in RuleStates
           /\ RuleHas(CheckAll(s, ns), D \cup (Elements(ns) \cap Due), B)
           /\ LET t == CheckAll(s, ns)
              IN  t.ranges = s.ranges /\ t.stock = s.stock /\ t.ignored = s.ignored
<1>1. PICK n \in Nat : n = Len(ns) /\ \A i \in 1 .. n : ns[i] \in Nodes
  OBVIOUS
<1> DEFINE f == CHOOSE f : Checked(s, ns, f)
<1>2. Checked(s, ns, f)
  BY CheckedDefined
<1>3. CheckAll(s, ns) = f[n]
  BY <1>1 DEF CheckAll, Checked
<1> HIDE DEF f
<1>4. \A i \in 0 .. n : f[i] = IF i = 0 THEN s ELSE CheckIndentation(f[i - 1], ns[i])
  BY <1>1, <1>2 DEF Checked
<1> DEFINE Done(i) == D \cup ({ns[j] : j \in 1 .. i} \cap Due)
           Holds(i) == /\ f[i] \in RuleStates /\ RuleHas(f[i], Done(i), B)
                       /\ f[i].ranges = s.ranges /\ f[i].stock = s.stock /\ f[i].ignored = s.ignored
           Good == {i \in Nat : i <= n => Holds(i)}
<1>5. 0 \in Good
  <2>1. f[0] = s
    BY <1>4
  <2>2. Done(0) = D
    <3>1. 1 .. 0 = {}
      OBVIOUS
    <3> QED
      BY <3>1
  <2> HIDE DEF Done
  <2> QED
    BY <2>1, <2>2
<1>6. \A i \in Nat : i \in Good => i + 1 \in Good
  <2> HIDE DEF Done
  <2> SUFFICES ASSUME NEW i \in Nat, i + 1 <= n, Holds(i) PROVE Holds(i + 1)
    OBVIOUS
  <2>1. PICK u, t, x : u = f[i] /\ t = f[i + 1] /\ x = ns[i + 1]
    OBVIOUS
  <2>2. t = CheckIndentation(u, x)
    BY <1>4, <2>1
  <2>3. x \in Nodes /\ u \in RuleStates /\ RuleHas(u, Done(i), B) /\ Done(i) \subseteq Due
    BY <1>1, <2>1 DEF Done
  <2>4. Ready(x, Done(i))
    <3>1. i + 1 \in 1 .. n /\ (i + 1) - 1 = i
      OBVIOUS
    <3> QED
      BY <1>1, <2>1, <3>1 DEF Turns, Done
  <2>5. RuleHas(t, Done(i) \cup ({x} \cap Due), B)
    BY <2>2, <2>3, <2>4, CheckIs
  <2>6. Done(i + 1) = Done(i) \cup ({x} \cap Due)
    <3>1. 1 .. i + 1 = (1 .. i) \cup {i + 1}
      OBVIOUS
    <3> QED
      BY <2>1, <3>1 DEF Done
  <2>7. t \in RuleStates /\ t.ranges = u.ranges /\ t.stock = u.stock /\ t.ignored = u.ignored
    BY <2>2, <2>3, CheckType
  <2> QED
    BY <2>1, <2>5, <2>6, <2>7
<1> HIDE DEF Good
<1>7. n \in Good
  BY <1>5, <1>6, NatSet
<1>8. Holds(n)
  BY <1>7 DEF Good
<1>9. Done(n) = D \cup (Elements(ns) \cap Due)
  BY <1>1 DEF Elements
<1> QED
  BY <1>3, <1>8, <1>9

-----------------------------------------------------------------------------
(* The rule along the walk.                                                *)

\* What the rule has looked at when it has entered the nodes up to m.
LookedBy(m) == {x \in Due : \E k \in 1 .. m : x \in LookedAt(k)}

IsValue(k) == Kind(k) \in {"assign", "modifier"}

\* A node has been looked at when it is entered.
LEMMA LookedAtSoon ==
    ASSUME tree \in Shapes, NEW y \in Due
    PROVE  y \in LookedBy(y)
<1>1. PICK n \in Nodes : y \in LookedAt(n)
  BY DEF Due
<1>2. y \in Nodes /\ y \in Nat /\ n \in Nat /\ n >= 1
  BY DueIs, TreeFacts
<1>3. y = n \/ (IsValue(n) /\ y = Value(n)) \/ y \in HandlerNodes(n)
  BY <1>1 DEF LookedAt, IsValue
<1>4. CASE IsValue(n) /\ y = Value(n)
  <2>1. n < y
    BY <1>4, ValueIs DEF IsValue
  <2> QED
    BY <1>1, <1>2, <2>1 DEF LookedBy
<1>5. CASE y \in HandlerNodes(n)
  <2>1. n \in Over(y)
    BY <1>2, <1>5, ExtentIs DEF HandlerNodes
  <2>2. n \in 1 .. y - 1
    BY <1>2, <2>1, OverIs
  <2> QED
    BY <1>1, <1>2, <2>2 DEF LookedBy
<1>6. CASE y = n
  BY <1>1, <1>2, <1>6 DEF LookedBy
<1> QED
  BY <1>3, <1>4, <1>5, <1>6

\* What lies above a node has been looked at before it is entered.
LEMMA LookedAtAbove ==
    ASSUME tree \in Shapes, NEW n \in Nodes, NEW y \in Due, y \in Over(n)
    PROVE  y \in LookedBy(n - 1)
<1>1. y \in 1 .. n - 1 /\ n \in Nat /\ y \in Nat
  BY OverIs, TreeFacts
<1>2. y \in LookedBy(y)
  BY LookedAtSoon
<1> QED
  BY <1>1, <1>2 DEF LookedBy

\* What has been assigned or modified in the nodes up to m.
ValuesBy(m) == {Value(k) : k \in {j \in 1 .. m : IsValue(j)}}

\* The next node.
LEMMA NextLooked ==
    ASSUME tree \in Shapes, NEW n \in Nodes
    PROVE  /\ LookedBy(n) = LookedBy(n - 1) \cup (LookedAt(n) \cap Due)
           /\ ValuesBy(n) = ValuesBy(n - 1) \cup (IF IsValue(n) THEN {Value(n)} ELSE {})
           /\ LookedBy(n - 1) \subseteq Due /\ ValuesBy(n - 1) \subseteq Nodes
<1>1. n \in Nat /\ n >= 1 /\ 1 .. n = (1 .. n - 1) \cup {n} /\ 1 .. n - 1 \subseteq Nodes
  BY TreeFacts
<1>2. LookedBy(n) = LookedBy(n - 1) \cup (LookedAt(n) \cap Due)
  BY <1>1 DEF LookedBy
<1>3. ValuesBy(n) = ValuesBy(n - 1) \cup (IF IsValue(n) THEN {Value(n)} ELSE {})
  BY <1>1 DEF ValuesBy
<1>4. ValuesBy(n - 1) \subseteq Nodes
  BY <1>1, ValueIs DEF ValuesBy, IsValue
<1> QED
  BY <1>2, <1>3, <1>4 DEF LookedBy

\* A value is the value of one node.
LEMMA ValueOnce ==
    ASSUME tree \in Shapes, NEW n \in Nodes, IsValue(n)
    PROVE  Value(n) \notin ValuesBy(n - 1)
<1>1. ASSUME NEW k \in 1 .. n - 1, IsValue(k), Value(k) = Value(n)
      PROVE  FALSE
  <2>1. k \in Nodes /\ n \in Nat
    BY TreeFacts
  <2>2. tree.parent[Value(n)] = n /\ tree.parent[Value(k)] = k
    BY <1>1, <2>1, ValueIs DEF IsValue
  <2>3. k = n
    BY <1>1, <2>2
  <2> QED
    BY <2>1, <2>3
<1> QED
  BY <1>1 DEF ValuesBy

\* When a body is looked at: never before, unless it is a value, and those
\* around it have been.
LEMMA TurnOf ==
    ASSUME tree \in Shapes, NEW n \in Nodes, NEW x \in LookedAt(n), x \in Nodes, Off(x)
    PROVE  /\ x \in Due
           /\ x \in LookedBy(n - 1) <=> (x = n /\ n \in ValuesBy(n - 1))
           /\ \A y \in Due : y # x /\ Within(RangeOf(x), RangeOf(y)) =>
                 y \in LookedBy(n - 1) \/ (y = n /\ Kind(n) = "begin" /\ x \in HandlerNodes(n))
<1>1. x \in Due
  BY DEF Due
<1>2. n \in Nat /\ 1 .. n - 1 \subseteq Nodes
  BY TreeFacts
<1>3. ASSUME x \in LookedBy(n - 1)
      PROVE  x = n /\ n \in ValuesBy(n - 1)
  <2>1. PICK k \in 1 .. n - 1 : x \in LookedAt(k)
    BY <1>3 DEF LookedBy
  <2>2. k \in Nodes /\ k < n
    BY <1>2
  <2>3. Kind(k) \in {"assign", "modifier"} /\ x = Value(k) /\ n = x
    BY <1>1, <2>1, <2>2, LookedAtOnce
  <2> QED
    BY <2>1, <2>3 DEF ValuesBy, IsValue
<1>4. ASSUME x = n, n \in ValuesBy(n - 1)
      PROVE  x \in LookedBy(n - 1)
  <2>1. PICK k \in 1 .. n - 1 : IsValue(k) /\ n = Value(k)
    BY <1>4 DEF ValuesBy
  <2>2. x \in LookedAt(k)
    BY <1>4, <2>1 DEF LookedAt, IsValue
  <2> QED
    BY <1>1, <2>2 DEF LookedBy
<1>5. ASSUME NEW y \in Due, y # x, Within(RangeOf(x), RangeOf(y))
      PROVE  y \in LookedBy(n - 1) \/ (y = n /\ Kind(n) = "begin" /\ x \in HandlerNodes(n))
  <2>1. y \in Over(n) \/ (y = n /\ Kind(n) = "begin" /\ x \in HandlerNodes(n))
    BY <1>1, <1>5, OuterFirst
  <2> QED
    BY <2>1, LookedAtAbove
<1> QED
  BY <1>1, <1>3, <1>4, <1>5

\* The first of a list is a begin, the others are its handlers.
LEMMA TurnsOf ==
    ASSUME tree \in Shapes, NEW n \in Nodes, NEW ns \in Seq(Nodes), NEW D, Len(ns) >= 1, ns[1] = n,
           \A i, j \in 1 .. Len(ns) : i # j => ns[i] # ns[j],
           \A i \in 1 .. Len(ns) : Off(ns[i]) =>
              /\ ns[i] \in Due /\ ns[i] \notin D
              /\ \A y \in Due : y # ns[i] /\ Within(RangeOf(ns[i]), RangeOf(y)) => y \in D \/ y = n
    PROVE  Turns(ns, D)
<1> SUFFICES ASSUME NEW i \in 1 .. Len(ns), Off(ns[i])
             PROVE  /\ ns[i] \in Due \ (D \cup ({ns[j] : j \in 1 .. i - 1} \cap Due))
                    /\ \A y \in Due : y # ns[i] /\ Within(RangeOf(ns[i]), RangeOf(y)) =>
                          y \in D \cup ({ns[j] : j \in 1 .. i - 1} \cap Due)
  BY DEF Turns, Ready
<1>1. ns[i] \notin {ns[j] : j \in 1 .. i - 1}
  OBVIOUS
<1>2. ASSUME NEW y \in Due, y # ns[i], y = n
      PROVE  y \in {ns[j] : j \in 1 .. i - 1}
  <2>1. i # 1
    BY <1>2
  <2>2. 1 \in 1 .. i - 1
    BY <2>1
  <2> QED
    BY <1>2, <2>2
<1> QED
  BY <1>1, <1>2

\* A begin and its handlers.
LEMMA TurnsOfBegin ==
    ASSUME tree \in Shapes, NEW n \in Nodes, Kind(n) = "begin", NEW ns \in Seq(Nodes), NEW D,
           Len(ns) >= 1, ns[1] = n, \A i, j \in 1 .. Len(ns) : i # j => ns[i] # ns[j],
           Elements(ns) \subseteq LookedAt(n), \A x \in Elements(ns) : x \notin D,
           \A y \in Due : y \in Over(n) => y \in D
    PROVE  Turns(ns, D)
<1>1. ASSUME NEW i \in 1 .. Len(ns), Off(ns[i])
      PROVE  /\ ns[i] \in Due /\ ns[i] \notin D
             /\ \A y \in Due : y # ns[i] /\ Within(RangeOf(ns[i]), RangeOf(y)) => y \in D \/ y = n
  <2>1. PICK x : x = ns[i] /\ x \in Nodes /\ x \in Elements(ns) /\ x \in LookedAt(n) /\ Off(x)
    BY <1>1 DEF Elements
  <2>2. /\ x \in Due
        /\ \A y \in Due : y # x /\ Within(RangeOf(x), RangeOf(y)) => y \in Over(n) \/ y = n
    <3>1. x \in Due
      BY <2>1 DEF Due
    <3> QED
      BY <2>1, <3>1, OuterFirst
  <2> QED
    BY <1>1, <2>1, <2>2
<1> QED
  BY <1>1, TurnsOf

\* The elements of an increasing list are different.
LEMMA IncreasingDiffers ==
    ASSUME NEW S, S \subseteq Nat, NEW s \in Seq(S), Increasing(s)
    PROVE  \A i, j \in 1 .. Len(s) : i # j => s[i] # s[j]
<1>1. PICK l \in Nat : l = Len(s) /\ \A i \in 1 .. l : s[i] \in S
  OBVIOUS
<1>2. \A i \in 1 .. l : s[i] \in Nat
  BY <1>1
<1>3. \A i, j \in 1 .. l : i < j => s[i] < s[j]
  BY <1>1 DEF Increasing
<1>4. ASSUME NEW i \in 1 .. l, NEW j \in 1 .. l, i # j PROVE s[i] # s[j]
  <2>1. i < j \/ j < i
    BY <1>4
  <2>2. s[i] < s[j] \/ s[j] < s[i]
    BY <1>3, <2>1
  <2> QED
    BY <1>2, <2>2
<1> QED
  BY <1>1, <1>4

\* A begin is none of its handlers, and what is due in it is no value.
LEMMA NotItsHandler ==
    ASSUME tree \in Shapes, NEW n \in Nodes
    PROVE  n \notin HandlerNodes(n)
<1>1. n \notin Over(n)
  <2>1. Over(n) \subseteq 1 .. n - 1 /\ n \in Nat
    BY OverIs, TreeFacts
  <2> QED
    BY <2>1
<1> QED
  BY <1>1, ExtentIs DEF HandlerNodes

LEMMA BeginNoValue ==
    ASSUME tree \in Shapes, NEW n \in Nodes, Kind(n) = "begin", ShiftedLists(n) # {}
    PROVE  n \notin ValuesBy(n - 1)
<1>1. ASSUME NEW k \in 1 .. n - 1, IsValue(k), Value(k) = n
      PROVE  FALSE
  <2>1. k \in Nodes
    BY TreeFacts
  <2>2. Kind(n) \in Loops
    BY <1>1, <2>1, ValueIs DEF IsValue
  <2> QED
    BY <2>2 DEF Loops
<1> QED
  BY <1>1 DEF ValuesBy


\* A node and some more.
LEMMA ConsIs ==
    ASSUME NEW S, NEW n \in S, NEW s \in Seq(S), n \notin Elements(s),
           \A i, j \in 1 .. Len(s) : i # j => s[i] # s[j]
    PROVE  LET ns == <<n>> \o s IN
           /\ ns \in Seq(S) /\ Len(ns) >= 1 /\ ns[1] = n
           /\ Elements(ns) = {n} \cup Elements(s)
           /\ \A i, j \in 1 .. Len(ns) : i # j => ns[i] # ns[j]
<1>1. PICK l \in Nat : l = Len(s)
  OBVIOUS
<1>2. PICK ns : /\ ns = <<n>> \o s /\ ns \in Seq(S) /\ Len(ns) = l + 1 /\ ns[1] = n
                /\ \A i \in 1 .. l : ns[i + 1] = s[i]
  <2>1. PICK one : one = <<n>> /\ one \in Seq(S) /\ Len(one) = 1 /\ one[1] = n
    <3>1. <<n>> \in Seq(S) /\ Len(<<n>>) = 1 /\ <<n>>[1] = n
      OBVIOUS
    <3> QED
      BY <3>1
  <2>2. PICK ns : ns = one \o s
    OBVIOUS
  <2>3. ns \in Seq(S) /\ Len(ns) = l + 1
    BY <1>1, <2>1, <2>2
  <2>4. ns[1] = one[1]
    BY <1>1, <2>1, <2>2
  <2>5. ASSUME NEW i \in 1 .. l PROVE ns[i + 1] = s[i]
    BY <1>1, <2>1, <2>2
  <2> QED
    BY <2>1, <2>2, <2>3, <2>4, <2>5
<1>3. \A i \in 2 .. l + 1 : ns[i] = s[i - 1] /\ i - 1 \in 1 .. l
  <2> SUFFICES ASSUME NEW i \in 2 .. l + 1 PROVE ns[i] = s[i - 1] /\ i - 1 \in 1 .. l
    OBVIOUS
  <2>1. i - 1 \in 1 .. l /\ (i - 1) + 1 = i
    OBVIOUS
  <2> QED
    BY <1>2, <2>1
<1>4. \A i \in 1 .. l : s[i] \in Elements(s) /\ s[i] # n
  BY <1>1 DEF Elements
<1>5. ASSUME NEW i \in 1 .. l + 1, NEW j \in 1 .. l + 1, i # j
      PROVE  ns[i] # ns[j]
  <2>1. CASE i = 1
    <3>1. j \in 2 .. l + 1
      BY <1>5, <2>1
    <3> QED
      BY <1>2, <1>3, <1>4, <2>1, <3>1
  <2>2. CASE j = 1
    <3>1. i \in 2 .. l + 1
      BY <1>5, <2>2
    <3> QED
      BY <1>2, <1>3, <1>4, <2>2, <3>1
  <2>3. CASE i # 1 /\ j # 1
    <3>1. i \in 2 .. l + 1 /\ j \in 2 .. l + 1 /\ i - 1 # j - 1
      BY <1>5, <2>3
    <3> QED
      BY <1>1, <1>3, <3>1
  <2> QED
    BY <2>1, <2>2, <2>3
<1>6. Elements(ns) = {n} \cup Elements(s)
  <2>1. ASSUME NEW e \in Elements(ns) PROVE e \in {n} \cup Elements(s)
    <3>1. PICK i \in 1 .. l + 1 : e = ns[i]
      BY <1>2 DEF Elements
    <3>2. CASE i = 1
      BY <1>2, <3>1, <3>2
    <3>3. CASE i \in 2 .. l + 1
      BY <1>3, <1>4, <3>1, <3>3
    <3> QED
      BY <3>1, <3>2, <3>3
  <2>2. n \in Elements(ns)
    BY <1>2 DEF Elements
  <2>3. ASSUME NEW e \in Elements(s) PROVE e \in Elements(ns)
    <3>1. PICK i \in 1 .. l : e = s[i]
      BY <1>1 DEF Elements
    <3>2. i + 1 \in 1 .. l + 1 /\ ns[i + 1] = e
      BY <1>2, <3>1
    <3> QED
      BY <1>2, <3>2 DEF Elements
  <2> QED
    BY <2>1, <2>2, <2>3
<1> QED
  BY <1>2, <1>5, <1>6

\* The state of the rule when it has entered the nodes up to m.
RuleInv(s, B, m) ==
    /\ s \in RuleStates /\ RuleHas(s, LookedBy(m), B)
    /\ s.ignored = {Extent(v) : v \in ValuesBy(m)}

\* The rule enters a node.
LEMMA RuleVisit ==
    ASSUME tree \in Shapes, NEW n \in Nodes, NEW s, NEW B, B \subseteq Pairs, RuleInv(s, B, n - 1)
    PROVE  LET t == IndentationDispatch(s, n)
           IN  RuleInv(t, B, n) /\ t.ranges = s.ranges /\ t.stock = s.stock
<1>1. PICK D : D = LookedBy(n - 1)
  OBVIOUS
<1>2. /\ s \in RuleStates /\ RuleHas(s, D, B) /\ s.ignored = {Extent(v) : v \in ValuesBy(n - 1)}
      /\ D \subseteq Due /\ LookedBy(n) = D \cup (LookedAt(n) \cap Due)
      /\ ValuesBy(n) = ValuesBy(n - 1) \cup (IF IsValue(n) THEN {Value(n)} ELSE {})
      /\ ValuesBy(n - 1) \subseteq Nodes
  BY <1>1, NextLooked DEF RuleInv
<1>3. \A y \in Due : y \in Over(n) => y \in D
  BY <1>1, LookedAtAbove
<1>4. PICK t : t = IndentationDispatch(s, n)
  OBVIOUS
<1>5. ASSUME NEW x \in Nodes, x \in LookedAt(n), Kind(n) # "begin", ~(x = n /\ n \in ValuesBy(n - 1))
      PROVE  Ready(x, D)
  <2> SUFFICES ASSUME Off(x)
               PROVE  x \in Due \ D /\ \A y \in Due : y # x /\ Within(RangeOf(x), RangeOf(y)) => y \in D
    BY DEF Ready
  <2> QED
    BY <1>1, <1>5, TurnOf
<1>6. CASE Kind(n) \in {"assign", "modifier"}
  <2>1. PICK v : v = Value(n) /\ v \in Nodes /\ v # n
    BY <1>6, ValueIs, TreeFacts
  <2>2. LookedAt(n) = {v} /\ IsValue(n)
    BY <1>6, <2>1 DEF LookedAt, IsValue
  <2>3. Ready(v, D)
    BY <1>5, <1>6, <2>1, <2>2
  <2>4. PICK u : u = CheckIndentation(s, v)
    OBVIOUS
  <2>5. /\ u \in RuleStates /\ u.ranges = s.ranges /\ u.stock = s.stock /\ u.ignored = s.ignored
        /\ RuleHas(u, D \cup ({v} \cap Due), B)
    BY <1>2, <2>1, <2>3, <2>4, CheckType, CheckIs
  <2>6. t = [u EXCEPT !.ignored = u.ignored \cup {Extent(v)}]
    BY <1>4, <1>6, <2>1, <2>4 DEF IndentationDispatch, Value, Loops
  <2>7. Extent(v) \in Pairs
    <3>1. v \in Nat /\ Extent(v) = <<v, EndOf(v)>> /\ EndOf(v) \in Nat
      BY <2>1, ExtentIs, TreeFacts
    <3> QED
      BY <3>1 DEF Pairs
  <2>8. PICK ignored : ignored = u.ignored \cup {Extent(v)} /\ ignored \subseteq Pairs
    <3>1. u.ignored \subseteq Pairs
      BY <2>5 DEF RuleStates
    <3> QED
      BY <2>7, <3>1
  <2>9. /\ t \in RuleStates /\ t.ranges = u.ranges /\ t.stock = u.stock /\ t.ignored = ignored
        /\ t.registered = u.registered /\ t.offenses = u.offenses
    BY <2>5, <2>6, <2>8 DEF RuleStates
  <2>10. RuleHas(t, LookedBy(n), B)
    BY <1>2, <2>2, <2>5, <2>9 DEF RuleHas
  <2>11. t.ignored = {Extent(z) : z \in ValuesBy(n)}
    BY <1>2, <2>1, <2>2, <2>5, <2>8, <2>9
  <2> QED
    BY <1>4, <2>5, <2>9, <2>10, <2>11 DEF RuleInv
<1>7. ASSUME Kind(n) \notin {"assign", "modifier"}
      PROVE  ValuesBy(n) = ValuesBy(n - 1)
  BY <1>2, <1>7 DEF IsValue
<1>8. CASE Kind(n) \in Loops
  <2>1. LookedAt(n) = {n} /\ Kind(n) \notin {"assign", "modifier", "begin"}
    BY <1>8 DEF LookedAt, Loops
  <2>2. Extent(n) \in s.ignored <=> n \in ValuesBy(n - 1)
    <3>1. \A v \in Nodes : Extent(v) = Extent(n) => v = n
      BY DEF Extent
    <3> QED
      BY <1>2, <3>1
  <2>3. t = IF Extent(n) \in s.ignored THEN s ELSE CheckIndentation(s, n)
    BY <1>4, <1>8, <2>1 DEF IndentationDispatch
  <2>4. CASE n \in ValuesBy(n - 1)
    <3>1. t = s
      BY <2>2, <2>3, <2>4
    <3>2. n \in Due => n \in D
      <4>1. n \in Due => Off(n)
        BY DEF Due
      <4> QED
        BY <1>1, <2>1, <2>4, <4>1, TurnOf
    <3>3. LookedBy(n) = D
      BY <1>2, <2>1, <3>2
    <3> QED
      BY <1>2, <1>4, <1>7, <2>1, <3>1, <3>3 DEF RuleInv
  <2>5. CASE n \notin ValuesBy(n - 1)
    <3>1. t = CheckIndentation(s, n)
      BY <2>2, <2>3, <2>5
    <3>2. Ready(n, D)
      BY <1>5, <2>1, <2>5
    <3>3. /\ t \in RuleStates /\ t.ranges = s.ranges /\ t.stock = s.stock /\ t.ignored = s.ignored
          /\ RuleHas(t, D \cup ({n} \cap Due), B)
      BY <1>2, <3>1, <3>2, CheckType, CheckIs
    <3> QED
      BY <1>2, <1>4, <1>7, <2>1, <3>3 DEF RuleInv
  <2> QED
    BY <2>4, <2>5
<1>9. CASE Kind(n) = "begin"
  <2>1. Kind(n) \notin {"assign", "modifier"} \cup Loops
    BY <1>9 DEF Loops
  <2>2. LookedAt(n) = {n} \cup HandlerNodes(n)
    BY <1>9, <2>1 DEF LookedAt
  <2>3. PICK hs : hs = Handlers(n) /\ hs \in Seq(Nodes) /\ Elements(hs) = HandlerNodes(n) /\ Increasing(hs)
    BY HandlersAre
  <2>4. \A i, j \in 1 .. Len(hs) : i # j => hs[i] # hs[j]
    <3>1. PICK S : S = Nodes /\ S \subseteq Nat
      BY TreeFacts
    <3> QED
      BY <2>3, <3>1, IncreasingDiffers
  <2>5. n \notin Elements(hs)
    BY <2>3, NotItsHandler
  <2>6. PICK ns : ns = <<n>> \o hs
    OBVIOUS
  <2>7. /\ ns \in Seq(Nodes) /\ Len(ns) >= 1 /\ ns[1] = n /\ Elements(ns) = LookedAt(n)
        /\ \A i, j \in 1 .. Len(ns) : i # j => ns[i] # ns[j]
    <3>1. PICK S : S = Nodes /\ n \in S /\ hs \in Seq(S)
      BY <2>3
    <3>2. LET cs == <<n>> \o hs IN
          /\ cs \in Seq(S) /\ Len(cs) >= 1 /\ cs[1] = n
          /\ Elements(cs) = {n} \cup Elements(hs)
          /\ \A i, j \in 1 .. Len(cs) : i # j => cs[i] # cs[j]
      BY <2>4, <2>5, <3>1, ConsIs
    <3> QED
      BY <2>2, <2>3, <2>6, <3>1, <3>2
  <2>8. ASSUME NEW x \in LookedAt(n), x \in D PROVE FALSE
    <3>1. x \in Due
      BY <1>2, <2>8
    <3>2. x \in Nodes /\ Off(x)
      BY <3>1 DEF Due
    <3>3. x = n /\ n \in ValuesBy(n - 1)
      BY <1>1, <2>8, <3>2, TurnOf
    <3> QED
      BY <1>9, <3>1, <3>3, BeginNoValue, DueIs
  <2>9. Turns(ns, D)
    BY <1>2, <1>3, <1>9, <2>7, <2>8, TurnsOfBegin
  <2>10. t = CheckAll(s, ns)
    BY <1>4, <1>9, <2>1, <2>3, <2>6 DEF IndentationDispatch
  <2>11. /\ t \in RuleStates /\ RuleHas(t, D \cup (Elements(ns) \cap Due), B)
         /\ t.ranges = s.ranges /\ t.stock = s.stock /\ t.ignored = s.ignored
    BY <1>2, <2>7, <2>9, <2>10, CheckAllIs
  <2> QED
    BY <1>2, <1>4, <1>7, <2>1, <2>7, <2>11 DEF RuleInv
<1>10. CASE Kind(n) \notin {"assign", "modifier", "begin"} \cup Loops
  <2>1. t = s
    BY <1>4, <1>10 DEF IndentationDispatch
  <2>2. LookedAt(n) = {}
    BY <1>10 DEF LookedAt
  <2> QED
    BY <1>2, <1>4, <1>7, <1>10, <2>1, <2>2 DEF RuleInv
<1> QED
  BY <1>6, <1>8, <1>9, <1>10

-----------------------------------------------------------------------------
(* The stock cop.                                                          *)

StockStates == [ranges : SUBSET Pairs, ignored : SUBSET Nat, out : SUBSET (Nat \X BOOLEAN)]

Autocorrects == "Autocorrect" \in tree.options

\* The stock cop has looked at the bodies in D; it only keeps ranges when it
\* corrects.
StockHas(h, D, B) ==
    /\ h.ranges = IF Autocorrects THEN RangesKept(D, B, "characters") ELSE B
    /\ h.out = {<<ListOf(x), Autocorrects => Moves(x, B, "characters")>> : x \in D}

\* The state of the stock cop keeps its shape.
LEMMA StockCheckType ==
    ASSUME tree \in Shapes, NEW x \in Nodes, NEW h \in StockStates
    PROVE  /\ StockCheck(h, x) \in StockStates /\ StockCheck(h, x).ignored = h.ignored
           /\ ~Off(x) => StockCheck(h, x) = h
           /\ x \in h.ignored => StockCheck(h, x) = h
<1>1. CASE ~Off(x) \/ x \in h.ignored
  <2>1. StockCheck(h, x) = h
    BY <1>1 DEF StockCheck, Off
  <2> QED
    BY <2>1
<1>2. CASE Off(x) /\ x \notin h.ignored
  <2>1. ShiftedLists(x) # {}
    BY <1>2 DEF Off
  <2>2. PICK l, r : l = ListOf(x) /\ r = RangeOf(x) /\ l \in Nat /\ r \in Pairs
    BY <2>1, RangeType
  <2>3. PICK within \in BOOLEAN : within <=> Autocorrects /\ \E q \in h.ranges : Within(r, q)
    OBVIOUS
  <2>4. PICK moves \in BOOLEAN : moves = ~within
    OBVIOUS
  <2>5. h.ranges \subseteq Pairs /\ h.out \subseteq Nat \X BOOLEAN
    BY DEF StockStates
  <2>6. PICK kept : kept \subseteq Pairs /\ kept = IF within \/ ~Autocorrects THEN h.ranges ELSE h.ranges \cup {r}
    <3>1. (IF within \/ ~Autocorrects THEN h.ranges ELSE h.ranges \cup {r}) \subseteq Pairs
      BY <2>2, <2>5
    <3> QED
      BY <3>1
  <2>7. PICK all : all = h.out \cup {<<l, moves>>} /\ all \subseteq Nat \X BOOLEAN
    <3>1. <<l, moves>> \in Nat \X BOOLEAN
      BY <2>2, <2>4
    <3> QED
      BY <2>5, <3>1
  <2>8. PICK t : t = StockCheck(h, x)
    OBVIOUS
  <2>9. t = [h EXCEPT !.ranges = kept, !.out = all]
    <3>1. t = StockOffense(h, l, r)
      BY <1>2, <2>2, <2>8 DEF StockCheck, Off, ListOf, RangeOf
    <3>2. (Autocorrects /\ \E q \in h.ranges : Within(r, q)) = within
      BY <2>3
    <3>3. t = [h EXCEPT !.ranges = IF within \/ ~Autocorrects THEN @ ELSE @ \cup {r},
                        !.out = @ \cup {<<l, ~within>>}]
      BY <3>1, <3>2 DEF StockOffense, Autocorrects
    <3> QED
      BY <2>4, <2>6, <2>7, <3>3
  <2>10. t \in StockStates /\ t.ignored = h.ignored
    BY <2>6, <2>7, <2>9 DEF StockStates
  <2> QED
    BY <1>2, <2>8, <2>10
<1> QED
  BY <1>1, <1>2

\* When it is a body's turn the stock cop gives it the same due.
LEMMA StockCheckIs ==
    ASSUME tree \in Shapes, NEW x \in Nodes, NEW h \in StockStates,
           NEW B, B \subseteq Pairs, NEW D, D \subseteq Due, StockHas(h, D, B), Ready(x, D),
           Off(x) => x \notin h.ignored
    PROVE  StockHas(StockCheck(h, x), D \cup ({x} \cap Due), B)
<1>1. CASE ~Off(x)
  <2>1. StockCheck(h, x) = h /\ x \notin Due
    BY <1>1, StockCheckType DEF Due
  <2>2. D \cup ({x} \cap Due) = D
    BY <2>1
  <2> QED
    BY <2>1, <2>2
<1>2. CASE Off(x)
  <2>1. /\ ShiftedLists(x) # {} /\ x \in Due /\ x \notin D /\ x \notin h.ignored
        /\ \A y \in Due : y # x /\ Within(RangeOf(x), RangeOf(y)) => y \in D
    BY <1>2 DEF Off, Ready
  <2>2. PICK l, r : l = ListOf(x) /\ r = RangeOf(x)
    OBVIOUS
  <2>3. PICK moves \in BOOLEAN : moves = (Autocorrects => Moves(x, B, "characters"))
    OBVIOUS
  <2>4. (Autocorrects /\ \E q \in h.ranges : Within(r, q)) = ~moves
    <3>1. CASE Autocorrects
      <4>1. (\E q \in h.ranges : Within(r, q)) <=> ~Moves(x, B, "characters")
        <5>1. "characters" \in Units /\ RangeIn(x, "characters") = r
          BY <2>2 DEF Units, RangeIn
        <5> QED
          BY <2>1, <3>1, <5>1, MovesIs DEF StockHas
      <4> QED
        BY <2>3, <3>1, <4>1
    <3>2. CASE ~Autocorrects
      BY <2>3, <3>2
    <3> QED
      BY <3>1, <3>2
  <2>5. PICK t : t = StockCheck(h, x)
    OBVIOUS
  <2>6. /\ t.ranges = IF ~moves \/ ~Autocorrects THEN h.ranges ELSE h.ranges \cup {r}
        /\ t.out = h.out \cup {<<l, moves>>}
    <3>1. t = StockOffense(h, l, r)
      BY <1>2, <2>1, <2>2, <2>5 DEF StockCheck, Off, ListOf, RangeOf
    <3>2. t = [h EXCEPT !.ranges = IF ~moves \/ ~Autocorrects THEN @ ELSE @ \cup {r},
                        !.out = @ \cup {<<l, ~~moves>>}]
      BY <2>4, <3>1 DEF StockOffense, Autocorrects
    <3>3. ~~moves = moves
      OBVIOUS
    <3> QED
      BY <3>2, <3>3 DEF StockStates
  <2>7. D \cup ({x} \cap Due) = D \cup {x}
    BY <2>1
  <2>8. t.ranges = IF Autocorrects THEN RangesKept(D \cup {x}, B, "characters") ELSE B
    <3>1. CASE Autocorrects
      <4>1. moves <=> Moves(x, B, "characters")
        BY <2>3, <3>1
      <4>2. h.ranges = RangesKept(D, B, "characters") /\ t.ranges = IF moves THEN h.ranges \cup {r} ELSE h.ranges
        BY <2>6, <3>1 DEF StockHas
      <4>3. t.ranges = RangesKept(D \cup {x}, B, "characters")
        BY <2>2, <4>1, <4>2 DEF RangesKept, RangeIn
      <4> QED
        BY <3>1, <4>3
    <3>2. CASE ~Autocorrects
      BY <2>6, <3>2 DEF StockHas
    <3> QED
      BY <3>1, <3>2
  <2>9. t.out = {<<ListOf(z), Autocorrects => Moves(z, B, "characters")>> : z \in D \cup {x}}
    BY <2>2, <2>3, <2>6 DEF StockHas
  <2> QED
    BY <2>5, <2>7, <2>8, <2>9 DEF StockHas
<1> QED
  BY <1>1, <1>2

\* The states of the stock cop along a list of nodes.
StockChecked(h, ns, f) ==
    f = [i \in 0 .. Len(ns) |-> IF i = 0 THEN h ELSE StockCheck(f[i - 1], ns[i])]

LEMMA StockCheckedDefined ==
    ASSUME tree \in Shapes, NEW ns \in Seq(Nodes), NEW h \in StockStates
    PROVE  \E f : StockChecked(h, ns, f)
<1>1. PICK n \in Nat : n = Len(ns) /\ \A i \in 1 .. n : ns[i] \in Nodes
  OBVIOUS
<1>2. PICK G : G = [c \in (1 .. n) \X StockStates |-> StockCheck(c[2], ns[c[1]])]
  OBVIOUS
<1>3. \A j \in 1 .. n : \A v \in StockStates :
          G[<<j, v>>] = StockCheck(v, ns[j]) /\ G[<<j, v>>] \in StockStates
  BY <1>1, <1>2, StockCheckType
<1>4. PICK f : FoldsTo(f, n, h, G) /\ f \in [0 .. n -> StockStates]
  BY <1>3, FoldDefined
<1> DEFINE g == [i \in 0 .. n |-> IF i = 0 THEN h ELSE StockCheck(f[i - 1], ns[i])]
<1>5. ASSUME NEW i \in 0 .. n PROVE f[i] = g[i]
  <2>1. f[i] = IF i = 0 THEN h ELSE G[<<i, f[i - 1]>>]
    BY <1>4 DEF FoldsTo
  <2>2. CASE i = 0
    BY <2>1, <2>2
  <2>3. CASE i \in 1 .. n
    <3>1. i - 1 \in 0 .. n /\ i # 0
      BY <2>3
    <3>2. f[i - 1] \in StockStates
      BY <1>4, <3>1
    <3> QED
      BY <1>3, <2>1, <2>3, <3>1, <3>2
  <2> QED
    BY <2>2, <2>3
<1>6. f = g
  BY <1>4, <1>5
<1> QED
  BY <1>1, <1>6 DEF StockChecked

\* One after the other, each when it is its turn.
LEMMA StockCheckAllIs ==
    ASSUME tree \in Shapes, NEW ns \in Seq(Nodes), NEW h \in StockStates,
           NEW B, B \subseteq Pairs, NEW D, D \subseteq Due, StockHas(h, D, B), Turns(ns, D),
           \A i \in 1 .. Len(ns) : Off(ns[i]) => ns[i] \notin h.ignored
    PROVE  /\ StockCheckAll(h, ns) \in StockStates
           /\ StockHas(StockCheckAll(h, ns), D \cup (Elements(ns) \cap Due), B)
           /\ StockCheckAll(h, ns).ignored = h.ignored
<1>1. PICK n \in Nat : n = Len(ns) /\ \A i \in 1 .. n : ns[i] \in Nodes
  OBVIOUS
<1> DEFINE f == CHOOSE f : StockChecked(h, ns, f)
<1>2. StockChecked(h, ns, f)
  BY StockCheckedDefined
<1>3. StockCheckAll(h, ns) = f[n]
  BY <1>1 DEF StockCheckAll, StockChecked
<1> HIDE DEF f
<1>4. \A i \in 0 .. n : f[i] = IF i = 0 THEN h ELSE StockCheck(f[i - 1], ns[i])
  BY <1>1, <1>2 DEF StockChecked
<1> DEFINE Done(i) == D \cup ({ns[j] : j \in 1 .. i} \cap Due)
           Holds(i) == f[i] \in StockStates /\ StockHas(f[i], Done(i), B) /\ f[i].ignored = h.ignored
           Good == {i \in Nat : i <= n => Holds(i)}
<1>5. 0 \in Good
  <2>1. f[0] = h
    BY <1>4
  <2>2. Done(0) = D
    <3>1. 1 .. 0 = {}
      OBVIOUS
    <3> QED
      BY <3>1
  <2> HIDE DEF Done
  <2> QED
    BY <2>1, <2>2
<1>6. \A i \in Nat : i \in Good => i + 1 \in Good
  <2> HIDE DEF Done
  <2> SUFFICES ASSUME NEW i \in Nat, i + 1 <= n, Holds(i) PROVE Holds(i + 1)
    OBVIOUS
  <2>1. PICK u, t, x : u = f[i] /\ t = f[i + 1] /\ x = ns[i + 1]
    OBVIOUS
  <2>2. t = StockCheck(u, x)
    BY <1>4, <2>1
  <2>3. i + 1 \in 1 .. n /\ (i + 1) - 1 = i
    OBVIOUS
  <2>4. /\ x \in Nodes /\ u \in StockStates /\ StockHas(u, Done(i), B) /\ Done(i) \subseteq Due
        /\ Off(x) => x \notin u.ignored
    BY <1>1, <2>1, <2>3 DEF Done
  <2>5. Ready(x, Done(i))
    BY <1>1, <2>1, <2>3 DEF Turns, Done
  <2>6. StockHas(t, Done(i) \cup ({x} \cap Due), B)
    BY <2>2, <2>4, <2>5, StockCheckIs
  <2>7. Done(i + 1) = Done(i) \cup ({x} \cap Due)
    <3>1. 1 .. i + 1 = (1 .. i) \cup {i + 1}
      OBVIOUS
    <3> QED
      BY <2>1, <3>1 DEF Done
  <2>8. t \in StockStates /\ t.ignored = u.ignored
    BY <2>2, <2>4, StockCheckType
  <2> QED
    BY <2>1, <2>6, <2>7, <2>8
<1> HIDE DEF Good
<1>7. n \in Good
  BY <1>5, <1>6, NatSet
<1>8. Holds(n)
  BY <1>7 DEF Good
<1>9. Done(n) = D \cup (Elements(ns) \cap Due)
  BY <1>1 DEF Elements
<1> QED
  BY <1>3, <1>8, <1>9

\* A clause is no loop, begin, assignment or modifier.
LEMMA RescueKind ==
    ASSUME tree \in Shapes, NEW x \in Nodes, Class(tree, x) = "rescue"
    PROVE  x # 1 /\ Kind(x) \notin Loops \cup {"begin", "assign", "modifier"}
<1>1. DOMAIN tree.kind = Nodes /\ "rescue" \notin Branches
  BY TreeFacts DEF Branches, ClassIndex
<1> QED
  BY <1>1, WidthKindsAssumption DEF Kind

\* A handler is no loop and no begin.
LEMMA HandlerKind ==
    ASSUME tree \in Shapes, NEW n \in Nodes, NEW x \in HandlerNodes(n)
    PROVE  x \in Nodes /\ n \in Over(x) /\ Kind(x) \notin Loops \cup {"begin"}
<1>1. x \in Nodes /\ n \in Over(x)
  BY ExtentIs DEF HandlerNodes
<1>2. Class(tree, x) = "rescue" \/ Kind(x) \in {"beginElse", "ensure"}
  BY DEF HandlerNodes
<1>3. Kind(x) \in {"beginElse", "ensure"} => Kind(x) \notin Loops \cup {"begin"}
  BY DEF Loops
<1> QED
  BY <1>1, <1>2, <1>3, RescueKind

\* A value whose bodies are off their column is a loop.
LEMMA ValueKind ==
    ASSUME tree \in Shapes, NEW n \in Nodes, NEW x \in ValuesBy(n - 1), ShiftedLists(x) # {}
    PROVE  Kind(x) \in Loops
<1>1. PICK k \in 1 .. n - 1 : IsValue(k) /\ x = Value(k)
  BY DEF ValuesBy
<1>2. k \in Nodes
  BY TreeFacts
<1> QED
  BY <1>1, <1>2, ValueIs DEF IsValue

\* Every clause is a handler of a begin.
LEMMA RescueInBegin ==
    ASSUME tree \in Shapes, NEW x \in Nodes, Class(tree, x) = "rescue"
    PROVE  \E b \in Nodes : Kind(b) = "begin" /\ x \in HandlerNodes(b)
<1> DEFINE S == {i \in Nat : i \in Nodes /\ Class(tree, i) = "rescue" =>
                     \E b \in Nodes : Kind(b) = "begin" /\ i \in HandlerNodes(b)}
<1>1. ASSUME NEW i \in Nat, \A j \in Nat : j < i => j \in S
      PROVE  i \in S
  <2> SUFFICES ASSUME i \in Nodes, Class(tree, i) = "rescue"
               PROVE  \E b \in Nodes : Kind(b) = "begin" /\ i \in HandlerNodes(b)
    OBVIOUS
  <2>1. i \in 2 .. Len(tree.kind)
    BY RescueKind, TreeFacts
  <2>2. PICK u : u = tree.parent[i] /\ (Class(tree, u) = "rescue" \/ Kind(u) = "begin")
    <3>1. WellFormed(tree)
      BY ShapesAssumption
    <3> QED
      BY <2>1, <3>1 DEF WellFormed, Kind
  <2>3. u \in Nodes /\ u \in 1 .. i - 1 /\ Over(i) = Over(u) \cup {u} /\ i \in Nat
    <3>1. u # 0
      BY <2>1, <2>2, TreeFacts
    <3> QED
      BY <2>2, <3>1, OverIs
  <2>4. CASE Kind(u) = "begin"
    <3>1. i \in UnderNode(u)
      BY <2>3, ExtentIs
    <3>2. ASSUME NEW a \in Over(i), a \in UnderNode(u) PROVE FALSE
      <4>1. a \in Nodes /\ u \in Over(a)
        BY <2>3, <3>2, ExtentIs
      <4>2. u \in 1 .. a - 1
        BY <4>1, OverIs
      <4>3. a = u \/ a \in 1 .. u - 1
        BY <2>3, <3>2, OverIs
      <4> QED
        BY <2>3, <4>2, <4>3
    <3>3. i \in HandlerNodes(u)
      BY <3>1, <3>2 DEF HandlerNodes
    <3> QED
      BY <2>3, <2>4, <3>3
  <2>5. CASE Class(tree, u) = "rescue"
    <3>1. u \in S
      BY <1>1, <2>3
    <3>2. PICK b \in Nodes : Kind(b) = "begin" /\ u \in HandlerNodes(b)
      BY <2>3, <2>5, <3>1
    <3>3. b \in Over(u)
      BY <3>2, HandlerKind
    <3>4. i \in UnderNode(b)
      BY <2>3, <3>3, ExtentIs
    <3>5. \A a \in Over(i) \cap UnderNode(b) : Class(tree, a) = "rescue"
      BY <2>3, <2>5, <3>2 DEF HandlerNodes
    <3>6. i \in HandlerNodes(b)
      BY <3>4, <3>5 DEF HandlerNodes
    <3> QED
      BY <3>2, <3>6
  <2> QED
    BY <2>2, <2>4, <2>5
<1> HIDE DEF S
<1>2. \A i \in Nat : i \in S
  BY <1>1, NatSetStrong
<1>3. x \in Nat
  BY TreeFacts
<1> QED
  BY <1>2, <1>3 DEF S

\* The nodes whose bodies the stock cop looks at when it comes to a node: of a
\* begin all but the clauses.
StockLookedAt(n) ==
    IF IsValue(n) THEN {Value(n)}
    ELSE IF Kind(n) \in Loops \/ Class(tree, n) = "rescue" THEN {n}
    ELSE IF Kind(n) = "begin" THEN {n} \cup {k \in HandlerNodes(n) : Class(tree, k) # "rescue"} ELSE {}

StockLookedBy(m) == {x \in Due : \E k \in 1 .. m : x \in StockLookedAt(k)}

\* It looks at a clause when it comes to it, at the rest when the rule does.
LEMMA StockLookedIs ==
    ASSUME tree \in Shapes, NEW n \in Nodes, NEW x \in Nodes, ShiftedLists(x) # {}
    PROVE  x \in StockLookedAt(n) <=> IF Class(tree, x) = "rescue" THEN x = n ELSE x \in LookedAt(n)
<1>1. CASE IsValue(n)
  <2>1. StockLookedAt(n) = {Value(n)} /\ LookedAt(n) = {Value(n)} /\ Class(tree, n) # "rescue"
    BY <1>1, RescueKind DEF StockLookedAt, LookedAt, IsValue
  <2>2. x = Value(n) => Class(tree, x) # "rescue"
    BY <1>1, ValueIs, RescueKind DEF IsValue
  <2> QED
    BY <2>1, <2>2
<1>2. CASE Kind(n) \in Loops
  <2>1. StockLookedAt(n) = {n} /\ LookedAt(n) = {n} /\ Class(tree, n) # "rescue"
    BY <1>2, RescueKind DEF StockLookedAt, LookedAt, IsValue, Loops
  <2> QED
    BY <2>1
<1>3. CASE Class(tree, n) = "rescue"
  <2>1. Kind(n) \notin Loops \cup {"begin", "assign", "modifier"}
    BY <1>3, RescueKind
  <2>2. StockLookedAt(n) = {n} /\ LookedAt(n) = {}
    BY <1>3, <2>1 DEF StockLookedAt, LookedAt, IsValue
  <2> QED
    BY <1>3, <2>2
<1>4. CASE Kind(n) = "begin"
  <2>1. Class(tree, n) # "rescue" /\ ~IsValue(n) /\ Kind(n) \notin Loops
    BY <1>4, RescueKind DEF IsValue, Loops
  <2>2. LookedAt(n) = {n} \cup HandlerNodes(n)
    BY <1>4, <2>1 DEF LookedAt, IsValue
  <2>3. StockLookedAt(n) = {n} \cup {k \in HandlerNodes(n) : Class(tree, k) # "rescue"}
    BY <1>4, <2>1 DEF StockLookedAt
  <2> QED
    BY <2>1, <2>2, <2>3
<1>5. CASE ~IsValue(n) /\ Kind(n) \notin Loops \cup {"begin"} /\ Class(tree, n) # "rescue"
  <2>1. StockLookedAt(n) = {} /\ LookedAt(n) = {}
    BY <1>5 DEF StockLookedAt, LookedAt, IsValue
  <2> QED
    BY <1>5, <2>1
<1> QED
  BY <1>1, <1>2, <1>3, <1>4, <1>5

\* The stock cop, too, has looked at a node when it has come to it.
LEMMA StockLookedSoon ==
    ASSUME tree \in Shapes, NEW y \in Due
    PROVE  y \in StockLookedBy(y)
<1>1. y \in Nodes /\ ShiftedLists(y) # {} /\ y \in Nat /\ y >= 1 /\ 1 .. y \subseteq Nodes
  BY DueIs, TreeFacts
<1>2. CASE Class(tree, y) = "rescue"
  <2>1. y \in StockLookedAt(y)
    BY <1>1, <1>2, StockLookedIs
  <2> QED
    BY <1>1, <2>1 DEF StockLookedBy
<1>3. CASE Class(tree, y) # "rescue"
  <2>1. PICK k \in 1 .. y : y \in LookedAt(k)
    BY LookedAtSoon DEF LookedBy
  <2>2. y \in StockLookedAt(k)
    BY <1>1, <1>3, <2>1, StockLookedIs
  <2> QED
    BY <2>1, <2>2 DEF StockLookedBy
<1> QED
  BY <1>2, <1>3

LEMMA StockLookedAbove ==
    ASSUME tree \in Shapes, NEW n \in Nodes, NEW y \in Due, y \in Over(n)
    PROVE  y \in StockLookedBy(n - 1)
<1>1. y \in 1 .. n - 1 /\ n \in Nat /\ y \in Nat
  BY OverIs, TreeFacts
<1>2. y \in StockLookedBy(y)
  BY StockLookedSoon
<1> QED
  BY <1>1, <1>2 DEF StockLookedBy

\* When the stock cop looks at a body.
LEMMA StockTurnOf ==
    ASSUME tree \in Shapes, NEW n \in Nodes, NEW x \in StockLookedAt(n), x \in Nodes, Off(x)
    PROVE  /\ x \in Due
           /\ x \in StockLookedBy(n - 1) <=> (x = n /\ n \in ValuesBy(n - 1))
           /\ \A y \in Due : y # x /\ Within(RangeOf(x), RangeOf(y)) =>
                 y \in Over(n) \/ (y = n /\ Kind(n) = "begin" /\ x \in HandlerNodes(n))
<1>1. ShiftedLists(x) # {} /\ n \in Nat /\ 1 .. n - 1 \subseteq Nodes
  BY TreeFacts DEF Off
<1>2. CASE Class(tree, x) = "rescue"
  <2>1. x = n
    BY <1>1, <1>2, StockLookedIs
  <2>2. x \in Due
    <3>1. PICK b \in Nodes : Kind(b) = "begin" /\ x \in HandlerNodes(b)
      BY <1>2, RescueInBegin
    <3>2. x \in LookedAt(b)
      BY <3>1 DEF LookedAt, Loops
    <3> QED
      BY <3>2 DEF Due
  <2>3. x \notin StockLookedBy(n - 1)
    <3>1. ASSUME NEW k \in 1 .. n - 1, x \in StockLookedAt(k) PROVE FALSE
      <4>1. x = k
        BY <1>1, <1>2, <3>1, StockLookedIs
      <4> QED
        BY <1>1, <2>1, <4>1
    <3> QED
      BY <3>1 DEF StockLookedBy
  <2>4. n \notin ValuesBy(n - 1)
    BY <1>1, <1>2, <2>1, ValueKind, RescueKind
  <2>5. \A y \in Due : y # x /\ Within(RangeOf(x), RangeOf(y)) => y \in Over(n)
    BY <2>1, <2>2, RangeWithin
  <2> QED
    BY <2>2, <2>3, <2>4, <2>5
<1>3. CASE Class(tree, x) # "rescue"
  <2>1. x \in LookedAt(n)
    BY <1>1, <1>3, StockLookedIs
  <2>2. x \in Due
    BY <2>1, TurnOf
  <2>3. x \in StockLookedBy(n - 1) <=> x \in LookedBy(n - 1)
    BY <1>1, <1>3, StockLookedIs DEF StockLookedBy, LookedBy
  <2>4. x \in LookedBy(n - 1) <=> (x = n /\ n \in ValuesBy(n - 1))
    BY <2>1, TurnOf
  <2>5. \A y \in Due : y # x /\ Within(RangeOf(x), RangeOf(y)) =>
            y \in Over(n) \/ (y = n /\ Kind(n) = "begin" /\ x \in HandlerNodes(n))
    BY <2>1, <2>2, OuterFirst
  <2> QED
    BY <2>2, <2>3, <2>4, <2>5
<1> QED
  BY <1>2, <1>3

\* A reversed list has the same elements, each once.
LEMMA ReverseIs ==
    ASSUME NEW S, NEW s \in Seq(S), \A i, j \in 1 .. Len(s) : i # j => s[i] # s[j]
    PROVE  LET r == Reverse(s)
           IN  /\ r \in Seq(S) /\ Elements(r) = Elements(s)
               /\ \A i, j \in 1 .. Len(r) : i # j => r[i] # r[j]
<1>1. PICK l \in Nat : l = Len(s) /\ \A i \in 1 .. l : s[i] \in S
  OBVIOUS
<1>2. \A i \in 1 .. l : (l - i) + 1 \in 1 .. l
  OBVIOUS
<1>3. PICK r : r = Reverse(s)
  OBVIOUS
<1>4. r = [i \in 1 .. l |-> s[(l - i) + 1]]
  BY <1>1, <1>3 DEF Reverse
<1>5. r \in Seq(S) /\ Len(r) = l /\ \A i \in 1 .. l : r[i] = s[(l - i) + 1]
  BY <1>1, <1>2, <1>4
<1>6. ASSUME NEW i \in 1 .. l, NEW j \in 1 .. l, i # j PROVE r[i] # r[j]
  <2>1. (l - i) + 1 # (l - j) + 1
    BY <1>6
  <2> QED
    BY <1>1, <1>2, <1>5, <2>1
<1>7. Elements(r) \subseteq Elements(s)
  BY <1>1, <1>2, <1>5 DEF Elements
<1>8. ASSUME NEW i \in 1 .. l PROVE s[i] \in Elements(r)
  <2>1. (l - i) + 1 \in 1 .. l /\ (l - ((l - i) + 1)) + 1 = i
    OBVIOUS
  <2>2. r[(l - i) + 1] = s[i]
    BY <1>5, <2>1
  <2> QED
    BY <1>5, <2>1, <2>2 DEF Elements
<1>9. Elements(s) \subseteq Elements(r)
  BY <1>1, <1>8 DEF Elements
<1> QED
  BY <1>3, <1>5, <1>6, <1>7, <1>9

\* A begin and the handlers the stock cop looks at with it, each once.
LEMMA WithLateIs ==
    ASSUME tree \in Shapes, NEW n \in Nodes
    PROVE  /\ WithLate(n) \in Seq(Nodes) /\ Len(WithLate(n)) >= 1 /\ WithLate(n)[1] = n
           /\ Elements(WithLate(n)) = {n} \cup {k \in HandlerNodes(n) : Class(tree, k) # "rescue"}
           /\ \A i, j \in 1 .. Len(WithLate(n)) : i # j => WithLate(n)[i] # WithLate(n)[j]
<1>1. PICK S : S = Nodes /\ S \subseteq Nat /\ n \in S
  BY TreeFacts
<1>2. PICK hs : hs = Handlers(n) /\ hs \in Seq(S) /\ Elements(hs) = HandlerNodes(n) /\ Increasing(hs)
  BY <1>1, HandlersAre
<1>3. PICK T : T = {k \in S : Class(tree, k) # "rescue"}
  OBVIOUS
<1>4. PICK late : late = Filter(hs, T)
  OBVIOUS
<1>5. late \in Seq(S) /\ Elements(late) = HandlerNodes(n) \cap T
  BY <1>2, <1>4, FilterType, FilterElements
<1>6. hs \in Seq(Nat)
  BY <1>1, <1>2, SeqMonotonic
<1>7. Increasing(late)
  BY <1>2, <1>4, <1>6, FilterIncreasing
<1>8. \A i, j \in 1 .. Len(late) : i # j => late[i] # late[j]
  BY <1>1, <1>5, <1>7, IncreasingDiffers
<1>9. PICK r : r = Reverse(late)
  OBVIOUS
<1>10. r \in Seq(S) /\ Elements(r) = Elements(late) /\ \A i, j \in 1 .. Len(r) : i # j => r[i] # r[j]
  BY <1>5, <1>8, <1>9, ReverseIs
<1>11. n \notin Elements(r)
  BY <1>5, <1>10, NotItsHandler
<1>12. PICK ns : ns = <<n>> \o r
  OBVIOUS
<1>13. /\ ns \in Seq(S) /\ Len(ns) >= 1 /\ ns[1] = n
       /\ Elements(ns) = {n} \cup Elements(r)
       /\ \A i, j \in 1 .. Len(ns) : i # j => ns[i] # ns[j]
  BY <1>1, <1>10, <1>11, <1>12, ConsIs
<1>14. HandlerNodes(n) \cap T = {k \in HandlerNodes(n) : Class(tree, k) # "rescue"}
  BY <1>1, <1>3, HandlerKind
<1>15. ns = WithLate(n)
  BY <1>1, <1>2, <1>3, <1>4, <1>9, <1>12 DEF WithLate
<1> QED
  BY <1>1, <1>5, <1>10, <1>13, <1>14, <1>15

\* The next node.
LEMMA StockNextLooked ==
    ASSUME tree \in Shapes, NEW n \in Nodes
    PROVE  /\ StockLookedBy(n) = StockLookedBy(n - 1) \cup (StockLookedAt(n) \cap Due)
           /\ StockLookedBy(n - 1) \subseteq Due
<1>1. n \in Nat /\ n >= 1 /\ 1 .. n = (1 .. n - 1) \cup {n}
  BY TreeFacts
<1> QED
  BY <1>1 DEF StockLookedBy

\* The state of the stock cop when it has come to the nodes up to m.
StockInv(h, B, m) ==
    /\ h \in StockStates /\ StockHas(h, StockLookedBy(m), B)
    /\ h.ignored = ValuesBy(m)

\* The stock cop comes to a node.
LEMMA StockVisit ==
    ASSUME tree \in Shapes, NEW n \in Nodes, NEW h, NEW B, B \subseteq Pairs, StockInv(h, B, n - 1)
    PROVE  StockInv(StockCallback(h, n), B, n)
<1>1. PICK D : D = StockLookedBy(n - 1)
  OBVIOUS
<1>2. /\ h \in StockStates /\ StockHas(h, D, B) /\ h.ignored = ValuesBy(n - 1)
      /\ D \subseteq Due /\ StockLookedBy(n) = D \cup (StockLookedAt(n) \cap Due)
      /\ ValuesBy(n) = ValuesBy(n - 1) \cup (IF IsValue(n) THEN {Value(n)} ELSE {})
      /\ ValuesBy(n - 1) \subseteq Nodes
  BY <1>1, NextLooked, StockNextLooked DEF StockInv
<1>3. \A y \in Due : y \in Over(n) => y \in D
  BY <1>1, StockLookedAbove
<1>4. PICK t : t = StockCallback(h, n)
  OBVIOUS
<1>5. ASSUME NEW x \in Nodes, x \in StockLookedAt(n), Kind(n) # "begin", ~(x = n /\ n \in ValuesBy(n - 1))
      PROVE  Ready(x, D)
  <2> SUFFICES ASSUME Off(x)
               PROVE  x \in Due \ D /\ \A y \in Due : y # x /\ Within(RangeOf(x), RangeOf(y)) => y \in D
    BY DEF Ready
  <2> QED
    BY <1>1, <1>3, <1>5, StockTurnOf
<1>6. CASE IsValue(n)
  <2>1. PICK v : v = Value(n) /\ v \in Nodes /\ v # n
    BY <1>6, ValueIs, TreeFacts DEF IsValue
  <2>2. /\ StockLookedAt(n) = {v} /\ Kind(n) \in {"assign", "modifier"} /\ Kind(n) # "begin"
        /\ Class(tree, n) # "rescue"
    BY <1>6, <2>1, RescueKind DEF StockLookedAt, IsValue
  <2>3. Ready(v, D)
    BY <1>5, <2>1, <2>2
  <2>4. v \notin h.ignored
    BY <1>2, <1>6, <2>1, ValueOnce
  <2>5. PICK u : u = StockCheck(h, v)
    OBVIOUS
  <2>6. u \in StockStates /\ u.ignored = h.ignored /\ StockHas(u, D \cup ({v} \cap Due), B)
    BY <1>2, <2>1, <2>3, <2>4, <2>5, StockCheckType, StockCheckIs
  <2>7. t = [u EXCEPT !.ignored = u.ignored \cup {v}]
    BY <1>4, <2>1, <2>2, <2>5 DEF StockCallback, Value, Loops
  <2>8. PICK ignored : ignored = u.ignored \cup {v} /\ ignored \subseteq Nat
    <3>1. u.ignored \subseteq Nat /\ v \in Nat
      BY <2>1, <2>6, TreeFacts DEF StockStates
    <3> QED
      BY <3>1
  <2>9. t \in StockStates /\ t.ranges = u.ranges /\ t.out = u.out /\ t.ignored = ignored
    BY <2>6, <2>7, <2>8 DEF StockStates
  <2>10. StockHas(t, StockLookedBy(n), B)
    BY <1>2, <2>2, <2>6, <2>9 DEF StockHas
  <2>11. t.ignored = ValuesBy(n)
    BY <1>2, <1>6, <2>1, <2>6, <2>8, <2>9
  <2> QED
    BY <1>4, <2>9, <2>10, <2>11 DEF StockInv
<1>7. ASSUME ~IsValue(n)
      PROVE  ValuesBy(n) = ValuesBy(n - 1)
  BY <1>2, <1>7
<1>8. CASE Kind(n) \in Loops \/ Class(tree, n) = "rescue"
  <2>1. /\ Kind(n) \notin {"assign", "modifier", "begin"} /\ ~IsValue(n)
        /\ StockLookedAt(n) = {n}
    BY <1>8, RescueKind DEF StockLookedAt, Loops, IsValue
  <2>2. t = StockCheck(h, n)
    BY <1>4, <1>8, <2>1 DEF StockCallback
  <2>3. CASE n \in ValuesBy(n - 1)
    <3>1. t = h
      BY <1>2, <2>2, <2>3, StockCheckType
    <3>2. n \in Due => n \in D
      <4>1. n \in Due => Off(n)
        BY DEF Due
      <4> QED
        BY <1>1, <2>1, <2>3, <4>1, StockTurnOf
    <3>3. StockLookedBy(n) = D
      BY <1>2, <2>1, <3>2
    <3> QED
      BY <1>2, <1>4, <1>7, <2>1, <3>1, <3>3 DEF StockInv
  <2>4. CASE n \notin ValuesBy(n - 1)
    <3>1. Ready(n, D)
      BY <1>5, <2>1, <2>4
    <3>2. t \in StockStates /\ t.ignored = h.ignored /\ StockHas(t, D \cup ({n} \cap Due), B)
      BY <1>2, <2>2, <2>4, <3>1, StockCheckType, StockCheckIs
    <3> QED
      BY <1>2, <1>4, <1>7, <2>1, <3>2 DEF StockInv
  <2> QED
    BY <2>3, <2>4
<1>9. CASE Kind(n) = "begin"
  <2>1. Kind(n) \notin {"assign", "modifier"} \cup Loops /\ ~IsValue(n) /\ Class(tree, n) # "rescue"
    BY <1>9, RescueKind DEF Loops, IsValue
  <2>2. /\ StockLookedAt(n) = {n} \cup {k \in HandlerNodes(n) : Class(tree, k) # "rescue"}
        /\ LookedAt(n) = {n} \cup HandlerNodes(n)
    BY <1>9, <2>1 DEF StockLookedAt, LookedAt
  <2>3. PICK ns : ns = WithLate(n)
    OBVIOUS
  <2>4. /\ ns \in Seq(Nodes) /\ Len(ns) >= 1 /\ ns[1] = n /\ Elements(ns) = StockLookedAt(n)
        /\ \A i, j \in 1 .. Len(ns) : i # j => ns[i] # ns[j]
    BY <2>2, <2>3, WithLateIs
  <2>5. ASSUME NEW x \in StockLookedAt(n), ShiftedLists(x) # {}, x \in ValuesBy(n - 1) PROVE FALSE
    <3>1. Kind(x) \in Loops
      BY <2>5, ValueKind
    <3>2. Kind(x) \notin Loops
      BY <2>1, <2>2, HandlerKind
    <3> QED
      BY <3>1, <3>2
  <2>6. ASSUME NEW x \in StockLookedAt(n), x \in D PROVE FALSE
    <3>1. x \in Due
      BY <1>2, <2>6
    <3>2. x \in Nodes /\ Off(x) /\ ShiftedLists(x) # {}
      BY <3>1, DueIs DEF Due
    <3>3. x = n /\ n \in ValuesBy(n - 1)
      BY <1>1, <2>6, <3>2, StockTurnOf
    <3> QED
      BY <2>5, <3>2, <3>3
  <2>7. Turns(ns, D)
    <3>1. Elements(ns) \subseteq LookedAt(n)
      BY <2>2, <2>4
    <3> QED
      BY <1>3, <1>9, <2>4, <2>6, <3>1, TurnsOfBegin
  <2>8. \A i \in 1 .. Len(ns) : Off(ns[i]) => ns[i] \notin h.ignored
    <3> SUFFICES ASSUME NEW i \in 1 .. Len(ns), Off(ns[i]), ns[i] \in h.ignored PROVE FALSE
      OBVIOUS
    <3>1. PICK x : x = ns[i] /\ x \in StockLookedAt(n) /\ x \in ValuesBy(n - 1)
      BY <1>2, <2>4 DEF Elements
    <3>2. ShiftedLists(x) # {}
      BY <3>1 DEF Off
    <3> QED
      BY <2>5, <3>1, <3>2
  <2>9. t = StockCheckAll(h, ns)
    BY <1>4, <1>9, <2>1, <2>3 DEF StockCallback
  <2>10. /\ t \in StockStates /\ StockHas(t, D \cup (Elements(ns) \cap Due), B)
         /\ t.ignored = h.ignored
    BY <1>2, <2>4, <2>7, <2>8, <2>9, StockCheckAllIs
  <2> QED
    BY <1>2, <1>4, <1>7, <2>1, <2>4, <2>10 DEF StockInv
<1>10. CASE ~IsValue(n) /\ Kind(n) \notin Loops \cup {"begin"} /\ Class(tree, n) # "rescue"
  <2>1. t = h
    BY <1>4, <1>10 DEF StockCallback, IsValue
  <2>2. StockLookedAt(n) = {}
    BY <1>10 DEF StockLookedAt
  <2> QED
    BY <1>2, <1>4, <1>7, <1>10, <2>1, <2>2 DEF StockInv
<1> QED
  BY <1>6, <1>8, <1>9, <1>10

\* After the last node all that is due has been looked at, by either.
LEMMA AllLooked ==
    ASSUME tree \in Shapes
    PROVE  LookedBy(Len(tree.parent)) = Due /\ StockLookedBy(Len(tree.parent)) = Due
<1>1. PICK N : N = Len(tree.parent) /\ N \in Nat /\ Nodes = 1 .. N
  BY TreeFacts
<1>2. ASSUME NEW y \in Due PROVE y \in LookedBy(N) /\ y \in StockLookedBy(N)
  <2>1. 1 .. y \subseteq 1 .. N
    BY <1>1, DueIs
  <2>2. y \in LookedBy(y) /\ y \in StockLookedBy(y)
    BY LookedAtSoon, StockLookedSoon
  <2> QED
    BY <2>1, <2>2 DEF LookedBy, StockLookedBy
<1> QED
  BY <1>1, <1>2 DEF LookedBy, StockLookedBy

\* The stock cop before it comes to the first node.
StockBegins(B) == [ranges |-> B, ignored |-> {}, out |-> {}]

LEMMA StockBeginsIs ==
    ASSUME NEW B, B \subseteq Pairs
    PROVE  StockInv(StockBegins(B), B, 0)
<1>1. PICK h : h = StockBegins(B)
  OBVIOUS
<1>2. h.ranges = B /\ h.ignored = {} /\ h.out = {} /\ h \in StockStates
  BY <1>1 DEF StockBegins, StockStates
<1>3. 1 .. 0 = {}
  OBVIOUS
<1>4. StockLookedBy(0) = {} /\ ValuesBy(0) = {}
  BY <1>3 DEF StockLookedBy, ValuesBy
<1>5. RangesKept({}, B, "characters") = B
  BY DEF RangesKept
<1>6. StockHas(h, {}, B)
  BY <1>2, <1>5 DEF StockHas
<1> QED
  BY <1>1, <1>2, <1>4, <1>6 DEF StockInv

\* The states of the stock cop along a round.
StockWalked(f, B) ==
    f = [n \in 0 .. Len(tree.kind) |-> IF n = 0 THEN StockBegins(B) ELSE StockCallback(f[n - 1], n)]

\* What the stock cop keeps at each node of a round.
LEMMA StockAlong ==
    ASSUME tree \in Shapes, NEW B, B \subseteq Pairs, NEW f, NEW N \in Nat, N = Len(tree.parent),
           f[0] = StockBegins(B),
           \A m \in 1 .. N : StockInv(f[m - 1], B, m - 1) => f[m] = StockCallback(f[m - 1], m)
    PROVE  \A m \in 0 .. N : StockInv(f[m], B, m)
<1> DEFINE Good == {m \in Nat : m <= N => StockInv(f[m], B, m)}
<1>1. 0 \in Good
  BY StockBeginsIs
<1>2. \A m \in Nat : m \in Good => m + 1 \in Good
  <2> SUFFICES ASSUME NEW m \in Nat, m + 1 <= N, StockInv(f[m], B, m)
               PROVE  StockInv(f[m + 1], B, m + 1)
    OBVIOUS
  <2> HIDE DEF Good
  <2>1. PICK n : n = m + 1 /\ n \in 1 .. N /\ n - 1 = m
    <3>1. m + 1 \in 1 .. N /\ (m + 1) - 1 = m
      OBVIOUS
    <3> QED
      BY <3>1
  <2>2. n \in Nodes
    BY <2>1, TreeFacts
  <2>3. PICK h : h = f[m] /\ StockInv(h, B, n - 1)
    BY <2>1
  <2>4. f[n] = StockCallback(h, n)
    BY <2>1, <2>3
  <2>5. StockInv(StockCallback(h, n), B, n)
    BY <2>2, <2>3, StockVisit
  <2> QED
    BY <2>1, <2>4, <2>5
<1> HIDE DEF Good
<1>3. \A m \in Nat : m \in Good
  BY <1>1, <1>2, NatSet
<1> QED
  BY <1>3 DEF Good

LEMMA StockWalkedDefined ==
    ASSUME tree \in Shapes, NEW B, B \subseteq Pairs
    PROVE  \E f : StockWalked(f, B)
<1>1. PICK N \in Nat : N = Len(tree.parent) /\ N = Len(tree.kind) /\ Nodes = 1 .. N
  BY TreeFacts
<1>2. PICK G : G = [c \in (1 .. N) \X StockStates |->
                       IF StockCallback(c[2], c[1]) \in StockStates THEN StockCallback(c[2], c[1]) ELSE c[2]]
  OBVIOUS
<1>3. \A j \in 1 .. N : \A v \in StockStates :
          G[<<j, v>>] = IF StockCallback(v, j) \in StockStates THEN StockCallback(v, j) ELSE v
  BY <1>2
<1>4. \A j \in 1 .. N : \A v \in StockStates : G[<<j, v>>] \in StockStates
  BY <1>3
<1>5. PICK b : b = StockBegins(B) /\ b \in StockStates
  BY StockBeginsIs DEF StockInv
<1>6. PICK f : FoldsTo(f, N, b, G) /\ f \in [0 .. N -> StockStates]
  BY <1>4, <1>5, FoldDefined
<1>7. \A m \in 0 .. N : f[m] = IF m = 0 THEN b ELSE G[<<m, f[m - 1]>>]
  BY <1>6 DEF FoldsTo
<1>8. ASSUME NEW m \in 1 .. N, StockInv(f[m - 1], B, m - 1)
      PROVE  f[m] = StockCallback(f[m - 1], m)
  <2>1. m \in Nodes /\ m \in 0 .. N /\ m # 0
    BY <1>1
  <2>2. PICK h : h = f[m - 1] /\ StockInv(h, B, m - 1)
    BY <1>8
  <2>3. PICK t : t = StockCallback(h, m) /\ t \in StockStates
    BY <2>1, <2>2, StockVisit DEF StockInv
  <2>4. h \in StockStates
    BY <2>2 DEF StockInv
  <2>5. G[<<m, h>>] = t
    BY <1>3, <2>3, <2>4
  <2> QED
    BY <1>7, <2>1, <2>2, <2>3, <2>5
<1>9. f[0] = StockBegins(B)
  <2>1. 0 \in 0 .. N
    OBVIOUS
  <2> QED
    BY <1>5, <1>7, <2>1
<1>10. \A m \in 0 .. N : StockInv(f[m], B, m)
  BY <1>1, <1>8, <1>9, StockAlong
<1> DEFINE g == [n \in 0 .. N |-> IF n = 0 THEN StockBegins(B) ELSE StockCallback(f[n - 1], n)]
<1>11. ASSUME NEW m \in 0 .. N PROVE f[m] = g[m]
  <2>1. CASE m = 0
    BY <1>9, <2>1
  <2>2. CASE m \in 1 .. N
    <3>1. m - 1 \in 0 .. N /\ m # 0
      BY <2>2
    <3>2. f[m] = StockCallback(f[m - 1], m)
      BY <1>8, <1>10, <2>2, <3>1
    <3> QED
      BY <3>1, <3>2
  <2> QED
    BY <2>1, <2>2
<1>12. f = g
  BY <1>6, <1>11
<1> QED
  BY <1>1, <1>12 DEF StockWalked

\* A round of the stock cop.
LEMMA StockRoundIs ==
    ASSUME tree \in Shapes, NEW B, B \subseteq Pairs
    PROVE  StockRound(B) \in StockStates /\ StockHas(StockRound(B), Due, B)
<1>1. PICK N \in Nat : N = Len(tree.parent) /\ N = Len(tree.kind)
  BY TreeFacts
<1> DEFINE f == CHOOSE f : StockWalked(f, B)
<1>2. StockWalked(f, B)
  BY StockWalkedDefined
<1>3. StockRounds(B) = f
  BY DEF StockRounds, StockWalked, StockBegins
<1> HIDE DEF f
<1>4. \A m \in 0 .. N : f[m] = IF m = 0 THEN StockBegins(B) ELSE StockCallback(f[m - 1], m)
  BY <1>1, <1>2 DEF StockWalked
<1>5. f[0] = StockBegins(B)
  BY <1>4
<1>6. \A m \in 1 .. N : f[m] = StockCallback(f[m - 1], m)
  BY <1>4
<1>7. \A m \in 0 .. N : StockInv(f[m], B, m)
  BY <1>1, <1>5, <1>6, StockAlong
<1>8. StockRound(B) = f[N]
  BY <1>1, <1>3 DEF StockRound
<1>9. StockInv(f[N], B, N)
  BY <1>7
<1> QED
  BY <1>1, <1>8, <1>9, AllLooked DEF StockInv

-----------------------------------------------------------------------------
(* With the walk, and from round to round.                                 *)

\* What the ranges of the wrapper, in bytes, and those of the stock cop have in
\* common when they correct: in a text of single bytes they are the same.
Agree(B, S) ==
    Autocorrects => ("multibyte" \notin tree.options => S = B) /\ (B = {} => S = {})

\* While the tree stays, so does what is due in it.
LEMMA SameWidths ==
    ASSUME tree' = tree
    PROVE  /\ \A s, B, m : RuleInv(s, B, m)' <=> RuleInv(s, B, m)
           /\ \A B, S : Agree(B, S)' <=> Agree(B, S)
<1>1. Nodes' = Nodes /\ \A n : Kind(n)' = Kind(n)
  BY DEF Kind, Nodes
<1>2. \A n : UnderNode(n)' = UnderNode(n)
  BY DEF UnderNode
<1>3. \A n : Value(n)' = Value(n)
  BY DEF Value
<1>4. \A n : HandlerNodes(n)' = HandlerNodes(n)
  BY <1>1, <1>2 DEF HandlerNodes, Over
<1>5. \A n : LookedAt(n)' = LookedAt(n)
  BY <1>1, <1>3, <1>4 DEF LookedAt
<1>6. \A n : ShiftedLists(n)' = ShiftedLists(n)
  BY <1>1 DEF ShiftedLists
<1>7. \A n : Off(n)' <=> Off(n)
  BY <1>1, <1>6 DEF Off
<1>8. Due' = Due
  BY <1>1, <1>5, <1>7 DEF Due
<1>9. \A n : Extent(n)' = Extent(n)
  BY DEF Extent
<1>10. \A n : Handlers(n)' = Handlers(n)
  BY <1>1 DEF Handlers
<1>11. \A n : ListOf(n)' = ListOf(n)
  BY <1>6 DEF ListOf
<1>12. \A n : RangeOf(n)' = RangeOf(n)
  <2>1. \A n, list : CorrectRange(n, list)' = CorrectRange(n, list)
    BY <1>1, <1>9, <1>10 DEF CorrectRange
  <2> QED
    BY <1>11, <2>1 DEF RangeOf
<1>13. \A x, unit : RangeIn(x, unit)' = RangeIn(x, unit)
  <2>1. \A m : WideUpTo(m)' = WideUpTo(m)
    BY <1>1 DEF WideUpTo
  <2>2. \A r : Bytes(r)' = Bytes(r)
    BY <2>1 DEF Bytes
  <2> QED
    BY <1>12, <2>2 DEF RangeIn
<1>14. \A m : LookedBy(m)' = LookedBy(m)
  BY <1>5, <1>8 DEF LookedBy
<1>15. \A m : ValuesBy(m)' = ValuesBy(m)
  BY <1>1, <1>3 DEF ValuesBy, IsValue
<1>16. \A s, D, B : RuleHas(s, D, B)' <=> RuleHas(s, D, B)
  <2>1. \A x, B, unit : Moves(x, B, unit)' = Moves(x, B, unit)
    BY <1>8, <1>13 DEF Moves
  <2>2. \A D, B, unit : RangesKept(D, B, unit)' = RangesKept(D, B, unit)
    BY <1>13, <2>1 DEF RangesKept
  <2> QED
    BY <1>11, <1>13, <2>1, <2>2 DEF RuleHas
<1>17. \A B, S : Agree(B, S)' <=> Agree(B, S)
  BY DEF Agree, Autocorrects
<1>18. \A s, B, m : RuleInv(s, B, m)' <=> RuleInv(s, B, m)
  BY <1>9, <1>14, <1>15, <1>16 DEF RuleInv
<1> QED
  BY <1>17, <1>18

\* Of the nodes that are entered, the rule has looked at the bodies that are due;
\* and when the cop corrects, it keeps the ranges the stock cop keeps.
WidthsInv ==
    \E s, calls :
        /\ s = widths /\ calls = todo
        /\ Agree(s.ranges, s.stock)
        /\ \E m \in 0 .. Len(tree.parent) : OrderInv(calls, m) /\ RuleInv(s, s.ranges, m)

\* How many nodes those are.
LEMMA WidthsInvIs ==
    ASSUME WidthsInv
    PROVE  /\ Agree(widths.ranges, widths.stock)
           /\ \E m \in 0 .. Len(tree.parent) : OrderInv(todo, m) /\ RuleInv(widths, widths.ranges, m)
BY DEF WidthsInv

\* A step within a tree.
LEMMA WidthsInvAfter ==
    ASSUME tree' = tree, NEW m \in 0 .. Len(tree.parent), OrderInv(todo', m),
           NEW s, s = widths', Agree(s.ranges, s.stock), RuleInv(s, s.ranges, m)
    PROVE  WidthsInv'
<1>1. PICK calls : calls = todo'
  OBVIOUS
<1>2. OrderInv(calls, m)' /\ RuleInv(s, s.ranges, m)' /\ Agree(s.ranges, s.stock)'
  BY <1>1, SameWidths, SameStock
<1> QED
  BY <1>1, <1>2 DEF WidthsInv

\* What a round of an instance starts with: the ranges of the earlier ones.
WidthsBegin ==
    \E R, S \in SUBSET Pairs : Agree(R, S) /\ widths = WidthsAfter(R, S, R)

\* A round starts.
LEMMA WidthsStart ==
    ASSUME WalkInit, WidthsBegin
    PROVE  WidthsInv
<1>1. tree \in Shapes /\ todo = <<<<"visit", 1>>>>
  BY DEF WalkInit
<1>2. OrderInv(todo, 0) /\ 0 \in 0 .. Len(tree.parent)
  BY <1>1, OrderStart, TreeFacts
<1>3. PICK s, R, S : /\ s = widths /\ R \subseteq Pairs /\ S \subseteq Pairs
                     /\ Agree(R, S)
                     /\ s = WidthsAfter(R, S, R)
  BY DEF WidthsBegin
<1>4. /\ s.ranges = R /\ s.stock = S /\ s.registered = R /\ s.ignored = {} /\ s.offenses = {}
      /\ s \in RuleStates
  BY <1>3 DEF WidthsAfter, RuleStates
<1>5. 1 .. 0 = {}
  OBVIOUS
<1>6. LookedBy(0) = {} /\ ValuesBy(0) = {}
  BY <1>5 DEF LookedBy, ValuesBy
<1>7. RangesKept({}, R, "bytes") = R
  BY DEF RangesKept
<1>8. RuleHas(s, {}, R)
  BY <1>4, <1>7 DEF RuleHas
<1>9. RuleInv(s, R, 0)
  BY <1>4, <1>6, <1>8 DEF RuleInv
<1> QED
  BY <1>2, <1>3, <1>4, <1>9 DEF WidthsInv

\* The rule has a hook for every node that has a body.
LEMMA RuleSkip ==
    ASSUME tree \in Shapes, NEW n \in Nodes, Class(tree, n) \in {"leaf", "direct", "rescue"},
           NEW s, NEW B, RuleInv(s, B, n - 1)
    PROVE  RuleInv(s, B, n)
<1>1. Class(tree, n) \notin Branches
  BY DEF Branches, ClassIndex
<1>2. Kind(n) \notin Loops \cup {"begin", "assign", "modifier"}
  BY <1>1, WidthKindsAssumption, TreeFacts DEF Kind, Nodes
<1>3. LookedAt(n) = {} /\ ~IsValue(n)
  BY <1>2 DEF LookedAt, IsValue
<1>4. LookedBy(n) = LookedBy(n - 1) /\ ValuesBy(n) = ValuesBy(n - 1)
  BY <1>3, NextLooked
<1> QED
  BY <1>4 DEF RuleInv

\* A node is visited.
LEMMA WidthsVisited ==
    ASSUME WalkInv, WidthsInv, OnBranch \/ OnLeaf \/ OnDirect \/ OnRescue
    PROVE  WidthsInv'
<1>1. PICK m \in 0 .. Len(tree.parent) : OrderInv(todo, m) /\ RuleInv(widths, widths.ranges, m)
  BY WidthsInvIs
<1>2. Next("visit") /\ WalkNext
  BY DEF OnBranch, OnLeaf, OnDirect, OnRescue, EnterBranch, EnterLeaf, VisitDirect, EnterRescue, WalkNext
<1>3. /\ Node = m + 1 /\ m + 1 \in Nodes /\ m + 1 \in 0 .. Len(tree.parent)
      /\ tree' = tree /\ OrderInv(todo', m + 1)
  BY <1>1, <1>2, VisitIsNext
<1>4. PICK n, s, B : n = Node /\ s = widths /\ B = s.ranges
  OBVIOUS
<1>5. /\ tree \in Shapes /\ n \in Nodes /\ n = m + 1 /\ n - 1 = m
      /\ Agree(B, s.stock)
      /\ RuleInv(s, B, n - 1)
  BY <1>1, <1>3, <1>4, WidthsInvIs DEF WalkInv
<1>6. CASE OnBranch
  <2>1. PICK t : t = IndentationDispatch(s, n) /\ t = widths'
    BY <1>4, <1>6 DEF OnBranch, WidthsEnter
  <2>2. B \subseteq Pairs
    BY <1>4, <1>5 DEF RuleInv, RuleStates
  <2>3. RuleInv(t, B, n) /\ t.ranges = B /\ t.stock = s.stock
    BY <1>4, <1>5, <2>1, <2>2, RuleVisit
  <2> QED
    BY <1>3, <1>5, <2>1, <2>3, WidthsInvAfter
<1>7. CASE OnLeaf \/ OnDirect \/ OnRescue
  <2>1. widths' = s /\ Class(tree, n) \in {"leaf", "direct", "rescue"}
    BY <1>4, <1>7 DEF OnLeaf, EnterLeaf, OnDirect, VisitDirect, OnRescue, EnterRescue, copVars
  <2>2. RuleInv(s, B, n)
    BY <1>5, <2>1, RuleSkip
  <2> QED
    BY <1>3, <1>4, <1>5, <2>1, <2>2, WidthsInvAfter
<1> QED
  BY <1>6, <1>7

\* A node is left, or the run is over: the rule has nothing to do.
LEMMA WidthsStay ==
    ASSUME WalkInv, WidthsInv,
           \/ OnLeave \/ OnRescueLeave \/ OnInvestigation
           \/ UNCHANGED <<walkVars, copVars, fileVars>>
    PROVE  WidthsInv'
<1>1. PICK m \in 0 .. Len(tree.parent) : OrderInv(todo, m) /\ RuleInv(widths, widths.ranges, m)
  BY WidthsInvIs
<1>2. PICK s : s = widths /\ Agree(s.ranges, s.stock) /\ RuleInv(s, s.ranges, m)
  BY <1>1, WidthsInvIs
<1>3. CASE OnLeave \/ OnRescueLeave
  <2>1. (LeaveBranch \/ LeaveRescue) /\ widths' = s
    BY <1>2, <1>3 DEF OnLeave, OnRescueLeave
  <2>2. tree' = tree /\ OrderInv(todo', m)
    BY <1>1, <2>1, ClauseLeft
  <2> QED
    BY <1>2, <2>1, <2>2, WidthsInvAfter
<1>4. CASE OnInvestigation \/ UNCHANGED <<walkVars, copVars, fileVars>>
  <2>1. UNCHANGED <<walkVars, widths>>
    BY <1>4 DEF OnInvestigation, Investigate, copVars
  <2>2. tree' = tree /\ OrderInv(todo', m) /\ widths' = s
    BY <1>1, <1>2, <2>1 DEF walkVars
  <2> QED
    BY <1>2, <2>2, WidthsInvAfter
<1> QED
  BY <1>3, <1>4

\* When the walk is over the rule has looked at all that is due.
LEMMA WidthsEnd ==
    ASSUME WalkInv, WidthsInv, todo = <<>>
    PROVE  /\ tree \in Shapes /\ widths \in RuleStates /\ RuleHas(widths, Due, widths.ranges)
           /\ Agree(widths.ranges, widths.stock)
<1>1. PICK m \in 0 .. Len(tree.parent) : OrderInv(todo, m) /\ RuleInv(widths, widths.ranges, m)
  BY WidthsInvIs
<1>2. tree \in Shapes /\ OrderInv(<<>>, m)
  BY <1>1 DEF WalkInv
<1>3. m = Len(tree.parent)
  BY <1>2, OrderEnd
<1>4. LookedBy(m) = Due
  BY <1>2, <1>3, AllLooked
<1> QED
  BY <1>1, <1>2, <1>4, WidthsInvIs DEF RuleInv

\* The next round starts with what this one moved, as the stock cop's does.
LEMMA WidthsAgain ==
    ASSUME WalkInv, WidthsInv, todo = <<>>, WalkAgain, NextWidths
    PROVE  (WalkInit /\ WidthsBegin)'
<1>1. PICK s, B, S : s = widths /\ B = s.ranges /\ S = s.stock
  OBVIOUS
<1>2. /\ tree \in Shapes /\ s \in RuleStates /\ RuleHas(s, Due, B) /\ Agree(B, S)
  BY <1>1, WidthsEnd
<1>3. B \subseteq Pairs /\ S \subseteq Pairs
  BY <1>1, <1>2 DEF RuleStates
<1>4. PICK R : R = B \cup {o.range : o \in {x \in s.offenses : x.autocorrect}}
  OBVIOUS
<1>5. R \subseteq Pairs
  <2>1. \A o \in s.offenses : o.range \in Pairs
    BY <1>2 DEF RuleStates, Corrections
  <2> QED
    BY <1>3, <1>4, <2>1
<1>6. R = RangesKept(Due, B, "bytes")
  <2>1. s.offenses = {[list |-> ListOf(x), range |-> RangeIn(x, "bytes"), autocorrect |-> Moves(x, B, "bytes")] : x \in Due}
    BY <1>2 DEF RuleHas
  <2>2. ASSUME NEW o \in s.offenses, o.autocorrect
        PROVE  o.range \in RangesKept(Due, B, "bytes")
    <3>1. PICK x \in Due : o = [list |-> ListOf(x), range |-> RangeIn(x, "bytes"), autocorrect |-> Moves(x, B, "bytes")]
      BY <2>1
    <3>2. Moves(x, B, "bytes") /\ o.range = RangeIn(x, "bytes")
      BY <2>2, <3>1
    <3> QED
      BY <3>2 DEF RangesKept
  <2>3. ASSUME NEW x \in Due, Moves(x, B, "bytes")
        PROVE  RangeIn(x, "bytes") \in R
    <3>1. PICK o : o = [list |-> ListOf(x), range |-> RangeIn(x, "bytes"), autocorrect |-> Moves(x, B, "bytes")]
      OBVIOUS
    <3>2. o \in s.offenses
      BY <2>1, <3>1
    <3>3. o.autocorrect /\ o.range = RangeIn(x, "bytes")
      BY <2>3, <3>1
    <3> QED
      BY <1>4, <3>2, <3>3
  <2> QED
    BY <1>4, <2>2, <2>3 DEF RangesKept
<1>7. PICK h : h = StockRound(S) /\ h \in StockStates /\ StockHas(h, Due, S)
  BY <1>2, <1>3, StockRoundIs
<1>8. h.ranges \subseteq Pairs /\ Agree(R, h.ranges)
  <2>1. h.ranges \subseteq Pairs
    BY <1>7 DEF StockStates
  <2>2. SUFFICES ASSUME Autocorrects
                 PROVE  ("multibyte" \notin tree.options => h.ranges = R) /\ (R = {} => h.ranges = {})
    BY <2>1 DEF Agree
  <2>3. h.ranges = RangesKept(Due, S, "characters")
    BY <1>7, <2>2 DEF StockHas
  <2>4. ASSUME "multibyte" \notin tree.options PROVE h.ranges = R
    <3>1. S = B
      BY <1>2, <2>2, <2>4 DEF Agree
    <3>2. \A x \in Due : /\ RangeIn(x, "bytes") = RangeIn(x, "characters")
                         /\ Moves(x, B, "bytes") <=> Moves(x, B, "characters")
      BY <1>2, <2>4, SingleByteMoves
    <3> QED
      BY <1>6, <2>3, <3>1, <3>2 DEF RangesKept
  <2>5. ASSUME R = {} PROVE h.ranges = {}
    <3>1. B = {} /\ \A x \in Due : ~Moves(x, {}, "bytes")
      BY <1>6, <2>5 DEF RangesKept
    <3>2. S = {}
      BY <1>2, <2>2, <3>1 DEF Agree
    <3>3. \A x \in Due : ~Moves(x, {}, "characters")
      BY <1>2, <3>1, FirstMoves
    <3> QED
      BY <2>3, <3>2, <3>3 DEF RangesKept
  <2> QED
    BY <2>4, <2>5
<1>9. Seed(R) = R
  BY DEF Seed, BundleEligible
<1>10. widths' = WidthsAfter(R, h.ranges, R)
  BY <1>1, <1>4, <1>7, <1>9 DEF NextWidths
<1>11. Agree(R, h.ranges)'
  <2>1. tree'.options = tree.options \ {"another"}
    BY DEF WalkAgain
  <2>2. ("multibyte" \in tree'.options <=> "multibyte" \in tree.options) /\ (Autocorrects' <=> Autocorrects)
    BY <2>1 DEF Autocorrects
  <2> QED
    BY <1>8, <2>2 DEF Agree
<1>12. WidthsBegin'
  <2>1. Agree(R, h.ranges)' /\ widths' = WidthsAfter(R, h.ranges, R)
    BY <1>8, <1>10, <1>11
  <2>2. h.ranges \in SUBSET Pairs /\ R \in SUBSET Pairs
    BY <1>5, <1>8
  <2> QED
    BY <2>1, <2>2 DEF WidthsBegin, WidthsAfter, Pairs
<1> QED
  BY <1>12, AgainIsWalkStart

\* A step of the rules keeps what the rule runs on, or starts another round.
LEMMA WidthsNext ==
    ASSUME WalkInv, WidthsInv, [CopsNext]_<<walkVars, copVars, fileVars>>
    PROVE  WidthsInv' \/ (WalkInit /\ WidthsBegin)'
<1>1. CASE OnHook
  BY <1>1, WidthsVisited, WidthsStay DEF OnHook
<1>2. CASE OnInvestigation \/ UNCHANGED <<walkVars, copVars, fileVars>>
  BY <1>2, WidthsStay
<1>3. CASE NextFile \/ NextRound
  <2>1. todo = <<>> /\ WalkAgain /\ (NextWidths \/ widths' = WidthsFresh)
    BY <1>3 DEF NextFile, NextRound
  <2>2. CASE widths' = WidthsFresh
    <3>1. {} \in SUBSET Pairs
      OBVIOUS
    <3>2. Agree({}, {})'
      BY DEF Agree
    <3>3. WidthsBegin'
      BY <2>2, <3>1, <3>2 DEF WidthsBegin, WidthsFresh, WidthsAfter, Pairs
    <3> QED
      BY <2>1, <3>3, AgainIsWalkStart
  <2> QED
    BY <2>1, <2>2, WidthsAgain
<1> QED
  BY <1>1, <1>2, <1>3 DEF CopsNext

\* In every round, at every node, indentation_width.rs has looked at the bodies
\* the nodes entered so far are due for, and decided on each as the stock cop.
THEOREM WidthsRunLikeStock == CopsSpec => []WidthsInv
<1>1. WalkInit /\ WidthsBegin => WidthsInv
  BY WidthsStart
<1>2. CopsInit => WalkInit /\ WidthsBegin
  BY DEF CopsInit, WidthsInit, WidthsFresh, WidthsBegin, Agree
<1>3. (WalkInit /\ WidthsBegin)' => WidthsInv'
  BY <1>1, PTL
<1>4. WalkInv /\ WidthsInv /\ [CopsNext]_<<walkVars, copVars, fileVars>> => WidthsInv'
  BY <1>3, WidthsNext
<1> QED
  BY <1>1, <1>2, <1>4, CopsWalkInv, PTL DEF CopsSpec

\* Layout/IndentationWidth reports the bodies the stock cop reports and moves
\* those it moves, on every tree: in every round of an instance where the text
\* has single bytes only, and in one that nothing was moved before elsewhere.
THEOREM WidthsFollowStock == CopsSpec => []CorrectsAsStock
<1>1. ASSUME WalkInv, WidthsInv, todo = <<>>, InOneUnit
      PROVE  {<<o.list, "Autocorrect" \in tree.options => o.autocorrect>> : o \in widths.offenses}
                 = StockRound(widths.stock).out
  <2>1. PICK s, B, S : s = widths /\ B = s.ranges /\ S = s.stock
    OBVIOUS
  <2>2. tree \in Shapes /\ s \in RuleStates /\ RuleHas(s, Due, B) /\ Agree(B, S)
    BY <1>1, <2>1, WidthsEnd
  <2>3. S \subseteq Pairs
    BY <2>1, <2>2 DEF RuleStates
  <2>4. StockRound(S).out = {<<ListOf(x), Autocorrects => Moves(x, S, "characters")>> : x \in Due}
    BY <2>2, <2>3, StockRoundIs DEF StockHas
  <2>5. s.offenses =
           {[list |-> ListOf(x), range |-> RangeIn(x, "bytes"), autocorrect |-> Moves(x, B, "bytes")] : x \in Due}
    BY <2>2 DEF RuleHas
  <2>6. {<<o.list, Autocorrects => o.autocorrect>> : o \in s.offenses}
            = {<<ListOf(x), Autocorrects => Moves(x, B, "bytes")>> : x \in Due}
    <3> DEFINE Rule(x) == [list |-> ListOf(x), range |-> RangeIn(x, "bytes"), autocorrect |-> Moves(x, B, "bytes")]
               Given(o) == <<o.list, Autocorrects => o.autocorrect>>
               Stock(x) == <<ListOf(x), Autocorrects => Moves(x, B, "bytes")>>
    <3>1. ASSUME NEW x \in Due PROVE Given(Rule(x)) = Stock(x)
      <4>1. Rule(x).list = ListOf(x) /\ Rule(x).autocorrect = Moves(x, B, "bytes")
        OBVIOUS
      <4> QED
        BY <4>1
    <3>2. s.offenses = {Rule(x) : x \in Due}
      BY <2>5
    <3> HIDE DEF Rule, Given, Stock
    <3>3. {Given(o) : o \in s.offenses} = {Stock(x) : x \in Due}
      BY <3>1, <3>2
    <3> QED
      BY <3>3 DEF Given, Stock
  <2>7. ASSUME NEW x \in Due, Autocorrects PROVE Moves(x, B, "bytes") <=> Moves(x, S, "characters")
    <3>1. CASE "multibyte" \notin tree.options
      <4>1. S = B
        BY <2>2, <2>7, <3>1 DEF Agree
      <4> QED
        BY <2>2, <3>1, <4>1, SingleByteMoves
    <3>2. CASE "multibyte" \in tree.options
      <4>1. B = {}
        BY <1>1, <2>1, <3>2 DEF InOneUnit
      <4>2. S = {}
        BY <2>2, <2>7, <4>1 DEF Agree
      <4> QED
        BY <2>2, <4>1, <4>2, FirstMoves
    <3> QED
      BY <3>1, <3>2
  <2>8. \A x \in Due : (Autocorrects => Moves(x, B, "bytes")) = (Autocorrects => Moves(x, S, "characters"))
    BY <2>7
  <2>9. {<<ListOf(x), Autocorrects => Moves(x, B, "bytes")>> : x \in Due}
            = {<<ListOf(x), Autocorrects => Moves(x, S, "characters")>> : x \in Due}
    BY <2>8
  <2> QED
    BY <2>1, <2>4, <2>6, <2>9 DEF Autocorrects
<1>2. WalkInv /\ WidthsInv => CorrectsAsStock
  BY <1>1 DEF CorrectsAsStock
<1> QED
  BY <1>2, CopsWalkInv, WidthsRunLikeStock, PTL

=============================================================================
