------------------------ MODULE RedundantSelfProofs ------------------------
(***************************************************************************)
(* SelfAsStock, of RedundantSelf: the stack of shared arrays says of every *)
(* `self.a` what the arrays of the stock cop say.                          *)
(*                                                                         *)
(* The stock cop hands arrays down: which array a node ends up with        *)
(* (Array) is that of its first owner, the def or block over it that has   *)
(* none over itself.  So an array holds the name when a node that gives it *)
(* came before (GivenArrays, StockRunAs).  The rule's stack has one array  *)
(* at most, that of the owner with none above (OwnersFit), and the names   *)
(* outside of any (NamedAt).  The two trees differ: the parser gem's block *)
(* is over its call, prism's below it, so the owners over a node are not   *)
(* the owners above it (PrismOwners); where no name is given in between    *)
(* the two ask the same (AllowedAlike).                                    *)
(***************************************************************************)
EXTENDS StatefulCopsProofs

-----------------------------------------------------------------------------
(* The tree: a node and those above it.                                    *)

\* A node and those above it: those of its parent, too; of two the earlier is
\* above the later.
LEMMA AtOrAboveIs ==
    ASSUME tree \in Shapes, NEW n \in Nodes
    PROVE  /\ AtOrAbove(n) = {n} \cup Over(n) /\ n \in AtOrAbove(n) /\ n \notin Over(n)
           /\ n # 1 => Over(n) = AtOrAbove(tree.parent[n])
           /\ \A x \in AtOrAbove(n) :
                 /\ x \in Nodes /\ x \in Nat /\ x <= n /\ (x # n => x \in Over(n))
                 /\ AtOrAbove(x) \subseteq AtOrAbove(n)
                 /\ \A k \in AtOrAbove(n) : k <= x => k \in AtOrAbove(x)
<1>1. AtOrAbove(n) = {n} \cup Over(n)
  BY DEF AtOrAbove, Over
<1>2. n \in Nat /\ \A x \in Over(n) : x \in Nodes /\ x < n /\ x \in Nat
  BY ParentIs, TreeFacts
<1>3. n # 1 => Over(n) = AtOrAbove(tree.parent[n])
  <2>1. n # 1 => Over(n) = Over(tree.parent[n]) \cup {tree.parent[n]}
    BY ParentIs
  <2> QED
    BY <2>1 DEF AtOrAbove, Over
<1>4. ASSUME NEW x \in AtOrAbove(n), x # n
      PROVE  /\ AtOrAbove(x) \subseteq AtOrAbove(n)
             /\ \A k \in AtOrAbove(n) : k <= x => k \in AtOrAbove(x)
  <2>1. x \in Over(n) /\ x \in Nodes /\ x < n
    BY <1>1, <1>2, <1>4
  <2>2. AtOrAbove(x) = {x} \cup Over(x)
    BY DEF AtOrAbove, Over
  <2>3. Over(x) \subseteq Over(n)
    BY <2>1, OverInOver
  <2>4. ASSUME NEW k \in AtOrAbove(n), k <= x PROVE k \in AtOrAbove(x)
    <3>1. k \in Over(n)
      BY <1>1, <1>2, <2>1, <2>4
    <3>2. k = x \/ k < x
      BY <1>2, <2>1, <2>4, <3>1
    <3> QED
      BY <2>1, <2>2, <3>1, <3>2, OverOneAnother
  <2> QED
    BY <1>1, <2>1, <2>2, <2>3, <2>4
<1>5. n \notin Over(n)
  BY <1>2
<1> QED
  BY <1>1, <1>2, <1>3, <1>4, <1>5

\* What is above a node is above all that a walk enters between the two.
LEMMA AboveBetween ==
    ASSUME tree \in Shapes, NEW n \in Nodes, NEW j \in AtOrAbove(n), NEW w \in Nodes, j <= w, w <= n
    PROVE  j \in AtOrAbove(w)
<1>1. PICK N \in Nat \ {0} :
          /\ N = Len(tree.parent) /\ Nodes = 1 .. N
          /\ \A k \in 2 .. N : /\ tree.parent[k] \in 1 .. k - 1
                               /\ \A i \in tree.parent[k] + 1 .. k : tree.parent[i] >= tree.parent[k]
  BY TreeFacts
<1>2. ASSUME NEW c \in Nodes, c # 1, NEW p, p = tree.parent[c]
      PROVE  \A i \in Nodes : p <= i /\ i <= c => p \in AtOrAbove(i)
  <2> DEFINE Good == {i \in Nat : i \in Nodes /\ p <= i /\ i <= c => p \in AtOrAbove(i)}
  <2>1. ASSUME NEW i \in Nat, \A k \in Nat : k < i => k \in Good PROVE i \in Good
    <3>1. SUFFICES ASSUME i \in Nodes, p <= i, i <= c PROVE p \in AtOrAbove(i)
      OBVIOUS
    <3>2. c \in 2 .. N /\ p \in 1 .. c - 1
      BY <1>1, <1>2
    <3>3. CASE i = p
      BY <3>1, <3>3, AtOrAboveIs
    <3>4. CASE i # p
      <4>1. i \in 2 .. N /\ i \in p + 1 .. c
        BY <1>1, <3>1, <3>2, <3>4
      <4>2. tree.parent[i] \in 1 .. i - 1 /\ tree.parent[i] >= p
        BY <1>1, <1>2, <3>2, <4>1
      <4>3. tree.parent[i] \in Good /\ tree.parent[i] \in Nodes /\ tree.parent[i] <= c
        BY <1>1, <2>1, <3>1, <3>2, <4>1, <4>2
      <4>4. p \in AtOrAbove(tree.parent[i])
        BY <4>2, <4>3
      <4> QED
        BY <3>1, <4>1, <4>4, AtOrAboveIs
    <3> QED
      BY <3>3, <3>4
  <2> HIDE DEF Good
  <2>2. \A i \in Nat : i \in Good
    BY <2>1, NatSetStrong
  <2> QED
    BY <1>1, <2>2 DEF Good
<1> DEFINE S == {c \in Nodes : \A a \in AtOrAbove(c) : \A i \in Nodes : a <= i /\ i <= c => a \in AtOrAbove(i)}
<1>3. 1 \in S
  <2>1. 1 \in Nodes
    BY <1>1
  <2>2. \A a \in AtOrAbove(1) : a <= 1 /\ a \in Nodes
    BY <2>1, AtOrAboveIs
  <2>3. \A a \in AtOrAbove(1) : \A i \in Nodes : a <= i /\ i <= 1 => i = a
    BY <1>1, <2>2
  <2> QED
    BY <2>1, <2>2, <2>3, AtOrAboveIs
<1>4. ASSUME NEW c \in Nodes, c # 1, tree.parent[c] \in S PROVE c \in S
  <2>1. PICK p : p = tree.parent[c] /\ p \in Nodes /\ p < c
    BY <1>4, ParentIs
  <2>2. ASSUME NEW a \in AtOrAbove(c), NEW i \in Nodes, a <= i, i <= c PROVE a \in AtOrAbove(i)
    <3>1. CASE a = c
      <4>1. i = c
        BY <1>1, <2>2, <3>1
      <4> QED
        BY <2>2, <4>1
    <3>2. CASE a # c
      <4>1. a \in AtOrAbove(p) /\ a \in Nodes
        BY <1>4, <2>1, <2>2, <3>2, AtOrAboveIs
      <4>2. CASE i <= p
        BY <1>4, <2>1, <2>2, <4>1, <4>2
      <4>3. CASE ~(i <= p)
        <5>0. p <= i
          BY <1>1, <2>1, <2>2, <4>3
        <5>1. p \in AtOrAbove(i)
          BY <1>2, <1>4, <2>1, <2>2, <5>0
        <5> QED
          BY <4>1, <5>1, AtOrAboveIs
      <4> QED
        BY <4>2, <4>3
    <3> QED
      BY <3>1, <3>2
  <2> QED
    BY <2>2
<1> HIDE DEF S
<1>5. n \in S
  BY <1>3, <1>4, TreeInduction
<1> QED
  BY <1>5 DEF S

\* The first child of a node is the next one.
LEMMA FirstIsNext ==
    ASSUME tree \in Shapes, NEW n \in Nodes, NEW k \in Nodes, tree.parent[k] = n
    PROVE  First(n) = n + 1 /\ n + 1 \in Nodes /\ tree.parent[n + 1] = n
<1>1. PICK N \in Nat \ {0} :
          /\ N = Len(tree.parent) /\ Nodes = 1 .. N /\ tree.parent[1] = 0
          /\ \A i \in 2 .. N : /\ tree.parent[i] \in 1 .. i - 1
                               /\ \A j \in tree.parent[i] + 1 .. i : tree.parent[j] >= tree.parent[i]
  BY TreeFacts
<1>2. k \in 2 .. N /\ n \in 1 .. k - 1 /\ n + 1 \in 2 .. N /\ n + 1 \in n + 1 .. k
  BY <1>1
<1>3. tree.parent[n + 1] = n
  <2>1. tree.parent[n + 1] >= n
    BY <1>1, <1>2
  <2>2. tree.parent[n + 1] \in 1 .. n + 1 - 1
    BY <1>1, <1>2
  <2> QED
    BY <1>2, <2>1, <2>2
<1>4. PICK s : s = Children(tree.parent, n)
  OBVIOUS
<1>5. /\ s \in Seq(Nodes) /\ Elements(s) = {j \in Nodes : tree.parent[j] = n} /\ Increasing(s)
  BY <1>4, KidsAre
<1>6. PICK i \in 1 .. Len(s) : s[i] = n + 1
  <2>1. n + 1 \in Elements(s)
    BY <1>1, <1>2, <1>3, <1>5
  <2> QED
    BY <2>1 DEF Elements
<1>7. 1 \in 1 .. Len(s) /\ Len(s) \in Nat
  BY <1>5, <1>6
<1>8. s[1] \in Nodes /\ tree.parent[s[1]] = n
  BY <1>5, <1>7 DEF Elements
<1>9. s[1] > n
  BY <1>1, <1>2, <1>8
<1>10. i = 1 \/ s[1] < s[i]
  BY <1>5, <1>6, <1>7 DEF Increasing
<1>11. s[1] = n + 1
  BY <1>1, <1>2, <1>6, <1>8, <1>9, <1>10
<1> QED
  BY <1>1, <1>2, <1>3, <1>4, <1>11 DEF First

-----------------------------------------------------------------------------
(* The parser gem's tree: the defs and blocks above a node.                *)

OwnerKinds == DefKinds \cup BlockKinds
Owners == {o \in Nodes : Kind(o) \in OwnerKinds}

\* The prism node that stands where the parser node begins.
Start(n) == IF Kind(n) \in BlockKinds THEN CallOf(n) ELSE n

OwnersOver(n) == {o \in Owners : o # n /\ Start(o) \in AtOrAbove(Start(n))}

IsCondition(n) == Kind(tree.parent[n]) = "if" /\ n = tree.parent[n] + 1

\* The kinds of the rule by what is around them.
LEMMA SelfKindsAre ==
    ASSUME tree \in Shapes, NEW n \in Nodes
    PROVE  /\ Kind(n) \in Writes => First(n) \in Nodes /\ tree.parent[First(n)] = n
           /\ Kind(n) \in Givers \cup BlockKinds => Class(tree, n) \in Branches \ {"call"}
           /\ Kind(n) \in CallKinds => Class(tree, n) = "call"
           /\ Kind(n) = "rescueA" => Class(tree, n) = "rescue"
           /\ Kind(n) \in BlockKinds =>
                 /\ n # 1 /\ CallOf(n) \in Nodes /\ CallOf(n) < n /\ Class(tree, CallOf(n)) = "call"
                 /\ \A k \in Nodes : tree.parent[k] = CallOf(n) => k <= n
           /\ n # 1 /\ (Kind(tree.parent[n]) \in Writes \cup CallKinds \/ IsCondition(n))
              => Class(tree, n) # "direct"
<1>1. PICK N \in Nat \ {0} : N = Len(tree.parent) /\ Nodes = 1 .. N /\ N = Len(tree.kind)
  BY TreeFacts
<1>2. n \in DOMAIN tree.kind /\ DOMAIN tree.kind = Nodes
  BY <1>1, TreeFacts
<1>3. /\ Kind(n) \in Writes => \E k \in Nodes : tree.parent[k] = n
      /\ Kind(n) \in Givers \cup BlockKinds => Class(tree, n) \in Branches \ {"call"}
      /\ Kind(n) \in CallKinds => Class(tree, n) = "call"
      /\ Kind(n) = "rescueA" => Class(tree, n) = "rescue"
      /\ Kind(n) \in BlockKinds =>
            /\ n # 1 /\ Class(tree, CallOf(n)) = "call"
            /\ \A k \in n + 1 .. Len(tree.kind) : tree.parent[k] # CallOf(n)
      /\ n # 1 /\ (Kind(tree.parent[n]) \in Writes \cup CallKinds \/ IsCondition(n))
         => Class(tree, n) # "direct"
  BY <1>2, SelfKindsAssumption DEF Kind, CallOf, IsCondition
<1>4. Kind(n) \in Writes => First(n) \in Nodes /\ tree.parent[First(n)] = n
  BY <1>3, FirstIs
<1>5. n # 1 => tree.parent[n] \in Nodes /\ tree.parent[n] < n
  BY ParentIs
<1>6. ASSUME Kind(n) \in BlockKinds, NEW k \in Nodes, tree.parent[k] = CallOf(n) PROVE k <= n
  BY <1>1, <1>3, <1>6
<1> QED
  BY <1>3, <1>4, <1>5, <1>6 DEF CallOf

\* A block is the one block of its call; what is no call has none.
LEMMA CallBlocksAre ==
    ASSUME tree \in Shapes, NEW n \in Nodes
    PROVE  /\ Kind(n) \in BlockKinds => BlockOf(CallOf(n)) = {n} /\ Placed(CallOf(n)) = n
           /\ BlockOf(n) # {} =>
                 /\ Placed(n) \in Nodes /\ Kind(Placed(n)) \in BlockKinds /\ CallOf(Placed(n)) = n
                 /\ BlockOf(n) = {Placed(n)} /\ Class(tree, n) = "call"
           /\ BlockOf(n) = {} => Placed(n) = n
           /\ Class(tree, n) # "call" => BlockOf(n) = {} /\ Placed(n) = n
           /\ Class(tree, n) \in Branches => Subsequents(tree, n) = {}
<1>1. DOMAIN tree.kind = Nodes /\ \A k \in Nodes : k \in Nat
  BY TreeFacts
<1>2. \A c : BlockOf(c) = {k \in Nodes : tree.parent[k] = c /\ Kind(k) \in BlockKinds}
  BY <1>1 DEF BlockOf
<1>3. ASSUME NEW b \in Nodes, Kind(b) \in BlockKinds PROVE BlockOf(CallOf(b)) = {b}
  <2>1. \A k \in Nodes : tree.parent[k] = CallOf(b) => k <= b
    BY <1>3, SelfKindsAre
  <2>2. ASSUME NEW k \in BlockOf(CallOf(b)) PROVE k = b
    <3>1. k \in Nodes /\ Kind(k) \in BlockKinds /\ CallOf(k) = CallOf(b)
      BY <1>2, <2>2 DEF CallOf
    <3>2. b <= k
      BY <3>1, SelfKindsAre DEF CallOf
    <3> QED
      BY <1>1, <2>1, <3>1, <3>2 DEF CallOf
  <2>3. b \in BlockOf(CallOf(b))
    BY <1>2, <1>3 DEF CallOf
  <2> QED
    BY <2>2, <2>3
<1>4. Kind(n) \in BlockKinds => Placed(CallOf(n)) = n
  BY <1>3 DEF Placed
<1>5. ASSUME BlockOf(n) # {}
      PROVE  /\ Placed(n) \in Nodes /\ Kind(Placed(n)) \in BlockKinds /\ CallOf(Placed(n)) = n
             /\ BlockOf(n) = {Placed(n)} /\ Class(tree, n) = "call"
  <2>1. Placed(n) \in BlockOf(n)
    BY <1>5 DEF Placed
  <2>2. /\ Placed(n) \in Nodes /\ Kind(Placed(n)) \in BlockKinds /\ CallOf(Placed(n)) = n
    BY <1>2, <2>1 DEF CallOf
  <2> QED
    BY <1>3, <2>2, SelfKindsAre
<1>6. BlockOf(n) = {} => Placed(n) = n
  BY DEF Placed
<1>7. Class(tree, n) \in Branches => Subsequents(tree, n) = {}
  BY DEF Subsequents, Branches, ClassIndex
<1> QED
  BY <1>3, <1>4, <1>5, <1>6, <1>7

\* Where a parser node begins.
LEMMA StartIs ==
    ASSUME tree \in Shapes, NEW n \in Nodes
    PROVE  /\ Start(n) \in Nodes /\ Start(n) \in Nat /\ Start(n) <= n
           /\ Start(n) \in AtOrAbove(n)
           /\ Kind(n) \notin BlockKinds => Start(n) = n
           /\ Kind(n) \in BlockKinds =>
                 Start(n) = CallOf(n) /\ n # 1 /\ Over(n) = AtOrAbove(Start(n)) /\ Start(n) # n
                 /\ Class(tree, Start(n)) = "call"
           /\ \A o \in Owners : o \in Nodes /\ (Start(o) = Start(n) /\ n \in Owners => o = n)
<1>1. \A c \in Nodes : c \in Nat
  BY TreeFacts
<1>2. ASSUME NEW c \in Nodes
      PROVE  /\ Start(c) \in Nodes /\ Start(c) <= c
             /\ Start(c) \in AtOrAbove(c)
             /\ Kind(c) \notin BlockKinds => Start(c) = c
             /\ Kind(c) \in BlockKinds =>
                   Start(c) = CallOf(c) /\ c # 1 /\ Over(c) = AtOrAbove(Start(c)) /\ Start(c) # c
                   /\ Class(tree, Start(c)) = "call" /\ BlockOf(Start(c)) = {c}
  <2>1. CASE Kind(c) \in BlockKinds
    <3>1. /\ c # 1 /\ CallOf(c) \in Nodes /\ CallOf(c) < c /\ Class(tree, CallOf(c)) = "call"
      BY <2>1, SelfKindsAre
    <3>2. Over(c) = AtOrAbove(CallOf(c)) /\ AtOrAbove(c) = {c} \cup Over(c)
      BY <3>1, AtOrAboveIs DEF CallOf
    <3>3. CallOf(c) \in AtOrAbove(CallOf(c))
      BY <3>1, AtOrAboveIs
    <3> QED
      BY <1>1, <2>1, <3>1, <3>2, <3>3, CallBlocksAre DEF Start
  <2>2. CASE Kind(c) \notin BlockKinds
    BY <1>1, <2>2, AtOrAboveIs DEF Start
  <2> QED
    BY <2>1, <2>2
<1>3. ASSUME NEW o \in Owners, n \in Owners, Start(o) = Start(n) PROVE o = n
  <2>1. o \in Nodes /\ Kind(o) \in OwnerKinds /\ Kind(n) \in OwnerKinds
    BY <1>3 DEF Owners
  <2>2. \A c \in Nodes : Kind(c) \in DefKinds => Class(tree, c) # "call"
    BY SelfKindsAre DEF Givers
  <2> QED
    BY <1>2, <1>3, <2>1, <2>2 DEF OwnerKinds
<1> QED
  BY <1>1, <1>2, <1>3 DEF Owners

\* A def or a block is above what begins at or under where it begins itself.
LEMMA OwnersOverAre ==
    ASSUME tree \in Shapes, NEW n \in Nodes
    PROVE  OwnersOver(n) = ParserOver(n) \cap Owners
<1>1. DOMAIN tree.kind = Nodes
  BY TreeFacts
<1>2. ASSUME NEW o \in Owners PROVE Encloses(o, n) <=> o # n /\ Start(o) \in AtOrAbove(Start(n))
  <2>1. o \in Nodes /\ Kind(o) \in OwnerKinds
    BY <1>2 DEF Owners
  <2>2. /\ AtOrAbove(n) = {n} \cup Over(n) /\ n \notin Over(n)
        /\ Kind(n) \notin BlockKinds => Start(n) = n
        /\ Kind(n) \in BlockKinds => Over(n) = AtOrAbove(Start(n))
    BY AtOrAboveIs, StartIs
  <2>3. CASE Kind(o) \in BlockKinds
    <3>1. Start(o) = CallOf(o) /\ Class(tree, Start(o)) = "call"
      BY <2>1, <2>3, StartIs
    <3>2. Kind(n) \in BlockKinds => Start(o) # n
      BY <3>1, SelfKindsAre
    <3>3. Encloses(o, n) <=> o # n /\ Start(o) \in AtOrAbove(n)
      BY <2>3, <3>1 DEF Encloses
    <3> QED
      BY <2>2, <3>2, <3>3
  <2>4. CASE Kind(o) \notin BlockKinds
    <3>1. Start(o) = o /\ Class(tree, o) \in Branches \ {"call"}
      BY <2>1, <2>4, StartIs, SelfKindsAre DEF OwnerKinds, Givers
    <3>2. BlockOf(o) = {} /\ Subsequents(tree, o) = {}
      BY <2>1, <3>1, CallBlocksAre
    <3>3. Encloses(o, n) <=> o \in AtOrAbove(n) /\ o # n
      BY <2>4, <3>2 DEF Encloses
    <3> QED
      BY <2>2, <3>1, <3>3
  <2> QED
    BY <2>3, <2>4
<1> QED
  BY <1>1, <1>2 DEF OwnersOver, ParserOver, Owners

\* Of the owners above a node each is above the later ones; the first has none
\* above it.
LEMMA OwnersChain ==
    ASSUME tree \in Shapes, NEW n \in Nodes
    PROVE  /\ \A o \in OwnersOver(n) : /\ o \in Owners /\ o \in Nodes
                                       /\ OwnersOver(o) \subseteq OwnersOver(n)
           /\ \A o, p \in OwnersOver(n) : Start(o) <= Start(p) => o = p \/ o \in OwnersOver(p)
           /\ OwnersOver(n) # {} =>
                 \E o \in OwnersOver(n) : /\ OwnersOver(o) = {}
                                          /\ \A p \in OwnersOver(n) : Start(o) <= Start(p)
<1>1. /\ Start(n) \in Nodes
      /\ \A x \in AtOrAbove(Start(n)) :
            /\ x \in Nodes /\ x <= Start(n) /\ AtOrAbove(x) \subseteq AtOrAbove(Start(n))
            /\ \A k \in AtOrAbove(Start(n)) : k <= x => k \in AtOrAbove(x)
  BY StartIs, AtOrAboveIs
<1>2. \A o \in OwnersOver(n) : o \in Owners /\ o # n /\ Start(o) \in AtOrAbove(Start(n))
  BY DEF OwnersOver
<1>3. \A o \in Owners : o \in Nodes /\ Start(o) \in Nodes /\ Start(o) \in Nat
  BY StartIs DEF Owners
<1>4. \A o, p \in Owners : Start(o) = Start(p) => o = p
  BY <1>3, StartIs
<1>5. ASSUME NEW o \in OwnersOver(n), NEW p \in OwnersOver(o) PROVE p \in OwnersOver(n)
  <2>1. p \in Owners /\ p # o /\ Start(p) \in AtOrAbove(Start(o))
    BY <1>5 DEF OwnersOver
  <2>2. Start(p) \in AtOrAbove(Start(n))
    BY <1>1, <1>2, <1>5, <2>1
  <2>3. p # n
    <3>1. SUFFICES ASSUME p = n PROVE FALSE
      OBVIOUS
    <3>2. Start(o) <= Start(n) /\ Start(n) \in AtOrAbove(Start(o))
      BY <1>1, <1>2, <1>5, <2>1, <3>1
    <3>3. Start(n) <= Start(o)
      BY <1>2, <1>3, <1>5, <3>2, AtOrAboveIs
    <3>4. Start(o) = Start(n)
      BY <1>2, <1>3, <1>5, <2>1, <3>1, <3>2, <3>3
    <3> QED
      BY <1>2, <1>4, <1>5, <2>1, <3>1, <3>4
  <2> QED
    BY <2>1, <2>2, <2>3 DEF OwnersOver
<1>6. ASSUME NEW o \in OwnersOver(n), NEW p \in OwnersOver(n), Start(o) <= Start(p)
      PROVE  o = p \/ o \in OwnersOver(p)
  <2>1. Start(o) \in AtOrAbove(Start(p))
    BY <1>1, <1>2, <1>6
  <2> QED
    BY <1>2, <1>6, <2>1 DEF OwnersOver
<1>7. ASSUME OwnersOver(n) # {}
      PROVE  \E o \in OwnersOver(n) : /\ OwnersOver(o) = {}
                                      /\ \A p \in OwnersOver(n) : Start(o) <= Start(p)
  <2>1. PICK T : T = {Start(p) : p \in OwnersOver(n)}
    OBVIOUS
  <2>2. T \subseteq Nat /\ T # {}
    BY <1>2, <1>3, <1>7, <2>1
  <2>3. PICK x \in T : \A y \in T : x <= y
    BY <2>2, LeastNumber
  <2>4. PICK o \in OwnersOver(n) : x = Start(o)
    BY <2>1, <2>3
  <2>5. \A p \in OwnersOver(n) : Start(o) <= Start(p)
    BY <2>1, <2>3, <2>4
  <2>6. ASSUME NEW p \in OwnersOver(o) PROVE FALSE
    <3>1. p \in Owners /\ p # o /\ Start(p) \in AtOrAbove(Start(o)) /\ p \in OwnersOver(n)
      BY <1>5, <2>6 DEF OwnersOver
    <3>2. Start(p) <= Start(o)
      BY <1>2, <1>3, <3>1, AtOrAboveIs
    <3>3. Start(o) <= Start(p)
      BY <2>5, <3>1
    <3>4. Start(o) = Start(p)
      BY <1>2, <1>3, <3>1, <3>2, <3>3
    <3> QED
      BY <1>2, <1>4, <3>1, <3>4
  <2> QED
    BY <2>5, <2>6
<1> QED
  BY <1>2, <1>3, <1>5, <1>6, <1>7

\* The first of the owners above a node.
FirstOwner(n) == CHOOSE o \in OwnersOver(n) : OwnersOver(o) = {}

ArrayOf(o) == IF Kind(o) \in DefKinds THEN <<"def", o>> ELSE <<"own", o>>

\* The array of the stock cop that a node has when the walk comes to it.
Array(n) == IF OwnersOver(n) = {} THEN <<"own", n>> ELSE ArrayOf(FirstOwner(n))

LEMMA FirstOwnerIs ==
    ASSUME tree \in Shapes, NEW n \in Nodes, OwnersOver(n) # {}
    PROVE  /\ FirstOwner(n) \in OwnersOver(n) /\ FirstOwner(n) \in Owners /\ FirstOwner(n) \in Nodes
           /\ OwnersOver(FirstOwner(n)) = {} /\ Array(n) = ArrayOf(FirstOwner(n))
           /\ \A o \in OwnersOver(n) : /\ Start(FirstOwner(n)) <= Start(o)
                                       /\ OwnersOver(o) = {} => o = FirstOwner(n)
                                       /\ o # FirstOwner(n) => FirstOwner(n) \in OwnersOver(o)
                                       /\ OwnersOver(o) # {} => FirstOwner(o) = FirstOwner(n)
<1>1. \A o \in OwnersOver(n) : /\ o \in Owners /\ o \in Nodes
                               /\ OwnersOver(o) \subseteq OwnersOver(n)
  BY OwnersChain
<1>2. \A o, p \in OwnersOver(n) : Start(o) <= Start(p) => o = p \/ o \in OwnersOver(p)
  BY OwnersChain
<1>3. PICK u \in OwnersOver(n) : OwnersOver(u) = {} /\ \A p \in OwnersOver(n) : Start(u) <= Start(p)
  BY OwnersChain
<1>4. ASSUME NEW o \in OwnersOver(n), OwnersOver(o) = {} PROVE o = u
  <2>1. u = o \/ u \in OwnersOver(o)
    BY <1>2, <1>3
  <2> QED
    BY <1>4, <2>1
<1>5. FirstOwner(n) \in OwnersOver(n) /\ OwnersOver(FirstOwner(n)) = {}
  BY <1>3 DEF FirstOwner
<1>6. FirstOwner(n) = u
  BY <1>4, <1>5
<1>7. ASSUME NEW o \in OwnersOver(n), OwnersOver(o) # {} PROVE FirstOwner(o) = FirstOwner(n)
  <2>1. FirstOwner(o) \in OwnersOver(o) /\ OwnersOver(FirstOwner(o)) = {}
    <3>1. \E p \in OwnersOver(o) : OwnersOver(p) = {}
      BY <1>1, <1>7, OwnersChain
    <3> QED
      BY <3>1 DEF FirstOwner
  <2>2. FirstOwner(o) \in OwnersOver(n)
    BY <1>1, <2>1
  <2> QED
    BY <1>4, <1>6, <2>1, <2>2
<1> QED
  BY <1>1, <1>2, <1>3, <1>4, <1>5, <1>6, <1>7 DEF Array

\* The trees the property is about.
Apart == ~DefInOwner /\ ~GivenApart /\ ~GivenBeforeBlock /\ ~ShadowedApart

LEMMA ApartIs ==
    ASSUME tree \in Shapes, Apart
    PROVE  /\ \A d \in Nodes : Kind(d) \in DefKinds => OwnersOver(d) = {}
           /\ \A b, k \in Nodes :
                 Kind(b) \in BlockKinds /\ CallOf(b) \in Over(k) /\ b \notin AtOrAbove(k) =>
                    Kind(k) \notin Writes \cup {"inA", "rescueA", "blockA"}
           /\ \A n \in Nodes :
                 Kind(n) \in Writes \cup {"if"} /\ Arguments(First(n)) # {} =>
                    Kind(First(n)) = "argsCall" /\ BlockOf(First(n)) = {}
           /\ \A n \in Nodes :
                 Kind(n) = "if" =>
                    ((\E k \in Nodes : Kind(k) \in Collected /\ n \in Over(k))
                        <=> \E k \in Nodes : Kind(k) \in Lvasgns /\ n \in Over(k))
<1>1. DOMAIN tree.kind = Nodes /\ DOMAIN tree.parent = Nodes
  BY TreeFacts DEF Nodes
<1>2. ASSUME NEW d \in Nodes, Kind(d) \in DefKinds PROVE OwnersOver(d) = {}
  <2>1. \A k \in ParserOver(d) : Kind(k) \notin OwnerKinds
    BY <1>1, <1>2 DEF Apart, DefInOwner, OwnerKinds
  <2> QED
    BY <2>1, OwnersOverAre DEF Owners
<1>3. ASSUME NEW b \in Nodes, NEW k \in Nodes, Kind(b) \in BlockKinds, CallOf(b) \in Over(k), b \notin AtOrAbove(k)
      PROVE  Kind(k) \notin Writes \cup {"inA", "rescueA", "blockA"}
  <2>1. k \in Below(tree.parent, CallOf(b))
    BY <1>1, <1>3 DEF Below, Over
  <2>2. k \notin {b} \cup Below(tree.parent, b)
    BY <1>3 DEF Below, AtOrAbove
  <2> QED
    BY <1>1, <1>3, <2>1, <2>2 DEF Apart, GivenBeforeBlock
<1>4. ASSUME NEW n \in Nodes, Kind(n) \in Writes \cup {"if"}, Arguments(First(n)) # {}
      PROVE  Kind(First(n)) = "argsCall" /\ BlockOf(First(n)) = {}
  <2>1. Kind(First(n)) \in {"argsCall", "safeCall"}
    BY <1>4 DEF Arguments
  <2> QED
    BY <1>1, <1>4, <2>1 DEF Apart, GivenApart
<1>5. ASSUME NEW n \in Nodes, Kind(n) = "if"
      PROVE  (\E k \in Nodes : Kind(k) \in Collected /\ n \in Over(k))
                <=> \E k \in Nodes : Kind(k) \in Lvasgns /\ n \in Over(k)
  <2>1. \A k : k \in Below(tree.parent, n) <=> k \in Nodes /\ n \in Over(k)
    BY <1>1 DEF Below, Over
  <2>2. (\E k \in Below(tree.parent, n) : Kind(k) \in Collected)
           = (\E k \in Below(tree.parent, n) : Kind(k) \in Lvasgns)
    BY <1>1, <1>5 DEF Apart, ShadowedApart
  <2> QED
    BY <2>1, <2>2
<1> QED
  BY <1>2, <1>3, <1>4, <1>5

-----------------------------------------------------------------------------
(* The stock cop, node by node.                                            *)

Arrays == {"own", "def"} \X Nodes

ShareStates == [array : [Nodes -> Arrays], holding : SUBSET Arrays, out : SUBSET Nodes]

\* The node gives the name to some.
Gives(n) ==
    \/ Kind(n) \in {"defA", "blockA", "inA", "rescueA"} \cup Writes
    \/ Kind(n) = "if" /\ \E k \in Nodes : Kind(k) \in Lvasgns /\ n \in Over(k)

\* The nodes an assignment gives it to.
Targets(n) ==
    IF Kind(n) \in Writes \cup {"if"}
    THEN IF Arguments(First(n)) # {} THEN Arguments(First(n)) ELSE {First(n)}
    ELSE {n}

LEMMA TargetsAre ==
    ASSUME tree \in Shapes, NEW n \in Nodes, Gives(n)
    PROVE  /\ Targets(n) # {} /\ Targets(n) \subseteq Nodes
           /\ Kind(n) \in Writes \cup {"if"} =>
                 /\ First(n) = n + 1 /\ First(n) \in Nodes /\ tree.parent[First(n)] = n
                 /\ Kind(First(n)) \notin BlockKinds /\ Class(tree, First(n)) # "direct"
                 /\ \A t \in Arguments(First(n)) :
                       /\ t \in Nodes /\ tree.parent[t] = First(n) /\ t # 1
                       /\ Kind(t) \notin BlockKinds /\ Class(tree, t) # "direct"
<1>1. DOMAIN tree.kind = Nodes /\ \A k \in Nodes : k \in Nat
  BY TreeFacts
<1>2. ASSUME Kind(n) \in Writes \cup {"if"} PROVE \E k \in Nodes : tree.parent[k] = n
  <2>1. CASE Kind(n) \in Writes
    BY <2>1, SelfKindsAre
  <2>2. CASE Kind(n) = "if"
    <3>1. \E k \in Nodes : n \in Over(k)
      BY <2>2 DEF Gives, Writes
    <3> QED
      BY <3>1, BelowHasChild
  <2> QED
    BY <1>2, <2>1, <2>2
<1>3. ASSUME Kind(n) \in Writes \cup {"if"}
      PROVE  /\ First(n) = n + 1 /\ First(n) \in Nodes /\ tree.parent[First(n)] = n
             /\ First(n) # 1 /\ Kind(First(n)) \notin BlockKinds /\ Class(tree, First(n)) # "direct"
  <2>1. First(n) = n + 1 /\ First(n) \in Nodes /\ tree.parent[First(n)] = n
    BY <1>2, <1>3, FirstIsNext
  <2>2. First(n) # 1
    BY <2>1, ParentIs
  <2>3. Kind(First(n)) \notin BlockKinds
    <3>1. Class(tree, n) # "call"
      BY <1>3, SelfKindsAre DEF Givers
    <3> QED
      BY <2>1, <3>1, SelfKindsAre DEF CallOf
  <2>4. Class(tree, First(n)) # "direct"
    BY <1>3, <2>1, <2>2, SelfKindsAre DEF IsCondition
  <2> QED
    BY <2>1, <2>2, <2>3, <2>4
<1>4. ASSUME Kind(n) \in Writes \cup {"if"}, NEW t \in Arguments(First(n))
      PROVE  /\ t \in Nodes /\ tree.parent[t] = First(n) /\ t # 1
             /\ Kind(t) \notin BlockKinds /\ Class(tree, t) # "direct"
  <2>1. Kind(First(n)) \in CallKinds /\ t \in Parts(First(n))
    BY <1>4 DEF Arguments, CallKinds
  <2>2. t \in Nodes /\ tree.parent[t] = First(n) /\ Kind(t) \notin BlockKinds
    BY <1>1, <2>1 DEF Parts, BlockOf
  <2>3. First(n) \in Nodes
    BY <1>3, <1>4
  <2>4. t # 1
    BY <2>2, <2>3, ParentIs, TreeFacts
  <2> QED
    BY <2>1, <2>2, <2>4, SelfKindsAre
<1>5. Targets(n) # {} /\ Targets(n) \subseteq Nodes
  BY <1>3, <1>4 DEF Targets
<1> QED
  BY <1>3, <1>4, <1>5

LEMMA GiveTyped ==
    ASSUME tree \in Shapes, NEW h \in ShareStates, NEW n \in Nodes
    PROVE  /\ \A ns \in SUBSET Nodes :
                 /\ Give(h, ns) \in ShareStates
                 /\ Give(h, ns).array = h.array /\ Give(h, ns).out = h.out
                 /\ Give(h, ns).holding = h.holding \cup {h.array[k] : k \in ns}
           /\ \A a \in Arrays :
                 /\ Share(h, n, a) \in ShareStates
                 /\ Share(h, n, a).array = [k \in Nodes |-> IF k \in ParserUnder(n) THEN a ELSE h.array[k]]
                 /\ Share(h, n, a).holding = h.holding /\ Share(h, n, a).out = h.out
<1>1. /\ h.array \in [Nodes -> Arrays] /\ h.holding \in SUBSET Arrays /\ h.out \in SUBSET Nodes
      /\ h = [array |-> h.array, holding |-> h.holding, out |-> h.out]
      /\ DOMAIN h.array = Nodes
  BY DEF ShareStates
<1>2. ASSUME NEW ns \in SUBSET Nodes
      PROVE  /\ Give(h, ns) \in ShareStates
             /\ Give(h, ns).array = h.array /\ Give(h, ns).out = h.out
             /\ Give(h, ns).holding = h.holding \cup {h.array[k] : k \in ns}
  <2>1. PICK more : more = {h.array[k] : k \in ns}
    OBVIOUS
  <2>2. more \subseteq Arrays
    BY <1>1, <2>1
  <2>3. Give(h, ns) = [array |-> h.array, holding |-> h.holding \cup more, out |-> h.out]
    <3>1. Give(h, ns) = [h EXCEPT !.holding = h.holding \cup more]
      BY <2>1 DEF Give
    <3>2. PICK a, o, v : a = h.array /\ o = h.out /\ v = h.holding
      OBVIOUS
    <3>3. h = [array |-> a, holding |-> v, out |-> o]
      BY <1>1, <3>2
    <3> QED
      BY <3>1, <3>2, <3>3
  <2>4. h.holding \cup more \in SUBSET Arrays
    BY <1>1, <2>2
  <2> QED
    BY <1>1, <2>1, <2>3, <2>4 DEF ShareStates
<1>3. ASSUME NEW a \in Arrays
      PROVE  /\ Share(h, n, a) \in ShareStates
             /\ Share(h, n, a).array = [k \in Nodes |-> IF k \in ParserUnder(n) THEN a ELSE h.array[k]]
             /\ Share(h, n, a).holding = h.holding /\ Share(h, n, a).out = h.out
  <2>1. PICK under, f : under = ParserUnder(n) /\ f = [k \in Nodes |-> IF k \in under THEN a ELSE h.array[k]]
    OBVIOUS
  <2>2. f \in [Nodes -> Arrays]
    BY <1>1, <2>1
  <2>3. Share(h, n, a) = [array |-> f, holding |-> h.holding, out |-> h.out]
    BY <1>1, <2>1 DEF Share
  <2> QED
    BY <1>1, <2>1, <2>2, <2>3 DEF ShareStates
<1> QED
  BY <1>2, <1>3

\* A node with its block: what they do to the arrays, and whom they give the
\* name, whom they flag.
StepArrays(h, n, b, s) ==
    /\ BlockOf(n) = {} => b = h
    /\ BlockOf(n) # {} => \A k \in Nodes :
          b.array[k] = IF k \in ParserUnder(Placed(n)) THEN h.array[Placed(n)] ELSE h.array[k]
    /\ Kind(n) \notin DefKinds => s.array = b.array
    /\ Kind(n) \in DefKinds => \A k \in Nodes :
          s.array[k] = IF k \in ParserUnder(n) THEN <<"def", n>> ELSE b.array[k]

StepGives(h, n, b, s) ==
    /\ b.holding = h.holding /\ b.out = h.out
    /\ ~Gives(n) => s.holding = b.holding
    /\ Kind(n) = "defA" => s.holding = b.holding \cup {<<"def", n>>}
    /\ Gives(n) /\ Kind(n) \in {"blockA", "inA", "rescueA"} =>
          s.holding = b.holding \cup {b.array[n]}
    /\ Gives(n) /\ Kind(n) \in Writes \cup {"if"} =>
          s.holding = b.holding \cup
              {b.array[Placed(t)] : t \in
                  IF Kind(First(n)) = "argsCall" /\ BlockOf(First(n)) = {}
                     /\ Arguments(First(n)) # {}
                  THEN Arguments(First(n)) ELSE {First(n)}}
    /\ Kind(n) # "selfA" => s.out = b.out
    /\ Kind(n) = "selfA" =>
          s.out = IF \E k \in {n} \cup ParserOver(n) : b.array[k] \in b.holding
                  THEN b.out ELSE b.out \cup {n}

LEMMA StockStepIs ==
    ASSUME tree \in Shapes, NEW h \in ShareStates, NEW n \in Nodes,
           NEW b, b = StockBlock(h, n), NEW s, s = StockNode(b, n)
    PROVE  b \in ShareStates /\ s \in ShareStates /\ StepArrays(h, n, b, s) /\ StepGives(h, n, b, s)
<1> USE DEF StepArrays, StepGives
<1>1. b = StockBlock(h, n)
  OBVIOUS
<1>2. s = StockNode(b, n)
  OBVIOUS
<1>3. \A k \in Nodes : Placed(k) \in Nodes
  BY CallBlocksAre
<1>4. /\ b \in ShareStates /\ b.holding = h.holding /\ b.out = h.out
      /\ BlockOf(n) = {} => b = h
      /\ BlockOf(n) # {} => \A k \in Nodes :
            b.array[k] = IF k \in ParserUnder(Placed(n)) THEN h.array[Placed(n)] ELSE h.array[k]
  <2>1. CASE BlockOf(n) = {}
    BY <1>1, <2>1 DEF StockBlock
  <2>2. CASE BlockOf(n) # {}
    <3>1. PICK p, a : p = Placed(n) /\ a = h.array[p]
      OBVIOUS
    <3>2. p \in Nodes /\ a \in Arrays
      BY <1>3, <3>1 DEF ShareStates
    <3>3. b = Share(h, p, a)
      BY <1>1, <2>2, <3>1 DEF StockBlock
    <3>4. /\ b \in ShareStates /\ b.holding = h.holding /\ b.out = h.out
          /\ b.array = [k \in Nodes |-> IF k \in ParserUnder(p) THEN a ELSE h.array[k]]
      BY <3>2, <3>3, GiveTyped
    <3>5. \A k \in Nodes : b.array[k] = IF k \in ParserUnder(p) THEN a ELSE h.array[k]
      BY <3>4
    <3> QED
      BY <2>2, <3>1, <3>4, <3>5
  <2> QED
    BY <2>1, <2>2
<1>5. b \in ShareStates
  BY <1>4
<1>6. CASE Kind(n) \in DefKinds
  <2>1. PICK d, t : d = <<"def", n>> /\ t = Share(b, n, d)
    OBVIOUS
  <2>2. d \in Arrays
    BY <2>1 DEF Arrays
  <2>3. /\ t \in ShareStates /\ t.holding = b.holding /\ t.out = b.out
        /\ t.array = [k \in Nodes |-> IF k \in ParserUnder(n) THEN d ELSE b.array[k]]
    BY <1>5, <2>1, <2>2, GiveTyped
  <2>4. s = IF Kind(n) = "defA" THEN [t EXCEPT !.holding = @ \cup {d}] ELSE t
    <3>1. s = StockDef(b, n)
      BY <1>2, <1>6 DEF StockNode, DefKinds, Writes
    <3> QED
      BY <2>1, <3>1, Zenon DEF StockDef
  <2>5. /\ s \in ShareStates /\ s.out = b.out /\ s.array = t.array
        /\ s.holding = IF Kind(n) = "defA" THEN b.holding \cup {d} ELSE b.holding
    <3>1. CASE Kind(n) = "defA"
      <4>1. s = [array |-> t.array, holding |-> t.holding \cup {d}, out |-> t.out]
        BY <2>3, <2>4, <3>1 DEF ShareStates
      <4>2. t.holding \cup {d} \in SUBSET Arrays
        BY <2>2, <2>3 DEF ShareStates
      <4> QED
        BY <2>3, <3>1, <4>1, <4>2 DEF ShareStates
    <3>2. CASE Kind(n) # "defA"
      BY <2>3, <2>4, <3>2
    <3> QED
      BY <3>1, <3>2
  <2> QED
    BY <1>1, <1>2, <1>4, <1>6, <2>1, <2>3, <2>5 DEF Gives, DefKinds, Writes
<1>7. CASE Kind(n) \in Writes \cup {"if"} /\ Gives(n)
  <2>1. PICK args, ns : /\ args = IF Kind(First(n)) = "argsCall" /\ BlockOf(First(n)) = {}
                                     /\ Arguments(First(n)) # {}
                                  THEN Arguments(First(n)) ELSE {First(n)}
                        /\ ns = {Placed(t) : t \in args}
    OBVIOUS
  <2>2. args \subseteq Nodes
    BY <1>7, <2>1, TargetsAre
  <2>3. ns \in SUBSET Nodes
    BY <1>3, <2>1, <2>2
  <2>4. GiveLhs(b, First(n)) = Give(b, ns)
    BY <2>1 DEF GiveLhs
  <2>5. Kind(n) = "if" => \E k \in ParserUnder(n) : Kind(k) \in Lvasgns
    <3>1. SUFFICES ASSUME Kind(n) = "if" PROVE \E k \in ParserUnder(n) : Kind(k) \in Lvasgns
      OBVIOUS
    <3>2. PICK k \in Nodes : Kind(k) \in Lvasgns /\ n \in Over(k)
      BY <1>7, <3>1 DEF Gives, Writes
    <3>3. Class(tree, n) \in Branches \ {"call"}
      BY <3>1, SelfKindsAre DEF Givers
    <3>4. BlockOf(n) = {} /\ Subsequents(tree, n) = {}
      BY <3>3, CallBlocksAre
    <3>5. n \in AtOrAbove(k) \ {k}
      BY <3>2, AtOrAboveIs
    <3>6. Encloses(n, k)
      BY <3>1, <3>4, <3>5 DEF Encloses, BlockKinds
    <3> QED
      BY <3>2, <3>6, TreeFacts DEF ParserUnder
  <2>6. s = Give(b, ns)
    BY <1>2, <1>7, <2>4, <2>5 DEF StockNode, Writes, DefKinds
  <2>7. {b.array[k] : k \in ns} = {b.array[Placed(t)] : t \in args}
    BY <2>1
  <2> QED
    BY <1>1, <1>2, <1>4, <1>7, <2>1, <2>3, <2>6, <2>7, GiveTyped DEF DefKinds, Writes
<1>8. CASE Kind(n) = "if" /\ ~Gives(n)
  <2>1. ASSUME NEW k \in ParserUnder(n) PROVE Kind(k) \notin Lvasgns
    <3>1. k \in Nodes /\ Encloses(n, k)
      BY <2>1, TreeFacts DEF ParserUnder
    <3>2. n \in Over(k)
      BY <1>8, <3>1, AtOrAboveIs DEF Encloses, BlockKinds
    <3> QED
      BY <1>8, <3>1, <3>2 DEF Gives, Writes
  <2>2. s = b
    BY <1>2, <1>8, <2>1 DEF StockNode, Writes, DefKinds
  <2> QED
    BY <1>1, <1>2, <1>4, <1>8, <2>2 DEF DefKinds, Writes
<1>9. CASE Kind(n) \in {"blockA", "inA", "rescueA"}
  <2>1. s = Give(b, {n})
    BY <1>2, <1>9 DEF StockNode, DefKinds, Writes
  <2>2. {b.array[k] : k \in {n}} = {b.array[n]}
    OBVIOUS
  <2> QED
    BY <1>1, <1>2, <1>4, <1>9, <2>1, <2>2, GiveTyped DEF DefKinds, Writes, Gives
<1>10. CASE Kind(n) = "selfA"
  <2>1. s = StockSend(b, n)
    BY <1>2, <1>10 DEF StockNode, DefKinds, Writes
  <2>2. [b EXCEPT !.out = @ \cup {n}] = [array |-> b.array, holding |-> b.holding, out |-> b.out \cup {n}]
    BY <1>5 DEF ShareStates
  <2>3. b.out \cup {n} \in SUBSET Nodes
    BY <1>5 DEF ShareStates
  <2>4. [b EXCEPT !.out = @ \cup {n}] \in ShareStates
    BY <1>5, <2>2, <2>3 DEF ShareStates
  <2> QED
    BY <1>1, <1>2, <1>4, <1>10, <2>1, <2>2, <2>4 DEF StockSend, DefKinds, Writes, Gives
<1>11. CASE /\ Kind(n) \notin DefKinds \cup Writes \cup {"if"}
            /\ Kind(n) \notin {"blockA", "inA", "rescueA"} /\ Kind(n) # "selfA"
  <2>1. s = b
    BY <1>2, <1>11 DEF StockNode
  <2> QED
    BY <1>1, <1>2, <1>4, <1>11, <2>1 DEF Gives, DefKinds
<1> QED
  BY <1>6, <1>7, <1>8, <1>9, <1>10, <1>11 DEF Gives

LEMMA StockRunIs ==
    ASSUME tree \in Shapes
    PROVE  /\ StockRun[0] = StockFresh /\ StockRun[0] \in ShareStates
           /\ \A n \in Nodes :
                 /\ StockRun[n - 1] \in ShareStates /\ StockRun[n] \in ShareStates
                 /\ StockRun[n] = StockNode(StockBlock(StockRun[n - 1], n), n)
<1>1. PICK N \in Nat : N = Len(tree.parent) /\ Nodes = 1 .. N /\ Len(tree.kind) = N
  BY TreeFacts
<1> DEFINE V == ShareStates
           more(u, j) == StockNode(StockBlock(u, j), j)
           q == [j \in 1 .. N |-> j - 1]
           G == [c \in (1 .. N) \X V |-> more(c[2], c[1])]
           IsRun(u) == u = [j \in 0 .. N |-> IF j = 0 THEN StockFresh ELSE more(u[j - 1], j)]
<1>2. StockFresh \in V
  <2>1. PICK f : f = [n \in Nodes |-> <<"own", n>>]
    OBVIOUS
  <2>2. \A n \in Nodes : <<"own", n>> \in Arrays
    BY DEF Arrays
  <2>3. f \in [Nodes -> Arrays]
    BY <2>1, <2>2
  <2>4. StockFresh = [array |-> f, holding |-> {}, out |-> {}]
    <3>1. DOMAIN tree.kind = Nodes
      BY TreeFacts
    <3> QED
      BY <2>1, <3>1, Zenon DEF StockFresh
  <2> QED
    BY <2>3, <2>4 DEF ShareStates
<1>3. ASSUME NEW j \in 1 .. N, NEW v \in V PROVE G[<<j, v>>] = more(v, j) /\ G[<<j, v>>] \in V
  <2>1. more(v, j) \in V
    BY <1>1, StockStepIs
  <2>2. G[<<j, v>>] = more(v, j)
    <3> HIDE DEF more, V
    <3> QED
      OBVIOUS
  <2> QED
    BY <2>1, <2>2
<1> HIDE DEF V, G
<1>4. RecursiveStep(N, V, q, G)
  <2>1. \A j \in 1 .. N : q[j] \in 0 .. j - 1
    OBVIOUS
  <2>2. \A j \in 1 .. N : \A v \in V : G[<<j, v>>] \in V
    BY <1>3
  <2> QED
    BY <2>1, <2>2 DEF RecursiveStep
<1>5. PICK f : SolvesRecursion(f, N, V, StockFresh, q, G)
  BY <1>2, <1>4, Recursion
<1>6. \A j \in 1 .. N : f[j] = more(f[j - 1], j)
  <2> SUFFICES ASSUME NEW j \in 1 .. N PROVE f[j] = more(f[j - 1], j)
    OBVIOUS
  <2>1. q[j] = j - 1 /\ j - 1 \in 0 .. N
    OBVIOUS
  <2>2. f[j] = G[<<j, f[j - 1]>>] /\ f[j - 1] \in V
    BY <1>5, <2>1 DEF SolvesRecursion
  <2> HIDE DEF more
  <2> QED
    BY <1>3, <2>2
<1> HIDE DEF more
<1>7. f[0] = StockFresh /\ f = [j \in 0 .. N |-> f[j]]
  BY <1>5 DEF SolvesRecursion
<1>8. IsRun(f)
  <2>1. \A j \in 0 .. N : j = 0 \/ j \in 1 .. N
    OBVIOUS
  <2>2. \A j \in 0 .. N : f[j] = IF j = 0 THEN StockFresh ELSE more(f[j - 1], j)
    BY <1>6, <1>7, <2>1
  <2> QED
    BY <1>7, <2>2
<1>9. StockRun = CHOOSE u : IsRun(u)
  BY <1>1 DEF StockRun, more
<1> HIDE DEF IsRun
<1>10. IsRun(StockRun)
  BY <1>8, <1>9
<1>11. \A j \in 0 .. N : StockRun[j] = IF j = 0 THEN StockFresh ELSE more(StockRun[j - 1], j)
  BY <1>10 DEF IsRun
<1>12. 0 \in 0 .. N /\ \A j \in 1 .. N : j \in 0 .. N /\ j # 0 /\ j - 1 \in 0 .. N
  OBVIOUS
<1>13. StockRun[0] = StockFresh /\ \A j \in 1 .. N : StockRun[j] = more(StockRun[j - 1], j)
  BY <1>11, <1>12
<1> DEFINE Good == {j \in Nat : j <= N => StockRun[j] \in V}
<1>14. 0 \in Good
  BY <1>2, <1>13
<1>15. ASSUME NEW j \in Nat, j \in Good PROVE j + 1 \in Good
  <2>1. SUFFICES ASSUME j + 1 <= N PROVE StockRun[j + 1] \in V
    OBVIOUS
  <2>2. j + 1 \in 1 .. N /\ j + 1 - 1 = j /\ j <= N
    BY <2>1
  <2>3. StockRun[j] \in V
    BY <1>15, <2>2
  <2>4. StockRun[j + 1] = more(StockRun[j], j + 1)
    BY <1>13, <2>2
  <2> QED
    BY <1>3, <2>2, <2>3, <2>4
<1> HIDE DEF Good
<1>16. \A j \in Nat : j \in Good
  BY <1>14, <1>15, NatSet
<1>17. \A j \in 0 .. N : StockRun[j] \in V
  BY <1>16 DEF Good
<1> QED
  BY <1>1, <1>2, <1>12, <1>13, <1>17 DEF more, V

\* The array a node has when the walk has entered m nodes.
ArrayAt(m, n) ==
    IF OwnersOver(n) # {} /\ Start(FirstOwner(n)) <= m THEN Array(n) ELSE <<"own", n>>

\* A parser node has an array of its own until its first owner begins.
LEMMA ArraysStep ==
    ASSUME tree \in Shapes, Apart, NEW n \in Nodes, NEW h \in ShareStates,
           \A x \in Nodes : h.array[x] = ArrayAt(n - 1, x)
    PROVE  /\ \A x \in Nodes : StockNode(StockBlock(h, n), n).array[x] = ArrayAt(n, x)
           /\ Kind(n) \notin DefKinds => \A x \in Nodes : StockBlock(h, n).array[x] = ArrayAt(n, x)
<1>1. PICK b, s : b = StockBlock(h, n) /\ s = StockNode(b, n)
  OBVIOUS
<1>2. /\ BlockOf(n) = {} => b = h
      /\ BlockOf(n) # {} => \A k \in Nodes :
            b.array[k] = IF k \in ParserUnder(Placed(n)) THEN h.array[Placed(n)] ELSE h.array[k]
      /\ Kind(n) \notin DefKinds => s.array = b.array
      /\ Kind(n) \in DefKinds => \A k \in Nodes :
            s.array[k] = IF k \in ParserUnder(n) THEN <<"def", n>> ELSE b.array[k]
  <2>1. StepArrays(h, n, b, s)
    BY <1>1, StockStepIs
  <2> QED
    BY <2>1 DEF StepArrays
<1>3. \A x \in Nodes : x \in Nat /\ Start(x) \in Nat /\ Start(x) \in Nodes
  BY StartIs, TreeFacts
<1>4. ASSUME NEW x \in Nodes, OwnersOver(x) = {} \/ Start(FirstOwner(x)) # n
      PROVE  ArrayAt(n, x) = ArrayAt(n - 1, x)
  <2>1. CASE OwnersOver(x) = {}
    BY <2>1 DEF ArrayAt
  <2>2. CASE OwnersOver(x) # {}
    <3>1. FirstOwner(x) \in Nodes
      BY <2>2, FirstOwnerIs
    <3>2. Start(FirstOwner(x)) <= n <=> Start(FirstOwner(x)) <= n - 1
      BY <1>3, <1>4, <2>2, <3>1
    <3> QED
      BY <3>2 DEF ArrayAt
  <2> QED
    BY <2>1, <2>2
<1>5. ASSUME NEW o \in Owners, Start(o) = n
      PROVE  \A x \in Nodes : /\ x \in ParserUnder(o) <=> o \in OwnersOver(x)
                              /\ o \notin OwnersOver(x) => ArrayAt(n, x) = ArrayAt(n - 1, x)
  <2>1. ASSUME NEW x \in Nodes PROVE x \in ParserUnder(o) <=> o \in OwnersOver(x)
    <3>1. o \in Nodes /\ DOMAIN tree.kind = Nodes
      BY TreeFacts DEF Owners
    <3>2. x \in ParserUnder(o) <=> o \in ParserOver(x)
      BY <3>1 DEF ParserUnder, ParserOver
    <3> QED
      BY <1>5, <3>2, OwnersOverAre
  <2>2. ASSUME NEW x \in Nodes, o \notin OwnersOver(x) PROVE ArrayAt(n, x) = ArrayAt(n - 1, x)
    <3>1. OwnersOver(x) # {} => /\ FirstOwner(x) \in Owners /\ FirstOwner(x) # o
      BY <2>2, FirstOwnerIs
    <3>2. OwnersOver(x) # {} => Start(FirstOwner(x)) # n
      BY <1>5, <3>1, StartIs DEF Owners
    <3> QED
      BY <1>4, <3>2
  <2> QED
    BY <2>1, <2>2
<1>6. CASE BlockOf(n) # {}
  <2>1. PICK p : p = Placed(n)
    OBVIOUS
  <2>2. /\ p \in Nodes /\ Kind(p) \in BlockKinds /\ CallOf(p) = n /\ Class(tree, n) = "call"
    BY <1>6, <2>1, CallBlocksAre
  <2>3. p \in Owners /\ Start(p) = n /\ Kind(p) \notin DefKinds
    BY <2>2 DEF Owners, OwnerKinds, Start, BlockKinds, DefKinds
  <2>4. Kind(n) \notin DefKinds
    BY <2>2, SelfKindsAre DEF Givers
  <2>5. h.array[p] = ArrayAt(n - 1, p)
    BY <2>2
  <2>6. CASE OwnersOver(p) = {}
    <3>1. h.array[p] = ArrayOf(p)
      BY <2>3, <2>5, <2>6 DEF ArrayAt, ArrayOf
    <3>2. ASSUME NEW x \in Nodes, p \in OwnersOver(x) PROVE ArrayAt(n, x) = ArrayOf(p)
      <4>1. FirstOwner(x) = p /\ Array(x) = ArrayOf(p) /\ OwnersOver(x) # {}
        BY <2>6, <3>2, FirstOwnerIs
      <4> QED
        BY <1>3, <2>3, <4>1 DEF ArrayAt
    <3>3. \A x \in Nodes : b.array[x] = ArrayAt(n, x)
      BY <1>2, <1>5, <1>6, <2>1, <2>3, <3>1, <3>2
    <3> QED
      BY <1>1, <1>2, <2>4, <3>3
  <2>7. CASE OwnersOver(p) # {}
    <3>1. PICK u : u = FirstOwner(p)
      OBVIOUS
    <3>2. u \in OwnersOver(p) /\ u \in Owners /\ u \in Nodes /\ Array(p) = ArrayOf(u)
      BY <2>2, <2>7, <3>1, FirstOwnerIs
    <3>3. u # p /\ Start(u) \in AtOrAbove(n)
      BY <2>3, <3>2 DEF OwnersOver
    <3>4. Start(u) <= n /\ Start(u) # n
      BY <2>2, <2>3, <3>2, <3>3, StartIs, AtOrAboveIs
    <3>5. Start(u) <= n - 1
      BY <1>3, <3>2, <3>4
    <3>6. h.array[p] = ArrayOf(u)
      BY <2>5, <2>7, <3>1, <3>2, <3>5 DEF ArrayAt
    <3>7. ASSUME NEW x \in Nodes, p \in OwnersOver(x) PROVE ArrayAt(n, x) = ArrayOf(u)
      <4>1. FirstOwner(x) = u /\ Array(x) = ArrayOf(u) /\ OwnersOver(x) # {}
        BY <2>7, <3>1, <3>7, FirstOwnerIs
      <4> QED
        BY <3>4, <4>1 DEF ArrayAt
    <3>8. \A x \in Nodes : b.array[x] = ArrayAt(n, x)
      BY <1>2, <1>5, <1>6, <2>1, <2>3, <3>6, <3>7
    <3> QED
      BY <1>1, <1>2, <2>4, <3>8
  <2> QED
    BY <2>6, <2>7
<1>7. CASE Kind(n) \in DefKinds
  <2>1. OwnersOver(n) = {} /\ n \in Owners /\ Start(n) = n
    BY <1>7, ApartIs DEF Owners, OwnerKinds, Start, BlockKinds, DefKinds
  <2>2. BlockOf(n) = {}
    <3>1. Class(tree, n) # "call"
      BY <1>7, SelfKindsAre DEF Givers
    <3> QED
      BY <3>1, CallBlocksAre
  <2>3. ASSUME NEW x \in Nodes, n \in OwnersOver(x) PROVE ArrayAt(n, x) = <<"def", n>>
    <3>1. FirstOwner(x) = n /\ Array(x) = ArrayOf(n) /\ OwnersOver(x) # {}
      BY <2>1, <2>3, FirstOwnerIs
    <3> QED
      BY <1>3, <1>7, <2>1, <3>1 DEF ArrayAt, ArrayOf
  <2>4. \A x \in Nodes : s.array[x] = ArrayAt(n, x)
    BY <1>2, <1>5, <1>7, <2>1, <2>2, <2>3
  <2> QED
    BY <1>1, <1>7, <2>4
<1>8. CASE BlockOf(n) = {} /\ Kind(n) \notin DefKinds
  <2>1. ASSUME NEW o \in Owners PROVE Start(o) # n
    <3>1. o \in Nodes /\ Kind(o) \in OwnerKinds
      BY <2>1 DEF Owners
    <3>2. CASE Kind(o) \in BlockKinds
      <4>1. BlockOf(CallOf(o)) = {o}
        BY <3>1, <3>2, CallBlocksAre
      <4> QED
        BY <1>8, <3>2, <4>1 DEF Start
    <3>3. CASE Kind(o) \in DefKinds
      BY <1>8, <3>3 DEF Start, DefKinds, BlockKinds
    <3> QED
      BY <3>1, <3>2, <3>3 DEF OwnerKinds
  <2>2. \A x \in Nodes : OwnersOver(x) # {} => FirstOwner(x) \in Owners
    BY FirstOwnerIs
  <2>3. \A x \in Nodes : ArrayAt(n, x) = ArrayAt(n - 1, x)
    BY <1>4, <2>1, <2>2
  <2>4. b = h /\ s.array = h.array
    BY <1>2, <1>8
  <2> QED
    BY <1>1, <2>3, <2>4
<1> QED
  BY <1>6, <1>7, <1>8

LEMMA ArraysAre ==
    ASSUME tree \in Shapes, Apart
    PROVE  \A m \in 0 .. Len(tree.kind) : \A x \in Nodes : StockRun[m].array[x] = ArrayAt(m, x)
<1>1. PICK N \in Nat : N = Len(tree.parent) /\ Nodes = 1 .. N /\ Len(tree.kind) = N
  BY TreeFacts
<1> DEFINE Good == {j \in Nat : j <= N => \A x \in Nodes : StockRun[j].array[x] = ArrayAt(j, x)}
<1>2. 0 \in Good
  <2>1. StockRun[0] = StockFresh /\ DOMAIN tree.kind = Nodes
    BY StockRunIs, TreeFacts
  <2>2. \A x \in Nodes : StockFresh.array[x] = <<"own", x>>
    BY <2>1 DEF StockFresh
  <2>3. ASSUME NEW x \in Nodes PROVE ArrayAt(0, x) = <<"own", x>>
    <3>1. OwnersOver(x) # {} => FirstOwner(x) \in Nodes
      BY FirstOwnerIs
    <3>2. OwnersOver(x) # {} => Start(FirstOwner(x)) \in Nodes
      BY <3>1, StartIs
    <3>3. OwnersOver(x) # {} => ~(Start(FirstOwner(x)) <= 0)
      BY <1>1, <3>2
    <3> QED
      BY <3>3 DEF ArrayAt
  <2> QED
    BY <2>1, <2>2, <2>3
<1>3. ASSUME NEW j \in Nat, j \in Good PROVE j + 1 \in Good
  <2>1. SUFFICES ASSUME j + 1 <= N PROVE \A x \in Nodes : StockRun[j + 1].array[x] = ArrayAt(j + 1, x)
    OBVIOUS
  <2>2. PICK n : n = j + 1
    OBVIOUS
  <2>3. n \in Nodes /\ n - 1 = j /\ j <= N
    BY <1>1, <2>1, <2>2
  <2>4. /\ StockRun[n - 1] \in ShareStates
        /\ StockRun[n] = StockNode(StockBlock(StockRun[n - 1], n), n)
        /\ \A x \in Nodes : StockRun[n - 1].array[x] = ArrayAt(n - 1, x)
    BY <1>3, <2>3, StockRunIs
  <2>5. PICK h : h = StockRun[n - 1]
    OBVIOUS
  <2>6. \A x \in Nodes : StockNode(StockBlock(h, n), n).array[x] = ArrayAt(n, x)
    BY <2>3, <2>4, <2>5, ArraysStep
  <2> QED
    BY <2>2, <2>4, <2>5, <2>6
<1> HIDE DEF Good
<1>4. \A j \in Nat : j \in Good
  BY <1>2, <1>3, NatSet
<1> QED
  BY <1>1, <1>4 DEF Good

\* No owner begins where there is neither a def nor the call of a block.
LEMMA NoOwnerStarts ==
    ASSUME tree \in Shapes, NEW n \in Nodes, BlockOf(n) = {}, Kind(n) \notin DefKinds
    PROVE  \A o \in Owners : Start(o) # n
<1>1. SUFFICES ASSUME NEW o \in Owners PROVE Start(o) # n
  OBVIOUS
<1>2. o \in Nodes /\ Kind(o) \in OwnerKinds
  BY DEF Owners
<1>3. CASE Kind(o) \in BlockKinds
  <2>1. BlockOf(CallOf(o)) = {o}
    BY <1>2, <1>3, CallBlocksAre
  <2> QED
    BY <1>3, <2>1 DEF Start
<1>4. CASE Kind(o) \in DefKinds
  BY <1>4 DEF Start, DefKinds, BlockKinds
<1> QED
  BY <1>2, <1>3, <1>4 DEF OwnerKinds

\* The owners above what the parser gem has in the place of a prism node begin
\* above that node.
LEMMA PlacedOwners ==
    ASSUME tree \in Shapes, NEW t \in Nodes, Kind(t) \notin BlockKinds
    PROVE  /\ OwnersOver(Placed(t)) = {o \in Owners : Start(o) \in Over(t)}
           /\ Placed(t) \in Nodes /\ Start(Placed(t)) = t
<1>1. /\ Placed(t) \in Nodes /\ Start(Placed(t)) = t
      /\ BlockOf(t) # {} => Placed(t) \in Owners
  <2>1. CASE BlockOf(t) = {}
    BY <2>1, CallBlocksAre, StartIs
  <2>2. CASE BlockOf(t) # {}
    BY <2>2, CallBlocksAre DEF Start, Owners, OwnerKinds
  <2> QED
    BY <2>1, <2>2
<1>2. AtOrAbove(t) = {t} \cup Over(t) /\ t \notin Over(t)
  BY AtOrAboveIs
<1>3. ASSUME NEW o \in Owners PROVE o = Placed(t) <=> Start(o) = t
  <2>1. o = Placed(t) => Start(o) = t
    BY <1>1
  <2>2. CASE BlockOf(t) # {}
    BY <1>1, <1>3, <2>2, StartIs
  <2>3. CASE BlockOf(t) = {} /\ Kind(t) \notin DefKinds
    BY <2>1, <2>3, <1>3, NoOwnerStarts
  <2>4. CASE BlockOf(t) = {} /\ Kind(t) \in DefKinds
    <3>1. t \in Owners /\ Start(t) = t /\ Placed(t) = t
      BY <2>4, CallBlocksAre, StartIs DEF Owners, OwnerKinds
    <3> QED
      BY <1>3, <2>1, <3>1, StartIs
  <2> QED
    BY <2>2, <2>3, <2>4
<1> QED
  BY <1>1, <1>2, <1>3 DEF OwnersOver

\* What an assignment gives the name to has the owners of the assignment.
LEMMA TargetOwners ==
    ASSUME tree \in Shapes, Apart, NEW n \in Nodes, Gives(n), NEW t \in Targets(n)
    PROVE  /\ t \in Nodes /\ Placed(t) \in Nodes
           /\ OwnersOver(Placed(t)) = OwnersOver(n)
           /\ Class(tree, t) # "direct"
           /\ Kind(n) \notin Writes \cup {"if"} => t = n /\ (Kind(n) # "defA" => Placed(t) = n)
<1>1. t \in Nodes /\ Placed(t) \in Nodes
  BY TargetsAre, CallBlocksAre
<1>2. Kind(n) \in Givers \cup BlockKinds \/ Kind(n) = "rescueA"
  BY DEF Gives, Givers, DefKinds, BlockKinds
<1>3. Class(tree, n) # "call" /\ Class(tree, n) # "direct"
  BY <1>2, SelfKindsAre DEF Branches, ClassIndex
<1>4. BlockOf(n) = {} /\ Placed(n) = n
  BY <1>3, CallBlocksAre
<1>5. CASE Kind(n) \notin Writes \cup {"if"}
  BY <1>1, <1>3, <1>4, <1>5 DEF Targets
<1>6. CASE Kind(n) \in Writes \cup {"if"}
  <2>1. /\ First(n) \in Nodes /\ tree.parent[First(n)] = n /\ First(n) # 1
        /\ Kind(First(n)) \notin BlockKinds /\ Class(tree, First(n)) # "direct"
    BY <1>6, TargetsAre, ParentIs
  <2>2. Over(First(n)) = AtOrAbove(n) /\ AtOrAbove(n) = {n} \cup Over(n)
    BY <2>1, AtOrAboveIs
  <2>3. Kind(n) \notin BlockKinds /\ Kind(n) \notin DefKinds
    BY <1>6 DEF BlockKinds, DefKinds, Writes
  <2>4. \A o \in Owners : Start(o) # n
    BY <1>4, <2>3, NoOwnerStarts
  <2>5. OwnersOver(n) = {o \in Owners : Start(o) \in Over(n)}
    BY <1>4, <2>3, PlacedOwners
  <2>6. OwnersOver(n) = {o \in Owners : Start(o) \in AtOrAbove(n)}
    BY <2>2, <2>4, <2>5
  <2>7. CASE Arguments(First(n)) = {}
    <3>1. t = First(n)
      BY <1>6, <2>7 DEF Targets
    <3> QED
      BY <1>1, <1>6, <2>1, <2>2, <2>6, <3>1, PlacedOwners
  <2>8. CASE Arguments(First(n)) # {}
    <3>1. /\ t \in Nodes /\ tree.parent[t] = First(n) /\ t # 1
          /\ Kind(t) \notin BlockKinds /\ Class(tree, t) # "direct"
      BY <1>6, <2>8, TargetsAre DEF Targets
    <3>2. Kind(First(n)) = "argsCall" /\ BlockOf(First(n)) = {}
      BY <1>6, <2>8, ApartIs
    <3>3. \A o \in Owners : Start(o) # First(n)
      BY <2>1, <3>2, NoOwnerStarts DEF DefKinds
    <3>4. Over(t) = AtOrAbove(First(n)) /\ AtOrAbove(First(n)) = {First(n)} \cup Over(First(n))
      BY <2>1, <3>1, AtOrAboveIs
    <3>5. OwnersOver(Placed(t)) = {o \in Owners : Start(o) \in Over(t)}
      BY <3>1, PlacedOwners
    <3> QED
      BY <1>1, <1>6, <2>2, <2>6, <3>1, <3>3, <3>4, <3>5
  <2> QED
    BY <2>7, <2>8
<1> QED
  BY <1>5, <1>6

\* The arrays a node gives the name to.
GivenArrays(n) ==
    IF Kind(n) = "defA" THEN {<<"def", n>>} ELSE {Array(Placed(t)) : t \in Targets(n)}

Given(m) == {k \in 1 .. m : Gives(k)}

\* Does the stock cop find an array with the name at the node or above it?
StockAllows(n) ==
    \E k \in Given(n - 1) : \E x \in {n} \cup ParserOver(n) : Array(x) \in GivenArrays(k)

\* The array of a node is known where its owners have begun.
LEMMA ArrayKnown ==
    ASSUME tree \in Shapes, NEW n \in Nodes, NEW x \in Nodes,
           \A o \in OwnersOver(x) : Start(o) <= n
    PROVE  ArrayAt(n, x) = Array(x)
<1>1. OwnersOver(x) # {} => FirstOwner(x) \in OwnersOver(x)
  BY FirstOwnerIs
<1> QED
  BY <1>1 DEF ArrayAt, Array

\* The owners above a node, and above what is above it, have begun.
LEMMA OwnersBegun ==
    ASSUME tree \in Shapes, NEW n \in Nodes
    PROVE  /\ \A o \in OwnersOver(n) : Start(o) <= n
           /\ Kind(n) \notin OwnerKinds =>
                 \A x \in ParserOver(n) : /\ x \in Nodes /\ x # n
                                          /\ OwnersOver(x) \subseteq OwnersOver(n)
<1>1. Start(n) \in Nodes /\ Start(n) \in Nat /\ Start(n) <= n /\ n \in Nat
  BY StartIs, TreeFacts
<1>2. \A x \in AtOrAbove(Start(n)) : x \in Nat /\ x <= Start(n)
  BY <1>1, AtOrAboveIs
<1>3. ASSUME NEW o \in OwnersOver(n) PROVE Start(o) <= n
  <2>1. Start(o) \in AtOrAbove(Start(n))
    BY DEF OwnersOver
  <2> QED
    BY <1>1, <1>2, <2>1
<1>4. ASSUME Kind(n) \notin OwnerKinds, NEW x \in ParserOver(n)
      PROVE  x \in Nodes /\ x # n /\ OwnersOver(x) \subseteq OwnersOver(n)
  <2>1. x \in Nodes /\ Encloses(x, n)
    BY TreeFacts DEF ParserOver
  <2>2. x # n
    BY <2>1 DEF Encloses
  <2>3. Start(x) \in AtOrAbove(n) /\ Start(n) = n
    BY <1>4, <2>1, StartIs DEF Encloses, Start, OwnerKinds
  <2>4. AtOrAbove(Start(x)) \subseteq AtOrAbove(n)
    BY <2>3, AtOrAboveIs
  <2>5. n \notin Owners
    BY <1>4 DEF Owners
  <2> QED
    BY <2>1, <2>2, <2>3, <2>4, <2>5 DEF OwnersOver
<1> QED
  BY <1>3, <1>4

\* The same, told with the arrays that are known.
StepHolds(h, n, s) ==
    /\ Gives(n) => s.holding = h.holding \cup GivenArrays(n)
    /\ ~Gives(n) => s.holding = h.holding
    /\ Kind(n) # "selfA" => s.out = h.out
    /\ Kind(n) = "selfA" =>
          s.out = IF \E x \in {n} \cup ParserOver(n) : Array(x) \in h.holding
                  THEN h.out ELSE h.out \cup {n}

LEMMA HoldingStep ==
    ASSUME tree \in Shapes, Apart, NEW n \in Nodes, NEW h \in ShareStates,
           NEW b, b = StockBlock(h, n), NEW s, s = StockNode(b, n),
           \A x \in Nodes : h.array[x] = ArrayAt(n - 1, x)
    PROVE  StepHolds(h, n, s)
<1> USE DEF StepHolds
<1>1. StepGives(h, n, b, s)
  BY StockStepIs
<1>2. Kind(n) \notin DefKinds => \A x \in Nodes : b.array[x] = ArrayAt(n, x)
  BY ArraysStep
<1>3. b.holding = h.holding /\ b.out = h.out /\ (~Gives(n) => s.holding = h.holding)
      /\ (Kind(n) # "selfA" => s.out = h.out)
  BY <1>1 DEF StepGives
<1>4. ASSUME NEW x \in Nodes, OwnersOver(x) \subseteq OwnersOver(n) PROVE ArrayAt(n, x) = Array(x)
  <2>1. \A o \in OwnersOver(x) : Start(o) <= n
    BY <1>4, OwnersBegun
  <2> QED
    BY <2>1, ArrayKnown
<1>5. ASSUME Gives(n), Kind(n) \notin DefKinds
      PROVE  \A t \in Targets(n) : b.array[Placed(t)] = Array(Placed(t))
  BY <1>2, <1>4, <1>5, TargetOwners
<1>6. CASE Gives(n) /\ Kind(n) \in Writes \cup {"if"}
  <2>1. PICK args : args = IF Kind(First(n)) = "argsCall" /\ BlockOf(First(n)) = {}
                              /\ Arguments(First(n)) # {}
                           THEN Arguments(First(n)) ELSE {First(n)}
    OBVIOUS
  <2>2. args = Targets(n)
    BY <1>6, <2>1, ApartIs DEF Targets
  <2>3. s.holding = b.holding \cup {b.array[Placed(t)] : t \in args}
    BY <1>1, <1>6, <2>1 DEF StepGives
  <2>4. Kind(n) \notin DefKinds /\ Kind(n) # "selfA"
    BY <1>6 DEF DefKinds, Writes
  <2>5. {b.array[Placed(t)] : t \in args} = {Array(Placed(t)) : t \in Targets(n)}
    BY <1>5, <1>6, <2>2, <2>4
  <2>6. GivenArrays(n) = {Array(Placed(t)) : t \in Targets(n)}
    BY <1>6 DEF GivenArrays, Writes
  <2> QED
    BY <1>3, <1>6, <2>3, <2>4, <2>5, <2>6
<1>7. CASE Gives(n) /\ Kind(n) \in {"blockA", "inA", "rescueA"}
  <2>1. Kind(n) \notin DefKinds /\ Kind(n) # "selfA" /\ Kind(n) \notin Writes \cup {"if"}
    BY <1>7 DEF DefKinds, Writes
  <2>2. Targets(n) = {n} /\ Placed(n) = n
    BY <1>7, <2>1, TargetOwners DEF Targets, DefKinds
  <2>3. GivenArrays(n) = {Array(n)}
    BY <1>7, <2>2 DEF GivenArrays
  <2>4. b.array[n] = Array(n)
    BY <1>5, <1>7, <2>1, <2>2
  <2>5. s.holding = b.holding \cup {b.array[n]}
    BY <1>1, <1>7 DEF StepGives
  <2> QED
    BY <1>3, <1>7, <2>1, <2>3, <2>4, <2>5
<1>8. CASE Kind(n) = "defA"
  BY <1>1, <1>3, <1>8 DEF StepGives, GivenArrays, Gives
<1>9. CASE Kind(n) = "selfA"
  <2>1. Kind(n) \notin DefKinds /\ Kind(n) \notin OwnerKinds /\ ~Gives(n)
    BY <1>9 DEF DefKinds, OwnerKinds, BlockKinds, Gives, Writes
  <2>2. \A x \in {n} \cup ParserOver(n) : x \in Nodes /\ OwnersOver(x) \subseteq OwnersOver(n)
    BY <2>1, OwnersBegun
  <2>3. \A x \in {n} \cup ParserOver(n) : b.array[x] = Array(x)
    BY <1>2, <1>4, <2>1, <2>2
  <2>4. s.out = IF \E k \in {n} \cup ParserOver(n) : b.array[k] \in b.holding
                THEN b.out ELSE b.out \cup {n}
    BY <1>1, <1>9 DEF StepGives
  <2> QED
    BY <1>3, <1>9, <2>1, <2>3, <2>4
<1>10. CASE ~Gives(n) /\ Kind(n) # "selfA"
  BY <1>3, <1>10
<1> QED
  BY <1>6, <1>7, <1>8, <1>9, <1>10 DEF Gives

\* The stock cop has flagged what no array with the name is above.
LEMMA StockRunAs ==
    ASSUME tree \in Shapes, Apart
    PROVE  \A m \in 0 .. Len(tree.kind) :
              /\ StockRun[m].holding = UNION {GivenArrays(k) : k \in Given(m)}
              /\ StockRun[m].out = {n \in 1 .. m : Kind(n) = "selfA" /\ ~StockAllows(n)}
<1>1. PICK N \in Nat : N = Len(tree.parent) /\ Nodes = 1 .. N /\ Len(tree.kind) = N
  BY TreeFacts
<1> DEFINE As(j) == /\ StockRun[j].holding = UNION {GivenArrays(k) : k \in Given(j)}
                    /\ StockRun[j].out = {n \in 1 .. j : Kind(n) = "selfA" /\ ~StockAllows(n)}
           Good == {j \in Nat : j <= N => As(j)}
<1>2. 0 \in Good
  <2>1. Given(0) = {} /\ 1 .. 0 = {}
    BY DEF Given
  <2>2. StockRun[0].holding = {} /\ StockRun[0].out = {}
    BY StockRunIs DEF StockFresh
  <2> QED
    BY <2>1, <2>2
<1>3. ASSUME NEW j \in Nat, j \in Good PROVE j + 1 \in Good
  <2>1. SUFFICES ASSUME j + 1 <= N PROVE As(j + 1)
    OBVIOUS
  <2>2. PICK n : n = j + 1
    OBVIOUS
  <2>3. n \in Nodes /\ n - 1 = j /\ j <= N /\ j \in 0 .. Len(tree.kind) /\ 1 .. n = 1 .. j \cup {n}
        /\ n \notin 1 .. j
    BY <1>1, <2>1, <2>2
  <2>4. PICK h, b, s : h = StockRun[j] /\ b = StockBlock(h, n) /\ s = StockNode(b, n)
    OBVIOUS
  <2>5. h \in ShareStates /\ StockRun[n] = s /\ \A x \in Nodes : h.array[x] = ArrayAt(n - 1, x)
    BY <2>3, <2>4, StockRunIs, ArraysAre
  <2>6. StepHolds(h, n, s)
    BY <2>3, <2>4, <2>5, HoldingStep
  <2>7. /\ h.holding = UNION {GivenArrays(k) : k \in Given(j)}
        /\ h.out = {i \in 1 .. j : Kind(i) = "selfA" /\ ~StockAllows(i)}
    BY <1>3, <2>3, <2>4
  <2>8. Given(n) = IF Gives(n) THEN Given(j) \cup {n} ELSE Given(j)
    BY <2>3 DEF Given
  <2>9. s.holding = UNION {GivenArrays(k) : k \in Given(n)}
    BY <2>6, <2>7, <2>8 DEF StepHolds
  <2>10. (\E x \in {n} \cup ParserOver(n) : Array(x) \in h.holding) <=> StockAllows(n)
    BY <2>3, <2>7 DEF StockAllows
  <2>11. s.out = {i \in 1 .. n : Kind(i) = "selfA" /\ ~StockAllows(i)}
    BY <2>3, <2>6, <2>7, <2>10 DEF StepHolds
  <2> QED
    BY <2>2, <2>5, <2>9, <2>11
<1> HIDE DEF Good
<1>4. \A j \in Nat : j \in Good
  BY <1>2, <1>3, NatSet
<1> QED
  BY <1>1, <1>4 DEF Good

-----------------------------------------------------------------------------
(* The rule's stack of owners, which are those of the prism tree.          *)

\* The rule opens a shared array here: there is none to join.
Starts(w) == w \in Owners /\ Owners \cap Over(w) = {}

\* A def or block above a prism node is above the parser node.
LEMMA PrismOwners ==
    ASSUME tree \in Shapes, NEW n \in Nodes, NEW o \in Owners, o \in Over(n)
    PROVE  o \in OwnersOver(n) /\ o \in Nodes
<1>1. o \in Nodes
  BY DEF Owners
<1>2. o # n /\ Over(n) \subseteq AtOrAbove(n)
  BY AtOrAboveIs
<1>3. o \in AtOrAbove(Start(n))
  BY <1>2, StartIs
<1>4. Start(o) \in AtOrAbove(o)
  BY <1>1, StartIs
<1>5. AtOrAbove(o) \subseteq AtOrAbove(Start(n))
  BY <1>3, StartIs, AtOrAboveIs
<1> QED
  BY <1>1, <1>2, <1>4, <1>5 DEF OwnersOver

\* At or above a node with owners is the one that opened the array.
LEMMA SomeStarts ==
    ASSUME tree \in Shapes, NEW n \in Nodes, Owners \cap AtOrAbove(n) # {}
    PROVE  \E w \in AtOrAbove(n) : Starts(w) /\ w \in Nodes
<1>1. \A x \in AtOrAbove(n) : x \in Nodes /\ x \in Nat /\ AtOrAbove(x) \subseteq AtOrAbove(n)
  BY AtOrAboveIs
<1>2. PICK T : T = Owners \cap AtOrAbove(n)
  OBVIOUS
<1>3. T \subseteq Nat /\ T # {}
  BY <1>1, <1>2
<1>4. PICK w \in T : \A y \in T : w <= y
  BY <1>3, LeastNumber
<1>5. ASSUME NEW y \in Owners \cap Over(w) PROVE FALSE
  <2>1. w \in Nodes /\ w \in Nat /\ y \in Nat /\ y < w
    BY <1>1, <1>2, <1>5, ParentIs, TreeFacts
  <2>2. y \in AtOrAbove(n)
    BY <1>1, <1>2, <1>5, <2>1, AtOrAboveIs
  <2> QED
    BY <1>2, <1>4, <1>5, <2>1, <2>2
<1> QED
  BY <1>1, <1>2, <1>4, <1>5 DEF Starts

\* There is one at most.
LEMMA OneStarts ==
    ASSUME tree \in Shapes, NEW n \in Nodes, NEW v \in AtOrAbove(n), NEW w \in AtOrAbove(n),
           Starts(v), w \in Owners
    PROVE  /\ v = w \/ v \in Over(w)
           /\ Starts(w) => v = w
<1>1. v \in Nodes /\ w \in Nodes /\ v \in Nat /\ w \in Nat
  BY AtOrAboveIs
<1>2. v <= w => v \in AtOrAbove(w)
  BY AtOrAboveIs
<1>3. w <= v => w \in AtOrAbove(v)
  BY AtOrAboveIs
<1>4. /\ v \in AtOrAbove(w) => v = w \/ v \in Over(w)
      /\ w \in AtOrAbove(v) => v = w \/ w \in Over(v)
  BY <1>1, AtOrAboveIs
<1> QED
  BY <1>1, <1>2, <1>3, <1>4 DEF Starts

\* Where a name is given the owners of the parser's node are those of prism's.
LEMMA GiverOwners ==
    ASSUME tree \in Shapes, Apart, NEW k \in Nodes, Gives(k), NEW o \in OwnersOver(k)
    PROVE  o \in Over(k)
<1>1. o \in Nodes /\ o \in Owners /\ o # k /\ Start(o) \in AtOrAbove(Start(k))
  BY DEF OwnersOver, Owners
<1>2. Start(k) \in AtOrAbove(k) /\ AtOrAbove(Start(k)) \subseteq AtOrAbove(k)
  BY StartIs, AtOrAboveIs
<1>3. AtOrAbove(k) = {k} \cup Over(k)
  BY AtOrAboveIs
<1>4. CASE Kind(o) \notin BlockKinds
  <2>1. Start(o) = o
    BY <1>1, <1>4, StartIs
  <2> QED
    BY <1>1, <1>2, <1>3, <2>1
<1>5. CASE Kind(o) \in BlockKinds
  <2>1. Start(o) = CallOf(o) /\ Class(tree, CallOf(o)) = "call" /\ CallOf(o) \in Nodes
    BY <1>1, <1>5, StartIs
  <2>2. CallOf(o) # k
    <3>1. Kind(k) \in Givers \cup BlockKinds \/ Kind(k) = "rescueA"
      BY DEF Gives, Givers, DefKinds, BlockKinds
    <3>2. Class(tree, k) # "call"
      BY <3>1, SelfKindsAre DEF Branches, ClassIndex
    <3> QED
      BY <2>1, <3>2
  <2>3. CallOf(o) \in Over(k)
    BY <1>1, <1>2, <1>3, <2>1, <2>2
  <2>4. SUFFICES ASSUME o \notin AtOrAbove(k) PROVE FALSE
    BY <1>1, <1>3
  <2>5. Kind(k) \notin Writes \cup {"inA", "rescueA", "blockA"}
    BY <1>1, <1>5, <2>3, <2>4, ApartIs
  <2>6. Kind(k) # "defA"
    BY ApartIs DEF DefKinds
  <2>7. PICK j \in Nodes : Kind(j) \in Writes \cup {"rescueA"} /\ k \in Over(j)
    BY <2>5, <2>6 DEF Gives, Writes, Lvasgns
  <2>8. Over(k) \subseteq Over(j) /\ AtOrAbove(j) = {j} \cup Over(j)
    BY <2>7, OverInOver, AtOrAboveIs
  <2>9. o \in AtOrAbove(j)
    BY <1>1, <1>5, <2>3, <2>7, <2>8, ApartIs
  <2>10. o <= k => o \in AtOrAbove(k)
    BY <2>7, <2>8, <2>9, AtOrAboveIs
  <2>11. k <= o => k \in AtOrAbove(o)
    BY <2>7, <2>8, <2>9, AtOrAboveIs
  <2>12. k \in Nat /\ o \in Nat
    BY <1>1, TreeFacts
  <2>13. k \in AtOrAbove(o)
    BY <2>4, <2>10, <2>11, <2>12
  <2>14. k \in Over(o) /\ Over(o) = AtOrAbove(CallOf(o))
    BY <1>1, <1>5, <2>13, AtOrAboveIs, StartIs
  <2>15. k <= CallOf(o) /\ CallOf(o) < k
    BY <2>1, <2>3, <2>14, AtOrAboveIs, ParentIs
  <2> QED
    BY <2>1, <2>12, <2>15, TreeFacts
<1> QED
  BY <1>4, <1>5

\* What opened the array at or above a node with names has no owner above it.
LEMMA StartsFirst ==
    ASSUME tree \in Shapes, Apart, NEW k \in Nodes, Gives(k), NEW w \in AtOrAbove(k), Starts(w)
    PROVE  /\ OwnersOver(w) = {} /\ w \in Nodes
           /\ GivenArrays(k) = {ArrayOf(w)}
<1>1. w \in Nodes /\ w \in Owners /\ AtOrAbove(k) = {k} \cup Over(k)
  BY AtOrAboveIs DEF Starts
<1>2. w # k => w \in OwnersOver(k)
  BY <1>1, PrismOwners
<1>3. ASSUME NEW o \in OwnersOver(w) PROVE FALSE
  <2>1. o \in OwnersOver(k)
    BY <1>1, <1>2, OwnersChain
  <2>2. o \in AtOrAbove(k) /\ o \in Owners /\ o # w
    BY <1>1, <2>1, GiverOwners DEF OwnersOver
  <2>3. w \in Over(o) /\ o \in Nodes
    BY <1>1, <2>2, OneStarts DEF Owners
  <2>4. w \in OwnersOver(o)
    BY <1>1, <2>3, PrismOwners
  <2>5. w \in OwnersOver(w)
    BY <1>1, <2>4, OwnersChain
  <2> QED
    BY <2>5 DEF OwnersOver
<1>4. OwnersOver(w) = {}
  BY <1>3
<1>5. ASSUME NEW x \in Nodes, OwnersOver(x) = OwnersOver(k), w # k PROVE Array(x) = ArrayOf(w)
  BY <1>2, <1>4, <1>5, FirstOwnerIs
<1>6. CASE Kind(k) = "defA"
  <2>1. OwnersOver(k) = {}
    BY <1>6, ApartIs DEF DefKinds
  <2>2. w = k
    BY <1>2, <2>1
  <2> QED
    BY <1>1, <1>4, <1>6, <2>2 DEF GivenArrays, ArrayOf, DefKinds
<1>7. CASE Kind(k) # "defA"
  <2>1. /\ Targets(k) # {}
        /\ \A t \in Targets(k) : Placed(t) \in Nodes /\ OwnersOver(Placed(t)) = OwnersOver(k)
    BY TargetsAre, TargetOwners
  <2>2. ASSUME NEW t \in Targets(k) PROVE Array(Placed(t)) = ArrayOf(w)
    <3>1. CASE w # k
      BY <1>5, <2>1, <2>2, <3>1
    <3>2. CASE w = k
      <4>1. Kind(k) = "blockA"
        BY <1>1, <1>7, <3>2 DEF Owners, OwnerKinds, DefKinds, BlockKinds, Gives, Writes
      <4>2. Placed(t) = k
        BY <1>7, <2>2, <4>1, TargetOwners DEF Writes
      <4> QED
        BY <1>4, <3>2, <4>1, <4>2 DEF Array, ArrayOf, DefKinds
    <3> QED
      BY <3>1, <3>2
  <2>3. GivenArrays(k) = {Array(Placed(t)) : t \in Targets(k)}
    BY <1>7 DEF GivenArrays
  <2> QED
    BY <1>1, <1>4, <2>1, <2>2, <2>3
<1> QED
  BY <1>6, <1>7

\* Of the children of a node above another one leads there.
LEMMA ChildOnPath ==
    ASSUME tree \in Shapes, NEW n \in Nodes, NEW c \in Over(n)
    PROVE  \E d \in AtOrAbove(n) : d \in Nodes /\ d # 1 /\ tree.parent[d] = c
<1> DEFINE S == {j \in Nodes : \A a \in Over(j) :
                                  \E d \in AtOrAbove(j) : d \in Nodes /\ d # 1 /\ tree.parent[d] = a}
<1>1. 1 \in S
  BY ParentIs
<1>2. ASSUME NEW j \in Nodes, j # 1, tree.parent[j] \in S PROVE j \in S
  <2>1. PICK p : p = tree.parent[j] /\ p \in Nodes
    BY <1>2
  <2>2. Over(j) = AtOrAbove(p) /\ AtOrAbove(p) = {p} \cup Over(p) /\ AtOrAbove(j) = {j} \cup Over(j)
    BY <1>2, <2>1, AtOrAboveIs
  <2>3. ASSUME NEW a \in Over(j)
        PROVE  \E d \in AtOrAbove(j) : d \in Nodes /\ d # 1 /\ tree.parent[d] = a
    <3>1. CASE a = p
      BY <1>2, <2>1, <2>2, <3>1
    <3>2. CASE a \in Over(p)
      <4>1. PICK d \in AtOrAbove(p) : d \in Nodes /\ d # 1 /\ tree.parent[d] = a
        BY <1>2, <2>1, <3>2
      <4> QED
        BY <2>2, <4>1
    <3> QED
      BY <2>2, <2>3, <3>1, <3>2
  <2> QED
    BY <2>3
<1> HIDE DEF S
<1>3. n \in S
  BY <1>1, <1>2, TreeInduction
<1> QED
  BY <1>3 DEF S

\* An owner entered before a node that the parser has under it is above the node.
LEMMA EnteredOwner ==
    ASSUME tree \in Shapes, NEW n \in Nodes, NEW w \in OwnersOver(n), w <= n, Kind(n) \notin BlockKinds
    PROVE  w \in Over(n)
<1>1. w \in Nodes /\ w # n /\ Start(w) \in AtOrAbove(n)
  BY StartIs DEF OwnersOver, Owners
<1>2. AtOrAbove(n) = {n} \cup Over(n) /\ \A x \in Nodes : x \in Nat
  BY AtOrAboveIs, TreeFacts
<1>3. CASE Kind(w) \notin BlockKinds
  BY <1>1, <1>2, <1>3, StartIs
<1>4. CASE Kind(w) \in BlockKinds
  <2>1. PICK c : c = CallOf(w)
    OBVIOUS
  <2>2. /\ c \in Nodes /\ c < w /\ Start(w) = c /\ Over(w) = AtOrAbove(c)
        /\ \A k \in Nodes : tree.parent[k] = c => k <= w
    BY <1>1, <1>4, <2>1, StartIs, SelfKindsAre
  <2>3. c \in Over(n)
    <3>1. c # n
      BY <1>1, <1>2, <2>2
    <3> QED
      BY <1>1, <1>2, <2>2, <3>1
  <2>4. PICK d \in AtOrAbove(n) : d \in Nodes /\ d # 1 /\ tree.parent[d] = c
    BY <2>3, ChildOnPath
  <2>5. d <= w /\ c < d
    BY <2>2, <2>4, ParentIs
  <2>6. d \in AtOrAbove(w)
    BY <1>1, <2>4, <2>5, AboveBetween
  <2>7. d # w => d \in Over(w)
    BY <1>1, <2>6, AtOrAboveIs
  <2>8. d \in AtOrAbove(c) => d <= c
    BY <2>2, AtOrAboveIs
  <2>9. d = w
    BY <1>2, <2>2, <2>4, <2>5, <2>7, <2>8
  <2> QED
    BY <1>1, <1>2, <2>4, <2>9
<1> QED
  BY <1>3, <1>4

\* The array of an owner is found just under it.
LEMMA ArrayOfFound ==
    ASSUME tree \in Shapes, NEW n \in Nodes, Kind(n) = "selfA",
           NEW w \in Nodes, w \in Owners, OwnersOver(w) = {}, w <= n
    PROVE  (\E x \in {n} \cup ParserOver(n) : Array(x) = ArrayOf(w)) <=> w \in Over(n)
<1>1. Kind(n) \notin OwnerKinds /\ Kind(n) \notin BlockKinds
  BY DEF OwnerKinds, DefKinds, BlockKinds
<1>2. \A x \in {n} \cup ParserOver(n) : x \in Nodes /\ OwnersOver(x) \subseteq OwnersOver(n)
  BY <1>1, OwnersBegun
<1>3. ASSUME NEW x \in {n} \cup ParserOver(n), Array(x) = ArrayOf(w) PROVE w \in OwnersOver(n)
  <2>1. CASE OwnersOver(x) = {}
    <3>1. x = w
      BY <1>3, <2>1 DEF Array, ArrayOf
    <3>2. w # n
      BY <1>1 DEF Owners
    <3> QED
      BY <3>1, <3>2, OwnersOverAre
  <2>2. CASE OwnersOver(x) # {}
    <3>1. PICK u : u = FirstOwner(x)
      OBVIOUS
    <3>2. Array(x) = ArrayOf(u) /\ u \in OwnersOver(x)
      BY <1>2, <2>2, <3>1, FirstOwnerIs
    <3>3. u = w
      BY <1>3, <3>2 DEF ArrayOf
    <3> QED
      BY <1>2, <3>2, <3>3
  <2> QED
    BY <2>1, <2>2
<1>4. w \in OwnersOver(n) => w \in Over(n)
  BY <1>1, EnteredOwner
<1>5. ASSUME w \in Over(n) PROVE Array(n) = ArrayOf(w)
  <2>1. w \in OwnersOver(n)
    BY <1>5, PrismOwners
  <2>2. FirstOwner(n) = w /\ Array(n) = ArrayOf(FirstOwner(n))
    BY <2>1, FirstOwnerIs
  <2> QED
    BY <2>2
<1> QED
  BY <1>3, <1>4, <1>5

\* The array a node has of its own is found at it and under it.
LEMMA OwnFound ==
    ASSUME tree \in Shapes, NEW n \in Nodes, Kind(n) = "selfA", NEW y \in Nodes, OwnersOver(y) = {}
    PROVE  (\E x \in {n} \cup ParserOver(n) : Array(x) = <<"own", y>>) <=> y \in {n} \cup ParserOver(n)
<1>1. Kind(n) \notin OwnerKinds
  BY DEF OwnerKinds, DefKinds, BlockKinds
<1>2. \A x \in {n} \cup ParserOver(n) : x \in Nodes /\ OwnersOver(x) \subseteq OwnersOver(n)
  BY <1>1, OwnersBegun
<1>3. ASSUME NEW x \in {n} \cup ParserOver(n), Array(x) = <<"own", y>> PROVE y \in {n} \cup ParserOver(n)
  <2>1. CASE OwnersOver(x) = {}
    BY <1>3, <2>1 DEF Array
  <2>2. CASE OwnersOver(x) # {}
    <3>1. PICK u : u = FirstOwner(x)
      OBVIOUS
    <3>2. Array(x) = ArrayOf(u) /\ u \in OwnersOver(x)
      BY <1>2, <2>2, <3>1, FirstOwnerIs
    <3>3. u = y
      BY <1>3, <3>2 DEF ArrayOf
    <3>4. y \in OwnersOver(n)
      BY <1>2, <3>2, <3>3
    <3> QED
      BY <3>4, OwnersOverAre
  <2> QED
    BY <2>1, <2>2
<1>4. Array(y) = <<"own", y>>
  BY DEF Array
<1> QED
  BY <1>3, <1>4

\* What the parser has in the place of a node is above another where the rule
\* has the node on its stack.
LEMMA PlacedOver ==
    ASSUME tree \in Shapes, NEW n \in Nodes, Kind(n) = "selfA",
           NEW t \in Nodes, Kind(t) \notin BlockKinds, Class(tree, t) # "direct"
    PROVE  Placed(t) \in {n} \cup ParserOver(n) <=> t \in {n} \cup (Over(n) \cap Kept(n))
<1>1. /\ DOMAIN tree.kind = Nodes /\ AtOrAbove(n) = {n} \cup Over(n) /\ n \notin Over(n)
      /\ Kind(n) \notin BlockKinds
  BY AtOrAboveIs, TreeFacts DEF BlockKinds
<1>2. CASE BlockOf(t) # {}
  <2>1. PICK b : b = Placed(t)
    OBVIOUS
  <2>2. b \in Nodes /\ Kind(b) \in BlockKinds /\ CallOf(b) = t /\ Class(tree, t) = "call"
    BY <1>2, <2>1, CallBlocksAre
  <2>3. b # n
    BY <1>1, <2>2
  <2>4. b \in ParserOver(n) <=> t \in AtOrAbove(n)
    BY <1>1, <2>2, <2>3 DEF ParserOver, Encloses
  <2>5. t \in Kept(n)
    BY <2>2 DEF Kept, Branches, ClassIndex
  <2> QED
    BY <1>1, <2>1, <2>3, <2>4, <2>5
<1>3. CASE BlockOf(t) = {}
  <2>1. Placed(t) = t
    BY <1>3, CallBlocksAre
  <2>2. t \in ParserOver(n) <=> t \in Over(n) /\ Subsequents(tree, t) \cap AtOrAbove(n) = {}
    BY <1>1, <1>3 DEF ParserOver, Encloses
  <2>3. ASSUME t \in Over(n) PROVE t \in Kept(n) <=> Subsequents(tree, t) \cap AtOrAbove(n) = {}
    <3>1. Class(tree, t) \in Branches \cup {"rescue"}
      <4>1. PICK j \in Nodes : tree.parent[j] = t
        BY <2>3, BelowHasChild
      <4>2. j \in 2 .. Len(tree.kind)
        BY <4>1, TreeFacts
      <4>3. Class(tree, t) # "leaf"
        BY <4>1, <4>2, ShapesAssumption DEF WellFormed
      <4>4. tree.kind[t] \in DOMAIN ClassOf
        BY TreeFacts
      <4> QED
        BY <4>3, <4>4, ClassesAssumption DEF Class
    <3>2. CASE Class(tree, t) \in Branches
      BY <3>2, CallBlocksAre DEF Kept
    <3>3. CASE Class(tree, t) = "rescue"
      <4>1. PICK s : s = Above(tree.parent, n)
        OBVIOUS
      <4>2. Elements(s) = Over(n) /\ DOMAIN s = 1 .. Len(s)
        <5>1. s \in Seq(1 .. n - 1)
          <6>1. IsTree(tree.parent) /\ n \in DOMAIN tree.parent
            BY TreeFacts DEF Nodes
          <6> QED
            BY <4>1, <6>1, AboveIs
        <5> QED
          BY <4>1, <5>1, OverIs
      <4>3. (\E j \in DOMAIN s : s[j] \in Subsequents(tree, t)) <=> Subsequents(tree, t) \cap Over(n) # {}
        BY <4>2 DEF Elements
      <4>4. Class(tree, t) \notin Branches
        BY <3>3 DEF Branches, ClassIndex
      <4>5. t \in Kept(n) <=> /\ n \notin Subsequents(tree, t)
                              /\ ~\E j \in DOMAIN s : s[j] \in Subsequents(tree, t)
        BY <3>3, <4>1, <4>4 DEF Kept
      <4> QED
        BY <1>1, <4>3, <4>5
    <3> QED
      BY <3>1, <3>2, <3>3
  <2> QED
    BY <1>1, <2>1, <2>2, <2>3
<1> QED
  BY <1>2, <1>3

\* Does the rule find the name in the array that is open, or at a node on its
\* stack?
RuleAllows(n) ==
    \E k \in Given(n - 1) :
        \/ \E w \in Over(n) : Starts(w) /\ w \in AtOrAbove(k)
        \/ /\ Owners \cap AtOrAbove(k) = {}
           /\ Targets(k) \cap ({n} \cup (Over(n) \cap Kept(n))) # {}

\* The stack of shared arrays tells what the arrays of the nodes above tell.
LEMMA AllowedAlike ==
    ASSUME tree \in Shapes, Apart, NEW n \in Nodes, Kind(n) = "selfA"
    PROVE  StockAllows(n) <=> RuleAllows(n)
<1> SUFFICES ASSUME NEW k \in Given(n - 1)
             PROVE  (\E x \in {n} \cup ParserOver(n) : Array(x) \in GivenArrays(k))
                    <=> \/ \E w \in Over(n) : Starts(w) /\ w \in AtOrAbove(k)
                        \/ /\ Owners \cap AtOrAbove(k) = {}
                           /\ Targets(k) \cap ({n} \cup (Over(n) \cap Kept(n))) # {}
  BY DEF StockAllows, RuleAllows
<1>1. k \in Nodes /\ k < n /\ k \in Nat /\ n \in Nat /\ Gives(k)
  BY TreeFacts DEF Given
<1>2. AtOrAbove(k) = {k} \cup Over(k)
  BY <1>1, AtOrAboveIs
<1>3. CASE Owners \cap AtOrAbove(k) # {}
  <2>1. PICK w \in AtOrAbove(k) : Starts(w) /\ w \in Nodes
    BY <1>1, <1>3, SomeStarts
  <2>2. OwnersOver(w) = {} /\ GivenArrays(k) = {ArrayOf(w)} /\ w \in Owners
    BY <1>1, <2>1, StartsFirst DEF Starts
  <2>3. w <= n
    <3>1. w <= k /\ w \in Nat
      BY <1>1, <2>1, AtOrAboveIs
    <3> QED
      BY <1>1, <3>1
  <2>4. (\E x \in {n} \cup ParserOver(n) : Array(x) = ArrayOf(w)) <=> w \in Over(n)
    BY <2>1, <2>2, <2>3, ArrayOfFound
  <2>5. \A v \in Over(n) : Starts(v) /\ v \in AtOrAbove(k) => v = w
    BY <1>1, <2>1, <2>2, OneStarts
  <2> QED
    BY <1>3, <2>1, <2>2, <2>4, <2>5
<1>4. CASE Owners \cap AtOrAbove(k) = {}
  <2>1. OwnersOver(k) = {}
    <3>1. \A o \in OwnersOver(k) : o \in Over(k) /\ o \in Owners
      BY <1>1, GiverOwners DEF OwnersOver
    <3> QED
      BY <1>2, <1>4, <3>1
  <2>2. Kind(k) \notin OwnerKinds
    BY <1>1, <1>2, <1>4 DEF Owners
  <2>3. GivenArrays(k) = {Array(Placed(t)) : t \in Targets(k)}
    BY <2>2 DEF GivenArrays, OwnerKinds, DefKinds
  <2>4. ASSUME NEW t \in Targets(k)
        PROVE  /\ t \in Nodes /\ Placed(t) \in Nodes /\ OwnersOver(Placed(t)) = {}
               /\ Array(Placed(t)) = <<"own", Placed(t)>>
               /\ Kind(t) \notin BlockKinds /\ Class(tree, t) # "direct"
    <3>1. /\ t \in Nodes /\ Placed(t) \in Nodes /\ OwnersOver(Placed(t)) = {}
          /\ Class(tree, t) # "direct"
      BY <1>1, <2>1, TargetOwners
    <3>2. Kind(t) \notin BlockKinds
      <4>1. CASE Kind(k) \in Writes \cup {"if"}
        BY <1>1, <2>4, <4>1, TargetsAre DEF Targets
      <4>2. CASE Kind(k) \notin Writes \cup {"if"}
        BY <2>2, <2>4, <4>2 DEF Targets, OwnerKinds
      <4> QED
        BY <4>1, <4>2
    <3> QED
      BY <3>1, <3>2 DEF Array
  <2>5. ASSUME NEW t \in Targets(k)
        PROVE  (\E x \in {n} \cup ParserOver(n) : Array(x) = Array(Placed(t)))
               <=> t \in {n} \cup (Over(n) \cap Kept(n))
    <3>1. (\E x \in {n} \cup ParserOver(n) : Array(x) = <<"own", Placed(t)>>)
          <=> Placed(t) \in {n} \cup ParserOver(n)
      BY <2>4, OwnFound
    <3>2. Placed(t) \in {n} \cup ParserOver(n) <=> t \in {n} \cup (Over(n) \cap Kept(n))
      BY <2>4, PlacedOver
    <3> QED
      BY <2>4, <3>1, <3>2
  <2>6. ~\E w \in Over(n) : Starts(w) /\ w \in AtOrAbove(k)
    BY <1>4 DEF Starts
  <2> QED
    BY <1>4, <2>3, <2>5, <2>6
<1> QED
  BY <1>3, <1>4

-----------------------------------------------------------------------------
(* The rule, node by node.                                                 *)

\* Of a stack the nodes that opened an array: one at most.
Opened(g) == {w \in Elements(g) : Starts(w)}

\* Was the name given under it?
OpenGiven(g, m) == \E k \in Given(m) : Opened(g) \cap AtOrAbove(k) # {}

OwnersFit(o, g, m) ==
    o = IF Opened(g) = {} THEN <<>> ELSE IF OpenGiven(g, m) THEN <<TRUE>> ELSE <<FALSE>>

\* The nodes under no owner that got the name.
NamedAt(m) == UNION {Targets(k) : k \in {j \in Given(m) : Owners \cap AtOrAbove(j) = {}}}

\* Which of the hooked nodes on the stack opened an array.
PushesFit(p, h) == Len(p) = Len(h) /\ \A i \in 1 .. Len(h) : p[i] = TRUE <=> Starts(h[i])

\* The rule when m nodes are entered and those of g are open.
SelfAt(s, g, m) ==
    /\ SelfTyped(s)
    /\ s.above = g /\ PushesFit(s.pushed, Filter(g, BranchNodes))
    /\ OwnersFit(s.owners, g, m) /\ s.named = NamedAt(m)
    /\ s.out = StockRun[m].out

LEMMA OpenedIs ==
    ASSUME tree \in Shapes, NEW n \in Nodes
    PROVE  /\ Opened(ParserAbove(n)) = {w \in Over(n) : Starts(w)}
           /\ Opened(Append(ParserAbove(n), n)) = {w \in AtOrAbove(n) : Starts(w)}
           /\ Opened(ParserAbove(n)) = {} <=> Owners \cap Over(n) = {}
           /\ Opened(Append(ParserAbove(n), n)) = {} <=> Owners \cap AtOrAbove(n) = {}
<1>1. PICK g : g = ParserAbove(n) /\ g \in Seq(Nodes) /\ Elements(g) = Over(n) \cap Kept(n)
  BY ParserOverIs
<1>2. Elements(Append(g, n)) = Elements(g) \cup {n}
  BY <1>1, ElementsAppend
<1>3. AtOrAbove(n) = {n} \cup Over(n)
  BY AtOrAboveIs
<1>4. ASSUME NEW w \in Over(n), w \in Owners PROVE w \in Kept(n)
  <2>1. w \in Nodes /\ Kind(w) \in OwnerKinds
    BY <1>4 DEF Owners
  <2>2. Class(tree, w) \in Branches
    BY <2>1, SelfKindsAre DEF OwnerKinds, Givers
  <2> QED
    BY <2>1, <2>2 DEF Kept
<1>5. \A w : Starts(w) => w \in Owners
  BY DEF Starts
<1>6. Opened(g) = {w \in Over(n) : Starts(w)} /\ Opened(Append(g, n)) = {w \in AtOrAbove(n) : Starts(w)}
  BY <1>1, <1>2, <1>3, <1>4, <1>5 DEF Opened
<1>7. Owners \cap AtOrAbove(n) # {} => \E w \in AtOrAbove(n) : Starts(w)
  BY SomeStarts
<1>8. Owners \cap Over(n) # {} => \E w \in Over(n) : Starts(w)
  <2>1. SUFFICES ASSUME Owners \cap Over(n) # {} PROVE \E w \in Over(n) : Starts(w)
    OBVIOUS
  <2>2. n # 1
    BY <2>1, ParentIs
  <2>3. Over(n) = AtOrAbove(tree.parent[n]) /\ tree.parent[n] \in Nodes
    BY <2>2, AtOrAboveIs, ParentIs
  <2> QED
    BY <2>1, <2>3, SomeStarts
<1> QED
  BY <1>1, <1>5, <1>6, <1>7, <1>8

LEMMA GivenStep ==
    ASSUME tree \in Shapes, NEW n \in Nodes
    PROVE  /\ Given(n) = IF Gives(n) THEN Given(n - 1) \cup {n} ELSE Given(n - 1)
           /\ \A k \in Given(n - 1) : k \in Nodes /\ k < n
<1>1. PICK N \in Nat : Nodes = 1 .. N
  BY TreeFacts
<1>2. n \in 1 .. N /\ 1 .. n = 1 .. n - 1 \cup {n}
  BY <1>1
<1> QED
  BY <1>1, <1>2 DEF Given

\* The stock cop at one node, in the words of the rule.
LEMMA OutStep ==
    ASSUME tree \in Shapes, Apart, NEW n \in Nodes
    PROVE  StockRun[n].out = IF Kind(n) = "selfA" /\ ~RuleAllows(n)
                             THEN StockRun[n - 1].out \cup {n} ELSE StockRun[n - 1].out
<1>1. PICK N \in Nat : Nodes = 1 .. N /\ Len(tree.kind) = N
  BY TreeFacts
<1>2. n \in 0 .. N /\ n - 1 \in 0 .. N /\ 1 .. n = 1 .. n - 1 \cup {n}
  BY <1>1
<1>3. /\ StockRun[n].out = {i \in 1 .. n : Kind(i) = "selfA" /\ ~StockAllows(i)}
      /\ StockRun[n - 1].out = {i \in 1 .. n - 1 : Kind(i) = "selfA" /\ ~StockAllows(i)}
  BY <1>1, <1>2, StockRunAs
<1>4. Kind(n) = "selfA" => (StockAllows(n) <=> RuleAllows(n))
  BY AllowedAlike
<1> QED
  BY <1>2, <1>3, <1>4

\* What the rule asks is whether the name was given.
LEMMA AllowedIs ==
    ASSUME tree \in Shapes, NEW n \in Nodes, NEW t, SelfTyped(t),
           NEW g, g = ParserAbove(n), t.above = g, OwnersFit(t.owners, g, n - 1), t.named = NamedAt(n - 1)
    PROVE  Allowed(t, n) <=> RuleAllows(n)
<1>1. Elements(g) = Over(n) \cap Kept(n) /\ g \in Seq(Nodes)
  BY ParserOverIs
<1>2. {t.above[i] : i \in DOMAIN t.above} = Elements(g)
  BY <1>1 DEF Elements
<1>3. (t.owners # <<>> /\ Last(t.owners)) <=> OpenGiven(g, n - 1)
  <2>1. CASE Opened(g) = {}
    BY <2>1 DEF OwnersFit, OpenGiven
  <2>2. CASE Opened(g) # {} /\ OpenGiven(g, n - 1)
    <3>1. t.owners = <<TRUE>>
      BY <2>2 DEF OwnersFit
    <3>2. Last(<<TRUE>>) = TRUE /\ <<TRUE>> # <<>>
      BY DEF Last
    <3> QED
      BY <2>2, <3>1, <3>2
  <2>3. CASE Opened(g) # {} /\ ~OpenGiven(g, n - 1)
    <3>1. t.owners = <<FALSE>>
      BY <2>3 DEF OwnersFit
    <3>2. Last(<<FALSE>>) = FALSE
      BY DEF Last
    <3> QED
      BY <2>3, <3>1, <3>2
  <2> QED
    BY <2>1, <2>2, <2>3
<1>4. OpenGiven(g, n - 1) <=> \E k \in Given(n - 1) : \E w \in Over(n) : Starts(w) /\ w \in AtOrAbove(k)
  <2>1. Opened(g) = {w \in Over(n) : Starts(w)}
    BY OpenedIs
  <2> QED
    BY <2>1 DEF OpenGiven
<1>5. t.named \cap ({n} \cup Elements(g)) # {}
      <=> \E k \in Given(n - 1) : /\ Owners \cap AtOrAbove(k) = {}
                                  /\ Targets(k) \cap ({n} \cup (Over(n) \cap Kept(n))) # {}
  <2>1. PICK E : E = {n} \cup Elements(g) /\ E = {n} \cup (Over(n) \cap Kept(n))
    BY <1>1
  <2>2. PICK G : G = Given(n - 1)
    OBVIOUS
  <2>3. t.named = UNION {Targets(k) : k \in {j \in G : Owners \cap AtOrAbove(j) = {}}}
    BY <2>2 DEF NamedAt
  <2>4. ASSUME NEW x \in t.named \cap E
        PROVE  \E k \in G : Owners \cap AtOrAbove(k) = {} /\ Targets(k) \cap E # {}
    BY <2>3, <2>4
  <2>5. ASSUME NEW k \in G, Owners \cap AtOrAbove(k) = {}, NEW x \in Targets(k) \cap E
        PROVE  x \in t.named \cap E
    BY <2>3, <2>5
  <2> QED
    BY <2>1, <2>2, <2>4, <2>5
<1>6. Allowed(t, n) <=> \/ t.owners # <<>> /\ Last(t.owners)
                        \/ t.named \cap ({n} \cup {t.above[i] : i \in DOMAIN t.above}) # {}
  BY DEF Allowed
<1> QED
  BY <1>2, <1>3, <1>4, <1>5, <1>6 DEF RuleAllows

\* The fields of the rule's state, one of them anew.
NowHas(s, t, owners, named, out) ==
    /\ SelfTyped(t) /\ t.pushed = s.pushed /\ t.above = s.above
    /\ t.owners = owners /\ t.named = named /\ t.out = out

\* The one place of a sequence set.
LEMMA OnlySet ==
    ASSUME NEW v, NEW w
    PROVE  Len(<<w>>) = 1 /\ [<<w>> EXCEPT ![1] = v] = <<v>>
OBVIOUS

LEMMA OneSet ==
    ASSUME NEW o, o \in {<<TRUE>>, <<FALSE>>}
    PROVE  o \in Seq(BOOLEAN) /\ Len(o) = 1 /\ [o EXCEPT ![Len(o)] = TRUE] = <<TRUE>>
<1>1. PICK v : v = TRUE
  OBVIOUS
<1>2. PICK w : o = <<w>> /\ w \in BOOLEAN
  OBVIOUS
<1>3. o \in Seq(BOOLEAN) /\ Len(o) = 1
  BY <1>2
<1>4. [o EXCEPT ![1] = v] = <<v>>
  BY <1>2, OnlySet
<1> QED
  BY <1>1, <1>3, <1>4

LEMMA AddLocalIs ==
    ASSUME NEW s, SelfTyped(s), NEW ns, ns \subseteq Nodes, ns # {},
           s.owners \in {<<>>, <<TRUE>>, <<FALSE>>}
    PROVE  IF s.owners = <<>> THEN NowHas(s, AddLocal(s, ns), <<>>, s.named \cup ns, s.out)
           ELSE NowHas(s, AddLocal(s, ns), <<TRUE>>, s.named, s.out)
<1>1. SelfTyped(AddLocal(s, ns))
  BY AddLocalTyped
<1>2. CASE s.owners = <<>>
  <2>1. AddLocal(s, ns) = [s EXCEPT !.named = s.named \cup ns]
    BY <1>2 DEF AddLocal
  <2> QED
    BY <1>1, <1>2, <2>1 DEF SelfTyped, NowHas
<1>3. CASE s.owners # <<>>
  <2>1. PICK o : o = s.owners
    OBVIOUS
  <2>2. Len(o) = 1 /\ o \in Seq(BOOLEAN)
    BY <1>3, <2>1, OneSet
  <2>3. PICK v \in BOOLEAN : v = (o[Len(o)] \/ ns # {})
    OBVIOUS
  <2>4. v = TRUE
    BY <2>3, Zenon
  <2>5. PICK q : q = [o EXCEPT ![Len(o)] = v]
    OBVIOUS
  <2>6. AddLocal(s, ns) = [s EXCEPT !.owners = q]
    BY <1>3, <2>1, <2>3, <2>5 DEF AddLocal, SelfTyped
  <2>7. q = <<TRUE>>
    <3>1. q = [o EXCEPT ![Len(o)] = TRUE]
      BY <2>4, <2>5
    <3> QED
      BY <1>3, <2>1, <3>1, OneSet
  <2> QED
    BY <1>1, <1>3, <2>6, <2>7 DEF SelfTyped, NowHas
<1> QED
  BY <1>2, <1>3

\* What a hooked node does with the name.
LEMMA HandleIs ==
    ASSUME tree \in Shapes, Apart, NEW n \in Nodes, Class(tree, n) \in Branches,
           NEW s, SelfTyped(s), s.owners \in {<<>>, <<TRUE>>, <<FALSE>>},
           Kind(n) \in {"defA", "blockA"} => s.owners # <<>>
    PROVE  /\ ~Gives(n) => NowHas(s, Handle(s, n), s.owners, s.named,
                                   IF Kind(n) = "selfA" /\ ~Allowed(s, n) THEN s.out \cup {n} ELSE s.out)
           /\ Gives(n) /\ s.owners = <<>> =>
                 NowHas(s, Handle(s, n), <<>>, s.named \cup Targets(n), s.out)
           /\ Gives(n) /\ s.owners # <<>> => NowHas(s, Handle(s, n), <<TRUE>>, s.named, s.out)
<1>1. PICK u : u = Handle(s, n) /\ SelfTyped(u)
  BY HandleTyped
<1>2. Kind(n) # "rescueA"
  BY SelfKindsAre DEF Branches, ClassIndex
<1>3. CASE Kind(n) = "selfA"
  <2>1. ~Gives(n) /\ Handle(s, n) = ProcessSend(s, n)
    BY <1>3 DEF Handle, Writes, Gives
  <2>2. ProcessSend(s, n) = IF Allowed(s, n) THEN s ELSE [s EXCEPT !.out = s.out \cup {n}]
    BY DEF ProcessSend
  <2> QED
    BY <1>1, <1>3, <2>1, <2>2 DEF SelfTyped, NowHas
<1>4. CASE Kind(n) \in {"defA", "blockA"}
  <2>1. PICK o, q : o = s.owners /\ q = [o EXCEPT ![Len(o)] = TRUE]
    OBVIOUS
  <2>2. o \in {<<TRUE>>, <<FALSE>>}
    BY <1>4, <2>1
  <2>3. q = <<TRUE>>
    BY <2>1, <2>2, OneSet
  <2>4. Handle(s, n) = [s EXCEPT !.owners[Len(s.owners)] = TRUE]
    BY <1>4 DEF Handle, Writes
  <2>5. Handle(s, n) = [s EXCEPT !.owners = q]
    BY <2>1, <2>4 DEF SelfTyped
  <2>6. Gives(n) /\ s.owners # <<>>
    BY <1>4 DEF Gives
  <2> QED
    BY <1>1, <2>3, <2>5, <2>6 DEF SelfTyped, NowHas
<1>5. CASE Gives(n) /\ Kind(n) \in Writes \cup {"if", "inA"}
  <2>1. Targets(n) \subseteq Nodes /\ Targets(n) # {}
    BY <1>5, TargetsAre
  <2>2. Handle(s, n) = AddLocal(s, Targets(n))
    <3>1. CASE Kind(n) \in Writes
      BY <1>5, <3>1 DEF Handle, Writes, AddLhs, Targets
    <3>2. CASE Kind(n) = "if"
      <4>1. Handle(s, n) = Shadow(s, n)
        BY <3>2 DEF Handle, Writes
      <4>2. PICK k \in Nodes : Kind(k) \in Collected /\ n \in Over(k)
        BY <1>5, <3>2, ApartIs DEF Gives, Writes
      <4>3. k \in Below(tree.parent, n)
        BY <4>2, TreeFacts DEF Below, Over, Nodes
      <4> QED
        BY <3>2, <4>1, <4>2, <4>3 DEF Shadow, AddLhs, Targets
    <3>3. CASE Kind(n) = "inA"
      BY <3>3 DEF Handle, Writes, Targets
    <3> QED
      BY <1>5, <3>1, <3>2, <3>3
  <2> QED
    BY <1>5, <2>1, <2>2, AddLocalIs
<1>6. CASE ~Gives(n) /\ Kind(n) # "selfA"
  <2>1. Handle(s, n) = s
    <3>1. CASE Kind(n) = "if"
      <4>1. \A k \in Below(tree.parent, n) : Kind(k) \notin Collected
        <5>1. \A k \in Nodes : ~(Kind(k) \in Collected /\ n \in Over(k))
          BY <1>6, <3>1, ApartIs DEF Gives
        <5> QED
          BY <5>1, TreeFacts DEF Below, Over, Nodes
      <4>2. Handle(s, n) = Shadow(s, n)
        BY <3>1 DEF Handle, Writes
      <4> QED
        BY <4>1, <4>2 DEF Shadow
    <3>2. CASE Kind(n) # "if"
      BY <1>6, <3>2 DEF Handle, Gives
    <3> QED
      BY <3>1, <3>2
  <2> QED
    BY <1>6, <2>1 DEF NowHas
<1> QED
  BY <1>2, <1>3, <1>4, <1>5, <1>6 DEF Gives

\* Whom it is given to, when one more node is entered.
LEMMA NamedStep ==
    ASSUME tree \in Shapes, NEW n \in Nodes, NEW g, g = Append(ParserAbove(n), n)
    PROVE  /\ ~Gives(n) => NamedAt(n) = NamedAt(n - 1)
           /\ Gives(n) /\ Opened(g) = {} => NamedAt(n) = NamedAt(n - 1) \cup Targets(n)
           /\ Gives(n) /\ Opened(g) # {} => NamedAt(n) = NamedAt(n - 1)
           /\ ~Gives(n) => (OpenGiven(g, n) <=> OpenGiven(g, n - 1))
           /\ Gives(n) /\ Opened(g) # {} => OpenGiven(g, n)
<1>1. Given(n) = IF Gives(n) THEN Given(n - 1) \cup {n} ELSE Given(n - 1)
  BY GivenStep
<1>2. Opened(g) = {} <=> Owners \cap AtOrAbove(n) = {}
  BY OpenedIs
<1>3. Opened(g) \subseteq AtOrAbove(n)
  BY OpenedIs
<1> QED
  BY <1>1, <1>2, <1>3 DEF NamedAt, OpenGiven

\* A hooked node opens a shared array if there is none to join.
LEMMA PushesIs ==
    ASSUME tree \in Shapes, Apart, NEW n \in Nodes, NEW s, SelfAt(s, ParserAbove(n), n - 1)
    PROVE  PushesOwner(s, n) <=> Starts(n)
<1>1. s.owners = <<>> <=> Opened(ParserAbove(n)) = {}
  BY DEF SelfAt, OwnersFit
<1>2. Opened(ParserAbove(n)) = {} <=> Owners \cap Over(n) = {}
  BY OpenedIs
<1>3. Kind(n) \in DefKinds => Owners \cap Over(n) = {}
  <2>1. Kind(n) \in DefKinds => OwnersOver(n) = {}
    BY ApartIs
  <2>2. \A o \in Owners \cap Over(n) : o \in OwnersOver(n)
    BY PrismOwners
  <2> QED
    BY <2>1, <2>2
<1> QED
  BY <1>1, <1>2, <1>3 DEF PushesOwner, Starts, Owners, OwnerKinds

\* Who has opened the arrays when one more node is open.
LEMMA OpenedStep ==
    ASSUME tree \in Shapes, NEW n \in Nodes, NEW g0, g0 = ParserAbove(n), NEW g, g = Append(g0, n)
    PROVE  /\ Starts(n) => /\ Opened(g0) = {} /\ Opened(g) = {n}
                           /\ ~OpenGiven(g, n - 1)
           /\ ~Starts(n) => Opened(g) = Opened(g0)
           /\ n \in Owners => Opened(g) # {}
<1>1. /\ Opened(g0) = {w \in Over(n) : Starts(w)} /\ Opened(g) = {w \in AtOrAbove(n) : Starts(w)}
      /\ Opened(g0) = {} <=> Owners \cap Over(n) = {}
      /\ Opened(g) = {} <=> Owners \cap AtOrAbove(n) = {}
  BY OpenedIs
<1>2. AtOrAbove(n) = {n} \cup Over(n) /\ n \in Nat
  BY AtOrAboveIs, TreeFacts
<1>3. ASSUME Starts(n) PROVE Opened(g0) = {} /\ Opened(g) = {n}
  BY <1>1, <1>2, <1>3 DEF Starts
<1>4. ASSUME Starts(n) PROVE ~OpenGiven(g, n - 1)
  <2>1. SUFFICES ASSUME NEW k \in Given(n - 1), n \in AtOrAbove(k) PROVE FALSE
    BY <1>3, <1>4 DEF OpenGiven
  <2>2. k \in Nodes /\ k < n /\ k \in Nat
    BY GivenStep, TreeFacts
  <2>3. n <= k
    BY <2>1, <2>2, AtOrAboveIs
  <2> QED
    BY <1>2, <2>2, <2>3
<1> QED
  BY <1>1, <1>2, <1>3, <1>4

\* A hooked node is entered.
LEMMA SelfEnteredAs ==
    ASSUME tree \in Shapes, Apart, NEW n \in Nodes, n \in BranchNodes,
           NEW s, SelfAt(s, ParserAbove(n), n - 1), NEW t, NEW pushes,
           pushes = PushesOwner(s, n),
           t = [s EXCEPT !.pushed = Append(@, pushes),
                         !.owners = IF pushes THEN Append(@, FALSE) ELSE @]
    PROVE  SelfAt([Handle(t, n) EXCEPT !.above = Append(@, n)], Append(ParserAbove(n), n), n)
<1>1. PICK g0, g : g0 = ParserAbove(n) /\ g = Append(g0, n)
  OBVIOUS
<1>2. /\ SelfTyped(s) /\ s.above = g0 /\ PushesFit(s.pushed, Hooked(n))
      /\ OwnersFit(s.owners, g0, n - 1) /\ s.named = NamedAt(n - 1)
      /\ s.out = StockRun[n - 1].out
  BY <1>1 DEF SelfAt, Hooked
<1>3. pushes \in BOOLEAN /\ (pushes = TRUE <=> Starts(n))
  BY PushesIs DEF PushesOwner
<1>4. PICK o, p : /\ o = IF Starts(n) THEN <<FALSE>> ELSE s.owners
                  /\ p = Append(s.pushed, pushes)
  OBVIOUS
<1>5. /\ Starts(n) => Opened(g0) = {} /\ Opened(g) = {n} /\ ~OpenGiven(g, n - 1)
      /\ ~Starts(n) => Opened(g) = Opened(g0)
      /\ n \in Owners => Opened(g) # {}
  BY <1>1, OpenedStep
<1>6. OwnersFit(o, g, n - 1)
  BY <1>2, <1>4, <1>5 DEF OwnersFit, OpenGiven
<1>7. t = [s EXCEPT !.pushed = p, !.owners = o]
  <2>1. CASE Starts(n)
    <3>1. s.owners = <<>>
      BY <1>2, <1>5, <2>1 DEF OwnersFit
    <3>2. Append(<<>>, FALSE) = <<FALSE>>
      OBVIOUS
    <3> QED
      BY <1>3, <1>4, <2>1, <3>1, <3>2
  <2>2. CASE ~Starts(n)
    BY <1>3, <1>4, <2>2
  <2> QED
    BY <2>1, <2>2
<1>8. p \in Seq(BOOLEAN) /\ s.pushed \in Seq(BOOLEAN) /\ s.owners \in Seq(BOOLEAN)
  <2>1. s.pushed \in Seq(BOOLEAN) /\ s.owners \in Seq(BOOLEAN)
    BY <1>2 DEF SelfTyped
  <2> QED
    BY <1>3, <1>4, <2>1, AppendType
<1>9. SelfTyped(t) /\ t.owners = o /\ t.pushed = p /\ t.named = s.named /\ t.above = g0 /\ t.out = s.out
  <2>1. o \in Seq(BOOLEAN)
    <3>1. <<FALSE>> \in Seq(BOOLEAN)
      OBVIOUS
    <3> QED
      BY <1>4, <1>8, <3>1
  <2> QED
    BY <1>2, <1>7, <1>8, <2>1 DEF SelfTyped
<1>10. t.owners \in {<<>>, <<TRUE>>, <<FALSE>>} /\ (t.owners = <<>> <=> Opened(g) = {})
  <2>1. <<TRUE>> # <<>> /\ <<FALSE>> # <<>>
    OBVIOUS
  <2>2. CASE Opened(g) = {}
    BY <1>6, <1>9, <2>2 DEF OwnersFit
  <2>3. CASE Opened(g) # {} /\ OpenGiven(g, n - 1)
    BY <1>6, <1>9, <2>1, <2>3 DEF OwnersFit
  <2>4. CASE Opened(g) # {} /\ ~OpenGiven(g, n - 1)
    BY <1>6, <1>9, <2>1, <2>4 DEF OwnersFit
  <2> QED
    BY <2>2, <2>3, <2>4
<1>11. Kind(n) \in {"defA", "blockA"} => t.owners # <<>>
  BY <1>5, <1>10 DEF Owners, OwnerKinds, DefKinds, BlockKinds
<1>12. PICK u : u = Handle(t, n)
  OBVIOUS
<1>13. Class(tree, n) \in Branches
  BY DEF BranchNodes
<1>14. /\ ~Gives(n) => NowHas(t, u, t.owners, t.named,
                              IF Kind(n) = "selfA" /\ ~Allowed(t, n) THEN t.out \cup {n} ELSE t.out)
       /\ Gives(n) /\ t.owners = <<>> => NowHas(t, u, <<>>, t.named \cup Targets(n), t.out)
       /\ Gives(n) /\ t.owners # <<>> => NowHas(t, u, <<TRUE>>, t.named, t.out)
  BY <1>9, <1>10, <1>11, <1>12, <1>13, HandleIs
<1>15. SelfTyped(u) /\ u.pushed = p /\ u.above = g0
  BY <1>9, <1>14 DEF NowHas
<1>16. OwnersFit(u.owners, g, n) /\ u.named = NamedAt(n)
  <2>1. /\ ~Gives(n) => NamedAt(n) = NamedAt(n - 1)
        /\ Gives(n) /\ Opened(g) = {} => NamedAt(n) = NamedAt(n - 1) \cup Targets(n)
        /\ Gives(n) /\ Opened(g) # {} => NamedAt(n) = NamedAt(n - 1)
        /\ ~Gives(n) => (OpenGiven(g, n) <=> OpenGiven(g, n - 1))
        /\ Gives(n) /\ Opened(g) # {} => OpenGiven(g, n)
    BY <1>1, NamedStep
  <2>2. CASE ~Gives(n)
    BY <1>2, <1>6, <1>9, <1>14, <2>1, <2>2 DEF NowHas, OwnersFit
  <2>3. CASE Gives(n)
    BY <1>2, <1>9, <1>10, <1>14, <2>1, <2>3 DEF NowHas, OwnersFit
  <2> QED
    BY <2>2, <2>3
<1>17. u.out = StockRun[n].out
  <2>1. StockRun[n].out = IF Kind(n) = "selfA" /\ ~RuleAllows(n)
                          THEN StockRun[n - 1].out \cup {n} ELSE StockRun[n - 1].out
    BY OutStep
  <2>2. CASE Kind(n) = "selfA"
    <3>1. ~Gives(n) /\ ~Starts(n)
      BY <2>2 DEF Gives, Writes, Starts, Owners, OwnerKinds, DefKinds, BlockKinds
    <3>2. Allowed(t, n) <=> RuleAllows(n)
      BY <1>1, <1>2, <1>4, <1>9, <3>1, AllowedIs
    <3> QED
      BY <1>2, <1>9, <1>14, <2>1, <2>2, <3>1, <3>2 DEF NowHas
  <2>3. CASE Kind(n) # "selfA"
    BY <1>2, <1>9, <1>14, <2>1, <2>3 DEF NowHas
  <2> QED
    BY <2>2, <2>3
<1>18. PICK r : r = [u EXCEPT !.above = Append(@, n)]
  OBVIOUS
<1>19. SelfTyped(r)
  BY <1>2, <1>12, <1>18, SelfEntered
<1>20. r.above = g /\ r.owners = u.owners /\ r.pushed = p /\ r.named = u.named /\ r.out = u.out
  BY <1>1, <1>15, <1>18 DEF SelfTyped
<1>21. PushesFit(p, Append(Hooked(n), n))
  <2>1. PICK h, q : h = Hooked(n) /\ h \in Seq(Nodes) /\ q = s.pushed
    BY HookedIs
  <2>2. /\ Len(q) = Len(h) /\ q \in Seq(BOOLEAN) /\ p = Append(q, pushes)
        /\ \A i \in 1 .. Len(h) : q[i] = TRUE <=> Starts(h[i])
    BY <1>2, <1>4, <1>8, <2>1 DEF PushesFit
  <2>3. /\ Len(p) = Len(q) + 1 /\ p[Len(q) + 1] = pushes /\ \A i \in 1 .. Len(q) : p[i] = q[i]
        /\ Len(q) \in Nat
    BY <1>3, <2>2, AppendAt
  <2>4. /\ Len(Append(h, n)) = Len(h) + 1 /\ Append(h, n)[Len(h) + 1] = n
        /\ \A i \in 1 .. Len(h) : Append(h, n)[i] = h[i]
    BY <2>1, AppendAt
  <2>5. 1 .. Len(h) + 1 = 1 .. Len(h) \cup {Len(h) + 1}
    BY <2>2, <2>3
  <2> QED
    BY <1>3, <2>1, <2>2, <2>3, <2>4, <2>5 DEF PushesFit
<1>22. Filter(g, BranchNodes) = Append(Hooked(n), n)
  BY <1>1, HookedWith
<1> QED
  BY <1>1, <1>12, <1>16, <1>17, <1>18, <1>19, <1>20, <1>21, <1>22 DEF SelfAt

\* The last is taken off.
LEMMA FrontOfAppend ==
    ASSUME NEW S, NEW s \in Seq(S), NEW e \in S
    PROVE  Front(Append(s, e)) = s
BY DEF Front

LEMMA FrontIs ==
    ASSUME NEW S, NEW s \in Seq(S), s # <<>>
    PROVE  /\ Len(s) \in Nat \ {0} /\ Len(Front(s)) = Len(s) - 1 /\ Last(s) = s[Len(s)]
           /\ \A i \in 1 .. Len(s) - 1 : Front(s)[i] = s[i]
<1>1. PICK k : k = Len(s) /\ k \in Nat \ {0} /\ DOMAIN s = 1 .. k
  OBVIOUS
<1>2. Front(s) = SubSeq(s, 1, k - 1)
  BY <1>1 DEF Front
<1>3. SubSeq(s, 1, k - 1) = [i \in 1 .. k - 1 |-> s[i]] /\ Len(SubSeq(s, 1, k - 1)) = k - 1
  BY <1>1
<1>4. Last(s) = s[Len(s)]
  BY DEF Last
<1> QED
  BY <1>1, <1>2, <1>3, <1>4

LEMMA FrontOfOne ==
    ASSUME NEW o, o \in {<<TRUE>>, <<FALSE>>}
    PROVE  Front(o) = <<>>
<1>1. PICK w : o = <<w>> /\ w \in BOOLEAN
  OBVIOUS
<1>2. <<>> \in Seq(BOOLEAN) /\ o = Append(<<>>, w)
  BY <1>1
<1> QED
  BY <1>1, <1>2, FrontOfAppend

\* A hooked node is left.
LEMMA SelfLeftAs ==
    ASSUME tree \in Shapes, NEW n \in Nodes, n \in BranchNodes, NEW m,
           NEW s, SelfAt(s, Append(ParserAbove(n), n), m), NEW r, SelfTyped(r),
           r = [s EXCEPT !.above = Front(@), !.pushed = Front(@),
                         !.owners = IF Last(s.pushed) THEN Front(@) ELSE @]
    PROVE  SelfAt(r, ParserAbove(n), m)
<1>1. PICK g0, g, p : g0 = ParserAbove(n) /\ g = Append(g0, n) /\ p = s.pushed
  OBVIOUS
<1>2. PICK h : h = Hooked(n) /\ h \in Seq(Nodes)
  BY HookedIs
<1>3. Filter(g, BranchNodes) = Append(h, n) /\ Filter(g0, BranchNodes) = h
  BY <1>1, <1>2, HookedWith DEF Hooked
<1>4. /\ SelfTyped(s) /\ s.above = g /\ PushesFit(p, Append(h, n))
      /\ OwnersFit(s.owners, g, m) /\ s.named = NamedAt(m)
      /\ s.out = StockRun[m].out
  BY <1>1, <1>3 DEF SelfAt
<1>5. p \in Seq(BOOLEAN) /\ g0 \in Seq(Nodes) /\ Front(g) = g0
  <2>1. p \in Seq(BOOLEAN)
    BY <1>1, <1>4 DEF SelfTyped
  <2>2. g0 \in Seq(Nodes)
    BY <1>1, ParserAboveType
  <2> QED
    BY <1>1, <2>1, <2>2, FrontOfAppend
<1>6. /\ Len(h) \in Nat /\ Len(Append(h, n)) = Len(h) + 1 /\ Append(h, n)[Len(h) + 1] = n
      /\ \A i \in 1 .. Len(h) : Append(h, n)[i] = h[i]
  BY <1>2, AppendAt
<1>7. Len(p) = Len(h) + 1 /\ p # <<>>
  BY <1>4, <1>6 DEF PushesFit
<1>8. /\ Len(Front(p)) = Len(h) /\ Last(p) = p[Len(h) + 1]
      /\ \A i \in 1 .. Len(h) : Front(p)[i] = p[i]
  <2>1. /\ Len(Front(p)) = Len(p) - 1 /\ Last(p) = p[Len(p)]
        /\ \A i \in 1 .. Len(p) - 1 : Front(p)[i] = p[i]
    BY <1>5, <1>7, FrontIs
  <2>2. Len(p) - 1 = Len(h)
    BY <1>6, <1>7
  <2> QED
    BY <1>7, <2>1, <2>2
<1>9. /\ Last(p) = TRUE <=> Starts(n)
      /\ \A i \in 1 .. Len(h) : p[i] = TRUE <=> Starts(h[i])
  <2>1. \A i \in 1 .. Len(h) + 1 : p[i] = TRUE <=> Starts(Append(h, n)[i])
    BY <1>4, <1>6 DEF PushesFit
  <2>2. Len(h) + 1 \in 1 .. Len(h) + 1 /\ \A i \in 1 .. Len(h) : i \in 1 .. Len(h) + 1
    BY <1>6
  <2> QED
    BY <1>6, <1>8, <2>1, <2>2
<1>10. PushesFit(Front(p), h)
  BY <1>8, <1>9 DEF PushesFit
<1>11. Last(p) \in BOOLEAN
  <2>1. Len(h) + 1 \in 1 .. Len(p)
    BY <1>6, <1>7
  <2> QED
    BY <1>5, <1>8, <2>1
<1>12. PICK o : o = IF Last(p) THEN Front(s.owners) ELSE s.owners
  OBVIOUS
<1>13. OwnersFit(o, g0, m)
  <2>1. CASE Starts(n)
    <3>1. Opened(g0) = {} /\ Opened(g) # {}
      <4>1. Opened(g0) = {} /\ Opened(g) = {n}
        BY <1>1, <2>1, OpenedStep
      <4>2. {n} # {}
        OBVIOUS
      <4> QED
        BY <4>1, <4>2
    <3>2. s.owners \in {<<TRUE>>, <<FALSE>>}
      BY <1>4, <3>1 DEF OwnersFit
    <3>3. o = <<>>
      BY <1>9, <1>12, <2>1, <3>2, FrontOfOne
    <3> QED
      BY <3>1, <3>3 DEF OwnersFit
  <2>2. CASE ~Starts(n)
    <3>1. Opened(g) = Opened(g0)
      BY <1>1, <2>2, OpenedStep
    <3>2. o = s.owners
      BY <1>9, <1>11, <1>12, <2>2
    <3> QED
      BY <1>4, <3>1, <3>2 DEF OwnersFit, OpenGiven
  <2> QED
    BY <2>1, <2>2
<1>14. /\ r.above = g0 /\ r.pushed = Front(p) /\ r.owners = o
       /\ r.named = s.named /\ r.out = s.out
  BY <1>1, <1>4, <1>5, <1>12 DEF SelfTyped
<1> QED
  BY <1>1, <1>3, <1>4, <1>10, <1>13, <1>14 DEF SelfAt

\* A node that is not hooked opens no array and asks for nothing; a clause may
\* have a name.
LEMMA NotHooked ==
    ASSUME tree \in Shapes, Apart, NEW n \in Nodes, n \notin BranchNodes
    PROVE  /\ ~Starts(n) /\ (Gives(n) <=> Kind(n) = "rescueA") /\ (Gives(n) => Targets(n) = {n})
           /\ StockRun[n].out = StockRun[n - 1].out
<1>1. Class(tree, n) \notin Branches
  BY DEF BranchNodes
<1>2. /\ ~Starts(n) /\ Kind(n) # "selfA"
      /\ Kind(n) \notin Givers
      /\ Kind(n) # "blockA"
  BY <1>1, SelfKindsAre DEF Starts, Owners, OwnerKinds, DefKinds, BlockKinds, Branches, ClassIndex, CallKinds, Givers
<1>3. Gives(n) <=> Kind(n) = "rescueA"
  BY <1>2 DEF Gives, Givers, DefKinds, Writes
<1>4. Gives(n) => Targets(n) = {n}
  BY <1>3 DEF Targets, Writes
<1> QED
  BY <1>2, <1>3, <1>4, OutStep

\* A leaf, and a node the hooks do not see.
LEMMA SelfSkipped ==
    ASSUME tree \in Shapes, Apart, NEW n \in Nodes, n \notin BranchNodes, Kind(n) # "rescueA",
           NEW s, SelfAt(s, ParserAbove(n), n - 1)
    PROVE  SelfAt(s, ParserAbove(n), n)
<1>1. ~Gives(n) /\ StockRun[n].out = StockRun[n - 1].out
  BY NotHooked
<1>2. Given(n) = Given(n - 1)
  BY <1>1, GivenStep
<1> QED
  BY <1>1, <1>2 DEF SelfAt, OwnersFit, OpenGiven, NamedAt

\* A clause is entered.
LEMMA SelfClauseAs ==
    ASSUME tree \in Shapes, Apart, NEW n \in Nodes, n \notin BranchNodes,
           NEW s, SelfAt(s, ParserAbove(n), n - 1),
           NEW t, t = (IF Kind(n) = "rescueA" THEN AddLocal(s, {n}) ELSE s),
           NEW r, r = [t EXCEPT !.above = Append(@, n)], SelfTyped(r)
    PROVE  SelfAt(r, Append(ParserAbove(n), n), n)
<1>1. PICK g0, g : g0 = ParserAbove(n) /\ g = Append(g0, n)
  OBVIOUS
<1>2. /\ SelfTyped(s) /\ s.above = g0 /\ PushesFit(s.pushed, Filter(g0, BranchNodes))
      /\ OwnersFit(s.owners, g0, n - 1) /\ s.named = NamedAt(n - 1)
      /\ s.out = StockRun[n - 1].out
  BY <1>1 DEF SelfAt
<1>3. /\ ~Starts(n) /\ (Gives(n) <=> Kind(n) = "rescueA") /\ (Gives(n) => Targets(n) = {n})
      /\ StockRun[n].out = StockRun[n - 1].out
  BY NotHooked
<1>4. Opened(g) = Opened(g0)
  BY <1>1, <1>3, OpenedStep
<1>5. OwnersFit(s.owners, g, n - 1)
  BY <1>2, <1>4 DEF OwnersFit, OpenGiven
<1>6. s.owners \in {<<>>, <<TRUE>>, <<FALSE>>} /\ (s.owners = <<>> <=> Opened(g) = {})
  <2>1. <<TRUE>> # <<>> /\ <<FALSE>> # <<>>
    OBVIOUS
  <2>2. CASE Opened(g) = {}
    BY <1>5, <2>2 DEF OwnersFit
  <2>3. CASE Opened(g) # {} /\ OpenGiven(g, n - 1)
    BY <1>5, <2>1, <2>3 DEF OwnersFit
  <2>4. CASE Opened(g) # {} /\ ~OpenGiven(g, n - 1)
    BY <1>5, <2>1, <2>4 DEF OwnersFit
  <2> QED
    BY <2>2, <2>3, <2>4
<1>7. /\ ~Gives(n) => NowHas(s, t, s.owners, s.named, s.out)
      /\ Gives(n) /\ s.owners = <<>> => NowHas(s, t, <<>>, s.named \cup Targets(n), s.out)
      /\ Gives(n) /\ s.owners # <<>> => NowHas(s, t, <<TRUE>>, s.named, s.out)
  <2>1. CASE Gives(n)
    BY <1>2, <1>3, <1>6, <2>1, AddLocalIs
  <2>2. CASE ~Gives(n)
    BY <1>2, <1>3, <2>2 DEF NowHas
  <2> QED
    BY <2>1, <2>2
<1>8. SelfTyped(t) /\ t.above = g0 /\ t.pushed = s.pushed /\ t.out = s.out
  BY <1>2, <1>7 DEF NowHas
<1>9. OwnersFit(t.owners, g, n) /\ t.named = NamedAt(n)
  <2>1. /\ ~Gives(n) => NamedAt(n) = NamedAt(n - 1)
        /\ Gives(n) /\ Opened(g) = {} => NamedAt(n) = NamedAt(n - 1) \cup Targets(n)
        /\ Gives(n) /\ Opened(g) # {} => NamedAt(n) = NamedAt(n - 1)
        /\ ~Gives(n) => (OpenGiven(g, n) <=> OpenGiven(g, n - 1))
        /\ Gives(n) /\ Opened(g) # {} => OpenGiven(g, n)
    BY <1>1, NamedStep
  <2>2. CASE ~Gives(n)
    BY <1>2, <1>5, <1>7, <2>1, <2>2 DEF NowHas, OwnersFit
  <2>3. CASE Gives(n)
    BY <1>2, <1>6, <1>7, <2>1, <2>3 DEF NowHas, OwnersFit
  <2> QED
    BY <2>2, <2>3
<1>10. /\ r.above = g /\ r.pushed = s.pushed /\ r.owners = t.owners
       /\ r.named = t.named /\ r.out = s.out
  BY <1>1, <1>8 DEF SelfTyped
<1>11. Filter(g, BranchNodes) = Filter(g0, BranchNodes)
  BY <1>1, HookedWith DEF Hooked
<1> QED
  BY <1>1, <1>2, <1>3, <1>9, <1>10, <1>11 DEF SelfAt

\* While the tree stays, the stock cop flags the same.
LEMMA SameStockRun ==
    ASSUME tree' = tree
    PROVE  /\ StockRun' = StockRun /\ (Apart' <=> Apart)
           /\ \A s, g, m : SelfAt(s, g, m)' = SelfAt(s, g, m)
<1>1. /\ \A n : Kind(n)' = Kind(n) /\ First(n)' = First(n) /\ BlockOf(n)' = BlockOf(n)
      /\ \A n : CallOf(n)' = CallOf(n) /\ AtOrAbove(n)' = AtOrAbove(n)
      /\ Nodes' = Nodes
  <2>1. \A n : Kind(n)' = Kind(n)
    BY DEF Kind
  <2>2. \A n : First(n)' = First(n)
    BY DEF First
  <2>3. \A n : BlockOf(n)' = BlockOf(n)
    BY <2>1 DEF BlockOf
  <2>4. \A n : CallOf(n)' = CallOf(n) /\ AtOrAbove(n)' = AtOrAbove(n)
    BY DEF CallOf, AtOrAbove
  <2>5. Nodes' = Nodes
    BY DEF Nodes
  <2> QED
    BY <2>1, <2>2, <2>3, <2>4, <2>5
<1>2. \A n : Parts(n)' = Parts(n) /\ Placed(n)' = Placed(n)
  <2>1. \A n : Parts(n)' = Parts(n)
    BY <1>1 DEF Parts
  <2>2. ASSUME NEW n PROVE Placed(n)' = Placed(n)
    <3>1. BlockOf(n)' = BlockOf(n)
      BY <1>1
    <3> QED
      BY <3>1 DEF Placed
  <2> QED
    BY <2>1, <2>2
<1>3. \A n : Arguments(n)' = Arguments(n)
  BY <1>1, <1>2 DEF Arguments
<1>4. \A k, n : Encloses(k, n)' = Encloses(k, n)
  BY <1>1 DEF Encloses
<1>5. \A n : ParserOver(n)' = ParserOver(n) /\ ParserUnder(n)' = ParserUnder(n)
  BY <1>4 DEF ParserOver, ParserUnder
<1>6. \A h, n, a : Share(h, n, a)' = Share(h, n, a)
  BY <1>5 DEF Share
<1>7. \A h, n : GiveLhs(h, n)' = GiveLhs(h, n)
  BY <1>1, <1>2, <1>3 DEF GiveLhs, Give
<1>8. \A h, n : StockDef(h, n)' = StockDef(h, n) /\ StockBlock(h, n)' = StockBlock(h, n)
  BY <1>1, <1>2, <1>6 DEF StockDef, StockBlock
<1>9. \A h, n : StockSend(h, n)' = StockSend(h, n)
  BY <1>5 DEF StockSend
<1>10. \A h, n : StockNode(h, n)' = StockNode(h, n)
  BY <1>1, <1>5, <1>7, <1>8, <1>9 DEF StockNode, Give
<1>11. StockFresh' = StockFresh
  BY DEF StockFresh
<1>12. StockRun' = StockRun
  BY <1>8, <1>10, <1>11 DEF StockRun
<1>13. Apart' <=> Apart
  BY <1>1, <1>3, <1>5 DEF Apart, DefInOwner, GivenApart, GivenBeforeBlock, ShadowedApart
<1>14. BranchNodes' = BranchNodes
  BY <1>1 DEF BranchNodes, Class
<1>15. Owners' = Owners /\ \A n : Starts(n)' = Starts(n)
  BY <1>1 DEF Owners, Starts, Over
<1>16. \A n : Gives(n)' = Gives(n) /\ Targets(n)' = Targets(n)
  BY <1>1, <1>3 DEF Gives, Targets, Over
<1>17. /\ \A m : Given(m)' = Given(m) /\ NamedAt(m)' = NamedAt(m)
       /\ \A g : Opened(g)' = Opened(g)
  BY <1>1, <1>15, <1>16 DEF Given, NamedAt, Opened, Elements
<1>18. \A o, g, m : OwnersFit(o, g, m)' = OwnersFit(o, g, m)
  BY <1>1, <1>17 DEF OwnersFit, OpenGiven
<1>19. \A p, h : PushesFit(p, h)' = PushesFit(p, h)
  BY <1>15 DEF PushesFit
<1>20. \A s : SelfTyped(s)' = SelfTyped(s)
  BY <1>1 DEF SelfTyped
<1>21. \A s, g, m : SelfAt(s, g, m)' = SelfAt(s, g, m)
  BY <1>12, <1>14, <1>17, <1>18, <1>19, <1>20 DEF SelfAt
<1> QED
  BY <1>12, <1>13, <1>21

\* A clause is left.
LEMMA SelfClauseLeft ==
    ASSUME tree \in Shapes, NEW n \in Nodes, n \notin BranchNodes, NEW m,
           NEW s, SelfAt(s, Append(ParserAbove(n), n), m), NEW r, SelfTyped(r),
           r = [s EXCEPT !.above = Front(@)]
    PROVE  SelfAt(r, ParserAbove(n), m)
<1>1. PICK g0, g : g0 = ParserAbove(n) /\ g = Append(g0, n) /\ g0 \in Seq(Nodes)
  BY ParserAboveType
<1>2. /\ SelfTyped(s) /\ s.above = g /\ PushesFit(s.pushed, Filter(g, BranchNodes))
      /\ OwnersFit(s.owners, g, m) /\ s.named = NamedAt(m)
      /\ s.out = StockRun[m].out
  BY <1>1 DEF SelfAt
<1>3. Front(g) = g0
  BY <1>1, FrontOfAppend
<1>4. Filter(g, BranchNodes) = Filter(g0, BranchNodes)
  BY <1>1, HookedWith DEF Hooked
<1>5. Opened(g) = Opened(g0)
  <2>1. ~Starts(n)
    <3>1. Class(tree, n) \notin Branches
      BY DEF BranchNodes
    <3> QED
      BY <3>1, SelfKindsAre DEF Starts, Owners, OwnerKinds, Givers
  <2> QED
    BY <1>1, <2>1, OpenedStep
<1>6. /\ r.above = g0 /\ r.pushed = s.pushed /\ r.owners = s.owners
      /\ r.named = s.named /\ r.out = s.out
  BY <1>2, <1>3 DEF SelfTyped
<1> QED
  BY <1>1, <1>2, <1>4, <1>5, <1>6 DEF SelfAt, OwnersFit, OpenGiven

-----------------------------------------------------------------------------

\* At every node the stack of shared arrays says what the arrays of the stock cop
\* say: the names given so far, and the sends flagged so far.
SelfInv ==
    Apart => \E m \in 0 .. Len(tree.parent) : OrderInv(todo, m) /\ SelfAt(selfs, frames[ClauseRule], m)

\* A step within a tree.
LEMMA SelfInvAfter ==
    ASSUME tree' = tree, NEW m \in 0 .. Len(tree.parent), OrderInv(todo', m),
           SelfAt(selfs', frames'[ClauseRule], m)
    PROVE  SelfInv'
<1>1. PICK calls, s, above : calls = todo' /\ s = selfs' /\ above = frames'[ClauseRule]
  OBVIOUS
<1>2. OrderInv(calls, m)' /\ SelfAt(s, above, m)'
  BY <1>1, SameStock, SameStockRun
<1>3. OrderInv(todo, m)'
  BY <1>1, <1>2 DEF OrderInv, Ordered, Pending
<1>4. frames[ClauseRule]' = above
  BY <1>1 DEF ClauseRule
<1>5. SelfAt(selfs, frames[ClauseRule], m)'
  BY <1>1, <1>2, <1>4 DEF SelfAt, SelfTyped, OwnersFit, Opened, OpenGiven, PushesFit
<1>6. (m \in 0 .. Len(tree.parent))'
  OBVIOUS
<1> QED
  BY <1>3, <1>5, <1>6 DEF SelfInv

\* A walk starts with the rule fresh.
LEMMA SelfStart ==
    ASSUME WalkInit, SelfInit
    PROVE  SelfInv
<1>1. /\ tree \in Shapes /\ todo = <<<<"visit", 1>>>> /\ frames = [r \in Rules |-> <<>>]
      /\ selfs = SelfFresh
  BY DEF WalkInit, SelfInit
<1>2. OrderInv(todo, 0) /\ 0 \in 0 .. Len(tree.parent)
  BY <1>1, OrderStart, TreeFacts
<1>3. frames[ClauseRule] = <<>>
  BY <1>1, ClauseRuleIs
<1>4. Filter(<<>>, BranchNodes) = <<>>
  BY FilterEmpty
<1>5. SelfTyped(selfs)
  <2>1. <<>> \in Seq(BOOLEAN) /\ <<>> \in Seq(Nodes)
    OBVIOUS
  <2> QED
    BY <1>1, <2>1 DEF SelfFresh, SelfTyped
<1>6. Opened(<<>>) = {}
  BY DEF Opened, Elements
<1>7. Given(0) = {}
  BY DEF Given
<1>8. NamedAt(0) = {}
  BY <1>7 DEF NamedAt
<1>9. ASSUME Apart PROVE StockRun[0].out = {}
  <2>1. 0 \in 0 .. Len(tree.kind)
    BY <1>1, TreeFacts
  <2> QED
    BY <1>1, <1>9, <2>1, StockRunAs
<1>10. PushesFit(<<>>, <<>>)
  BY DEF PushesFit
<1>11. ASSUME Apart PROVE SelfAt(selfs, <<>>, 0)
  BY <1>1, <1>4, <1>5, <1>6, <1>8, <1>9, <1>10, <1>11 DEF SelfAt, OwnersFit, SelfFresh
<1> QED
  BY <1>2, <1>3, <1>11 DEF SelfInv

\* A node is visited.
LEMMA SelfVisit ==
    ASSUME WalkInv, TypesInv, SelfInv, OnBranch \/ OnLeaf \/ OnDirect \/ OnRescue
    PROVE  SelfInv'
<1>1. tree' = tree /\ SelfTyped(selfs')
  BY TypesHook
<1>2. SUFFICES ASSUME Apart PROVE SelfInv'
  BY <1>1, SameStockRun DEF SelfInv
<1>3. PICK m \in 0 .. Len(tree.parent) : OrderInv(todo, m) /\ SelfAt(selfs, frames[ClauseRule], m)
  BY <1>2 DEF SelfInv
<1>4. Next("visit") /\ WalkNext
  BY DEF OnBranch, OnLeaf, OnDirect, OnRescue, EnterBranch, EnterLeaf, VisitDirect, EnterRescue, WalkNext
<1>5. /\ Node = m + 1 /\ m + 1 \in Nodes /\ m + 1 \in 0 .. Len(tree.parent)
      /\ OrderInv(todo', m + 1)
  BY <1>3, <1>4, VisitIsNext
<1>6. PICK n, s, r : n = Node /\ s = selfs /\ r = selfs'
  OBVIOUS
<1>7. /\ tree \in Shapes /\ n \in Nodes /\ n = m + 1 /\ n - 1 = m
      /\ frames[ClauseRule] = ParserAbove(n)
      /\ EnterBranch \/ EnterRescue => frames'[ClauseRule] = Append(ParserAbove(n), n)
      /\ EnterLeaf \/ VisitDirect => frames'[ClauseRule] = ParserAbove(n)
  BY <1>4, <1>5, <1>6, ClauseVisited
<1>8. SelfAt(s, ParserAbove(n), n - 1)
  BY <1>3, <1>6, <1>7
<1>9. CASE OnBranch
  <2>1. n \in BranchNodes /\ frames'[ClauseRule] = Append(ParserAbove(n), n)
    BY <1>6, <1>7, <1>9 DEF OnBranch, EnterBranch, BranchNodes
  <2>2. PICK pushes, t : /\ pushes = PushesOwner(s, n)
                         /\ t = [s EXCEPT !.pushed = Append(@, pushes),
                                          !.owners = IF pushes THEN Append(@, FALSE) ELSE @]
    OBVIOUS
  <2>3. r = [Handle(t, n) EXCEPT !.above = Append(@, n)]
    BY <1>6, <1>9, <2>2 DEF OnBranch, SelfEnter
  <2>4. SelfAt(r, Append(ParserAbove(n), n), n)
    BY <1>2, <1>7, <1>8, <2>1, <2>2, <2>3, SelfEnteredAs
  <2> QED
    BY <1>1, <1>5, <1>6, <1>7, <2>1, <2>4, SelfInvAfter
<1>10. CASE OnRescue
  <2>1. Class(tree, n) = "rescue" /\ frames'[ClauseRule] = Append(ParserAbove(n), n)
    BY <1>6, <1>7, <1>10 DEF OnRescue, EnterRescue
  <2>2. n \notin BranchNodes
    BY <2>1 DEF BranchNodes, Branches, ClassIndex
  <2>3. PICK t : t = (IF Kind(n) = "rescueA" THEN AddLocal(s, {n}) ELSE s)
    OBVIOUS
  <2>4. r = [t EXCEPT !.above = Append(@, n)]
    BY <1>6, <1>10, <2>3 DEF OnRescue, SelfRescue
  <2>5. SelfAt(r, Append(ParserAbove(n), n), n)
    BY <1>1, <1>2, <1>6, <1>7, <1>8, <2>2, <2>3, <2>4, SelfClauseAs
  <2> QED
    BY <1>1, <1>5, <1>6, <1>7, <2>1, <2>5, SelfInvAfter
<1>11. CASE OnLeaf \/ OnDirect
  <2>1. Class(tree, n) \in {"leaf", "direct"} /\ frames'[ClauseRule] = ParserAbove(n)
    BY <1>6, <1>7, <1>11 DEF OnLeaf, OnDirect, EnterLeaf, VisitDirect
  <2>2. n \notin BranchNodes
    BY <2>1 DEF BranchNodes, Branches, ClassIndex
  <2>3. Kind(n) # "rescueA"
    BY <1>7, <2>1, SelfKindsAre
  <2>4. r = s
    BY <1>6, <1>11 DEF OnLeaf, OnDirect, copVars
  <2>5. SelfAt(r, ParserAbove(n), n)
    BY <1>2, <1>7, <1>8, <2>2, <2>3, <2>4, SelfSkipped
  <2> QED
    BY <1>1, <1>5, <1>6, <1>7, <2>1, <2>5, SelfInvAfter
<1> QED
  BY <1>9, <1>10, <1>11

\* A node is left.
LEMMA SelfLeftInv ==
    ASSUME WalkInv, TypesInv, SelfInv, OnLeave \/ OnRescueLeave
    PROVE  SelfInv'
<1>1. tree' = tree /\ SelfTyped(selfs')
  BY TypesHook
<1>2. SUFFICES ASSUME Apart PROVE SelfInv'
  BY <1>1, SameStockRun DEF SelfInv
<1>3. PICK m \in 0 .. Len(tree.parent) : OrderInv(todo, m) /\ SelfAt(selfs, frames[ClauseRule], m)
  BY <1>2 DEF SelfInv
<1>4. LeaveBranch \/ LeaveRescue
  BY DEF OnLeave, OnRescueLeave
<1>5. PICK n, s, r : n = Node /\ s = selfs /\ r = selfs'
  OBVIOUS
<1>6. /\ tree \in Shapes /\ n \in Nodes
      /\ frames[ClauseRule] = Append(ParserAbove(n), n)
      /\ frames'[ClauseRule] = ParserAbove(n)
      /\ OrderInv(todo', m)
  BY <1>3, <1>4, <1>5, ClauseLeft
<1>7. SelfAt(s, Append(ParserAbove(n), n), m)
  BY <1>3, <1>5, <1>6
<1>8. CASE OnLeave
  <2>1. n \in BranchNodes
    BY <1>5, <1>8, LeftIs DEF OnLeave
  <2>2. r = [s EXCEPT !.above = Front(@), !.pushed = Front(@),
                      !.owners = IF Last(s.pushed) THEN Front(@) ELSE @]
    BY <1>5, <1>8 DEF OnLeave, SelfLeave
  <2>3. SelfAt(r, ParserAbove(n), m)
    BY <1>1, <1>5, <1>6, <1>7, <2>1, <2>2, SelfLeftAs
  <2> QED
    BY <1>1, <1>3, <1>5, <1>6, <2>3, SelfInvAfter
<1>9. CASE OnRescueLeave
  <2>1. n \notin BranchNodes
    BY <1>5, <1>9, LeftIs DEF OnRescueLeave
  <2>2. r = [s EXCEPT !.above = Front(@)]
    BY <1>5, <1>9 DEF OnRescueLeave, SelfRescueLeave
  <2>3. SelfAt(r, ParserAbove(n), m)
    BY <1>1, <1>5, <1>6, <1>7, <2>1, <2>2, SelfClauseLeft
  <2> QED
    BY <1>1, <1>3, <1>5, <1>6, <2>3, SelfInvAfter
<1> QED
  BY <1>8, <1>9

\* A step of the rules keeps what the rule runs on, or starts it afresh.
LEMMA SelfNext ==
    ASSUME WalkInv, TypesInv, SelfInv, [CopsNext]_<<walkVars, copVars, fileVars>>
    PROVE  SelfInv' \/ (WalkInit /\ SelfInit)'
<1>1. CASE OnHook
  BY <1>1, SelfVisit, SelfLeftInv DEF OnHook
<1>2. CASE OnInvestigation \/ UNCHANGED <<walkVars, copVars, fileVars>>
  <2>1. UNCHANGED <<walkVars, selfs>>
    BY <1>2 DEF OnInvestigation, Investigate, copVars
  <2>2. tree' = tree
    BY <2>1 DEF walkVars
  <2>3. SUFFICES ASSUME Apart PROVE SelfInv'
    BY <2>2, SameStockRun DEF SelfInv
  <2>4. PICK m \in 0 .. Len(tree.parent) : OrderInv(todo, m) /\ SelfAt(selfs, frames[ClauseRule], m)
    BY <2>3 DEF SelfInv
  <2>5. OrderInv(todo', m) /\ SelfAt(selfs', frames'[ClauseRule], m)
    BY <2>1, <2>4 DEF walkVars
  <2> QED
    BY <2>2, <2>5, SelfInvAfter
<1>3. CASE NextFile \/ NextRound
  <2>1. WalkAgain
    BY <1>3 DEF NextFile, NextRound
  <2>2. selfs' = SelfFresh
    BY <2>1 DEF WalkAgain
  <2>3. SelfInit'
    BY <2>2 DEF SelfInit, SelfFresh
  <2> QED
    BY <2>1, <2>3, AgainIsWalkStart
<1> QED
  BY <1>1, <1>2, <1>3 DEF CopsNext

\* redundant_self.rs: at every node of every tree without the four constructs the
\* stack of shared arrays, the nodes with the name and what is flagged are what
\* the arrays of the stock cop hold and flag, its call-before-block order and all.
THEOREM SelfsRunLikeStock == CopsSpec => []SelfInv
<1>1. WalkInit /\ SelfInit => SelfInv
  BY SelfStart
<1>2. CopsInit => WalkInit /\ SelfInit
  BY DEF CopsInit
<1>3. (WalkInit /\ SelfInit)' => SelfInv'
  BY <1>1, PTL
<1>4. WalkInv /\ TypesInv /\ SelfInv /\ [CopsNext]_<<walkVars, copVars, fileVars>> => SelfInv'
  BY <1>3, SelfNext
<1> QED
  BY <1>1, <1>2, <1>4, CopsWalkInv, TypesKept, PTL DEF CopsSpec

\* redundant_self.rs flags the sends the stock cop flags: on every tree without a
\* `def` in a `def` or a block, a name given to the arguments of a call that is a
\* plain send for prism alone, one given in the call of a block, or a condition
\* that only one of the two takes a name from.
THEOREM SelfsFollowStock == CopsSpec => []SelfAsStock
<1>1. ASSUME WalkInv, SelfInv, todo = <<>>, ~DefInOwner, ~GivenApart, ~GivenBeforeBlock, ~ShadowedApart
      PROVE  selfs.out = StockSelf
  <2>1. PICK m \in 0 .. Len(tree.parent) : OrderInv(todo, m) /\ SelfAt(selfs, frames[ClauseRule], m)
    BY <1>1 DEF SelfInv, Apart
  <2>2. tree \in Shapes /\ OrderInv(<<>>, m)
    BY <1>1, <2>1 DEF WalkInv
  <2>3. m = Len(tree.kind)
    BY <2>2, OrderEnd, TreeFacts
  <2> QED
    BY <2>1, <2>3 DEF SelfAt, StockSelf
<1>2. WalkInv /\ SelfInv => SelfAsStock
  BY <1>1 DEF SelfAsStock
<1> QED
  BY <1>2, CopsWalkInv, SelfsRunLikeStock, PTL

=============================================================================
