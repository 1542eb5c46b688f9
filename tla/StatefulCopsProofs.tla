------------------------ MODULE StatefulCopsProofs ------------------------
(***************************************************************************)
(* MethodsAsStock, of DuplicateMethods: of every definition the running    *)
(* frames and counters tell what its ancestors tell the stock cop.         *)
(*                                                                         *)
(* The frames are the hooked nodes above (Hooked): those of the parser     *)
(* gem's ancestors that are no rescue clause.  They determine, by          *)
(* induction from the root down, everything the stock cop asks the         *)
(* ancestors (AroundTells); what a frame keeps is a function of its node   *)
(* (Adds).                                                                 *)
(*                                                                         *)
(* CopsTypeOK, of all rules: the types of RedundantSelf's and              *)
(* UselessAccessModifier's states are an invariant of their own, those of  *)
(* the other rules follow from theirs.                                     *)
(***************************************************************************)
EXTENDS ScopesAndWidthsProofs

-----------------------------------------------------------------------------
(* The frames of a rule that keeps one for every hooked node.              *)

BranchNodes == {k \in Nodes : Class(tree, k) \in Branches}

Hooked(n) == Filter(ParserAbove(n), BranchNodes)

\* What holds of the root, and of a node if of its parent, holds of all nodes.
LEMMA TreeInduction ==
    ASSUME tree \in Shapes, NEW S, 1 \in S, \A n \in Nodes : n # 1 /\ tree.parent[n] \in S => n \in S
    PROVE  Nodes \subseteq S
<1>1. PICK N \in Nat \ {0} : N = Len(tree.parent) /\ Nodes = 1 .. N
  BY TreeFacts
<1>2. \A n \in 2 .. N : tree.parent[n] \in 1 .. n - 1
  BY <1>1, TreeFacts
<1> DEFINE Good == {j \in Nat : j \in 1 .. N => j \in S}
<1>3. ASSUME NEW j \in Nat, \A k \in Nat : k < j => k \in Good PROVE j \in Good
  <2>1. CASE j \in 2 .. N
    <3>1. tree.parent[j] \in 1 .. j - 1
      BY <1>2, <2>1
    <3>2. tree.parent[j] \in S
      BY <1>3, <2>1, <3>1
    <3> QED
      BY <1>1, <2>1, <3>2
  <2>2. CASE j \notin 2 .. N
    BY <2>2
  <2> QED
    BY <2>1, <2>2
<1> HIDE DEF Good
<1>4. \A j \in Nat : j \in Good
  BY <1>3, NatSetStrong
<1> QED
  BY <1>1, <1>4 DEF Good

\* The parent of a node that is not the root comes before it.
LEMMA ParentIs ==
    ASSUME tree \in Shapes, NEW n \in Nodes
    PROVE  /\ n \in Nat /\ 1 \in Nodes /\ n >= 1 /\ tree.parent[1] = 0
           /\ n # 1 => /\ tree.parent[n] \in Nodes /\ tree.parent[n] < n /\ tree.parent[n] # 0
                       /\ Over(n) = Over(tree.parent[n]) \cup {tree.parent[n]}
           /\ n = 1 => Over(n) = {}
           /\ \A x \in Over(n) : x \in Nodes /\ x < n
<1>1. PICK N \in Nat \ {0} : N = Len(tree.parent) /\ Nodes = 1 .. N
  BY TreeFacts
<1>2. /\ tree.parent[1] = 0
      /\ \A k \in 2 .. N : tree.parent[k] \in 1 .. k - 1
  BY <1>1, TreeFacts
<1>3. n \in Nat /\ 1 \in Nodes /\ n >= 1
  BY <1>1
<1>4. n # 1 => tree.parent[n] \in Nodes /\ tree.parent[n] < n /\ tree.parent[n] # 0
  BY <1>1, <1>2
<1>5. n # 1 => Over(n) = Over(tree.parent[n]) \cup {tree.parent[n]}
  BY <1>4, OverIs
<1>6. n = 1 => Over(n) = {}
  BY <1>2, OverIs
<1>7. Over(n) \subseteq 1 .. n - 1 /\ Over(n) \subseteq Nodes
  BY OverIs
<1> QED
  BY <1>2, <1>3, <1>4, <1>5, <1>6, <1>7

\* The hooked nodes above a node: its parent, if that has a hook, and those above
\* that.
LEMMA HookedIs ==
    ASSUME tree \in Shapes, NEW n \in Nodes
    PROVE  /\ Hooked(n) \in Seq(Nodes)
           /\ \A i \in 1 .. Len(Hooked(n)) : Hooked(n)[i] \in BranchNodes /\ Hooked(n)[i] \in Over(n)
           /\ n = 1 => Hooked(n) = <<>>
           /\ n # 1 => Hooked(n) = IF tree.parent[n] \in BranchNodes
                                   THEN Append(Hooked(tree.parent[n]), tree.parent[n])
                                   ELSE Hooked(tree.parent[n])
<1>1. PICK s, B, A : s = ParserAbove(n) /\ B = BranchNodes /\ A = Nodes
  OBVIOUS
<1>2. s \in Seq(A) /\ Elements(s) = Over(n) \cap Kept(n)
  BY <1>1, ParserOverIs
<1>3. Hooked(n) = Filter(s, B)
  BY <1>1 DEF Hooked
<1>4. Filter(s, B) \in Seq(A) /\ Elements(Filter(s, B)) = Elements(s) \cap B
  BY <1>2, FilterType, FilterElements
<1>5. \A i \in 1 .. Len(Hooked(n)) : Hooked(n)[i] \in BranchNodes /\ Hooked(n)[i] \in Over(n)
  BY <1>1, <1>2, <1>3, <1>4 DEF Elements
<1>6. CASE n = 1
  <2>1. Over(n) = {}
    BY <1>6, ParentIs
  <2>2. Len(Hooked(n)) = 0
    BY <1>3, <1>4, <1>5, <2>1
  <2> QED
    BY <1>3, <1>4, <1>5, <1>6, <2>2
<1>7. CASE n # 1
  <2>1. PICK p : p = tree.parent[n] /\ p \in Nodes /\ p # 0
    BY <1>7, ParentIs
  <2>2. PICK t : t = ParserAbove(p) /\ t \in Seq(Nodes)
    BY <2>1, ParserAboveType
  <2>3. s = IF \/ Class(tree, p) \in Branches
               \/ Class(tree, p) = "rescue" /\ n \notin Subsequents(tree, p)
            THEN Append(t, p) ELSE t
    BY <1>1, <2>1, <2>2, ParserAboveStep
  <2>4. Filter(Append(t, p), B) = IF p \in B THEN Append(Filter(t, B), p) ELSE Filter(t, B)
    <3>1. t \in Seq(A) /\ p \in A
      BY <1>1, <2>1, <2>2
    <3> QED
      BY <3>1, FilterAppend
  <2>5. p \in B <=> Class(tree, p) \in Branches
    BY <1>1, <2>1 DEF BranchNodes
  <2>6. Filter(s, B) = IF p \in B THEN Append(Filter(t, B), p) ELSE Filter(t, B)
    BY <2>3, <2>4, <2>5
  <2> QED
    BY <1>1, <1>3, <1>4, <1>5, <1>7, <2>1, <2>2, <2>6 DEF Hooked
<1> QED
  BY <1>6, <1>7

\* What stands above an element of the hooked nodes are the hooked nodes above it.
LEMMA HookedPrefix ==
    ASSUME tree \in Shapes, NEW n \in Nodes, NEW i \in 1 .. Len(Hooked(n))
    PROVE  SubSeq(Hooked(n), 1, i - 1) = Hooked(Hooked(n)[i])
<1> DEFINE Good(c) == \A k \in 1 .. Len(Hooked(c)) : SubSeq(Hooked(c), 1, k - 1) = Hooked(Hooked(c)[k])
           S == {c \in Nodes : Good(c)}
<1>1. 1 \in S
  <2>1. 1 \in Nodes /\ Hooked(1) = <<>>
    BY ParentIs, HookedIs
  <2>2. 1 .. Len(<<>>) = {}
    OBVIOUS
  <2> QED
    BY <2>1, <2>2
<1>2. ASSUME NEW c \in Nodes, c # 1, tree.parent[c] \in S PROVE c \in S
  <2>1. PICK p, h : p = tree.parent[c] /\ h = Hooked(p) /\ p \in Nodes /\ Good(p)
    BY <1>2, ParentIs
  <2>2. h \in Seq(Nodes) /\ Hooked(c) = IF p \in BranchNodes THEN Append(h, p) ELSE h
    BY <1>2, <2>1, HookedIs
  <2>3. CASE p \notin BranchNodes
    BY <1>2, <2>1, <2>2, <2>3
  <2>4. CASE p \in BranchNodes
    <3>1. Hooked(c) = Append(h, p)
      BY <2>2, <2>4
    <3>2. ASSUME NEW k \in 1 .. Len(h)
          PROVE  SubSeq(Append(h, p), 1, k - 1) = SubSeq(h, 1, k - 1) /\ Append(h, p)[k] = h[k]
      BY <2>1, <2>2
    <3>3. SubSeq(Append(h, p), 1, Len(h)) = h /\ Append(h, p)[Len(h) + 1] = p
      BY <2>1, <2>2
    <3>4. ASSUME NEW k \in 1 .. Len(Append(h, p))
          PROVE  SubSeq(Append(h, p), 1, k - 1) = Hooked(Append(h, p)[k])
      <4>1. Len(h) \in Nat /\ Len(Append(h, p)) = Len(h) + 1
        BY <2>2
      <4>2. CASE k \in 1 .. Len(h)
        BY <2>1, <3>2, <4>2
      <4>3. CASE k = Len(h) + 1
        <5>1. k - 1 = Len(h)
          BY <4>1, <4>3
        <5> QED
          BY <2>1, <3>3, <4>3, <5>1
      <4> QED
        BY <4>1, <4>2, <4>3
    <3> QED
      BY <1>2, <3>1, <3>4
  <2> QED
    BY <2>3, <2>4
<1> HIDE DEF S
<1>3. Nodes \subseteq S
  BY <1>1, <1>2, TreeInduction
<1> QED
  BY <1>3 DEF S

-----------------------------------------------------------------------------
(* What the ancestors tell the stock cop of Lint/DuplicateMethods.         *)

\* The parts of a name joined are words.
LEMMA FlattenType ==
    ASSUME NEW A, NEW s \in Seq(Seq(A))
    PROVE  FlattenSeq(s) \in Seq(A)
<1>1. CASE Len(s) = 0
  <2>1. s = <<>>
    BY <1>1
  <2> QED
    BY <1>1, <2>1 DEF FlattenSeq
<1>2. CASE Len(s) # 0
  <2>1. PICK n \in Nat \ {0} : n = Len(s)
    BY <1>2
  <2> DEFINE V == Seq(A)
             q == [j \in 1 .. n |-> j - 1]
             G == [c \in (1 .. n) \X V |-> IF c[1] = 1 THEN s[c[1]] ELSE c[2] \o s[c[1]]]
             IsFlat(f) == f = [i \in 1 .. n |-> IF i = 1 THEN s[i] ELSE f[i - 1] \o s[i]]
  <2>2. ASSUME NEW j \in 1 .. n, NEW v \in V PROVE G[<<j, v>>] \in V
    <3>1. s[j] \in Seq(A) /\ v \in Seq(A)
      BY <2>1
    <3>2. v \o s[j] \in Seq(A)
      BY <3>1
    <3> QED
      BY <3>1, <3>2
  <2>3. \A j \in 1 .. n : q[j] \in 0 .. j - 1
    BY <2>1
  <2>4. RecursiveStep(n, V, q, G)
    BY <2>2, <2>3 DEF RecursiveStep
  <2>5. <<>> \in V
    OBVIOUS
  <2>6. ASSUME NEW j \in 1 .. n, NEW v \in V
        PROVE  G[<<j, v>>] = IF j = 1 THEN s[j] ELSE v \o s[j]
    OBVIOUS
  <2> HIDE DEF G
  <2>7. PICK f : SolvesRecursion(f, n, V, <<>>, q, G)
    BY <2>4, <2>5, Recursion
  <2>8. PICK u : u = [i \in 1 .. n |-> f[i]]
    OBVIOUS
  <2>9. ASSUME NEW j \in 1 .. n PROVE u[j] = IF j = 1 THEN s[j] ELSE u[j - 1] \o s[j]
    <3>1. q[j] = j - 1 /\ j - 1 \in 0 .. n
      BY <2>1
    <3>2. f[j] = G[<<j, f[j - 1]>>] /\ f[j - 1] \in V
      BY <2>7, <3>1 DEF SolvesRecursion
    <3>3. f[j] = IF j = 1 THEN s[j] ELSE f[j - 1] \o s[j]
      BY <2>6, <3>2
    <3>4. j # 1 => u[j - 1] = f[j - 1]
      BY <2>1, <2>8
    <3> QED
      BY <2>8, <3>3, <3>4
  <2>10. IsFlat(u)
    BY <2>8, <2>9
  <2>11. PICK flat : flat = CHOOSE f2 : IsFlat(f2)
    OBVIOUS
  <2>12. FlattenSeq(s) = flat[n]
    BY <1>2, <2>1, <2>11 DEF FlattenSeq
  <2> HIDE DEF IsFlat
  <2>13. IsFlat(flat)
    BY <2>10, <2>11
  <2> USE DEF IsFlat
  <2> DEFINE Good == {i \in Nat : i \in 1 .. n => flat[i] \in Seq(A)}
  <2>14. ASSUME NEW i \in Nat, \A k \in Nat : k < i => k \in Good PROVE i \in Good
    <3> SUFFICES ASSUME i \in 1 .. n PROVE flat[i] \in Seq(A)
      OBVIOUS
    <3>1. s[i] \in Seq(A)
      BY <2>1
    <3>2. flat[i] = IF i = 1 THEN s[i] ELSE flat[i - 1] \o s[i]
      BY <2>13
    <3>3. CASE i = 1
      BY <3>1, <3>2, <3>3
    <3>4. CASE i # 1
      <4>1. i - 1 \in Nat /\ i - 1 < i /\ i - 1 \in 1 .. n
        BY <3>4
      <4>2. flat[i - 1] \in Seq(A)
        BY <2>14, <4>1
      <4> QED
        BY <3>1, <3>2, <3>4, <4>2
    <3> QED
      BY <3>3, <3>4
  <2> HIDE DEF Good
  <2>15. \A i \in Nat : i \in Good
    BY <2>14, NatSetStrong
  <2>16. n \in 1 .. n
    BY <2>1
  <2> QED
    BY <2>12, <2>15, <2>16 DEF Good
<1> QED
  BY <1>1, <1>2

WordLetters == {"A", "B", "<<"}

\* The name of a scope, if it has one.
Name == Seq(Word \ {<<>>})

AroundType ==
    [pmn : Name \cup {Unknown}, block : Nat, inIf : BOOLEAN, inDef : BOOLEAN, named : Nat,
     sclasses : Seq(Sclass), scope : 0 .. 2]

\* The one element of a sequence.
LEMMA ElementIs ==
    ASSUME NEW S, NEW s \in Seq(S), Len(s) = 1
    PROVE  s[1] \in S
  OBVIOUS

\* A name is a sequence of words.
LEMMA NameIsWords ==
    ASSUME NEW name \in Name
    PROVE  name \in Seq(Word)
<1>1. Len(name) \in Nat /\ name = [i \in 1 .. Len(name) |-> name[i]]
  BY DEF Name
<1>2. \A i \in 1 .. Len(name) : name[i] \in Word
  BY DEF Name
<1>3. [i \in 1 .. Len(name) |-> name[i]] \in Seq(Word)
  BY <1>1, <1>2
<1> QED
  BY <1>1, <1>3

\* What a frame adds to a name is a word of it, or no word.
LEMMA WordsAre ==
    /\ {<<"A">>, <<"B">>, <<"<<">>, <<"<<", "A">>} \subseteq Word \ {<<>>}
    /\ Abort \notin Word /\ Invisible \notin Word /\ Abort # Invisible
    /\ Unknown \notin Seq(Word)
    /\ \A name \in Name : <<"<<">> \o FlattenSeq(name) \in Word \ {<<>>}
<1>1. PICK P : P = WordLetters
  OBVIOUS
<1>2. Word = Seq(P)
  BY <1>1 DEF Word, WordLetters
<1>3. ASSUME NEW x \in P, NEW y \in P PROVE <<x>> \in Word \ {<<>>} /\ <<x, y>> \in Word \ {<<>>}
  BY <1>2, <1>3
<1>4. "A" \in P /\ "B" \in P /\ "<<" \in P
  BY <1>1 DEF WordLetters
<1>5. /\ Len(Abort) = 1 /\ Abort[1] = "abort"
      /\ Len(Invisible) = 1 /\ Invisible[1] = "invisible"
  BY DEF Abort, Invisible
<1>6. "abort" \notin P /\ "invisible" \notin P
  BY <1>1 DEF WordLetters
<1>7. Abort \notin Word /\ Invisible \notin Word /\ Abort # Invisible
  BY <1>2, <1>5, <1>6, ElementIs
<1>8. Unknown \notin Seq(Word)
  <2>1. Len(Unknown) = 1 /\ Unknown[1] = Abort
    BY DEF Unknown
  <2> QED
    BY <1>7, <2>1, ElementIs
<1>9. ASSUME NEW name \in Name PROVE <<"<<">> \o FlattenSeq(name) \in Word \ {<<>>}
  <2>1. PICK flat : flat = FlattenSeq(name) /\ flat \in Seq(P)
    BY <1>2, NameIsWords, FlattenType
  <2>2. <<"<<">> \in Seq(P) /\ Len(<<"<<">>) = 1
    BY <1>4
  <2>3. <<"<<">> \o flat \in Seq(P) /\ Len(<<"<<">> \o flat) # 0
    BY <2>1, <2>2, ConcatIs
  <2> QED
    BY <1>2, <2>1, <2>3
<1> QED
  BY <1>3, <1>4, <1>7, <1>8, <1>9

\* A name handed down is a name.
LEMMA NameUnderType ==
    ASSUME NEW n, NEW up, NEW name \in Name \cup {Unknown}
    PROVE  NameUnder(n, up, name) \in Name \cup {Unknown}
<1>1. ASSUME name \in Name, NEW w \in Word \ {<<>>} PROVE Append(name, w) \in Name
  BY <1>1 DEF Name
<1>2. name # Unknown => name \in Name
  OBVIOUS
<1> QED
  BY <1>1, <1>2, WordsAre DEF NameUnder

\* So is the rest.
LEMMA AroundUnderType ==
    ASSUME NEW n, NEW up \in Nat, NEW a \in AroundType
    PROVE  AroundUnder(n, up, a) \in AroundType
<1>1. /\ a.pmn \in Name \cup {Unknown} /\ a.block \in Nat /\ a.inIf \in BOOLEAN /\ a.inDef \in BOOLEAN
      /\ a.named \in Nat /\ a.sclasses \in Seq(Sclass) /\ a.scope \in 0 .. 2
  BY DEF AroundType
<1>2. NameUnder(n, up, a.pmn) \in Name \cup {Unknown}
  BY <1>1, NameUnderType
<1>3. PICK b, x, sc : /\ b = (a.inIf \/ Kind(up) = "if") /\ b \in BOOLEAN
                      /\ x = (a.inDef \/ DefKind(Kind(up))) /\ x \in BOOLEAN
                      /\ sc = (IF Kind(up) \in Sclass THEN Append(a.sclasses, Kind(up)) ELSE a.sclasses)
  OBVIOUS
<1>4. sc \in Seq(Sclass)
  BY <1>1, <1>3
<1>5. PICK v : v = IF Kind(n) = "ensure" THEN 2
               ELSE IF Kind(up) = "rescueMod" \/ HasRescueClause(up) THEN 1
               ELSE IF Kind(up) = "begin" /\ Clauses(up) # {} THEN 2
               ELSE a.scope
  OBVIOUS
<1>6. v \in 0 .. 2
  BY <1>1, <1>5
<1>7. AroundUnder(n, up, a) =
        [pmn |-> NameUnder(n, up, a.pmn),
         block |-> IF Kind(up) \in PlainBlock THEN up ELSE a.block,
         inIf |-> b, inDef |-> x,
         named |-> IF Kind(up) \in {"classA", "casgn"} THEN up ELSE a.named,
         sclasses |-> sc, scope |-> v]
  BY <1>3, <1>5 DEF AroundUnder
<1> QED
  BY <1>1, <1>2, <1>3, <1>4, <1>6, <1>7 DEF AroundType

\* The root has nothing around it; every other node what its parent tells.
LEMMA AroundIs ==
    ASSUME tree \in Shapes, NEW n \in Nodes
    PROVE  /\ Around[n] \in AroundType
           /\ n = 1 => Around[n] = AroundRoot
           /\ n # 1 => Around[n] = AroundUnder(n, tree.parent[n], Around[tree.parent[n]])
<1>1. PICK N \in Nat : N = Len(tree.parent) /\ Nodes = 1 .. N /\ DOMAIN tree.kind = 1 .. N
  BY TreeFacts
<1>2. PICK up : up = tree.parent /\ up[1] = 0 /\ \A k \in 2 .. N : up[k] \in 1 .. k - 1
  BY <1>1, TreeFacts
<1> DEFINE V == AroundType
           q == [j \in 1 .. N |-> up[j]]
           G == [c \in (1 .. N) \X V |-> IF c[1] = 1 THEN AroundRoot ELSE AroundUnder(c[1], up[c[1]], c[2])]
           IsAround(at) == at = [j \in 1 .. N |-> IF j = 1 THEN AroundRoot ELSE AroundUnder(j, up[j], at[up[j]])]
<1>3. AroundRoot \in V
  <2>1. <<>> \in Name /\ <<>> \in Seq(Sclass)
    BY DEF Name
  <2> QED
    BY <2>1 DEF AroundRoot, AroundType
<1>4. ASSUME NEW j \in 1 .. N PROVE q[j] \in 0 .. j - 1 /\ q[j] = up[j] /\ (j # 1 => up[j] \in 1 .. j - 1)
  BY <1>2
<1>5. ASSUME NEW j \in 1 .. N, NEW v \in V
      PROVE  /\ G[<<j, v>>] = IF j = 1 THEN AroundRoot ELSE AroundUnder(j, up[j], v)
             /\ G[<<j, v>>] \in V
  <2>1. up[j] \in Nat
    BY <1>4
  <2>2. AroundUnder(j, up[j], v) \in V
    BY <2>1, AroundUnderType
  <2>3. G[<<j, v>>] = IF j = 1 THEN AroundRoot ELSE AroundUnder(j, up[j], v)
    OBVIOUS
  <2> HIDE DEF G, V
  <2> QED
    BY <1>3, <2>2, <2>3
<1> HIDE DEF G
<1>6. RecursiveStep(N, V, q, G)
  BY <1>4, <1>5 DEF RecursiveStep
<1> HIDE DEF V
<1>7. PICK v0 : v0 = AroundRoot
  OBVIOUS
<1>8. PICK f : SolvesRecursion(f, N, V, v0, q, G)
  BY <1>3, <1>6, <1>7, Recursion
<1>9. PICK u : u = [j \in 1 .. N |-> f[j]]
  OBVIOUS
<1>10. ASSUME NEW j \in 1 .. N
       PROVE  u[j] = IF j = 1 THEN AroundRoot ELSE AroundUnder(j, up[j], u[up[j]])
  <2>1. q[j] \in 0 .. N /\ f[q[j]] \in V /\ f[j] = G[<<j, f[q[j]]>>]
    BY <1>4, <1>8 DEF SolvesRecursion
  <2>2. u[j] = IF j = 1 THEN AroundRoot ELSE AroundUnder(j, up[j], f[up[j]])
    BY <1>4, <1>5, <1>9, <2>1
  <2>3. j # 1 => f[up[j]] = u[up[j]]
    BY <1>4, <1>9
  <2> QED
    BY <2>2, <2>3
<1>11. IsAround(u)
  BY <1>9, <1>10
<1>12. Around = CHOOSE at : IsAround(at)
  BY <1>1, <1>2 DEF Around
<1> HIDE DEF IsAround
<1>13. IsAround(Around)
  BY <1>11, <1>12
<1>14. \A j \in 1 .. N : Around[j] = IF j = 1 THEN AroundRoot ELSE AroundUnder(j, up[j], Around[up[j]])
  BY <1>13 DEF IsAround
<1> DEFINE Good == {j \in Nat : j \in 1 .. N => Around[j] \in AroundType}
<1>15. ASSUME NEW j \in Nat, \A k \in Nat : k < j => k \in Good PROVE j \in Good
  <2> SUFFICES ASSUME j \in 1 .. N PROVE Around[j] \in AroundType
    OBVIOUS
  <2>1. CASE j = 1
    BY <1>3, <1>14, <2>1 DEF V
  <2>2. CASE j # 1
    <3>1. PICK p : p = up[j] /\ p \in 1 .. j - 1
      BY <1>4, <2>2
    <3>2. p \in Nat /\ p < j /\ p \in 1 .. N
      BY <3>1
    <3>3. Around[p] \in AroundType
      BY <1>15, <3>2
    <3> QED
      BY <1>14, <2>2, <3>1, <3>2, <3>3, AroundUnderType
  <2> QED
    BY <2>1, <2>2
<1> HIDE DEF Good
<1>16. \A j \in Nat : j \in Good
  BY <1>15, NatSetStrong
<1>17. Around[n] \in AroundType
  BY <1>1, <1>16 DEF Good
<1> QED
  BY <1>1, <1>2, <1>14, <1>17
-----------------------------------------------------------------------------
(* The frames.                                                             *)

\* The hooks that tell of a node, by its kind.
LEMMA KindFacts ==
    ASSUME tree \in Shapes, NEW n \in Nodes
    PROVE  /\ Kind(n) \in DOMAIN ClassOf /\ Kind(n) # "none" /\ Class(tree, n) = ClassOf[Kind(n)]
           /\ Class(tree, n) \in Branches \cup {"leaf", "rescue", "direct"}
           /\ Class(tree, n) = "call" => n \in BranchNodes
           /\ Kind(n) \in PlainBlock \cup {"attr"} => Class(tree, n) = "call"
           /\ \/ Kind(n) \in PlainBlock \cup Sclass
              \/ Kind(n) \in {"attr", "classA", "classB", "casgn", "lvasgn", "def", "defs", "defOnA",
                              "block", "program", "stmts", "paren", "if", "begin", "rescueMod",
                              "alias", "marker"}
              => n \in BranchNodes
           /\ Kind(n) \in Sclass \cup {"classA", "classB", "casgn", "lvasgn", "def", "defs", "defOnA",
                              "block", "program", "stmts", "paren", "if", "begin", "rescueMod",
                              "alias", "marker"} => Class(tree, n) # "call"
           /\ Kind(n) = "ensure" => Class(tree, n) = "direct" /\ n \notin BranchNodes
<1>1. Kind(n) \in DOMAIN ClassOf
  BY TreeFacts DEF Kind
<1>2. PICK k : k = Kind(n) /\ Class(tree, n) = ClassOf[k]
  BY DEF Kind, Class
<1>3. k \in DOMAIN ClassOf
  BY <1>1, <1>2
<1>4. ClassOf[k] \in Branches \cup {"leaf", "rescue", "direct"}
  BY <1>3, ClassesAssumption
<1>5. n \in BranchNodes <=> ClassOf[k] \in Branches
  BY <1>2 DEF BranchNodes
<1>6. /\ k # "none"
      /\ k \in PlainBlock \cup {"attr"} => ClassOf[k] = "call"
      /\ k \in Sclass \cup {"classA", "classB"} => ClassOf[k] = "classMod"
      /\ k \in {"casgn", "lvasgn"} => ClassOf[k] = "write"
      /\ DefKind(k) => ClassOf[k] = "def"
      /\ k = "block" => ClassOf[k] = "block"
      /\ k \in {"program", "stmts", "paren", "if", "begin", "rescueMod", "alias", "marker"} =>
            ClassOf[k] = "other"
      /\ k = "ensure" => ClassOf[k] = "direct"
  BY <1>3, MethodKindsAssumption
<1>7. {"call", "classMod", "write", "def", "block", "other"} \subseteq Branches /\ "direct" \notin Branches
  BY DEF Branches, ClassIndex
<1> QED
  BY <1>1, <1>2, <1>4, <1>5, <1>6, <1>7 DEF DefKind

\* The innermost hooked node above n is right above it, but for lists and clauses
\* no hook of the rule tells of.
LEMMA LastHooked ==
    ASSUME tree \in Shapes, NEW n \in Nodes, Hooked(n) # <<>>
    PROVE  /\ Len(Hooked(n)) \in Nat \ {0}
           /\ \E c \in Nodes :
                 /\ tree.parent[c] = Hooked(n)[Len(Hooked(n))]
                 /\ c = n \/ c \in Over(n)
                 /\ c # n => Class(tree, c) \in {"rescue", "direct"}
<1> DEFINE Good(x) == Hooked(x) # <<>> =>
              \E c \in Nodes : /\ tree.parent[c] = Hooked(x)[Len(Hooked(x))]
                               /\ c = x \/ c \in Over(x)
                               /\ c # x => Class(tree, c) \in {"rescue", "direct"}
           S == {x \in Nodes : Good(x)}
<1>1. 1 \in S
  BY ParentIs, HookedIs
<1>2. ASSUME NEW x \in Nodes, x # 1, tree.parent[x] \in S PROVE x \in S
  <2>1. PICK p, h : p = tree.parent[x] /\ h = Hooked(p) /\ p \in Nodes /\ Good(p)
    BY <1>2, ParentIs
  <2>2. h \in Seq(Nodes) /\ Hooked(x) = IF p \in BranchNodes THEN Append(h, p) ELSE h
    BY <1>2, <2>1, HookedIs
  <2>3. CASE p \in BranchNodes
    <3>1. Hooked(x)[Len(Hooked(x))] = p
      BY <2>1, <2>2, <2>3
    <3> QED
      BY <1>2, <2>1, <3>1
  <2>4. CASE p \notin BranchNodes
    <3>1. Class(tree, p) \in {"rescue", "direct"}
      <4>1. Class(tree, p) \in {"leaf", "rescue", "direct"}
        BY <2>1, <2>4, KindFacts DEF BranchNodes
      <4>2. Class(tree, p) # "leaf"
        <5>1. WellFormed(tree) /\ x \in 2 .. Len(tree.kind)
          BY <1>2, TreeFacts, ShapesAssumption
        <5> QED
          BY <2>1, <5>1 DEF WellFormed
      <4> QED
        BY <4>1, <4>2
    <3>2. Over(x) = Over(p) \cup {p}
      BY <1>2, <2>1, ParentIs
    <3> QED
      BY <1>2, <2>1, <2>2, <2>4, <3>1, <3>2
  <2> QED
    BY <2>3, <2>4
<1> HIDE DEF S
<1>3. Nodes \subseteq S
  BY <1>1, <1>2, TreeInduction
<1>4. Hooked(n) \in Seq(Nodes)
  BY HookedIs
<1>5. Len(Hooked(n)) \in Nat \ {0}
  <2>1. PICK s : s = Hooked(n) /\ s \in Seq(Nodes)
    BY <1>4
  <2> QED
    BY <2>1
<1> QED
  BY <1>3, <1>5 DEF S

\* A sequence of elements of T that are in S is one of elements of S.
LEMMA SequenceOf ==
    ASSUME NEW S, NEW T, NEW s \in Seq(T), \A i \in 1 .. Len(s) : s[i] \in S
    PROVE  s \in Seq(S)
<1>1. Len(s) \in Nat /\ s = [i \in 1 .. Len(s) |-> s[i]]
  OBVIOUS
<1>2. [i \in 1 .. Len(s) |-> s[i]] \in Seq(S)
  BY <1>1
<1> QED
  BY <1>1, <1>2

\* A sequence with one more element.
LEMMA AppendAt ==
    ASSUME NEW S, NEW s \in Seq(S), NEW e \in S
    PROVE  /\ Len(s) \in Nat /\ DOMAIN s = 1 .. Len(s) /\ Append(s, e) \in Seq(S)
           /\ Len(Append(s, e)) = Len(s) + 1 /\ DOMAIN Append(s, e) = 1 .. Len(s) + 1
           /\ \A i \in 1 .. Len(s) : Append(s, e)[i] = s[i]
           /\ Append(s, e)[Len(s) + 1] = e
           /\ \A i \in 1 .. Len(s) + 1 : i # Len(s) + 1 => i \in 1 .. Len(s)
           /\ Append(s, e) = [i \in 1 .. Len(s) + 1 |-> IF i = Len(s) + 1 THEN e ELSE s[i]]
<1>1. PICK n \in Nat : n = Len(s) /\ DOMAIN s = 1 .. n
  OBVIOUS
<1>2. PICK t : t = Append(s, e)
  OBVIOUS
<1>3. t \in Seq(S)
  <2>1. Append(s, e) \in Seq(S)
    OBVIOUS
  <2> QED
    BY <1>2, <2>1
<1>4. Len(t) = n + 1 /\ \A i \in 1 .. n : t[i] = s[i]
  BY <1>1, <1>2
<1>5. t[n + 1] = e
  BY <1>1, <1>2
<1>6. \A i \in 1 .. n + 1 : i # n + 1 => i \in 1 .. n
  BY <1>1
<1>7. \A i \in 1 .. n + 1 : t[i] = IF i = n + 1 THEN e ELSE s[i]
  BY <1>4, <1>5, <1>6
<1>8. DOMAIN t = 1 .. n + 1 /\ t = [i \in 1 .. n + 1 |-> t[i]]
  BY <1>4, <1>3
<1> QED
  BY <1>1, <1>2, <1>4, <1>5, <1>6, <1>7, <1>8, <1>3

\* What the frame of a node adds to the name of the module.
Adds(x) ==
    IF Kind(x) = "sclassSelf"
    THEN IF Around[x].pmn = Unknown THEN <<"<<">> ELSE <<"<<">> \o FlattenSeq(Around[x].pmn)
    ELSE IF Kind(x) = "newBlock"
    THEN IF Kind(tree.parent[x]) = "casgn" THEN Invisible ELSE Abort
    ELSE FramePmn(<<>>, x)

FramePart == Word \cup {Abort, Invisible}
MethodFrame(x) == [node |-> x, pmn |-> Adds(x)]
MethodFrames(h) == [i \in 1 .. Len(h) |-> MethodFrame(h[i])]

\* What is added is a word, or none.
LEMMA AddsType ==
    ASSUME tree \in Shapes, NEW n \in Nodes
    PROVE  Adds(n) \in FramePart
<1>1. PICK a : a = Around[n].pmn /\ a \in Name \cup {Unknown}
  BY AroundIs DEF AroundType
<1>2. CASE Kind(n) = "sclassSelf"
  BY <1>1, <1>2, WordsAre DEF Adds, FramePart
<1>3. CASE Kind(n) = "newBlock"
  BY <1>3 DEF Adds, FramePart
<1>4. CASE Kind(n) # "sclassSelf" /\ Kind(n) # "newBlock"
  <2>1. <<"A">> \in Word /\ <<"B">> \in Word /\ <<"<<", "A">> \in Word
    BY WordsAre
  <2>2. FramePmn(<<>>, n) \in {<<"A">>, <<"B">>, <<"<<", "A">>, Abort, Invisible}
    BY <1>4 DEF FramePmn
  <2> QED
    BY <1>4, <2>1, <2>2 DEF Adds, FramePart
<1> QED
  BY <1>2, <1>3, <1>4

\* The frames of some nodes.
LEMMA MethodFramesAre ==
    ASSUME tree \in Shapes, NEW h \in Seq(Nodes)
    PROVE  /\ MethodFrames(h) \in Seq([node : Nodes, pmn : FramePart])
           /\ Len(MethodFrames(h)) = Len(h) /\ DOMAIN MethodFrames(h) = 1 .. Len(h)
           /\ Len(h) \in Nat
           /\ \A i \in 1 .. Len(h) : /\ MethodFrames(h)[i] = MethodFrame(h[i])
                                     /\ MethodFrames(h)[i].node = h[i]
                                     /\ MethodFrames(h)[i].pmn = Adds(h[i])
                                     /\ KindAt(MethodFrames(h), i) = Kind(h[i])
           /\ \A i : i \notin 1 .. Len(h) => KindAt(MethodFrames(h), i) = "none"
           /\ \A n \in Nodes : MethodFrames(Append(h, n)) = Append(MethodFrames(h), MethodFrame(n))
           /\ \A k \in 0 .. Len(h) : SubSeq(MethodFrames(h), 1, k) = MethodFrames(SubSeq(h, 1, k))
<1>1. PICK l \in Nat : l = Len(h)
  OBVIOUS
<1>2. PICK fs : fs = MethodFrames(h)
  OBVIOUS
<1>3. fs = [i \in 1 .. l |-> MethodFrame(h[i])]
  BY <1>1, <1>2 DEF MethodFrames
<1>4. \A n \in Nodes : MethodFrame(n) \in [node : Nodes, pmn : FramePart]
  BY AddsType DEF MethodFrame
<1>5. \A i \in 1 .. l : h[i] \in Nodes
  BY <1>1
<1>6. fs \in Seq([node : Nodes, pmn : FramePart])
  <2>1. \A i \in 1 .. l : fs[i] \in [node : Nodes, pmn : FramePart]
    BY <1>3, <1>4, <1>5
  <2> QED
    BY <1>3, <2>1
<1>7. Len(fs) = l /\ DOMAIN fs = 1 .. l /\ \A i \in 1 .. l : fs[i] = MethodFrame(h[i])
  BY <1>3
<1>8. \A x : MethodFrame(x).node = x /\ MethodFrame(x).pmn = Adds(x)
  BY DEF MethodFrame
<1>9. /\ \A i \in 1 .. l : KindAt(fs, i) = Kind(h[i])
      /\ \A i : i \notin 1 .. l => KindAt(fs, i) = "none"
  BY <1>7, <1>8 DEF KindAt
<1>10. ASSUME NEW n \in Nodes PROVE MethodFrames(Append(h, n)) = Append(fs, MethodFrame(n))
  <2>1. PICK g : g = Append(h, n) /\ Len(g) = l + 1 /\ g[l + 1] = n /\ \A i \in 1 .. l : g[i] = h[i]
    <3>1. PICK A : A = Nodes
      OBVIOUS
    <3>2. h \in Seq(A) /\ n \in A
      BY <3>1
    <3>3. PICK g : g = Append(h, n)
      OBVIOUS
    <3>4. Len(g) = l + 1 /\ g[l + 1] = n /\ \A i \in 1 .. l : g[i] = h[i]
      BY <1>1, <3>2, <3>3, AppendAt
    <3> QED
      BY <3>3, <3>4
  <2>2. PICK f : f = MethodFrame(n) /\ f \in [node : Nodes, pmn : FramePart]
    BY <1>4
  <2>3. Append(fs, f) = [i \in 1 .. l + 1 |-> IF i = l + 1 THEN f ELSE fs[i]]
    <3>1. PICK A : A = [node : Nodes, pmn : FramePart]
      OBVIOUS
    <3>2. fs \in Seq(A) /\ f \in A
      BY <1>6, <2>2, <3>1
    <3> QED
      BY <1>7, <3>2, AppendAt
  <2>4. \A i \in 1 .. l + 1 : MethodFrame(g[i]) = IF i = l + 1 THEN f ELSE fs[i]
    <3>1. \A i \in 1 .. l + 1 : i # l + 1 => i \in 1 .. l
      BY <1>1
    <3> QED
      BY <1>7, <2>1, <2>2, <3>1
  <2>5. MethodFrames(g) = [i \in 1 .. l + 1 |-> MethodFrame(g[i])]
    BY <2>1 DEF MethodFrames
  <2> QED
    BY <2>1, <2>2, <2>3, <2>4, <2>5
<1>11. ASSUME NEW k \in 0 .. l PROVE SubSeq(fs, 1, k) = MethodFrames(SubSeq(h, 1, k))
  <2>1. /\ Len(SubSeq(h, 1, k)) = k /\ \A i \in 1 .. k : SubSeq(h, 1, k)[i] = h[i]
    BY <1>1
  <2>2. MethodFrames(SubSeq(h, 1, k)) = [i \in 1 .. k |-> MethodFrame(h[i])]
    BY <2>1 DEF MethodFrames
  <2>3. /\ SubSeq(fs, 1, k) = [i \in 1 .. k |-> SubSeq(fs, 1, k)[i]]
        /\ \A i \in 1 .. k : SubSeq(fs, 1, k)[i] = fs[i]
    BY <1>6, <1>7
  <2>4. \A i \in 1 .. k : fs[i] = MethodFrame(h[i])
    BY <1>7
  <2> QED
    BY <2>2, <2>3, <2>4
<1> QED
  BY <1>1, <1>2, <1>6, <1>7, <1>8, <1>9, <1>10, <1>11

\* The name in some frames, and with one more.
LEMMA PmnAppend ==
    ASSUME NEW F, NEW fs \in Seq(F), \A f \in F : f.pmn \in FramePart
    PROVE  /\ fs = <<>> => Pmn(fs) = <<>>
           /\ \A f \in F :
                 Pmn(Append(fs, f)) = IF Pmn(fs) = Unknown \/ f.pmn = Abort THEN Unknown
                                      ELSE IF f.pmn = Invisible THEN Pmn(fs)
                                      ELSE Append(Pmn(fs), f.pmn)
<1>1. PICK l \in Nat : l = Len(fs) /\ DOMAIN fs = 1 .. l /\ \A i \in 1 .. l : fs[i] \in F
  OBVIOUS
<1> DEFINE As(gs) == [i \in DOMAIN gs |-> gs[i].pmn]
<1>2. PICK as : as = As(fs) /\ as \in Seq(FramePart) /\ Len(as) = l /\ DOMAIN as = 1 .. l
  <2>1. \A i \in 1 .. l : fs[i].pmn \in FramePart
    BY <1>1
  <2>2. As(fs) = [i \in 1 .. l |-> fs[i].pmn]
    BY <1>1
  <2>3. [i \in 1 .. l |-> fs[i].pmn] \in Seq(FramePart)
    BY <2>1
  <2>4. PICK as : as = As(fs)
    OBVIOUS
  <2>5. Len(as) = l /\ DOMAIN as = 1 .. l
    BY <2>2, <2>4
  <2> QED
    BY <2>2, <2>3, <2>4, <2>5
<1>3. Pmn(fs) = IF \E i \in 1 .. l : as[i] = Abort THEN Unknown ELSE Filter(as, Word)
  BY <1>2 DEF Pmn
<1>4. Filter(as, Word) # Unknown
  <2>1. PICK kept : kept = Filter(as, Word) /\ kept \in Seq(FramePart)
    BY <1>2, FilterType
  <2>2. Elements(kept) = Elements(as) \cap Word
    BY <1>2, <2>1, FilterElements
  <2>3. \A i \in 1 .. Len(kept) : kept[i] \in Word
    BY <2>2 DEF Elements
  <2>4. kept \in Seq(Word)
    BY <2>1, <2>3, SequenceOf
  <2> QED
    BY <2>1, <2>4, WordsAre
<1>5. fs = <<>> => Pmn(fs) = <<>>
  <2>1. fs = <<>> => l = 0 /\ as = <<>>
    BY <1>1, <1>2
  <2> QED
    BY <1>3, <2>1, FilterEmpty
<1>6. ASSUME NEW f \in F
      PROVE  Pmn(Append(fs, f)) = IF Pmn(fs) = Unknown \/ f.pmn = Abort THEN Unknown
                                  ELSE IF f.pmn = Invisible THEN Pmn(fs)
                                  ELSE Append(Pmn(fs), f.pmn)
  <2>1. PICK e : e = f.pmn /\ e \in FramePart
    OBVIOUS
  <2>2. PICK gs : gs = Append(fs, f)
    OBVIOUS
  <2>3. /\ DOMAIN gs = 1 .. l + 1 /\ gs[l + 1] = f
        /\ \A i \in 1 .. l : gs[i] = fs[i]
        /\ \A i \in 1 .. l + 1 : i # l + 1 => i \in 1 .. l
    BY <1>1, <2>2, AppendAt
  <2>4. PICK bs : bs = Append(as, e)
    OBVIOUS
  <2>5. /\ DOMAIN bs = 1 .. l + 1 /\ bs[l + 1] = e
        /\ \A i \in 1 .. l : bs[i] = as[i]
        /\ bs = [i \in 1 .. l + 1 |-> IF i = l + 1 THEN e ELSE as[i]]
    BY <1>2, <2>1, <2>4, AppendAt
  <2>6. As(gs) = bs
    <3>1. \A i \in 1 .. l + 1 : gs[i].pmn = IF i = l + 1 THEN e ELSE as[i]
      BY <1>1, <1>2, <2>1, <2>3
    <3> QED
      BY <2>3, <2>5, <3>1
  <2>7. Pmn(gs) = IF \E i \in 1 .. l + 1 : bs[i] = Abort THEN Unknown ELSE Filter(bs, Word)
    BY <2>5, <2>6 DEF Pmn
  <2>8. Filter(bs, Word) = IF e \in Word THEN Append(Filter(as, Word), e) ELSE Filter(as, Word)
    <3>1. as \in Seq(FramePart) /\ e \in FramePart
      BY <1>2, <2>1
    <3>2. Filter(Append(as, e), Word) = IF e \in Word THEN Append(Filter(as, Word), e) ELSE Filter(as, Word)
      BY <3>1, FilterAppend
    <3> QED
      BY <2>4, <3>2
  <2>9. (\E i \in 1 .. l + 1 : bs[i] = Abort) <=> e = Abort \/ \E i \in 1 .. l : as[i] = Abort
    <3>1. l + 1 \in 1 .. l + 1 /\ \A i \in 1 .. l : i \in 1 .. l + 1
      BY <1>1
    <3> QED
      BY <2>3, <2>5, <3>1
  <2>10. e \in Word <=> e # Abort /\ e # Invisible
    BY <2>1, WordsAre DEF FramePart
  <2> QED
    BY <1>3, <1>4, <2>1, <2>2, <2>7, <2>8, <2>9, <2>10
<1> QED
  BY <1>5, <1>6

\* Where these nodes stand.
LEMMA PlacesAre ==
    ASSUME tree \in Shapes
    PROVE  /\ Kind(1) \in {"program", "begin"}
           /\ \A n \in Nodes : n # 1 =>
                 /\ Kind(n) = "ensure" => Kind(tree.parent[n]) = "begin"
                 /\ Kind(tree.parent[n]) = "casgn" =>
                       /\ Class(tree, n) # "direct"
                       /\ \A j \in Nodes : tree.parent[j] = tree.parent[n] => j = n
                 /\ Kind(n) \in ClassNewBlock =>
                       \A j \in {n} \cup Over(n) : Class(tree, j) = "direct" =>
                           /\ Kind(tree.parent[j]) \notin {"stmts", "paren", "block", "casgn", "lvasgn"}
                           /\ ~DefKind(Kind(tree.parent[j])) /\ ClassOf[Kind(tree.parent[j])] # "call"
                 /\ Class(tree, n) = "rescue" =>
                       Class(tree, tree.parent[n]) = "rescue" \/ Kind(tree.parent[n]) = "begin"
                 /\ Class(tree, tree.parent[n]) # "leaf"
<1>1. PICK N \in Nat \ {0} : N = Len(tree.kind) /\ Nodes = 1 .. N /\ N = Len(tree.parent)
  BY TreeFacts
<1>2. MethodPlaces(tree) /\ WellFormed(tree)
  BY MethodPlacesAssumption, ShapesAssumption
<1>3. Kind(1) \in {"program", "begin"}
  BY <1>2 DEF MethodPlaces, Kind
<1>4. ASSUME NEW n \in Nodes, n # 1
      PROVE  /\ Kind(n) = "ensure" => Kind(tree.parent[n]) = "begin"
             /\ Class(tree, n) = "rescue" =>
                   Class(tree, tree.parent[n]) = "rescue" \/ Kind(tree.parent[n]) = "begin"
             /\ Class(tree, tree.parent[n]) # "leaf"
  <2>1. n \in 2 .. N
    BY <1>1, <1>4
  <2> QED
    BY <1>1, <1>2, <2>1 DEF MethodPlaces, WellFormed, Kind
<1>5. ASSUME NEW n \in Nodes, n # 1, Kind(tree.parent[n]) = "casgn"
      PROVE  /\ Class(tree, n) # "direct"
             /\ \A j \in Nodes : tree.parent[j] = tree.parent[n] => j = n
  <2>1. n \in 2 .. N /\ tree.parent[n] # 0
    BY <1>1, <1>5, ParentIs
  <2>2. \A j \in Nodes : tree.parent[j] = tree.parent[n] => j \in 2 .. N
    BY <1>1, <2>1, TreeFacts
  <2>3. /\ Class(tree, n) # "direct"
        /\ \A j \in 2 .. N : tree.parent[j] = tree.parent[n] => j = n
    BY <1>1, <1>2, <1>5, <2>1 DEF MethodPlaces, Kind
  <2> QED
    BY <2>2, <2>3
<1>6. ASSUME NEW n \in Nodes, n # 1, Kind(n) \in ClassNewBlock,
             NEW j \in {n} \cup Over(n), Class(tree, j) = "direct"
      PROVE  /\ Kind(tree.parent[j]) \notin {"stmts", "paren", "block", "casgn", "lvasgn"}
             /\ ~DefKind(Kind(tree.parent[j])) /\ ClassOf[Kind(tree.parent[j])] # "call"
  <2>1. n \in 2 .. N
    BY <1>1, <1>6
  <2>2. Over(n) = Ancestors(tree.parent, n)
    BY DEF Over
  <2> QED
    BY <1>1, <1>2, <1>6, <2>1, <2>2 DEF MethodPlaces, Kind
<1> QED
  BY <1>3, <1>4, <1>5, <1>6

\* The value of an assignment is its only child.
LEMMA CasgnChild ==
    ASSUME tree \in Shapes, NEW n \in Nodes, n # 1, Kind(tree.parent[n]) = "casgn"
    PROVE  Children(tree.parent, tree.parent[n])[1] = n
<1>1. PICK p : p = tree.parent[n] /\ p \in Nodes
  BY ParentIs
<1>2. PICK kids : kids = Children(tree.parent, p)
  OBVIOUS
<1>3. /\ kids \in Seq(Nodes) /\ Elements(kids) = {j \in Nodes : tree.parent[j] = p}
      /\ \A i \in 1 .. Len(kids) : kids[i] \in Nodes /\ tree.parent[kids[i]] = p
  BY <1>1, <1>2, KidsAre
<1>4. n \in Elements(kids)
  BY <1>1, <1>3
<1>5. PICK i \in 1 .. Len(kids) : kids[i] = n
  BY <1>4 DEF Elements
<1>6. 1 \in 1 .. Len(kids)
  BY <1>3, <1>5
<1>7. kids[1] \in Nodes /\ tree.parent[kids[1]] = p
  BY <1>3, <1>6
<1> QED
  BY <1>1, <1>2, <1>7, PlacesAre

\* The frames of the hooked nodes above a node tell its parent_module_name.
LEMMA NameIs ==
    ASSUME tree \in Shapes, NEW n \in Nodes
    PROVE  Pmn(MethodFrames(Hooked(n))) = Around[n].pmn
<1> DEFINE S == {x \in Nodes : Pmn(MethodFrames(Hooked(x))) = Around[x].pmn}
           F == [node : Nodes, pmn : FramePart]
<1>1. 1 \in S
  <2>1. Hooked(1) = <<>> /\ 1 \in Nodes
    BY ParentIs, HookedIs
  <2>2. MethodFrames(<<>>) \in Seq(F) /\ Len(MethodFrames(<<>>)) = 0
    <3>1. <<>> \in Seq(Nodes) /\ Len(<<>>) = 0
      OBVIOUS
    <3> QED
      BY <3>1, MethodFramesAre
  <2>3. MethodFrames(<<>>) = <<>>
    BY <2>2
  <2>4. \A f \in F : f.pmn \in FramePart
    OBVIOUS
  <2>5. Pmn(MethodFrames(<<>>)) = <<>>
    BY <2>2, <2>3, <2>4, PmnAppend
  <2>6. Around[1].pmn = <<>>
    BY <2>1, AroundIs DEF AroundRoot
  <2> QED
    BY <2>1, <2>5, <2>6
<1>2. ASSUME NEW x \in Nodes, x # 1, tree.parent[x] \in S PROVE x \in S
  <2>1. PICK p, h : p = tree.parent[x] /\ h = Hooked(p) /\ p \in Nodes
    BY <1>2, ParentIs
  <2>2. h \in Seq(Nodes) /\ Hooked(x) = IF p \in BranchNodes THEN Append(h, p) ELSE h
    BY <1>2, <2>1, HookedIs
  <2>3. PICK name : name = Around[p].pmn /\ name \in Name \cup {Unknown}
    BY <2>1, AroundIs DEF AroundType
  <2>4. Pmn(MethodFrames(h)) = name
    BY <1>2, <2>1, <2>3
  <2>5. Around[x].pmn = NameUnder(x, p, name)
    <3>1. Around[x] = AroundUnder(x, p, Around[p])
      BY <1>2, <2>1, AroundIs
    <3>2. \A a : AroundUnder(x, p, a).pmn = NameUnder(x, p, a.pmn)
      BY DEF AroundUnder
    <3> QED
      BY <2>3, <3>1, <3>2
  <2>6. CASE p \in BranchNodes
    <3>1. PICK f, a : f = MethodFrame(p) /\ a = Adds(p)
      OBVIOUS
    <3>2. f \in F /\ f.pmn = a /\ a \in FramePart
      BY <2>1, <3>1, AddsType DEF MethodFrame
    <3>3. PICK fs : fs = MethodFrames(h) /\ fs \in Seq(F) /\ MethodFrames(Append(h, p)) = Append(fs, f)
      <4>1. MethodFrames(h) \in Seq(F) /\ MethodFrames(Append(h, p)) = Append(MethodFrames(h), MethodFrame(p))
        BY <2>1, <2>2, MethodFramesAre
      <4> HIDE DEF F
      <4> QED
        BY <3>1, <4>1
    <3>4. \A g \in F : g.pmn \in FramePart
      OBVIOUS
    <3>5. Pmn(Append(fs, f)) = IF name = Unknown \/ a = Abort THEN Unknown
                               ELSE IF a = Invisible THEN name ELSE Append(name, a)
      <4> HIDE DEF F
      <4> QED
        BY <2>4, <3>2, <3>3, <3>4, PmnAppend
    <3>6. NameUnder(x, p, name) = IF name = Unknown \/ a = Abort THEN Unknown
                                  ELSE IF a = Invisible THEN name ELSE Append(name, a)
      <4>1. CASE Kind(p) = "sclassSelf"
        <5>1. a = IF name = Unknown THEN <<"<<">> ELSE <<"<<">> \o FlattenSeq(name)
          BY <2>3, <3>1, <4>1 DEF Adds
        <5>2. a \in Word
          BY <2>3, <5>1, WordsAre
        <5> QED
          BY <4>1, <5>1, <5>2, WordsAre DEF NameUnder
      <4>2. CASE Kind(p) = "newBlock"
        BY <3>1, <4>2, WordsAre DEF Adds, NameUnder
      <4>3. CASE Kind(p) = "casgn"
        <5>1. a = IF Kind(x) \in ClassNewBlock THEN <<"A">> ELSE Invisible
          BY <1>2, <2>1, <3>1, <4>3, CasgnChild DEF Adds, FramePmn
        <5> QED
          BY <4>3, <5>1, WordsAre DEF NameUnder
      <4>4. CASE Kind(p) \notin {"sclassSelf", "newBlock", "casgn"}
        <5>1. a = FramePmn(<<>>, p)
          BY <3>1, <4>4 DEF Adds
        <5>2. a = CASE Kind(p) = "classA" -> <<"A">>
                    [] Kind(p) = "classB" -> <<"B">>
                    [] Kind(p) = "sclassA" -> <<"<<", "A">>
                    [] Kind(p) = "sclassSend" -> Abort
                    [] Kind(p) = "evalA" -> <<"A">>
                    [] Kind(p) \in {"newArgsBlock", "recvBlock", "blockCall"} -> Abort
                    [] OTHER -> Invisible
          BY <4>4, <5>1 DEF FramePmn
        <5> QED
          BY <4>4, <5>2, WordsAre DEF NameUnder
      <4> QED
        BY <4>1, <4>2, <4>3, <4>4
    <3> QED
      BY <1>2, <2>2, <2>5, <2>6, <3>3, <3>5, <3>6
  <2>7. CASE p \notin BranchNodes
    <3>1. /\ Kind(p) \notin PlainBlock \cup Sclass
          /\ Kind(p) \notin {"classA", "classB", "casgn"}
      BY <2>1, <2>7, KindFacts
    <3>2. NameUnder(x, p, name) = name
      BY <3>1 DEF NameUnder, PlainBlock, ClassNewBlock, Sclass
    <3> QED
      BY <1>2, <2>1, <2>2, <2>4, <2>5, <2>7, <3>2
  <2> QED
    BY <2>6, <2>7
<1> HIDE DEF S
<1>3. Nodes \subseteq S
  BY <1>1, <1>2, TreeInduction
<1> QED
  BY <1>3 DEF S

\* An anonymous class is the value of a constant just when the innermost frame
\* around it is that of the assignment; so enter pushes the frame of the node.
LEMMA FrameIs ==
    ASSUME tree \in Shapes, NEW n \in Nodes
    PROVE  FramePmn(MethodFrames(Hooked(n)), n) = Adds(n)
<1>1. PICK h, fs : h = Hooked(n) /\ fs = MethodFrames(h) /\ h \in Seq(Nodes)
  BY HookedIs
<1>2. CASE Kind(n) = "sclassSelf"
  <2>1. Pmn(fs) = Around[n].pmn
    BY <1>1, NameIs
  <2> QED
    BY <1>1, <1>2, <2>1 DEF FramePmn, Adds
<1>3. CASE Kind(n) = "newBlock"
  <2>1. n # 1
    BY <1>3, PlacesAre
  <2>2. PICK p : p = tree.parent[n] /\ p \in Nodes
    BY <2>1, ParentIs
  <2>3. Hooked(n) = IF p \in BranchNodes THEN Append(Hooked(p), p) ELSE Hooked(p)
    BY <2>1, <2>2, HookedIs
  <2>4. Len(fs) = Len(h) /\ Len(h) \in Nat
    BY <1>1, MethodFramesAre
  <2>5. KindAt(fs, Len(fs)) = "casgn" <=> Kind(p) = "casgn"
    <3>1. CASE p \in BranchNodes
      <4>1. Len(h) # 0 /\ h[Len(h)] = p
        <5>1. Hooked(p) \in Seq(Nodes)
          BY <2>2, HookedIs
        <5> QED
          BY <1>1, <2>2, <2>3, <3>1, <5>1
      <4>2. KindAt(fs, Len(h)) = Kind(h[Len(h)])
        <5>1. Len(h) \in 1 .. Len(h)
          BY <2>4, <4>1
        <5> QED
          BY <1>1, <5>1, MethodFramesAre
      <4> QED
        BY <2>4, <4>1, <4>2
    <3>2. CASE p \notin BranchNodes
      <4>1. Kind(p) # "casgn"
        BY <2>2, <3>2, KindFacts
      <4>2. CASE h = <<>>
        <5>1. Len(h) \notin 1 .. Len(h)
          BY <4>2
        <5>2. KindAt(fs, Len(fs)) = "none"
          BY <1>1, <2>4, <5>1, MethodFramesAre
        <5> QED
          BY <4>1, <5>2
      <4>3. CASE h # <<>>
        <5>1. PICK q : q = h[Len(h)] /\ Len(h) \in 1 .. Len(h)
          BY <1>1, <4>3, LastHooked
        <5>2. PICK c \in Nodes : /\ tree.parent[c] = q /\ (c = n \/ c \in Over(n))
                                 /\ c # n => Class(tree, c) \in {"rescue", "direct"}
          BY <1>1, <4>3, <5>1, LastHooked
        <5>3. q \in BranchNodes /\ q \in Nodes
          BY <1>1, <5>1, HookedIs
        <5>4. c # n
          BY <2>2, <3>2, <5>2, <5>3
        <5>5. c # 1
          BY <5>2, <5>3, ParentIs
        <5>6. Kind(q) # "casgn"
          <6>1. SUFFICES ASSUME Kind(q) = "casgn" PROVE FALSE
            OBVIOUS
          <6>2. Class(tree, c) # "direct"
            BY <5>2, <5>5, <6>1, PlacesAre
          <6>3. Class(tree, q) = "rescue" \/ Kind(q) = "begin"
            BY <5>2, <5>4, <5>5, <6>2, PlacesAre
          <6>4. Class(tree, q) \in Branches /\ "rescue" \notin Branches
            BY <5>3 DEF BranchNodes, Branches, ClassIndex
          <6> QED
            BY <6>1, <6>3, <6>4
        <5>7. KindAt(fs, Len(fs)) = Kind(q)
          BY <1>1, <2>4, <5>1, MethodFramesAre
        <5> QED
          BY <4>1, <5>6, <5>7
      <4> QED
        BY <4>2, <4>3
    <3> QED
      BY <3>1, <3>2
  <2> QED
    BY <1>1, <1>3, <2>2, <2>5 DEF FramePmn, Adds
<1>4. CASE Kind(n) \notin {"sclassSelf", "newBlock"}
  BY <1>1, <1>4 DEF FramePmn, Adds
<1> QED
  BY <1>2, <1>3, <1>4

-----------------------------------------------------------------------------
(* What the frames tell, the innermost first.                              *)

\* The latest of some positions.
Latest(T) == IF T = {} THEN 0 ELSE CHOOSE i \in T : \A j \in T : j <= i

\* It is one of them.
LEMMA LatestIs ==
    ASSUME NEW l \in Nat, NEW T, T \subseteq 1 .. l
    PROVE  /\ T = {} => Latest(T) = 0
           /\ T # {} => Latest(T) \in T /\ Latest(T) \in 1 .. l /\ \A j \in T : j <= Latest(T)
           /\ Latest(T \cup {l + 1}) = l + 1
<1>1. T # {} => Latest(T) \in T /\ \A j \in T : j <= Latest(T)
  <2> SUFFICES ASSUME T # {} PROVE Latest(T) \in T /\ \A j \in T : j <= Latest(T)
    OBVIOUS
  <2>1. \E x \in T : \A y \in T : y <= x
    BY GreatestNumber
  <2> QED
    BY <2>1 DEF Latest
<1>2. Latest(T \cup {l + 1}) = l + 1
  <2>1. PICK U : U = T \cup {l + 1}
    OBVIOUS
  <2>2. l + 1 \in U /\ U # {} /\ \A j \in U : j <= l + 1
    BY <2>1
  <2>3. U \subseteq 1 .. l + 1
    BY <2>1
  <2>4. Latest(U) \in U /\ \A j \in U : j <= Latest(U)
    <3>1. \E x \in U : \A y \in U : y <= x
      BY <2>2
    <3> QED
      BY <2>2, <3>1 DEF Latest
  <2>5. Latest(U) <= l + 1 /\ l + 1 <= Latest(U) /\ Latest(U) \in 1 .. l + 1
    BY <2>2, <2>3, <2>4
  <2> QED
    BY <2>1, <2>5
<1> QED
  BY <1>1, <1>2 DEF Latest

Places(h, kinds) == {i \in 1 .. Len(h) : Kind(h[i]) \in kinds}

\* The innermost node of these kinds.
Innermost(h, kinds) ==
    IF Places(h, kinds) = {} THEN 0 ELSE h[Latest(Places(h, kinds))]

\* With one more node, that is the innermost if it is of these kinds.
LEMMA PlacesStep ==
    ASSUME NEW S, NEW h \in Seq(S), NEW n \in S, NEW kinds
    PROVE  /\ Places(<<>>, kinds) = {}
           /\ Places(h, kinds) \subseteq 1 .. Len(h) /\ Len(h) \in Nat
           /\ Places(h, kinds) # {} =>
                 /\ Latest(Places(h, kinds)) \in 1 .. Len(h)
                 /\ Kind(h[Latest(Places(h, kinds))]) \in kinds
           /\ Places(Append(h, n), kinds) =
                 IF Kind(n) \in kinds THEN Places(h, kinds) \cup {Len(h) + 1} ELSE Places(h, kinds)
           /\ Innermost(Append(h, n), kinds) = IF Kind(n) \in kinds THEN n ELSE Innermost(h, kinds)
<1>1. PICK g : g = Append(h, n)
  OBVIOUS
<1>2. PICK l \in Nat : l = Len(h)
  OBVIOUS
<1>3. /\ Len(g) = l + 1 /\ g[l + 1] = n /\ \A i \in 1 .. l : g[i] = h[i]
      /\ \A i \in 1 .. l + 1 : i # l + 1 => i \in 1 .. l
  BY <1>1, <1>2, AppendAt
<1>4. PICK P : P = Places(h, kinds) /\ P \subseteq 1 .. l
  BY <1>2 DEF Places
<1>5. Places(g, kinds) = IF Kind(n) \in kinds THEN P \cup {l + 1} ELSE P
  <2>1. \A i : i \in Places(g, kinds) <=> i \in 1 .. l + 1 /\ Kind(g[i]) \in kinds
    BY <1>3 DEF Places
  <2>2. \A i : i \in P <=> i \in 1 .. l /\ Kind(h[i]) \in kinds
    BY <1>2, <1>4 DEF Places
  <2>3. \A i : i \in 1 .. l + 1 <=> i \in 1 .. l \/ i = l + 1
    OBVIOUS
  <2>4. l + 1 \notin 1 .. l
    OBVIOUS
  <2>5. \A i : i \in Places(g, kinds) <=> i \in P \/ (i = l + 1 /\ Kind(n) \in kinds)
    BY <1>3, <2>1, <2>2, <2>3, <2>4
  <2> QED
    BY <2>5
<1>6. Innermost(g, kinds) = IF Kind(n) \in kinds THEN n ELSE Innermost(h, kinds)
  <2>1. CASE Kind(n) \in kinds
    <3>1. Latest(P \cup {l + 1}) = l + 1
      BY <1>4, LatestIs
    <3> QED
      BY <1>3, <1>5, <2>1, <3>1 DEF Innermost
  <2>2. CASE Kind(n) \notin kinds
    <3>1. P # {} => Latest(P) \in 1 .. l
      BY <1>4, LatestIs
    <3> QED
      BY <1>3, <1>4, <1>5, <2>2, <3>1 DEF Innermost
  <2> QED
    BY <2>1, <2>2
<1>7. P # {} => Latest(P) \in 1 .. l /\ Latest(P) \in P
  BY <1>4, LatestIs
<1>8. Places(<<>>, kinds) = {}
  <2>1. 1 .. Len(<<>>) = {}
    OBVIOUS
  <2> QED
    BY <2>1 DEF Places
<1>9. \A i \in P : Kind(h[i]) \in kinds
  BY <1>4 DEF Places
<1> QED
  BY <1>1, <1>2, <1>4, <1>5, <1>6, <1>7, <1>8, <1>9

HookedKinds(kinds) == \A x \in Nodes : Kind(x) \in kinds => x \in BranchNodes

\* The same from a node to its parent.
LEMMA InnermostUp ==
    ASSUME tree \in Shapes, NEW n \in Nodes, NEW kinds, HookedKinds(kinds)
    PROVE  /\ n = 1 => Places(Hooked(n), kinds) = {} /\ Innermost(Hooked(n), kinds) = 0
           /\ n # 1 =>
                 /\ Places(Hooked(n), kinds) # {} <=>
                       Kind(tree.parent[n]) \in kinds \/ Places(Hooked(tree.parent[n]), kinds) # {}
                 /\ Innermost(Hooked(n), kinds) =
                       IF Kind(tree.parent[n]) \in kinds THEN tree.parent[n]
                       ELSE Innermost(Hooked(tree.parent[n]), kinds)
<1>1. CASE n = 1
  <2>1. Hooked(n) = <<>>
    BY <1>1, HookedIs
  <2>2. Places(<<>>, kinds) = {}
    <3>1. 1 .. Len(<<>>) = {}
      OBVIOUS
    <3> QED
      BY <3>1 DEF Places
  <2> QED
    BY <1>1, <2>1, <2>2 DEF Innermost
<1>2. CASE n # 1
  <2>1. PICK p, h, A : p = tree.parent[n] /\ h = Hooked(p) /\ A = Nodes /\ p \in A
    BY <1>2, ParentIs
  <2>2. h \in Seq(A) /\ Hooked(n) = IF p \in BranchNodes THEN Append(h, p) ELSE h
    BY <1>2, <2>1, HookedIs
  <2>3. CASE p \in BranchNodes
    <3>1. /\ Places(Append(h, p), kinds) =
                IF Kind(p) \in kinds THEN Places(h, kinds) \cup {Len(h) + 1} ELSE Places(h, kinds)
          /\ Innermost(Append(h, p), kinds) = IF Kind(p) \in kinds THEN p ELSE Innermost(h, kinds)
      <4>1. h \in Seq(A) /\ p \in A
        BY <2>1, <2>2
      <4> QED
        BY <4>1, PlacesStep
    <3> QED
      BY <1>2, <2>1, <2>2, <2>3, <3>1
  <2>4. CASE p \notin BranchNodes
    <3>1. Kind(p) \notin kinds
      BY <2>1, <2>4 DEF HookedKinds
    <3> QED
      BY <1>2, <2>1, <2>2, <2>4, <3>1
  <2> QED
    BY <2>3, <2>4
<1> QED
  BY <1>1, <1>2

DefinitionKinds == {"def", "defs", "defOnA"}
NamedKinds == {"classA", "casgn"}
Nonself == Sclass \ {"sclassSelf"}

\* These kinds have hooks.
LEMMA MethodKindsHooked ==
    ASSUME tree \in Shapes
    PROVE  /\ HookedKinds(PlainBlock) /\ HookedKinds(NamedKinds) /\ HookedKinds({"if"})
           /\ HookedKinds(DefinitionKinds) /\ HookedKinds(Sclass) /\ HookedKinds(Nonself)
  BY KindFacts DEF HookedKinds, NamedKinds, DefinitionKinds, Nonself

\* What the hooked nodes h above a node tell.
Tells(h, a) ==
    /\ a.block = Innermost(h, PlainBlock)
    /\ a.named = Innermost(h, NamedKinds)
    /\ a.inIf <=> Places(h, {"if"}) # {}
    /\ a.inDef <=> Places(h, DefinitionKinds) # {}
    /\ a.sclasses # <<>> <=> Places(h, Sclass) # {}
    /\ (\A i \in DOMAIN a.sclasses : a.sclasses[i] = "sclassSelf") <=> Places(h, Nonself) = {}
    /\ a.sclasses # <<>> => Last(a.sclasses) = Kind(Innermost(h, Sclass))

\* They tell what the ancestors tell.
LEMMA AroundTells ==
    ASSUME tree \in Shapes, NEW n \in Nodes
    PROVE  Tells(Hooked(n), Around[n])
<1> DEFINE S == {x \in Nodes : Tells(Hooked(x), Around[x])}
<1>1. 1 \in S
  <2>1. 1 \in Nodes /\ Around[1] = AroundRoot
    BY ParentIs, AroundIs
  <2>2. PICK h : h = Hooked(1)
    OBVIOUS
  <2>3. /\ Innermost(h, PlainBlock) = 0 /\ Innermost(h, NamedKinds) = 0
        /\ Places(h, {"if"}) = {} /\ Places(h, DefinitionKinds) = {}
        /\ Places(h, Sclass) = {} /\ Places(h, Nonself) = {}
    BY <2>1, <2>2, MethodKindsHooked, InnermostUp
  <2>4. DOMAIN <<>> = {}
    OBVIOUS
  <2>5. Tells(h, AroundRoot)
    BY <2>3, <2>4 DEF Tells, AroundRoot
  <2> QED
    BY <2>1, <2>2, <2>5
<1>2. ASSUME NEW x \in Nodes, x # 1, tree.parent[x] \in S PROVE x \in S
  <2>1. PICK p, h, g : p = tree.parent[x] /\ h = Hooked(p) /\ g = Hooked(x) /\ p \in Nodes
    BY <1>2, ParentIs
  <2>2. PICK a, b : a = Around[p] /\ b = Around[x] /\ a \in AroundType /\ b = AroundUnder(x, p, a)
    BY <1>2, <2>1, AroundIs
  <2>3. Tells(h, a)
    BY <1>2, <2>1, <2>2
  <2>4. ASSUME NEW kinds, HookedKinds(kinds)
        PROVE  /\ Places(g, kinds) # {} <=> Kind(p) \in kinds \/ Places(h, kinds) # {}
               /\ Innermost(g, kinds) = IF Kind(p) \in kinds THEN p ELSE Innermost(h, kinds)
    BY <1>2, <2>1, <2>4, InnermostUp
  <2>5. /\ b.block = IF Kind(p) \in PlainBlock THEN p ELSE a.block
        /\ b.inIf <=> a.inIf \/ Kind(p) = "if"
        /\ b.inDef <=> a.inDef \/ DefKind(Kind(p))
        /\ b.named = IF Kind(p) \in {"classA", "casgn"} THEN p ELSE a.named
        /\ b.sclasses = IF Kind(p) \in Sclass THEN Append(a.sclasses, Kind(p)) ELSE a.sclasses
    <3>1. PICK u, v : /\ u = (a.inIf \/ Kind(p) = "if") /\ u \in BOOLEAN
                      /\ v = (a.inDef \/ DefKind(Kind(p))) /\ v \in BOOLEAN
      OBVIOUS
    <3>2. b.inIf = u /\ b.inDef = v
      BY <2>2, <3>1 DEF AroundUnder
    <3>3. /\ b.block = IF Kind(p) \in PlainBlock THEN p ELSE a.block
          /\ b.named = IF Kind(p) \in {"classA", "casgn"} THEN p ELSE a.named
          /\ b.sclasses = IF Kind(p) \in Sclass THEN Append(a.sclasses, Kind(p)) ELSE a.sclasses
      BY <2>2 DEF AroundUnder
    <3> QED
      BY <3>1, <3>2, <3>3
  <2>6. b.block = Innermost(g, PlainBlock) /\ b.named = Innermost(g, NamedKinds)
    BY <2>3, <2>4, <2>5, MethodKindsHooked DEF Tells, NamedKinds
  <2>7. b.inIf <=> Places(g, {"if"}) # {}
    BY <2>3, <2>4, <2>5, MethodKindsHooked DEF Tells
  <2>8. b.inDef <=> Places(g, DefinitionKinds) # {}
    <3>1. DefKind(Kind(p)) <=> Kind(p) \in DefinitionKinds
      BY DEF DefKind, DefinitionKinds
    <3> QED
      BY <2>3, <2>4, <2>5, <3>1, MethodKindsHooked DEF Tells
  <2>9. PICK s : s = a.sclasses /\ s \in Seq(Sclass)
    BY <2>2 DEF AroundType
  <2>10. /\ b.sclasses # <<>> <=> Places(g, Sclass) # {}
         /\ (\A i \in DOMAIN b.sclasses : b.sclasses[i] = "sclassSelf") <=> Places(g, Nonself) = {}
         /\ b.sclasses # <<>> => Last(b.sclasses) = Kind(Innermost(g, Sclass))
    <3>1. /\ s # <<>> <=> Places(h, Sclass) # {}
          /\ (\A i \in DOMAIN s : s[i] = "sclassSelf") <=> Places(h, Nonself) = {}
          /\ s # <<>> => Last(s) = Kind(Innermost(h, Sclass))
      BY <2>3, <2>9 DEF Tells
    <3>2. CASE Kind(p) \in Sclass
      <4>1. PICK k, t : k = Kind(p) /\ t = Append(s, k) /\ k \in Sclass
        BY <3>2
      <4>2. b.sclasses = t
        BY <2>5, <2>9, <3>2, <4>1
      <4>3. /\ Len(s) \in Nat /\ DOMAIN s = 1 .. Len(s) /\ DOMAIN t = 1 .. Len(s) + 1
            /\ Len(t) = Len(s) + 1 /\ t[Len(s) + 1] = k /\ \A i \in 1 .. Len(s) : t[i] = s[i]
            /\ \A i \in 1 .. Len(s) + 1 : i # Len(s) + 1 => i \in 1 .. Len(s)
        BY <2>9, <4>1, AppendAt
      <4>4. t # <<>> /\ Last(t) = k
        BY <4>3 DEF Last
      <4>5. (\A i \in DOMAIN t : t[i] = "sclassSelf")
                <=> k = "sclassSelf" /\ \A i \in DOMAIN s : s[i] = "sclassSelf"
        <5>1. Len(s) + 1 \in DOMAIN t /\ \A i \in DOMAIN s : i \in DOMAIN t
          BY <4>3
        <5> QED
          BY <4>3, <5>1
      <4>6. k \in Nonself <=> k # "sclassSelf"
        BY <4>1 DEF Nonself
      <4>7. Places(g, Nonself) # {} <=> k \in Nonself \/ Places(h, Nonself) # {}
        BY <2>4, <4>1, MethodKindsHooked
      <4>8. Places(g, Sclass) # {} /\ Innermost(g, Sclass) = p
        BY <2>4, <4>1, MethodKindsHooked
      <4> QED
        BY <3>1, <4>1, <4>2, <4>4, <4>5, <4>6, <4>7, <4>8
    <3>3. CASE Kind(p) \notin Sclass
      <4>1. b.sclasses = s
        BY <2>5, <2>9, <3>3
      <4>2. Kind(p) \notin Nonself
        BY <3>3 DEF Nonself
      <4>3. /\ Places(g, Sclass) # {} <=> Places(h, Sclass) # {}
            /\ Places(g, Nonself) # {} <=> Places(h, Nonself) # {}
            /\ Innermost(g, Sclass) = Innermost(h, Sclass)
        BY <2>4, <3>3, <4>2, MethodKindsHooked
      <4> QED
        BY <3>1, <4>1, <4>3
    <3> QED
      BY <3>2, <3>3
  <2>11. Tells(g, b)
    BY <2>6, <2>7, <2>8, <2>10 DEF Tells
  <2> QED
    BY <1>2, <2>1, <2>2, <2>11
<1> HIDE DEF S
<1>3. Nodes \subseteq S
  BY <1>1, <1>2, TreeInduction
<1> QED
  BY <1>3 DEF S

-----------------------------------------------------------------------------
(* The rescue or ensure a node is under.                                   *)

\* In an ensure clause of x, or that clause itself.
InEnsureAt(x, k) == \E e \in Clauses(x) : Kind(e) = "ensure" /\ (k = e \/ e \in Over(k))

ScopeAt(x, k) ==
    IF Kind(x) = "rescueMod" THEN 1
    ELSE IF Kind(x) # "begin" \/ Clauses(x) = {} THEN 0
    ELSE IF HasRescueClause(x) /\ ~InEnsureAt(x, k) THEN 1
    ELSE 2

ScopePlaces(h, k) == {i \in 1 .. Len(h) : ScopeAt(h[i], k) # 0}

ScopeIn(h, k) ==
    IF ScopePlaces(h, k) = {} THEN 0 ELSE ScopeAt(h[Latest(ScopePlaces(h, k))], k)

\* Going to a child, the scopes further out stay what they were.
LEMMA ScopeOutside ==
    ASSUME tree \in Shapes, NEW n \in Nodes, n # 1, NEW x \in Over(tree.parent[n])
    PROVE  ScopeAt(x, n) = ScopeAt(x, tree.parent[n])
<1>1. PICK p : p = tree.parent[n] /\ p \in Nodes /\ Over(n) = Over(p) \cup {p}
  BY ParentIs
<1>2. x < p /\ x \in Nodes /\ x \in Nat /\ p \in Nat
  BY <1>1, ParentIs
<1>3. ASSUME NEW e \in Clauses(x) PROVE e # n
  <2>1. tree.parent[e] = x
    BY <1>3 DEF Clauses
  <2> QED
    BY <1>1, <1>2, <2>1
<1>4. InEnsureAt(x, n) <=> InEnsureAt(x, p)
  BY <1>1, <1>3 DEF InEnsureAt
<1> QED
  BY <1>1, <1>4 DEF ScopeAt

\* The clauses of a node.
LEMMA ClausesAre ==
    ASSUME tree \in Shapes, NEW x \in Nodes
    PROVE  \A k : k \in Clauses(x) <=>
                     k \in Nodes /\ tree.parent[k] = x /\ (Class(tree, k) = "rescue" \/ Kind(k) = "ensure")
<1>1. Nodes = DOMAIN tree.kind
  BY TreeFacts
<1> QED
  BY <1>1 DEF Clauses

\* What a node adds for its child is what the stock cop finds in the parent.
LEMMA ScopeOfParent ==
    ASSUME tree \in Shapes, NEW n \in Nodes, n # 1, NEW p, p = tree.parent[n], p \in BranchNodes, NEW a
    PROVE  LET found == IF Kind(n) = "ensure" THEN 2
                        ELSE IF Kind(p) = "rescueMod" \/ HasRescueClause(p) THEN 1
                        ELSE IF Kind(p) = "begin" /\ Clauses(p) # {} THEN 2
                        ELSE a
           IN  found = IF ScopeAt(p, n) # 0 THEN ScopeAt(p, n) ELSE a
<1>1. p \in Nodes /\ Over(n) = Over(p) \cup {p} /\ p \in Nat /\ \A x \in Over(p) : x < p
  BY ParentIs
<1>2. \A k : k \in Clauses(p) <=>
                k \in Nodes /\ tree.parent[k] = p /\ (Class(tree, k) = "rescue" \/ Kind(k) = "ensure")
  BY <1>1, ClausesAre
<1>3. InEnsureAt(p, n) <=> Kind(n) = "ensure"
  <2>1. ASSUME NEW e \in Clauses(p) PROVE e \notin Over(n)
    <3>1. e \in Nodes /\ tree.parent[e] = p
      BY <1>2, <2>1
    <3>2. p < e /\ e \in Nat
      <4>1. e # 1
        BY <1>1, <3>1, ParentIs
      <4> QED
        BY <3>1, <4>1, ParentIs
    <3> QED
      BY <1>1, <3>2
  <2>2. n \in Clauses(p) <=> Class(tree, n) = "rescue" \/ Kind(n) = "ensure"
    BY <1>2
  <2> QED
    BY <2>1, <2>2 DEF InEnsureAt
<1>4. Kind(n) = "ensure" => Kind(p) = "begin" /\ Clauses(p) # {}
  BY <1>2, PlacesAre
<1>5. HasRescueClause(p) => Kind(p) = "begin" /\ Clauses(p) # {}
  <2> SUFFICES ASSUME HasRescueClause(p) PROVE Kind(p) = "begin" /\ Clauses(p) # {}
    OBVIOUS
  <2>1. PICK c \in Clauses(p) : Class(tree, c) = "rescue"
    BY DEF HasRescueClause
  <2>2. c \in Nodes /\ tree.parent[c] = p /\ c # 1
    BY <1>1, <1>2, <2>1, ParentIs
  <2>3. Class(tree, p) = "rescue" \/ Kind(p) = "begin"
    BY <2>1, <2>2, PlacesAre
  <2>4. Class(tree, p) # "rescue"
    BY DEF BranchNodes, Branches, ClassIndex
  <2> QED
    BY <2>1, <2>3, <2>4
<1>6. CASE Kind(p) = "rescueMod"
  <2>1. Kind(n) # "ensure" /\ ScopeAt(p, n) = 1
    BY <1>4, <1>6 DEF ScopeAt
  <2> QED
    BY <1>6, <2>1
<1>7. CASE Kind(p) = "begin" /\ Clauses(p) # {}
  <2>1. ScopeAt(p, n) = IF HasRescueClause(p) /\ Kind(n) # "ensure" THEN 1 ELSE 2
    BY <1>3, <1>7 DEF ScopeAt
  <2> QED
    BY <1>7, <2>1
<1>8. CASE Kind(p) # "rescueMod" /\ ~(Kind(p) = "begin" /\ Clauses(p) # {})
  <2>1. Kind(n) # "ensure" /\ ~HasRescueClause(p)
    BY <1>4, <1>5, <1>8
  <2>2. ScopeAt(p, n) = 0
    BY <1>8 DEF ScopeAt
  <2> QED
    BY <1>8, <2>1, <2>2
<1> QED
  BY <1>6, <1>7, <1>8

\* One step of the frames: the innermost that is a scope.
LEMMA ScopeInStep ==
    ASSUME NEW S, NEW h \in Seq(S), NEW p \in S, NEW n, NEW m,
           \A i \in 1 .. Len(h) : ScopeAt(h[i], n) = ScopeAt(h[i], m)
    PROVE  /\ ScopeIn(h, n) = ScopeIn(h, m)
           /\ ScopeIn(Append(h, p), n) = IF ScopeAt(p, n) # 0 THEN ScopeAt(p, n) ELSE ScopeIn(h, m)
<1>1. PICK l \in Nat : l = Len(h)
  OBVIOUS
<1>2. PICK g : g = Append(h, p)
  OBVIOUS
<1>3. /\ Len(g) = l + 1 /\ g[l + 1] = p /\ \A i \in 1 .. l : g[i] = h[i]
      /\ \A i \in 1 .. l + 1 : i # l + 1 => i \in 1 .. l
  BY <1>1, <1>2, AppendAt
<1>4. PICK P : P = ScopePlaces(h, m) /\ P \subseteq 1 .. l
  BY <1>1 DEF ScopePlaces
<1>5. ScopePlaces(h, n) = P
  BY <1>1, <1>4 DEF ScopePlaces
<1>6. P # {} => Latest(P) \in 1 .. l
  BY <1>4, LatestIs
<1>7. ScopeIn(h, n) = ScopeIn(h, m)
  BY <1>1, <1>4, <1>5, <1>6 DEF ScopeIn
<1>8. ScopePlaces(g, n) = IF ScopeAt(p, n) # 0 THEN P \cup {l + 1} ELSE P
  <2>1. \A i : i \in ScopePlaces(g, n) <=> i \in 1 .. l + 1 /\ ScopeAt(g[i], n) # 0
    BY <1>3 DEF ScopePlaces
  <2>2. \A i : i \in P <=> i \in 1 .. l /\ ScopeAt(h[i], n) # 0
    BY <1>1, <1>5 DEF ScopePlaces
  <2>3. \A i : i \in 1 .. l + 1 <=> i \in 1 .. l \/ i = l + 1
    OBVIOUS
  <2>4. l + 1 \notin 1 .. l
    OBVIOUS
  <2>5. \A i : i \in ScopePlaces(g, n) <=> i \in P \/ (i = l + 1 /\ ScopeAt(p, n) # 0)
    BY <1>3, <2>1, <2>2, <2>3, <2>4
  <2> QED
    BY <2>5
<1>9. CASE ScopeAt(p, n) # 0
  <2>1. Latest(P \cup {l + 1}) = l + 1
    BY <1>4, LatestIs
  <2> QED
    BY <1>2, <1>3, <1>7, <1>8, <1>9, <2>1 DEF ScopeIn
<1>10. CASE ScopeAt(p, n) = 0
  BY <1>2, <1>3, <1>5, <1>6, <1>7, <1>8, <1>10 DEF ScopeIn
<1> QED
  BY <1>7, <1>9, <1>10

\* At every node the frames tell the scope the stock cop finds.
LEMMA ScopeIs ==
    ASSUME tree \in Shapes, NEW n \in Nodes
    PROVE  ScopeIn(Hooked(n), n) = Around[n].scope
<1> DEFINE S == {x \in Nodes : ScopeIn(Hooked(x), x) = Around[x].scope}
<1>1. 1 \in S
  <2>1. 1 \in Nodes /\ Hooked(1) = <<>> /\ Around[1].scope = 0
    BY ParentIs, HookedIs, AroundIs DEF AroundRoot
  <2>2. ScopePlaces(<<>>, 1) = {}
    <3>1. 1 .. Len(<<>>) = {}
      OBVIOUS
    <3> QED
      BY <3>1 DEF ScopePlaces
  <2> QED
    BY <2>1, <2>2 DEF ScopeIn
<1>2. ASSUME NEW x \in Nodes, x # 1, tree.parent[x] \in S PROVE x \in S
  <2>1. PICK p, h, A : p = tree.parent[x] /\ h = Hooked(p) /\ A = Nodes /\ p \in A
    BY <1>2, ParentIs
  <2>2. h \in Seq(A) /\ Hooked(x) = IF p \in BranchNodes THEN Append(h, p) ELSE h
    BY <1>2, <2>1, HookedIs
  <2>3. \A i \in 1 .. Len(h) : ScopeAt(h[i], x) = ScopeAt(h[i], p)
    <3>1. \A i \in 1 .. Len(h) : h[i] \in Over(p)
      BY <2>1, HookedIs
    <3> QED
      BY <1>2, <2>1, <3>1, ScopeOutside
  <2>4. /\ ScopeIn(h, x) = ScopeIn(h, p)
        /\ ScopeIn(Append(h, p), x) = IF ScopeAt(p, x) # 0 THEN ScopeAt(p, x) ELSE ScopeIn(h, p)
    BY <2>1, <2>2, <2>3, ScopeInStep
  <2>5. PICK a : a = Around[p].scope /\ ScopeIn(h, p) = a
    BY <1>2, <2>1
  <2>6. Around[x].scope = IF Kind(x) = "ensure" THEN 2
                          ELSE IF Kind(p) = "rescueMod" \/ HasRescueClause(p) THEN 1
                          ELSE IF Kind(p) = "begin" /\ Clauses(p) # {} THEN 2
                          ELSE a
    <3>1. Around[x] = AroundUnder(x, p, Around[p])
      BY <1>2, <2>1, AroundIs
    <3> QED
      BY <2>5, <3>1 DEF AroundUnder
  <2>7. CASE p \in BranchNodes
    <3>1. Around[x].scope = IF ScopeAt(p, x) # 0 THEN ScopeAt(p, x) ELSE a
      BY <1>2, <2>1, <2>6, <2>7, ScopeOfParent
    <3> QED
      BY <1>2, <2>2, <2>4, <2>5, <2>7, <3>1
  <2>8. CASE p \notin BranchNodes
    <3>1. Kind(x) # "ensure" /\ Kind(p) # "rescueMod" /\ Kind(p) # "begin"
      <4>1. Kind(p) # "rescueMod" /\ Kind(p) # "begin"
        BY <2>1, <2>8, KindFacts
      <4> QED
        BY <1>2, <2>1, <4>1, PlacesAre
    <3>2. HasRescueClause(p) => a = 1
      <4> SUFFICES ASSUME HasRescueClause(p) PROVE a = 1
        OBVIOUS
      <4>1. PICK c \in Clauses(p) : Class(tree, c) = "rescue"
        BY DEF HasRescueClause
      <4>2. c \in Nodes /\ tree.parent[c] = p /\ c # 1
        BY <2>1, <4>1, ClausesAre, ParentIs
      <4>3. Class(tree, p) = "rescue"
        BY <3>1, <4>1, <4>2, PlacesAre
      <4>4. p # 1
        BY <3>1, <4>3, PlacesAre, KindFacts, <2>1, <2>8
      <4>5. PICK q : q = tree.parent[p] /\ q \in Nodes
        BY <2>1, <4>4, ParentIs
      <4>6. HasRescueClause(q)
        <5>1. p \in Clauses(q)
          BY <2>1, <4>3, <4>5, ClausesAre
        <5> QED
          BY <4>3, <5>1 DEF HasRescueClause
      <4>7. Kind(p) # "ensure"
        BY <2>1, <4>3, KindFacts
      <4>8. Around[p] = AroundUnder(p, q, Around[q])
        BY <2>1, <4>4, <4>5, AroundIs
      <4> QED
        BY <2>5, <4>6, <4>7, <4>8 DEF AroundUnder
    <3>3. Around[x].scope = a
      BY <2>6, <3>1, <3>2
    <3> QED
      BY <1>2, <2>2, <2>4, <2>5, <2>8, <3>3
  <2> QED
    BY <2>7, <2>8
<1> HIDE DEF S
<1>3. Nodes \subseteq S
  BY <1>1, <1>2, TreeInduction
<1> QED
  BY <1>3 DEF S

\* So the rule says of every definition.
LEMMA RescueScopeIs ==
    ASSUME tree \in Shapes, NEW n \in Nodes, Kind(n) # "ensure"
    PROVE  RescueScope(MethodFrames(Hooked(n)), n) = Around[n].scope
<1>1. PICK h, fs : h = Hooked(n) /\ fs = MethodFrames(h) /\ h \in Seq(Nodes)
  BY HookedIs
<1>2. /\ DOMAIN fs = 1 .. Len(h) /\ Len(h) \in Nat
      /\ \A i \in 1 .. Len(h) : fs[i].node = h[i] /\ h[i] \in Nodes
  <2>1. /\ DOMAIN MethodFrames(h) = 1 .. Len(h) /\ Len(h) \in Nat
        /\ \A i \in 1 .. Len(h) : MethodFrames(h)[i].node = h[i]
    BY <1>1, MethodFramesAre
  <2>2. \A i \in 1 .. Len(h) : h[i] \in Nodes
    BY <1>1
  <2> QED
    BY <1>1, <2>1, <2>2
<1>3. ASSUME NEW x \in Nodes PROVE RescueScopeOf(x, n) = ScopeAt(x, n)
  <2>1. ASSUME NEW e PROVE n \in Below(tree.parent, e) <=> e \in Over(n)
    BY DEF Below, Over, Nodes
  <2>2. InEnsure(x, n) <=> InEnsureAt(x, n)
    BY <2>1 DEF InEnsure, InEnsureAt
  <2> QED
    BY <2>2 DEF RescueScopeOf, ScopeAt
<1>4. PICK P : P = ScopePlaces(h, n) /\ P \subseteq 1 .. Len(h)
  BY DEF ScopePlaces
<1> DEFINE inside == {i \in DOMAIN fs : RescueScopeOf(fs[i].node, n) # 0}
<1>5. RescueScope(fs, n) = IF inside = {} THEN 0 ELSE RescueScopeOf(fs[Latest(inside)].node, n)
  BY DEF RescueScope, Latest
<1>6. inside = P
  BY <1>2, <1>3, <1>4 DEF ScopePlaces
<1> HIDE DEF inside
<1>7. P # {} => Latest(P) \in 1 .. Len(h)
  BY <1>2, <1>4, LatestIs
<1>8. RescueScope(fs, n) = ScopeIn(h, n)
  BY <1>2, <1>3, <1>4, <1>5, <1>6, <1>7 DEF ScopeIn
<1> QED
  BY <1>1, <1>8, ScopeIs

-----------------------------------------------------------------------------
(* The place of an anonymous class.                                        *)

\* Kinds that have a hook.
TightKinds ==
    {"stmts", "paren", "block", "casgn", "lvasgn"} \cup DefinitionKinds
        \cup {k \in DOMAIN ClassOf : ClassOf[k] = "call"}

TopKind(h) == IF h = <<>> THEN "none" ELSE Kind(h[Len(h)])

\* The innermost frame over a node around an anonymous class is its parent, or
\* of no kind that tells the class's place, and neither is the parent.
LEMMA AboveTight ==
    ASSUME tree \in Shapes, NEW b \in Nodes, Kind(b) \in ClassNewBlock,
           NEW x \in {b} \cup Over(b), x # 1, NEW p, p = tree.parent[x]
    PROVE  /\ p \in Nodes /\ p \in Over(b) /\ Hooked(p) \in Seq(Nodes)
           /\ p \in BranchNodes =>
                 Hooked(x) = Append(Hooked(p), p) /\ TopKind(Hooked(x)) = Kind(p)
           /\ p \notin BranchNodes => Kind(p) \notin TightKinds /\ TopKind(Hooked(x)) \notin TightKinds
<1>1. x \in Nodes /\ p \in Nodes /\ p \in Over(x) /\ Over(x) \subseteq Over(b)
  <2>1. x \in Nodes /\ Over(x) \subseteq Over(b)
    BY OverInOver
  <2> QED
    BY <2>1, ParentIs
<1>2. Hooked(p) \in Seq(Nodes) /\ Hooked(x) \in Seq(Nodes)
  BY <1>1, HookedIs
<1>3. Hooked(x) = IF p \in BranchNodes THEN Append(Hooked(p), p) ELSE Hooked(p)
  BY <1>1, HookedIs
<1>4. CASE p \in BranchNodes
  <2>1. PICK g : g = Hooked(p) /\ g \in Seq(Nodes)
    BY <1>2
  <2>2. Append(g, p) # <<>> /\ Append(g, p)[Len(Append(g, p))] = p
    BY <1>1, <2>1
  <2>3. TopKind(Append(g, p)) = Kind(p)
    BY <2>2 DEF TopKind
  <2> QED
    BY <1>1, <1>2, <1>3, <1>4, <2>1, <2>3
<1>5. CASE p \notin BranchNodes
  <2>1. Kind(p) \notin TightKinds
    <3>1. Kind(p) \notin {"stmts", "paren", "block", "casgn", "lvasgn"} \cup DefinitionKinds
      BY <1>1, <1>5, KindFacts DEF DefinitionKinds
    <3>2. Class(tree, p) # "call" /\ Class(tree, p) = ClassOf[Kind(p)]
      BY <1>1, <1>5, KindFacts
    <3> QED
      BY <3>1, <3>2 DEF TightKinds
  <2>2. CASE Hooked(x) = <<>>
    <3>1. TopKind(Hooked(x)) = "none"
      BY <2>2 DEF TopKind
    <3>2. "none" \notin DOMAIN ClassOf
      BY MethodKindsAssumption
    <3>3. "none" \notin TightKinds
      BY <3>2 DEF TightKinds, DefinitionKinds
    <3> QED
      BY <1>1, <1>2, <1>5, <2>1, <3>1, <3>3
  <2>3. CASE Hooked(x) # <<>>
    <3>1. PICK q, l : q = Hooked(x)[Len(Hooked(x))] /\ l = Len(Hooked(x)) /\ l \in 1 .. l
      <4>1. Len(Hooked(x)) \in Nat \ {0}
        BY <1>1, <2>3, LastHooked
      <4> QED
        BY <4>1
    <3>2. PICK c \in Nodes : /\ tree.parent[c] = q /\ (c = x \/ c \in Over(x))
                             /\ c # x => Class(tree, c) \in {"rescue", "direct"}
      BY <1>1, <2>3, <3>1, LastHooked
    <3>3. q \in BranchNodes
      BY <1>1, <3>1, HookedIs
    <3>4. q \in Nodes /\ Class(tree, q) \in Branches
      BY <3>3 DEF BranchNodes
    <3>5. c # x /\ c \in Over(b)
      BY <1>1, <1>5, <3>2, <3>3
    <3>6. c # 1
      BY <3>2, <3>4, ParentIs
    <3>7. Kind(q) \notin TightKinds
      <4>1. CASE Class(tree, c) = "direct"
        <5>1. b # 1
          BY <3>5, ParentIs
        <5>2. /\ Kind(q) \notin {"stmts", "paren", "block", "casgn", "lvasgn"}
              /\ ~DefKind(Kind(q)) /\ ClassOf[Kind(q)] # "call"
          BY <3>2, <3>5, <4>1, <5>1, PlacesAre
        <5> QED
          BY <5>2 DEF TightKinds, DefinitionKinds, DefKind
      <4>2. CASE Class(tree, c) = "rescue"
        <5>1. Class(tree, q) = "rescue" \/ Kind(q) = "begin"
          BY <3>2, <3>6, <4>2, PlacesAre
        <5>2. Kind(q) = "begin"
          BY <3>4, <5>1 DEF Branches, ClassIndex
        <5>3. ClassOf[Kind(q)] # "call"
          BY <3>4, <5>2, KindFacts
        <5> QED
          BY <5>2, <5>3 DEF TightKinds, DefinitionKinds
      <4> QED
        BY <3>2, <3>5, <4>1, <4>2
    <3>8. TopKind(Hooked(x)) = Kind(q)
      BY <2>3, <3>1 DEF TopKind
    <3> QED
      BY <1>1, <1>2, <1>5, <2>1, <3>7, <3>8
  <2> QED
    BY <2>2, <2>3
<1> QED
  BY <1>4, <1>5

\* anon_scope_id by the kinds of the four innermost frames.
IdOf(up, holder, multi, third, thirdMany, fourth, own) ==
    IF up = "stmts" /\ holder = "paren"
    THEN IF third = "stmts" /\ ~thirdMany /\ fourth = "block" THEN own ELSE Plain
    ELSE IF up = "stmts" /\ holder = "block"
    THEN IF ~multi /\ third \in ClassNewBlock \cup {"recvBlock", "evalA"} THEN <<third, 0>> ELSE own
    ELSE IF up = "stmts" /\ DefKind(holder) /\ ~multi
    THEN IF holder = "def" THEN own ELSE <<holder, 0>>
    ELSE IF up # "none" /\ (up = "casgn" \/ ClassOf[up] = "call") THEN own
    ELSE Plain

\* It is that, when every frame is of the kinds given.
LEMMA AnonScopeIdIs ==
    ASSUME NEW fs, NEW i, NEW up, NEW holder, NEW third, NEW fourth, NEW own,
           up = KindAt(fs, i - 1), holder = KindAt(fs, i - 2), third = KindAt(fs, i - 3),
           fourth = KindAt(fs, i - 4), own = <<"at", fs[i].node>>,
           up = "stmts" => ClassOf[up] # "call"
    PROVE  AnonScopeId(fs, i) =
              IdOf(up, holder, Many(fs[i - 1].node), third, Many(fs[i - 3].node), fourth, own)
<1>1. PICK multi \in BOOLEAN, many3 \in BOOLEAN :
        (multi <=> Many(fs[i - 1].node)) /\ (many3 <=> Many(fs[i - 3].node))
  OBVIOUS
<1>2. AnonScopeId(fs, i) =
        CASE up = "stmts" /\ holder = "paren" ->
                IF third = "stmts" /\ ~many3 /\ fourth = "block" THEN own ELSE <<"none", 0>>
          [] up = "stmts" /\ holder = "block" ->
                IF ~multi /\ third \in ClassNewBlock \cup {"recvBlock", "evalA"} THEN <<third, 0>> ELSE own
          [] up = "stmts" /\ DefKind(holder) /\ ~multi -> IF holder = "def" THEN own ELSE <<holder, 0>>
          [] up # "none" /\ (up = "casgn" \/ ClassOf[up] = "call") -> own
          [] OTHER -> <<"none", 0>>
  BY <1>1 DEF AnonScopeId
<1>3. ~DefKind("paren") /\ ~DefKind("block")
  BY DEF DefKind
<1> QED
  BY <1>1, <1>2, <1>3 DEF IdOf, Plain

\* The frames fs begin with those of the nodes h.
StartsWith(fs, h) ==
    /\ \A j \in 1 .. Len(h) : fs[j].node = h[j] /\ KindAt(fs, j) = Kind(h[j])
    /\ \A j \in Int : j < 1 => KindAt(fs, j) = "none"

\* One frame further out.
LEMMA StartsOut ==
    ASSUME NEW fs, NEW S, NEW g \in Seq(S)
    PROVE  /\ Len(g) \in Nat /\ StartsWith(fs, g) => KindAt(fs, Len(g)) = TopKind(g)
           /\ \A p \in S : StartsWith(fs, Append(g, p)) =>
                 /\ Len(Append(g, p)) = Len(g) + 1
                 /\ StartsWith(fs, g) /\ KindAt(fs, Len(g)) = TopKind(g)
                 /\ fs[Len(g) + 1].node = p /\ KindAt(fs, Len(g) + 1) = Kind(p)
<1>1. PICK l \in Nat : l = Len(g)
  OBVIOUS
<1>2. ASSUME StartsWith(fs, g) PROVE KindAt(fs, l) = TopKind(g)
  <2>1. CASE l = 0
    <3>1. g = <<>>
      <4>1. Len(g) = 0
        BY <1>1, <2>1
      <4> QED
        BY <4>1
    <3>2. 0 \in Int /\ 0 < 1
      OBVIOUS
    <3>3. KindAt(fs, 0) = "none"
      BY <1>2, <3>2 DEF StartsWith
    <3> QED
      BY <2>1, <3>1, <3>3 DEF TopKind
  <2>2. CASE l # 0
    <3>1. g # <<>> /\ l \in 1 .. Len(g)
      BY <1>1, <2>2
    <3> QED
      BY <1>1, <1>2, <3>1 DEF TopKind, StartsWith
  <2> QED
    BY <2>1, <2>2
<1>3. ASSUME NEW p \in S, StartsWith(fs, Append(g, p))
      PROVE  /\ Len(Append(g, p)) = l + 1
             /\ StartsWith(fs, g)
             /\ fs[l + 1].node = p /\ KindAt(fs, l + 1) = Kind(p)
  <2>1. PICK h : h = Append(g, p)
    OBVIOUS
  <2>2. Len(h) = l + 1 /\ h[l + 1] = p /\ \A j \in 1 .. l : h[j] = g[j]
    BY <1>1, <2>1, AppendAt
  <2>3. l + 1 \in 1 .. Len(h) /\ \A j \in 1 .. l : j \in 1 .. Len(h)
    BY <2>2
  <2>4. /\ \A j \in 1 .. Len(h) : fs[j].node = h[j] /\ KindAt(fs, j) = Kind(h[j])
        /\ \A j \in Int : j < 1 => KindAt(fs, j) = "none"
    BY <1>3, <2>1 DEF StartsWith
  <2>5. StartsWith(fs, g)
    BY <1>1, <2>2, <2>3, <2>4 DEF StartsWith
  <2> QED
    BY <2>1, <2>2, <2>3, <2>4, <2>5
<1> QED
  BY <1>1, <1>2, <1>3

\* The stock cop's anon_block_scope_id by what is right above the class: of kinds
\* that do not tell its place there is none.
LEMMA ScopeIdIs ==
    ASSUME tree \in Shapes, NEW b \in Nodes, Kind(b) \in ClassNewBlock,
           NEW fs, StartsWith(fs, Hooked(b)), NEW i, i = Len(Hooked(b)) + 1, fs[i].node = b
    PROVE  AnonScopeId(fs, i) = StockScopeId(b)
<1>1. b # 1
  BY PlacesAre DEF ClassNewBlock
<1>2. PICK p, h, own : p = tree.parent[b] /\ h = Hooked(b) /\ own = <<"at", b>>
  OBVIOUS
<1>3. /\ p \in Nodes /\ p \in Over(b) /\ Hooked(p) \in Seq(Nodes) /\ h \in Seq(Nodes)
      /\ p \in BranchNodes => h = Append(Hooked(p), p)
      /\ p \notin BranchNodes => Kind(p) \notin TightKinds /\ TopKind(h) \notin TightKinds
  BY <1>1, <1>2, AboveTight, HookedIs
<1>4. PICK up, holder, third, fourth :
        /\ up = KindAt(fs, i - 1) /\ holder = KindAt(fs, i - 2)
        /\ third = KindAt(fs, i - 3) /\ fourth = KindAt(fs, i - 4)
  OBVIOUS
<1>5. Len(h) \in Nat /\ i - 1 = Len(h) /\ up = TopKind(h)
  <2>1. Len(h) \in Nat
    BY <1>3
  <2>2. i - 1 = Len(h)
    BY <1>2, <2>1
  <2>3. StartsWith(fs, h)
    BY <1>2
  <2>4. KindAt(fs, Len(h)) = TopKind(h)
    BY <1>3, <2>3, StartsOut
  <2> QED
    BY <1>4, <2>1, <2>2, <2>4
<1>6. \A k : k \in TightKinds <=> \/ k \in {"stmts", "paren", "block", "casgn", "lvasgn"} \/ DefKind(k)
                                  \/ k \in DOMAIN ClassOf /\ ClassOf[k] = "call"
  BY DEF TightKinds, DefinitionKinds, DefKind
<1>8. /\ Kind(p) \in DOMAIN ClassOf /\ Kind(p) # "none" /\ Class(tree, p) = ClassOf[Kind(p)]
      /\ Kind(p) = "stmts" => ClassOf[Kind(p)] # "call"
  <2>1. p \in Nodes
    BY <1>3
  <2> QED
    BY <2>1, KindFacts
<1>9. CASE p \notin BranchNodes
  <2>1. StockScopeId(b) = Plain
    <3>1. Class(tree, p) # "call" /\ Kind(p) # "casgn" /\ Kind(p) # "stmts"
      BY <1>3, <1>6, <1>8, <1>9
    <3> QED
      BY <1>2, <3>1 DEF StockScopeId
  <2>2. AnonScopeId(fs, i) = Plain
    <3>1. up \notin TightKinds /\ up # "stmts"
      BY <1>3, <1>5, <1>6, <1>9
    <3>2. up = "none" \/ (up # "casgn" /\ ClassOf[up] # "call")
      <4>1. CASE h = <<>>
        BY <1>5, <4>1 DEF TopKind
      <4>2. CASE h # <<>>
        <5>1. PICK q : q = h[Len(h)] /\ q \in Nodes
          BY <1>3, <1>5, <4>2
        <5>2. up = Kind(q)
          BY <1>5, <4>2, <5>1 DEF TopKind
        <5>3. Kind(q) \in DOMAIN ClassOf
          BY <5>1, KindFacts
        <5> QED
          BY <1>6, <3>1, <5>2, <5>3
      <4> QED
        BY <4>1, <4>2
    <3> QED
      BY <1>2, <1>4, <3>1, <3>2, AnonScopeIdIs DEF IdOf
  <2> QED
    BY <2>1, <2>2
<1>10. CASE p \in BranchNodes
  <2>1. PICK g : g = Hooked(p) /\ g \in Seq(Nodes) /\ h = Append(g, p)
    BY <1>3, <1>10
  <2>2. /\ Len(h) = Len(g) + 1 /\ Len(g) \in Nat /\ StartsWith(fs, g)
        /\ KindAt(fs, Len(g)) = TopKind(g) /\ fs[Len(h)].node = p /\ KindAt(fs, Len(h)) = Kind(p)
    <3>1. PICK A : A = Nodes
      OBVIOUS
    <3>2. g \in Seq(A) /\ p \in A /\ StartsWith(fs, Append(g, p))
      BY <1>2, <1>3, <2>1, <3>1
    <3>3. /\ Len(g) \in Nat /\ Len(Append(g, p)) = Len(g) + 1
          /\ StartsWith(fs, g) /\ KindAt(fs, Len(g)) = TopKind(g)
          /\ fs[Len(g) + 1].node = p /\ KindAt(fs, Len(g) + 1) = Kind(p)
      <4>1. /\ Len(g) \in Nat
            /\ \A q \in A : StartsWith(fs, Append(g, q)) =>
                  /\ Len(Append(g, q)) = Len(g) + 1
                  /\ StartsWith(fs, g) /\ KindAt(fs, Len(g)) = TopKind(g)
                  /\ fs[Len(g) + 1].node = q /\ KindAt(fs, Len(g) + 1) = Kind(q)
        <5>1. g \in Seq(A)
          BY <3>2
        <5> QED
          BY <5>1, StartsOut
      <4> QED
        BY <3>2, <4>1
    <3> QED
      BY <2>1, <3>3
  <2>3. /\ i - 1 = Len(h) /\ i - 2 = Len(g)
        /\ up = Kind(p) /\ holder = TopKind(g) /\ fs[i - 1].node = p
    <3>1. i - 1 = Len(h) /\ i - 2 = Len(g)
      BY <1>5, <2>2
    <3> QED
      BY <1>4, <2>2, <3>1
  <2>4. AnonScopeId(fs, i) = IdOf(up, holder, Many(p), third, Many(fs[i - 3].node), fourth, own)
    <3>1. up = "stmts" => ClassOf[up] # "call"
      BY <1>8, <2>3
    <3>2. own = <<"at", fs[i].node>>
      BY <1>2
    <3>3. AnonScopeId(fs, i) =
            IdOf(up, holder, Many(fs[i - 1].node), third, Many(fs[i - 3].node), fourth, own)
      BY <1>4, <3>1, <3>2, AnonScopeIdIs
    <3> QED
      BY <2>3, <3>3 DEF IdOf
  <2>5. CASE Kind(p) # "stmts"
    <3>1. StockScopeId(b) = IF Class(tree, p) = "call" \/ Kind(p) = "casgn" THEN own ELSE Plain
      BY <1>2, <2>5 DEF StockScopeId
    <3>2. AnonScopeId(fs, i) = IF up = "casgn" \/ ClassOf[up] = "call" THEN own ELSE Plain
      BY <1>8, <2>3, <2>4, <2>5 DEF IdOf
    <3> QED
      BY <1>8, <2>3, <3>1, <3>2
  <2>6. CASE Kind(p) = "stmts"
    <3>1. PICK q : q = tree.parent[p]
      OBVIOUS
    <3>2. /\ p # 1 /\ q \in Nodes /\ Hooked(q) \in Seq(Nodes)
          /\ q \in BranchNodes => g = Append(Hooked(q), q)
          /\ q \notin BranchNodes => Kind(q) \notin TightKinds /\ TopKind(g) \notin TightKinds
      <4>1. p # 1
        BY <2>6, PlacesAre
      <4> QED
        BY <1>3, <2>1, <3>1, <4>1, AboveTight
    <3>3. Class(tree, p) # "call" /\ Kind(p) # "casgn" /\ ClassOf[up] # "call" /\ up = "stmts"
      BY <1>8, <2>3, <2>6
    <3>4. AnonScopeId(fs, i) =
            IF holder = "paren"
            THEN IF third = "stmts" /\ ~Many(fs[i - 3].node) /\ fourth = "block" THEN own ELSE Plain
            ELSE IF holder = "block"
            THEN IF ~Many(p) /\ third \in ClassNewBlock \cup {"recvBlock", "evalA"} THEN <<third, 0>> ELSE own
            ELSE IF DefKind(holder) /\ ~Many(p) THEN IF holder = "def" THEN own ELSE <<holder, 0>>
            ELSE Plain
      BY <2>4, <3>3 DEF IdOf
    <3>5. PICK out : out = tree.parent[q]
      OBVIOUS
    <3>6. StockScopeId(b) =
            IF Kind(q) = "paren"
            THEN IF Kind(out) = "stmts" /\ ~Many(out) /\ Kind(tree.parent[out]) = "block" THEN own ELSE Plain
            ELSE IF Kind(q) = "block"
            THEN IF ~Many(p) /\ Kind(out) \in ClassNewBlock \cup {"recvBlock", "evalA"}
                 THEN <<Kind(out), 0>> ELSE own
            ELSE IF DefKind(Kind(q)) /\ ~Many(p) THEN IF Kind(q) = "def" THEN own ELSE <<Kind(q), 0>>
            ELSE Plain
      <4>1. PICK multi \in BOOLEAN, many \in BOOLEAN : (multi <=> Many(p)) /\ (many <=> Many(out))
        OBVIOUS
      <4>2. ~DefKind("paren") /\ ~DefKind("block")
        BY DEF DefKind
      <4>3. CASE Kind(q) = "paren"
        BY <1>2, <2>6, <3>1, <3>3, <3>5, <4>1, <4>2, <4>3 DEF StockScopeId
      <4>4. CASE Kind(q) = "block" /\ multi
        BY <1>2, <2>6, <3>1, <3>3, <3>5, <4>1, <4>2, <4>4 DEF StockScopeId
      <4>5. CASE Kind(q) = "block" /\ ~multi
        BY <1>2, <2>6, <3>1, <3>3, <3>5, <4>1, <4>2, <4>5 DEF StockScopeId
      <4>6. CASE Kind(q) # "paren" /\ Kind(q) # "block" /\ multi
        BY <1>2, <2>6, <3>1, <3>3, <3>5, <4>1, <4>2, <4>6 DEF StockScopeId
      <4>7. CASE Kind(q) # "paren" /\ Kind(q) # "block" /\ ~multi
        BY <1>2, <2>6, <3>1, <3>3, <3>5, <4>1, <4>2, <4>7 DEF StockScopeId
      <4> QED
        BY <4>3, <4>4, <4>5, <4>6, <4>7
    <3>7. CASE q \notin BranchNodes
      BY <1>6, <2>3, <3>2, <3>4, <3>6, <3>7
    <3>8. CASE q \in BranchNodes
      <4>1. PICK f : f = Hooked(q) /\ f \in Seq(Nodes) /\ g = Append(f, q)
        BY <3>2, <3>8
      <4>2. /\ Len(g) = Len(f) + 1 /\ Len(f) \in Nat /\ StartsWith(fs, f)
            /\ KindAt(fs, Len(f)) = TopKind(f) /\ KindAt(fs, Len(g)) = Kind(q)
        <5>1. PICK A : A = Nodes
          OBVIOUS
        <5>2. f \in Seq(A) /\ q \in A /\ StartsWith(fs, Append(f, q))
          BY <2>2, <3>2, <4>1, <5>1
        <5> QED
          BY <4>1, <5>2, StartsOut
      <4>3. i - 3 = Len(f) /\ third = TopKind(f) /\ holder = Kind(q)
        <5>1. i - 3 = Len(f)
          BY <1>5, <2>2, <2>3, <4>2
        <5> QED
          BY <1>4, <2>3, <4>2, <5>1
      <4>4. CASE Kind(q) \notin {"paren", "block"}
        BY <3>4, <3>6, <4>3, <4>4
      <4>5. CASE Kind(q) \in {"paren", "block"}
        <5>1. q # 1 /\ q \in Over(b)
          <6>1. q # 1
            BY <4>5, PlacesAre
          <6>2. q \in Over(b)
            BY <1>3, <3>1, <3>2, AboveTight
          <6> QED
            BY <6>1, <6>2
        <5>2. /\ out \in Nodes /\ Hooked(out) \in Seq(Nodes) /\ out \in Over(b)
              /\ out \in BranchNodes => f = Append(Hooked(out), out) /\ TopKind(f) = Kind(out)
              /\ out \notin BranchNodes => Kind(out) \notin TightKinds /\ TopKind(f) \notin TightKinds
          BY <3>5, <4>1, <5>1, AboveTight
        <5>3. \A k \in ClassNewBlock \cup {"recvBlock", "evalA"} :
                 k \in DOMAIN ClassOf => k \in TightKinds
          <6>1. \A k \in ClassNewBlock \cup {"recvBlock", "evalA"} : k \in PlainBlock
            BY DEF PlainBlock
          <6> QED
            BY <1>6, <6>1, MethodKindsAssumption
        <5>4. third = "none" \/ third \in DOMAIN ClassOf
          <6>1. CASE f = <<>>
            BY <4>3, <6>1 DEF TopKind
          <6>2. CASE f # <<>>
            <7>1. PICK r \in Nodes : r = f[Len(f)]
              BY <4>1, <4>2, <6>2
            <7>2. Kind(r) \in DOMAIN ClassOf
              BY KindFacts
            <7> QED
              BY <4>3, <6>2, <7>1, <7>2 DEF TopKind
          <6> QED
            BY <6>1, <6>2
        <5>5. CASE Kind(q) = "block"
          <6>1. /\ third \in ClassNewBlock \cup {"recvBlock", "evalA"}
                     <=> Kind(out) \in ClassNewBlock \cup {"recvBlock", "evalA"}
                /\ third \in ClassNewBlock \cup {"recvBlock", "evalA"} => third = Kind(out)
            <7>1. "none" \notin ClassNewBlock \cup {"recvBlock", "evalA"}
              BY DEF ClassNewBlock
            <7>2. Kind(out) \in DOMAIN ClassOf
              BY <5>2, KindFacts
            <7> QED
              BY <4>3, <5>2, <5>3, <5>4, <7>1, <7>2
          <6> QED
            BY <3>4, <3>6, <4>3, <5>5, <6>1
        <5>6. CASE Kind(q) = "paren"
          <6>1. CASE out \notin BranchNodes
            BY <1>6, <3>4, <3>6, <4>3, <5>2, <5>6, <6>1
          <6>2. CASE out \in BranchNodes
            <7>1. PICK e : e = Hooked(out) /\ e \in Seq(Nodes) /\ f = Append(e, out)
              BY <5>2, <6>2
            <7>2. /\ Len(f) = Len(e) + 1 /\ Len(e) \in Nat
                  /\ KindAt(fs, Len(e)) = TopKind(e) /\ fs[Len(f)].node = out
              <8>1. PICK A : A = Nodes
                OBVIOUS
              <8>2. e \in Seq(A) /\ out \in A /\ StartsWith(fs, Append(e, out))
                BY <4>2, <5>2, <7>1, <8>1
              <8>3. /\ Len(e) \in Nat /\ Len(Append(e, out)) = Len(e) + 1
                    /\ StartsWith(fs, e) /\ KindAt(fs, Len(e)) = TopKind(e)
                    /\ fs[Len(e) + 1].node = out
                BY <8>2, StartsOut
              <8> QED
                BY <7>1, <8>3
            <7>3. fourth = TopKind(e) /\ fs[i - 3].node = out /\ third = Kind(out)
              <8>1. i - 4 = Len(e)
                BY <1>5, <2>2, <4>2, <4>3, <7>2
              <8> QED
                BY <1>4, <4>3, <5>2, <6>2, <7>2, <8>1
            <7>4. Kind(out) = "stmts" => (fourth = "block" <=> Kind(tree.parent[out]) = "block")
              <8> SUFFICES ASSUME Kind(out) = "stmts"
                           PROVE  fourth = "block" <=> Kind(tree.parent[out]) = "block"
                OBVIOUS
              <8>1. out # 1
                BY PlacesAre
              <8>2. PICK r : r = tree.parent[out]
                OBVIOUS
              <8>3. /\ r \in BranchNodes => TopKind(e) = Kind(r)
                    /\ r \notin BranchNodes => Kind(r) \notin TightKinds /\ TopKind(e) \notin TightKinds
                BY <5>2, <7>1, <8>1, <8>2, AboveTight
              <8> QED
                BY <1>6, <7>3, <8>2, <8>3
            <7> QED
              BY <3>4, <3>6, <4>3, <5>6, <7>3, <7>4
          <6> QED
            BY <6>1, <6>2
        <5> QED
          BY <4>5, <5>5, <5>6
      <4> QED
        BY <4>4, <4>5
    <3> QED
      BY <3>7, <3>8
  <2> QED
    BY <2>5, <2>6
<1> QED
  BY <1>9, <1>10

-----------------------------------------------------------------------------
(* What the rule finds of a definition.                                    *)

\* The stock cop's answers, of what the ancestors tell.
Anonymous(a) ==
    /\ a.block # 0 /\ Kind(a.block) \in ClassNewBlock
    /\ Kind(tree.parent[a.block]) # "lvasgn"
    /\ \A i \in DOMAIN a.sclasses : a.sclasses[i] = "sclassSelf"

NamedBase(p) == IF p = Unknown THEN <<"", "Object">> ELSE FlattenSeq(p) \o <<"Object">>
BaseOf(a) == NamedBase(Around[a.block].pmn)

\* The frames outside one are those of its node.
LEMMA FramesOutside ==
    ASSUME tree \in Shapes, NEW n \in Nodes, NEW i \in 1 .. Len(Hooked(n)), NEW b, b = Hooked(n)[i],
           NEW fs, fs = MethodFrames(Hooked(n))
    PROVE  /\ b \in Nodes /\ KindAt(fs, i) = Kind(b) /\ fs[i].node = b
           /\ StartsWith(fs, Hooked(b)) /\ i = Len(Hooked(b)) + 1
           /\ Pmn(SubSeq(fs, 1, i - 1)) = Around[b].pmn
<1>1. PICK h, g : h = Hooked(n) /\ g = Hooked(b) /\ h \in Seq(Nodes)
  BY HookedIs
<1>2. PICK l \in Nat : l = Len(h) /\ i \in 1 .. l /\ i - 1 \in 0 .. l /\ i \in Nat
  BY <1>1
<1>3. /\ \A j \in 1 .. l : fs[j].node = h[j] /\ KindAt(fs, j) = Kind(h[j])
      /\ \A j : j \notin 1 .. l => KindAt(fs, j) = "none"
      /\ SubSeq(fs, 1, i - 1) = MethodFrames(SubSeq(h, 1, i - 1))
  BY <1>1, <1>2, MethodFramesAre
<1>4. b \in Nodes /\ g = SubSeq(h, 1, i - 1)
  <2>1. SubSeq(Hooked(n), 1, i - 1) = Hooked(Hooked(n)[i])
    BY HookedPrefix
  <2>2. PICK A : A = Nodes
    OBVIOUS
  <2>3. h \in Seq(A)
    BY <1>1, <2>2
  <2>4. h[i] \in A
    BY <1>2, <2>3
  <2> QED
    BY <1>1, <2>1, <2>2, <2>4
<1>5. Len(g) = i - 1 /\ \A j \in 1 .. i - 1 : g[j] = h[j]
  BY <1>1, <1>2, <1>4
<1>6. StartsWith(fs, g)
  <2>1. \A j \in 1 .. i - 1 : j \in 1 .. l
    BY <1>2
  <2>2. \A j \in Int : j < 1 => j \notin 1 .. l
    BY <1>2
  <2> QED
    BY <1>3, <1>5, <2>1, <2>2 DEF StartsWith
<1>7. Pmn(SubSeq(fs, 1, i - 1)) = Around[b].pmn
  <2>1. Pmn(MethodFrames(Hooked(b))) = Around[b].pmn
    BY <1>4, NameIs
  <2> QED
    BY <1>1, <1>3, <1>4, <2>1
<1> QED
  BY <1>1, <1>2, <1>3, <1>4, <1>5, <1>6, <1>7

\* The anonymous class the rule finds is the one the stock cop finds, with the
\* same name and place.
LEMMA AnonIs ==
    ASSUME tree \in Shapes, NEW n \in Nodes, NEW a, a = Around[n], NEW fs, fs = MethodFrames(Hooked(n)),
           NEW s, s.frames = fs, s.sclassNonself = 0 <=> Places(Hooked(n), Nonself) = {}
    PROVE  /\ AnonymousClassBlock(s) # 0 <=> Anonymous(a)
           /\ Anonymous(a) => /\ AnonBase(fs, AnonymousClassBlock(s)) = BaseOf(a)
                              /\ AnonScopeId(fs, AnonymousClassBlock(s)) = StockScopeId(a.block)
<1>1. PICK h, P, i : h = Hooked(n) /\ P = Places(h, PlainBlock) /\ i = Latest(P) /\ h \in Seq(Nodes)
  BY HookedIs
<1>2. /\ Len(h) \in Nat /\ DOMAIN fs = 1 .. Len(h)
      /\ \A j \in 1 .. Len(h) : KindAt(fs, j) = Kind(h[j])
      /\ \A j : j \notin 1 .. Len(h) => KindAt(fs, j) = "none"
  BY <1>1, MethodFramesAre
<1>3. FirstBlock(fs) = i
  <2> DEFINE blocks == {j \in DOMAIN fs : KindAt(fs, j) \in PlainBlock}
  <2>1. FirstBlock(fs) = Latest(blocks)
    BY DEF FirstBlock, Latest
  <2>2. blocks = P
    BY <1>1, <1>2 DEF Places
  <2> QED
    BY <1>1, <2>1, <2>2
<1>4. AnonymousClassBlock(s) =
        IF /\ KindAt(fs, i) \in ClassNewBlock /\ KindAt(fs, i - 1) # "lvasgn"
           /\ Places(h, Nonself) = {}
        THEN i ELSE 0
  BY <1>1, <1>3 DEF AnonymousClassBlock
<1>5. /\ a.block = Innermost(h, PlainBlock)
      /\ (\A j \in DOMAIN a.sclasses : a.sclasses[j] = "sclassSelf") <=> Places(h, Nonself) = {}
  BY <1>1, AroundTells DEF Tells
<1>6. CASE P = {}
  <2>1. i = 0 /\ a.block = 0
    BY <1>1, <1>5, <1>6 DEF Latest, Innermost
  <2>2. AnonymousClassBlock(s) = 0
    BY <1>4, <2>1
  <2> QED
    BY <2>1, <2>2 DEF Anonymous
<1>7. CASE P # {}
  <2>1. i \in 1 .. Len(h) /\ Kind(h[i]) \in PlainBlock /\ a.block = h[i]
    <3>1. PICK A : A = Nodes
      OBVIOUS
    <3>2. h \in Seq(A) /\ n \in A
      BY <1>1, <3>1
    <3> QED
      BY <1>1, <1>5, <1>7, <3>2, PlacesStep DEF Innermost
  <2>2. PICK b : b = h[i]
    OBVIOUS
  <2>3. /\ b \in Nodes /\ KindAt(fs, i) = Kind(b) /\ fs[i].node = b
        /\ StartsWith(fs, Hooked(b)) /\ i = Len(Hooked(b)) + 1
        /\ Pmn(SubSeq(fs, 1, i - 1)) = Around[b].pmn
    BY <1>1, <2>1, <2>2, FramesOutside
  <2>4. b # 0 /\ i # 0
    <3>1. b >= 1 /\ b \in Nat
      BY <2>3, ParentIs
    <3>2. PICK l \in Nat : l = Len(h)
      BY <1>2
    <3>3. i \in 1 .. l
      BY <2>1, <3>2
    <3> QED
      BY <3>1, <3>3
  <2>5. CASE Kind(b) \notin ClassNewBlock
    BY <1>4, <2>1, <2>2, <2>3, <2>5 DEF Anonymous
  <2>6. CASE Kind(b) \in ClassNewBlock
    <3>1. KindAt(fs, i - 1) = "lvasgn" <=> Kind(tree.parent[b]) = "lvasgn"
      <4>1. PICK p, g : p = tree.parent[b] /\ g = Hooked(b) /\ g \in Seq(Nodes)
        BY <2>3, HookedIs
      <4>2. b # 1
        BY <2>6, PlacesAre DEF ClassNewBlock
      <4>3. /\ p \in BranchNodes => TopKind(g) = Kind(p)
            /\ p \notin BranchNodes => Kind(p) \notin TightKinds /\ TopKind(g) \notin TightKinds
        BY <2>3, <2>6, <4>1, <4>2, AboveTight
      <4>4. KindAt(fs, Len(g)) = TopKind(g) /\ i - 1 = Len(g)
        <5>1. Len(g) \in Nat
          BY <4>1
        <5>2. KindAt(fs, Len(g)) = TopKind(g)
          BY <2>3, <4>1, <5>1, StartsOut
        <5> QED
          BY <2>3, <4>1, <5>1, <5>2
      <4>5. "lvasgn" \in TightKinds
        BY DEF TightKinds
      <4> QED
        BY <4>1, <4>3, <4>4, <4>5
    <3>2. AnonymousClassBlock(s) # 0 <=> Anonymous(a)
      BY <1>4, <1>5, <2>1, <2>2, <2>3, <2>4, <2>6, <3>1 DEF Anonymous
    <3>3. Anonymous(a) => AnonymousClassBlock(s) = i
      BY <1>4, <3>2
    <3>4. AnonScopeId(fs, i) = StockScopeId(b)
      BY <2>3, <2>6, ScopeIdIs
    <3>5. AnonBase(fs, i) = BaseOf(a)
      BY <2>1, <2>2, <2>3 DEF AnonBase, BaseOf, NamedBase
    <3> QED
      BY <2>1, <2>2, <3>2, <3>3, <3>4, <3>5
  <2> QED
    BY <2>5, <2>6
<1> QED
  BY <1>6, <1>7

\* A scope that has a name has one that is not empty.
LEMMA HumanizeIs ==
    ASSUME NEW W, NEW parts \in Seq(Seq(W) \ {<<>>})
    PROVE  Humanize(parts) # <<>>
<1>1. PICK T : T = W \cup {"#", "."}
  OBVIOUS
<1>2. Seq(W) \subseteq Seq(T)
  BY <1>1
<1>3. PICK l \in Nat : l = Len(parts) /\ DOMAIN parts = 1 .. l
  OBVIOUS
<1>4. \A i \in 1 .. l : parts[i] \in Seq(W) /\ parts[i] # <<>>
  BY <1>3
<1>5. parts \in Seq(Seq(W)) /\ parts \in Seq(Seq(T))
  <2>1. parts = [i \in 1 .. l |-> parts[i]]
    BY <1>3
  <2>2. [i \in 1 .. l |-> parts[i]] \in Seq(Seq(W)) /\ [i \in 1 .. l |-> parts[i]] \in Seq(Seq(T))
    BY <1>2, <1>4
  <2> QED
    BY <2>1, <2>2
<1>6. ASSUME NEW u \in Seq(T), NEW e \in T PROVE u \o <<e>> # <<>> /\ u \o <<e>> \in Seq(T)
  <2>1. Len(u \o <<e>>) = Len(u) + 1 /\ Len(u) \in Nat
    BY <1>6
  <2>2. Len(u \o <<e>>) # 0
    BY <2>1
  <2> QED
    BY <1>6, <2>2
<1> DEFINE singles == {i \in DOMAIN parts : parts[i][1] = "<<"}
<1>7. CASE singles = {}
  <2>1. FlattenSeq(parts) \in Seq(T)
    BY <1>5, FlattenType
  <2>2. FlattenSeq(parts) \o <<"#">> # <<>>
    BY <1>1, <1>6, <2>1
  <2> QED
    BY <1>7, <2>2 DEF Humanize
<1>8. CASE singles # {}
  <2> DEFINE i == CHOOSE k \in singles : \A j \in singles : k <= j
             before == FlattenSeq(SubSeq(parts, 1, i - 1))
             inner == Tail(parts[i])
             after == FlattenSeq(SubSeq(parts, i + 1, Len(parts)))
             kept == IF IsSuffix(inner, before) THEN SubSeq(before, 1, Len(before) - Len(inner))
                     ELSE before
  <2>1. Humanize(parts) = kept \o inner \o <<".">> \o after \o (IF after = <<>> THEN <<>> ELSE <<"#">>)
    BY <1>8 DEF Humanize
  <2>2. i \in 1 .. l
    <3>1. singles \subseteq 1 .. l /\ singles \subseteq Nat
      BY <1>3
    <3> HIDE DEF singles
    <3>2. \E k \in singles : \A j \in singles : k <= j
      BY <1>8, <3>1, LeastNumber
    <3>3. i \in singles
      BY <3>2
    <3> QED
      BY <3>1, <3>3
  <2> HIDE DEF i
  <2>3. before \in Seq(T) /\ after \in Seq(T)
    <3>1. i - 1 \in 0 .. l /\ i + 1 \in 1 .. l + 1 /\ i \in Nat
      BY <2>2
    <3>2. SubSeq(parts, 1, i - 1) \in Seq(Seq(T)) /\ SubSeq(parts, i + 1, Len(parts)) \in Seq(Seq(T))
      BY <1>3, <1>5, <3>1
    <3> QED
      BY <3>2, FlattenType
  <2>4. inner \in Seq(T)
    BY <1>2, <1>4, <2>2
  <2> HIDE DEF before, after, inner
  <2>5. kept \in Seq(T)
    <3>1. PICK lb \in Nat, li \in Nat : lb = Len(before) /\ li = Len(inner)
      BY <2>3, <2>4
    <3>2. SubSeq(before, 1, lb - li) \in Seq(T)
      BY <2>3, <3>1
    <3> QED
      BY <2>3, <3>1, <3>2
  <2> HIDE DEF kept
  <2>6. PICK end, u, v, w : /\ end = (IF after = <<>> THEN <<>> ELSE <<"#">>)
                            /\ u = kept \o inner /\ v = u \o <<".">> /\ w = v \o after
    OBVIOUS
  <2>7. end \in Seq(T)
    <3>1. <<>> \in Seq(T) /\ <<"#">> \in Seq(T)
      BY <1>1
    <3> QED
      BY <2>6, <3>1
  <2>8. u \in Seq(T)
    BY <2>4, <2>5, <2>6
  <2>9. v \in Seq(T) /\ v # <<>>
    BY <1>1, <1>6, <2>6, <2>8
  <2>10. w \in Seq(T) /\ w # <<>>
    <3>1. w \in Seq(T) /\ Len(w) = Len(v) + Len(after)
      BY <2>3, <2>6, <2>9
    <3>2. Len(v) \in Nat \ {0} /\ Len(after) \in Nat
      BY <2>3, <2>9
    <3>3. Len(w) # 0
      BY <3>1, <3>2
    <3> QED
      BY <3>1, <3>3
  <2>11. w \o end # <<>>
    <3>1. Len(w \o end) = Len(w) + Len(end)
      BY <2>7, <2>10
    <3>2. Len(w) \in Nat \ {0} /\ Len(end) \in Nat
      BY <2>7, <2>10
    <3>3. Len(w \o end) # 0
      BY <3>1, <3>2
    <3> QED
      BY <3>3
  <2> QED
    BY <2>1, <2>6, <2>11
<1> QED
  BY <1>7, <1>8

InstanceOwner(a) ==
    CASE a.pmn # Unknown -> Humanize(a.pmn)
      [] a.pmn = Unknown /\ Anonymous(a) ->
            Humanize(<<IF a.sclasses # <<>> THEN <<"<<">> \o BaseOf(a) ELSE BaseOf(a)>>)
      [] a.pmn = Unknown /\ ~Anonymous(a) /\ a.sclasses # <<>> /\ Last(a.sclasses) = "sclassSend" ->
            <<"x", ".">>
      [] OTHER -> <<>>

SelfOwner(a) ==
    CASE a.pmn # Unknown -> (IF a.pmn = <<>> THEN <<"Object">> ELSE FlattenSeq(a.pmn)) \o <<".">>
      [] a.pmn = Unknown /\ Anonymous(a) -> BaseOf(a) \o <<".">>
      [] OTHER -> <<>>

NamedOwner(p) == (IF p = Unknown THEN <<"">> ELSE FlattenSeq(p)) \o <<"A", ".">>
ConstOwner(a) == IF a.named = 0 THEN <<"(defs)", ".">> ELSE NamedOwner(Around[a.named].pmn)

StockOwner(a, n) ==
    CASE Kind(n) = "defs" -> SelfOwner(a)
      [] Kind(n) = "defOnA" -> ConstOwner(a)
      [] Kind(n) = "marker" -> IF a.pmn = Unknown THEN <<>> ELSE InstanceOwner(a)
      [] OTHER -> InstanceOwner(a)

IdIn(a) == IF a.pmn = Unknown /\ Anonymous(a) THEN StockScopeId(a.block) ELSE Plain

MethodFound(n, name, id, prefix, scope, marks) ==
    [at |-> n, name |-> name, id |-> id, prefix |-> prefix, scope |-> scope, marks |-> marks]

StockEvent(a, n, name) ==
    MethodFound(n, StockOwner(a, n) \o name, IF Kind(n) # "defOnA" THEN IdIn(a) ELSE Plain,
          Kind(n) # "marker" /\ a.inDef, IF Kind(n) = "marker" THEN 0 ELSE a.scope, Kind(n) = "marker")

\* The stock cop finds nothing, or a method of one or two names.
LEMMA StockFoundIs ==
    ASSUME NEW n, NEW a
    PROVE  StockFound(a, n) =
              IF \/ ~DefKind(Kind(n)) /\ Kind(n) \notin {"alias", "attr", "marker"}
                 \/ a.inIf /\ Kind(n) \notin {"attr", "marker"}
                 \/ StockOwner(a, n) = <<>>
              THEN <<>>
              ELSE IF Kind(n) = "attr" THEN <<StockEvent(a, n, <<"m">>), StockEvent(a, n, <<"m=">>)>>
              ELSE <<StockEvent(a, n, <<"m">>)>>
<1> DEFINE names == IF Kind(n) = "attr" THEN <<<<"m">>, <<"m=">>>> ELSE <<<<"m">>>>
           nothing == \/ ~DefKind(Kind(n)) /\ Kind(n) \notin {"alias", "attr", "marker"}
                      \/ a.inIf /\ Kind(n) \notin {"attr", "marker"}
                      \/ StockOwner(a, n) = <<>>
<1>1. StockFound(a, n) =
        IF nothing THEN <<>>
        ELSE [i \in DOMAIN names |->
                MethodFound(n, StockOwner(a, n) \o names[i],
                      IF a.pmn = Unknown /\ Anonymous(a) /\ Kind(n) # "defOnA" THEN StockScopeId(a.block)
                      ELSE Plain,
                      Kind(n) # "marker" /\ a.inDef, IF Kind(n) = "marker" THEN 0 ELSE a.scope,
                      Kind(n) = "marker")]
  BY DEF StockFound, StockOwner, InstanceOwner, SelfOwner, ConstOwner, NamedOwner, BaseOf, NamedBase,
         Anonymous, MethodFound
<1> DEFINE id == IF a.pmn = Unknown /\ Anonymous(a) /\ Kind(n) # "defOnA" THEN StockScopeId(a.block)
                 ELSE Plain
<1>2. (IF Kind(n) # "defOnA" THEN IdIn(a) ELSE Plain) = id
  BY DEF IdIn
<1>3. PICK inDef, marks : inDef = (Kind(n) # "marker" /\ a.inDef) /\ marks = (Kind(n) = "marker")
  OBVIOUS
<1> DEFINE one(name) == MethodFound(n, StockOwner(a, n) \o name, id, inDef, IF Kind(n) = "marker" THEN 0 ELSE a.scope, marks)
<1>4. \A name : StockEvent(a, n, name) = one(name)
  BY <1>2, <1>3 DEF StockEvent
<1>5. StockFound(a, n) = IF nothing THEN <<>> ELSE [i \in DOMAIN names |-> one(names[i])]
  BY <1>1, <1>3
<1> HIDE DEF one
<1>6. CASE Kind(n) = "attr"
  <2>1. [i \in DOMAIN names |-> one(names[i])] = <<one(<<"m">>), one(<<"m=">>)>>
    <3>1. names = <<<<"m">>, <<"m=">>>>
      BY <1>6
    <3>2. DOMAIN names = 1 .. 2 /\ names[1] = <<"m">> /\ names[2] = <<"m=">>
      BY <3>1
    <3> HIDE DEF names
    <3>3. PICK f : f = [i \in DOMAIN names |-> one(names[i])]
      OBVIOUS
    <3>4. f[1] = one(<<"m">>) /\ f[2] = one(<<"m=">>) /\ f = [i \in 1 .. 2 |-> f[i]]
      BY <3>2, <3>3
    <3>5. f = <<f[1], f[2]>>
      BY <3>4
    <3> QED
      BY <3>3, <3>4, <3>5
  <2> HIDE DEF nothing
  <2> QED
    BY <1>4, <1>5, <1>6, <2>1 DEF nothing
<1>7. CASE Kind(n) # "attr"
  <2>1. [i \in DOMAIN names |-> one(names[i])] = <<one(<<"m">>)>>
    <3>1. names = <<<<"m">>>>
      BY <1>7
    <3>2. DOMAIN names = 1 .. 1 /\ names[1] = <<"m">>
      BY <3>1
    <3> HIDE DEF names
    <3>3. PICK f : f = [i \in DOMAIN names |-> one(names[i])]
      OBVIOUS
    <3>4. f[1] = one(<<"m">>) /\ f = [i \in 1 .. 1 |-> f[i]]
      BY <3>2, <3>3
    <3>5. f = <<f[1]>>
      BY <3>4
    <3> QED
      BY <3>3, <3>4, <3>5
  <2> HIDE DEF nothing
  <2> QED
    BY <1>4, <1>5, <1>7, <2>1 DEF nothing
<1> QED
  BY <1>6, <1>7

\* What the running state tells of the hooked nodes h above.
RunsUnder(s, h) ==
    /\ s.frames = MethodFrames(h)
    /\ s.if = 0 <=> Places(h, {"if"}) = {}
    /\ s.sclassAny > 0 <=> Places(h, Sclass) # {}
    /\ s.sclassNonself = 0 <=> Places(h, Nonself) = {}

With(s, e) == [s EXCEPT !.events = Append(@, e)]

\* A definition that is pushed is under the def and the rescue the stock cop finds.
LEMMA PushIs ==
    ASSUME tree \in Shapes, NEW n \in Nodes, Kind(n) # "ensure", NEW a, a = Around[n],
           NEW s, s.frames = MethodFrames(Hooked(n)), NEW name, NEW id
    PROVE  PushEvent(s, Event(n, name, id)) = With(s, MethodFound(n, name, id, a.inDef, a.scope, FALSE))
<1>1. PICK h, fs : h = Hooked(n) /\ fs = s.frames /\ fs = MethodFrames(h) /\ h \in Seq(Nodes)
  BY HookedIs
<1>2. /\ DOMAIN fs = 1 .. Len(h)
      /\ \A i \in 1 .. Len(h) : KindAt(fs, i) = Kind(h[i])
  BY <1>1, MethodFramesAre
<1>3. PICK u \in BOOLEAN : u = a.inDef
  BY AroundIs DEF AroundType
<1>4. u <=> \E i \in DOMAIN fs : DefKind(KindAt(fs, i))
  <2>1. u <=> Places(h, DefinitionKinds) # {}
    BY <1>1, <1>3, AroundTells DEF Tells
  <2>2. \A k : DefKind(k) <=> k \in DefinitionKinds
    BY DEF DefKind, DefinitionKinds
  <2> QED
    BY <1>2, <2>1, <2>2 DEF Places
<1>5. (\E i \in DOMAIN fs : DefKind(KindAt(fs, i))) = u
  BY <1>4
<1>6. RescueScope(fs, n) = a.scope
  BY <1>1, RescueScopeIs
<1>7. PICK e : e = Event(n, name, id)
  OBVIOUS
<1>8. e.at = n /\ [e EXCEPT !.prefix = u, !.scope = a.scope] = MethodFound(n, name, id, u, a.scope, FALSE)
  <2>1. PICK scope, no : scope = a.scope /\ no = FALSE
    OBVIOUS
  <2>2. e = [at |-> n, name |-> name, id |-> id, prefix |-> no, scope |-> 0, marks |-> no]
    BY <1>7, <2>1 DEF Event
  <2>3. e.at = n
    BY <2>2
  <2>4. ASSUME NEW v
        PROVE  [e EXCEPT !.prefix = v, !.scope = scope] =
                  [at |-> n, name |-> name, id |-> id, prefix |-> v, scope |-> scope, marks |-> no]
    <3>1. DOMAIN e = {"at", "name", "id", "prefix", "scope", "marks"}
      BY <2>2
    <3>2. PICK f : f = [e EXCEPT !.prefix = v]
      OBVIOUS
    <3>3. f = [at |-> n, name |-> name, id |-> id, prefix |-> v, scope |-> 0, marks |-> no]
      BY <2>2, <3>2
    <3>4. [f EXCEPT !.scope = scope] =
            [at |-> n, name |-> name, id |-> id, prefix |-> v, scope |-> scope, marks |-> no]
      BY <3>3
    <3>5. [e EXCEPT !.prefix = v, !.scope = scope] = [f EXCEPT !.scope = scope]
      BY <3>1, <3>2
    <3> QED
      BY <3>4, <3>5
  <2> QED
    BY <2>1, <2>3, <2>4 DEF MethodFound
<1>9. PushEvent(s, e) = [s EXCEPT !.events = Append(@, [e EXCEPT !.prefix = u, !.scope = a.scope])]
  BY <1>1, <1>5, <1>6, <1>8 DEF PushEvent
<1> QED
  BY <1>3, <1>7, <1>8, <1>9 DEF With

\* The node of the innermost frame of these kinds.
LEMMA InnermostIs ==
    ASSUME tree \in Shapes, NEW n \in Nodes, NEW kinds, Places(Hooked(n), kinds) # {}
    PROVE  /\ Latest(Places(Hooked(n), kinds)) \in 1 .. Len(Hooked(n))
           /\ Innermost(Hooked(n), kinds) = Hooked(n)[Latest(Places(Hooked(n), kinds))]
           /\ Innermost(Hooked(n), kinds) \in Nodes /\ Innermost(Hooked(n), kinds) # 0
           /\ Kind(Innermost(Hooked(n), kinds)) \in kinds
<1>1. PICK h, A : h = Hooked(n) /\ A = Nodes /\ h \in Seq(A) /\ n \in A
  BY HookedIs
<1>2. PICK i : i = Latest(Places(h, kinds))
  OBVIOUS
<1>3. i \in 1 .. Len(h) /\ Kind(h[i]) \in kinds /\ Innermost(h, kinds) = h[i]
  BY <1>1, <1>2, PlacesStep DEF Innermost
<1>4. h[i] \in A
  BY <1>1, <1>3
<1>5. h[i] # 0
  BY <1>1, <1>4, ParentIs
<1> QED
  BY <1>1, <1>2, <1>3, <1>4, <1>5

Letters == {"A", "B", "<<", "", "Object", "."}

\* The base of an anonymous class, and an owner, are names.
LEMMA OwnersAre ==
    ASSUME NEW p, p \in Name \cup {Unknown}
    PROVE  /\ p # Unknown => Humanize(p) # <<>> /\ FlattenSeq(p) \in Seq(Letters)
           /\ NamedBase(p) \in Seq(Letters)
           /\ Humanize(<<NamedBase(p)>>) # <<>>
           /\ Humanize(<<<<"<<">> \o NamedBase(p)>>) # <<>>
<1>1. PICK L, P : L = Letters /\ P = {"A", "B", "<<"}
  OBVIOUS
<1>2. P \subseteq L /\ {"", "Object", "<<"} \subseteq L /\ Word = Seq(P)
  BY <1>1 DEF Letters, Word
<1>3. Seq(P) \subseteq Seq(L)
  <2>1. P \subseteq L
    BY <1>2
  <2> QED
    BY <2>1, SeqMonotonic
<1>4. ASSUME p # Unknown PROVE Humanize(p) # <<>> /\ FlattenSeq(p) \in Seq(L)
  <2>1. p \in Seq(Seq(P) \ {<<>>})
    BY <1>2, <1>4 DEF Name
  <2>2. p \in Seq(Seq(L))
    <3>1. Len(p) \in Nat /\ p = [i \in 1 .. Len(p) |-> p[i]] /\ \A i \in 1 .. Len(p) : p[i] \in Seq(L)
      BY <1>3, <2>1
    <3>2. [i \in 1 .. Len(p) |-> p[i]] \in Seq(Seq(L))
      BY <3>1
    <3> QED
      BY <3>1, <3>2
  <2> QED
    BY <2>1, <2>2, HumanizeIs, FlattenType
<1>5. PICK b : b = NamedBase(p)
  OBVIOUS
<1>6. b \in Seq(L) /\ b # <<>>
  <2>1. CASE p = Unknown
    <3>1. b = <<"", "Object">>
      BY <1>5, <2>1 DEF NamedBase
    <3>2. "" \in L /\ "Object" \in L
      BY <1>1 DEF Letters
    <3>3. ASSUME NEW x \in L, NEW y \in L PROVE <<x, y>> \in Seq(L) /\ <<x, y>> # <<>>
      OBVIOUS
    <3> QED
      BY <3>1, <3>2, <3>3
  <2>2. CASE p # Unknown
    <3>1. PICK f : f = FlattenSeq(p) /\ f \in Seq(L)
      BY <1>4, <2>2
    <3>2. b = f \o <<"Object">>
      BY <1>5, <2>2, <3>1 DEF NamedBase
    <3>3. <<"Object">> \in Seq(L)
      <4>1. "Object" \in L
        BY <1>1 DEF Letters
      <4> QED
        BY <4>1
    <3>4. b \in Seq(L) /\ Len(b) = Len(f) + 1 /\ Len(f) \in Nat
      BY <3>1, <3>2, <3>3
    <3>5. Len(b) # 0
      BY <3>4
    <3> QED
      BY <3>4, <3>5
  <2> QED
    BY <2>1, <2>2
<1>7. PICK c : c = <<"<<">> \o b
  OBVIOUS
<1>8. c \in Seq(L) /\ c # <<>>
  <2>1. <<"<<">> \in Seq(L)
    <3>1. "<<" \in L
      BY <1>1 DEF Letters
    <3> QED
      BY <3>1
  <2>2. c \in Seq(L) /\ Len(c) = 1 + Len(b) /\ Len(b) \in Nat
    BY <1>6, <1>7, <2>1
  <2>3. Len(c) # 0
    BY <2>2
  <2> QED
    BY <2>2, <2>3
<1>9. ASSUME NEW x \in Seq(L) \ {<<>>} PROVE Humanize(<<x>>) # <<>>
  <2>1. <<x>> \in Seq(Seq(L) \ {<<>>})
    BY <1>9
  <2> QED
    BY <2>1, HumanizeIs
<1> QED
  BY <1>1, <1>4, <1>5, <1>6, <1>7, <1>8, <1>9

\* found_instance_method finds what the stock cop finds.
LEMMA InstanceFound ==
    ASSUME tree \in Shapes, NEW n \in Nodes, Kind(n) # "ensure", NEW a, a = Around[n],
           NEW s, RunsUnder(s, Hooked(n)), NEW name
    PROVE  FoundInstanceMethod(s, n, name) =
              IF InstanceOwner(a) = <<>> THEN s
              ELSE With(s, MethodFound(n, InstanceOwner(a) \o name, IdIn(a), a.inDef, a.scope, FALSE))
<1>1. PICK h, fs, anon : /\ h = Hooked(n) /\ fs = MethodFrames(h) /\ h \in Seq(Nodes)
                         /\ anon = AnonymousClassBlock(s)
  BY HookedIs
<1>2. /\ s.frames = fs /\ Pmn(fs) = a.pmn /\ a.pmn \in Name \cup {Unknown} /\ a \in AroundType
      /\ s.sclassAny > 0 <=> a.sclasses # <<>>
      /\ anon # 0 <=> Anonymous(a)
      /\ Anonymous(a) => AnonBase(fs, anon) = BaseOf(a) /\ AnonScopeId(fs, anon) = StockScopeId(a.block)
  <2>1. s.frames = fs /\ Pmn(fs) = a.pmn
    BY <1>1, NameIs DEF RunsUnder
  <2>2. a \in AroundType /\ a.pmn \in Name \cup {Unknown}
    BY AroundIs DEF AroundType
  <2>3. s.sclassAny > 0 <=> a.sclasses # <<>>
    BY <1>1, AroundTells DEF RunsUnder, Tells
  <2>4. s.sclassNonself = 0 <=> Places(Hooked(n), Nonself) = {}
    BY DEF RunsUnder
  <2>5. /\ anon # 0 <=> Anonymous(a)
        /\ Anonymous(a) => AnonBase(fs, anon) = BaseOf(a) /\ AnonScopeId(fs, anon) = StockScopeId(a.block)
    BY <1>1, <2>1, <2>4, AnonIs
  <2> QED
    BY <2>1, <2>2, <2>3, <2>5
<1>3. ASSUME NEW owner, NEW id
      PROVE  PushEvent(s, Event(n, owner \o name, id)) =
                With(s, MethodFound(n, owner \o name, id, a.inDef, a.scope, FALSE))
  <2>1. s.frames = MethodFrames(Hooked(n))
    BY <1>1, <1>2
  <2>2. PICK whole : whole = owner \o name
    OBVIOUS
  <2>3. PushEvent(s, Event(n, whole, id)) = With(s, MethodFound(n, whole, id, a.inDef, a.scope, FALSE))
    BY <2>1, PushIs, ZenonT(60)
  <2> QED
    BY <2>2, <2>3
<1>4. CASE a.pmn # Unknown
  <2>1. FoundInstanceMethod(s, n, name) = PushEvent(s, Event(n, Humanize(a.pmn) \o name, Plain))
    BY <1>2, <1>4 DEF FoundInstanceMethod
  <2>2. InstanceOwner(a) = Humanize(a.pmn) /\ IdIn(a) = Plain
    BY <1>4 DEF InstanceOwner, IdIn
  <2>3. Humanize(a.pmn) # <<>>
    BY <1>2, <1>4, OwnersAre
  <2> QED
    BY <1>3, <2>1, <2>2, <2>3
<1>5. CASE a.pmn = Unknown /\ Anonymous(a)
  <2>1. PICK owner : owner = InstanceOwner(a)
    OBVIOUS
  <2>2. owner = Humanize(<<IF a.sclasses # <<>> THEN <<"<<">> \o BaseOf(a) ELSE BaseOf(a)>>)
    BY <1>5, <2>1 DEF InstanceOwner
  <2>3. FoundInstanceMethod(s, n, name) =
          PushEvent(s, Event(n, Humanize(<<IF s.sclassAny > 0 THEN <<"<<">> \o AnonBase(fs, anon)
                                           ELSE AnonBase(fs, anon)>>) \o name, AnonScopeId(fs, anon)))
    BY <1>1, <1>2, <1>5 DEF FoundInstanceMethod
  <2>4. FoundInstanceMethod(s, n, name) = PushEvent(s, Event(n, owner \o name, StockScopeId(a.block)))
    BY <1>2, <1>5, <2>2, <2>3
  <2>5. owner # <<>>
    <3>1. Places(h, PlainBlock) # {} /\ a.block = Innermost(h, PlainBlock)
      BY <1>1, <1>5, AroundTells DEF Anonymous, Tells, Innermost
    <3>2. a.block \in Nodes
      BY <1>1, <3>1, InnermostIs
    <3>3. PICK p : p = Around[a.block].pmn /\ p \in Name \cup {Unknown} /\ BaseOf(a) = NamedBase(p)
      BY <3>2, AroundIs DEF AroundType, BaseOf
    <3>4. Humanize(<<NamedBase(p)>>) # <<>> /\ Humanize(<<<<"<<">> \o NamedBase(p)>>) # <<>>
      BY <3>3, OwnersAre
    <3> QED
      BY <2>2, <3>3, <3>4
  <2>6. IdIn(a) = StockScopeId(a.block)
    BY <1>5 DEF IdIn
  <2> QED
    BY <1>3, <2>1, <2>4, <2>5, <2>6
<1>6. CASE a.pmn = Unknown /\ ~Anonymous(a)
  <2> DEFINE subjects == {i \in DOMAIN fs : KindAt(fs, i) \in Sclass}
             outer == subjects # {} /\ KindAt(fs, Latest(subjects)) = "sclassSend"
             stock == a.sclasses # <<>> /\ Last(a.sclasses) = "sclassSend"
  <2>1. outer <=> stock
    <3>1. /\ DOMAIN fs = 1 .. Len(h) /\ \A i \in 1 .. Len(h) : KindAt(fs, i) = Kind(h[i])
      BY <1>1, MethodFramesAre
    <3>2. subjects = Places(h, Sclass)
      BY <3>1 DEF Places
    <3> HIDE DEF subjects
    <3>3. /\ a.sclasses # <<>> <=> subjects # {}
          /\ a.sclasses # <<>> => Last(a.sclasses) = Kind(Innermost(h, Sclass))
      BY <1>1, <3>2, AroundTells DEF Tells
    <3>4. subjects # {} => KindAt(fs, Latest(subjects)) = Kind(Innermost(h, Sclass))
      BY <1>1, <3>1, <3>2, InnermostIs
    <3> QED
      BY <3>3, <3>4
  <2>2. FoundInstanceMethod(s, n, name) =
          IF outer THEN PushEvent(s, Event(n, <<"x", ".">> \o name, Plain)) ELSE s
    <3>1. subjects # {} => Latest(subjects) = CHOOSE i \in subjects : \A j \in subjects : j <= i
      BY DEF Latest
    <3> HIDE DEF Plain
    <3> QED
      BY <1>1, <1>2, <1>6, <3>1 DEF FoundInstanceMethod
  <2>3. InstanceOwner(a) = IF stock THEN <<"x", ".">> ELSE <<>>
    BY <1>6 DEF InstanceOwner
  <2>4. IdIn(a) = Plain
    BY <1>6 DEF IdIn
  <2>5. <<"x", ".">> # <<>>
    OBVIOUS
  <2> HIDE DEF outer, stock
  <2> QED
    BY <1>3, <2>1, <2>2, <2>3, <2>4, <2>5
<1> QED
  BY <1>4, <1>5, <1>6

\* One sequence after another.
LEMMA ConcatAt ==
    ASSUME NEW T, NEW u \in Seq(T), NEW v \in Seq(T)
    PROVE  /\ u \o v \in Seq(T) /\ Len(u \o v) = Len(u) + Len(v)
           /\ Len(u) \in Nat /\ Len(v) \in Nat
           /\ \A i \in 1 .. Len(u) : (u \o v)[i] = u[i]
           /\ \A i \in 1 .. Len(v) : (u \o v)[Len(u) + i] = v[i]
<1>1. u \o v \in Seq(T) /\ Len(u \o v) = Len(u) + Len(v) /\ Len(u) \in Nat /\ Len(v) \in Nat
  OBVIOUS
<1>2. PICK l \in Nat, k \in Nat : l = Len(u) /\ k = Len(v)
  BY <1>1
<1>3. PICK w : w = u \o v
  OBVIOUS
<1>4. \A i \in 1 .. l + k : w[i] = IF i <= l THEN u[i] ELSE v[i - l]
  BY <1>2, <1>3
<1>5. \A i \in 1 .. l : w[i] = u[i]
  BY <1>4
<1>6. ASSUME NEW i \in 1 .. k PROVE w[l + i] = v[i]
  <2>1. l + i \in 1 .. l + k /\ ~(l + i <= l) /\ l + i - l = i
    OBVIOUS
  <2> QED
    BY <1>4, <2>1
<1> QED
  BY <1>1, <1>2, <1>3, <1>5, <1>6

\* Tuples of two and three.
LEMMA ShortPair ==
    ASSUME NEW c, NEW d
    PROVE  <<c>> \o <<d>> = <<c, d>>
<1>1. PICK T : T = {c, d}
  OBVIOUS
<1>2. c \in T /\ d \in T
  BY <1>1
<1>3. ASSUME NEW u \in Seq(T), NEW v \in Seq(T), Len(u) = Len(v), \A i \in 1 .. Len(u) : u[i] = v[i]
      PROVE  u = v
  BY <1>3
<1>4. PICK x, y, u : x = <<c>> /\ y = <<d>> /\ u = <<c, d>>
  OBVIOUS
<1>5. x \in Seq(T) /\ y \in Seq(T) /\ u \in Seq(T)
  BY <1>2, <1>4
<1>6. /\ Len(x) = 1 /\ x[1] = c
      /\ Len(y) = 1 /\ y[1] = d
      /\ Len(u) = 2 /\ u[1] = c /\ u[2] = d
  BY <1>4
<1>7. PICK w : w = x \o y
  OBVIOUS
<1>8. /\ w \in Seq(T) /\ Len(w) = Len(x) + Len(y)
      /\ \A i \in 1 .. Len(x) : w[i] = x[i]
      /\ \A i \in 1 .. Len(y) : w[Len(x) + i] = y[i]
  BY <1>5, <1>7, ConcatAt
<1>9. Len(w) = 2 /\ w[1] = c /\ w[2] = d
  BY <1>6, <1>8
<1>10. Len(w) = Len(u) /\ \A i \in 1 .. Len(w) : w[i] = u[i]
  BY <1>6, <1>9
<1> QED
  BY <1>3, <1>4, <1>5, <1>7, <1>8, <1>10

\* And so on.
LEMMA ShortTriple ==
    ASSUME NEW b, NEW c, NEW d
    PROVE  <<b, c>> \o <<d>> = <<b, c, d>> /\ <<b, c>> # <<>>
<1>1. PICK T : T = {b, c, d}
  OBVIOUS
<1>2. b \in T /\ c \in T /\ d \in T
  BY <1>1
<1>3. ASSUME NEW u \in Seq(T), NEW v \in Seq(T), Len(u) = Len(v), \A i \in 1 .. Len(u) : u[i] = v[i]
      PROVE  u = v
  BY <1>3
<1>4. PICK x, y, u : x = <<b, c>> /\ y = <<d>> /\ u = <<b, c, d>>
  OBVIOUS
<1>5. x \in Seq(T) /\ y \in Seq(T) /\ u \in Seq(T)
  BY <1>2, <1>4
<1>6. /\ Len(x) = 2 /\ x[1] = b /\ x[2] = c
      /\ Len(y) = 1 /\ y[1] = d
      /\ Len(u) = 3 /\ u[1] = b /\ u[2] = c /\ u[3] = d
  BY <1>4
<1>7. PICK w : w = x \o y
  OBVIOUS
<1>8. /\ w \in Seq(T) /\ Len(w) = Len(x) + Len(y)
      /\ \A i \in 1 .. Len(x) : w[i] = x[i]
      /\ \A i \in 1 .. Len(y) : w[Len(x) + i] = y[i]
  BY <1>5, <1>7, ConcatAt
<1>9. Len(w) = 3 /\ w[1] = b /\ w[2] = c /\ w[3] = d
  BY <1>6, <1>8
<1>10. Len(w) = Len(u) /\ \A i \in 1 .. Len(w) : w[i] = u[i]
  BY <1>6, <1>9
<1>11. x # <<>>
  BY <1>6
<1> QED
  BY <1>3, <1>4, <1>5, <1>7, <1>8, <1>10, <1>11

\* One more part of a name.
LEMMA PartsOf ==
    ASSUME NEW S, NEW u \in Seq(S), NEW T, NEW x \in Seq(T), x # <<>>, NEW d
    PROVE  (u \o x) \o <<d>> = u \o (x \o <<d>>) /\ u \o x # <<>>
<1>1. PICK R, y : R = S \cup T \cup {d} /\ y = <<d>>
  OBVIOUS
<1>2. S \subseteq R /\ T \subseteq R /\ d \in R
  BY <1>1
<1>3. u \in Seq(R) /\ x \in Seq(R)
  BY <1>2, SeqMonotonic
<1>4. y \in Seq(R)
  BY <1>1, <1>2
<1>5. (u \o x) \o y = u \o (x \o y)
  BY <1>3, <1>4, ConcatAssociative
<1>6. Len(u \o x) = Len(u) + Len(x) /\ Len(u) \in Nat /\ Len(x) \in Nat
  BY <1>3, ConcatAt
<1>7. Len(x) # 0
  BY <1>3
<1>8. Len(u \o x) # 0
  BY <1>6, <1>7
<1>9. u \o x # <<>>
  BY <1>8
<1> QED
  BY <1>1, <1>5, <1>9

\* The end of a name that is said in one piece.
LEMMA SaidInOne ==
    ASSUME NEW S, NEW u \in Seq(S), NEW c, NEW d
    PROVE  (u \o <<c>>) \o <<d>> = u \o <<c, d>> /\ u \o <<c>> # <<>>
<1>1. PICK x, T : x = <<c>> /\ T = {c}
  OBVIOUS
<1>2. x \in Seq(T) /\ x # <<>>
  <2>1. c \in T
    BY <1>1
  <2> QED
    BY <1>1, <2>1
<1>3. (u \o x) \o <<d>> = u \o (x \o <<d>>) /\ u \o x # <<>>
  BY <1>2, PartsOf
<1>4. <<c>> \o <<d>> = <<c, d>>
  BY ShortPair
<1> QED
  BY <1>1, <1>3, <1>4

\* The same for a longer end.
LEMMA SaidInTwo ==
    ASSUME NEW S, NEW u \in Seq(S), NEW b, NEW c, NEW d
    PROVE  (u \o <<b, c>>) \o <<d>> = u \o <<b, c, d>> /\ u \o <<b, c>> # <<>>
<1>1. PICK x, T : x = <<b, c>> /\ T = {b, c}
  OBVIOUS
<1>2. x \in Seq(T) /\ x # <<>>
  <2>1. b \in T /\ c \in T
    BY <1>1
  <2> QED
    BY <1>1, <2>1
<1>3. (u \o x) \o <<d>> = u \o (x \o <<d>>) /\ u \o x # <<>>
  BY <1>2, PartsOf
<1>4. <<b, c>> \o <<d>> = <<b, c, d>>
  BY ShortTriple
<1> QED
  BY <1>1, <1>3, <1>4

\* check_self_receiver finds what the stock cop finds.
LEMMA SelfFound ==
    ASSUME tree \in Shapes, NEW n \in Nodes, Kind(n) # "ensure", NEW a, a = Around[n],
           NEW s, RunsUnder(s, Hooked(n))
    PROVE  FoundSelfMethod(s, n) =
              IF SelfOwner(a) = <<>> THEN s
              ELSE With(s, MethodFound(n, SelfOwner(a) \o <<"m">>, IdIn(a), a.inDef, a.scope, FALSE))
<1>1. PICK h, fs, anon : /\ h = Hooked(n) /\ fs = MethodFrames(h) /\ h \in Seq(Nodes)
                         /\ anon = AnonymousClassBlock(s)
  BY HookedIs
<1>2. /\ s.frames = fs /\ Pmn(fs) = a.pmn /\ a.pmn \in Name \cup {Unknown}
      /\ anon # 0 <=> Anonymous(a)
      /\ Anonymous(a) => AnonBase(fs, anon) = BaseOf(a) /\ AnonScopeId(fs, anon) = StockScopeId(a.block)
  <2>1. s.frames = fs /\ Pmn(fs) = a.pmn
    BY <1>1, NameIs DEF RunsUnder
  <2>2. a.pmn \in Name \cup {Unknown}
    BY AroundIs DEF AroundType
  <2>3. s.sclassNonself = 0 <=> Places(Hooked(n), Nonself) = {}
    BY DEF RunsUnder
  <2>4. /\ anon # 0 <=> Anonymous(a)
        /\ Anonymous(a) => AnonBase(fs, anon) = BaseOf(a) /\ AnonScopeId(fs, anon) = StockScopeId(a.block)
    BY <1>1, <2>1, <2>3, AnonIs
  <2> QED
    BY <2>1, <2>2, <2>4
<1>3. ASSUME NEW whole, NEW id
      PROVE  PushEvent(s, Event(n, whole, id)) =
                With(s, MethodFound(n, whole, id, a.inDef, a.scope, FALSE))
  <2>1. s.frames = MethodFrames(Hooked(n))
    BY <1>1, <1>2
  <2> QED
    BY <2>1, PushIs, ZenonT(60)
<1>4. CASE a.pmn # Unknown
  <2>1. PICK u : u = (IF a.pmn = <<>> THEN <<"Object">> ELSE FlattenSeq(a.pmn))
    OBVIOUS
  <2>2. u \in Seq(Letters)
    <3>1. "Object" \in Letters
      BY DEF Letters
    <3>2. <<"Object">> \in Seq(Letters)
      BY <3>1
    <3>3. FlattenSeq(a.pmn) \in Seq(Letters)
      BY <1>2, <1>4, OwnersAre
    <3> QED
      BY <2>1, <3>2, <3>3
  <2>3. FoundSelfMethod(s, n) = PushEvent(s, Event(n, u \o <<".", "m">>, Plain))
    BY <1>2, <1>4, <2>1 DEF FoundSelfMethod
  <2>4. SelfOwner(a) = u \o <<".">> /\ IdIn(a) = Plain
    BY <1>4, <2>1 DEF SelfOwner, IdIn
  <2>5. SelfOwner(a) \o <<"m">> = u \o <<".", "m">> /\ SelfOwner(a) # <<>>
    <3>1. PICK x, y : x = "." /\ y = "m"
      OBVIOUS
    <3>2. (u \o <<x>>) \o <<y>> = u \o <<x, y>> /\ u \o <<x>> # <<>>
      BY <2>2, SaidInOne
    <3> QED
      BY <2>4, <3>1, <3>2
  <2> QED
    BY <1>3, <2>3, <2>4, <2>5
<1>5. CASE a.pmn = Unknown /\ Anonymous(a)
  <2>1. PICK u : u = BaseOf(a)
    OBVIOUS
  <2>2. u \in Seq(Letters)
    <3>1. Places(h, PlainBlock) # {} /\ a.block = Innermost(h, PlainBlock)
      BY <1>1, <1>5, AroundTells DEF Anonymous, Tells, Innermost
    <3>2. a.block \in Nodes
      BY <1>1, <3>1, InnermostIs
    <3>3. PICK p : p = Around[a.block].pmn /\ p \in Name \cup {Unknown} /\ BaseOf(a) = NamedBase(p)
      BY <3>2, AroundIs DEF AroundType, BaseOf
    <3> QED
      BY <2>1, <3>3, OwnersAre
  <2>3. FoundSelfMethod(s, n) = PushEvent(s, Event(n, u \o <<".", "m">>, StockScopeId(a.block)))
    BY <1>1, <1>2, <1>5, <2>1 DEF FoundSelfMethod
  <2>4. SelfOwner(a) = u \o <<".">> /\ IdIn(a) = StockScopeId(a.block)
    BY <1>5, <2>1 DEF SelfOwner, IdIn
  <2>5. SelfOwner(a) \o <<"m">> = u \o <<".", "m">> /\ SelfOwner(a) # <<>>
    <3>1. PICK x, y : x = "." /\ y = "m"
      OBVIOUS
    <3>2. (u \o <<x>>) \o <<y>> = u \o <<x, y>> /\ u \o <<x>> # <<>>
      BY <2>2, SaidInOne
    <3> QED
      BY <2>4, <3>1, <3>2
  <2> QED
    BY <1>3, <2>3, <2>4, <2>5
<1>6. CASE a.pmn = Unknown /\ ~Anonymous(a)
  <2>1. FoundSelfMethod(s, n) = s
    BY <1>1, <1>2, <1>6 DEF FoundSelfMethod
  <2>2. SelfOwner(a) = <<>>
    BY <1>6 DEF SelfOwner
  <2> QED
    BY <2>1, <2>2
<1> QED
  BY <1>4, <1>5, <1>6

\* check_const_receiver finds what the stock cop finds.
LEMMA ConstFound ==
    ASSUME tree \in Shapes, NEW n \in Nodes, Kind(n) # "ensure", NEW a, a = Around[n],
           NEW s, RunsUnder(s, Hooked(n))
    PROVE  /\ FoundConstMethod(s, n) =
                 With(s, MethodFound(n, ConstOwner(a) \o <<"m">>, Plain, a.inDef, a.scope, FALSE))
           /\ ConstOwner(a) # <<>>
<1>1. PICK h, fs : h = Hooked(n) /\ fs = MethodFrames(h) /\ h \in Seq(Nodes) /\ s.frames = fs
  BY HookedIs DEF RunsUnder
<1>2. ASSUME NEW whole, NEW id
      PROVE  PushEvent(s, Event(n, whole, id)) =
                With(s, MethodFound(n, whole, id, a.inDef, a.scope, FALSE))
  <2>1. s.frames = MethodFrames(Hooked(n))
    BY <1>1
  <2> QED
    BY <2>1, PushIs, ZenonT(60)
<1> DEFINE named == {i \in DOMAIN fs : KindAt(fs, i) \in {"classA", "casgn"}}
           i == CHOOSE k \in named : \A j \in named : j <= k
           around == Pmn(SubSeq(fs, 1, i - 1))
<1>3. FoundConstMethod(s, n) =
        IF named = {} THEN PushEvent(s, Event(n, <<"(defs)", ".", "m">>, Plain))
        ELSE PushEvent(s, Event(n, (IF around = Unknown THEN <<"">> ELSE FlattenSeq(around))
                                      \o <<"A", ".", "m">>, Plain))
  BY <1>1 DEF FoundConstMethod
<1>4. named = Places(h, NamedKinds) /\ (named # {} => i = Latest(named))
  <2>1. /\ DOMAIN fs = 1 .. Len(h) /\ \A k \in 1 .. Len(h) : KindAt(fs, k) = Kind(h[k])
    BY <1>1, MethodFramesAre
  <2>2. named = Places(h, NamedKinds)
    BY <2>1 DEF Places, NamedKinds
  <2> HIDE DEF named
  <2>3. named # {} => i = Latest(named)
    BY DEF Latest
  <2> QED
    BY <2>2, <2>3
<1>5. a.named = Innermost(h, NamedKinds)
  BY <1>1, AroundTells DEF Tells
<1> HIDE DEF named, i
<1>6. CASE named = {}
  <2>1. ConstOwner(a) = <<"(defs)", ".">>
    <3>1. Places(h, NamedKinds) = {}
      BY <1>4, <1>6
    <3>2. a.named = 0
      BY <1>5, <3>1 DEF Innermost
    <3> QED
      BY <3>2 DEF ConstOwner
  <2>2. PICK x, y, z : x = "(defs)" /\ y = "." /\ z = "m"
    OBVIOUS
  <2>3. <<x, y>> \o <<z>> = <<x, y, z>> /\ <<x, y>> # <<>>
    BY ShortTriple
  <2> QED
    BY <1>2, <1>3, <1>6, <2>1, <2>2, <2>3, ZenonT(60)
<1>7. CASE named # {}
  <2>1. PICK b : b = a.named
    OBVIOUS
  <2>2. i \in 1 .. Len(h) /\ b = h[i] /\ b # 0 /\ b \in Nodes
    <3>1. Places(Hooked(n), NamedKinds) # {} /\ i = Latest(Places(Hooked(n), NamedKinds))
      BY <1>1, <1>4, <1>7
    <3>2. b = Innermost(Hooked(n), NamedKinds)
      BY <1>1, <1>5, <2>1
    <3> QED
      BY <1>1, <3>1, <3>2, InnermostIs
  <2>3. around = Around[b].pmn
    BY <1>1, <2>2, FramesOutside
  <2>4. PICK u : u = (IF around = Unknown THEN <<"">> ELSE FlattenSeq(around))
    OBVIOUS
  <2>5. u \in Seq(Letters)
    <3>1. Around[b].pmn \in Name \cup {Unknown}
      BY <2>2, AroundIs DEF AroundType
    <3>2. <<"">> \in Seq(Letters)
      <4>1. "" \in Letters
        BY DEF Letters
      <4>2. ASSUME NEW x \in Letters PROVE <<x>> \in Seq(Letters)
        OBVIOUS
      <4> QED
        BY <4>1, <4>2
    <3> HIDE DEF around
    <3> QED
      BY <2>3, <2>4, <3>1, <3>2, OwnersAre
  <2>6. ConstOwner(a) = u \o <<"A", ".">>
    BY <2>1, <2>2, <2>3, <2>4 DEF ConstOwner, NamedOwner
  <2>7. ConstOwner(a) \o <<"m">> = u \o <<"A", ".", "m">> /\ ConstOwner(a) # <<>>
    <3>1. PICK x, y, z : x = "A" /\ y = "." /\ z = "m"
      OBVIOUS
    <3>2. (u \o <<x, y>>) \o <<z>> = u \o <<x, y, z>> /\ u \o <<x, y>> # <<>>
      BY <2>5, SaidInTwo
    <3> QED
      BY <2>6, <3>1, <3>2
  <2> QED
    BY <1>2, <1>3, <1>7, <2>4, <2>7
<1> QED
  BY <1>6, <1>7

\* track_intentional_redefinition marks the name the stock cop marks.
LEMMA MarkerFound ==
    ASSUME tree \in Shapes, NEW n \in Nodes, NEW a, a = Around[n], NEW s, RunsUnder(s, Hooked(n))
    PROVE  TrackIntentionalRedefinition(s, n) =
              IF a.pmn = Unknown THEN s
              ELSE With(s, MethodFound(n, Humanize(a.pmn) \o <<"m">>, Plain, FALSE, 0, TRUE))
<1>1. Pmn(s.frames) = a.pmn
  BY NameIs DEF RunsUnder
<1>2. PICK name, no, yes : name = Humanize(a.pmn) \o <<"m">> /\ no = FALSE /\ yes = TRUE
  OBVIOUS
<1>3. [Event(n, name, Plain) EXCEPT !.marks = yes] = MethodFound(n, name, Plain, no, 0, yes)
  <2>1. PICK e, id : e = Event(n, name, id) /\ id = Plain
    OBVIOUS
  <2>2. e = [at |-> n, name |-> name, id |-> id, prefix |-> no, scope |-> 0, marks |-> no]
    BY <1>2, <2>1 DEF Event
  <2>3. [e EXCEPT !.marks = yes] =
          [at |-> n, name |-> name, id |-> id, prefix |-> no, scope |-> 0, marks |-> yes]
    BY <2>2
  <2> QED
    BY <2>1, <2>3 DEF MethodFound
<1> QED
  BY <1>1, <1>2, <1>3 DEF TrackIntentionalRedefinition, With

\* One more event.
LEMMA WithIs ==
    ASSUME NEW s, EventsShape(s), NEW e
    PROVE  /\ EventsShape(With(s, e)) /\ With(s, e).events = s.events \o <<e>>
           /\ With(s, e).frames = s.frames /\ With(s, e).if = s.if
           /\ With(s, e).sclassAny = s.sclassAny /\ With(s, e).sclassNonself = s.sclassNonself
<1>1. DOMAIN s = {"frames", "if", "sclassAny", "sclassNonself", "events"}
  BY DEF EventsShape
<1>2. PICK u : u = s.events
  OBVIOUS
<1>3. PICK S : u \in Seq(S)
  BY <1>2 DEF EventsShape, IsSequence
<1>4. Append(u, e) = u \o <<e>> /\ IsSequence(Append(u, e))
  <2>1. PICK T : T = S \cup {e}
    OBVIOUS
  <2>2. S \subseteq T /\ e \in T
    BY <2>1
  <2>3. u \in Seq(T)
    BY <1>3, <2>2, SeqMonotonic
  <2>4. Append(u, e) = u \o <<e>>
    BY <2>2, <2>3, AppendIsConcat
  <2>5. Append(u, e) \in Seq(T)
    BY <2>2, <2>3
  <2> QED
    BY <2>4, <2>5 DEF IsSequence
<1>5. PICK t : t = With(s, e)
  OBVIOUS
<1>6. /\ DOMAIN t = DOMAIN s /\ t.events = Append(u, e)
      /\ t.frames = s.frames /\ t.if = s.if
      /\ t.sclassAny = s.sclassAny /\ t.sclassNonself = s.sclassNonself
  BY <1>1, <1>2, <1>5 DEF With
<1>7. EventsShape(t)
  BY <1>1, <1>4, <1>6 DEF EventsShape
<1> QED
  BY <1>2, <1>4, <1>5, <1>6, <1>7

SameBut(s, t, found) ==
    /\ EventsShape(t) /\ t.events = s.events \o found
    /\ t.frames = s.frames /\ t.if = s.if
    /\ t.sclassAny = s.sclassAny /\ t.sclassNonself = s.sclassNonself

\* Nothing, one or two events more.
LEMMA SameButIs ==
    ASSUME NEW s, EventsShape(s)
    PROVE  /\ SameBut(s, s, <<>>)
           /\ \A e : SameBut(s, With(s, e), <<e>>)
           /\ \A e, f : SameBut(s, With(With(s, e), f), <<e, f>>)
<1>1. PICK u, S : u = s.events /\ u \in Seq(S)
  BY DEF EventsShape, IsSequence
<1>2. u \o <<>> = u
  BY <1>1
<1>3. SameBut(s, s, <<>>)
  BY <1>1, <1>2 DEF SameBut
<1>4. \A e : SameBut(s, With(s, e), <<e>>)
  BY WithIs DEF SameBut
<1>5. ASSUME NEW e, NEW f PROVE SameBut(s, With(With(s, e), f), <<e, f>>)
  <2>1. PICK t, v : t = With(s, e) /\ v = With(t, f)
    OBVIOUS
  <2>2. SameBut(s, t, <<e>>)
    BY <1>4, <2>1
  <2>3. /\ EventsShape(v) /\ v.events = t.events \o <<f>>
        /\ v.frames = t.frames /\ v.if = t.if
        /\ v.sclassAny = t.sclassAny /\ v.sclassNonself = t.sclassNonself
    BY <2>1, <2>2, WithIs DEF SameBut
  <2>4. t.events = u \o <<e>>
    BY <1>1, <2>2 DEF SameBut
  <2>5. (u \o <<e>>) \o <<f>> = u \o <<e, f>>
    <3>1. u \in Seq(S)
      BY <1>1
    <3> QED
      BY <3>1, SaidInOne
  <2>6. v.events = s.events \o <<e, f>>
    BY <1>1, <2>3, <2>4, <2>5
  <2> QED
    BY <2>1, <2>2, <2>3, <2>6 DEF SameBut
<1> QED
  BY <1>3, <1>4, <1>5

\* Of every node the rule finds what the stock cop finds.
LEMMA FoundIs ==
    ASSUME tree \in Shapes, NEW n \in Nodes, Kind(n) # "ensure", NEW s, EventsShape(s),
           RunsUnder(s, Hooked(n))
    PROVE  SameBut(s, FoundIn(s, n), StockFound(Around[n], n))
<1>1. PICK a, k, found : a = Around[n] /\ k = Kind(n) /\ found = StockFound(a, n)
  OBVIOUS
<1>2. PICK inDef, inIf : inDef = a.inDef /\ inIf = a.inIf /\ inDef \in BOOLEAN /\ inIf \in BOOLEAN
  BY <1>1, AroundIs DEF AroundType
<1>3. s.if = 0 <=> ~inIf
  BY <1>1, <1>2, AroundTells DEF RunsUnder, Tells
<1>4. found =
        IF \/ ~DefKind(k) /\ k \notin {"alias", "attr", "marker"}
           \/ inIf /\ k \notin {"attr", "marker"}
           \/ StockOwner(a, n) = <<>>
        THEN <<>>
        ELSE IF k = "attr" THEN <<StockEvent(a, n, <<"m">>), StockEvent(a, n, <<"m=">>)>>
        ELSE <<StockEvent(a, n, <<"m">>)>>
  BY <1>1, <1>2, StockFoundIs
<1>5. /\ k # "marker" /\ k # "defOnA" =>
            \A name : StockEvent(a, n, name) =
                         MethodFound(n, StockOwner(a, n) \o name, IdIn(a), inDef, a.scope, FALSE)
      /\ k = "defOnA" =>
            StockEvent(a, n, <<"m">>) =
                MethodFound(n, StockOwner(a, n) \o <<"m">>, Plain, inDef, a.scope, FALSE)
  <2>1. PICK marks : marks = (k = "marker")
    OBVIOUS
  <2>2. PICK d : d = (k # "marker" /\ a.inDef)
    OBVIOUS
  <2>3. \A name : StockEvent(a, n, name) =
            MethodFound(n, StockOwner(a, n) \o name, IF k # "defOnA" THEN IdIn(a) ELSE Plain, d,
                        IF k = "marker" THEN 0 ELSE a.scope, marks)
    BY <1>1, <2>1, <2>2 DEF StockEvent
  <2>4. k # "marker" => marks = FALSE /\ d = inDef
    BY <1>2, <2>1, <2>2
  <2> QED
    BY <2>3, <2>4
<1>6. CASE k = "attr"
  <2>1. StockOwner(a, n) = InstanceOwner(a)
    BY <1>1, <1>6 DEF StockOwner
  <2>2. FoundIn(s, n) = FoundInstanceMethod(FoundInstanceMethod(s, n, <<"m">>), n, <<"m=">>)
    BY <1>1, <1>6 DEF FoundIn
  <2>3. PICK e, f : /\ e = MethodFound(n, InstanceOwner(a) \o <<"m">>, IdIn(a), inDef, a.scope, FALSE)
                    /\ f = MethodFound(n, InstanceOwner(a) \o <<"m=">>, IdIn(a), inDef, a.scope, FALSE)
    OBVIOUS
  <2>4. FoundInstanceMethod(s, n, <<"m">>) = IF InstanceOwner(a) = <<>> THEN s ELSE With(s, e)
    BY <1>1, <1>2, <2>3, InstanceFound
  <2>5. FoundInstanceMethod(s, n, <<"m=">>) = IF InstanceOwner(a) = <<>> THEN s ELSE With(s, f)
    BY <1>1, <1>2, <2>3, InstanceFound
  <2>6. RunsUnder(With(s, e), Hooked(n))
    BY WithIs DEF RunsUnder
  <2>7. FoundInstanceMethod(With(s, e), n, <<"m=">>) =
          IF InstanceOwner(a) = <<>> THEN With(s, e) ELSE With(With(s, e), f)
    BY <1>1, <1>2, <2>3, <2>6, InstanceFound
  <2>8. FoundIn(s, n) = IF InstanceOwner(a) = <<>> THEN s ELSE With(With(s, e), f)
    BY <2>2, <2>4, <2>5, <2>7
  <2>9. found = IF InstanceOwner(a) = <<>> THEN <<>> ELSE <<e, f>>
    BY <1>4, <1>5, <1>6, <2>1, <2>3
  <2> QED
    BY <1>1, <2>8, <2>9, SameButIs
<1>7. CASE k = "marker"
  <2>1. FoundIn(s, n) = TrackIntentionalRedefinition(s, n)
    BY <1>1, <1>7 DEF FoundIn
  <2>2. PICK e : e = MethodFound(n, Humanize(a.pmn) \o <<"m">>, Plain, FALSE, 0, TRUE)
    OBVIOUS
  <2>3. TrackIntentionalRedefinition(s, n) = IF a.pmn = Unknown THEN s ELSE With(s, e)
    BY <1>1, <2>2, MarkerFound
  <2>4. found = IF a.pmn = Unknown THEN <<>> ELSE <<e>>
    <3>1. CASE a.pmn = Unknown
      <4>1. StockOwner(a, n) = <<>>
        BY <1>1, <1>7, <3>1 DEF StockOwner
      <4> QED
        BY <1>4, <3>1, <4>1
    <3>2. CASE a.pmn # Unknown
      <4>1. StockOwner(a, n) = Humanize(a.pmn) /\ IdIn(a) = Plain
        BY <1>1, <1>7, <3>2 DEF StockOwner, InstanceOwner, IdIn
      <4>2. Humanize(a.pmn) # <<>>
        BY <1>1, <3>2, OwnersAre, AroundIs DEF AroundType
      <4>3. StockEvent(a, n, <<"m">>) = e
        <5>1. PICK marks : marks = (k = "marker") /\ marks = TRUE
          BY <1>7
        <5>2. PICK d : d = (k # "marker" /\ a.inDef) /\ d = FALSE
          BY <1>7
        <5>3. StockEvent(a, n, <<"m">>) =
                MethodFound(n, StockOwner(a, n) \o <<"m">>, IF k # "defOnA" THEN IdIn(a) ELSE Plain, d,
                            IF k = "marker" THEN 0 ELSE a.scope, marks)
          BY <1>1, <5>1, <5>2 DEF StockEvent
        <5> QED
          BY <1>7, <2>2, <4>1, <5>1, <5>2, <5>3
      <4> QED
        BY <1>4, <1>7, <3>2, <4>1, <4>2, <4>3
    <3> QED
      BY <3>1, <3>2
  <2> QED
    BY <1>1, <2>1, <2>3, <2>4, SameButIs
<1>8. CASE k \in {"def", "alias"}
  <2>1. StockOwner(a, n) = InstanceOwner(a) /\ (k = "def" => DefKind(k))
    BY <1>1, <1>8 DEF StockOwner, DefKind
  <2>2. PICK e : e = MethodFound(n, InstanceOwner(a) \o <<"m">>, IdIn(a), inDef, a.scope, FALSE)
    OBVIOUS
  <2>3. FoundIn(s, n) = IF inIf THEN s ELSE FoundInstanceMethod(s, n, <<"m">>)
    BY <1>1, <1>3, <1>8 DEF FoundIn
  <2>4. FoundInstanceMethod(s, n, <<"m">>) = IF InstanceOwner(a) = <<>> THEN s ELSE With(s, e)
    BY <1>1, <1>2, <2>2, InstanceFound
  <2>5. found = IF inIf \/ InstanceOwner(a) = <<>> THEN <<>> ELSE <<e>>
    BY <1>4, <1>5, <1>8, <2>1, <2>2
  <2> QED
    BY <1>1, <2>3, <2>4, <2>5, SameButIs
<1>9. CASE k = "defs"
  <2>1. StockOwner(a, n) = SelfOwner(a) /\ DefKind(k)
    BY <1>1, <1>9 DEF StockOwner, DefKind
  <2>2. PICK e : e = MethodFound(n, SelfOwner(a) \o <<"m">>, IdIn(a), inDef, a.scope, FALSE)
    OBVIOUS
  <2>3. FoundIn(s, n) = IF inIf THEN s ELSE FoundSelfMethod(s, n)
    BY <1>1, <1>3, <1>9 DEF FoundIn
  <2>4. FoundSelfMethod(s, n) = IF SelfOwner(a) = <<>> THEN s ELSE With(s, e)
    BY <1>1, <1>2, <2>2, SelfFound
  <2>5. found = IF inIf \/ SelfOwner(a) = <<>> THEN <<>> ELSE <<e>>
    BY <1>4, <1>5, <1>9, <2>1, <2>2
  <2> QED
    BY <1>1, <2>3, <2>4, <2>5, SameButIs
<1>10. CASE k = "defOnA"
  <2>1. StockOwner(a, n) = ConstOwner(a) /\ DefKind(k)
    BY <1>1, <1>10 DEF StockOwner, DefKind
  <2>2. PICK e : e = MethodFound(n, ConstOwner(a) \o <<"m">>, Plain, inDef, a.scope, FALSE)
    OBVIOUS
  <2>3. FoundIn(s, n) = IF inIf THEN s ELSE FoundConstMethod(s, n)
    BY <1>1, <1>3, <1>10 DEF FoundIn
  <2>4. FoundConstMethod(s, n) = With(s, e) /\ ConstOwner(a) # <<>>
    BY <1>1, <1>2, <2>2, ConstFound
  <2>5. found = IF inIf THEN <<>> ELSE <<e>>
    BY <1>4, <1>5, <1>10, <2>1, <2>2, <2>4
  <2> QED
    BY <1>1, <2>3, <2>4, <2>5, SameButIs
<1>11. CASE k \notin {"attr", "marker", "def", "alias", "defs", "defOnA"}
  <2>1. FoundIn(s, n) = s
    BY <1>1, <1>11 DEF FoundIn
  <2>2. ~DefKind(k)
    BY <1>11 DEF DefKind
  <2>3. found = <<>>
    BY <1>4, <1>11, <2>2
  <2> QED
    BY <1>1, <2>1, <2>3, SameButIs
<1> QED
  BY <1>6, <1>7, <1>8, <1>9, <1>10, <1>11

-----------------------------------------------------------------------------
(* The running state against what the stock cop finds.                     *)

\* What is found of a node is a sequence of what may be found of one.
LEMMA StockFoundType ==
    ASSUME NEW N \in Nat, NEW E,
           E = {StockEvent(Around[j], j, name) : j \in 1 .. N, name \in {<<"m">>, <<"m=">>}}
    PROVE  \A j \in 1 .. N : StockFound(Around[j], j) \in Seq(E)
<1> SUFFICES ASSUME NEW j \in 1 .. N PROVE StockFound(Around[j], j) \in Seq(E)
  OBVIOUS
<1>1. PICK d, e, f : /\ d = StockEvent(Around[j], j, <<"m">>) /\ e = StockEvent(Around[j], j, <<"m=">>)
                     /\ f = StockFound(Around[j], j)
  OBVIOUS
<1>2. d \in E /\ e \in E
  BY <1>1
<1>3. f = <<>> \/ f = <<d, e>> \/ f = <<d>>
  BY <1>1, StockFoundIs
<1>4. <<>> \in Seq(E) /\ <<d, e>> \in Seq(E) /\ <<d>> \in Seq(E)
  BY <1>2
<1> QED
  BY <1>1, <1>3, <1>4

\* The stream of the stock cop, node by node.
LEMMA StockHistoryIs ==
    ASSUME tree \in Shapes
    PROVE  /\ StockHistory[0] = <<>>
           /\ \A n \in Nodes : StockHistory[n] = StockHistory[n - 1] \o StockFound(Around[n], n)
<1>1. PICK N \in Nat : N = Len(tree.parent) /\ Nodes = 1 .. N /\ Len(tree.kind) = N
  BY TreeFacts
<1> DEFINE E == {StockEvent(Around[j], j, name) : j \in 1 .. N, name \in {<<"m">>, <<"m=">>}}
           V == Seq(E)
           more(u, j) == u \o StockFound(Around[j], j)
           q == [j \in 1 .. N |-> j - 1]
           G == [c \in (1 .. N) \X V |-> more(c[2], c[1])]
           IsStream(u) == u = [j \in 0 .. N |-> IF j = 0 THEN <<>> ELSE more(u[j - 1], j)]
<1>0. \A j \in 1 .. N : StockFound(Around[j], j) \in Seq(E)
  BY StockFoundType
<1> HIDE DEF E
<1>2. <<>> \in V
  OBVIOUS
<1>3. ASSUME NEW j \in 1 .. N, NEW v \in V PROVE G[<<j, v>>] = more(v, j) /\ G[<<j, v>>] \in V
  <2>1. PICK w : w = StockFound(Around[j], j)
    OBVIOUS
  <2>2. w \in Seq(E) /\ v \in Seq(E)
    BY <1>0, <2>1
  <2>3. v \o w \in Seq(E)
    BY <2>2
  <2>4. more(v, j) \in V
    BY <2>1, <2>3
  <2>5. G[<<j, v>>] = more(v, j)
    <3> HIDE DEF more, V
    <3> QED
      OBVIOUS
  <2> HIDE DEF more, V, G
  <2> QED
    BY <2>4, <2>5
<1> HIDE DEF V, G
<1>4. RecursiveStep(N, V, q, G)
  <2>1. \A j \in 1 .. N : q[j] \in 0 .. j - 1
    OBVIOUS
  <2>2. \A j \in 1 .. N : \A v \in V : G[<<j, v>>] \in V
    BY <1>3
  <2> QED
    BY <2>1, <2>2 DEF RecursiveStep
<1>5. PICK f : SolvesRecursion(f, N, V, <<>>, q, G)
  BY <1>2, <1>4, Recursion
<1>6. \A j \in 1 .. N : f[j] = more(f[j - 1], j)
  <2> SUFFICES ASSUME NEW j \in 1 .. N PROVE f[j] = more(f[j - 1], j)
    OBVIOUS
  <2>1. q[j] = j - 1 /\ j - 1 \in 0 .. N
    OBVIOUS
  <2>2. f[j] = G[<<j, f[j - 1]>>] /\ f[j - 1] \in V
    BY <1>5, <2>1 DEF SolvesRecursion
  <2> HIDE DEF more
  <2> QED
    BY <1>3, <2>2
<1> HIDE DEF more
<1>7. f[0] = <<>> /\ f = [j \in 0 .. N |-> f[j]]
  BY <1>5 DEF SolvesRecursion
<1>8. IsStream(f)
  <2>1. \A j \in 0 .. N : j = 0 \/ j \in 1 .. N
    OBVIOUS
  <2>2. \A j \in 0 .. N : f[j] = IF j = 0 THEN <<>> ELSE more(f[j - 1], j)
    BY <1>6, <1>7, <2>1
  <2> QED
    BY <1>7, <2>2
<1>9. StockHistory = CHOOSE u : IsStream(u)
  BY <1>1 DEF StockHistory, more
<1> HIDE DEF IsStream
<1>10. IsStream(StockHistory)
  BY <1>8, <1>9
<1>11. \A j \in 0 .. N : StockHistory[j] = IF j = 0 THEN <<>> ELSE more(StockHistory[j - 1], j)
  BY <1>10 DEF IsStream
<1>12. 0 \in 0 .. N /\ \A j \in 1 .. N : j \in 0 .. N /\ j # 0
  OBVIOUS
<1> QED
  BY <1>1, <1>11, <1>12 DEF more

\* How many of the nodes h are of these kinds.
Tally(h, kinds) == Cardinality(Places(h, kinds))

\* One more counts if it is of them.
LEMMA TallyStep ==
    ASSUME NEW S, NEW h \in Seq(S), NEW kinds
    PROVE  /\ Tally(h, kinds) \in Nat /\ Tally(<<>>, kinds) = 0
           /\ Tally(h, kinds) = 0 <=> Places(h, kinds) = {}
           /\ Tally(h, kinds) > 0 <=> Places(h, kinds) # {}
           /\ \A n \in S : Tally(Append(h, n), kinds) =
                              Tally(h, kinds) + IF Kind(n) \in kinds THEN 1 ELSE 0
<1>1. PICK l, T : l = Len(h) /\ T = Places(h, kinds) /\ l \in Nat
  OBVIOUS
<1>2. T \subseteq 1 .. l
  BY <1>1 DEF Places
<1>3. IsFiniteSet(1 .. l)
  BY <1>1, FS_Interval
<1>4. IsFiniteSet(T) /\ Cardinality(T) \in Nat
  BY <1>2, <1>3, FS_Subset, FS_CardinalityType
<1>5. Cardinality(T) = 0 <=> T = {}
  BY <1>4, FS_EmptySet
<1>6. Tally(<<>>, kinds) = 0
  <2>1. Places(<<>>, kinds) = {}
    BY DEF Places
  <2> QED
    BY <2>1, FS_EmptySet DEF Tally
<1>7. ASSUME NEW n \in S
      PROVE  Tally(Append(h, n), kinds) = Tally(h, kinds) + IF Kind(n) \in kinds THEN 1 ELSE 0
  <2>1. Places(Append(h, n), kinds) = IF Kind(n) \in kinds THEN T \cup {l + 1} ELSE T
    BY <1>1, PlacesStep
  <2>2. l + 1 \notin T
    BY <1>1, <1>2
  <2>3. Cardinality(T \cup {l + 1}) = Cardinality(T) + 1
    BY <1>4, <2>2, FS_AddElement
  <2> QED
    BY <1>1, <1>4, <2>1, <2>3 DEF Tally
<1>8. Tally(h, kinds) = Cardinality(T)
  BY <1>1 DEF Tally
<1> QED
  BY <1>1, <1>4, <1>5, <1>6, <1>7, <1>8

\* The running state under the hooked nodes h, after the first m nodes.
MethodsAt(s, h, m) ==
    /\ EventsShape(s) /\ s.frames = MethodFrames(h)
    /\ s.if = Tally(h, {"if"}) /\ s.sclassAny = Tally(h, Sclass)
    /\ s.sclassNonself = Tally(h, Nonself)
    /\ s.events = StockHistory[m]

\* What the frames and the counters tell of it.
LEMMA MethodsRunUnder ==
    ASSUME NEW S, NEW h \in Seq(S), NEW s, NEW m, MethodsAt(s, h, m)
    PROVE  RunsUnder(s, h)
<1>1. s.if = 0 <=> Places(h, {"if"}) = {}
  BY TallyStep DEF MethodsAt
<1>2. s.sclassAny > 0 <=> Places(h, Sclass) # {}
  BY TallyStep DEF MethodsAt
<1>3. s.sclassNonself = 0 <=> Places(h, Nonself) = {}
  BY TallyStep DEF MethodsAt
<1> QED
  BY <1>1, <1>2, <1>3 DEF RunsUnder, MethodsAt

Recounted(s, n, by, fs) == [Counted(s, n, by) EXCEPT !.frames = fs]

\* A frame bumps the counters of its kind, and takes that back.
LEMMA CountedIs ==
    ASSUME NEW s, EventsShape(s), NEW n, NEW by, NEW fs,
           NEW t, t = Recounted(s, n, by, fs)
    PROVE  /\ EventsShape(t) /\ t.events = s.events /\ t.frames = fs
           /\ t.if = s.if + IF Kind(n) = "if" THEN by ELSE 0
           /\ t.sclassAny = s.sclassAny + IF Kind(n) \in Sclass THEN by ELSE 0
           /\ t.sclassNonself = s.sclassNonself + IF Kind(n) \in Nonself THEN by ELSE 0
<1>1. DOMAIN s = {"frames", "if", "sclassAny", "sclassNonself", "events"} /\ IsSequence(s.events)
  BY DEF EventsShape
<1>2. PICK i, j, k : /\ i = IF Kind(n) = "if" THEN by ELSE 0
                     /\ j = IF Kind(n) \in Sclass THEN by ELSE 0
                     /\ k = IF Kind(n) \in Nonself THEN by ELSE 0
  OBVIOUS
<1>3. PICK a : a = [s EXCEPT !.if = s.if + i]
  OBVIOUS
<1>4. PICK b : b = [a EXCEPT !.sclassAny = s.sclassAny + j]
  OBVIOUS
<1>5. PICK c : c = [b EXCEPT !.sclassNonself = s.sclassNonself + k]
  OBVIOUS
<1>6. c = Counted(s, n, by)
  <2>1. Counted(s, n, by) = [s EXCEPT !.if = @ + i, !.sclassAny = @ + j, !.sclassNonself = @ + k]
    BY <1>2 DEF Counted, Nonself
  <2>2. a.sclassAny = s.sclassAny /\ a.sclassNonself = s.sclassNonself
    BY <1>1, <1>3
  <2> QED
    BY <1>1, <1>3, <1>4, <1>5, <2>1
<1>7. t = [c EXCEPT !.frames = fs]
  BY <1>6 DEF Recounted
<1>8. /\ DOMAIN t = DOMAIN s /\ t.events = s.events /\ t.frames = fs /\ t.if = s.if + i
      /\ t.sclassAny = s.sclassAny + j /\ t.sclassNonself = s.sclassNonself + k
  BY <1>1, <1>3, <1>4, <1>5, <1>7
<1>9. EventsShape(t)
  BY <1>1, <1>8 DEF EventsShape
<1> QED
  BY <1>2, <1>8, <1>9

\* The rule enters a hooked node.
LEMMA MethodsEntered ==
    ASSUME tree \in Shapes, NEW n \in BranchNodes, NEW s, MethodsAt(s, Hooked(n), n - 1),
           NEW f, f = FoundIn(s, n),
           NEW t, t = Recounted(f, n, 1, Append(f.frames, [node |-> n, pmn |-> FramePmn(f.frames, n)]))
    PROVE  MethodsAt(t, Append(Hooked(n), n), n)
<1>1. PICK A, h : A = Nodes /\ h = Hooked(n)
  OBVIOUS
<1>2. n \in A /\ n \in Nodes
  BY <1>1 DEF BranchNodes
<1>3. h \in Seq(A)
  BY <1>1, <1>2, HookedIs
<1>4. RunsUnder(s, h)
  BY <1>1, <1>3, MethodsRunUnder
<1>5. Kind(n) # "ensure"
  BY <1>2, KindFacts
<1>6. SameBut(s, f, StockFound(Around[n], n))
  BY <1>1, <1>2, <1>4, <1>5, FoundIs DEF MethodsAt
<1>7. EventsShape(f) /\ f.frames = MethodFrames(h) /\ f.events = StockHistory[n]
  BY <1>1, <1>2, <1>6, StockHistoryIs DEF SameBut, MethodsAt
<1>8. PICK frame : frame = [node |-> n, pmn |-> FramePmn(f.frames, n)]
  OBVIOUS
<1>9. frame = MethodFrame(n)
  BY <1>1, <1>2, <1>7, <1>8, FrameIs DEF MethodFrame
<1>11. PICK fs : fs = Append(f.frames, frame)
  OBVIOUS
<1>12. t = Recounted(f, n, 1, fs)
  BY <1>8, <1>11
<1>13. /\ EventsShape(t) /\ t.events = f.events /\ t.frames = fs
       /\ t.if = f.if + IF Kind(n) = "if" THEN 1 ELSE 0
       /\ t.sclassAny = f.sclassAny + IF Kind(n) \in Sclass THEN 1 ELSE 0
       /\ t.sclassNonself = f.sclassNonself + IF Kind(n) \in Nonself THEN 1 ELSE 0
  BY <1>7, <1>12, CountedIs
<1>14. fs = MethodFrames(Append(h, n))
  BY <1>1, <1>2, <1>3, <1>7, <1>9, <1>11, MethodFramesAre
<1>15. /\ t.if = Tally(Append(h, n), {"if"})
       /\ t.sclassAny = Tally(Append(h, n), Sclass)
       /\ t.sclassNonself = Tally(Append(h, n), Nonself)
  <2>1. /\ f.if = Tally(h, {"if"}) /\ f.sclassAny = Tally(h, Sclass)
        /\ f.sclassNonself = Tally(h, Nonself)
    BY <1>1, <1>6 DEF SameBut, MethodsAt
  <2>2. Kind(n) = "if" <=> Kind(n) \in {"if"}
    OBVIOUS
  <2>3. t.if = Tally(Append(h, n), {"if"})
    BY <1>2, <1>3, <1>13, <2>1, <2>2, TallyStep
  <2>4. t.sclassAny = Tally(Append(h, n), Sclass)
    BY <1>2, <1>3, <1>13, <2>1, TallyStep
  <2>5. t.sclassNonself = Tally(Append(h, n), Nonself)
    BY <1>2, <1>3, <1>13, <2>1, TallyStep
  <2> QED
    BY <2>3, <2>4, <2>5
<1> QED
  BY <1>1, <1>7, <1>13, <1>14, <1>15 DEF MethodsAt

\* It leaves one.
LEMMA MethodsLeft ==
    ASSUME tree \in Shapes, NEW n \in BranchNodes, NEW s, NEW m, MethodsAt(s, Append(Hooked(n), n), m)
    PROVE  MethodsAt(Left(s), Hooked(n), m)
<1>1. PICK A, h : A = Nodes /\ h = Hooked(n)
  OBVIOUS
<1>2. n \in A /\ n \in Nodes
  BY <1>1 DEF BranchNodes
<1>3. h \in Seq(A)
  BY <1>1, <1>2, HookedIs
<1>4. PICK g, l : g = Append(h, n) /\ l = Len(h)
  OBVIOUS
<1>5. l \in Nat
  BY <1>3, <1>4
<1>6. g \in Seq(A) /\ Len(g) = l + 1 /\ g[l + 1] = n /\ SubSeq(g, 1, l) = h /\ l + 1 \in 1 .. Len(g)
  BY <1>2, <1>3, <1>4, <1>5
<1>7. PICK fs : fs = MethodFrames(g)
  OBVIOUS
<1>8. Len(fs) = l + 1 /\ fs[l + 1].node = n /\ SubSeq(fs, 1, l) = MethodFrames(h)
  <2>1. l \in 0 .. Len(g)
    BY <1>5, <1>6
  <2> QED
    BY <1>1, <1>6, <1>7, <2>1, MethodFramesAre
<1>9. s.frames = fs /\ EventsShape(s) /\ s.events = StockHistory[m]
  BY <1>1, <1>4, <1>7 DEF MethodsAt
<1>10. PICK t : t = Left(s)
  OBVIOUS
<1>11. Last(s.frames).node = n /\ Front(s.frames) = MethodFrames(h)
  <2>1. (l + 1) - 1 = l
    BY <1>5
  <2> QED
    BY <1>8, <1>9, <2>1 DEF Last, Front
<1>12. t = Recounted(s, n, -1, MethodFrames(h))
  <2>1. Counted(s, n, -1).frames = s.frames
    <3>1. DOMAIN s = {"frames", "if", "sclassAny", "sclassNonself", "events"}
      BY <1>9 DEF EventsShape
    <3> QED
      BY <3>1 DEF Counted
  <2> QED
    BY <1>10, <1>11, <2>1 DEF Left, Recounted
<1>13. /\ EventsShape(t) /\ t.events = s.events /\ t.frames = MethodFrames(h)
       /\ t.if = s.if + IF Kind(n) = "if" THEN -1 ELSE 0
       /\ t.sclassAny = s.sclassAny + IF Kind(n) \in Sclass THEN -1 ELSE 0
       /\ t.sclassNonself = s.sclassNonself + IF Kind(n) \in Nonself THEN -1 ELSE 0
  BY <1>9, <1>12, CountedIs
<1>14. /\ t.if = Tally(h, {"if"}) /\ t.sclassAny = Tally(h, Sclass)
       /\ t.sclassNonself = Tally(h, Nonself)
  <2>1. /\ s.if = Tally(g, {"if"}) /\ s.sclassAny = Tally(g, Sclass)
        /\ s.sclassNonself = Tally(g, Nonself)
    BY <1>1, <1>4 DEF MethodsAt
  <2>2. \A kinds : /\ Tally(h, kinds) \in Nat
                   /\ Tally(g, kinds) = Tally(h, kinds) + IF Kind(n) \in kinds THEN 1 ELSE 0
    BY <1>2, <1>3, <1>4, TallyStep
  <2>3. Kind(n) = "if" <=> Kind(n) \in {"if"}
    OBVIOUS
  <2>4. t.if = Tally(h, {"if"})
    BY <1>13, <2>1, <2>2, <2>3
  <2>5. t.sclassAny = Tally(h, Sclass)
    BY <1>13, <2>1, <2>2
  <2>6. t.sclassNonself = Tally(h, Nonself)
    BY <1>13, <2>1, <2>2
  <2> QED
    BY <2>4, <2>5, <2>6
<1> QED
  BY <1>1, <1>9, <1>10, <1>13, <1>14 DEF MethodsAt

\* A node the rule has no hook for defines no method.
LEMMA MethodsSkip ==
    ASSUME tree \in Shapes, NEW n \in Nodes, n \notin BranchNodes, NEW s, NEW h, MethodsAt(s, h, n - 1)
    PROVE  MethodsAt(s, h, n)
<1>1. ~DefKind(Kind(n)) /\ Kind(n) \notin {"alias", "attr", "marker"}
  BY KindFacts DEF DefKind
<1>2. StockFound(Around[n], n) = <<>>
  BY <1>1, StockFoundIs
<1>3. PICK u : u = s.events /\ IsSequence(u)
  BY DEF MethodsAt, EventsShape
<1>4. PICK S : u \in Seq(S)
  BY <1>3 DEF IsSequence
<1>5. u \o <<>> = u
  BY <1>4
<1>6. StockHistory[n] = StockHistory[n - 1]
  BY <1>2, <1>3, <1>5, StockHistoryIs DEF MethodsAt
<1> QED
  BY <1>6 DEF MethodsAt

\* What the stock cop finds, of an owner and its event.
LEMMA StockFoundForm ==
    \A n, a :
        StockFound(a, n) =
            IF \/ ~DefKind(Kind(n)) /\ Kind(n) \notin {"alias", "attr", "marker"}
               \/ a.inIf /\ Kind(n) \notin {"attr", "marker"}
               \/ StockOwner(a, n) = <<>>
            THEN <<>>
            ELSE IF Kind(n) = "attr" THEN <<StockEvent(a, n, <<"m">>), StockEvent(a, n, <<"m=">>)>>
            ELSE <<StockEvent(a, n, <<"m">>)>>
BY StockFoundIs

\* While the tree stays, so does the stream the stock cop finds in it.
LEMMA SameStream ==
    ASSUME tree' = tree
    PROVE  /\ StockHistory' = StockHistory /\ BranchNodes' = BranchNodes
           /\ \A s, h, m : MethodsAt(s, h, m)' = MethodsAt(s, h, m)
<1>1. \A n : Kind(n)' = Kind(n)
  BY DEF Kind
<1>2. \A n, up, name : NameUnder(n, up, name)' = NameUnder(n, up, name)
  BY <1>1 DEF NameUnder
<1>3. \A n : Clauses(n)' = Clauses(n)
  BY <1>1 DEF Clauses, Class
<1>4. \A n : HasRescueClause(n)' = HasRescueClause(n)
  BY <1>3 DEF HasRescueClause, Class
<1>5. \A n, up, a : AroundUnder(n, up, a)' = AroundUnder(n, up, a)
  BY <1>1, <1>2, <1>3, <1>4 DEF AroundUnder
<1>6. Around' = Around
  BY <1>5 DEF Around
<1>7. \A n : StockScopeId(n)' = StockScopeId(n)
  BY <1>1 DEF StockScopeId, Many, Class
<1>8. \A a, n : StockFound(a, n)' = StockFound(a, n)
  <2>1. (\A n, a :
            StockFound(a, n) =
                IF \/ ~DefKind(Kind(n)) /\ Kind(n) \notin {"alias", "attr", "marker"}
                   \/ a.inIf /\ Kind(n) \notin {"attr", "marker"}
                   \/ StockOwner(a, n) = <<>>
                THEN <<>>
                ELSE IF Kind(n) = "attr" THEN <<StockEvent(a, n, <<"m">>), StockEvent(a, n, <<"m=">>)>>
                ELSE <<StockEvent(a, n, <<"m">>)>>)'
    BY StockFoundForm, PTL
  <2>2. \A a : Anonymous(a)' = Anonymous(a) /\ BaseOf(a)' = BaseOf(a)
    BY <1>1, <1>6 DEF Anonymous, BaseOf
  <2>3. \A a : /\ InstanceOwner(a)' = InstanceOwner(a) /\ SelfOwner(a)' = SelfOwner(a)
               /\ ConstOwner(a)' = ConstOwner(a) /\ IdIn(a)' = IdIn(a)
    BY <1>6, <1>7, <2>2 DEF InstanceOwner, SelfOwner, ConstOwner, IdIn
  <2>4. \A a, n : StockOwner(a, n)' = StockOwner(a, n)
    BY <1>1, <2>3 DEF StockOwner
  <2>5. \A a, n, name : StockEvent(a, n, name)' = StockEvent(a, n, name)
    BY <1>1, <2>3, <2>4 DEF StockEvent
  <2> QED
    BY <1>1, <2>1, <2>4, <2>5, StockFoundIs
<1>9. StockHistory' = StockHistory
  BY <1>6, <1>8 DEF StockHistory
<1>10. \A n : FramePmn(<<>>, n)' = FramePmn(<<>>, n)
  BY <1>1 DEF FramePmn, KindAt
<1>11. \A n : Adds(n)' = Adds(n)
  BY <1>1, <1>6, <1>10 DEF Adds
<1>12. \A h : MethodFrames(h)' = MethodFrames(h)
  BY <1>11 DEF MethodFrames, MethodFrame
<1>13. \A h, kinds : Tally(h, kinds)' = Tally(h, kinds)
  BY <1>1 DEF Tally, Places
<1>14. BranchNodes' = BranchNodes
  BY DEF BranchNodes, Nodes, Class
<1>15. \A s, h, m : MethodsAt(s, h, m)' = MethodsAt(s, h, m)
  BY <1>9, <1>12, <1>13 DEF MethodsAt
<1> QED
  BY <1>9, <1>14, <1>15

\* Of the nodes that are entered, the rule found what the stock cop finds.
MethodsInv ==
    \E m \in 0 .. Len(tree.parent) :
        OrderInv(todo, m) /\ MethodsAt(methods, Filter(frames[ClauseRule], BranchNodes), m)

\* A step within a tree.
LEMMA MethodsInvAfter ==
    ASSUME tree' = tree, NEW m \in 0 .. Len(tree.parent), OrderInv(todo', m),
           MethodsAt(methods', Filter(frames'[ClauseRule], BranchNodes), m)
    PROVE  MethodsInv'
<1>1. PICK calls, s, above : calls = todo' /\ s = methods' /\ above = frames'[ClauseRule]
  OBVIOUS
<1>2. PICK h : h = Filter(above, BranchNodes)
  OBVIOUS
<1>3. OrderInv(calls, m)' /\ MethodsAt(s, h, m)'
  BY <1>1, <1>2, SameStock, SameStream
<1>4. OrderInv(todo, m)'
  BY <1>1, <1>3 DEF OrderInv, Ordered, Pending
<1>5. Filter(frames[ClauseRule], BranchNodes)' = h
  <2>1. ClauseRule' = ClauseRule /\ BranchNodes' = BranchNodes
    BY SameStream DEF ClauseRule
  <2> QED
    BY <1>1, <1>2, <2>1
<1>6. MethodsAt(methods, Filter(frames[ClauseRule], BranchNodes), m)'
  BY <1>1, <1>3, <1>5 DEF MethodsAt, EventsShape
<1>7. (m \in 0 .. Len(tree.parent))'
  OBVIOUS
<1> QED
  BY <1>4, <1>6, <1>7 DEF MethodsInv

\* A walk starts with the rule fresh.
LEMMA MethodsStart ==
    ASSUME WalkInit, MethodsInit
    PROVE  MethodsInv
<1>1. /\ tree \in Shapes /\ todo = <<<<"visit", 1>>>> /\ frames = [r \in Rules |-> <<>>]
      /\ methods = MethodsFresh
  BY DEF WalkInit, MethodsInit
<1>2. OrderInv(todo, 0) /\ 0 \in 0 .. Len(tree.parent)
  BY <1>1, OrderStart, TreeFacts
<1>3. frames[ClauseRule] = <<>>
  BY <1>1, ClauseRuleIs
<1>4. Filter(<<>>, BranchNodes) = <<>>
  BY FilterEmpty
<1>5. EventsShape(methods)
  <2>1. <<>> \in Seq({})
    OBVIOUS
  <2> QED
    BY <1>1, <2>1 DEF MethodsFresh, EventsShape, IsSequence
<1>6. MethodFrames(<<>>) = <<>>
  BY DEF MethodFrames
<1>7. \A kinds : Tally(<<>>, kinds) = 0
  <2>1. <<>> \in Seq({})
    OBVIOUS
  <2> QED
    BY <2>1, TallyStep
<1>8. methods.events = StockHistory[0]
  BY <1>1, StockHistoryIs DEF MethodsFresh
<1>9. MethodsAt(methods, <<>>, 0)
  BY <1>1, <1>5, <1>6, <1>7, <1>8 DEF MethodsAt, MethodsFresh
<1> QED
  BY <1>2, <1>3, <1>4, <1>9 DEF MethodsInv

\* The nodes above and the node itself, as the rule has frames of them.
LEMMA HookedWith ==
    ASSUME tree \in Shapes, NEW n \in Nodes
    PROVE  Filter(Append(ParserAbove(n), n), BranchNodes) =
              IF n \in BranchNodes THEN Append(Hooked(n), n) ELSE Hooked(n)
<1>1. PICK A, above, S : A = Nodes /\ above = ParserAbove(n) /\ S = BranchNodes
  OBVIOUS
<1>2. above \in Seq(A) /\ n \in A
  BY <1>1, ParserAboveType
<1> QED
  BY <1>1, <1>2, FilterAppend DEF Hooked

\* A node is visited.
LEMMA MethodsVisit ==
    ASSUME WalkInv, MethodsInv, OnBranch \/ OnLeaf \/ OnDirect \/ OnRescue
    PROVE  MethodsInv'
<1>1. PICK m \in 0 .. Len(tree.parent) :
          OrderInv(todo, m) /\ MethodsAt(methods, Filter(frames[ClauseRule], BranchNodes), m)
  BY DEF MethodsInv
<1>2. Next("visit") /\ WalkNext
  BY DEF OnBranch, OnLeaf, OnDirect, OnRescue, EnterBranch, EnterLeaf, VisitDirect, EnterRescue, WalkNext
<1>3. /\ Node = m + 1 /\ m + 1 \in Nodes /\ m + 1 \in 0 .. Len(tree.parent)
      /\ tree' = tree /\ OrderInv(todo', m + 1)
  BY <1>1, <1>2, VisitIsNext
<1>4. PICK n, s : n = Node /\ s = methods
  OBVIOUS
<1>5. /\ tree \in Shapes /\ n \in Nodes /\ n = m + 1 /\ n - 1 = m
      /\ frames[ClauseRule] = ParserAbove(n)
      /\ EnterBranch \/ EnterRescue => frames'[ClauseRule] = Append(ParserAbove(n), n)
      /\ EnterLeaf \/ VisitDirect => frames'[ClauseRule] = ParserAbove(n)
  BY <1>2, <1>3, <1>4, ClauseVisited
<1>6. MethodsAt(s, Hooked(n), n - 1)
  BY <1>1, <1>4, <1>5 DEF Hooked
<1>7. CASE OnBranch
  <2>1. n \in BranchNodes
    BY <1>4, <1>5, <1>7 DEF OnBranch, EnterBranch, BranchNodes
  <2>2. PICK f, frame : f = FoundIn(s, n) /\ frame = [node |-> n, pmn |-> FramePmn(f.frames, n)]
    OBVIOUS
  <2>3. methods' = [Counted(f, n, 1) EXCEPT !.frames = Append(@, frame)]
    BY <1>4, <1>7, <2>2 DEF OnBranch, MethodsEnter
  <2>4. DOMAIN f = {"frames", "if", "sclassAny", "sclassNonself", "events"}
    BY <1>6, <2>2, FoundKeeps DEF MethodsAt, EventsShape
  <2>5. Counted(f, n, 1).frames = f.frames
    BY <2>4 DEF Counted
  <2>6. methods' = Recounted(f, n, 1, Append(f.frames, frame))
    BY <2>3, <2>5 DEF Recounted
  <2>7. PICK t : t = methods'
    OBVIOUS
  <2>8. MethodsAt(t, Append(Hooked(n), n), n)
    BY <1>5, <1>6, <2>1, <2>2, <2>6, <2>7, MethodsEntered
  <2>9. Filter(frames'[ClauseRule], BranchNodes) = Append(Hooked(n), n)
    BY <1>5, <1>7, <2>1, HookedWith DEF OnBranch
  <2> QED
    BY <1>3, <1>5, <2>7, <2>8, <2>9, MethodsInvAfter
<1>8. CASE OnLeaf \/ OnDirect \/ OnRescue
  <2>1. n \notin BranchNodes
    <3>1. Class(tree, n) \in {"leaf", "direct", "rescue"}
      BY <1>4, <1>8 DEF OnLeaf, OnDirect, OnRescue, EnterLeaf, VisitDirect, EnterRescue
    <3> QED
      BY <3>1 DEF BranchNodes, Branches, ClassIndex
  <2>2. methods' = s
    BY <1>4, <1>8 DEF OnLeaf, OnDirect, OnRescue, copVars
  <2>3. Filter(frames'[ClauseRule], BranchNodes) = Hooked(n)
    BY <1>5, <1>8, <2>1, HookedWith DEF OnLeaf, OnDirect, OnRescue, Hooked
  <2>4. MethodsAt(s, Hooked(n), n)
    BY <1>5, <1>6, <2>1, MethodsSkip
  <2> QED
    BY <1>3, <1>5, <2>2, <2>3, <2>4, MethodsInvAfter
<1> QED
  BY <1>7, <1>8

\* A node that is left is hooked, or a clause.
LEMMA LeftIs ==
    ASSUME WalkInv
    PROVE  /\ LeaveBranch => Node \in BranchNodes
           /\ LeaveRescue => Node \notin BranchNodes
<1>1. CASE ~LeaveBranch /\ ~LeaveRescue
  BY <1>1
<1>2. CASE LeaveBranch \/ LeaveRescue
  <2>1. todo # <<>> /\ todo \in Seq(Calls) /\ Head(todo)[1] \in {"leave", "leaveRescue"}
    BY <1>2 DEF WalkInv, Next, LeaveBranch, LeaveRescue
  <2>2. Node \in Nodes /\ Head(todo) \in Calls
    BY <1>2, <2>1, CallFrames
  <2>3. LeaveBranch => Class(tree, Node) \in Branches
    BY <2>1, <2>2 DEF Calls, Node, Next, LeaveBranch
  <2>4. LeaveRescue => Class(tree, Node) = "rescue"
    BY <2>1, <2>2 DEF Calls, Node, Next, LeaveRescue
  <2> QED
    BY <2>2, <2>3, <2>4 DEF BranchNodes, Branches, ClassIndex
<1> QED
  BY <1>1, <1>2

\* A node is left.
LEMMA MethodsLeftInv ==
    ASSUME WalkInv, MethodsInv, OnLeave \/ OnRescueLeave
    PROVE  MethodsInv'
<1>1. PICK m \in 0 .. Len(tree.parent) :
          OrderInv(todo, m) /\ MethodsAt(methods, Filter(frames[ClauseRule], BranchNodes), m)
  BY DEF MethodsInv
<1>2. LeaveBranch \/ LeaveRescue
  BY DEF OnLeave, OnRescueLeave
<1>3. PICK n, s : n = Node /\ s = methods
  OBVIOUS
<1>4. /\ tree \in Shapes /\ n \in Nodes /\ tree' = tree
      /\ frames[ClauseRule] = Append(ParserAbove(n), n)
      /\ frames'[ClauseRule] = ParserAbove(n)
      /\ OrderInv(todo', m)
  BY <1>1, <1>2, <1>3, ClauseLeft
<1>5. Filter(frames'[ClauseRule], BranchNodes) = Hooked(n)
  BY <1>4 DEF Hooked
<1>6. MethodsAt(s, IF n \in BranchNodes THEN Append(Hooked(n), n) ELSE Hooked(n), m)
  BY <1>1, <1>3, <1>4, HookedWith
<1>7. CASE OnLeave
  <2>1. n \in BranchNodes /\ methods' = Left(s)
    BY <1>3, <1>7, LeftIs DEF OnLeave, MethodsLeave
  <2>2. MethodsAt(Left(s), Hooked(n), m)
    BY <1>4, <1>6, <2>1, MethodsLeft
  <2> QED
    BY <1>1, <1>4, <1>5, <2>1, <2>2, MethodsInvAfter
<1>8. CASE OnRescueLeave
  <2>1. n \notin BranchNodes /\ methods' = s
    BY <1>3, <1>8, LeftIs DEF OnRescueLeave
  <2> QED
    BY <1>1, <1>4, <1>5, <1>6, <2>1, MethodsInvAfter
<1> QED
  BY <1>7, <1>8

\* A step of the rules keeps what the rule runs on, or starts it afresh.
LEMMA MethodsNext ==
    ASSUME WalkInv, MethodsInv, [CopsNext]_<<walkVars, copVars, fileVars>>
    PROVE  MethodsInv' \/ (WalkInit /\ MethodsInit)'
<1>1. CASE OnHook
  BY <1>1, MethodsVisit, MethodsLeftInv DEF OnHook
<1>2. CASE OnInvestigation \/ UNCHANGED <<walkVars, copVars, fileVars>>
  <2>1. UNCHANGED <<walkVars, methods>>
    BY <1>2 DEF OnInvestigation, Investigate, copVars
  <2>2. PICK m \in 0 .. Len(tree.parent) :
            OrderInv(todo, m) /\ MethodsAt(methods, Filter(frames[ClauseRule], BranchNodes), m)
    BY DEF MethodsInv
  <2>3. /\ tree' = tree /\ OrderInv(todo', m)
        /\ MethodsAt(methods', Filter(frames'[ClauseRule], BranchNodes), m)
    BY <2>1, <2>2 DEF walkVars
  <2> QED
    BY <2>3, MethodsInvAfter
<1>3. CASE NextFile \/ NextRound
  <2>1. WalkAgain
    BY <1>3 DEF NextFile, NextRound
  <2>2. methods' = MethodsFresh
    BY <2>1 DEF WalkAgain
  <2>3. MethodsInit'
    BY <2>2 DEF MethodsInit, MethodsFresh
  <2> QED
    BY <2>1, <2>3, AgainIsWalkStart
<1> QED
  BY <1>1, <1>2, <1>3 DEF CopsNext

\* duplicate_methods.rs: at every node of every tree the stack of frames and the
\* counters are those of the nodes that are open, and what was found is what the
\* stock cop finds of the nodes before.
THEOREM MethodsRunLikeStock == CopsSpec => []MethodsInv
<1>1. WalkInit /\ MethodsInit => MethodsInv
  BY MethodsStart
<1>2. CopsInit => WalkInit /\ MethodsInit
  BY DEF CopsInit
<1>3. (WalkInit /\ MethodsInit)' => MethodsInv'
  BY <1>1, PTL
<1>4. WalkInv /\ MethodsInv /\ [CopsNext]_<<walkVars, copVars, fileVars>> => MethodsInv'
  BY <1>3, MethodsNext
<1> QED
  BY <1>1, <1>2, <1>4, CopsWalkInv, PTL DEF CopsSpec

\* duplicate_methods.rs finds of every definition the owner, the place of an
\* anonymous class and the rescue scope that the stock cop asks its ancestors
\* for, and finds them in its order: on every tree.
THEOREM MethodsFollowStock == CopsSpec => []MethodsAsStock
<1>1. ASSUME WalkInv, MethodsInv, todo = <<>>
      PROVE  methods.events = StockMethods
  <2>1. PICK m \in 0 .. Len(tree.parent) :
            OrderInv(todo, m) /\ MethodsAt(methods, Filter(frames[ClauseRule], BranchNodes), m)
    BY <1>1 DEF MethodsInv
  <2>2. tree \in Shapes /\ OrderInv(<<>>, m)
    BY <1>1, <2>1 DEF WalkInv
  <2>3. m = Len(tree.kind)
    BY <2>2, OrderEnd, TreeFacts
  <2> QED
    BY <2>1, <2>3 DEF MethodsAt, StockMethods
<1>2. WalkInv /\ MethodsInv => MethodsAsStock
  BY <1>1 DEF MethodsAsStock
<1> QED
  BY <1>2, CopsWalkInv, MethodsRunLikeStock, PTL

-----------------------------------------------------------------------------
(* The types of what the rules keep.                                       *)

\* The first child of a node that has one.
LEMMA FirstIs ==
    ASSUME tree \in Shapes, NEW n \in Nodes, NEW k \in Nodes, tree.parent[k] = n
    PROVE  First(n) \in Nodes /\ tree.parent[First(n)] = n
<1>1. PICK s : s = Children(tree.parent, n)
  OBVIOUS
<1>2. s \in Seq(Nodes) /\ Elements(s) = {j \in DOMAIN tree.parent : tree.parent[j] = n}
  BY <1>1, TreeFacts, ChildrenAre
<1>3. k \in Elements(s)
  BY <1>2, TreeFacts
<1>4. s # <<>>
  BY <1>2, <1>3 DEF Elements
<1>5. 1 \in 1 .. Len(s)
  BY <1>2, <1>4
<1>6. s[1] \in Elements(s)
  BY <1>2, <1>5 DEF Elements
<1>7. First(n) = s[1]
  BY <1>1 DEF First
<1> QED
  BY <1>2, <1>6, <1>7, TreeFacts

\* A node that has one below it has a child.
LEMMA BelowHasChild ==
    ASSUME tree \in Shapes, NEW n \in Nodes, NEW k \in Nodes, n \in Over(k)
    PROVE  \E j \in Nodes : tree.parent[j] = n
<1> DEFINE S == {j \in Nodes : n \in Over(j) => \E i \in Nodes : tree.parent[i] = n}
<1>1. 1 \in S
  BY ParentIs
<1>2. ASSUME NEW j \in Nodes, j # 1, tree.parent[j] \in S PROVE j \in S
  <2>1. Over(j) = Over(tree.parent[j]) \cup {tree.parent[j]}
    BY <1>2, ParentIs
  <2> QED
    BY <1>2, <2>1
<1> HIDE DEF S
<1>3. k \in S
  BY <1>1, <1>2, TreeInduction
<1> QED
  BY <1>3 DEF S

SelfTyped(s) ==
    s \in [owners : Seq(BOOLEAN), pushed : Seq(BOOLEAN), named : SUBSET Nodes, above : Seq(Nodes),
           out : SUBSET Nodes]

\* A name given keeps the types.
LEMMA AddLocalTyped ==
    ASSUME NEW s, SelfTyped(s), NEW ns, ns \subseteq Nodes
    PROVE  SelfTyped(AddLocal(s, ns))
<1>1. PICK o : o = s.owners /\ o \in Seq(BOOLEAN)
  BY DEF SelfTyped
<1>2. CASE o = <<>>
  <2>1. AddLocal(s, ns) = [s EXCEPT !.named = s.named \cup ns]
    BY <1>1, <1>2 DEF AddLocal
  <2>2. s.named \cup ns \in SUBSET Nodes
    BY DEF SelfTyped
  <2> QED
    BY <2>1, <2>2 DEF SelfTyped
<1>3. CASE o # <<>>
  <2>1. PICK v \in BOOLEAN : v = (o[Len(o)] \/ ns # {})
    OBVIOUS
  <2>2. PICK q : q = [o EXCEPT ![Len(o)] = v]
    OBVIOUS
  <2>3. q \in Seq(BOOLEAN)
    BY <1>1, <1>3, <2>2
  <2>4. AddLocal(s, ns) = [s EXCEPT !.owners = q]
    BY <1>1, <1>3, <2>1, <2>2 DEF AddLocal, SelfTyped
  <2> QED
    BY <2>3, <2>4 DEF SelfTyped
<1> QED
  BY <1>2, <1>3

\* The arguments of a call are nodes.
LEMMA AddLhsTyped ==
    ASSUME tree \in Shapes, NEW s, SelfTyped(s), NEW rhs \in Nodes
    PROVE  SelfTyped(AddLhs(s, rhs))
<1>1. Arguments(rhs) \subseteq Nodes
  <2>1. Parts(rhs) \subseteq Nodes
    BY TreeFacts DEF Parts
  <2> QED
    BY <2>1 DEF Arguments
<1>2. PICK ns : ns = IF Arguments(rhs) # {} THEN Arguments(rhs) ELSE {rhs}
  OBVIOUS
<1>3. ns \subseteq Nodes
  BY <1>1, <1>2
<1>4. SelfTyped(AddLocal(s, ns))
  BY <1>3, AddLocalTyped
<1> QED
  BY <1>2, <1>4 DEF AddLhs

\* What a node does with the names.
LEMMA HandleTyped ==
    ASSUME tree \in Shapes, NEW n \in Nodes, NEW s, SelfTyped(s)
    PROVE  SelfTyped(Handle(s, n))
<1>1. PICK k : k = Kind(n)
  OBVIOUS
<1>2. CASE k = "selfA"
  <2>1. Handle(s, n) = ProcessSend(s, n)
    BY <1>1, <1>2 DEF Handle, Writes
  <2>2. s.out \cup {n} \in SUBSET Nodes
    BY DEF SelfTyped
  <2>3. SelfTyped([s EXCEPT !.out = s.out \cup {n}])
    BY <2>2 DEF SelfTyped
  <2> QED
    BY <2>1, <2>3 DEF ProcessSend
<1>3. CASE k \in {"defA", "blockA"}
  <2>1. PICK o, q : o = s.owners /\ q = [o EXCEPT ![Len(o)] = TRUE]
    OBVIOUS
  <2>2. o \in Seq(BOOLEAN)
    BY <2>1 DEF SelfTyped
  <2>3. q \in Seq(BOOLEAN)
    <3>1. q = [i \in DOMAIN o |-> IF i = Len(o) THEN TRUE ELSE o[i]]
      BY <2>1
    <3>2. DOMAIN o = 1 .. Len(o) /\ Len(o) \in Nat
      BY <2>2
    <3>3. ASSUME NEW i \in 1 .. Len(o) PROVE (IF i = Len(o) THEN TRUE ELSE o[i]) \in BOOLEAN
      <4>1. o[i] \in BOOLEAN
        BY <2>2
      <4> QED
        BY <4>1, Zenon
    <3>4. q \in [1 .. Len(o) -> BOOLEAN]
      BY <3>1, <3>2, <3>3, Zenon
    <3> QED
      BY <3>2, <3>4
  <2>4. Handle(s, n) = [s EXCEPT !.owners[Len(s.owners)] = TRUE]
    BY <1>1, <1>3 DEF Handle, Writes
  <2>5. Handle(s, n) = [s EXCEPT !.owners = q]
    BY <2>1, <2>4 DEF SelfTyped
  <2> QED
    BY <2>3, <2>5 DEF SelfTyped
<1>4. CASE k \in Writes
  <2>1. \E j \in Nodes : tree.parent[j] = n
    <3>1. n \in DOMAIN tree.kind /\ DOMAIN tree.kind = Nodes
      BY TreeFacts
    <3> QED
      BY <1>1, <1>4, <3>1, SelfKindsAssumption DEF Kind
  <2>2. First(n) \in Nodes
    BY <2>1, FirstIs
  <2>3. Handle(s, n) = AddLhs(s, First(n))
    BY <1>1, <1>4 DEF Handle, Writes
  <2> QED
    BY <2>2, <2>3, AddLhsTyped
<1>5. CASE k = "if"
  <2>1. Handle(s, n) = Shadow(s, n)
    BY <1>1, <1>5 DEF Handle, Writes
  <2>2. CASE \E j \in Below(tree.parent, n) : Kind(j) \in Collected
    <3>1. PICK j \in Below(tree.parent, n) : Kind(j) \in Collected
      BY <2>2
    <3>2. j \in Nodes /\ n \in Over(j)
      BY <3>1, TreeFacts DEF Below, Over
    <3>3. First(n) \in Nodes
      BY <3>2, BelowHasChild, FirstIs
    <3> QED
      BY <2>1, <2>2, <3>3, AddLhsTyped DEF Shadow
  <2>3. CASE ~\E j \in Below(tree.parent, n) : Kind(j) \in Collected
    BY <2>1, <2>3 DEF Shadow
  <2> QED
    BY <2>2, <2>3
<1>6. CASE k = "inA"
  <2>1. Handle(s, n) = AddLocal(s, {n})
    BY <1>1, <1>6 DEF Handle, Writes
  <2>2. {n} \subseteq Nodes
    OBVIOUS
  <2> QED
    BY <2>1, <2>2, AddLocalTyped
<1>7. CASE k \notin {"selfA", "defA", "blockA", "if", "inA"} \cup Writes
  BY <1>1, <1>7 DEF Handle
<1> QED
  BY <1>2, <1>3, <1>4, <1>5, <1>6, <1>7

\* The last element off.
LEMMA FrontType ==
    ASSUME NEW S, NEW s \in Seq(S)
    PROVE  Front(s) \in Seq(S)
<1>1. CASE s = <<>>
  <2>1. Front(s) = [i \in 1 .. 0 - 1 - 1 + 1 |-> s[i + 1 - 1]]
    BY <1>1 DEF Front
  <2> QED
    BY <1>1 DEF Front
<1>2. CASE s # <<>>
  BY <1>2 DEF Front
<1> QED
  BY <1>1, <1>2

-----------------------------------------------------------------------------

\* The entries of the macro scope, the trackers and the frames of the scopes.
EntryType == [condition : BOOLEAN, block : BOOLEAN, other : BOOLEAN]
TrackerType == [vis : {"public", "private", "none", "off"}, unused : Nodes \cup {0}]
ScopeFrameType ==
    [openAt : Nat, suspendAt : Nat, activeAt : Nat, parent : TrackerType, handler : TrackerType,
     body : Nodes \cup {0}]
KindsHere == {Kind(n) : n \in Nodes}

AccessTyped(s) ==
    s \in [macros : Seq(EntryType), frames : Seq(ScopeFrameType), out : SUBSET (Nodes \X KindsHere)]

\* Another value in the last place of a sequence, if it has one.
LEMMA LastPut ==
    ASSUME NEW S, NEW s \in Seq(S), NEW v, s # <<>> => v \in S
    PROVE  [s EXCEPT ![Len(s)] = v] \in Seq(S)
<1>1. PICK n \in Nat : n = Len(s) /\ DOMAIN s = 1 .. n
  OBVIOUS
<1>2. PICK q : q = [s EXCEPT ![n] = v]
  OBVIOUS
<1>3. q = [i \in 1 .. n |-> IF i = n THEN v ELSE s[i]]
  BY <1>1, <1>2
<1>4. ASSUME NEW i \in 1 .. n PROVE (IF i = n THEN v ELSE s[i]) \in S
  <2>1. s # <<>> /\ s[i] \in S
    BY <1>1
  <2> QED
    BY <2>1
<1>5. q \in [1 .. n -> S]
  BY <1>3, <1>4
<1> QED
  BY <1>1, <1>2, <1>5

\* The last of a sequence that has one.
LEMMA LastType ==
    ASSUME NEW S, NEW s \in Seq(S), s # <<>>
    PROVE  Last(s) \in S
<1>1. Len(s) \in 1 .. Len(s)
  OBVIOUS
<1> QED
  BY <1>1 DEF Last

\* Whether a node is in a macro scope is a truth value.
LEMMA MacroTyped ==
    ASSUME AccessTyped(access), NEW n
    PROVE  /\ Depth \in Nat
           /\ MacroAt(n) \in BOOLEAN
           /\ MacroEntry(n) \in EntryType
<1>1. PICK ms : ms = access.macros /\ ms \in Seq(EntryType)
  BY DEF AccessTyped
<1>2. Depth \in Nat /\ (Depth = 0 <=> ms = <<>>)
  BY <1>1 DEF Depth
<1>3. PICK p \in {"condition", "block", "other"} : p = Position(n)
  BY DEF Position
<1>4. Depth = 0 => MacroAt(n) \in BOOLEAN
  BY DEF MacroAt
<1>5. ASSUME Depth # 0 PROVE MacroAt(n) \in BOOLEAN
  <2>1. PICK e \in EntryType : e = Last(ms)
    BY <1>1, <1>2, <1>5, LastType
  <2>2. e[p] \in BOOLEAN
    BY DEF EntryType
  <2> QED
    BY <1>1, <1>3, <1>5, <2>1, <2>2 DEF MacroAt
<1>6. MacroAt(n) \in BOOLEAN
  BY <1>4, <1>5
<1>7. PICK here \in BOOLEAN : here = MacroAt(n)
  BY <1>6
<1>9. \A b \in BOOLEAN : Uniform(b) \in EntryType
  BY DEF Uniform, EntryType
<1>10. MacroEntry(n) \in EntryType
  <2>1. [condition |-> Kind(n) \in Constructors, block |-> Kind(n) \in Constructors \/ here,
         other |-> Kind(n) \in Constructors] \in EntryType
    <3>1. CASE Kind(n) \in Constructors
      BY <3>1 DEF EntryType
    <3>2. CASE Kind(n) \notin Constructors
      BY <3>2 DEF EntryType
    <3> QED
      BY <3>1, <3>2
  <2>2. [condition |-> FALSE, block |-> here, other |-> here] \in EntryType
    BY DEF EntryType
  <2>3. Uniform(TRUE) \in EntryType /\ Uniform(here) \in EntryType /\ Uniform(FALSE) \in EntryType
    BY <1>9
  <2>4. Uniform(here /\ ~HasRescue(n)) \in EntryType
    <3>1. CASE here /\ ~HasRescue(n)
      BY <1>9, <3>1
    <3>2. CASE ~(here /\ ~HasRescue(n))
      BY <1>9, <3>2
    <3> QED
      BY <3>1, <3>2
  <2> QED
    BY <1>7, <2>1, <2>2, <2>3, <2>4 DEF MacroEntry
<1> QED
  BY <1>2, <1>6, <1>10

\* Nodes flagged.
LEMMA FlagTyped ==
    ASSUME NEW s, AccessTyped(s), NEW ns, ns \subseteq Nodes
    PROVE  AccessTyped(Flag(s, ns))
<1>1. PICK new : new = {Flagged(n) : n \in ns}
  OBVIOUS
<1>2. new \subseteq Nodes \X KindsHere
  BY <1>1 DEF Flagged, KindsHere
<1>3. s.out \cup new \in SUBSET (Nodes \X KindsHere)
  BY <1>2 DEF AccessTyped
<1> QED
  BY <1>1, <1>3 DEF AccessTyped, Flag

\* The state with other frames.
LEMMA FramesTyped ==
    ASSUME NEW s, AccessTyped(s), NEW fs \in Seq(ScopeFrameType)
    PROVE  AccessTyped([s EXCEPT !.frames = fs])
BY DEF AccessTyped

OnTop(s, f) == [s EXCEPT !.frames[Len(s.frames)] = f]

\* The state with another frame on top.
LEMMA TopTyped ==
    ASSUME NEW s, AccessTyped(s), NEW f, s.frames # <<>> => f \in ScopeFrameType
    PROVE  AccessTyped(OnTop(s, f))
<1>1. PICK fs, gs : fs = s.frames /\ gs = [fs EXCEPT ![Len(fs)] = f]
  OBVIOUS
<1>2. gs \in Seq(ScopeFrameType)
  BY <1>1, LastPut DEF AccessTyped
<1>3. OnTop(s, f) = [s EXCEPT !.frames = gs]
  BY <1>1 DEF AccessTyped, OnTop
<1> QED
  BY <1>2, <1>3, FramesTyped

\* A frame with other trackers.
LEMMA Retracked ==
    ASSUME NEW f \in ScopeFrameType, NEW g, g = [w \in DOMAIN f |-> g[w]],
           g["parent"] \in TrackerType, g["handler"] \in TrackerType,
           \A w \in DOMAIN f \ {"parent", "handler"} : g[w] = f[w]
    PROVE  g \in ScopeFrameType
BY DEF ScopeFrameType

\* What the trackers that follow become.
LEMMA RetrackTyped ==
    ASSUME NEW s, AccessTyped(s), NEW f, f = s.frames[Len(s.frames)], NEW g, NEW p, NEW h,
           f \in ScopeFrameType => p \in TrackerType /\ h \in TrackerType,
           g = [w \in DOMAIN f |-> IF w \in Active(f) THEN (IF w = "parent" THEN p ELSE h) ELSE f[w]]
    PROVE  AccessTyped(OnTop(s, g))
<1>1. Active(f) \subseteq {"parent", "handler"}
  BY DEF Active
<1>2. ASSUME f \in ScopeFrameType PROVE g \in ScopeFrameType
  <2>1. /\ f["parent"] \in TrackerType /\ f["handler"] \in TrackerType
        /\ {"parent", "handler"} \subseteq DOMAIN f
    BY <1>2 DEF ScopeFrameType
  <2>2. g["parent"] \in TrackerType /\ g["handler"] \in TrackerType
    BY <1>2, <2>1
  <2>3. \A w \in DOMAIN f \ {"parent", "handler"} : g[w] = f[w]
    BY <1>1
  <2>4. g = [w \in DOMAIN f |-> g[w]]
    OBVIOUS
  <2> HIDE DEF ScopeFrameType, TrackerType
  <2> QED
    BY <1>2, <2>2, <2>3, <2>4, Retracked
<1>3. s.frames # <<>> => f \in ScopeFrameType
  <2>1. PICK fs : fs = s.frames /\ fs \in Seq(ScopeFrameType)
    BY DEF AccessTyped
  <2> QED
    BY <2>1
<1> QED
  BY <1>2, <1>3, TopTyped

\* A method that uses the modifier before it.
LEMMA ApplyMethodDefTyped ==
    ASSUME NEW s, AccessTyped(s)
    PROVE  AccessTyped(ApplyMethodDef(s))
<1>1. PICK f, p, h : f = s.frames[Len(s.frames)]
                     /\ p = [f["parent"] EXCEPT !.unused = 0] /\ h = [f["handler"] EXCEPT !.unused = 0]
  OBVIOUS
<1>2. f \in ScopeFrameType => p \in TrackerType /\ h \in TrackerType
  BY <1>1 DEF ScopeFrameType, TrackerType
<1>3. PICK g : g = [w \in DOMAIN f |-> IF w \in Active(f) THEN (IF w = "parent" THEN p ELSE h) ELSE f[w]]
  OBVIOUS
<1>4. g = [w \in DOMAIN f |-> IF w \in Active(f) THEN [f[w] EXCEPT !.unused = 0] ELSE f[w]]
  BY <1>1, <1>3 DEF Active
<1>5. ApplyMethodDef(s) = OnTop(s, g)
  BY <1>1, <1>4 DEF ApplyMethodDef, Retrack, OnTop
<1> QED
  <2>1. AccessTyped(OnTop(s, g))
    <3>1. f = s.frames[Len(s.frames)]
      BY <1>1
    <3> QED
      BY <1>2, <1>3, <3>1, RetrackTyped
  <2> QED
    BY <1>5, <2>1

\* A section is left alone.
LEMMA SuspendTyped ==
    ASSUME AccessTyped(access), NEW s, AccessTyped(s)
    PROVE  AccessTyped(Suspend(s))
<1>1. PICK d \in Nat : d = Depth
  BY MacroTyped
<1>2. PICK f : f = s.frames[Len(s.frames)]
  OBVIOUS
<1>3. s.frames # <<>> => [f EXCEPT !.suspendAt = d] \in ScopeFrameType
  <2>1. PICK fs : fs = s.frames /\ fs \in Seq(ScopeFrameType)
    BY DEF AccessTyped
  <2>2. fs # <<>> => f \in ScopeFrameType
    BY <1>2, <2>1
  <2> QED
    BY <2>1, <2>2 DEF ScopeFrameType
<1>4. AccessTyped(OnTop(s, [f EXCEPT !.suspendAt = d]))
  BY <1>3, TopTyped
<1> QED
  BY <1>1, <1>2, <1>4 DEF Suspend, OnTop

\* The trackers that follow are trackers of the open frame.
LEMMA FollowingTyped ==
    ASSUME AccessTyped(access), NEW w \in Following
    PROVE  Top[w] \in TrackerType
<1>1. access.frames # <<>> /\ w \in {"parent", "handler"}
  BY DEF Following, Active
<1>2. PICK fs : fs = access.frames /\ fs \in Seq(ScopeFrameType)
  BY DEF AccessTyped
<1>3. PICK f : f = Top /\ f \in ScopeFrameType
  BY <1>1, <1>2, LastType DEF Top
<1> QED
  BY <1>1, <1>3 DEF ScopeFrameType

\* A modifier.
LEMMA ApplyModifierTyped ==
    ASSUME AccessTyped(access), NEW s, AccessTyped(s), NEW n \in Nodes, Kind(n) \in Modifiers
    PROVE  AccessTyped(ApplyModifier(s, n))
<1>1. PICK k : k = Kind(n) /\ k \in {"public", "private"}
  BY DEF Modifiers
<1>2. PICK f, p, h :
          /\ f = s.frames[Len(s.frames)]
          /\ p = [vis |-> k, unused |-> IF f["parent"].vis = k THEN f["parent"].unused ELSE n]
          /\ h = [vis |-> k, unused |-> IF f["handler"].vis = k THEN f["handler"].unused ELSE n]
  OBVIOUS
<1>3. f \in ScopeFrameType => p \in TrackerType /\ h \in TrackerType
  <2>1. ASSUME f \in ScopeFrameType PROVE p \in TrackerType /\ h \in TrackerType
    <3>1. f["parent"].unused \in Nodes \cup {0} /\ f["handler"].unused \in Nodes \cup {0}
      BY <2>1 DEF ScopeFrameType, TrackerType
    <3>2. PICK i, j \in Nodes \cup {0} :
              /\ i = IF f["parent"].vis = k THEN f["parent"].unused ELSE n
              /\ j = IF f["handler"].vis = k THEN f["handler"].unused ELSE n
      BY <3>1
    <3>3. p = [vis |-> k, unused |-> i] /\ h = [vis |-> k, unused |-> j]
      BY <1>2, <3>2
    <3> QED
      BY <1>1, <3>3 DEF TrackerType
  <2> QED
    BY <2>1
<1>4. PICK g : g = [w \in DOMAIN f |-> IF w \in Active(f) THEN (IF w = "parent" THEN p ELSE h) ELSE f[w]]
  OBVIOUS
<1>5. g = [w \in DOMAIN f |->
              IF w \in Active(f)
              THEN [vis |-> k, unused |-> IF f[w].vis = k THEN f[w].unused ELSE n] ELSE f[w]]
  BY <1>2, <1>4 DEF Active
<1>6. PICK t : t = OnTop(s, g)
  OBVIOUS
<1>7. AccessTyped(t)
  <2>1. f = s.frames[Len(s.frames)]
    BY <1>2
  <2> QED
    BY <1>3, <1>4, <1>6, <2>1, RetrackTyped
<1>8. PICK ns : ns = UNION {IF Top[w].vis = k THEN {n} ELSE {Top[w].unused} \ {0} : w \in Following}
  OBVIOUS
<1>9. ns \subseteq Nodes
  <2>1. ASSUME NEW w \in Following
        PROVE  (IF Top[w].vis = k THEN {n} ELSE {Top[w].unused} \ {0}) \subseteq Nodes
    <3>1. Top[w].unused \in Nodes \cup {0}
      BY FollowingTyped DEF TrackerType
    <3> QED
      BY <3>1
  <2> QED
    BY <1>8, <2>1
<1>10. ApplyModifier(s, n) = Flag(t, ns)
  BY <1>1, <1>2, <1>5, <1>6, <1>8 DEF ApplyModifier, Retrack, OnTop
<1> QED
  BY <1>7, <1>9, <1>10, FlagTyped

\* A private_class_method.
LEMMA ApplyPrivateClassMethodTyped ==
    ASSUME AccessTyped(access), NEW s, AccessTyped(s), NEW n \in Nodes
    PROVE  AccessTyped(ApplyPrivateClassMethod(s, n))
<1>1. PICK f, r : f = s.frames[Len(s.frames)] /\ r = [vis |-> "none", unused |-> 0]
  OBVIOUS
<1>2. r \in TrackerType
  BY <1>1 DEF TrackerType
<1>3. PICK g : g = [w \in DOMAIN f |-> IF w \in Active(f) THEN (IF w = "parent" THEN r ELSE r) ELSE f[w]]
  OBVIOUS
<1>4. g = [w \in DOMAIN f |-> IF w \in Active(f) THEN r ELSE f[w]]
  BY <1>3
<1>5. PICK t : t = OnTop(s, g)
  OBVIOUS
<1>6. AccessTyped(t)
  <2>1. f = s.frames[Len(s.frames)]
    BY <1>1
  <2> QED
    BY <1>2, <1>3, <1>5, <2>1, RetrackTyped
<1>7. AccessTyped(Flag(s, {n}))
  BY FlagTyped
<1>8. ApplyPrivateClassMethod(s, n) = Suspend(IF Kind(n) = "privateClassArgs" THEN t ELSE Flag(s, {n}))
  BY <1>1, <1>4, <1>5 DEF ApplyPrivateClassMethod, Retrack, OnTop
<1> QED
  BY <1>6, <1>7, <1>8, SuspendTyped

\* A scope that opens.
LEMMA OpenFrameTyped ==
    ASSUME tree \in Shapes, AccessTyped(access), NEW s, AccessTyped(s), NEW n, NEW withParent, NEW bodyMacro
    PROVE  AccessTyped(OpenFrame(s, n, withParent, bodyMacro))
<1>1. PICK d \in Nat : d = Depth
  BY MacroTyped
<1>2. DOMAIN tree.kind = Nodes
  BY TreeFacts
<1>3. PICK tracked : tracked = {b \in Bodies(n) : IsParserBegin(b)}
  OBVIOUS
<1>4. tracked \subseteq Nodes
  BY <1>2, <1>3 DEF Bodies
<1>5. PICK single : single = {k \in DOMAIN tree.kind : /\ tree.parent[k] \in Bodies(n) \ tracked
                                                      /\ Kind(k) \in Modifiers /\ bodyMacro}
  OBVIOUS
<1>6. single \subseteq Nodes
  BY <1>2, <1>5
<1>7. PICK body \in Nodes \cup {0} : body = IF tracked # {} THEN CHOOSE b \in tracked : TRUE ELSE 0
  BY <1>4
<1>8. Tracker \in TrackerType /\ NoTracker \in TrackerType
  BY DEF Tracker, NoTracker, TrackerType
<1>9. PICK p, h \in TrackerType : /\ p = IF withParent THEN Tracker ELSE NoTracker
                                  /\ h = IF tracked # {} THEN Tracker ELSE NoTracker
  BY <1>8
<1>10. PICK frame : frame = [openAt |-> d, suspendAt |-> 0, activeAt |-> 0, parent |-> p, handler |-> h,
                             body |-> body]
  OBVIOUS
<1>11. frame \in ScopeFrameType
  BY <1>10 DEF ScopeFrameType
<1>12. PICK fs : fs = s.frames /\ fs \in Seq(ScopeFrameType)
  BY DEF AccessTyped
<1>13. PICK gs : gs = Append(fs, frame)
  OBVIOUS
<1>14. AccessTyped([s EXCEPT !.frames = gs])
  <2>1. gs \in Seq(ScopeFrameType)
    BY <1>11, <1>12, <1>13
  <2> QED
    BY <2>1, FramesTyped
<1>15. OpenFrame(s, n, withParent, bodyMacro) = Flag([s EXCEPT !.frames = gs], single)
  BY <1>1, <1>3, <1>5, <1>7, <1>9, <1>10, <1>12, <1>13 DEF OpenFrame
<1> QED
  BY <1>6, <1>14, <1>15, FlagTyped

\* The modifiers at the top of a file.
LEMMA TopLevelTyped ==
    ASSUME tree \in Shapes, NEW s, AccessTyped(s)
    PROVE  AccessTyped(TopLevel(s))
<1>1. PICK list : list = Children(tree.parent, 1)
  OBVIOUS
<1>2. list \in Seq(Nodes) /\ DOMAIN tree.kind = Nodes
  BY <1>1, TreeFacts, ChildrenAre
<1>3. {list[i] : i \in DOMAIN list} \subseteq Nodes
  BY <1>2
<1>6. PICK inGroups :
          inGroups = UNION {UNION {{j \in DOMAIN tree.kind : tree.parent[j] = b} : b \in Bodies(k)} :
                              k \in {list[i] : i \in {j \in DOMAIN list : Kind(list[j]) = "paren"}}}
  OBVIOUS
<1>7. inGroups \subseteq Nodes
  BY <1>2, <1>6
<1>8. PICK items : items = IF Len(list) >= 2 THEN {list[i] : i \in DOMAIN list} ELSE inGroups
  OBVIOUS
<1>9. PICK ns : ns = {n \in items : Kind(n) \in Modifiers \cup {"privateClass"}}
  OBVIOUS
<1>10. ns \subseteq Nodes
  BY <1>3, <1>7, <1>8, <1>9
<1>11. TopLevel(s) = Flag(s, ns)
  BY <1>1, <1>6, <1>8, <1>9 DEF TopLevel
<1> QED
  BY <1>10, <1>11, FlagTyped

\* A call with a block.
LEMMA EnterBlockCallTyped ==
    ASSUME tree \in Shapes, AccessTyped(access), NEW n
    PROVE  AccessTyped(EnterBlockCall(access, n))
<1>1. PICK s : s = access
  OBVIOUS
<1>2. AccessTyped(s)
  BY <1>1
<1>3. \A w, b : AccessTyped(OpenFrame(s, n, w, b))
  BY <1>2, OpenFrameTyped
<1>4. AccessTyped(Suspend(ApplyMethodDef(s)))
  BY <1>2, ApplyMethodDefTyped, SuspendTyped
<1>5. AccessTyped(EnterBlockCall(s, n))
  BY <1>2, <1>3, <1>4 DEF EnterBlockCall
<1> QED
  BY <1>1, <1>5

\* A send where a tracker follows.
LEMMA EnterSendTyped ==
    ASSUME tree \in Shapes, AccessTyped(access), NEW n \in Nodes
    PROVE  AccessTyped(EnterSend(access, n))
<1>1. PICK s : s = access
  OBVIOUS
<1>2. AccessTyped(s)
  BY <1>1
<1>3. AccessTyped(Suspend(ApplyMethodDef(s))) /\ AccessTyped(ApplyPrivateClassMethod(s, n))
  BY <1>2, ApplyMethodDefTyped, SuspendTyped, ApplyPrivateClassMethodTyped
<1>4. Kind(n) \in Modifiers => AccessTyped(ApplyModifier(s, n))
  BY <1>2, ApplyModifierTyped
<1>5. PICK d \in Nat : d = Depth
  BY MacroTyped
<1>6. PICK frame : frame = [openAt |-> d, suspendAt |-> 0, activeAt |-> 0, parent |-> Tracker,
                            handler |-> NoTracker, body |-> 0]
  OBVIOUS
<1>7. frame \in ScopeFrameType
  BY <1>6 DEF ScopeFrameType, TrackerType, Tracker, NoTracker
<1>8. PICK fs, gs : fs = s.frames /\ fs \in Seq(ScopeFrameType) /\ gs = Append(fs, frame)
  BY <1>2 DEF AccessTyped
<1>9. AccessTyped([s EXCEPT !.frames = gs])
  <2>1. gs \in Seq(ScopeFrameType)
    BY <1>7, <1>8
  <2> QED
    BY <1>2, <2>1, FramesTyped
<1>10. [s EXCEPT !.frames = Append(@, frame)] = [s EXCEPT !.frames = gs]
  BY <1>8
<1>11. AccessTyped(EnterSend(s, n))
  BY <1>2, <1>3, <1>4, <1>5, <1>6, <1>9, <1>10 DEF EnterSend
<1> QED
  BY <1>1, <1>11

\* A body of several statements.
LEMMA ArmTyped ==
    ASSUME AccessTyped(access), NEW s, AccessTyped(s), NEW n
    PROVE  AccessTyped(Arm(s, n))
<1>1. PICK d \in Nat : d = Depth
  BY MacroTyped
<1>2. PICK f, g : f = s.frames[Len(s.frames)] /\ g = [f EXCEPT !.activeAt = d]
  OBVIOUS
<1>3. s.frames # <<>> => g \in ScopeFrameType
  <2>1. PICK fs : fs = s.frames /\ fs \in Seq(ScopeFrameType)
    BY DEF AccessTyped
  <2>2. fs # <<>> => f \in ScopeFrameType
    BY <1>2, <2>1
  <2> QED
    BY <1>2, <2>1, <2>2 DEF ScopeFrameType
<1>4. AccessTyped(OnTop(s, g))
  BY <1>3, TopTyped
<1>5. OnTop(s, g) = [s EXCEPT !.frames[Len(s.frames)].activeAt = Depth]
  BY <1>1, <1>2 DEF OnTop
<1> QED
  BY <1>4, <1>5 DEF Arm

\* What a node does.
LEMMA EnterAccessTyped ==
    ASSUME tree \in Shapes, AccessTyped(access), NEW n \in Nodes
    PROVE  AccessTyped(EnterAccess(access, n))
<1>1. PICK s : s = access
  OBVIOUS
<1>2. AccessTyped(s)
  BY <1>1
<1>3. AccessTyped(TopLevel(s)) /\ AccessTyped(OpenFrame(s, n, Consuming, TRUE)) /\ AccessTyped(Arm(s, n))
  BY <1>2, TopLevelTyped, OpenFrameTyped, ArmTyped
<1>4. AccessTyped(Suspend(ApplyMethodDef(s))) /\ AccessTyped(Suspend(s))
  BY <1>2, ApplyMethodDefTyped, SuspendTyped
<1>5. AccessTyped(EnterBlockCall(s, n)) /\ AccessTyped(EnterSend(s, n))
  BY <1>1, EnterBlockCallTyped, EnterSendTyped
<1>6. AccessTyped(EnterAccess(s, n))
  BY <1>2, <1>3, <1>4, <1>5 DEF EnterAccess
<1> QED
  BY <1>1, <1>6

\* What ends when the walk is back.
LEMMA ResumeTyped ==
    ASSUME NEW s, AccessTyped(s), NEW depth
    PROVE  AccessTyped(Resume(s, depth))
<1>1. PICK f : f = s.frames[Len(s.frames)]
  OBVIOUS
<1>2. PICK i, j : /\ i = IF f.suspendAt = depth THEN 0 ELSE f.suspendAt
                  /\ j = IF f.activeAt = depth THEN 0 ELSE f.activeAt
  OBVIOUS
<1>3. PICK g : g = [f EXCEPT !.suspendAt = i, !.activeAt = j]
  OBVIOUS
<1>4. s.frames # <<>> => f \in ScopeFrameType
  <2>1. PICK fs : fs = s.frames /\ fs \in Seq(ScopeFrameType)
    BY DEF AccessTyped
  <2> QED
    BY <1>1, <2>1
<1>5. f \in ScopeFrameType => g \in ScopeFrameType
  BY <1>2, <1>3 DEF ScopeFrameType
<1>6. AccessTyped(OnTop(s, g))
  BY <1>4, <1>5, TopTyped
<1>7. CASE s.frames = <<>>
  BY <1>7 DEF Resume
<1>8. CASE s.frames # <<>>
  <2>1. PICK fs, n : fs = s.frames /\ fs \in Seq(ScopeFrameType) /\ n = Len(fs) /\ n \in DOMAIN fs
    BY <1>8 DEF AccessTyped
  <2>2. f = fs[n] /\ f \in ScopeFrameType
    BY <1>1, <1>4, <1>8, <2>1
  <2>3. f.activeAt = [f EXCEPT !.suspendAt = i].activeAt
    BY <2>2 DEF ScopeFrameType
  <2>4. Resume(s, depth) = OnTop(s, g)
    <3>1. Resume(s, depth) = [s EXCEPT !.frames = [[fs EXCEPT ![n].suspendAt = i] EXCEPT ![n].activeAt = j]]
      BY <1>1, <1>2, <1>8, <2>1, <2>2, <2>3 DEF Resume, AccessTyped
    <3>2. [[fs EXCEPT ![n].suspendAt = i] EXCEPT ![n].activeAt = j] = [fs EXCEPT ![n] = g]
      BY <1>3, <2>1, <2>2
    <3>3. OnTop(s, g) = [s EXCEPT !.frames = [fs EXCEPT ![n] = g]]
      BY <2>1 DEF OnTop, AccessTyped
    <3> QED
      BY <3>1, <3>2, <3>3
  <2> QED
    BY <1>6, <2>4
<1> QED
  BY <1>7, <1>8

\* The end of a scope.
LEMMA CloseTyped ==
    ASSUME NEW s, AccessTyped(s), s.frames # <<>>
    PROVE  AccessTyped(Close(s))
<1>1. PICK fs : fs = s.frames /\ fs \in Seq(ScopeFrameType) /\ fs # <<>>
  BY DEF AccessTyped
<1>2. PICK f \in ScopeFrameType : f = Last(fs)
  BY <1>1, LastType
<1>3. PICK ns : ns = {f.parent.unused, f.handler.unused} \ {0}
  OBVIOUS
<1>4. ns \subseteq Nodes
  BY <1>3 DEF ScopeFrameType, TrackerType
<1>5. PICK t : t = Flag(s, ns)
  OBVIOUS
<1>6. AccessTyped(t) /\ t.frames = fs
  <2>1. AccessTyped(t)
    BY <1>4, <1>5, FlagTyped
  <2>2. t.frames = fs
    BY <1>1, <1>5 DEF Flag, AccessTyped
  <2> QED
    BY <2>1, <2>2
<1>7. PICK gs : gs = Front(fs) /\ gs \in Seq(ScopeFrameType)
  BY <1>1, FrontType
<1>8. AccessTyped([t EXCEPT !.frames = gs])
  BY <1>6, <1>7, FramesTyped
<1>9. Close(s) = [t EXCEPT !.frames = gs]
  BY <1>1, <1>2, <1>3, <1>5, <1>6, <1>7 DEF Close
<1> QED
  BY <1>8, <1>9

\* The macro scope of another node.
LEMMA MacrosTyped ==
    ASSUME NEW s, AccessTyped(s), NEW ms \in Seq(EntryType)
    PROVE  AccessTyped([s EXCEPT !.macros = ms])
BY DEF AccessTyped

-----------------------------------------------------------------------------

\* What the two rules keep has its type.
TypesInv == SelfTyped(selfs) /\ AccessTyped(access)

\* One more at the end.
LEMMA AppendType ==
    ASSUME NEW S, NEW s \in Seq(S), NEW x \in S
    PROVE  Append(s, x) \in Seq(S)
OBVIOUS

\* A node is entered.
LEMMA SelfEntered ==
    ASSUME tree \in Shapes, NEW n \in Nodes, NEW s, SelfTyped(s), NEW t, NEW pushes,
           pushes = PushesOwner(s, n),
           t = [s EXCEPT !.pushed = Append(@, pushes),
                         !.owners = IF pushes THEN Append(@, FALSE) ELSE @]
    PROVE  SelfTyped([Handle(t, n) EXCEPT !.above = Append(@, n)])
<1>1. pushes \in BOOLEAN
  BY DEF PushesOwner
<1>2. PICK o, p : /\ o = IF pushes THEN Append(s.owners, FALSE) ELSE s.owners
                  /\ p = Append(s.pushed, pushes)
  OBVIOUS
<1>3. o \in Seq(BOOLEAN) /\ p \in Seq(BOOLEAN)
  <2>1. s.owners \in Seq(BOOLEAN) /\ s.pushed \in Seq(BOOLEAN)
    BY DEF SelfTyped
  <2>2. Append(s.owners, FALSE) \in Seq(BOOLEAN) /\ Append(s.pushed, pushes) \in Seq(BOOLEAN)
    BY <1>1, <2>1, AppendType
  <2> QED
    BY <1>2, <2>1, <2>2
<1>4. t = [s EXCEPT !.pushed = p, !.owners = o]
  BY <1>2
<1>5. SelfTyped(t)
  BY <1>3, <1>4 DEF SelfTyped
<1>6. PICK u : u = Handle(t, n) /\ SelfTyped(u)
  BY <1>5, HandleTyped
<1>7. Append(u.above, n) \in Seq(Nodes)
  BY <1>6 DEF SelfTyped
<1> QED
  BY <1>6, <1>7 DEF SelfTyped

\* A step of the walk, and of the two rules with it.
LEMMA TypesHook ==
    ASSUME WalkInv, TypesInv, OnBranch \/ OnLeave \/ OnLeaf \/ OnDirect \/ OnRescue \/ OnRescueLeave
    PROVE  tree' = tree /\ SelfTyped(selfs') /\ AccessTyped(access')
<1>1. PICK s, a : s = selfs /\ a = access /\ SelfTyped(s) /\ AccessTyped(a)
  BY DEF TypesInv
<1>2. tree \in Shapes /\ tree' = tree
  BY DEF WalkInv, OnBranch, OnLeave, OnLeaf, OnDirect, OnRescue, OnRescueLeave, EnterBranch, LeaveBranch,
         EnterLeaf, VisitDirect, EnterRescue, LeaveRescue
<1>3. todo # <<>> => Node \in Nodes
  <2>1. todo \in Seq(Calls)
    BY DEF WalkInv
  <2>2. ASSUME todo # <<>> PROVE Head(todo) \in Calls
    BY <2>1, <2>2
  <2> QED
    BY <2>2 DEF Calls, Node
<1>4. CASE OnBranch
  <2>1. PICK n \in Nodes : n = Node
    BY <1>3, <1>4 DEF OnBranch, EnterBranch, Next
  <2>2. SelfTyped(selfs')
    <3>1. PICK pushes, t :
              /\ pushes = PushesOwner(s, n)
              /\ t = [s EXCEPT !.pushed = Append(@, pushes),
                               !.owners = IF pushes THEN Append(@, FALSE) ELSE @]
      OBVIOUS
    <3>2. selfs' = [Handle(t, n) EXCEPT !.above = Append(@, n)]
      BY <1>1, <1>4, <2>1, <3>1 DEF OnBranch, SelfEnter
    <3> QED
      BY <1>1, <1>2, <3>1, <3>2, SelfEntered
  <2>3. AccessTyped(access')
    <3>1. PICK b, e : b = EnterAccess(access, n) /\ e = MacroEntry(n)
      OBVIOUS
    <3>2. AccessTyped(b) /\ e \in EntryType
      <4>1. AccessTyped(access)
        BY <1>1
      <4> QED
        BY <1>2, <3>1, <4>1, EnterAccessTyped, MacroTyped
    <3>3. PICK ms : ms = Append(b.macros, e) /\ ms \in Seq(EntryType)
      <4>1. b.macros \in Seq(EntryType)
        BY <3>2 DEF AccessTyped
      <4> QED
        BY <3>2, <4>1, AppendType
    <3>4. access' = [b EXCEPT !.macros = ms]
      BY <1>4, <2>1, <3>1, <3>3 DEF OnBranch, AccessEnter
    <3> QED
      BY <3>2, <3>3, <3>4, MacrosTyped
  <2> QED
    BY <1>2, <2>2, <2>3
<1>5. CASE OnLeave
  <2>1. SelfTyped(selfs')
    <3>1. PICK ab, p, o : /\ ab = Front(s.above) /\ p = Front(s.pushed)
                          /\ o = IF Last(s.pushed) THEN Front(s.owners) ELSE s.owners
      OBVIOUS
    <3>2. PICK A, x, y, z : A = Nodes /\ x = s.above /\ y = s.pushed /\ z = s.owners
      OBVIOUS
    <3>3. x \in Seq(A) /\ y \in Seq(BOOLEAN) /\ z \in Seq(BOOLEAN)
      BY <1>1, <3>2 DEF SelfTyped
    <3>4. Front(x) \in Seq(A) /\ Front(y) \in Seq(BOOLEAN) /\ Front(z) \in Seq(BOOLEAN)
      BY <3>3, FrontType
    <3>5. ab \in Seq(Nodes) /\ p \in Seq(BOOLEAN) /\ o \in Seq(BOOLEAN)
      BY <3>1, <3>2, <3>3, <3>4
    <3>6. selfs' = [s EXCEPT !.above = ab, !.pushed = p, !.owners = o]
      BY <1>1, <1>5, <3>1 DEF OnLeave, SelfLeave, SelfTyped
    <3> QED
      BY <1>1, <3>5, <3>6 DEF SelfTyped
  <2>2. AccessTyped(access')
    <3>1. PICK ms, d : ms = Front(a.macros) /\ d = Depth - 1 /\ ms \in Seq(EntryType)
      BY <1>1, FrontType DEF AccessTyped
    <3>2. AccessTyped([a EXCEPT !.macros = ms])
      BY <1>1, <3>1, MacrosTyped
    <3>3. PICK b : b = Resume([a EXCEPT !.macros = ms], d)
      OBVIOUS
    <3>4. AccessTyped(b)
      BY <3>2, <3>3, ResumeTyped
    <3>5. b.frames # <<>> => AccessTyped(Close(b))
      BY <3>4, CloseTyped
    <3>6. access' = IF b.frames # <<>> /\ Last(b.frames).openAt = d THEN Close(b) ELSE b
      BY <1>1, <1>5, <3>1, <3>3 DEF OnLeave, AccessLeave
    <3> QED
      BY <3>4, <3>5, <3>6
  <2> QED
    BY <1>2, <2>1, <2>2
<1>6. CASE OnLeaf \/ OnDirect
  BY <1>1, <1>2, <1>6 DEF OnLeaf, OnDirect, copVars
<1>7. CASE OnRescue
  <2>1. PICK n \in Nodes : n = Node
    BY <1>3, <1>7 DEF OnRescue, EnterRescue, Next
  <2>2. PICK t : t = (IF Kind(n) = "rescueA" THEN AddLocal(s, {n}) ELSE s)
    OBVIOUS
  <2>3. SelfTyped(t)
    <3>1. SelfTyped(AddLocal(s, {n}))
      BY <1>1, AddLocalTyped
    <3> QED
      BY <1>1, <2>2, <3>1
  <2>4. PICK ab : ab = Append(t.above, n) /\ ab \in Seq(Nodes)
    <3>1. t.above \in Seq(Nodes)
      BY <2>3 DEF SelfTyped
    <3> QED
      BY <2>1, <3>1, AppendType
  <2>5. selfs' = [t EXCEPT !.above = ab]
    BY <1>1, <1>7, <2>1, <2>2, <2>4 DEF OnRescue, SelfRescue
  <2>6. SelfTyped(selfs')
    BY <2>3, <2>4, <2>5 DEF SelfTyped
  <2>7. AccessTyped(access')
    <3>1. Uniform(FALSE) \in EntryType
      BY DEF Uniform, EntryType
    <3>2. PICK ms : ms = Append(a.macros, Uniform(FALSE)) /\ ms \in Seq(EntryType)
      <4>1. a.macros \in Seq(EntryType)
        BY <1>1 DEF AccessTyped
      <4> QED
        BY <3>1, <4>1, AppendType
    <3>3. access' = [a EXCEPT !.macros = ms]
      BY <1>1, <1>7, <3>2 DEF OnRescue, AccessRescue
    <3> QED
      BY <1>1, <3>2, <3>3, MacrosTyped
  <2> QED
    BY <1>2, <2>6, <2>7
<1>8. CASE OnRescueLeave
  <2>1. PICK A, x : A = Nodes /\ x = s.above /\ x \in Seq(A)
    BY <1>1 DEF SelfTyped
  <2>2. PICK ab : ab = Front(x) /\ ab \in Seq(A)
    BY <2>1, FrontType
  <2>3. selfs' = [s EXCEPT !.above = ab]
    BY <1>1, <1>8, <2>1, <2>2 DEF OnRescueLeave, SelfRescueLeave
  <2>4. SelfTyped(selfs')
    BY <1>1, <2>1, <2>2, <2>3 DEF SelfTyped
  <2>5. PICK ms : ms = Front(a.macros) /\ ms \in Seq(EntryType)
    BY <1>1, FrontType DEF AccessTyped
  <2>6. access' = [a EXCEPT !.macros = ms]
    BY <1>1, <1>8, <2>5 DEF OnRescueLeave, AccessRescueLeave
  <2>7. AccessTyped(access')
    BY <1>1, <2>5, <2>6, MacrosTyped
  <2> QED
    BY <1>2, <2>4, <2>7
<1> QED
  BY <1>4, <1>5, <1>6, <1>7, <1>8

\* What the two rules start with.
LEMMA TypesStart ==
    ASSUME SelfInit, AccessInit
    PROVE  TypesInv
<1>1. <<>> \in Seq(BOOLEAN) /\ <<>> \in Seq(Nodes) /\ <<>> \in Seq(EntryType) /\ <<>> \in Seq(ScopeFrameType)
  OBVIOUS
<1>2. SelfTyped(selfs)
  BY <1>1 DEF SelfInit, SelfFresh, SelfTyped
<1>3. AccessTyped(access)
  BY <1>1 DEF AccessInit, AccessFresh, AccessTyped
<1> QED
  BY <1>2, <1>3 DEF TypesInv

\* A step of the rules keeps the types, or starts the rules afresh.
LEMMA TypesNext ==
    ASSUME WalkInv, TypesInv, [CopsNext]_<<walkVars, copVars, fileVars>>
    PROVE  TypesInv' \/ (SelfInit /\ AccessInit)'
<1>1. ASSUME tree' = tree, SelfTyped(selfs'), AccessTyped(access') PROVE TypesInv'
  <2>1. PICK s, a : s = selfs' /\ a = access' /\ SelfTyped(s) /\ AccessTyped(a)
    BY <1>1
  <2>2. Nodes' = Nodes /\ KindsHere' = KindsHere
    BY <1>1 DEF Nodes, KindsHere, Kind
  <2>3. SelfTyped(s)' /\ AccessTyped(a)'
    BY <2>1, <2>2 DEF SelfTyped, AccessTyped, ScopeFrameType, TrackerType
  <2>4. SelfTyped(selfs)'
    BY <2>1, <2>3 DEF SelfTyped
  <2>5. AccessTyped(access)'
    BY <2>1, <2>3 DEF AccessTyped
  <2> QED
    BY <2>4, <2>5 DEF TypesInv
<1>2. CASE OnHook
  BY <1>1, <1>2, TypesHook DEF OnHook
<1>3. CASE OnInvestigation \/ UNCHANGED <<walkVars, copVars, fileVars>>
  <2>1. UNCHANGED <<tree, access, selfs>>
    BY <1>3 DEF OnInvestigation, Investigate, copVars, walkVars
  <2>2. SelfTyped(selfs') /\ AccessTyped(access')
    BY <2>1 DEF TypesInv
  <2> QED
    BY <1>1, <2>1, <2>2
<1>4. CASE NextFile \/ NextRound
  <2>1. selfs' = SelfFresh /\ access' = AccessFresh
    BY <1>4 DEF NextFile, NextRound, WalkAgain
  <2> QED
    BY <2>1 DEF SelfInit, SelfFresh, AccessInit, AccessFresh
<1> QED
  BY <1>2, <1>3, <1>4 DEF CopsNext

\* redundant_self.rs and useless_access_modifier.rs: the stacks, the trackers and
\* what is reported are always of nodes of the tree.
THEOREM TypesKept == CopsSpec => []TypesInv
<1>1. SelfInit /\ AccessInit => TypesInv
  BY TypesStart
<1>2. CopsInit => SelfInit /\ AccessInit
  BY DEF CopsInit
<1>3. (SelfInit /\ AccessInit)' => TypesInv'
  BY <1>1, PTL
<1>4. WalkInv /\ TypesInv /\ [CopsNext]_<<walkVars, copVars, fileVars>> => TypesInv'
  BY <1>3, TypesNext
<1> QED
  BY <1>1, <1>2, <1>4, CopsWalkInv, PTL DEF CopsSpec

\* A sequence over a set is one over a larger set.
LEMMA SeqWidens ==
    ASSUME NEW S, NEW T, S \subseteq T, NEW s \in Seq(S)
    PROVE  s \in Seq(T)
OBVIOUS

\* What the invariants of the rules say of the types.
LEMMA TypesAre ==
    ASSUME WalkInv, TypesInv, RegistryInv, NestingInv, RSpecInv, MethodsInv, WidthsInv
    PROVE  CopsTypeOK
<1>1. tree \in Shapes /\ TypeOK
  BY DEF WalkInv
<1>2. nesting.level \in Nat /\ nesting.deepest \in Nat /\ nesting.ignoring \in BOOLEAN
  <2>1. NestingTyped(nesting)
    BY DEF NestingInv, NestInv
  <2> QED
    BY <2>1 DEF NestingTyped
<1>3. /\ access.macros \in Seq([{"condition", "block", "other"} -> BOOLEAN])
      /\ access.out \subseteq Nodes \X {Kind(n) : n \in Nodes}
  <2>1. access.macros \in Seq(EntryType) /\ access.out \subseteq Nodes \X KindsHere
    BY DEF TypesInv, AccessTyped
  <2>2. EntryType \subseteq [{"condition", "block", "other"} -> BOOLEAN]
    <3>1. ASSUME NEW e \in EntryType PROVE e \in [{"condition", "block", "other"} -> BOOLEAN]
      BY DEF EntryType
    <3> QED
      BY <3>1
  <2>3. access.macros \in Seq([{"condition", "block", "other"} -> BOOLEAN])
    BY <2>1, <2>2, SeqWidens
  <2> QED
    BY <2>1, <2>3 DEF KindsHere
<1>4. /\ selfs.owners \in Seq(BOOLEAN) /\ selfs.pushed \in Seq(BOOLEAN)
      /\ selfs.named \subseteq Nodes /\ selfs.above \in Seq(Nodes) /\ selfs.out \subseteq Nodes
  BY DEF TypesInv, SelfTyped
<1>5. /\ {methods.if, methods.sclassAny, methods.sclassNonself} \subseteq Nat
      /\ \A i \in DOMAIN methods.frames : methods.frames[i].node \in Nodes
  <2>1. PICK m \in 0 .. Len(tree.parent) : MethodsAt(methods, Filter(frames[ClauseRule], BranchNodes), m)
    BY DEF MethodsInv
  <2>2. PICK A, above, h : A = Nodes /\ above = frames[ClauseRule] /\ h = Filter(above, BranchNodes)
    OBVIOUS
  <2>3. above \in Seq(A)
    BY <1>1, <2>2, ClauseRuleIs DEF TypeOK
  <2>4. h \in Seq(A)
    BY <2>2, <2>3, FilterType
  <2>5. \A kinds : Tally(h, kinds) \in Nat
    BY <2>4, TallyStep
  <2>6. /\ methods.if = Tally(h, {"if"}) /\ methods.sclassAny = Tally(h, Sclass)
        /\ methods.sclassNonself = Tally(h, Nonself) /\ methods.frames = MethodFrames(h)
    BY <2>1, <2>2 DEF MethodsAt
  <2>7. \A i \in DOMAIN MethodFrames(h) : MethodFrames(h)[i].node \in Nodes
    <3>1. h \in Seq(Nodes)
      BY <2>2, <2>4
    <3>2. DOMAIN MethodFrames(h) = 1 .. Len(h) /\ \A i \in 1 .. Len(h) : MethodFrames(h)[i].node = h[i]
      BY <1>1, <3>1, MethodFramesAre
    <3>3. \A i \in 1 .. Len(h) : h[i] \in Nodes
      BY <3>1
    <3> QED
      BY <3>2, <3>3
  <2> QED
    BY <2>5, <2>6, <2>7
<1>6. /\ rspec.topSpecs \in Nat /\ rspec.open \in Seq(DOMAIN rspec.scopes)
      /\ rspec.calls \in Seq(Nodes) /\ rspec.named \cup rspec.variables \subseteq Nodes
  <2>1. PICK m \in 0 .. Len(tree.parent) : RSpecInvAt(rspec, frames[ClauseRule], m)
    BY RSpecInvIs
  <2>2. PICK s : s = rspec
    OBVIOUS
  <2>3. RSpecTyped(s) /\ s.open \in Seq(1 .. Len(s.scopes)) /\ FactsAre(s, m)
    BY <2>1, <2>2 DEF RSpecInvAt, Arena, OpenIs
  <2>4. s.topSpecs \in Nat /\ DOMAIN s.scopes = 1 .. Len(s.scopes)
    BY <2>3 DEF RSpecTyped
  <2>5. 1 .. m \subseteq Nodes
    BY <1>1, TreeFacts
  <2>6. s.named \cup s.variables \subseteq Nodes
    BY <2>3, <2>5 DEF FactsAre
  <2>7. s.calls \in Seq(Nodes)
    <3>1. m \in Nat
      BY <1>1, TreeFacts
    <3>2. UpTo(m) \in Seq(Nodes)
      BY <2>5, <3>1, UpToIs, SeqWidens
    <3>3. PICK A, u : A = Nodes /\ u = UpTo(m) /\ u \in Seq(A)
      BY <3>2
    <3>4. Filter(u, CallNodes) \in Seq(A)
      BY <3>3, FilterType
    <3> QED
      BY <2>3, <3>3, <3>4 DEF FactsAre
  <2> QED
    BY <2>2, <2>3, <2>4, <2>6, <2>7
<1>7. widths.registered \cup widths.ranges \subseteq Nat \X Nat
  <2>1. widths \in RuleStates
    BY WidthsInvIs DEF RuleInv
  <2> QED
    BY <2>1 DEF RuleStates, Pairs
<1>8. path \in Nat /\ registry.seen \in BOOLEAN
  BY DEF RegistryInv
<1> QED
  BY <1>1, <1>2, <1>3, <1>4, <1>5, <1>6, <1>7, <1>8 DEF CopsTypeOK

\* dispatch.rs and the six rules: every variable of every rule has its type in
\* every state of every file and round; the counters the rules keep as usize
\* never go below zero, and what they point to is in the tree.
THEOREM CopsTypeCorrect == CopsSpec => []CopsTypeOK
<1>1. CopsInit => RegistryInv
  BY RegistryInvInit
<1>2. RegistryInv /\ [CopsNext]_<<walkVars, copVars, fileVars>> => RegistryInv'
  BY RegistryInvNext
<1>3. CopsSpec => []RegistryInv
  BY <1>1, <1>2, PTL DEF CopsSpec
<1>4. WalkInv /\ TypesInv /\ RegistryInv /\ NestingInv /\ RSpecInv /\ MethodsInv /\ WidthsInv => CopsTypeOK
  BY TypesAre
<1> QED
  BY <1>3, <1>4, CopsWalkInv, TypesKept, NestingRunsLikeStock, RSpecRunsLikeStock, MethodsRunLikeStock,
     WidthsRunLikeStock, PTL

=============================================================================
