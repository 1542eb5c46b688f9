-------------------------- MODULE WalkedCopsProofs --------------------------
(***************************************************************************)
(* First the shared walk over every tree, with any rules whose masks ask   *)
(* for what their bodies need: the frames of a rule are the ancestors of   *)
(* the node the walk is about to visit, and at the end every rule has      *)
(* reported what it would have reported alone.                             *)
(*                                                                         *)
(* The invariant reads the calls still to make as a program.  Each call is *)
(* made under certain frames and, with everything it leads to, leaves the  *)
(* frames above its node; the calls to come follow one another, down to    *)
(* the empty stack.  And the nodes that are entered are the first ones of  *)
(* the tree: every later node is pending, or below a node that is.         *)
(*                                                                         *)
(* Then the rules that keep state across nodes, under the walk that drives *)
(* them: what is shown of one walk holds from file to file and from round  *)
(* to round, and the registry of DuplicateMethods, which outlives the      *)
(* files, decides by the history of what was logged.                       *)
(***************************************************************************)
EXTENDS WalkedCops, SequenceTheorems, WellFoundedInduction, TLAPS

-----------------------------------------------------------------------------
(* Trees: what their operators give for every tree.                        *)
(*                                                                         *)
(* The definitions recur over positions and over parents.  The induction   *)
(* they need is stated for sets of numbers, LeastNumber and NatSet, and    *)
(* used with the set of the numbers that have the property.                *)

\* A set of natural numbers that is not empty has a least element.
LEMMA LeastNumber ==
    ASSUME NEW T, T \subseteq Nat, T # {}
    PROVE  \E x \in T : \A y \in T : x <= y
<1>1. PICK R : /\ IsWellFoundedOn(R, Nat)
               /\ \A x, y \in Nat : x < y => <<x, y>> \in R
  <2>1. \A x, y \in Nat : x < y => <<x, y>> \in OpToRel(<, Nat)
    BY DEF OpToRel
  <2>2. QED
    BY <2>1, NatLessThanWellFounded
<1>2. IsWellFoundedOn(R, Nat)
  BY <1>1
<1>3. PICK x \in T : \A y \in T : ~(<<y, x>> \in R)
  BY <1>2, WFMin
<1>4. \A y \in T : ~(y < x)
  BY <1>1, <1>3
<1>5. QED
  BY <1>3, <1>4

\* A set with 0 and the successors of its numbers has every natural number.
LEMMA NatSet ==
    ASSUME NEW S, 0 \in S, \A n \in Nat : n \in S => n + 1 \in S
    PROVE  \A n \in Nat : n \in S
<1> DEFINE T == {n \in Nat : n \notin S}
<1>1. SUFFICES ASSUME T # {} PROVE FALSE
  OBVIOUS
<1>2. PICK x \in T : \A y \in T : x <= y
  BY <1>1, LeastNumber
<1>3. x \in Nat \ {0} /\ x \notin S
  BY <1>2
<1>4. x - 1 \in Nat /\ x - 1 \in S
  BY <1>2, <1>3
<1>5. QED
  BY <1>3, <1>4

\* A set with each number all of whose smaller numbers it has, has every
\* natural number.
LEMMA NatSetStrong ==
    ASSUME NEW S, \A n \in Nat : (\A m \in Nat : m < n => m \in S) => n \in S
    PROVE  \A n \in Nat : n \in S
<1> DEFINE T == {n \in Nat : n \notin S}
<1>1. SUFFICES ASSUME T # {} PROVE FALSE
  OBVIOUS
<1>2. PICK x \in T : \A y \in T : x <= y
  BY <1>1, LeastNumber
<1>3. \A m \in Nat : m < x => m \in S
  BY <1>2
<1>4. QED
  BY <1>2, <1>3

-----------------------------------------------------------------------------

\* G gives the value at j from the value at a smaller number, q[j].
RecursiveStep(n, V, q, G) ==
    /\ \A j \in 1 .. n : q[j] \in 0 .. j - 1
    /\ \A j \in 1 .. n : \A v \in V : G[<<j, v>>] \in V

SolvesRecursion(f, n, V, v0, q, G) ==
    /\ f \in [0 .. n -> V] /\ f[0] = v0
    /\ \A j \in 1 .. n : f[j] = G[<<j, f[q[j]]>>]

\* A function of 1 .. n can be defined by recursion over smaller numbers.
LEMMA Recursion ==
    ASSUME NEW n \in Nat, NEW V, NEW v0 \in V, NEW q, NEW G, RecursiveStep(n, V, q, G)
    PROVE  \E f : SolvesRecursion(f, n, V, v0, q, G)
<1> USE DEF RecursiveStep
<1> DEFINE Upto(m) == \E f \in [0 .. m -> V] :
                          f[0] = v0 /\ \A j \in 1 .. m : f[j] = G[<<j, f[q[j]]>>]
           Good == {m \in Nat : m <= n => Upto(m)}
<1>1. 0 \in Good
  <2> DEFINE f == [i \in 0 .. 0 |-> v0]
  <2>1. f \in [0 .. 0 -> V] /\ f[0] = v0 /\ \A j \in 1 .. 0 : f[j] = G[<<j, f[q[j]]>>]
    OBVIOUS
  <2> HIDE DEF f
  <2>2. Upto(0)
    BY <2>1
  <2> QED
    BY <2>2
<1>2. ASSUME NEW m \in Nat, m \in Good, m + 1 <= n PROVE Upto(m + 1)
  <2>1. PICK f \in [0 .. m -> V] : f[0] = v0 /\ \A j \in 1 .. m : f[j] = G[<<j, f[q[j]]>>]
    <3>1. m <= n /\ m \in Good
      BY <1>2
    <3>2. Upto(m)
      BY <3>1
    <3> QED
      BY <3>2
  <2> DEFINE last == G[<<m + 1, f[q[m + 1]]>>]
             g == [i \in 0 .. m + 1 |-> IF i = m + 1 THEN last ELSE f[i]]
  <2>2. last \in V
    BY <1>2, <2>1
  <2> HIDE DEF last
  <2>3. g \in [0 .. m + 1 -> V]
    BY <2>2
  <2>4. g[0] = v0
    BY <2>1
  <2>5. ASSUME NEW j \in 1 .. m + 1 PROVE g[j] = G[<<j, g[q[j]]>>]
    <3>1. q[j] \in 0 .. m /\ g[q[j]] = f[q[j]]
      BY <1>2
    <3>2. CASE j = m + 1
      <4>1. g[j] = last
        BY <3>2
      <4>2. last = G[<<j, f[q[j]]>>]
        BY <3>2 DEF last
      <4> QED
        BY <3>1, <4>1, <4>2
    <3>3. CASE j \in 1 .. m
      BY <3>1, <3>3, <2>1
    <3> QED
      BY <3>2, <3>3
  <2> QED
    BY <2>3, <2>4, <2>5
<1>3. ASSUME NEW m \in Nat, m \in Good PROVE m + 1 \in Good
  <2> HIDE DEF Upto
  <2>1. m + 1 <= n => Upto(m + 1)
    BY <1>2, <1>3
  <2>2. m + 1 \in Nat
    OBVIOUS
  <2> QED
    BY <2>1, <2>2
<1> HIDE DEF Good
<1>4. n \in Good
  BY <1>1, <1>3, NatSet
<1>5. PICK f \in [0 .. n -> V] : f[0] = v0 /\ \A j \in 1 .. n : f[j] = G[<<j, f[q[j]]>>]
  BY <1>4 DEF Good
<1>6. SolvesRecursion(f, n, V, v0, q, G)
  BY <1>5 DEF SolvesRecursion
<1> QED
  BY <1>6

-----------------------------------------------------------------------------

\* What is kept of the first i elements.
Keeps(s, S, f) ==
    f = [i \in 0 .. Len(s) |->
            IF i = 0 THEN <<>> ELSE IF s[i] \in S THEN Append(f[i - 1], s[i]) ELSE f[i - 1]]

\* Filter is defined for every sequence.
LEMMA FilterDefined ==
    ASSUME NEW A, NEW s \in Seq(A), NEW S
    PROVE  \E f : Keeps(s, S, f) /\ f \in [0 .. Len(s) -> Seq(A)]
<1>1. PICK n \in Nat : n = Len(s)
  OBVIOUS
<1> DEFINE V == Seq(A)
           q == [j \in 1 .. n |-> j - 1]
           G == [c \in (1 .. n) \X V |->
                    IF s[c[1]] \in S THEN Append(c[2], s[c[1]]) ELSE c[2]]
<1>2. \A j \in 1 .. n : q[j] = j - 1
  OBVIOUS
<1>3. \A j \in 1 .. n : \A v \in V : G[<<j, v>>] = IF s[j] \in S THEN Append(v, s[j]) ELSE v
  OBVIOUS
<1>4. ASSUME NEW j \in 1 .. n, NEW v \in V PROVE G[<<j, v>>] \in V
  <2>1. s[j] \in A /\ Append(v, s[j]) \in V
    BY <1>1
  <2> QED
    BY <1>3, <2>1
<1>5. <<>> \in V
  OBVIOUS
<1> HIDE DEF G, q, V
<1>6. RecursiveStep(n, V, q, G)
  BY <1>2, <1>4 DEF RecursiveStep
<1>7. PICK f : SolvesRecursion(f, n, V, <<>>, q, G)
  BY <1>5, <1>6, Recursion
<1>8. f \in [0 .. n -> V] /\ f[0] = <<>>
  BY <1>7 DEF SolvesRecursion
<1>9. ASSUME NEW j \in 1 .. n PROVE f[j] = IF s[j] \in S THEN Append(f[j - 1], s[j]) ELSE f[j - 1]
  <2>1. j - 1 \in 0 .. n
    OBVIOUS
  <2>2. f[j] = G[<<j, f[j - 1]>>]
    BY <1>2, <1>7 DEF SolvesRecursion
  <2>3. f[j - 1] \in V
    BY <2>1, <1>8
  <2> QED
    BY <1>3, <2>2, <2>3
<1> DEFINE g == [i \in 0 .. n |->
            IF i = 0 THEN <<>> ELSE IF s[i] \in S THEN Append(f[i - 1], s[i]) ELSE f[i - 1]]
<1>10. ASSUME NEW i \in 0 .. n PROVE f[i] = g[i]
  <2>1. CASE i = 0
    BY <1>8, <2>1
  <2>2. CASE i \in 1 .. n
    <3>1. g[i] = IF s[i] \in S THEN Append(f[i - 1], s[i]) ELSE f[i - 1]
      BY <2>2
    <3> QED
      BY <1>9, <2>2, <3>1
  <2> QED
    BY <2>1, <2>2
<1>11. f = g
  BY <1>8, <1>10
<1>12. Keeps(s, S, f)
  BY <1>1, <1>11 DEF Keeps
<1> QED
  BY <1>1, <1>8, <1>12 DEF V

\* What is kept depends on which elements are in the set, and on no later one.
LEMMA KeepsAgree ==
    ASSUME NEW A, NEW s \in Seq(A), NEW t \in Seq(A), NEW S, NEW T, NEW f, NEW g,
           Keeps(s, S, f), Keeps(t, T, g),
           NEW m \in Nat, m <= Len(s), m <= Len(t),
           \A i \in 1 .. m : s[i] = t[i] /\ (s[i] \in S <=> s[i] \in T)
    PROVE  f[m] = g[m]
<1> DEFINE Good == {i \in Nat : i <= m => f[i] = g[i]}
<1>1. \A i \in 0 .. Len(s) : f[i] = IF i = 0 THEN <<>>
                                    ELSE IF s[i] \in S THEN Append(f[i - 1], s[i]) ELSE f[i - 1]
  BY DEF Keeps
<1>2. \A i \in 0 .. Len(t) : g[i] = IF i = 0 THEN <<>>
                                    ELSE IF t[i] \in T THEN Append(g[i - 1], t[i]) ELSE g[i - 1]
  BY DEF Keeps
<1>3. 0 \in Good
  BY <1>1, <1>2
<1>4. \A i \in Nat : i \in Good => i + 1 \in Good
  <2> SUFFICES ASSUME NEW i \in Nat, f[i] = g[i], i + 1 <= m PROVE f[i + 1] = g[i + 1]
    OBVIOUS
  <2>1. f[i + 1] = IF s[i + 1] \in S THEN Append(f[i], s[i + 1]) ELSE f[i]
    BY <1>1
  <2>2. g[i + 1] = IF t[i + 1] \in T THEN Append(g[i], t[i + 1]) ELSE g[i]
    BY <1>2
  <2> QED
    BY <2>1, <2>2
<1> HIDE DEF Good
<1>5. m \in Good
  BY <1>3, <1>4, NatSet
<1> QED
  BY <1>5 DEF Good

\* Filter is what is kept of all elements.
LEMMA FilterIs ==
    ASSUME NEW A, NEW s \in Seq(A), NEW S, NEW f, Keeps(s, S, f)
    PROVE  Filter(s, S) = f[Len(s)]
<1> DEFINE g == CHOOSE g : Keeps(s, S, g)
<1>1. Keeps(s, S, g)
  OBVIOUS
<1>2. Filter(s, S) = g[Len(s)]
  BY DEF Filter, Keeps
<1> HIDE DEF g
<1>3. f[Len(s)] = g[Len(s)]
  <2>1. Len(s) \in Nat
    OBVIOUS
  <2> QED
    BY <1>1, <2>1, KeepsAgree
<1> QED
  BY <1>2, <1>3

\* Of an empty sequence nothing is kept.
LEMMA FilterEmpty ==
    ASSUME NEW S
    PROVE  Filter(<<>>, S) = <<>>
<1>1. <<>> \in Seq({}) /\ Len(<<>>) = 0
  OBVIOUS
<1>2. PICK f : Keeps(<<>>, S, f)
  BY <1>1, FilterDefined
<1>3. f[0] = <<>>
  BY <1>2 DEF Keeps
<1> QED
  BY <1>1, <1>2, <1>3, FilterIs

\* What is kept are elements of the sequence.
LEMMA FilterType ==
    ASSUME NEW A, NEW s \in Seq(A), NEW S
    PROVE  Filter(s, S) \in Seq(A)
<1>1. PICK f : Keeps(s, S, f) /\ f \in [0 .. Len(s) -> Seq(A)]
  BY FilterDefined
<1>2. Keeps(s, S, f)
  BY <1>1
<1>3. f[Len(s)] \in Seq(A)
  BY <1>1
<1> QED
  BY <1>2, <1>3, FilterIs

\* A further element is kept after the others, or not at all.
LEMMA FilterAppend ==
    ASSUME NEW A, NEW s \in Seq(A), NEW e \in A, NEW S
    PROVE  Filter(Append(s, e), S) =
              IF e \in S THEN Append(Filter(s, S), e) ELSE Filter(s, S)
<1> DEFINE t == Append(s, e)
<1>1. PICK n \in Nat : n = Len(s) /\ Len(t) = n + 1 /\ t \in Seq(A) /\ t[n + 1] = e
  OBVIOUS
<1>2. \A i \in 1 .. n : s[i] = t[i]
  BY <1>1
<1> HIDE DEF t
<1>3. PICK f : Keeps(s, S, f)
  BY FilterDefined
<1>4. PICK g : Keeps(t, S, g)
  BY <1>1, FilterDefined
<1>5. f[n] = g[n]
  BY <1>1, <1>2, <1>3, <1>4, KeepsAgree
<1>6. g[n + 1] = IF e \in S THEN Append(g[n], e) ELSE g[n]
  <2>1. \A i \in 0 .. n + 1 : g[i] = IF i = 0 THEN <<>>
                                     ELSE IF t[i] \in S THEN Append(g[i - 1], t[i]) ELSE g[i - 1]
    BY <1>1, <1>4 DEF Keeps
  <2>2. n + 1 \in 0 .. n + 1 /\ n + 1 # 0 /\ (n + 1) - 1 = n
    OBVIOUS
  <2>3. g[n + 1] = IF t[n + 1] \in S THEN Append(g[n], t[n + 1]) ELSE g[n]
    BY <2>1, <2>2
  <2> QED
    BY <1>1, <2>3
<1>7. Filter(s, S) = f[n]
  BY <1>1, <1>3, FilterIs
<1>8. Filter(t, S) = g[n + 1]
  BY <1>1, <1>4, FilterIs
<1> QED
  BY <1>5, <1>6, <1>7, <1>8 DEF t

\* Two sets that hold the same elements of a sequence keep the same.
LEMMA FilterSame ==
    ASSUME NEW A, NEW s \in Seq(A), NEW S, NEW T, \A a \in A : a \in S <=> a \in T
    PROVE  Filter(s, S) = Filter(s, T)
<1>1. Len(s) \in Nat /\ \A i \in 1 .. Len(s) : s[i] \in A
  OBVIOUS
<1>2. PICK f : Keeps(s, S, f)
  BY FilterDefined
<1>3. PICK g : Keeps(s, T, g)
  BY FilterDefined
<1>4. f[Len(s)] = g[Len(s)]
  BY <1>1, <1>2, <1>3, KeepsAgree
<1> QED
  BY <1>2, <1>3, <1>4, FilterIs

-----------------------------------------------------------------------------

\* One step of a filter: what is kept of the first m + 1 elements.
LEMMA KeepsStep ==
    ASSUME NEW A, NEW s \in Seq(A), NEW S, NEW f, Keeps(s, S, f), f \in [0 .. Len(s) -> Seq(A)],
           NEW m \in Nat, m + 1 <= Len(s)
    PROVE  /\ f[m] \in Seq(A) /\ s[m + 1] \in A
           /\ f[m + 1] = IF s[m + 1] \in S THEN Append(f[m], s[m + 1]) ELSE f[m]
<1>1. \A i \in 0 .. Len(s) : f[i] = IF i = 0 THEN <<>>
                                    ELSE IF s[i] \in S THEN Append(f[i - 1], s[i]) ELSE f[i - 1]
  BY DEF Keeps
<1>2. Len(s) \in Nat
  OBVIOUS
<1>3. m + 1 \in 0 .. Len(s) /\ m \in 0 .. Len(s) /\ m + 1 # 0 /\ (m + 1) - 1 = m
  BY <1>2
<1>4. s[m + 1] \in A
  BY <1>3
<1> QED
  BY <1>1, <1>3, <1>4

\* The elements of a sequence.
Elements(s) == {s[i] : i \in 1 .. Len(s)}

\* An appended element is the one further element.
LEMMA ElementsAppend ==
    ASSUME NEW A, NEW s \in Seq(A), NEW e \in A
    PROVE  Elements(Append(s, e)) = Elements(s) \cup {e}
<1> DEFINE t == Append(s, e)
<1>1. PICK n \in Nat : n = Len(s) /\ Len(t) = n + 1 /\ t[n + 1] = e /\ \A i \in 1 .. n : t[i] = s[i]
  OBVIOUS
<1> HIDE DEF t
<1>2. Elements(t) \subseteq Elements(s) \cup {e}
  <2> SUFFICES ASSUME NEW i \in 1 .. n + 1 PROVE t[i] \in Elements(s) \cup {e}
    BY <1>1 DEF Elements
  <2> QED
    BY <1>1 DEF Elements
<1>3. Elements(s) \subseteq Elements(t)
  <2> SUFFICES ASSUME NEW i \in 1 .. n PROVE s[i] \in Elements(t)
    BY <1>1 DEF Elements
  <2>1. s[i] = t[i] /\ i \in 1 .. n + 1
    BY <1>1
  <2> QED
    BY <1>1, <2>1 DEF Elements
<1>4. e \in Elements(t)
  <2>1. n + 1 \in 1 .. n + 1
    OBVIOUS
  <2> QED
    BY <1>1, <2>1 DEF Elements
<1> QED
  BY <1>2, <1>3, <1>4 DEF t

\* Kept are just the elements that are in the set.
LEMMA FilterElements ==
    ASSUME NEW A, NEW s \in Seq(A), NEW S
    PROVE  Elements(Filter(s, S)) = Elements(s) \cap S
<1>1. PICK f : Keeps(s, S, f) /\ f \in [0 .. Len(s) -> Seq(A)]
  BY FilterDefined
<1>2. PICK n \in Nat : n = Len(s)
  OBVIOUS
<1> DEFINE P(m) == Elements(f[m]) = {s[i] : i \in 1 .. m} \cap S
           Good == {m \in Nat : m <= n => P(m)}
<1>3. P(0)
  <2>1. f[0] = <<>>
    BY <1>1 DEF Keeps
  <2>2. Elements(<<>>) = {}
    BY DEF Elements
  <2>3. {s[i] : i \in 1 .. 0} = {}
    OBVIOUS
  <2> QED
    BY <2>1, <2>2, <2>3
<1>4. ASSUME NEW m \in Nat, m + 1 <= n, P(m) PROVE P(m + 1)
  <2>1. /\ f[m] \in Seq(A) /\ s[m + 1] \in A
        /\ f[m + 1] = IF s[m + 1] \in S THEN Append(f[m], s[m + 1]) ELSE f[m]
    BY <1>1, <1>2, <1>4, KeepsStep
  <2>2. {s[i] : i \in 1 .. m + 1} = {s[i] : i \in 1 .. m} \cup {s[m + 1]}
    OBVIOUS
  <2>3. CASE s[m + 1] \in S
    <3>1. Elements(f[m + 1]) = Elements(f[m]) \cup {s[m + 1]}
      BY <2>1, <2>3, ElementsAppend
    <3> QED
      BY <1>4, <2>2, <2>3, <3>1
  <2>4. CASE s[m + 1] \notin S
    <3>1. Elements(f[m + 1]) = Elements(f[m])
      BY <2>1, <2>4
    <3> QED
      BY <1>4, <2>2, <2>4, <3>1
  <2> QED
    BY <2>3, <2>4
<1> HIDE DEF P
<1>5. \A m \in Nat : m \in Good => m + 1 \in Good
  BY <1>2, <1>4
<1>6. 0 \in Good
  BY <1>3
<1> HIDE DEF Good
<1>7. n \in Good
  BY <1>5, <1>6, NatSet
<1>8. P(n)
  BY <1>7 DEF Good
<1>9. Filter(s, S) = f[n]
  BY <1>1, <1>2, FilterIs
<1> QED
  BY <1>2, <1>8, <1>9 DEF P, Elements

Increasing(s) == \A i, j \in 1 .. Len(s) : i < j => s[i] < s[j]

\* The order of an increasing sequence is kept.
LEMMA FilterIncreasing ==
    ASSUME NEW s \in Seq(Nat), Increasing(s), NEW S
    PROVE  Increasing(Filter(s, S))
<1>1. PICK f : Keeps(s, S, f) /\ f \in [0 .. Len(s) -> Seq(Nat)]
  BY FilterDefined
<1>2. PICK n \in Nat : n = Len(s)
  OBVIOUS
<1> DEFINE P(m) == /\ Increasing(f[m])
                   /\ \A i \in 1 .. Len(f[m]) : \E j \in 1 .. m : f[m][i] = s[j]
           Good == {m \in Nat : m <= n => P(m)}
<1>3. P(0)
  <2>1. f[0] = <<>>
    BY <1>1 DEF Keeps
  <2> QED
    BY <2>1 DEF Increasing
<1>4. ASSUME NEW m \in Nat, m + 1 <= n, P(m) PROVE P(m + 1)
  <2> HIDE DEF P
  <2>1. /\ f[m] \in Seq(Nat) /\ s[m + 1] \in Nat
        /\ f[m + 1] = IF s[m + 1] \in S THEN Append(f[m], s[m + 1]) ELSE f[m]
    BY <1>1, <1>2, <1>4, KeepsStep
  <2>2. PICK g, e : g = f[m] /\ e = s[m + 1]
    OBVIOUS
  <2>3. Increasing(g) /\ \A i \in 1 .. Len(g) : \E j \in 1 .. m : g[i] = s[j]
    BY <1>4, <2>2 DEF P
  <2>4. CASE e \in S
    <3>1. PICK k \in Nat : k = Len(g)
      BY <2>1, <2>2
    <3>2. PICK h : h = Append(g, e)
      OBVIOUS
    <3>3. Len(h) = k + 1 /\ h[k + 1] = e /\ \A i \in 1 .. k : h[i] = g[i]
      BY <2>1, <2>2, <3>1, <3>2
    <3>4. \A i \in 1 .. k : \E j \in 1 .. m : h[i] = s[j]
      BY <2>3, <3>1, <3>3
    <3>5. \A j \in 1 .. m : s[j] < e
      BY <1>2, <1>4, <2>2 DEF Increasing
    <3>6. \A i \in 1 .. k : h[i] < e
      BY <3>4, <3>5
    <3>7. ASSUME NEW i \in 1 .. k + 1, NEW j \in 1 .. k + 1, i < j PROVE h[i] < h[j]
      <4>1. CASE j = k + 1
        BY <3>3, <3>6, <3>7, <4>1
      <4>2. CASE j \in 1 .. k
        <5>1. i \in 1 .. k /\ g[i] < g[j]
          BY <2>3, <3>1, <3>7, <4>2 DEF Increasing
        <5> QED
          BY <3>3, <4>2, <5>1
      <4> QED
        BY <4>1, <4>2
    <3>8. Increasing(h)
      BY <3>3, <3>7 DEF Increasing
    <3>9. ASSUME NEW i \in 1 .. k + 1 PROVE \E j \in 1 .. m + 1 : h[i] = s[j]
      <4>1. CASE i = k + 1
        <5>1. m + 1 \in 1 .. m + 1 /\ h[i] = s[m + 1]
          BY <2>2, <3>3, <4>1
        <5> QED
          BY <5>1
      <4>2. CASE i \in 1 .. k
        BY <3>4, <4>2
      <4> QED
        BY <4>1, <4>2
    <3>10. f[m + 1] = h
      BY <2>1, <2>2, <2>4, <3>2
    <3> QED
      BY <3>3, <3>8, <3>9, <3>10 DEF P
  <2>5. CASE e \notin S
    <3>1. f[m + 1] = g
      BY <2>1, <2>2, <2>5
    <3> QED
      BY <2>3, <3>1 DEF P
  <2> QED
    BY <2>4, <2>5
<1> HIDE DEF P
<1>5. \A m \in Nat : m \in Good => m + 1 \in Good
  BY <1>2, <1>4
<1>6. 0 \in Good
  BY <1>3
<1> HIDE DEF Good
<1>7. n \in Good
  BY <1>5, <1>6, NatSet
<1>8. P(n)
  BY <1>7 DEF Good
<1>9. Filter(s, S) = f[n]
  BY <1>1, <1>2, FilterIs
<1> QED
  BY <1>8, <1>9 DEF P

\* When all elements are kept, the sequence is.
LEMMA FilterAll ==
    ASSUME NEW A, NEW s \in Seq(A), NEW S, A \subseteq S
    PROVE  Filter(s, S) = s
<1>1. PICK f : Keeps(s, S, f) /\ f \in [0 .. Len(s) -> Seq(A)]
  BY FilterDefined
<1>2. PICK n \in Nat : n = Len(s)
  OBVIOUS
<1> DEFINE P(m) == Len(f[m]) = m /\ \A i \in 1 .. m : f[m][i] = s[i]
           Good == {m \in Nat : m <= n => P(m)}
<1>3. P(0)
  BY <1>1 DEF Keeps
<1>4. ASSUME NEW m \in Nat, m + 1 <= n, P(m) PROVE P(m + 1)
  <2>1. PICK g, e : g = f[m] /\ e = s[m + 1]
    OBVIOUS
  <2>2. g \in Seq(A) /\ e \in A /\ f[m + 1] = Append(g, e)
    <3>1. /\ f[m] \in Seq(A) /\ s[m + 1] \in A
          /\ f[m + 1] = IF s[m + 1] \in S THEN Append(f[m], s[m + 1]) ELSE f[m]
      BY <1>1, <1>2, <1>4, KeepsStep
    <3> QED
      BY <2>1, <3>1
  <2>3. Len(g) = m /\ \A i \in 1 .. m : g[i] = s[i]
    BY <1>4, <2>1
  <2>4. /\ Len(Append(g, e)) = m + 1
        /\ Append(g, e)[m + 1] = e /\ \A i \in 1 .. m : Append(g, e)[i] = g[i]
    BY <2>2, <2>3
  <2>5. \A i \in 1 .. m + 1 : i = m + 1 \/ i \in 1 .. m
    OBVIOUS
  <2> QED
    BY <2>1, <2>2, <2>3, <2>4, <2>5
<1> HIDE DEF P
<1>5. \A m \in Nat : m \in Good => m + 1 \in Good
  BY <1>2, <1>4
<1>6. 0 \in Good
  BY <1>3
<1> HIDE DEF Good
<1>7. n \in Good
  BY <1>5, <1>6, NatSet
<1>8. P(n)
  BY <1>7 DEF Good
<1>9. PICK t : t = f[n]
  OBVIOUS
<1>10. t \in Seq(A) /\ Len(t) = n /\ \A i \in 1 .. n : t[i] = s[i]
  BY <1>1, <1>2, <1>8, <1>9 DEF P
<1>11. t = s
  BY <1>2, <1>10, SeqEqual
<1> QED
  BY <1>1, <1>2, <1>9, <1>11, FilterIs

\* The nodes up to n, in increasing order.
LEMMA UpToIs ==
    ASSUME NEW n \in Nat
    PROVE  /\ UpTo(n) \in Seq(1 .. n) /\ Len(UpTo(n)) = n
           /\ Elements(UpTo(n)) = 1 .. n
           /\ Increasing(UpTo(n))
           /\ UpTo(n + 1) = Append(UpTo(n), n + 1)
<1>1. UpTo(n) \in Seq(1 .. n) /\ Len(UpTo(n)) = n /\ \A j \in 1 .. n : UpTo(n)[j] = j
  BY DEF UpTo
<1>2. Elements(UpTo(n)) = 1 .. n
  BY <1>1 DEF Elements
<1>3. Increasing(UpTo(n))
  BY <1>1 DEF Increasing
<1>4. UpTo(n + 1) = Append(UpTo(n), n + 1)
  <2>1. UpTo(n + 1) \in Seq(Nat) /\ Len(UpTo(n + 1)) = n + 1 /\ \A j \in 1 .. n + 1 : UpTo(n + 1)[j] = j
    BY DEF UpTo
  <2> DEFINE t == Append(UpTo(n), n + 1)
  <2>2. t \in Seq(Nat) /\ Len(t) = n + 1 /\ \A j \in 1 .. n + 1 : t[j] = j
    BY <1>1
  <2> HIDE DEF t
  <2>3. UpTo(n + 1) = t
    BY <2>1, <2>2, SeqEqual
  <2> QED
    BY <2>3 DEF t
<1> QED
  BY <1>1, <1>2, <1>3, <1>4

\* The children of a node are the nodes with this parent, in their order.
LEMMA ChildrenAre ==
    ASSUME NEW p, IsTree(p), NEW k
    PROVE  /\ Children(p, k) \in Seq(DOMAIN p)
           /\ Elements(Children(p, k)) = {j \in DOMAIN p : p[j] = k}
           /\ Increasing(Children(p, k))
<1>1. PICK n \in Nat : n = Len(p) /\ DOMAIN p = 1 .. n
  BY DEF IsTree
<1> DEFINE S == {j \in 1 .. n : p[j] = k}
<1>2. Children(p, k) = Filter(UpTo(n), S)
  BY <1>1 DEF Children
<1> HIDE DEF S
<1>3. UpTo(n) \in Seq(1 .. n) /\ UpTo(n) \in Seq(Nat) /\ Elements(UpTo(n)) = 1 .. n /\ Increasing(UpTo(n))
  BY UpToIs, SeqMonotonic
<1>4. Filter(UpTo(n), S) \in Seq(1 .. n)
  BY <1>3, FilterType
<1>5. Elements(Filter(UpTo(n), S)) = (1 .. n) \cap S
  BY <1>3, FilterElements
<1>6. Increasing(Filter(UpTo(n), S))
  BY <1>3, FilterIncreasing
<1> QED
  BY <1>1, <1>2, <1>4, <1>5, <1>6 DEF S

-----------------------------------------------------------------------------

\* The nodes above a node are the nodes above its parent, and the parent; their
\* numbers are smaller than its own.
LEMMA AboveIs ==
    ASSUME NEW p, IsTree(p), NEW k \in DOMAIN p
    PROVE  /\ Above(p, k) \in Seq(1 .. k - 1)
           /\ p[k] = 0 => Above(p, k) = <<>>
           /\ p[k] # 0 => /\ p[k] \in 1 .. k - 1
                          /\ Above(p, k) = Append(Above(p, p[k]), p[k])
<1>1. PICK n \in Nat : n = Len(p) /\ DOMAIN p = 1 .. n
  BY DEF IsTree
<1>2. \A j \in 1 .. n : p[j] \in 0 .. j - 1
  BY <1>1 DEF IsTree
<1> DEFINE V == Seq(1 .. n)
           G == [c \in (1 .. n) \X V |-> IF p[c[1]] = 0 THEN <<>> ELSE Append(c[2], p[c[1]])]
           IsUp(u) == u = [j \in 1 .. n |-> IF p[j] = 0 THEN <<>> ELSE Append(u[p[j]], p[j])]
<1>3. \A j \in 1 .. n : \A v \in V : G[<<j, v>>] = IF p[j] = 0 THEN <<>> ELSE Append(v, p[j])
  OBVIOUS
<1>4. ASSUME NEW j \in 1 .. n, NEW v \in V PROVE G[<<j, v>>] \in V
  <2>1. CASE p[j] = 0
    <3>1. G[<<j, v>>] = <<>> /\ <<>> \in V
      BY <1>3, <2>1
    <3> QED
      BY <3>1
  <2>2. CASE p[j] # 0
    <3>1. p[j] \in 1 .. n
      BY <1>2, <2>2
    <3>2. Append(v, p[j]) \in V
      BY <3>1
    <3> QED
      BY <1>3, <2>2, <3>2
  <2> QED
    BY <2>1, <2>2
<1>5. <<>> \in V
  OBVIOUS
<1> HIDE DEF G, V, IsUp
<1>6. RecursiveStep(n, V, p, G)
  BY <1>2, <1>4 DEF RecursiveStep
<1>7. PICK f : SolvesRecursion(f, n, V, <<>>, p, G)
  BY <1>5, <1>6, Recursion
<1>8. \E u : IsUp(u)
  <2>1. PICK u : u = [j \in 1 .. n |-> f[j]]
    OBVIOUS
  <2>2. ASSUME NEW j \in 1 .. n PROVE u[j] = IF p[j] = 0 THEN <<>> ELSE Append(u[p[j]], p[j])
    <3>1. p[j] \in 0 .. n /\ f[p[j]] \in V /\ f[j] = G[<<j, f[p[j]]>>]
      BY <1>2, <1>7 DEF SolvesRecursion
    <3>2. u[j] = IF p[j] = 0 THEN <<>> ELSE Append(f[p[j]], p[j])
      BY <1>3, <2>1, <3>1
    <3>3. p[j] # 0 => u[p[j]] = f[p[j]]
      BY <2>1, <3>1
    <3> QED
      BY <3>2, <3>3
  <2>3. u = [j \in 1 .. n |-> IF p[j] = 0 THEN <<>> ELSE Append(u[p[j]], p[j])]
    BY <2>1, <2>2
  <2> QED
    BY <2>3 DEF IsUp
<1>9. PICK u : IsUp(u) /\ \A j : Above(p, j) = u[j]
  <2>1. IsUp(CHOOSE u : IsUp(u))
    BY <1>8
  <2>2. \A j : Above(p, j) = (CHOOSE u : IsUp(u))[j]
    BY <1>1 DEF Above, IsUp
  <2> QED
    BY <2>1, <2>2
<1>10. \A j \in 1 .. n : Above(p, j) = IF p[j] = 0 THEN <<>> ELSE Append(Above(p, p[j]), p[j])
  BY <1>9 DEF IsUp
<1> DEFINE Good == {j \in Nat : j \in 1 .. n => Above(p, j) \in Seq(1 .. j - 1)}
<1>11. ASSUME NEW j \in Nat, \A m \in Nat : m < j => m \in Good PROVE j \in Good
  <2> SUFFICES ASSUME j \in 1 .. n PROVE Above(p, j) \in Seq(1 .. j - 1)
    OBVIOUS
  <2>1. CASE p[j] = 0
    <3>1. Above(p, j) = <<>> /\ <<>> \in Seq(1 .. j - 1)
      BY <1>10, <2>1
    <3> QED
      BY <3>1
  <2>2. CASE p[j] # 0
    <3>1. PICK m \in Nat : m = p[j] /\ m \in 1 .. j - 1 /\ m \in 1 .. n
      BY <1>2, <2>2
    <3>2. Above(p, m) \in Seq(1 .. m - 1)
      BY <1>11, <3>1
    <3>3. 1 .. m - 1 \subseteq 1 .. j - 1
      BY <3>1
    <3>4. Above(p, m) \in Seq(1 .. j - 1)
      BY <3>2, <3>3, SeqMonotonic
    <3>5. Append(Above(p, m), m) \in Seq(1 .. j - 1)
      BY <3>1, <3>4
    <3> QED
      BY <1>10, <2>2, <3>1, <3>5
  <2> QED
    BY <2>1, <2>2
<1> HIDE DEF Good
<1>12. \A j \in Nat : j \in Good
  BY <1>11, NatSetStrong
<1>13. k \in 1 .. n /\ k \in Nat
  BY <1>1
<1>14. Above(p, k) \in Seq(1 .. k - 1)
  BY <1>12, <1>13 DEF Good
<1> QED
  BY <1>2, <1>10, <1>13, <1>14

-----------------------------------------------------------------------------
(* The walk.                                                               *)

\* The frames of a rule inside of a node.
Inner(r, n) ==
    IF Class(tree, n) \in Branches \/ (Class(tree, n) = "rescue" /\ Frames[r] = "clause")
    THEN Append(ParserAncestors(r, n), n) ELSE ParserAncestors(r, n)

\* The calls the visitor makes.
Calls ==
    {c \in {"visit", "leave", "leaveRescue"} \X Nodes :
        /\ c[1] = "leave" => Class(tree, c[2]) \in Branches
        /\ c[1] = "leaveRescue" => Class(tree, c[2]) = "rescue"}

\* The frames a call is made under.
Wanted(r, c) == IF c[1] = "visit" THEN ParserAncestors(r, c[2]) ELSE Inner(r, c[2])

\* From the frames a, the calls lead to the frames b.
Leads(r, calls, a, b) ==
    /\ calls = <<>> => a = b
    /\ calls # <<>> =>
          /\ Wanted(r, calls[1]) = a
          /\ ParserAncestors(r, calls[Len(calls)][2]) = b
          /\ \A i \in 1 .. Len(calls) - 1 : ParserAncestors(r, calls[i][2]) = Wanted(r, calls[i + 1])

FramesInv ==
    \A r \in Rules : IF r \in KeepFrames THEN Leads(r, todo, frames[r], <<>>) ELSE frames[r] = <<>>

\* The nodes still to visit.
Pending(calls) == {calls[i][2] : i \in {j \in 1 .. Len(calls) : calls[j][1] = "visit"}}

Ordered(calls) ==
    \A i, j \in 1 .. Len(calls) :
        i < j /\ calls[i][1] = "visit" /\ calls[j][1] = "visit" => calls[i][2] < calls[j][2]

\* Just the first m nodes are entered.
OrderInv(calls, m) ==
    /\ Ordered(calls)
    /\ \A w \in Pending(calls) : w > m /\ tree.parent[w] <= m
    /\ \A k \in m + 1 .. Len(tree.parent) : tree.parent[k] > m \/ k \in Pending(calls)

Mine(r) == {n \in Nodes : Kind(n) \in Reports[r]}

Told(r, ns) ==
    [i \in DOMAIN ns |-> <<ns[i], IF Frames[r] = "none" THEN <<>> ELSE ParserAncestors(r, ns[i])>>]

ReportsInv(m) == \A r \in Rules : reports[r] = Told(r, Filter(UpTo(m), Mine(r)))

WalkInv ==
    /\ TypeOK
    /\ tree \in Shapes
    /\ todo \in Seq(Calls)
    /\ FramesInv
    /\ \E m \in 0 .. Len(tree.parent) : OrderInv(todo, m) /\ ReportsInv(m)

-----------------------------------------------------------------------------
(* Trees of the walk.                                                      *)

\* What an assumption says of the tree that is walked.
LEMMA TreeFacts ==
    ASSUME tree \in Shapes
    PROVE  /\ IsTree(tree.parent)
           /\ Len(tree.parent) \in Nat \ {0} /\ Nodes = 1 .. Len(tree.parent)
           /\ Len(tree.kind) = Len(tree.parent)
           /\ tree.kind \in Seq(DOMAIN ClassOf)
           /\ tree.parent[1] = 0
           /\ \A k \in 2 .. Len(tree.parent) :
                 /\ tree.parent[k] \in 1 .. k - 1
                 /\ \A j \in tree.parent[k] + 1 .. k : tree.parent[j] >= tree.parent[k]
<1>1. WellFormed(tree)
  BY ShapesAssumption
<1> QED
  BY <1>1 DEF WellFormed, IsTree, Nodes

\* A later clause is the last child of the clause it follows.
LEMMA ClauseFacts ==
    ASSUME tree \in Shapes, NEW n \in Nodes, NEW k \in Subsequents(tree, n)
    PROVE  /\ k \in Nodes /\ tree.parent[k] = n
           /\ Class(tree, n) = "rescue" /\ Class(tree, k) = "rescue"
           /\ \A j \in Nodes : tree.parent[j] = n => j <= k
<1>1. WellFormed(tree)
  BY ShapesAssumption
<1>2. k \in Nodes /\ tree.parent[k] = n /\ Class(tree, n) = "rescue" /\ Class(tree, k) = "rescue"
  BY DEF Subsequents, Nodes
<1>3. k \in 2 .. Len(tree.kind)
  BY <1>2, TreeFacts
<1>4. \A j \in k + 1 .. Len(tree.kind) : tree.parent[j] # n
  <2>1. k \in Subsequents(tree, tree.parent[k])
    BY <1>2
  <2>2. \A j \in k + 1 .. Len(tree.kind) : tree.parent[j] # tree.parent[k]
    BY <1>1, <1>3, <2>1 DEF WellFormed
  <2> QED
    BY <1>2, <2>2
<1> QED
  BY <1>2, <1>3, <1>4, TreeFacts

\* The nodes of the parser gem above n.
Kept(n) ==
    {k \in Nodes :
        \/ Class(tree, k) \in Branches
        \/ /\ Class(tree, k) = "rescue" /\ n \notin Subsequents(tree, k)
           /\ ~\E j \in DOMAIN Above(tree.parent, n) : Above(tree.parent, n)[j] \in Subsequents(tree, k)}

\* ParserAbove keeps just these nodes of the path from the root.
LEMMA ParserAboveIs ==
    ASSUME NEW n
    PROVE  ParserAbove(n) = Filter(Above(tree.parent, n), Kept(n))
BY DEF ParserAbove, Kept

\* Going to a child, the frame of the parent comes on top, unless no hook tells
\* of the parent or the child is the clause after it.
LEMMA ParserAboveStep ==
    ASSUME tree \in Shapes, NEW c \in Nodes, tree.parent[c] # 0
    PROVE  LET n == tree.parent[c] IN
           /\ n \in Nodes
           /\ ParserAbove(c) =
                 IF \/ Class(tree, n) \in Branches
                    \/ Class(tree, n) = "rescue" /\ c \notin Subsequents(tree, n)
                 THEN Append(ParserAbove(n), n) ELSE ParserAbove(n)
<1>1. PICK n : n = tree.parent[c] /\ n \in Nodes /\ n < c /\ n \in Nat /\ c \in Nat
  <2>1. c \in 2 .. Len(tree.parent)
    BY TreeFacts
  <2>2. tree.parent[c] \in 1 .. c - 1
    BY <2>1, TreeFacts
  <2>3. tree.parent[c] \in Nodes
    BY <2>1, <2>2, TreeFacts
  <2> QED
    BY <2>1, <2>2, <2>3
<1>2. PICK p : p = tree.parent /\ IsTree(p) /\ c \in DOMAIN p /\ n \in DOMAIN p
  BY <1>1, TreeFacts DEF Nodes
<1>3. /\ Above(p, n) \in Seq(1 .. n - 1)
      /\ Above(p, c) = Append(Above(p, n), n)
  BY <1>1, <1>2, AboveIs
<1>4. PICK s : s = Above(p, n)
  OBVIOUS
<1>5. /\ s \in Seq(1 .. n - 1) /\ s \in Seq(1 .. n) /\ Append(s, n) \in Seq(1 .. n)
      /\ Len(s) \in Nat /\ DOMAIN s = 1 .. Len(s) /\ DOMAIN Append(s, n) = 1 .. Len(s) + 1
      /\ \A i \in DOMAIN s : Append(s, n)[i] = s[i]
      /\ Append(s, n)[Len(s) + 1] = n
  <2>1. s \in Seq(1 .. n)
    BY <1>1, <1>3, <1>4, SeqMonotonic
  <2> QED
    BY <1>1, <1>3, <1>4, <2>1
<1>6. \A k \in Nodes : k \in Nat /\ \A x \in Subsequents(tree, k) : tree.parent[x] = k /\ k < x
  <2> SUFFICES ASSUME NEW k \in Nodes, NEW x \in Subsequents(tree, k)
               PROVE  tree.parent[x] = k /\ k < x
    BY TreeFacts
  <2>1. x \in Nodes /\ tree.parent[x] = k
    BY ClauseFacts
  <2> QED
    BY <2>1, TreeFacts
<1>7. ASSUME NEW k \in 1 .. n - 1
      PROVE  k \in Kept(c) <=> k \in Kept(n)
  <2>1. k \in Nodes
    BY <1>1, TreeFacts
  <2>2. c \notin Subsequents(tree, k)
    BY <1>1, <1>6, <2>1
  <2>3. (\E j \in DOMAIN Append(s, n) : Append(s, n)[j] \in Subsequents(tree, k))
          <=> n \in Subsequents(tree, k) \/ \E j \in DOMAIN s : s[j] \in Subsequents(tree, k)
    BY <1>5
  <2> QED
    BY <1>2, <1>3, <1>4, <2>1, <2>2, <2>3 DEF Kept
<1>8. n \in Kept(c) <=> \/ Class(tree, n) \in Branches
                        \/ Class(tree, n) = "rescue" /\ c \notin Subsequents(tree, n)
  <2>1. ASSUME NEW j \in DOMAIN Append(s, n) PROVE Append(s, n)[j] \notin Subsequents(tree, n)
    <3>1. Append(s, n)[j] \in 1 .. n
      BY <1>5
    <3> QED
      BY <1>1, <1>6, <3>1
  <2> QED
    BY <1>1, <1>2, <1>3, <1>4, <2>1 DEF Kept
<1>9. Filter(s, Kept(c)) = Filter(s, Kept(n))
  <2>1. PICK A, K, L : A = 1 .. n - 1 /\ K = Kept(c) /\ L = Kept(n)
    OBVIOUS
  <2>2. s \in Seq(A) /\ \A a \in A : a \in K <=> a \in L
    BY <1>5, <1>7, <2>1
  <2>3. Filter(s, K) = Filter(s, L)
    BY <2>2, FilterSame
  <2> QED
    BY <2>1, <2>3
<1>10. Filter(Append(s, n), Kept(c)) =
          IF n \in Kept(c) THEN Append(Filter(s, Kept(c)), n) ELSE Filter(s, Kept(c))
  <2>1. s \in Seq(1 .. n) /\ n \in 1 .. n
    BY <1>1, <1>5, TreeFacts
  <2> QED
    BY <2>1, FilterAppend
<1> QED
  BY <1>1, <1>2, <1>3, <1>4, <1>8, <1>9, <1>10, ParserAboveIs

\* The ancestors of a node are a sequence of nodes.
LEMMA ParserAboveType ==
    ASSUME tree \in Shapes, NEW n \in Nodes
    PROVE  ParserAbove(n) \in Seq(Nodes)
<1>1. IsTree(tree.parent) /\ n \in DOMAIN tree.parent /\ n \in 1 .. Len(tree.parent)
  BY TreeFacts DEF Nodes
<1>2. Above(tree.parent, n) \in Seq(1 .. n - 1)
  BY <1>1, AboveIs
<1>3. 1 .. n - 1 \subseteq Nodes
  BY <1>1, TreeFacts
<1>4. Above(tree.parent, n) \in Seq(Nodes)
  BY <1>2, <1>3, SeqMonotonic
<1> QED
  BY <1>4, ParserAboveIs, FilterType

\* The ancestors of a node have smaller numbers.
LEMMA AboveSmaller ==
    ASSUME tree \in Shapes, NEW n \in Nodes
    PROVE  ParserAbove(n) \in Seq(1 .. n - 1)
<1>1. IsTree(tree.parent) /\ n \in DOMAIN tree.parent
  BY TreeFacts DEF Nodes
<1>2. Above(tree.parent, n) \in Seq(1 .. n - 1)
  BY <1>1, AboveIs
<1> QED
  BY <1>2, ParserAboveIs, FilterType

\* The same for the ancestors a rule keeps frames of.
LEMMA AncestorsStep ==
    ASSUME tree \in Shapes, NEW r, NEW c \in Nodes, tree.parent[c] # 0
    PROVE  LET n == tree.parent[c] IN
           ParserAncestors(r, c) =
              IF c \in Subsequents(tree, n) THEN ParserAncestors(r, n) ELSE Inner(r, n)
<1> DEFINE n == tree.parent[c]
           K == {k \in Nodes : Frames[r] = "clause" \/ Class(tree, k) # "rescue"}
<1> SUFFICES ParserAncestors(r, c) =
                IF c \in Subsequents(tree, n) THEN ParserAncestors(r, n) ELSE Inner(r, n)
  OBVIOUS
<1>1. /\ n \in Nodes
      /\ ParserAbove(c) =
            IF \/ Class(tree, n) \in Branches
               \/ Class(tree, n) = "rescue" /\ c \notin Subsequents(tree, n)
            THEN Append(ParserAbove(n), n) ELSE ParserAbove(n)
  BY ParserAboveStep
<1>2. ParserAbove(n) \in Seq(Nodes)
  BY <1>1, ParserAboveType
<1>3. /\ ParserAncestors(r, n) = Filter(ParserAbove(n), K)
      /\ ParserAncestors(r, c) = Filter(ParserAbove(c), K)
  BY DEF ParserAncestors
<1>4. c \in Subsequents(tree, n) => Class(tree, n) = "rescue"
  BY DEF Subsequents
<1>5. "rescue" \notin Branches
  BY DEF Branches, ClassIndex
<1> HIDE DEF K, n
<1>6. Filter(Append(ParserAbove(n), n), K) =
         IF n \in K THEN Append(Filter(ParserAbove(n), K), n) ELSE Filter(ParserAbove(n), K)
  BY <1>1, <1>2, FilterAppend
<1>7. n \in K <=> Frames[r] = "clause" \/ Class(tree, n) # "rescue"
  BY <1>1 DEF K
<1>8. CASE Class(tree, n) \in Branches
  BY <1>1, <1>3, <1>4, <1>5, <1>6, <1>7, <1>8 DEF Inner
<1>9. CASE Class(tree, n) = "rescue" /\ c \notin Subsequents(tree, n)
  BY <1>1, <1>3, <1>4, <1>5, <1>6, <1>7, <1>9 DEF Inner
<1>10. CASE Class(tree, n) \notin Branches /\ c \in Subsequents(tree, n)
  BY <1>1, <1>3, <1>4, <1>5, <1>6, <1>7, <1>10 DEF Inner
<1>11. CASE Class(tree, n) \notin Branches /\ Class(tree, n) # "rescue"
  BY <1>1, <1>3, <1>4, <1>5, <1>6, <1>7, <1>11 DEF Inner
<1> QED
  BY <1>8, <1>9, <1>10, <1>11

\* There is nothing above the root.
LEMMA AncestorsOfRoot ==
    ASSUME tree \in Shapes, NEW r
    PROVE  ParserAncestors(r, 1) = <<>>
<1>1. 1 \in DOMAIN tree.parent /\ tree.parent[1] = 0 /\ IsTree(tree.parent)
  BY TreeFacts DEF Nodes
<1>2. Above(tree.parent, 1) = <<>>
  BY <1>1, AboveIs
<1>3. ParserAbove(1) = <<>>
  BY <1>2, ParserAboveIs, FilterEmpty
<1> QED
  BY <1>3, FilterEmpty DEF ParserAncestors

\* Ancestors are nodes.
LEMMA AncestorsType ==
    ASSUME tree \in Shapes, NEW r, NEW n \in Nodes
    PROVE  ParserAncestors(r, n) \in Seq(Nodes)
<1>1. ParserAbove(n) \in Seq(Nodes)
  BY ParserAboveType
<1> QED
  BY <1>1, FilterType DEF ParserAncestors

-----------------------------------------------------------------------------
(* Sequences of calls.                                                     *)

\* Calls put before others.
LEMMA ConcatIs ==
    ASSUME NEW C, NEW x \in Seq(C), NEW y \in Seq(C)
    PROVE  /\ x \o y \in Seq(C) /\ Len(x \o y) = Len(x) + Len(y)
           /\ Len(x) \in Nat /\ Len(y) \in Nat
           /\ \A i \in 1 .. Len(x) : (x \o y)[i] = x[i]
           /\ \A i \in 1 .. Len(y) : (x \o y)[Len(x) + i] = y[i]
           /\ \A i \in 1 .. Len(x) + Len(y) :
                 i \in 1 .. Len(x) \/ \E j \in 1 .. Len(y) : i = Len(x) + j
<1>1. /\ x \o y \in Seq(C) /\ Len(x \o y) = Len(x) + Len(y)
      /\ \A i \in 1 .. Len(x) + Len(y) :
            (x \o y)[i] = IF i <= Len(x) THEN x[i] ELSE y[i - Len(x)]
  BY ConcatProperties
<1>2. PICK m \in Nat : m = Len(x)
  OBVIOUS
<1>3. PICK k \in Nat : k = Len(y)
  OBVIOUS
<1>4. \A i \in 1 .. m : (x \o y)[i] = x[i]
  BY <1>1, <1>2, <1>3
<1>5. ASSUME NEW i \in 1 .. k PROVE (x \o y)[m + i] = y[i]
  <2>1. m + i \in 1 .. m + k /\ ~(m + i <= m) /\ (m + i) - m = i
    OBVIOUS
  <2> QED
    BY <1>1, <1>2, <1>3, <2>1
<1>6. ASSUME NEW i \in 1 .. m + k, i \notin 1 .. m PROVE \E j \in 1 .. k : i = m + j
  <2>1. i - m \in 1 .. k /\ i = m + (i - m)
    BY <1>6
  <2> QED
    BY <2>1
<1> QED
  BY <1>1, <1>2, <1>3, <1>4, <1>5, <1>6

\* Calls that follow one another.
LEMMA LeadsConcat ==
    ASSUME NEW C, NEW x \in Seq(C), NEW y \in Seq(C), NEW r, NEW a, NEW b, NEW c,
           Leads(r, x, a, b), Leads(r, y, b, c)
    PROVE  Leads(r, x \o y, a, c)
<1>1. CASE x = <<>>
  <2>1. x \o y = y /\ a = b
    BY <1>1 DEF Leads
  <2> QED
    BY <2>1
<1>2. CASE y = <<>>
  <2>1. x \o y = x /\ b = c
    BY <1>2 DEF Leads
  <2> QED
    BY <2>1
<1>3. CASE x # <<>> /\ y # <<>>
  <2>1. PICK z, m, k : z = x \o y /\ m = Len(x) /\ k = Len(y)
    OBVIOUS
  <2>2. /\ m \in Nat \ {0} /\ k \in Nat \ {0} /\ Len(z) = m + k /\ z # <<>>
        /\ \A i \in 1 .. m : z[i] = x[i]
        /\ \A i \in 1 .. k : z[m + i] = y[i]
    BY <1>3, <2>1, ConcatIs
  <2>3. /\ Wanted(r, x[1]) = a /\ ParserAncestors(r, x[m][2]) = b
        /\ \A i \in 1 .. m - 1 : ParserAncestors(r, x[i][2]) = Wanted(r, x[i + 1])
    BY <1>3, <2>1 DEF Leads
  <2>4. /\ Wanted(r, y[1]) = b /\ ParserAncestors(r, y[k][2]) = c
        /\ \A i \in 1 .. k - 1 : ParserAncestors(r, y[i][2]) = Wanted(r, y[i + 1])
    BY <1>3, <2>1 DEF Leads
  <2>5. Wanted(r, z[1]) = a
    BY <2>2, <2>3
  <2>6. ParserAncestors(r, z[m + k][2]) = c
    BY <2>2, <2>4
  <2>7. ASSUME NEW i \in 1 .. m + k - 1
        PROVE  ParserAncestors(r, z[i][2]) = Wanted(r, z[i + 1])
    <3>1. CASE i \in 1 .. m - 1
      <4>1. z[i] = x[i] /\ z[i + 1] = x[i + 1]
        BY <2>2, <3>1
      <4> QED
        BY <2>3, <3>1, <4>1
    <3>2. CASE i = m
      <4>1. z[m] = x[m] /\ z[m + 1] = y[1]
        BY <2>2
      <4> QED
        BY <2>3, <2>4, <3>2, <4>1
    <3>3. CASE i > m
      <4>1. PICK j \in 1 .. k - 1 : i = m + j
        <5>1. i - m \in 1 .. k - 1 /\ i = m + (i - m)
          BY <2>2, <3>3
        <5> QED
          BY <5>1
      <4>2. z[i] = y[j] /\ z[i + 1] = y[j + 1]
        <5>1. j \in 1 .. k /\ j + 1 \in 1 .. k /\ i + 1 = m + (j + 1)
          BY <2>2, <4>1
        <5> QED
          BY <2>2, <4>1, <5>1
      <4> QED
        BY <2>4, <4>2
    <3> QED
      BY <2>2, <3>1, <3>2, <3>3
  <2> QED
    BY <2>1, <2>2, <2>5, <2>6, <2>7 DEF Leads
<1> QED
  BY <1>1, <1>2, <1>3

\* Calls that all are made under a and leave a.
LEMMA LeadsSame ==
    ASSUME NEW C, NEW x \in Seq(C), NEW r, NEW a,
           \A i \in 1 .. Len(x) : Wanted(r, x[i]) = a /\ ParserAncestors(r, x[i][2]) = a
    PROVE  Leads(r, x, a, a)
<1>1. PICK m \in Nat : m = Len(x) /\ (x # <<>> => m > 0)
  OBVIOUS
<1>2. \A i \in 1 .. m : Wanted(r, x[i]) = a /\ ParserAncestors(r, x[i][2]) = a
  BY <1>1
<1>3. ASSUME x # <<>>
      PROVE  /\ Wanted(r, x[1]) = a /\ ParserAncestors(r, x[m][2]) = a
             /\ \A i \in 1 .. m - 1 : ParserAncestors(r, x[i][2]) = Wanted(r, x[i + 1])
  <2>1. 1 \in 1 .. m /\ m \in 1 .. m
    BY <1>1, <1>3
  <2>2. ASSUME NEW i \in 1 .. m - 1 PROVE ParserAncestors(r, x[i][2]) = Wanted(r, x[i + 1])
    <3>1. i \in 1 .. m /\ i + 1 \in 1 .. m
      OBVIOUS
    <3> QED
      BY <1>2, <3>1
  <2> QED
    BY <1>2, <2>1, <2>2
<1> QED
  BY <1>1, <1>3 DEF Leads

\* A single call leads from the frames it is made under to those above its node.
LEMMA LeadsOne ==
    ASSUME NEW r, NEW c
    PROVE  Leads(r, <<c>>, Wanted(r, c), ParserAncestors(r, c[2]))
BY DEF Leads

\* The calls after the first.
LEMMA LeadsTail ==
    ASSUME NEW C, NEW x \in Seq(C), x # <<>>, NEW r, NEW a, NEW b, Leads(r, x, a, b)
    PROVE  /\ Wanted(r, Head(x)) = a
           /\ Leads(r, Tail(x), ParserAncestors(r, Head(x)[2]), b)
<1>1. PICK m, h, y : m = Len(x) /\ h = Head(x) /\ y = Tail(x)
  OBVIOUS
<1>2. /\ m \in Nat \ {0} /\ h = x[1] /\ y \in Seq(C) /\ Len(y) = m - 1
      /\ \A i \in 1 .. m - 1 : y[i] = x[i + 1]
      /\ y # <<>> <=> m # 1
  <2>1. /\ Head(x) \in C /\ Tail(x) \in Seq(C) /\ Len(Tail(x)) = Len(x) - 1
        /\ \A i \in 1 .. Len(Tail(x)) : Tail(x)[i] = x[i + 1]
    BY HeadTailProperties
  <2>2. m \in Nat /\ m # 0
    BY <1>1, EmptySeq
  <2>3. h = x[1]
    BY <1>1
  <2>4. y # <<>> <=> Len(y) # 0
    BY <1>1, <2>1, EmptySeq
  <2> QED
    BY <1>1, <2>1, <2>2, <2>3, <2>4
<1>3. /\ Wanted(r, x[1]) = a /\ ParserAncestors(r, x[m][2]) = b
      /\ \A i \in 1 .. m - 1 : ParserAncestors(r, x[i][2]) = Wanted(r, x[i + 1])
  BY <1>1 DEF Leads
<1>4. CASE m = 1
  BY <1>1, <1>2, <1>3, <1>4 DEF Leads
<1>5. CASE m # 1
  <2>1. Wanted(r, y[1]) = ParserAncestors(r, h[2])
    <3>1. 1 \in 1 .. m - 1 /\ y[1] = x[1 + 1]
      BY <1>2, <1>5
    <3> QED
      BY <1>2, <1>3, <3>1
  <2>2. ParserAncestors(r, y[m - 1][2]) = b
    <3>1. m - 1 \in 1 .. m - 1 /\ (m - 1) + 1 = m
      BY <1>2, <1>5
    <3> QED
      BY <1>2, <1>3, <3>1
  <2>3. ASSUME NEW i \in 1 .. m - 2
        PROVE  ParserAncestors(r, y[i][2]) = Wanted(r, y[i + 1])
    <3>1. i \in 1 .. m - 1 /\ i + 1 \in 1 .. m - 1
      BY <1>2
    <3>2. y[i] = x[i + 1] /\ y[i + 1] = x[(i + 1) + 1]
      BY <1>2, <3>1
    <3> QED
      BY <1>3, <3>1, <3>2
  <2>4. (m - 1) - 1 = m - 2
    BY <1>2
  <2> QED
    BY <1>1, <1>2, <1>3, <1>5, <2>1, <2>2, <2>3, <2>4 DEF Leads
<1> QED
  BY <1>4, <1>5

\* The first call is made, and puts others in its place.
LEMMA LeadsReplace ==
    ASSUME NEW C, NEW x \in Seq(C), x # <<>>, NEW new \in Seq(C), NEW r, NEW a, NEW b, NEW d,
           Leads(r, x, a, b), Leads(r, new, d, ParserAncestors(r, Head(x)[2]))
    PROVE  Leads(r, new \o Tail(x), d, b)
<1>1. Leads(r, Tail(x), ParserAncestors(r, Head(x)[2]), b)
  BY LeadsTail
<1>2. Tail(x) \in Seq(C)
  OBVIOUS
<1> QED
  BY <1>1, <1>2, LeadsConcat

-----------------------------------------------------------------------------

\* What is pending in a concatenation is pending in one of its parts.
LEMMA PendingConcat ==
    ASSUME NEW C, NEW x \in Seq(C), NEW y \in Seq(C)
    PROVE  Pending(x \o y) = Pending(x) \cup Pending(y)
<1>1. PICK z, m, k : z = x \o y /\ m = Len(x) /\ k = Len(y)
  OBVIOUS
<1>2. /\ m \in Nat /\ k \in Nat /\ Len(z) = m + k
      /\ \A i \in 1 .. m : z[i] = x[i]
      /\ \A i \in 1 .. k : z[m + i] = y[i]
      /\ \A i \in 1 .. m + k : i \in 1 .. m \/ \E j \in 1 .. k : i = m + j
  BY <1>1, ConcatIs
<1>3. ASSUME NEW i \in 1 .. m + k, z[i][1] = "visit" PROVE z[i][2] \in Pending(x) \cup Pending(y)
  <2>1. CASE i \in 1 .. m
    BY <1>1, <1>2, <1>3, <2>1 DEF Pending
  <2>2. ASSUME NEW j \in 1 .. k, i = m + j PROVE z[i][2] \in Pending(y)
    BY <1>1, <1>2, <1>3, <2>2 DEF Pending
  <2> QED
    BY <1>2, <2>1, <2>2
<1>4. ASSUME NEW i \in 1 .. m, x[i][1] = "visit" PROVE x[i][2] \in Pending(z)
  <2>1. i \in 1 .. m + k /\ z[i] = x[i]
    BY <1>2
  <2> QED
    BY <1>2, <1>4, <2>1 DEF Pending
<1>5. ASSUME NEW i \in 1 .. k, y[i][1] = "visit" PROVE y[i][2] \in Pending(z)
  <2>1. m + i \in 1 .. m + k /\ z[m + i] = y[i]
    BY <1>2
  <2> QED
    BY <1>2, <1>5, <2>1 DEF Pending
<1>6. Pending(z) \subseteq Pending(x) \cup Pending(y)
  <2> SUFFICES ASSUME NEW i \in 1 .. Len(z), z[i][1] = "visit"
               PROVE  z[i][2] \in Pending(x) \cup Pending(y)
    BY DEF Pending
  <2> QED
    BY <1>2, <1>3
<1>7. Pending(x) \subseteq Pending(z)
  BY <1>1, <1>4 DEF Pending
<1>8. Pending(y) \subseteq Pending(z)
  BY <1>1, <1>5 DEF Pending
<1> QED
  BY <1>1, <1>6, <1>7, <1>8

\* All of the first calls are for earlier nodes than all of the last.
LEMMA OrderedConcat ==
    ASSUME NEW C, NEW x \in Seq(C), NEW y \in Seq(C), Ordered(x), Ordered(y),
           \A v \in Pending(x) : \A w \in Pending(y) : v < w
    PROVE  Ordered(x \o y)
<1>1. PICK z, m, k : z = x \o y /\ m = Len(x) /\ k = Len(y)
  OBVIOUS
<1>2. /\ m \in Nat /\ k \in Nat /\ Len(z) = m + k
      /\ \A i \in 1 .. m : z[i] = x[i]
      /\ \A i \in 1 .. k : z[m + i] = y[i]
      /\ \A i \in 1 .. m + k : i \in 1 .. m \/ \E j \in 1 .. k : i = m + j
  <2>1. /\ Len(x \o y) = Len(x) + Len(y) /\ Len(x) \in Nat /\ Len(y) \in Nat
        /\ \A i \in 1 .. Len(x) : (x \o y)[i] = x[i]
        /\ \A i \in 1 .. Len(y) : (x \o y)[Len(x) + i] = y[i]
        /\ \A i \in 1 .. Len(x) + Len(y) :
              i \in 1 .. Len(x) \/ \E j \in 1 .. Len(y) : i = Len(x) + j
    BY ConcatIs
  <2> QED
    BY <1>1, <2>1
<1>3. ASSUME NEW i \in 1 .. m + k, NEW j \in 1 .. m + k, i < j,
             z[i][1] = "visit", z[j][1] = "visit"
      PROVE  z[i][2] < z[j][2]
  <2>1. CASE i \in 1 .. m /\ j \in 1 .. m
    BY <1>1, <1>2, <1>3, <2>1 DEF Ordered
  <2>2. ASSUME i \in 1 .. m, NEW q \in 1 .. k, j = m + q PROVE z[i][2] < z[j][2]
    <3>1. z[i][2] \in Pending(x)
      BY <1>1, <1>2, <1>3, <2>2 DEF Pending
    <3>2. z[j][2] \in Pending(y)
      BY <1>1, <1>2, <1>3, <2>2 DEF Pending
    <3> QED
      BY <3>1, <3>2
  <2>3. ASSUME NEW p \in 1 .. k, i = m + p, NEW q \in 1 .. k, j = m + q PROVE z[i][2] < z[j][2]
    <3>1. p < q /\ z[i] = y[p] /\ z[j] = y[q]
      BY <1>2, <1>3, <2>3
    <3> QED
      BY <1>1, <1>3, <3>1 DEF Ordered
  <2>4. ASSUME NEW p \in 1 .. k, i = m + p PROVE j \notin 1 .. m
    BY <1>2, <1>3, <2>4
  <2> QED
    BY <1>2, <2>1, <2>2, <2>3, <2>4
<1> QED
  BY <1>1, <1>2, <1>3 DEF Ordered

\* The calls that visit nodes, one after the other.
LEMMA VisitsAre ==
    ASSUME NEW ns \in Seq(Nodes)
    PROVE  /\ Visits(ns) \in Seq(Calls) /\ Len(Visits(ns)) = Len(ns)
           /\ \A i \in 1 .. Len(ns) : Visits(ns)[i] = <<"visit", ns[i]>>
           /\ Pending(Visits(ns)) = Elements(ns)
           /\ Increasing(ns) => Ordered(Visits(ns))
<1>1. PICK n \in Nat : n = Len(ns) /\ DOMAIN ns = 1 .. n
  OBVIOUS
<1>2. PICK v : v = Visits(ns)
  OBVIOUS
<1>3. v = [i \in 1 .. n |-> <<"visit", ns[i]>>]
  BY <1>1, <1>2 DEF Visits
<1>4. \A i \in 1 .. n : v[i] = <<"visit", ns[i]>> /\ v[i] \in Calls
  BY <1>1, <1>3 DEF Calls
<1>5. v \in Seq(Calls) /\ Len(v) = n
  BY <1>3, <1>4
<1>6. Pending(v) = Elements(ns)
  <2>1. {j \in 1 .. Len(v) : v[j][1] = "visit"} = 1 .. n
    BY <1>4, <1>5
  <2>2. Pending(v) = {v[i][2] : i \in 1 .. n}
    BY <2>1 DEF Pending
  <2>3. {v[i][2] : i \in 1 .. n} = {ns[i] : i \in 1 .. n}
    BY <1>4
  <2> QED
    BY <1>1, <2>2, <2>3 DEF Elements
<1>7. Increasing(ns) => Ordered(v)
  BY <1>1, <1>4, <1>5 DEF Increasing, Ordered
<1> QED
  BY <1>1, <1>2, <1>4, <1>5, <1>6, <1>7

\* A call that visits nothing.
LEMMA LeaveIs ==
    ASSUME NEW c, c[1] # "visit"
    PROVE  Pending(<<c>>) = {} /\ Ordered(<<c>>)
BY DEF Pending, Ordered

\* The nodes still to visit once the first call is made.
LEMMA PendingTail ==
    ASSUME NEW C, NEW x \in Seq(C), x # <<>>
    PROVE  /\ Ordered(x) => Ordered(Tail(x))
           /\ Head(x)[1] = "visit" =>
                 /\ Pending(x) = {Head(x)[2]} \cup Pending(Tail(x))
                 /\ Ordered(x) => \A w \in Pending(Tail(x)) : Head(x)[2] < w
           /\ Head(x)[1] # "visit" => Pending(x) = Pending(Tail(x))
<1>1. PICK m, h, y : m = Len(x) /\ h = Head(x) /\ y = Tail(x)
  OBVIOUS
<1>2. /\ y \in Seq(C) /\ Len(y) = m - 1
      /\ \A i \in 1 .. m - 1 : y[i] = x[i + 1]
  BY <1>1, HeadTailProperties
<1>3. m \in Nat \ {0} /\ h = x[1]
  BY <1>1, EmptySeq
<1>4. Ordered(x) => Ordered(y)
  <2> SUFFICES ASSUME Ordered(x), NEW i \in 1 .. m - 1, NEW j \in 1 .. m - 1, i < j,
                      y[i][1] = "visit", y[j][1] = "visit"
               PROVE  y[i][2] < y[j][2]
    BY <1>2 DEF Ordered
  <2>1. i + 1 \in 1 .. m /\ j + 1 \in 1 .. m /\ i + 1 < j + 1
    BY <1>3
  <2>2. y[i] = x[i + 1] /\ y[j] = x[j + 1]
    BY <1>2
  <2> QED
    BY <1>1, <2>1, <2>2 DEF Ordered
<1>5. ASSUME NEW i \in 1 .. m - 1, y[i][1] = "visit" PROVE y[i][2] \in Pending(x)
  <2>1. i + 1 \in 1 .. m /\ y[i] = x[i + 1]
    BY <1>2, <1>3
  <2> QED
    BY <1>1, <1>5, <2>1 DEF Pending
<1>6. Pending(y) \subseteq Pending(x)
  <2> SUFFICES ASSUME NEW i \in 1 .. Len(y), y[i][1] = "visit" PROVE y[i][2] \in Pending(x)
    BY DEF Pending
  <2> QED
    BY <1>2, <1>5
<1>7. ASSUME NEW i \in 2 .. m, x[i][1] = "visit" PROVE x[i][2] \in Pending(y)
  <2>1. i - 1 \in 1 .. m - 1 /\ y[i - 1] = x[i]
    BY <1>2, <1>3
  <2> QED
    BY <1>2, <1>7, <2>1 DEF Pending
<1>8. ASSUME NEW w \in Pending(x) PROVE w \in Pending(y) \/ (h[1] = "visit" /\ w = h[2])
  <2>1. PICK i \in 1 .. m : x[i][1] = "visit" /\ w = x[i][2]
    BY <1>1 DEF Pending
  <2>2. i = 1 \/ i \in 2 .. m
    BY <1>3
  <2> QED
    BY <1>3, <1>7, <2>1, <2>2
<1>9. ASSUME h[1] = "visit" PROVE h[2] \in Pending(x)
  <2>1. 1 \in 1 .. m
    BY <1>3
  <2> QED
    BY <1>1, <1>3, <1>9, <2>1 DEF Pending
<1>10. ASSUME h[1] = "visit", Ordered(x), NEW w \in Pending(y) PROVE h[2] < w
  <2>1. PICK i \in 1 .. m - 1 : y[i][1] = "visit" /\ w = y[i][2]
    BY <1>2 DEF Pending
  <2>2. 1 \in 1 .. m /\ i + 1 \in 1 .. m /\ 1 < i + 1 /\ y[i] = x[i + 1]
    BY <1>2, <1>3
  <2> QED
    BY <1>1, <1>3, <1>10, <2>1, <2>2 DEF Ordered
<1> QED
  BY <1>1, <1>4, <1>6, <1>8, <1>9, <1>10

-----------------------------------------------------------------------------
(* The order of the visits.                                                *)

\* The walk starts at the root.
LEMMA OrderStart ==
    ASSUME tree \in Shapes
    PROVE  OrderInv(<<<<"visit", 1>>>>, 0) /\ <<"visit", 1>> \in Calls
<1>1. Pending(<<<<"visit", 1>>>>) = {1} /\ Ordered(<<<<"visit", 1>>>>)
  BY DEF Pending, Ordered
<1>2. 1 \in Nodes /\ tree.parent[1] = 0
  BY TreeFacts
<1>3. ASSUME NEW k \in 1 .. Len(tree.parent) PROVE tree.parent[k] > 0 \/ k = 1
  <2>1. k = 1 \/ k \in 2 .. Len(tree.parent)
    BY TreeFacts
  <2>2. k \in 2 .. Len(tree.parent) => tree.parent[k] \in 1 .. k - 1
    BY TreeFacts
  <2> QED
    BY <2>1, <2>2
<1> QED
  BY <1>1, <1>2, <1>3 DEF OrderInv, Calls

\* The node that is visited is the first that is not entered, and its children
\* come before everything that was still to do.
LEMMA OrderVisit ==
    ASSUME tree \in Shapes, NEW x \in Seq(Calls), x # <<>>, Head(x)[1] = "visit",
           NEW m \in 0 .. Len(tree.parent), OrderInv(x, m),
           NEW new \in Seq(Calls), Ordered(new),
           Pending(new) = {j \in Nodes : tree.parent[j] = Head(x)[2]}
    PROVE  /\ Head(x)[2] = m + 1 /\ m + 1 \in Nodes
           /\ m + 1 \in 0 .. Len(tree.parent)
           /\ OrderInv(new \o Tail(x), m + 1)
<1>1. PICK n, p, N, y : n = Head(x)[2] /\ p = tree.parent /\ N = Len(p) /\ y = Tail(x)
  OBVIOUS
<1>2. /\ N \in Nat \ {0} /\ Nodes = 1 .. N /\ p[1] = 0
      /\ \A k \in 2 .. N : p[k] \in 1 .. k - 1 /\ \A j \in p[k] + 1 .. k : p[j] >= p[k]
  BY <1>1, TreeFacts
<1>3. /\ Pending(x) = {n} \cup Pending(y) /\ \A w \in Pending(y) : n < w
      /\ Ordered(y) /\ y \in Seq(Calls) /\ n \in Nodes
  <2>1. Head(x) \in Calls /\ y \in Seq(Calls)
    BY <1>1, HeadTailProperties
  <2>2. n \in Nodes
    BY <1>1, <2>1 DEF Calls
  <2> QED
    BY <1>1, <2>1, <2>2, PendingTail DEF OrderInv
<1>4. /\ \A w \in Pending(x) : w > m /\ p[w] <= m
      /\ \A k \in m + 1 .. N : p[k] > m \/ k \in Pending(x)
  BY <1>1 DEF OrderInv
<1>5. Pending(y) \subseteq Nodes
  <2> SUFFICES ASSUME NEW i \in 1 .. Len(y) PROVE y[i][2] \in Nodes
    BY DEF Pending
  <2>1. y[i] \in Calls
    BY <1>3
  <2> QED
    BY <2>1 DEF Calls
<1>6. n = m + 1
  <2>1. n > m /\ m + 1 \in m + 1 .. N /\ m + 1 \in 1 .. N
    BY <1>1, <1>2, <1>3, <1>4
  <2>2. p[m + 1] <= m
    BY <1>2, <2>1
  <2>3. p[m + 1] \in Nat
    BY <1>2, <2>1
  <2>4. m + 1 \in Pending(x)
    BY <1>1, <1>4, <2>1, <2>2, <2>3
  <2>5. m + 1 \in Pending(y) => n < m + 1
    BY <1>3
  <2> QED
    BY <1>2, <1>3, <2>1, <2>4, <2>5
<1>7. \A k \in Nodes : p[k] \in Nat /\ p[k] < k
  BY <1>2
<1>8. ASSUME NEW v \in Pending(new), NEW w \in Pending(y) PROVE v < w
  <2>1. v \in Nodes /\ p[v] = n /\ w \in Nodes /\ n < w /\ p[w] <= m
    BY <1>1, <1>3, <1>4, <1>5
  <2>2. v \in 2 .. N
    BY <1>2, <1>3, <2>1
  <2>3. w \in n + 1 .. v => p[w] >= n
    BY <1>2, <2>1, <2>2
  <2>4. w \in Nat /\ v \in Nat /\ n \in Nat /\ p[w] \in Nat
    BY <1>2, <1>3, <1>7, <2>1
  <2> QED
    BY <1>6, <2>1, <2>3, <2>4
<1>9. PICK z : z = new \o y
  OBVIOUS
<1>10. Ordered(z)
  BY <1>3, <1>8, <1>9, OrderedConcat
<1>11. Pending(z) = Pending(new) \cup Pending(y)
  BY <1>3, <1>9, PendingConcat
<1>12. ASSUME NEW w \in Pending(z) PROVE w > m + 1 /\ p[w] <= m + 1
  <2>1. CASE w \in Pending(new)
    <3>1. w \in Nodes /\ p[w] = n
      BY <1>1, <2>1
    <3> QED
      BY <1>2, <1>3, <1>6, <1>7, <3>1
  <2>2. CASE w \in Pending(y)
    <3>1. w \in Nodes /\ n < w /\ p[w] <= m
      BY <1>3, <1>4, <1>5, <2>2
    <3> QED
      BY <1>2, <1>6, <1>7, <3>1
  <2> QED
    BY <1>11, <2>1, <2>2
<1>13. ASSUME NEW k \in m + 2 .. N PROVE p[k] > m + 1 \/ k \in Pending(z)
  <2>1. k \in m + 1 .. N /\ k \in Nodes /\ k # n
    BY <1>2, <1>6
  <2>2. p[k] > m \/ k \in Pending(x)
    BY <1>4, <2>1
  <2>3. CASE k \in Pending(x)
    BY <1>3, <1>11, <2>1, <2>3
  <2>4. CASE p[k] = n
    BY <1>1, <1>11, <2>1, <2>4
  <2>5. CASE p[k] > m /\ p[k] # n
    BY <1>6, <1>7, <2>1, <2>5
  <2> QED
    BY <2>2, <2>3, <2>4, <2>5
<1>14. OrderInv(z, m + 1)
  BY <1>1, <1>10, <1>12, <1>13 DEF OrderInv
<1> QED
  BY <1>1, <1>2, <1>3, <1>6, <1>9, <1>14

\* A call that visits nothing.
LEMMA OrderLeave ==
    ASSUME NEW x \in Seq(Calls), x # <<>>, Head(x)[1] # "visit", NEW m, OrderInv(x, m)
    PROVE  OrderInv(Tail(x), m)
BY PendingTail DEF OrderInv

\* At the end every node is entered.
LEMMA OrderEnd ==
    ASSUME tree \in Shapes, NEW m \in 0 .. Len(tree.parent), OrderInv(<<>>, m)
    PROVE  m = Len(tree.parent)
<1>1. PICK N \in Nat : N = Len(tree.parent)
  BY TreeFacts
<1>2. SUFFICES ASSUME m < N PROVE FALSE
  BY <1>1
<1>3. m + 1 \in m + 1 .. N
  BY <1>1, <1>2
<1>4. Pending(<<>>) = {}
  BY DEF Pending
<1>5. tree.parent[m + 1] > m
  BY <1>1, <1>3, <1>4 DEF OrderInv
<1>6. m + 1 = 1 \/ m + 1 \in 2 .. N
  BY <1>1, <1>2
<1> QED
  BY <1>1, <1>5, <1>6, TreeFacts

-----------------------------------------------------------------------------
(* The calls a node leads to.                                              *)

\* The children of a node of the tree.
LEMMA KidsAre ==
    ASSUME tree \in Shapes, NEW n \in Nodes
    PROVE  LET kids == Children(tree.parent, n) IN
           /\ kids \in Seq(Nodes) /\ kids \in Seq(Nat)
           /\ Elements(kids) = {j \in Nodes : tree.parent[j] = n}
           /\ Increasing(kids)
           /\ \A i \in 1 .. Len(kids) : kids[i] \in Nodes /\ tree.parent[kids[i]] = n
           /\ n # 0 /\ n \in Nat
<1> DEFINE kids == Children(tree.parent, n)
<1>1. IsTree(tree.parent) /\ Nodes = DOMAIN tree.parent
  BY TreeFacts DEF Nodes
<1>2. /\ kids \in Seq(Nodes) /\ Increasing(kids)
      /\ Elements(kids) = {j \in Nodes : tree.parent[j] = n}
  BY <1>1, ChildrenAre
<1> HIDE DEF kids
<1>3. ASSUME NEW i \in 1 .. Len(kids) PROVE kids[i] \in Nodes /\ tree.parent[kids[i]] = n
  <2>1. kids[i] \in Elements(kids)
    BY DEF Elements
  <2> QED
    BY <1>2, <2>1
<1>4. Nodes \subseteq Nat /\ n # 0
  BY TreeFacts
<1>5. kids \in Seq(Nat)
  BY <1>2, <1>4, SeqMonotonic
<1> QED
  BY <1>2, <1>3, <1>4, <1>5 DEF kids

\* Visits that all are made under a and leave a.
LEMMA VisitsLead ==
    ASSUME tree \in Shapes, NEW ns \in Seq(Nodes), NEW r, NEW a,
           \A i \in 1 .. Len(ns) : ParserAncestors(r, ns[i]) = a
    PROVE  Leads(r, Visits(ns), a, a)
<1>1. PICK x : x = Visits(ns)
  OBVIOUS
<1>2. x \in Seq(Calls) /\ Len(x) = Len(ns) /\ \A i \in 1 .. Len(ns) : x[i] = <<"visit", ns[i]>>
  BY <1>1, VisitsAre
<1>3. \A i \in 1 .. Len(x) : Wanted(r, x[i]) = a /\ ParserAncestors(r, x[i][2]) = a
  BY <1>2 DEF Wanted
<1> QED
  BY <1>1, <1>2, <1>3, LeadsSame

\* The calls of a branch node.
LEMMA BranchCalls ==
    ASSUME tree \in Shapes, NEW n \in Nodes, Class(tree, n) \in Branches
    PROVE  LET new == Visits(Children(tree.parent, n)) \o <<<<"leave", n>>>> IN
           /\ new \in Seq(Calls) /\ Ordered(new)
           /\ Pending(new) = {j \in Nodes : tree.parent[j] = n}
           /\ \A r \in Rules : Leads(r, new, Inner(r, n), ParserAncestors(r, n))
<1>1. PICK kids, v, l : kids = Children(tree.parent, n) /\ v = Visits(kids) /\ l = <<<<"leave", n>>>>
  OBVIOUS
<1>2. /\ kids \in Seq(Nodes) /\ Elements(kids) = {j \in Nodes : tree.parent[j] = n}
      /\ Increasing(kids) /\ n # 0
      /\ \A i \in 1 .. Len(kids) : kids[i] \in Nodes /\ tree.parent[kids[i]] = n
  BY <1>1, KidsAre
<1>3. v \in Seq(Calls) /\ Pending(v) = Elements(kids) /\ Ordered(v)
  BY <1>1, <1>2, VisitsAre
<1>4. l \in Seq(Calls) /\ Pending(l) = {} /\ Ordered(l)
  <2>1. <<"leave", n>> \in Calls
    BY DEF Calls
  <2> QED
    BY <1>1, <2>1, LeaveIs
<1>5. v \o l \in Seq(Calls) /\ Pending(v \o l) = Pending(v) /\ Ordered(v \o l)
  <2>1. Ordered(v \o l)
    BY <1>3, <1>4, OrderedConcat
  <2>2. Pending(v \o l) = Pending(v) \cup Pending(l)
    <3>1. v \in Seq(Calls) /\ l \in Seq(Calls)
      BY <1>3, <1>4
    <3> QED
      BY <3>1, PendingConcat
  <2> QED
    BY <1>3, <1>4, <2>1, <2>2, ConcatIs
<1>6. ASSUME NEW r \in Rules PROVE Leads(r, v \o l, Inner(r, n), ParserAncestors(r, n))
  <2>1. ASSUME NEW i \in 1 .. Len(kids) PROVE ParserAncestors(r, kids[i]) = Inner(r, n)
    <3>1. kids[i] \notin Subsequents(tree, n)
      BY DEF Subsequents, Branches, ClassIndex
    <3> QED
      BY <1>2, <3>1, AncestorsStep
  <2>2. Leads(r, v, Inner(r, n), Inner(r, n))
    BY <1>1, <1>2, <2>1, VisitsLead
  <2>3. Leads(r, l, Inner(r, n), ParserAncestors(r, n))
    BY <1>1 DEF Leads, Wanted
  <2> QED
    BY <1>3, <1>4, <2>2, <2>3, LeadsConcat
<1> QED
  BY <1>1, <1>2, <1>3, <1>5, <1>6

\* The calls of a node no hook tells of.
LEMMA DirectCalls ==
    ASSUME tree \in Shapes, NEW n \in Nodes, Class(tree, n) = "direct"
    PROVE  LET new == Visits(Children(tree.parent, n)) IN
           /\ new \in Seq(Calls) /\ Ordered(new)
           /\ Pending(new) = {j \in Nodes : tree.parent[j] = n}
           /\ \A r \in Rules : Leads(r, new, ParserAncestors(r, n), ParserAncestors(r, n))
<1>1. PICK kids, v : kids = Children(tree.parent, n) /\ v = Visits(kids)
  OBVIOUS
<1>2. /\ kids \in Seq(Nodes) /\ Elements(kids) = {j \in Nodes : tree.parent[j] = n}
      /\ Increasing(kids) /\ n # 0
      /\ \A i \in 1 .. Len(kids) : kids[i] \in Nodes /\ tree.parent[kids[i]] = n
  BY <1>1, KidsAre
<1>3. v \in Seq(Calls) /\ Pending(v) = Elements(kids) /\ Ordered(v)
  BY <1>1, <1>2, VisitsAre
<1>4. ASSUME NEW r \in Rules PROVE Leads(r, v, ParserAncestors(r, n), ParserAncestors(r, n))
  <2>1. ASSUME NEW i \in 1 .. Len(kids) PROVE ParserAncestors(r, kids[i]) = ParserAncestors(r, n)
    <3>1. Inner(r, n) = ParserAncestors(r, n)
      BY DEF Inner, Branches, ClassIndex
    <3> QED
      BY <1>2, <3>1, AncestorsStep
  <2> QED
    BY <1>1, <1>2, <2>1, VisitsLead
<1> QED
  BY <1>1, <1>2, <1>3, <1>4

\* The calls of a rescue clause: what is inside of it, its end, and the clause
\* after it.
LEMMA ClauseCalls ==
    ASSUME tree \in Shapes, NEW n \in Nodes, Class(tree, n) = "rescue"
    PROVE  /\ Clause(n) \in Seq(Calls) /\ Ordered(Clause(n))
           /\ Pending(Clause(n)) = {j \in Nodes : tree.parent[j] = n}
           /\ \A r \in Rules : Leads(r, Clause(n), Inner(r, n), ParserAncestors(r, n))
<1>1. PICK kids, S, ins, out, v, l, w :
         /\ kids = Children(tree.parent, n) /\ S = Subsequents(tree, n)
         /\ ins = Filter(kids, Nodes \ S) /\ out = Filter(kids, S)
         /\ v = Visits(ins) /\ l = <<<<"leaveRescue", n>>>> /\ w = Visits(out)
  OBVIOUS
<1>2. Clause(n) = (v \o l) \o w
  BY <1>1 DEF Clause
<1>3. /\ kids \in Seq(Nodes) /\ kids \in Seq(Nat)
      /\ Elements(kids) = {j \in Nodes : tree.parent[j] = n}
      /\ Increasing(kids) /\ n # 0
  BY <1>1, KidsAre
<1>4. /\ ins \in Seq(Nodes) /\ out \in Seq(Nodes) /\ Increasing(ins) /\ Increasing(out)
      /\ Elements(ins) = Elements(kids) \ S /\ Elements(out) = Elements(kids) \cap S
  <2>1. ins \in Seq(Nodes) /\ out \in Seq(Nodes)
    BY <1>1, <1>3, FilterType
  <2>2. Increasing(ins) /\ Increasing(out)
    BY <1>1, <1>3, FilterIncreasing
  <2>3. Elements(ins) = Elements(kids) \cap (Nodes \ S) /\ Elements(out) = Elements(kids) \cap S
    BY <1>1, <1>3, FilterElements
  <2> QED
    BY <1>3, <2>1, <2>2, <2>3
<1>5. v \in Seq(Calls) /\ Pending(v) = Elements(ins) /\ Ordered(v)
  BY <1>1, <1>4, VisitsAre
<1>6. w \in Seq(Calls) /\ Pending(w) = Elements(out) /\ Ordered(w)
  BY <1>1, <1>4, VisitsAre
<1>7. l \in Seq(Calls) /\ Pending(l) = {} /\ Ordered(l)
  <2>1. <<"leaveRescue", n>> \in Calls
    BY DEF Calls
  <2> QED
    BY <1>1, <2>1, LeaveIs
<1>8. v \o l \in Seq(Calls) /\ Pending(v \o l) = Elements(ins) /\ Ordered(v \o l)
  <2>1. Ordered(v \o l)
    BY <1>5, <1>7, OrderedConcat
  <2>2. Pending(v \o l) = Pending(v) \cup Pending(l)
    <3>1. v \in Seq(Calls) /\ l \in Seq(Calls)
      BY <1>5, <1>7
    <3> QED
      BY <3>1, PendingConcat
  <2> QED
    BY <1>5, <1>7, <2>1, <2>2, ConcatIs
<1>9. ASSUME NEW i \in Elements(ins), NEW j \in Elements(out) PROVE i < j
  <2>1. i \in Nodes /\ tree.parent[i] = n /\ j \in Subsequents(tree, n) /\ i # j
    BY <1>1, <1>3, <1>4
  <2>2. i <= j /\ j \in Nodes
    BY <2>1, ClauseFacts
  <2> QED
    BY <2>1, <2>2, TreeFacts
<1>10. /\ (v \o l) \o w \in Seq(Calls) /\ Ordered((v \o l) \o w)
       /\ Pending((v \o l) \o w) = Elements(kids)
  <2>1. PICK vl : vl = v \o l
    OBVIOUS
  <2>2. Ordered(vl \o w)
    BY <1>6, <1>8, <1>9, <2>1, OrderedConcat
  <2>3. Pending(vl \o w) = Pending(vl) \cup Pending(w)
    <3>1. vl \in Seq(Calls) /\ w \in Seq(Calls)
      BY <1>6, <1>8, <2>1
    <3> QED
      BY <3>1, PendingConcat
  <2>4. vl \o w \in Seq(Calls)
    BY <1>6, <1>8, <2>1, ConcatIs
  <2> QED
    BY <1>4, <1>6, <1>8, <2>1, <2>2, <2>3, <2>4
<1>11. ASSUME NEW r \in Rules PROVE Leads(r, (v \o l) \o w, Inner(r, n), ParserAncestors(r, n))
  <2>1. ASSUME NEW i \in 1 .. Len(ins) PROVE ParserAncestors(r, ins[i]) = Inner(r, n)
    <3>1. ins[i] \in Elements(ins)
      BY DEF Elements
    <3>2. ins[i] \in Nodes /\ tree.parent[ins[i]] = n /\ ins[i] \notin Subsequents(tree, n)
      BY <1>1, <1>3, <1>4, <3>1
    <3> QED
      BY <1>3, <3>2, AncestorsStep
  <2>2. ASSUME NEW i \in 1 .. Len(out) PROVE ParserAncestors(r, out[i]) = ParserAncestors(r, n)
    <3>1. out[i] \in Elements(out)
      BY DEF Elements
    <3>2. out[i] \in Nodes /\ tree.parent[out[i]] = n /\ out[i] \in Subsequents(tree, n)
      BY <1>1, <1>3, <1>4, <3>1
    <3> QED
      BY <1>3, <3>2, AncestorsStep
  <2>3. Leads(r, v, Inner(r, n), Inner(r, n))
    BY <1>1, <1>4, <2>1, VisitsLead
  <2>4. Leads(r, w, ParserAncestors(r, n), ParserAncestors(r, n))
    BY <1>1, <1>4, <2>2, VisitsLead
  <2>5. Leads(r, l, Inner(r, n), ParserAncestors(r, n))
    BY <1>1 DEF Leads, Wanted
  <2>6. Leads(r, v \o l, Inner(r, n), ParserAncestors(r, n))
    BY <1>5, <1>7, <2>3, <2>5, LeadsConcat
  <2> QED
    BY <1>6, <1>8, <2>4, <2>6, LeadsConcat
<1> QED
  BY <1>2, <1>3, <1>10, <1>11

-----------------------------------------------------------------------------
(* Steps of the walk.                                                      *)

\* One more node is entered: what a rule has to have reported of it.
LEMMA ToldStep ==
    ASSUME tree \in Shapes, NEW r, NEW m \in Nat, m + 1 \in Nodes
    PROVE  LET told(k) == Told(r, Filter(UpTo(k), Mine(r))) IN
           told(m + 1) =
              IF Kind(m + 1) \in Reports[r]
              THEN Append(told(m), <<m + 1, IF Frames[r] = "none" THEN <<>>
                                            ELSE ParserAncestors(r, m + 1)>>)
              ELSE told(m)
<1>1. PICK s, t : s = Filter(UpTo(m), Mine(r)) /\ t = Filter(UpTo(m + 1), Mine(r))
  OBVIOUS
<1>2. UpTo(m) \in Seq(Nat) /\ UpTo(m + 1) = Append(UpTo(m), m + 1)
  <2>1. UpTo(m) \in Seq(1 .. m) /\ UpTo(m + 1) = Append(UpTo(m), m + 1)
    BY UpToIs
  <2>2. 1 .. m \subseteq Nat
    OBVIOUS
  <2> QED
    BY <2>1, <2>2, SeqMonotonic
<1>3. s \in Seq(Nat)
  BY <1>1, <1>2, FilterType
<1>4. t = IF m + 1 \in Mine(r) THEN Append(s, m + 1) ELSE s
  <2>1. PICK u : u = UpTo(m) /\ u \in Seq(Nat)
    BY <1>2
  <2>2. m + 1 \in Nat
    OBVIOUS
  <2>3. PICK S, e : S = Mine(r) /\ e = m + 1 /\ e \in Nat
    BY <2>2
  <2>4. Filter(Append(u, e), S) = IF e \in S THEN Append(Filter(u, S), e) ELSE Filter(u, S)
    <3>1. u \in Seq(Nat) /\ e \in Nat
      BY <2>1, <2>3
    <3> QED
      BY <3>1, FilterAppend
  <2> QED
    BY <1>1, <1>2, <2>1, <2>3, <2>4
<1>5. m + 1 \in Mine(r) <=> Kind(m + 1) \in Reports[r]
  BY DEF Mine
<1> DEFINE What(n) == <<n, IF Frames[r] = "none" THEN <<>> ELSE ParserAncestors(r, n)>>
<1>6. ASSUME m + 1 \in Mine(r) PROVE Told(r, t) = Append(Told(r, s), What(m + 1))
  <2>1. PICK k \in Nat : k = Len(s) /\ DOMAIN s = 1 .. k
    BY <1>3
  <2>2. t = Append(s, m + 1)
    BY <1>4, <1>6
  <2>3. DOMAIN t = 1 .. k + 1 /\ t[k + 1] = m + 1 /\ \A i \in 1 .. k : t[i] = s[i]
    BY <1>3, <2>1, <2>2
  <2> HIDE DEF What
  <2>4. PICK x, y : x = Told(r, s) /\ y = Told(r, t)
    OBVIOUS
  <2>5. x = [i \in 1 .. k |-> What(s[i])] /\ y = [i \in 1 .. k + 1 |-> What(t[i])]
    BY <2>1, <2>3, <2>4 DEF Told, What
  <2>6. PICK A : A = {What(s[i]) : i \in 1 .. k} \cup {What(m + 1)}
    OBVIOUS
  <2>7. x \in Seq(A) /\ Len(x) = k
    BY <2>5, <2>6
  <2>8. y \in Seq(A) /\ Len(y) = k + 1
    <3>1. \A i \in 1 .. k + 1 : What(t[i]) \in A
      BY <2>3, <2>6
    <3> QED
      BY <2>5, <3>1
  <2>9. PICK z : z = Append(x, What(m + 1))
    OBVIOUS
  <2>10. /\ z \in Seq(A) /\ Len(z) = k + 1 /\ z[k + 1] = What(m + 1)
         /\ \A i \in 1 .. k : z[i] = x[i]
    BY <2>6, <2>7, <2>9
  <2>11. ASSUME NEW i \in 1 .. k + 1 PROVE y[i] = z[i]
    <3>1. CASE i \in 1 .. k
      BY <2>3, <2>5, <2>10, <3>1
    <3>2. CASE i = k + 1
      BY <2>3, <2>5, <2>10, <3>2
    <3> QED
      BY <3>1, <3>2
  <2>12. y = z
    BY <2>8, <2>10, <2>11, SeqEqual
  <2> QED
    BY <2>4, <2>9, <2>12
<1> QED
  BY <1>1, <1>4, <1>5, <1>6

\* A rule whose body does not fall through on a node is told of it, and its
\* frames are the ancestors: its reports stay those it would make alone.
LEMMA ReportsVisit ==
    ASSUME tree \in Shapes, TypeOK, NEW m \in Nat, m + 1 \in Nodes, ReportsInv(m), NEW bucket,
           \A r \in Rules : /\ Kind(m + 1) \in Reports[r] => r \in bucket
                          /\ frames[r] = IF Frames[r] = "none" THEN <<>> ELSE ParserAncestors(r, m + 1)
    PROVE  /\ \A r \in Rules : Reported(bucket, m + 1)[r] = Told(r, Filter(UpTo(m + 1), Mine(r)))
           /\ Reported(bucket, m + 1) \in [Rules -> Seq(Nodes \X Seq(Nodes))]
<1>1. ASSUME NEW r \in Rules
      PROVE  Reported(bucket, m + 1)[r] = Told(r, Filter(UpTo(m + 1), Mine(r)))
  <2>1. Reported(bucket, m + 1)[r] =
           IF r \in bucket /\ Kind(m + 1) \in Reports[r]
           THEN Append(reports[r], <<m + 1, frames[r]>>) ELSE reports[r]
    BY DEF Reported
  <2>2. reports[r] = Told(r, Filter(UpTo(m), Mine(r)))
    BY DEF ReportsInv
  <2>3. Kind(m + 1) \in Reports[r] => r \in bucket
    OBVIOUS
  <2>4. frames[r] = IF Frames[r] = "none" THEN <<>> ELSE ParserAncestors(r, m + 1)
    OBVIOUS
  <2> QED
    BY <2>1, <2>2, <2>3, <2>4, ToldStep
<1>2. ASSUME NEW r \in Rules PROVE Reported(bucket, m + 1)[r] \in Seq(Nodes \X Seq(Nodes))
  <2>1. reports[r] \in Seq(Nodes \X Seq(Nodes)) /\ frames[r] \in Seq(Nodes)
    BY DEF TypeOK
  <2> QED
    BY <2>1 DEF Reported
<1>3. Reported(bucket, m + 1) \in [Rules -> Seq(Nodes \X Seq(Nodes))]
  BY <1>2 DEF Reported
<1> QED
  BY <1>1, <1>3

\* While the tree stays, so does all that is said of it.
LEMMA SameTree ==
    ASSUME tree' = tree
    PROVE  /\ Nodes' = Nodes /\ Calls' = Calls
           /\ \A r, n : ParserAncestors(r, n)' = ParserAncestors(r, n)
           /\ \A r, c : Wanted(r, c)' = Wanted(r, c)
           /\ \A r : Mine(r)' = Mine(r)
<1>1. Nodes' = Nodes
  BY DEF Nodes
<1>2. Calls' = Calls
  BY <1>1 DEF Calls, Class
<1>3. ASSUME NEW n PROVE ParserAbove(n)' = ParserAbove(n)
  BY <1>1 DEF ParserAbove, Class, Subsequents
<1>4. ASSUME NEW r, NEW n PROVE ParserAncestors(r, n)' = ParserAncestors(r, n)
  BY <1>1, <1>3 DEF ParserAncestors, Class
<1>5. ASSUME NEW r, NEW n PROVE Inner(r, n)' = Inner(r, n)
  BY <1>4 DEF Inner, Class
<1>6. ASSUME NEW r, NEW c PROVE Wanted(r, c)' = Wanted(r, c)
  BY <1>4, <1>5 DEF Wanted
<1>7. ASSUME NEW r PROVE Mine(r)' = Mine(r)
  BY <1>1 DEF Mine, Kind
<1> QED
  BY <1>1, <1>2, <1>4, <1>6, <1>7

\* The frames the next call is made under.
LEMMA CallFrames ==
    ASSUME WalkInv, todo # <<>>
    PROVE  /\ Head(todo) \in Calls /\ Node \in Nodes
           /\ \A r \in Rules : frames[r] = IF Frames[r] = "none" THEN <<>> ELSE Wanted(r, Head(todo))
<1>1. Head(todo) \in Calls
  BY HeadTailProperties DEF WalkInv
<1>2. Node \in Nodes
  BY <1>1 DEF Node, Calls
<1>3. ASSUME NEW r \in Rules
      PROVE  frames[r] = IF Frames[r] = "none" THEN <<>> ELSE Wanted(r, Head(todo))
  <2>1. CASE Frames[r] = "none"
    BY <2>1 DEF WalkInv, FramesInv, KeepFrames
  <2>2. CASE Frames[r] # "none"
    <3>1. Leads(r, todo, frames[r], <<>>)
      BY <2>2 DEF WalkInv, FramesInv, KeepFrames
    <3>2. todo \in Seq(Calls)
      BY DEF WalkInv
    <3>3. Wanted(r, Head(todo)) = frames[r]
      BY <3>1, <3>2, LeadsTail
    <3> QED
      BY <2>2, <3>3
  <2> QED
    BY <2>1, <2>2
<1> QED
  BY <1>1, <1>2, <1>3

\* While the tree stays, calls lead where they led.
LEMMA LeadsStill ==
    ASSUME tree' = tree, NEW r, Leads(r, todo', frames'[r], <<>>)
    PROVE  Leads(r, todo, frames[r], <<>>)'
BY SameTree DEF Leads

\* The invariant after a step that only moves on in the tree.
LEMMA InvAfter ==
    ASSUME tree' = tree, tree \in Shapes, TypeOK,
           todo' \in Seq(Calls),
           frames' \in [Rules -> Seq(Nodes)],
           reports' \in [Rules -> Seq(Nodes \X Seq(Nodes))],
           \A r \in Rules : IF r \in KeepFrames THEN Leads(r, todo', frames'[r], <<>>)
                           ELSE frames'[r] = <<>>,
           NEW m \in 0 .. Len(tree.parent), OrderInv(todo', m),
           \A r \in Rules : reports'[r] = Told(r, Filter(UpTo(m), Mine(r)))
    PROVE  WalkInv'
<1>1. Nodes' = Nodes /\ Calls' = Calls
  BY SameTree
<1>2. TypeOK'
  <2>1. Calls \subseteq {"visit", "leave", "leaveRescue"} \X Nodes
    BY DEF Calls
  <2>2. todo' \in Seq({"visit", "leave", "leaveRescue"} \X Nodes)
    BY <2>1, SeqMonotonic
  <2> QED
    BY <1>1, <2>2 DEF TypeOK
<1>3. FramesInv'
  <2>1. KeepFrames' = KeepFrames
    BY DEF KeepFrames
  <2>2. ASSUME NEW r \in Rules, r \in KeepFrames PROVE Leads(r, todo, frames[r], <<>>)'
    BY <2>2, LeadsStill
  <2> QED
    BY <2>1, <2>2 DEF FramesInv
<1>4. OrderInv(todo, m)'
  <2>1. Pending(todo)' = Pending(todo')
    BY DEF Pending
  <2>2. Ordered(todo)' = Ordered(todo')
    BY DEF Ordered
  <2> QED
    BY <2>1, <2>2 DEF OrderInv
<1>5. ReportsInv(m)'
  <2>1. ASSUME NEW r \in Rules
        PROVE  (Told(r, Filter(UpTo(m), Mine(r))))' = Told(r, Filter(UpTo(m), Mine(r)))
    <3>1. Mine(r)' = Mine(r) /\ \A n : ParserAncestors(r, n)' = ParserAncestors(r, n)
      BY SameTree
    <3> QED
      BY <3>1 DEF Told
  <2> QED
    BY <2>1 DEF ReportsInv
<1> QED
  BY <1>1, <1>2, <1>3, <1>4, <1>5 DEF WalkInv

\* A visit, given the calls it puts in its place, the rules it tells and the
\* frames it leaves them with.
LEMMA VisitStep ==
    ASSUME WalkInv, Next("visit"), tree' = tree,
           NEW new \in Seq(Calls), Ordered(new),
           Pending(new) = {j \in Nodes : tree.parent[j] = Node},
           todo' = new \o Tail(todo),
           frames' \in [Rules -> Seq(Nodes)],
           \A r \in Rules : IF r \in KeepFrames
                           THEN Leads(r, new, frames'[r], ParserAncestors(r, Node))
                           ELSE frames'[r] = <<>>,
           NEW bucket, reports' = Reported(bucket, Node),
           \A r \in Rules : Kind(Node) \in Reports[r] => r \in bucket
    PROVE  WalkInv'
<1>1. /\ tree \in Shapes /\ TypeOK /\ todo \in Seq(Calls) /\ todo # <<>>
      /\ Head(todo)[1] = "visit" /\ Head(todo)[2] = Node
  BY DEF WalkInv, Next, Node
<1>2. PICK m \in 0 .. Len(tree.parent) : OrderInv(todo, m) /\ ReportsInv(m)
  BY DEF WalkInv
<1>3. /\ Node = m + 1 /\ m + 1 \in Nodes /\ m + 1 \in 0 .. Len(tree.parent)
      /\ OrderInv(todo', m + 1)
  <2>1. PICK x : x = todo
    OBVIOUS
  <2>2. /\ Head(x)[2] = m + 1 /\ m + 1 \in Nodes /\ m + 1 \in 0 .. Len(tree.parent)
        /\ OrderInv(new \o Tail(x), m + 1)
    BY <1>1, <1>2, <2>1, OrderVisit
  <2> QED
    BY <1>1, <2>1, <2>2
<1>4. todo' \in Seq(Calls)
  <2>1. Tail(todo) \in Seq(Calls)
    BY <1>1, HeadTailProperties
  <2> QED
    BY <2>1, ConcatProperties
<1>5. \A r \in Rules : frames[r] = IF Frames[r] = "none" THEN <<>> ELSE ParserAncestors(r, Node)
  BY <1>1, CallFrames DEF Wanted
<1>6. m \in Nat
  BY <1>1, TreeFacts
<1>7. /\ \A r \in Rules : reports'[r] = Told(r, Filter(UpTo(m + 1), Mine(r)))
      /\ reports' \in [Rules -> Seq(Nodes \X Seq(Nodes))]
  BY <1>1, <1>2, <1>3, <1>5, <1>6, ReportsVisit
<1>8. ASSUME NEW r \in Rules
      PROVE  IF r \in KeepFrames THEN Leads(r, todo', frames'[r], <<>>) ELSE frames'[r] = <<>>
  <2>1. CASE r \in KeepFrames
    <3>1. Leads(r, todo, frames[r], <<>>)
      BY <2>1 DEF WalkInv, FramesInv
    <3>2. PICK x, a, d : x = todo /\ a = frames[r] /\ d = frames'[r]
      OBVIOUS
    <3>3. /\ x \in Seq(Calls) /\ x # <<>> /\ Leads(r, x, a, <<>>)
          /\ Leads(r, new, d, ParserAncestors(r, Head(x)[2]))
      BY <1>1, <2>1, <3>1, <3>2
    <3>4. Leads(r, new \o Tail(x), d, <<>>)
      BY <3>3, LeadsReplace
    <3> QED
      BY <2>1, <3>2, <3>4
  <2> QED
    BY <2>1
<1> QED
  BY <1>1, <1>3, <1>4, <1>7, <1>8, InvAfter

\* A call that closes a node, given the frames it leaves.
LEMMA LeaveStep ==
    ASSUME WalkInv, todo # <<>>, Head(todo)[1] # "visit", tree' = tree,
           todo' = Tail(todo), reports' = reports,
           frames' \in [Rules -> Seq(Nodes)],
           \A r \in Rules : frames'[r] = IF r \in KeepFrames THEN ParserAncestors(r, Node) ELSE <<>>
    PROVE  WalkInv'
<1>1. tree \in Shapes /\ TypeOK /\ todo \in Seq(Calls) /\ Head(todo)[2] = Node
  BY DEF WalkInv, Node
<1>2. PICK m \in 0 .. Len(tree.parent) : OrderInv(todo, m) /\ ReportsInv(m)
  BY DEF WalkInv
<1>3. OrderInv(todo', m)
  <2>1. PICK x : x = todo
    OBVIOUS
  <2>2. OrderInv(Tail(x), m)
    BY <1>1, <1>2, <2>1, OrderLeave
  <2> QED
    BY <2>1, <2>2
<1>4. todo' \in Seq(Calls)
  BY <1>1, HeadTailProperties
<1>5. ASSUME NEW r \in Rules
      PROVE  IF r \in KeepFrames THEN Leads(r, todo', frames'[r], <<>>) ELSE frames'[r] = <<>>
  <2>1. CASE r \in KeepFrames
    <3>1. Leads(r, todo, frames[r], <<>>)
      BY <2>1 DEF WalkInv, FramesInv
    <3>2. PICK x, a : x = todo /\ a = frames[r]
      OBVIOUS
    <3>3. x \in Seq(Calls) /\ x # <<>> /\ Leads(r, x, a, <<>>)
      BY <1>1, <3>1, <3>2
    <3>4. Leads(r, Tail(x), ParserAncestors(r, Head(x)[2]), <<>>)
      BY <3>3, LeadsTail
    <3>5. frames'[r] = ParserAncestors(r, Node)
      BY <2>1
    <3> QED
      BY <1>1, <2>1, <3>2, <3>4, <3>5
  <2> QED
    BY <2>1
<1>6. /\ \A r \in Rules : reports'[r] = Told(r, Filter(UpTo(m), Mine(r)))
      /\ reports' \in [Rules -> Seq(Nodes \X Seq(Nodes))]
  BY <1>1, <1>2 DEF ReportsInv, TypeOK
<1> QED
  BY <1>1, <1>2, <1>3, <1>4, <1>5, <1>6, InvAfter

\* The bit of a class of branch nodes.
LEMMA BranchBit ==
    ASSUME NEW class \in Branches
    PROVE  ENTER[class] = 3 + ClassIndex[class] /\ ENTER[class] \in ENTER_ALL
<1>1. /\ DOMAIN ENTER = DOMAIN ClassIndex
      /\ \A c \in DOMAIN ClassIndex : ENTER[c] = 3 + ClassIndex[c]
  BY DEF ENTER, ClassIndex
<1>2. class \in DOMAIN ENTER
  BY <1>1 DEF Branches
<1>3. ENTER[class] \in ENTER_ALL
  BY <1>2 DEF ENTER_ALL
<1> QED
  BY <1>1, <1>3 DEF Branches

\* What a rule receives of the kinds it reports on.
LEMMA MaskFacts ==
    ASSUME NEW r \in Rules, NEW kind \in Reports[r]
    PROVE  /\ ClassOf[kind] \in Branches => ENTER[ClassOf[kind]] \in Mask[r]
           /\ ClassOf[kind] = "leaf" => LEAF \in Mask[r]
           /\ ClassOf[kind] = "rescue" => RESCUE \in Mask[r]
           /\ ClassOf[kind] # "direct"
<1>1. (CASE ClassOf[kind] \in Branches -> ENTER[ClassOf[kind]] \in Mask[r]
         [] ClassOf[kind] = "leaf"     -> LEAF \in Mask[r]
         [] ClassOf[kind] = "rescue"   -> RESCUE \in Mask[r]
         [] OTHER                      -> FALSE)
  BY MaskAssumption
<1>2. "leaf" \notin Branches /\ "rescue" \notin Branches /\ "direct" \notin Branches
  BY DEF Branches, ClassIndex
<1>3. CASE ClassOf[kind] \in Branches
  BY <1>1, <1>2, <1>3
<1>4. CASE ClassOf[kind] \notin Branches
  BY <1>1, <1>2, <1>4
<1> QED
  BY <1>3, <1>4

\* A branch node opens.
LEMMA EnterBranchStep ==
    ASSUME WalkInv, EnterBranch
    PROVE  WalkInv'
<1>1. tree \in Shapes /\ TypeOK /\ todo # <<>> /\ Next("visit") /\ Head(todo)[1] = "visit"
  BY DEF WalkInv, EnterBranch, Next
<1>2. Node \in Nodes /\ Class(tree, Node) \in Branches /\ tree' = tree
  BY <1>1, CallFrames DEF EnterBranch
<1>3. PICK n, bit : n = Node /\ bit = 3 + ClassIndex[Class(tree, n)]
  OBVIOUS
<1>4. PICK new : new = Visits(Children(tree.parent, n)) \o <<<<"leave", n>>>>
  OBVIOUS
<1>5. /\ new \in Seq(Calls) /\ Ordered(new)
      /\ Pending(new) = {j \in Nodes : tree.parent[j] = n}
      /\ \A r \in Rules : Leads(r, new, Inner(r, n), ParserAncestors(r, n))
  BY <1>1, <1>2, <1>3, <1>4, BranchCalls
<1>6. bit = ENTER[Class(tree, n)] /\ bit \in ENTER_ALL
  BY <1>2, <1>3, BranchBit
<1>7. todo' = new \o Tail(todo)
  <2>1. PICK x : x = todo
    OBVIOUS
  <2>2. Visits(Children(tree.parent, n)) \in Seq(Calls)
    BY <1>1, <1>2, <1>3, KidsAre, VisitsAre
  <2> QED
    BY <1>3, <1>4 DEF EnterBranch
<1>8. reports' = Reported(Bucket(bit), Node) /\ frames' = Pushed(Bucket(bit) \cap KeepFrames, Node)
  BY <1>3 DEF EnterBranch
<1>9. frames' \in [Rules -> Seq(Nodes)]
  <2>1. ASSUME NEW r \in Rules PROVE frames'[r] \in Seq(Nodes)
    <3>1. frames[r] \in Seq(Nodes)
      BY <1>1 DEF TypeOK
    <3> QED
      BY <1>2, <1>8, <3>1 DEF Pushed
  <2> QED
    BY <1>8, <2>1 DEF Pushed
<1>10. ASSUME NEW r \in Rules
       PROVE  IF r \in KeepFrames THEN Leads(r, new, frames'[r], ParserAncestors(r, Node))
              ELSE frames'[r] = <<>>
  <2>1. frames[r] = IF Frames[r] = "none" THEN <<>> ELSE ParserAncestors(r, n)
    BY <1>1, <1>3, CallFrames DEF Wanted, Node
  <2>2. CASE r \in KeepFrames
    <3>1. Frames[r] # "none" /\ bit \in Mask[r]
      BY <1>6, <2>2, MaskAssumption DEF KeepFrames
    <3>2. frames'[r] = Append(ParserAncestors(r, n), n)
      BY <1>3, <1>8, <2>1, <2>2, <3>1 DEF Pushed, Bucket
    <3>3. frames'[r] = Inner(r, n)
      BY <1>2, <1>3, <3>2 DEF Inner
    <3> QED
      BY <1>3, <1>5, <2>2, <3>3
  <2>3. CASE r \notin KeepFrames
    BY <1>8, <2>1, <2>3 DEF Pushed, KeepFrames
  <2> QED
    BY <2>2, <2>3
<1>11. ASSUME NEW r \in Rules, Kind(Node) \in Reports[r] PROVE r \in Bucket(bit)
  BY <1>2, <1>3, <1>6, <1>11, MaskFacts DEF Kind, Class, Bucket
<1> QED
  BY <1>1, <1>2, <1>3, <1>5, <1>7, <1>8, <1>9, <1>10, <1>11, VisitStep

\* A leaf.
LEMMA EnterLeafStep ==
    ASSUME WalkInv, EnterLeaf
    PROVE  WalkInv'
<1>1. tree \in Shapes /\ TypeOK /\ todo # <<>> /\ Next("visit") /\ Head(todo)[1] = "visit"
  BY DEF WalkInv, EnterLeaf, Next
<1>2. Node \in Nodes /\ Class(tree, Node) = "leaf" /\ tree' = tree /\ frames' = frames
  BY <1>1, CallFrames DEF EnterLeaf
<1>3. PICK n : n = Node
  OBVIOUS
<1>4. <<>> \in Seq(Calls) /\ Ordered(<<>>) /\ Pending(<<>>) = {}
  BY DEF Ordered, Pending
<1>5. \A j \in Nodes : tree.parent[j] # n
  <2> SUFFICES ASSUME NEW j \in Nodes, tree.parent[j] = n PROVE FALSE
    OBVIOUS
  <2>1. j \in 2 .. Len(tree.kind)
    BY <1>1, <1>2, <1>3, TreeFacts
  <2>2. WellFormed(tree)
    BY <1>1, ShapesAssumption
  <2>3. Class(tree, tree.parent[j]) # "leaf"
    BY <2>1, <2>2 DEF WellFormed
  <2> QED
    BY <1>2, <1>3, <2>3
<1>6. Pending(<<>>) = {j \in Nodes : tree.parent[j] = Node}
  BY <1>3, <1>4, <1>5
<1>7. todo' = <<>> \o Tail(todo)
  <2>1. Tail(todo) \in Seq(Calls)
    BY <1>1, HeadTailProperties DEF WalkInv
  <2> QED
    BY <2>1, ConcatEmptySeq DEF EnterLeaf
<1>8. reports' = Reported(Bucket(LEAF), Node)
  BY DEF EnterLeaf
<1>9. frames' \in [Rules -> Seq(Nodes)]
  BY <1>1, <1>2 DEF TypeOK
<1>10. ASSUME NEW r \in Rules
       PROVE  IF r \in KeepFrames THEN Leads(r, <<>>, frames'[r], ParserAncestors(r, Node))
              ELSE frames'[r] = <<>>
  <2>1. frames[r] = IF Frames[r] = "none" THEN <<>> ELSE ParserAncestors(r, Node)
    BY <1>1, CallFrames DEF Wanted, Node
  <2> QED
    BY <1>2, <2>1 DEF Leads, KeepFrames
<1>11. ASSUME NEW r \in Rules, Kind(Node) \in Reports[r] PROVE r \in Bucket(LEAF)
  BY <1>2, <1>11, MaskFacts DEF Kind, Class, Bucket
<1> QED
  BY <1>1, <1>2, <1>4, <1>6, <1>7, <1>8, <1>9, <1>10, <1>11, VisitStep

\* A node no hook tells of.
LEMMA VisitDirectStep ==
    ASSUME WalkInv, VisitDirect
    PROVE  WalkInv'
<1>1. tree \in Shapes /\ TypeOK /\ todo # <<>> /\ Next("visit") /\ Head(todo)[1] = "visit"
  BY DEF WalkInv, VisitDirect, Next
<1>2. /\ Node \in Nodes /\ Class(tree, Node) = "direct"
      /\ tree' = tree /\ frames' = frames /\ reports' = reports
  BY <1>1, CallFrames DEF VisitDirect
<1>3. PICK n, new : n = Node /\ new = Visits(Children(tree.parent, n))
  OBVIOUS
<1>4. /\ new \in Seq(Calls) /\ Ordered(new)
      /\ Pending(new) = {j \in Nodes : tree.parent[j] = n}
      /\ \A r \in Rules : Leads(r, new, ParserAncestors(r, n), ParserAncestors(r, n))
  BY <1>1, <1>2, <1>3, DirectCalls
<1>5. todo' = new \o Tail(todo)
  BY <1>3 DEF VisitDirect
<1>6. frames' \in [Rules -> Seq(Nodes)]
  BY <1>1, <1>2 DEF TypeOK
<1>7. ASSUME NEW r \in Rules
      PROVE  IF r \in KeepFrames THEN Leads(r, new, frames'[r], ParserAncestors(r, Node))
             ELSE frames'[r] = <<>>
  <2>1. frames[r] = IF Frames[r] = "none" THEN <<>> ELSE ParserAncestors(r, n)
    BY <1>1, <1>3, CallFrames DEF Wanted, Node
  <2> QED
    BY <1>2, <1>3, <1>4, <2>1 DEF KeepFrames
<1>8. \A r \in Rules : Kind(Node) \notin Reports[r]
  BY <1>2, MaskFacts DEF Kind, Class
<1>9. reports' = Reported({}, Node)
  BY <1>1, <1>2 DEF Reported, TypeOK
<1> QED
  BY <1>1, <1>2, <1>3, <1>4, <1>5, <1>6, <1>7, <1>8, <1>9, VisitStep

\* A rescue clause opens.
LEMMA EnterRescueStep ==
    ASSUME WalkInv, EnterRescue
    PROVE  WalkInv'
<1>1. tree \in Shapes /\ TypeOK /\ todo # <<>> /\ Next("visit") /\ Head(todo)[1] = "visit"
  BY DEF WalkInv, EnterRescue, Next
<1>2. Node \in Nodes /\ Class(tree, Node) = "rescue" /\ tree' = tree
  BY <1>1, CallFrames DEF EnterRescue
<1>3. PICK n, new : n = Node /\ new = Clause(n)
  OBVIOUS
<1>4. /\ new \in Seq(Calls) /\ Ordered(new)
      /\ Pending(new) = {j \in Nodes : tree.parent[j] = n}
      /\ \A r \in Rules : Leads(r, new, Inner(r, n), ParserAncestors(r, n))
  BY <1>1, <1>2, <1>3, ClauseCalls
<1>5. todo' = new \o Tail(todo)
  BY <1>3 DEF EnterRescue
<1>6. /\ reports' = Reported(Bucket(RESCUE), Node)
      /\ frames' = Pushed(Bucket(RESCUE) \cap KeepClauses, Node)
  BY DEF EnterRescue
<1>7. frames' \in [Rules -> Seq(Nodes)]
  <2>1. ASSUME NEW r \in Rules PROVE frames'[r] \in Seq(Nodes)
    <3>1. frames[r] \in Seq(Nodes)
      BY <1>1 DEF TypeOK
    <3> QED
      BY <1>2, <1>6, <3>1 DEF Pushed
  <2> QED
    BY <1>6, <2>1 DEF Pushed
<1>8. ASSUME NEW r \in Rules
      PROVE  IF r \in KeepFrames THEN Leads(r, new, frames'[r], ParserAncestors(r, Node))
             ELSE frames'[r] = <<>>
  <2>1. frames[r] = IF Frames[r] = "none" THEN <<>> ELSE ParserAncestors(r, n)
    BY <1>1, <1>3, CallFrames DEF Wanted, Node
  <2>2. Class(tree, n) \notin Branches
    BY <1>2, <1>3 DEF Branches, ClassIndex
  <2>3. CASE r \in KeepClauses
    <3>1. Frames[r] = "clause" /\ r \in KeepFrames /\ RESCUE \in Mask[r]
      BY <2>3, MaskAssumption DEF KeepClauses, KeepFrames
    <3>2. frames'[r] = Append(ParserAncestors(r, n), n)
      BY <1>3, <1>6, <2>1, <2>3, <3>1 DEF Pushed, Bucket
    <3>3. frames'[r] = Inner(r, n)
      BY <1>2, <1>3, <3>1, <3>2 DEF Inner
    <3> QED
      BY <1>3, <1>4, <3>1, <3>3
  <2>4. CASE r \in KeepFrames /\ r \notin KeepClauses
    <3>1. Frames[r] # "none" /\ Frames[r] # "clause"
      BY <2>4 DEF KeepFrames, KeepClauses
    <3>2. frames'[r] = Inner(r, n)
      BY <1>3, <1>6, <2>1, <2>2, <2>4, <3>1 DEF Pushed, Inner
    <3> QED
      BY <1>3, <1>4, <2>4, <3>2
  <2>5. CASE r \notin KeepFrames
    BY <1>6, <2>1, <2>5 DEF Pushed, KeepFrames, KeepClauses
  <2> QED
    BY <2>3, <2>4, <2>5
<1>9. ASSUME NEW r \in Rules, Kind(Node) \in Reports[r] PROVE r \in Bucket(RESCUE)
  BY <1>2, <1>9, MaskFacts DEF Kind, Class, Bucket
<1> QED
  BY <1>1, <1>2, <1>3, <1>4, <1>5, <1>6, <1>7, <1>8, <1>9, VisitStep

\* A frame taken off again.
LEMMA PopIs ==
    ASSUME NEW A, NEW s \in Seq(A), NEW e \in A
    PROVE  Append(s, e) # <<>> /\ SubSeq(Append(s, e), 1, Len(Append(s, e)) - 1) = s
<1>1. PICK t : t = Append(s, e)
  OBVIOUS
<1>2. PICK k \in Nat : k = Len(s) /\ Len(t) = k + 1 /\ \A i \in 1 .. k : t[i] = s[i]
  BY <1>1
<1>3. t \in Seq(A) /\ t # <<>>
  BY <1>1
<1>4. PICK u : u = SubSeq(t, 1, k)
  OBVIOUS
<1>5. u \in Seq(A) /\ Len(u) = k /\ \A i \in 1 .. k : u[i] = t[i]
  BY <1>2, <1>3, <1>4
<1>6. u = s
  BY <1>2, <1>5, SeqEqual
<1> QED
  BY <1>1, <1>2, <1>3, <1>4, <1>6

\* The path to a position does not change when a node comes on top.
LEMMA PrefixIs ==
    ASSUME NEW A, NEW s \in Seq(A), NEW e \in A, NEW i \in 1 .. Len(s) + 1
    PROVE  SubSeq(Append(s, e), 1, i - 1) = SubSeq(s, 1, i - 1)
<1>1. PICK t, k : t = Append(s, e) /\ k = i - 1
  OBVIOUS
<1>2. /\ t \in Seq(A) /\ Len(t) = Len(s) + 1 /\ Len(s) \in Nat /\ k \in 0 .. Len(s)
      /\ \A j \in 1 .. Len(s) : t[j] = s[j]
  BY <1>1
<1>3. PICK u, v : u = SubSeq(t, 1, k) /\ v = SubSeq(s, 1, k)
  OBVIOUS
<1>4. u \in Seq(A) /\ Len(u) = k /\ \A j \in 1 .. k : u[j] = t[j]
  BY <1>2, <1>3
<1>5. v \in Seq(A) /\ Len(v) = k /\ \A j \in 1 .. k : v[j] = s[j]
  BY <1>2, <1>3
<1>6. u = v
  BY <1>2, <1>4, <1>5, SeqEqual
<1> QED
  BY <1>1, <1>3, <1>6

\* And the path to the last one is the whole sequence.
LEMMA WholeIs ==
    ASSUME NEW A, NEW s \in Seq(A)
    PROVE  SubSeq(s, 1, Len(s)) = s
<1>1. PICK k \in Nat : k = Len(s)
  OBVIOUS
<1>2. PICK u : u = SubSeq(s, 1, k)
  OBVIOUS
<1>3. u \in Seq(A) /\ Len(u) = k /\ \A j \in 1 .. k : u[j] = s[j]
  BY <1>1, <1>2
<1>4. u = s
  BY <1>1, <1>3, SeqEqual
<1> QED
  BY <1>1, <1>2, <1>4

\* A node closes.
LEMMA LeaveBranchStep ==
    ASSUME WalkInv, LeaveBranch
    PROVE  WalkInv'
<1>1. tree \in Shapes /\ TypeOK /\ todo # <<>> /\ Head(todo)[1] = "leave"
  BY DEF WalkInv, LeaveBranch, Next
<1>2. /\ Node \in Nodes /\ Class(tree, Node) \in Branches
      /\ tree' = tree /\ reports' = reports /\ todo' = Tail(todo)
      /\ frames' = Popped(Bucket(LEAVE) \cap KeepFrames)
  BY <1>1, CallFrames DEF LeaveBranch, Calls, Node
<1>3. ASSUME NEW r \in Rules
      PROVE  /\ frames'[r] = IF r \in KeepFrames THEN ParserAncestors(r, Node) ELSE <<>>
             /\ frames'[r] \in Seq(Nodes)
  <2>1. frames[r] = IF Frames[r] = "none" THEN <<>> ELSE Inner(r, Node)
    BY <1>1, CallFrames DEF Wanted, Node
  <2>2. CASE r \in KeepFrames
    <3>1. Frames[r] # "none" /\ LEAVE \in Mask[r]
      BY <2>2, MaskAssumption DEF KeepFrames
    <3>2. PICK p, n : p = ParserAncestors(r, Node) /\ n = Node
      OBVIOUS
    <3>3. p \in Seq(Nodes) /\ n \in Nodes
      BY <1>1, <1>2, <3>2, AncestorsType
    <3>4. frames[r] = Append(p, n)
      BY <1>2, <2>1, <3>1, <3>2 DEF Inner
    <3>5. /\ Append(p, n) # <<>>
          /\ SubSeq(Append(p, n), 1, Len(Append(p, n)) - 1) = p
      BY <3>3, PopIs
    <3>6. frames'[r] = p
      BY <1>2, <2>2, <3>1, <3>4, <3>5 DEF Popped, Bucket
    <3> QED
      BY <2>2, <3>2, <3>3, <3>6
  <2>3. CASE r \notin KeepFrames
    <3>1. frames'[r] = <<>>
      BY <1>2, <2>1, <2>3 DEF Popped, KeepFrames
    <3> QED
      BY <2>3, <3>1
  <2> QED
    BY <2>2, <2>3
<1>4. frames' \in [Rules -> Seq(Nodes)]
  BY <1>2, <1>3 DEF Popped
<1> QED
  BY <1>1, <1>2, <1>3, <1>4, LeaveStep

\* A rescue clause closes.
LEMMA LeaveRescueStep ==
    ASSUME WalkInv, LeaveRescue
    PROVE  WalkInv'
<1>1. tree \in Shapes /\ TypeOK /\ todo # <<>> /\ Head(todo)[1] = "leaveRescue"
  BY DEF WalkInv, LeaveRescue, Next
<1>2. /\ Node \in Nodes /\ Class(tree, Node) = "rescue"
      /\ tree' = tree /\ reports' = reports /\ todo' = Tail(todo)
      /\ frames' = Popped(Bucket(RESCUE) \cap KeepClauses)
  BY <1>1, CallFrames DEF LeaveRescue, Calls, Node
<1>3. Class(tree, Node) \notin Branches
  BY <1>2 DEF Branches, ClassIndex
<1>4. ASSUME NEW r \in Rules
      PROVE  /\ frames'[r] = IF r \in KeepFrames THEN ParserAncestors(r, Node) ELSE <<>>
             /\ frames'[r] \in Seq(Nodes)
  <2>1. frames[r] = IF Frames[r] = "none" THEN <<>> ELSE Inner(r, Node)
    BY <1>1, CallFrames DEF Wanted, Node
  <2>2. PICK p, n : p = ParserAncestors(r, Node) /\ n = Node
    OBVIOUS
  <2>3. p \in Seq(Nodes) /\ n \in Nodes
    BY <1>1, <1>2, <2>2, AncestorsType
  <2>4. CASE r \in KeepClauses
    <3>1. Frames[r] = "clause" /\ r \in KeepFrames /\ RESCUE \in Mask[r]
      BY <2>4, MaskAssumption DEF KeepClauses, KeepFrames
    <3>2. frames[r] = Append(p, n)
      BY <1>2, <2>1, <2>2, <3>1 DEF Inner
    <3>3. /\ Append(p, n) # <<>>
          /\ SubSeq(Append(p, n), 1, Len(Append(p, n)) - 1) = p
      BY <2>3, PopIs
    <3>4. frames'[r] = p
      BY <1>2, <2>4, <3>1, <3>2, <3>3 DEF Popped, Bucket
    <3> QED
      BY <2>2, <2>3, <3>1, <3>4
  <2>5. CASE r \in KeepFrames /\ r \notin KeepClauses
    <3>1. Frames[r] # "none" /\ Frames[r] # "clause"
      BY <2>5 DEF KeepFrames, KeepClauses
    <3>2. frames[r] = p
      BY <1>3, <2>1, <2>2, <3>1 DEF Inner
    <3>3. frames'[r] = p
      BY <1>2, <2>5, <3>2 DEF Popped
    <3> QED
      BY <2>2, <2>3, <2>5, <3>3
  <2>6. CASE r \notin KeepFrames
    <3>1. frames'[r] = <<>>
      BY <1>2, <2>1, <2>6 DEF Popped, KeepFrames
    <3> QED
      BY <2>6, <3>1
  <2> QED
    BY <2>4, <2>5, <2>6
<1>5. frames' \in [Rules -> Seq(Nodes)]
  BY <1>2, <1>4 DEF Popped
<1> QED
  BY <1>1, <1>2, <1>4, <1>5, LeaveStep

\* A visit goes to the first node that is not entered.
LEMMA VisitIsNext ==
    ASSUME WalkInv, WalkNext, Next("visit"), NEW m \in 0 .. Len(tree.parent), OrderInv(todo, m)
    PROVE  /\ Node = m + 1 /\ m + 1 \in Nodes /\ m + 1 \in 0 .. Len(tree.parent)
           /\ tree' = tree /\ OrderInv(todo', m + 1)
<1>1. tree \in Shapes /\ todo \in Seq(Calls) /\ todo # <<>> /\ Head(todo)[1] = "visit"
  BY DEF WalkInv, Next
<1>2. Node \in Nodes
  BY <1>1, CallFrames
<1>3. PICK n, x : n = Node /\ x = todo
  OBVIOUS
<1>4. ASSUME NEW new \in Seq(Calls), Ordered(new), Pending(new) = {j \in Nodes : tree.parent[j] = n},
             todo' = new \o Tail(x)
      PROVE  Node = m + 1 /\ m + 1 \in Nodes /\ m + 1 \in 0 .. Len(tree.parent) /\ OrderInv(todo', m + 1)
  <2>1. Head(x)[2] = n
    BY <1>3 DEF Node
  <2>2. Pending(new) = {j \in Nodes : tree.parent[j] = Head(x)[2]}
    BY <1>4, <2>1
  <2>3. x \in Seq(Calls) /\ x # <<>> /\ Head(x)[1] = "visit" /\ OrderInv(x, m)
    BY <1>1, <1>3
  <2>4. /\ Head(x)[2] = m + 1 /\ m + 1 \in Nodes
        /\ m + 1 \in 0 .. Len(tree.parent)
        /\ OrderInv(new \o Tail(x), m + 1)
    BY <1>1, <1>4, <2>2, <2>3, OrderVisit
  <2> QED
    BY <1>3, <1>4, <2>1, <2>4
<1>5. CASE EnterBranch
  <2>1. Class(tree, n) \in Branches /\ tree' = tree
    BY <1>3, <1>5 DEF EnterBranch
  <2>2. PICK kids, leave : kids = Visits(Children(tree.parent, n)) /\ leave = <<<<"leave", n>>>>
    OBVIOUS
  <2>3. PICK new : new = kids \o leave
    OBVIOUS
  <2>4. new \in Seq(Calls) /\ Ordered(new) /\ Pending(new) = {j \in Nodes : tree.parent[j] = n}
    BY <1>1, <1>2, <1>3, <2>1, <2>2, <2>3, BranchCalls
  <2>5. todo' = new \o Tail(x)
    <3>1. todo' = kids \o leave \o Tail(x)
      BY <1>3, <1>5, <2>2 DEF EnterBranch
    <3> QED
      BY <2>3, <3>1
  <2> QED
    BY <1>4, <2>1, <2>4, <2>5
<1>6. CASE EnterLeaf
  <2>1. Class(tree, n) = "leaf" /\ tree' = tree /\ todo' = Tail(todo)
    BY <1>3, <1>6 DEF EnterLeaf
  <2>2. <<>> \in Seq(Calls) /\ Ordered(<<>>) /\ Pending(<<>>) = {}
    BY DEF Ordered, Pending
  <2>3. {j \in Nodes : tree.parent[j] = n} = {}
    <3> SUFFICES ASSUME NEW j \in Nodes, tree.parent[j] = n PROVE FALSE
      OBVIOUS
    <3>1. j \in 2 .. Len(tree.kind)
      BY <1>1, <1>2, <1>3, TreeFacts
    <3>2. WellFormed(tree)
      BY <1>1, ShapesAssumption
    <3>3. Class(tree, tree.parent[j]) # "leaf"
      BY <3>1, <3>2 DEF WellFormed
    <3> QED
      BY <2>1, <3>3
  <2>4. todo' = <<>> \o Tail(x)
    <3>1. Tail(x) \in Seq(Calls)
      BY <1>1, <1>3, HeadTailProperties
    <3> QED
      BY <1>3, <2>1, <3>1, ConcatEmptySeq
  <2> QED
    BY <1>4, <2>1, <2>2, <2>3, <2>4
<1>7. CASE VisitDirect
  <2>1. Class(tree, n) = "direct" /\ tree' = tree
    BY <1>3, <1>7 DEF VisitDirect
  <2>2. PICK new : new = Visits(Children(tree.parent, n))
    OBVIOUS
  <2>3. new \in Seq(Calls) /\ Ordered(new) /\ Pending(new) = {j \in Nodes : tree.parent[j] = n}
    BY <1>1, <1>2, <1>3, <2>1, <2>2, DirectCalls
  <2>4. todo' = new \o Tail(x)
    BY <1>3, <1>7, <2>2 DEF VisitDirect
  <2> QED
    BY <1>4, <2>1, <2>3, <2>4
<1>8. CASE EnterRescue
  <2>1. Class(tree, n) = "rescue" /\ tree' = tree
    BY <1>3, <1>8 DEF EnterRescue
  <2>2. PICK new : new = Clause(n)
    OBVIOUS
  <2>3. new \in Seq(Calls) /\ Ordered(new) /\ Pending(new) = {j \in Nodes : tree.parent[j] = n}
    BY <1>1, <1>2, <1>3, <2>1, <2>2, ClauseCalls
  <2>4. todo' = new \o Tail(x)
    BY <1>3, <1>8, <2>2 DEF EnterRescue
  <2> QED
    BY <1>4, <2>1, <2>3, <2>4
<1>9. ~LeaveBranch /\ ~LeaveRescue
  BY DEF LeaveBranch, LeaveRescue, Next
<1> QED
  BY <1>5, <1>6, <1>7, <1>8, <1>9 DEF WalkNext

-----------------------------------------------------------------------------

\* The walk starts at the root, with empty stacks and nothing reported.
LEMMA WalkInvInit ==
    ASSUME WalkInit
    PROVE  WalkInv
<1>1. /\ tree \in Shapes /\ todo = <<<<"visit", 1>>>>
      /\ frames = [r \in Rules |-> <<>>] /\ reports = [r \in Rules |-> <<>>]
  BY DEF WalkInit
<1>2. OrderInv(todo, 0) /\ <<"visit", 1>> \in Calls /\ 0 \in 0 .. Len(tree.parent)
  BY <1>1, OrderStart, TreeFacts
<1>3. todo \in Seq(Calls)
  BY <1>1, <1>2
<1>4. TypeOK
  <2>1. Calls \subseteq {"visit", "leave", "leaveRescue"} \X Nodes
    BY DEF Calls
  <2>2. todo \in Seq({"visit", "leave", "leaveRescue"} \X Nodes)
    BY <1>3, <2>1, SeqMonotonic
  <2>3. frames \in [Rules -> Seq(Nodes)] /\ reports \in [Rules -> Seq(Nodes \X Seq(Nodes))]
    BY <1>1
  <2> QED
    BY <1>1, <2>2, <2>3, TreeFacts DEF TypeOK
<1>5. FramesInv
  <2>1. ASSUME NEW r \in Rules PROVE Leads(r, todo, <<>>, <<>>)
    BY <1>1, AncestorsOfRoot DEF Leads, Wanted
  <2> QED
    BY <1>1, <2>1 DEF FramesInv
<1>6. ReportsInv(0)
  <2>1. UpTo(0) = <<>>
    BY DEF UpTo
  <2>2. ASSUME NEW r \in Rules PROVE Told(r, Filter(UpTo(0), Mine(r))) = <<>>
    BY <2>1, FilterEmpty DEF Told
  <2> QED
    BY <1>1, <2>2 DEF ReportsInv
<1> QED
  BY <1>1, <1>2, <1>3, <1>4, <1>5, <1>6 DEF WalkInv

\* Every step of the walk keeps the invariant.
LEMMA WalkInvNext ==
    ASSUME WalkInv, [WalkNext]_walkVars
    PROVE  WalkInv'
<1>1. CASE EnterBranch
  BY <1>1, EnterBranchStep
<1>2. CASE LeaveBranch
  BY <1>2, LeaveBranchStep
<1>3. CASE EnterLeaf
  BY <1>3, EnterLeafStep
<1>4. CASE VisitDirect
  BY <1>4, VisitDirectStep
<1>5. CASE EnterRescue
  BY <1>5, EnterRescueStep
<1>6. CASE LeaveRescue
  BY <1>6, LeaveRescueStep
<1>7. CASE UNCHANGED walkVars
  <2>1. tree' = tree /\ todo' = todo /\ frames' = frames /\ reports' = reports
    BY <1>7 DEF walkVars
  <2>2. PICK m \in 0 .. Len(tree.parent) : OrderInv(todo, m) /\ ReportsInv(m)
    BY DEF WalkInv
  <2> QED
    BY <2>1, <2>2, InvAfter DEF WalkInv, TypeOK, FramesInv, ReportsInv
<1> QED
  BY <1>1, <1>2, <1>3, <1>4, <1>5, <1>6, <1>7 DEF WalkNext

\* The invariant holds of every state of the walk.
THEOREM WalkInvAlways == WalkSpec => []WalkInv
<1>1. WalkInit => WalkInv
  BY WalkInvInit
<1>2. WalkInv /\ [WalkNext]_walkVars => WalkInv'
  BY WalkInvNext
<1> QED
  BY <1>1, <1>2, PTL DEF WalkSpec

\* Every variable of the walk has its type: calls and frames are for nodes of
\* the tree that is walked.
THEOREM WalkTypeOK == WalkSpec => []TypeOK
<1>1. WalkInv => TypeOK
  BY DEF WalkInv
<1> QED
  BY <1>1, WalkInvAlways, PTL

\* The invariant gives the frames ...
LEMMA InvFrames ==
    ASSUME WalkInv
    PROVE  FramesAreAncestors
<1>1. ASSUME NEW r \in KeepFrames
      PROVE  frames[r] = IF todo = <<>> THEN <<>>
                         ELSE IF Head(todo)[1] = "visit" THEN ParserAncestors(r, Node)
                         ELSE frames[r]
  <2>1. r \in Rules /\ Frames[r] # "none"
    BY DEF KeepFrames
  <2>2. CASE todo = <<>>
    <3>1. Leads(r, todo, frames[r], <<>>)
      BY <1>1, <2>1 DEF WalkInv, FramesInv
    <3> QED
      BY <2>2, <3>1 DEF Leads
  <2>3. CASE todo # <<>>
    BY <1>1, <2>1, <2>3, CallFrames DEF Wanted, Node
  <2> QED
    BY <2>2, <2>3
<1> QED
  BY <1>1 DEF FramesAreAncestors

\* ... and the reports.
LEMMA InvReports ==
    ASSUME WalkInv
    PROVE  ReportsAsAlone
<1>1. ASSUME todo = <<>>, NEW r \in Rules
      PROVE  reports[r] = Told(r, Filter(UpTo(Len(tree.parent)), Mine(r)))
  <2>1. PICK m \in 0 .. Len(tree.parent) : OrderInv(todo, m) /\ ReportsInv(m)
    BY <1>1 DEF WalkInv
  <2>2. tree \in Shapes
    BY <1>1 DEF WalkInv
  <2>3. OrderInv(<<>>, m)
    BY <1>1, <2>1
  <2>4. m = Len(tree.parent)
    BY <2>2, <2>3, OrderEnd
  <2> QED
    BY <2>1, <2>4 DEF ReportsInv
<1> QED
  BY <1>1 DEF ReportsAsAlone, Told, Mine

\* Whenever dispatch::run is about to visit a node, the stack of every rule that
\* keeps one holds the ancestors of that node, and at the end it is empty, on
\* every tree and with every set of rules whose masks have what they need.
THEOREM FramesHoldAncestors == WalkSpec => []FramesAreAncestors
<1>1. WalkInv => FramesAreAncestors
  BY InvFrames
<1> QED
  BY <1>1, WalkInvAlways, PTL

\* Every rule reports exactly the nodes of its kinds, in the order of the
\* source, each under the ancestors the parser gem gives it: in one walk with
\* the other rules it does what it would do alone.
THEOREM WalkReportsAsAlone == WalkSpec => []ReportsAsAlone
<1>1. WalkInv => ReportsAsAlone
  BY InvReports
<1> QED
  BY <1>1, WalkInvAlways, PTL

-----------------------------------------------------------------------------
(* The rules the walk drives.                                              *)

\* What every step of WalkedCops is to the walk.
LEMMA HookIsWalkStep ==
    ASSUME OnHook
    PROVE  WalkNext
<1>1. CASE OnBranch
  BY <1>1 DEF OnBranch, WalkNext
<1>2. CASE OnLeave
  BY <1>2 DEF OnLeave, WalkNext
<1>3. CASE OnLeaf
  BY <1>3 DEF OnLeaf, WalkNext
<1>4. CASE OnDirect
  BY <1>4 DEF OnDirect, WalkNext
<1>5. CASE OnRescue
  BY <1>5 DEF OnRescue, WalkNext
<1>6. CASE OnRescueLeave
  BY <1>6 DEF OnRescueLeave, WalkNext
<1> QED
  BY <1>1, <1>2, <1>3, <1>4, <1>5, <1>6 DEF OnHook

\* Another file, or another round, is another walk from the start.
LEMMA AgainIsWalkStart ==
    ASSUME WalkAgain
    PROVE  WalkInit'
BY DEF WalkAgain, WalkInit

\* A step of the rules is a step of the walk, or starts another one.
LEMMA CopsWalkStep ==
    ASSUME [CopsNext]_<<walkVars, copVars, fileVars>>
    PROVE  [WalkNext]_walkVars \/ WalkInit'
<1>1. CASE OnHook
  BY <1>1, HookIsWalkStep
<1>2. CASE OnInvestigation
  BY <1>2 DEF OnInvestigation, Investigate
<1>3. CASE NextFile
  BY <1>3, AgainIsWalkStart DEF NextFile
<1>4. CASE NextRound
  BY <1>4, AgainIsWalkStart DEF NextRound
<1> QED
  BY <1>1, <1>2, <1>3, <1>4 DEF CopsNext

\* The invariant of the walk holds of every state in which the rules run.
THEOREM CopsWalkInv == CopsSpec => []WalkInv
<1>1. WalkInit => WalkInv
  BY WalkInvInit
<1>2. CopsInit => WalkInit
  BY DEF CopsInit
<1>3. WalkInit' => WalkInv'
  BY <1>1, PTL
<1>4. WalkInv /\ [WalkNext]_walkVars => WalkInv'
  BY WalkInvNext
<1>5. WalkInv /\ [CopsNext]_<<walkVars, copVars, fileVars>> => WalkInv'
  BY <1>3, <1>4, CopsWalkStep
<1> QED
  BY <1>1, <1>2, <1>5, PTL DEF CopsSpec

\* dispatch::run keeps the frames of every rule right also when it walks the
\* next file, or the same file after a round of corrections.
THEOREM CopsFramesHoldAncestors == CopsSpec => []FramesAreAncestors
<1>1. WalkInv => FramesAreAncestors
  BY InvFrames
<1> QED
  BY <1>1, CopsWalkInv, PTL

\* And every rule reports what it would report alone, in each of these walks.
THEOREM CopsReportAsAlone == CopsSpec => []ReportsAsAlone
<1>1. WalkInv => ReportsAsAlone
  BY InvReports
<1> QED
  BY <1>1, CopsWalkInv, PTL

-----------------------------------------------------------------------------
(* The registry of DuplicateMethods.                                       *)

\* A sequence, of whatever elements.
IsSequence(s) == \E S : s \in Seq(S)

\* Appending gives a sequence.
LEMMA AppendIs ==
    ASSUME NEW s, IsSequence(s), NEW e
    PROVE  /\ IsSequence(Append(s, e))
           /\ Len(s) \in Nat /\ Len(Append(s, e)) = Len(s) + 1
           /\ DOMAIN s = 1 .. Len(s) /\ DOMAIN Append(s, e) = 1 .. Len(s) + 1
           /\ \A i \in 1 .. Len(s) : Append(s, e)[i] = s[i]
           /\ Append(s, e)[Len(s) + 1] = e
<1>1. PICK S : s \in Seq(S)
  BY DEF IsSequence
<1>2. s \in Seq(S \cup {e}) /\ e \in S \cup {e}
  <2>1. S \subseteq S \cup {e}
    OBVIOUS
  <2> QED
    BY <1>1, <2>1, SeqMonotonic
<1>3. Append(s, e) \in Seq(S \cup {e})
  BY <1>2
<1> QED
  BY <1>2, <1>3 DEF IsSequence

IsDefinition(log, j) == j \in 1 .. Len(log) /\ ~log[j].event.marks

\* Entry j is the definition of the key that counts: the last not reported.
CountsFor(log, key, j) ==
    /\ IsDefinition(log, j) /\ KeyAt(log, j) = key /\ ~log[j].offense
    /\ \A k : IsDefinition(log, k) /\ KeyAt(log, k) = key /\ ~log[k].offense => k <= j

RegistryShape(r) ==
    /\ {"definitions", "scopes", "marked", "log", "seen"} = DOMAIN r
    /\ IsSequence(r.log)

\* The definitions are those that count.
DefinitionsInv(r) ==
    /\ \A d \in r.definitions :
          \E j : CountsFor(r.log, d.key, j) /\ d.path = r.log[j].path
    /\ \A j : IsDefinition(r.log, j) => Known(r, KeyAt(r.log, j))

\* The scopes are those under which a key was defined a second time.
ScopesInv(r) ==
    \A s, key : <<s, key>> \in r.scopes <=>
        s # 0 /\ \E j : /\ IsDefinition(r.log, j) /\ KeyAt(r.log, j) = key
                        /\ r.log[j].event.scope = s /\ Before(r.log, j) # {}

\* The marked names are those of the file under investigation.
MarkedInv(r, p) ==
    \A name : name \in r.marked <=>
        \E j \in 1 .. Len(r.log) :
            r.log[j].event.marks /\ r.log[j].event.name = name /\ r.log[j].path = p

PathsInv(r, p) == \A j \in 1 .. Len(r.log) : r.log[j].path \in Nat /\ r.log[j].path <= p

LogInv(log) == \A i \in 1 .. Len(log) : log[i].offense <=> OffenseByHistory(log, i)

HistoryInv(r, p) ==
    RegistryShape(r) /\ DefinitionsInv(r) /\ ScopesInv(r) /\ PathsInv(r, p) /\ LogInv(r.log)

\* A set of numbers that is not empty and has a bound has a greatest element.
LEMMA GreatestNumber ==
    ASSUME NEW n \in Nat, NEW T, T \subseteq 1 .. n, T # {}
    PROVE  \E x \in T : \A y \in T : y <= x
<1> DEFINE U == {n - y : y \in T}
<1>1. U \subseteq Nat /\ U # {}
  <2>1. PICK y : y \in T
    OBVIOUS
  <2>2. n - y \in U
    BY <2>1
  <2>3. \A z \in T : n - z \in Nat
    OBVIOUS
  <2> QED
    BY <2>2, <2>3
<1>2. PICK u \in U : \A v \in U : u <= v
  BY <1>1, LeastNumber
<1>3. PICK x \in T : u = n - x
  BY <1>2
<1>4. \A y \in T : n - x <= n - y
  BY <1>2, <1>3
<1> QED
  BY <1>4

\* A key that was defined before has a definition that counts: the first one was
\* not reported.
LEMMA LastKeptIs ==
    ASSUME NEW log, Len(log) \in Nat, LogInv(log),
           NEW i \in 1 .. Len(log) + 1, Before(log, i) # {}
    PROVE  /\ LastKept(log, i) \in Before(log, i) /\ ~log[LastKept(log, i)].offense
           /\ \A k \in Before(log, i) : ~log[k].offense => k <= LastKept(log, i)
<1> DEFINE kept == {j \in Before(log, i) : ~log[j].offense}
<1>1. Before(log, i) \subseteq 1 .. i - 1 /\ Before(log, i) \subseteq Nat
  BY DEF Before
<1>2. PICK j \in Before(log, i) : \A k \in Before(log, i) : j <= k
  BY <1>1, LeastNumber
<1>3. Before(log, j) = {}
  BY <1>1, <1>2 DEF Before
<1>4. ~log[j].offense
  BY <1>1, <1>2, <1>3 DEF LogInv, OffenseByHistory
<1>5. kept # {} /\ kept \subseteq 1 .. i - 1 /\ i - 1 \in Nat
  BY <1>1, <1>2, <1>4
<1>6. \E x \in kept : \A y \in kept : y <= x
  BY <1>5, GreatestNumber
<1>7. LastKept(log, i) = CHOOSE x \in kept : \A y \in kept : y <= x
  BY DEF LastKept
<1>8. LastKept(log, i) \in kept /\ \A y \in kept : y <= LastKept(log, i)
  BY <1>6, <1>7
<1> QED
  BY <1>8

\* Of an entry that is appended, the earlier ones say the same as before.
LEMMA HistoryAppend ==
    ASSUME NEW log, IsSequence(log), LogInv(log), NEW x, NEW i \in 1 .. Len(log)
    PROVE  LET longer == Append(log, x)
           IN  /\ KeyAt(longer, i) = KeyAt(log, i)
               /\ Before(longer, i) = Before(log, i)
               /\ OffenseByHistory(longer, i) <=> OffenseByHistory(log, i)
<1> DEFINE longer == Append(log, x)
<1>1. Len(log) \in Nat /\ \A j \in 1 .. Len(log) : longer[j] = log[j]
  BY AppendIs
<1> HIDE DEF longer
<1>2. \A j \in 1 .. Len(log) : KeyAt(longer, j) = KeyAt(log, j)
  BY <1>1 DEF KeyAt
<1>3. \A j \in 1 .. Len(log) : Before(longer, j) = Before(log, j)
  BY <1>1, <1>2 DEF Before
<1>4. LastKept(longer, i) = LastKept(log, i)
  <2>1. {j \in Before(longer, i) : ~longer[j].offense} = {j \in Before(log, i) : ~log[j].offense}
    BY <1>1, <1>3 DEF Before
  <2> QED
    BY <2>1 DEF LastKept
<1>5. Before(log, i) # {} => longer[LastKept(log, i)] = log[LastKept(log, i)]
  <2>1. SUFFICES ASSUME Before(log, i) # {} PROVE LastKept(log, i) \in 1 .. Len(log)
    BY <1>1
  <2>2. LastKept(log, i) \in Before(log, i)
    BY <1>1, <2>1, LastKeptIs
  <2> QED
    BY <1>1, <2>2 DEF Before
<1>6. OffenseByHistory(longer, i) <=> OffenseByHistory(log, i)
  <2> DEFINE firstUnder(l) == \A j \in Before(l, i) : l[j].event.scope = l[i].event.scope => Before(l, j) = {}
             marked(l) == \E j \in 1 .. i - 1 : /\ l[j].event.marks
                                                /\ l[j].event.name = l[i].event.name
                                                /\ l[j].path = l[i].path
  <2>1. firstUnder(longer) <=> firstUnder(log)
    <3>1. \A j \in Before(log, i) : j \in 1 .. Len(log)
      BY <1>1 DEF Before
    <3>2. \A j \in Before(log, i) : longer[j] = log[j] /\ Before(longer, j) = Before(log, j)
      BY <1>1, <1>3, <3>1
    <3> QED
      BY <1>1, <1>3, <3>2
  <2>2. marked(longer) <=> marked(log)
    BY <1>1
  <2>3. longer[i] = log[i] /\ Before(longer, i) = Before(log, i)
    BY <1>1, <1>3
  <2> HIDE DEF firstUnder, marked
  <2>4. ASSUME NEW l PROVE
          OffenseByHistory(l, i) <=>
            /\ ~l[i].event.marks /\ Before(l, i) # {}
            /\ ~(l[i].event.scope # 0 /\ firstUnder(l))
            /\ ~(l[LastKept(l, i)].path # l[i].path /\ (marked(l) \/ AllowedCrossFile))
    BY DEF OffenseByHistory, firstUnder, marked
  <2> QED
    BY <1>4, <1>5, <2>1, <2>2, <2>3, <2>4
<1> QED
  BY <1>2, <1>3, <1>6 DEF longer

\* What there is to know of a log with one more entry.
Extends(log, longer, e, p, o) ==
    /\ IsSequence(longer)
    /\ Len(log) \in Nat /\ Len(longer) = Len(log) + 1
    /\ \A i \in 1 .. Len(log) : /\ longer[i] = log[i] /\ KeyAt(longer, i) = KeyAt(log, i)
                                /\ Before(longer, i) = Before(log, i)
    /\ longer[Len(log) + 1].event = e /\ longer[Len(log) + 1].path = p
    /\ longer[Len(log) + 1].offense = o
    /\ KeyAt(longer, Len(log) + 1) = Key(e, p)
    /\ \A j : j \in Before(longer, Len(log) + 1) <=>
                 IsDefinition(log, j) /\ KeyAt(log, j) = Key(e, p)
    /\ \A j : IsDefinition(longer, j) <=>
                 IsDefinition(log, j) \/ (j = Len(log) + 1 /\ ~e.marks)
    /\ (o <=> OffenseByHistory(longer, Len(log) + 1)) => LogInv(longer)

\* Appending an entry gives such a log.
LEMMA LongerLog ==
    ASSUME NEW log, IsSequence(log), LogInv(log), NEW e, NEW p, NEW o \in BOOLEAN,
           NEW longer, longer = Append(log, [event |-> e, path |-> p, offense |-> o])
    PROVE  Extends(log, longer, e, p, o)
<1> DEFINE x == [event |-> e, path |-> p, offense |-> o]
<1>1. /\ IsSequence(longer)
      /\ Len(log) \in Nat /\ Len(longer) = Len(log) + 1
      /\ \A i \in 1 .. Len(log) : longer[i] = log[i]
      /\ longer[Len(log) + 1] = x
  BY AppendIs
<1>2. x.event = e /\ x.path = p /\ x.offense = o
  OBVIOUS
<1>3. \A i \in 1 .. Len(log) : /\ KeyAt(longer, i) = KeyAt(log, i)
                               /\ Before(longer, i) = Before(log, i)
                               /\ OffenseByHistory(longer, i) <=> OffenseByHistory(log, i)
  BY HistoryAppend
<1> HIDE DEF x
<1>4. KeyAt(longer, Len(log) + 1) = Key(e, p)
  BY <1>1, <1>2 DEF KeyAt
<1>5. ASSUME NEW j PROVE j \in Before(longer, Len(log) + 1) <=> IsDefinition(log, j) /\ KeyAt(log, j) = Key(e, p)
  <2>1. j \in Before(longer, Len(log) + 1) <=>
          j \in 1 .. Len(log) /\ ~longer[j].event.marks /\ KeyAt(longer, j) = Key(e, p)
    BY <1>1, <1>4 DEF Before
  <2> QED
    BY <1>1, <1>3, <2>1 DEF IsDefinition
<1>6. ASSUME NEW j PROVE IsDefinition(longer, j) <=> IsDefinition(log, j) \/ (j = Len(log) + 1 /\ ~e.marks)
  <2>1. j \in 1 .. Len(longer) <=> j \in 1 .. Len(log) \/ j = Len(log) + 1
    BY <1>1
  <2> QED
    BY <1>1, <1>2, <2>1 DEF IsDefinition
<1>7. ASSUME o <=> OffenseByHistory(longer, Len(log) + 1) PROVE LogInv(longer)
  <2>1. \A i \in 1 .. Len(log) : longer[i].offense <=> OffenseByHistory(longer, i)
    BY <1>1, <1>3 DEF LogInv
  <2>2. longer[Len(log) + 1].offense <=> OffenseByHistory(longer, Len(log) + 1)
    BY <1>1, <1>2, <1>7
  <2>3. \A i \in 1 .. Len(longer) : i \in 1 .. Len(log) \/ i = Len(log) + 1
    BY <1>1
  <2> QED
    BY <2>1, <2>2, <2>3 DEF LogInv
<1> QED
  BY <1>1, <1>2, <1>3, <1>4, <1>5, <1>6, <1>7 DEF Extends

\* A key is in the registry when it was defined, and then with the path of the
\* definition that counts.
LEMMA KnownIs ==
    ASSUME NEW r, NEW p, HistoryInv(r, p), NEW key
    PROVE  /\ Known(r, key) <=> \E j : IsDefinition(r.log, j) /\ KeyAt(r.log, j) = key
           /\ Known(r, key) => \E j : /\ CountsFor(r.log, key, j)
                                      /\ Definition(r, key).path = r.log[j].path
<1>1. DefinitionsInv(r)
  BY DEF HistoryInv
<1>2. ASSUME Known(r, key)
      PROVE  \E j : CountsFor(r.log, key, j) /\ Definition(r, key).path = r.log[j].path
  <2>1. Definition(r, key) \in r.definitions /\ Definition(r, key).key = key
    BY <1>2 DEF Known, Definition
  <2> QED
    BY <1>1, <2>1 DEF DefinitionsInv
<1>3. ASSUME NEW j, IsDefinition(r.log, j), KeyAt(r.log, j) = key PROVE Known(r, key)
  BY <1>1, <1>3 DEF DefinitionsInv
<1> QED
  BY <1>2, <1>3 DEF CountsFor


Entry(e, p, offense) == [event |-> e, path |-> p, offense |-> offense]

Registered(r, e, p) ==
    {d \in r.definitions : d.key # Key(e, p)} \cup {[key |-> Key(e, p), path |-> p]}

\* What an event makes of a registry, case by case.
Outcome(r, e, p, q, key, scope) ==
    \/ /\ e.marks /\ q.log = Append(r.log, Entry(e, p, FALSE))
       /\ q.definitions = r.definitions /\ q.scopes = r.scopes
       /\ q.marked = r.marked \cup {e.name}
    \/ /\ ~e.marks /\ q.marked = r.marked
       /\ \/ /\ ~Known(r, key) /\ q.log = Append(r.log, Entry(e, p, FALSE))
             /\ q.definitions = Registered(r, e, p) /\ q.scopes = r.scopes
          \/ /\ Known(r, key) /\ e.scope # 0 /\ scope \notin r.scopes
             /\ q.log = Append(r.log, Entry(e, p, FALSE))
             /\ q.definitions = Registered(r, e, p) /\ q.scopes = r.scopes \cup {scope}
          \/ /\ Known(r, key) /\ (e.scope = 0 \/ scope \in r.scopes)
             /\ Excused(r, e, Definition(r, key).path, p)
             /\ q.log = Append(r.log, Entry(e, p, FALSE))
             /\ q.definitions = Registered(r, e, p) /\ q.scopes = r.scopes
          \/ /\ Known(r, key) /\ (e.scope = 0 \/ scope \in r.scopes)
             /\ ~Excused(r, e, Definition(r, key).path, p)
             /\ q.log = Append(r.log, Entry(e, p, TRUE))
             /\ q.definitions = r.definitions /\ q.scopes = r.scopes

\* Replay is just these cases.
LEMMA ReplayIs ==
    ASSUME NEW r, RegistryShape(r), NEW e, NEW p, NEW q, q = Replay(r, e, p),
           NEW key, key = Key(e, p), NEW scope, scope = <<e.scope, key>>
    PROVE  /\ RegistryShape(q)
           /\ Outcome(r, e, p, q, key, scope)
<1>1. ASSUME NEW o PROVE
        /\ DOMAIN Logged(r, e, p, o) = DOMAIN r
        /\ Logged(r, e, p, o).log = Append(r.log, Entry(e, p, o))
        /\ Logged(r, e, p, o).definitions = r.definitions
        /\ Logged(r, e, p, o).scopes = r.scopes /\ Logged(r, e, p, o).marked = r.marked
  BY DEF Logged, Entry, RegistryShape
<1>2. ASSUME NEW o PROVE
        LET g == Register(r, key, p)
            l == Logged(g, e, p, o)
        IN  /\ DOMAIN l = DOMAIN r
            /\ l.log = Append(r.log, Entry(e, p, o))
            /\ l.definitions = Registered(r, e, p)
            /\ l.scopes = r.scopes /\ l.marked = r.marked
  <2>1. PICK g : g = Register(r, key, p)
    OBVIOUS
  <2>2. /\ DOMAIN g = DOMAIN r /\ g.log = r.log /\ g.scopes = r.scopes /\ g.marked = r.marked
        /\ g.definitions = Registered(r, e, p)
    BY <2>1 DEF Register, Registered, RegistryShape
  <2>3. PICK l : l = Logged(g, e, p, o)
    OBVIOUS
  <2>4. /\ DOMAIN l = DOMAIN g /\ l.log = Append(g.log, Entry(e, p, o))
        /\ l.definitions = g.definitions /\ l.scopes = g.scopes /\ l.marked = g.marked
    BY <2>2, <2>3 DEF Logged, Entry, RegistryShape
  <2> QED
    BY <2>1, <2>2, <2>3, <2>4
<1>3. IsSequence(Append(r.log, Entry(e, p, TRUE))) /\ IsSequence(Append(r.log, Entry(e, p, FALSE)))
  BY AppendIs DEF RegistryShape
<1>4. CASE e.marks
  <2>1. PICK l : l = Logged(r, e, p, FALSE)
    OBVIOUS
  <2>2. q = [l EXCEPT !.marked = @ \cup {e.name}]
    BY <1>4, <2>1 DEF Replay
  <2>3. /\ DOMAIN l = DOMAIN r /\ l.log = Append(r.log, Entry(e, p, FALSE))
        /\ l.definitions = r.definitions /\ l.scopes = r.scopes /\ l.marked = r.marked
    BY <1>1, <2>1
  <2>4. /\ DOMAIN q = DOMAIN r /\ q.log = l.log /\ q.definitions = l.definitions
        /\ q.scopes = l.scopes /\ q.marked = l.marked \cup {e.name}
    BY <2>2, <2>3 DEF RegistryShape
  <2> QED
    BY <1>3, <1>4, <2>3, <2>4 DEF RegistryShape, Outcome
<1>5. CASE ~e.marks /\ ~Known(r, key)
  <2>1. q = Logged(Register(r, key, p), e, p, FALSE)
    BY <1>5 DEF Replay
  <2>2. /\ DOMAIN q = DOMAIN r
        /\ q.log = Append(r.log, Entry(e, p, FALSE))
        /\ q.definitions = Registered(r, e, p)
        /\ q.scopes = r.scopes /\ q.marked = r.marked
    BY <1>2, <2>1
  <2> QED
    BY <1>3, <1>5, <2>2 DEF RegistryShape, Outcome
<1>6. CASE ~e.marks /\ Known(r, key) /\ e.scope # 0 /\ scope \notin r.scopes
  <2>1. PICK l : l = Logged(Register(r, key, p), e, p, FALSE)
    OBVIOUS
  <2>2. q = [l EXCEPT !.scopes = @ \cup {scope}]
    BY <1>6, <2>1 DEF Replay
  <2>3. /\ DOMAIN l = DOMAIN r
        /\ l.log = Append(r.log, Entry(e, p, FALSE))
        /\ l.definitions = Registered(r, e, p)
        /\ l.scopes = r.scopes /\ l.marked = r.marked
    BY <1>2, <2>1
  <2>4. /\ DOMAIN q = DOMAIN r /\ q.log = l.log /\ q.definitions = l.definitions
        /\ q.scopes = l.scopes \cup {scope} /\ q.marked = l.marked
    BY <2>2, <2>3 DEF RegistryShape
  <2> QED
    BY <1>3, <1>6, <2>3, <2>4 DEF RegistryShape, Outcome
<1>7. CASE ~e.marks /\ Known(r, key) /\ (e.scope = 0 \/ scope \in r.scopes)
  <2>1. q = IF Excused(r, e, Definition(r, key).path, p)
            THEN Logged(Register(r, key, p), e, p, FALSE) ELSE Logged(r, e, p, TRUE)
    BY <1>7 DEF Replay
  <2>2. CASE Excused(r, e, Definition(r, key).path, p)
    <3>1. /\ DOMAIN q = DOMAIN r
          /\ q.log = Append(r.log, Entry(e, p, FALSE))
          /\ q.definitions = Registered(r, e, p)
          /\ q.scopes = r.scopes /\ q.marked = r.marked
      BY <1>2, <2>1, <2>2
    <3> QED
      BY <1>3, <1>7, <2>2, <3>1 DEF RegistryShape, Outcome
  <2>3. CASE ~Excused(r, e, Definition(r, key).path, p)
    <3>1. /\ DOMAIN q = DOMAIN r
          /\ q.log = Append(r.log, Entry(e, p, TRUE))
          /\ q.definitions = r.definitions
          /\ q.scopes = r.scopes /\ q.marked = r.marked
      BY <1>1, <2>1, <2>3
    <3> QED
      BY <1>3, <1>7, <2>3, <3>1 DEF RegistryShape, Outcome
  <2> QED
    BY <2>2, <2>3
<1> QED
  BY <1>4, <1>5, <1>6, <1>7


\* What counted for a key counts until the key is defined again.
LEMMA StillCounts ==
    ASSUME NEW log, NEW longer, NEW e, NEW p, NEW o, Extends(log, longer, e, p, o),
           NEW key, NEW j, CountsFor(log, key, j),
           e.marks \/ o \/ Key(e, p) # key
    PROVE  CountsFor(longer, key, j) /\ longer[j] = log[j]
<1>1. j \in 1 .. Len(log) /\ IsDefinition(longer, j)
  BY DEF CountsFor, IsDefinition, Extends
<1>2. KeyAt(longer, j) = key /\ ~longer[j].offense
  BY <1>1 DEF CountsFor, Extends
<1>3. ASSUME NEW k, IsDefinition(longer, k), KeyAt(longer, k) = key, ~longer[k].offense
      PROVE  k <= j
  <2>1. k # Len(log) + 1
    BY <1>3 DEF Extends, IsDefinition
  <2>2. IsDefinition(log, k) /\ k \in 1 .. Len(log)
    BY <1>3, <2>1 DEF Extends, IsDefinition
  <2>3. KeyAt(log, k) = key /\ ~log[k].offense
    BY <1>3, <2>2 DEF Extends
  <2> QED
    BY <2>2, <2>3 DEF CountsFor
<1> QED
  BY <1>1, <1>2, <1>3 DEF CountsFor, Extends

\* A definition that is not reported counts from now on.
LEMMA NowCounts ==
    ASSUME NEW log, NEW longer, NEW e, NEW p, NEW o, Extends(log, longer, e, p, o),
           ~e.marks, ~o
    PROVE  CountsFor(longer, Key(e, p), Len(log) + 1)
<1>1. IsDefinition(longer, Len(log) + 1) /\ KeyAt(longer, Len(log) + 1) = Key(e, p)
      /\ ~longer[Len(log) + 1].offense
  BY DEF Extends
<1>2. ASSUME NEW k, IsDefinition(longer, k) PROVE k <= Len(log) + 1
  BY <1>2 DEF Extends, IsDefinition
<1> QED
  BY <1>1, <1>2 DEF CountsFor

\* The definitions of a registry that keeps them, of a marker or a report ...
LEMMA DefinitionsKept ==
    ASSUME NEW r, NEW q, NEW e, NEW p, NEW o, Extends(r.log, q.log, e, p, o),
           DefinitionsInv(r), q.definitions = r.definitions,
           e.marks \/ (o /\ Known(r, Key(e, p)))
    PROVE  DefinitionsInv(q)
<1>1. ASSUME NEW d \in q.definitions
      PROVE  \E j : CountsFor(q.log, d.key, j) /\ d.path = q.log[j].path
  <2>1. PICK j : CountsFor(r.log, d.key, j) /\ d.path = r.log[j].path
    BY DEF DefinitionsInv
  <2>2. CountsFor(q.log, d.key, j) /\ q.log[j] = r.log[j]
    BY <2>1, StillCounts
  <2> QED
    BY <2>1, <2>2
<1>2. ASSUME NEW j, IsDefinition(q.log, j) PROVE Known(q, KeyAt(q.log, j))
  <2>1. CASE IsDefinition(r.log, j)
    <3>1. KeyAt(q.log, j) = KeyAt(r.log, j)
      BY <2>1 DEF Extends, IsDefinition
    <3>2. Known(r, KeyAt(r.log, j))
      BY <2>1 DEF DefinitionsInv
    <3> QED
      BY <3>1, <3>2 DEF Known
  <2>2. CASE j = Len(r.log) + 1 /\ ~e.marks
    <3>1. KeyAt(q.log, j) = Key(e, p)
      BY <2>2 DEF Extends
    <3> QED
      BY <2>2, <3>1 DEF Known
  <2> QED
    BY <1>2, <2>1, <2>2 DEF Extends
<1> QED
  BY <1>1, <1>2 DEF DefinitionsInv

\* ... and of one that registers a definition.
LEMMA DefinitionsRegistered ==
    ASSUME NEW r, NEW q, NEW e, NEW p, NEW o, Extends(r.log, q.log, e, p, o),
           DefinitionsInv(r), q.definitions = Registered(r, e, p), ~e.marks, ~o
    PROVE  DefinitionsInv(q)
<1> DEFINE new == [key |-> Key(e, p), path |-> p]
<1>1. new.key = Key(e, p) /\ new.path = p /\ new \in q.definitions
  BY DEF Registered
<1>2. \A d : d \in q.definitions <=> (d \in r.definitions /\ d.key # Key(e, p)) \/ d = new
  BY DEF Registered
<1> HIDE DEF new
<1>3. ASSUME NEW d \in q.definitions
      PROVE  \E j : CountsFor(q.log, d.key, j) /\ d.path = q.log[j].path
  <2>1. CASE d \in r.definitions /\ d.key # Key(e, p)
    <3>1. PICK j : CountsFor(r.log, d.key, j) /\ d.path = r.log[j].path
      BY <2>1 DEF DefinitionsInv
    <3>2. CountsFor(q.log, d.key, j) /\ q.log[j] = r.log[j]
      BY <2>1, <3>1, StillCounts
    <3> QED
      BY <3>1, <3>2
  <2>2. CASE d = new
    <3>1. CountsFor(q.log, Key(e, p), Len(r.log) + 1)
      BY NowCounts
    <3>2. q.log[Len(r.log) + 1].path = p
      BY DEF Extends
    <3> QED
      BY <1>1, <2>2, <3>1, <3>2
  <2> QED
    BY <1>2, <2>1, <2>2
<1>4. ASSUME NEW j, IsDefinition(q.log, j) PROVE Known(q, KeyAt(q.log, j))
  <2>1. CASE KeyAt(q.log, j) = Key(e, p)
    BY <1>1, <2>1 DEF Known
  <2>2. CASE KeyAt(q.log, j) # Key(e, p)
    <3>1. IsDefinition(r.log, j)
      BY <1>4, <2>2 DEF Extends
    <3>2. KeyAt(q.log, j) = KeyAt(r.log, j)
      BY <3>1 DEF Extends, IsDefinition
    <3>3. Known(r, KeyAt(r.log, j))
      BY <3>1 DEF DefinitionsInv
    <3> QED
      BY <1>2, <2>2, <3>2, <3>3 DEF Known
  <2> QED
    BY <2>1, <2>2
<1> QED
  BY <1>3, <1>4 DEF DefinitionsInv


\* Only the scope of a definition whose key was known is added.
ScopesFollow(r, q, e, key) ==
    \A s, k : <<s, k>> \in q.scopes <=>
                 \/ <<s, k>> \in r.scopes
                 \/ ~e.marks /\ e.scope # 0 /\ Known(r, key) /\ s = e.scope /\ k = key

\* Then the scopes follow the log.
LEMMA ScopesStep ==
    ASSUME NEW p, NEW r, HistoryInv(r, p), NEW q, NEW e, NEW o,
           Extends(r.log, q.log, e, p, o), NEW key, key = Key(e, p),
           ScopesFollow(r, q, e, key)
    PROVE  ScopesInv(q)
<1>6. Known(r, key) <=> \E j : IsDefinition(r.log, j) /\ KeyAt(r.log, j) = key
  BY KnownIs
<1>7. ScopesInv(r)
  BY DEF HistoryInv
<1> DEFINE Second(log, s, k, j) ==
               /\ IsDefinition(log, j) /\ KeyAt(log, j) = k
               /\ log[j].event.scope = s /\ Before(log, j) # {}
<1>1. ASSUME NEW s, NEW k, NEW j, Second(r.log, s, k, j) PROVE Second(q.log, s, k, j)
  <2>1. j \in 1 .. Len(r.log)
    BY <1>1 DEF IsDefinition
  <2> QED
    BY <1>1, <2>1 DEF Extends
<1>2. ASSUME NEW s, NEW k, NEW j, Second(q.log, s, k, j)
      PROVE  Second(r.log, s, k, j) \/ (s = e.scope /\ k = key /\ ~e.marks /\ Known(r, key))
  <2>1. CASE IsDefinition(r.log, j)
    <3>1. j \in 1 .. Len(r.log)
      BY <2>1 DEF IsDefinition
    <3> QED
      BY <1>2, <2>1, <3>1 DEF Extends
  <2>2. CASE j = Len(r.log) + 1 /\ ~e.marks
    <3>1. s = e.scope /\ k = key
      BY <1>2, <2>2 DEF Extends
    <3>2. PICK i : i \in Before(q.log, j)
      BY <1>2
    <3>3. IsDefinition(r.log, i) /\ KeyAt(r.log, i) = key
      BY <2>2, <3>2 DEF Extends
    <3> QED
      BY <1>6, <2>2, <3>1, <3>3
  <2> QED
    BY <1>2, <2>1, <2>2 DEF Extends
<1>3. ASSUME ~e.marks, Known(r, key) PROVE Second(q.log, e.scope, key, Len(r.log) + 1)
  <2>1. PICK i : IsDefinition(r.log, i) /\ KeyAt(r.log, i) = key
    BY <1>3, <1>6
  <2>2. i \in Before(q.log, Len(r.log) + 1)
    BY <2>1 DEF Extends
  <2> QED
    BY <1>3, <2>2 DEF Extends
<1> HIDE DEF Second
<1>4. \A s, k : <<s, k>> \in r.scopes <=> s # 0 /\ \E j : Second(r.log, s, k, j)
  BY <1>7 DEF ScopesInv, Second
<1>5. ASSUME NEW s, NEW k PROVE <<s, k>> \in q.scopes <=> s # 0 /\ \E j : Second(q.log, s, k, j)
  <2>1. ASSUME <<s, k>> \in q.scopes PROVE s # 0 /\ \E j : Second(q.log, s, k, j)
    BY <1>1, <1>3, <1>4, <2>1 DEF ScopesFollow
  <2>2. ASSUME s # 0, NEW j, Second(q.log, s, k, j) PROVE <<s, k>> \in q.scopes
    BY <1>2, <1>4, <2>2 DEF ScopesFollow
  <2> QED
    BY <2>1, <2>2
<1> QED
  BY <1>5 DEF ScopesInv, Second

\* The marked names follow the log.
LEMMA MarkedStep ==
    ASSUME NEW r, NEW q, NEW e, NEW p, NEW o, Extends(r.log, q.log, e, p, o),
           MarkedInv(r, p),
           q.marked = IF e.marks THEN r.marked \cup {e.name} ELSE r.marked
    PROVE  MarkedInv(q, p)
<1> DEFINE Marks(log, name, j) == log[j].event.marks /\ log[j].event.name = name /\ log[j].path = p
<1>1. \A j : j \in 1 .. Len(q.log) <=> j \in 1 .. Len(r.log) \/ j = Len(r.log) + 1
  BY DEF Extends
<1>2. \A name : \A j \in 1 .. Len(r.log) : Marks(q.log, name, j) <=> Marks(r.log, name, j)
  BY DEF Extends
<1>3. \A name : Marks(q.log, name, Len(r.log) + 1) <=> e.marks /\ e.name = name
  BY DEF Extends
<1>4. \A name : name \in r.marked <=> \E j \in 1 .. Len(r.log) : Marks(r.log, name, j)
  BY DEF MarkedInv
<1>5. \A name : name \in q.marked <=> name \in r.marked \/ (e.marks /\ e.name = name)
  OBVIOUS
<1> HIDE DEF Marks
<1>6. \A name : name \in q.marked <=> \E j \in 1 .. Len(q.log) : Marks(q.log, name, j)
  BY <1>1, <1>2, <1>3, <1>4, <1>5
<1> QED
  BY <1>6 DEF MarkedInv, Marks

\* A definition that is logged is reported just when its history says so: what
\* the registry knows of its key, of its scope and of its name is what the log
\* says.
LEMMA OffenseStep ==
    ASSUME NEW r, NEW p, HistoryInv(r, p), MarkedInv(r, p),
           NEW longer, NEW e, NEW o, Extends(r.log, longer, e, p, o), ~e.marks,
           NEW key, key = Key(e, p)
    PROVE  OffenseByHistory(longer, Len(r.log) + 1) <=>
              /\ Known(r, key)
              /\ e.scope = 0 \/ <<e.scope, key>> \in r.scopes
              /\ ~Excused(r, e, Definition(r, key).path, p)
<1> DEFINE n == Len(r.log) + 1
           firstUnder == \A j \in Before(longer, n) :
                             longer[j].event.scope = e.scope => Before(longer, j) = {}
           marked == \E j \in 1 .. n - 1 : /\ longer[j].event.marks
                                           /\ longer[j].event.name = e.name
                                           /\ longer[j].path = p
<1>1. n \in Nat /\ n - 1 = Len(r.log) /\ \A i \in 1 .. n - 1 : longer[i] = r.log[i] /\ Before(longer, i) = Before(r.log, i)
  BY DEF Extends
<1>2. \A j : j \in Before(longer, n) <=> IsDefinition(r.log, j) /\ KeyAt(r.log, j) = key
  BY DEF Extends
<1>3. longer[n].event = e /\ longer[n].path = p
  BY DEF Extends
<1>4. Known(r, key) <=> Before(longer, n) # {}
  BY <1>2, KnownIs
<1>5. e.scope # 0 => (firstUnder <=> <<e.scope, key>> \notin r.scopes)
  <2>1. \A j \in Before(longer, n) : j \in 1 .. n - 1
    BY <1>1, <1>2 DEF IsDefinition
  <2>2. firstUnder <=> \A j : IsDefinition(r.log, j) /\ KeyAt(r.log, j) = key =>
                                 (r.log[j].event.scope = e.scope => Before(r.log, j) = {})
    BY <1>1, <1>2, <2>1
  <2>3. ScopesInv(r)
    BY DEF HistoryInv
  <2> HIDE DEF firstUnder, n
  <2> QED
    BY <2>2, <2>3 DEF ScopesInv
<1>6. marked <=> e.name \in r.marked
  BY <1>1 DEF MarkedInv
<1>7. ASSUME Known(r, key) PROVE longer[LastKept(longer, n)].path = Definition(r, key).path
  <2>1. PICK j : CountsFor(r.log, key, j) /\ Definition(r, key).path = r.log[j].path
    BY <1>7, KnownIs
  <2>2. j \in 1 .. n - 1 /\ j \in Before(longer, n) /\ ~longer[j].offense
    BY <1>1, <1>2, <2>1 DEF CountsFor, IsDefinition
  <2>3. \A k \in Before(longer, n) : k \in 1 .. n - 1 /\ (~longer[k].offense => k <= j)
    <3>1. \A k \in Before(longer, n) : k \in 1 .. n - 1 /\ IsDefinition(r.log, k) /\ KeyAt(r.log, k) = key
      BY <1>1, <1>2 DEF IsDefinition
    <3>2. \A k \in 1 .. n - 1 : longer[k].offense = r.log[k].offense
      BY <1>1
    <3> QED
      BY <2>1, <3>1, <3>2 DEF CountsFor
  <2> DEFINE kept == {k \in Before(longer, n) : ~longer[k].offense}
  <2>4. j \in kept /\ \A k \in kept : k <= j
    BY <2>2, <2>3
  <2>5. \A k \in kept : (\A i \in kept : i <= k) => k = j
    BY <1>1, <2>2, <2>3, <2>4
  <2>6. LastKept(longer, n) = CHOOSE k \in kept : \A i \in kept : i <= k
    BY DEF LastKept
  <2> HIDE DEF kept
  <2>7. LastKept(longer, n) = j
    BY <2>4, <2>5, <2>6
  <2> QED
    BY <1>1, <2>1, <2>2, <2>7
<1>8. OffenseByHistory(longer, n) <=>
        /\ Before(longer, n) # {}
        /\ ~(e.scope # 0 /\ firstUnder)
        /\ ~(longer[LastKept(longer, n)].path # p /\ (marked \/ AllowedCrossFile))
  BY <1>3 DEF OffenseByHistory
<1> HIDE DEF firstUnder, marked, n
<1>9. OffenseByHistory(longer, n) <=>
              /\ Known(r, key)
              /\ e.scope = 0 \/ <<e.scope, key>> \in r.scopes
              /\ ~Excused(r, e, Definition(r, key).path, p)
  BY <1>4, <1>5, <1>6, <1>7, <1>8 DEF Excused
<1> QED
  BY <1>9 DEF n


\* What is appended is one of the log's entries from then on.
LEMMA LoggedExtends ==
    ASSUME NEW r, NEW p, HistoryInv(r, p), NEW e, NEW o \in BOOLEAN,
           NEW longer, longer = Append(r.log, Entry(e, p, o))
    PROVE  Extends(r.log, longer, e, p, o)
<1>1. IsSequence(r.log) /\ LogInv(r.log)
  BY DEF HistoryInv, RegistryShape
<1>2. longer = Append(r.log, [event |-> e, path |-> p, offense |-> o])
  BY DEF Entry
<1> QED
  BY <1>1, <1>2, LongerLog

\* One event keeps the registry in step with its log.
LEMMA HistoryStep ==
    ASSUME NEW p \in Nat, NEW r, HistoryInv(r, p), MarkedInv(r, p), NEW e,
           NEW q, q = Replay(r, e, p)
    PROVE  HistoryInv(q, p) /\ MarkedInv(q, p)
<1>16. PICK key, scope : key = Key(e, p) /\ scope = <<e.scope, key>>
  OBVIOUS
<1> DEFINE Excuse == Excused(r, e, Definition(r, key).path, p)
           After(o) == Extends(r.log, q.log, e, p, o)
<1>1. RegistryShape(r) /\ DefinitionsInv(r) /\ ScopesInv(r) /\ PathsInv(r, p) /\ LogInv(r.log)
  BY DEF HistoryInv
<1>3. ASSUME NEW o, After(o) PROVE PathsInv(q, p)
  <2>1. \A j \in 1 .. Len(q.log) : j \in 1 .. Len(r.log) \/ j = Len(r.log) + 1
    BY <1>3 DEF Extends
  <2> QED
    BY <1>1, <1>3, <2>1 DEF PathsInv, Extends
<1>4. \A o \in BOOLEAN : q.log = Append(r.log, Entry(e, p, o)) => After(o)
  BY LoggedExtends
<1>5. ASSUME NEW o, After(o), ~e.marks
      PROVE  OffenseByHistory(q.log, Len(r.log) + 1) <=>
                /\ Known(r, key) /\ (e.scope = 0 \/ scope \in r.scopes) /\ ~Excuse
  BY <1>5, <1>16, OffenseStep
<1>6. ASSUME NEW o, After(o), ~e.marks, q.marked = r.marked PROVE MarkedInv(q, p)
  BY <1>6, MarkedStep
<1>7. ASSUME NEW o, After(o), o <=> OffenseByHistory(q.log, Len(r.log) + 1) PROVE LogInv(q.log)
  BY <1>7 DEF Extends
<1> DEFINE second == ~e.marks /\ e.scope # 0 /\ Known(r, key)
<1>9. ASSUME NEW o, After(o),
             \A s, k : <<s, k>> \in q.scopes <=>
                          <<s, k>> \in r.scopes \/ (second /\ s = e.scope /\ k = key)
      PROVE  ScopesInv(q)
  <2>1. Extends(r.log, q.log, e, p, o) /\ ScopesFollow(r, q, e, key)
    BY <1>9 DEF ScopesFollow
  <2> QED
    BY <1>16, <2>1, ScopesStep
<1> HIDE DEF Excuse, After
<1>8. RegistryShape(q)
  BY <1>1, ReplayIs
<1>10. CASE /\ e.marks /\ q.log = Append(r.log, Entry(e, p, FALSE))
            /\ q.definitions = r.definitions /\ q.scopes = r.scopes
            /\ q.marked = r.marked \cup {e.name}
  <2>1. After(FALSE)
    BY <1>4, <1>10
  <2>2. ~OffenseByHistory(q.log, Len(r.log) + 1)
    BY <1>10, <2>1 DEF After, Extends, OffenseByHistory
  <2>3. DefinitionsInv(q)
    BY <1>1, <1>10, <2>1, DefinitionsKept DEF After
  <2>4. ScopesInv(q)
    <3>1. \A s, k : <<s, k>> \in q.scopes <=> <<s, k>> \in r.scopes \/ (second /\ s = e.scope /\ k = key)
      BY <1>10
    <3> QED
      BY <1>9, <2>1, <3>1
  <2>5. MarkedInv(q, p)
    BY <1>10, <2>1, MarkedStep DEF After
  <2>6. LogInv(q.log)
    BY <1>7, <2>1, <2>2
  <2> QED
    BY <1>3, <1>8, <2>1, <2>3, <2>4, <2>5, <2>6 DEF HistoryInv
<1>11. CASE /\ ~e.marks /\ q.marked = r.marked
            /\ ~Known(r, key) /\ q.log = Append(r.log, Entry(e, p, FALSE))
            /\ q.definitions = Registered(r, e, p) /\ q.scopes = r.scopes
  <2>1. After(FALSE)
    BY <1>4, <1>11
  <2>2. LogInv(q.log)
    BY <1>5, <1>7, <1>11, <2>1
  <2>3. DefinitionsInv(q)
    BY <1>1, <1>11, <2>1, DefinitionsRegistered DEF After
  <2>4. ScopesInv(q)
    <3>1. \A s, k : <<s, k>> \in q.scopes <=> <<s, k>> \in r.scopes \/ (second /\ s = e.scope /\ k = key)
      BY <1>11
    <3> QED
      BY <1>9, <2>1, <3>1
  <2> QED
    BY <1>3, <1>6, <1>8, <1>11, <2>1, <2>2, <2>3, <2>4 DEF HistoryInv
<1>12. CASE /\ ~e.marks /\ q.marked = r.marked
            /\ Known(r, key) /\ e.scope # 0 /\ scope \notin r.scopes
            /\ q.log = Append(r.log, Entry(e, p, FALSE))
            /\ q.definitions = Registered(r, e, p) /\ q.scopes = r.scopes \cup {scope}
  <2>1. After(FALSE)
    BY <1>4, <1>12
  <2>2. LogInv(q.log)
    BY <1>5, <1>7, <1>12, <2>1
  <2>3. DefinitionsInv(q)
    BY <1>1, <1>12, <2>1, DefinitionsRegistered DEF After
  <2>4. ScopesInv(q)
    <3>1. \A s, k : <<s, k>> \in q.scopes <=> <<s, k>> \in r.scopes \/ (second /\ s = e.scope /\ k = key)
      BY <1>12, <1>16
    <3> QED
      BY <1>9, <2>1, <3>1
  <2> QED
    BY <1>3, <1>6, <1>8, <1>12, <2>1, <2>2, <2>3, <2>4 DEF HistoryInv
<1>13. ASSUME NEW o, After(o), q.scopes = r.scopes, e.scope = 0 \/ scope \in r.scopes
       PROVE  ScopesInv(q)
  <2>1. \A s, k : <<s, k>> \in q.scopes <=> <<s, k>> \in r.scopes \/ (second /\ s = e.scope /\ k = key)
    BY <1>13, <1>16
  <2> QED
    BY <1>9, <1>13, <2>1
<1>14. CASE /\ ~e.marks /\ q.marked = r.marked
            /\ Known(r, key) /\ (e.scope = 0 \/ scope \in r.scopes) /\ Excuse
            /\ q.log = Append(r.log, Entry(e, p, FALSE))
            /\ q.definitions = Registered(r, e, p) /\ q.scopes = r.scopes
  <2>1. After(FALSE)
    BY <1>4, <1>14
  <2>2. LogInv(q.log)
    BY <1>5, <1>7, <1>14, <2>1
  <2>3. DefinitionsInv(q)
    BY <1>1, <1>14, <2>1, DefinitionsRegistered DEF After
  <2> QED
    BY <1>3, <1>6, <1>8, <1>13, <1>14, <2>1, <2>2, <2>3 DEF HistoryInv
<1>15. CASE /\ ~e.marks /\ q.marked = r.marked
            /\ Known(r, key) /\ (e.scope = 0 \/ scope \in r.scopes) /\ ~Excuse
            /\ q.log = Append(r.log, Entry(e, p, TRUE))
            /\ q.definitions = r.definitions /\ q.scopes = r.scopes
  <2>1. After(TRUE)
    BY <1>4, <1>15
  <2>2. LogInv(q.log)
    BY <1>5, <1>7, <1>15, <2>1
  <2>3. DefinitionsInv(q)
    BY <1>1, <1>15, <1>16, <2>1, DefinitionsKept DEF After
  <2> QED
    BY <1>3, <1>6, <1>8, <1>13, <1>15, <2>1, <2>2, <2>3 DEF HistoryInv
<1>17. Outcome(r, e, p, q, key, scope)
  BY <1>1, <1>16, ReplayIs
<1> QED
  BY <1>10, <1>11, <1>12, <1>14, <1>15, <1>17 DEF Outcome, Excuse


\* The registries along the events of a file.
Replays(r, events, p, f) ==
    f = [i \in 0 .. Len(events) |-> IF i = 0 THEN r ELSE Replay(f[i - 1], events[i], p)]

\* There are such registries, one for each event.
LEMMA ReplaysDefined ==
    ASSUME NEW r, NEW events, Len(events) \in Nat, NEW p
    PROVE  \E f : Replays(r, events, p, f)
<1>1. PICK n \in Nat : n = Len(events)
  OBVIOUS
<1> DEFINE Upto(m, f) == f[0] = r /\ \A i \in 1 .. m : f[i] = Replay(f[i - 1], events[i], p)
           Good == {m \in Nat : \E f : Upto(m, f)}
<1>2. 0 \in Good
  <2> DEFINE f == [i \in 0 .. 0 |-> r]
  <2>1. f[0] = r
    OBVIOUS
  <2> HIDE DEF f
  <2>2. Upto(0, f)
    BY <2>1
  <2> QED
    BY <2>2
<1>3. \A m \in Nat : m \in Good => m + 1 \in Good
  <2> HIDE DEF Upto
  <2> SUFFICES ASSUME NEW m \in Nat, m \in Good PROVE \E g : Upto(m + 1, g)
    OBVIOUS
  <2> USE DEF Upto
  <2>1. PICK f : Upto(m, f)
    OBVIOUS
  <2> DEFINE g == [i \in 0 .. m + 1 |-> IF i = m + 1 THEN Replay(f[m], events[m + 1], p) ELSE f[i]]
  <2>2. g[m + 1] = Replay(f[m], events[m + 1], p) /\ \A i \in 0 .. m : g[i] = f[i]
    OBVIOUS
  <2> HIDE DEF g
  <2>3. g[0] = r
    BY <2>1, <2>2
  <2>4. ASSUME NEW i \in 1 .. m + 1 PROVE g[i] = Replay(g[i - 1], events[i], p)
    <3>1. i - 1 \in 0 .. m /\ (i = m + 1 \/ i \in 1 .. m)
      OBVIOUS
    <3>2. CASE i = m + 1
      <4>1. i - 1 = m
        BY <3>2
      <4> QED
        BY <2>2, <3>1, <3>2, <4>1
    <3>3. CASE i \in 1 .. m
      BY <2>1, <2>2, <3>1, <3>3
    <3> QED
      BY <3>1, <3>2, <3>3
  <2>5. Upto(m + 1, g)
    BY <2>3, <2>4
  <2> QED
    BY <2>5
<1>4. n \in Good
  <2> HIDE DEF Good
  <2> QED
    BY <1>2, <1>3, NatSet
<1>5. PICK f : Upto(n, f)
  BY <1>4
<1> DEFINE g == [i \in 0 .. n |-> f[i]]
           h == [i \in 0 .. n |-> IF i = 0 THEN r ELSE Replay(g[i - 1], events[i], p)]
<1>6. ASSUME NEW i \in 0 .. n PROVE g[i] = h[i]
  <2>1. CASE i = 0
    BY <1>5, <2>1
  <2>2. CASE i \in 1 .. n
    <3>1. i - 1 \in 0 .. n /\ i # 0
      BY <2>2
    <3>2. g[i - 1] = f[i - 1] /\ g[i] = f[i]
      BY <3>1
    <3>3. h[i] = Replay(g[i - 1], events[i], p)
      BY <3>1
    <3> QED
      BY <1>5, <2>2, <3>2, <3>3
  <2> QED
    BY <2>1, <2>2
<1>7. g = h
  BY <1>6
<1> HIDE DEF g
<1>8. Replays(r, events, p, g)
  BY <1>1, <1>7 DEF Replays
<1> QED
  BY <1>8

\* Replaying the events of a file keeps the registry in step with its log.
LEMMA HistoryReplayed ==
    ASSUME NEW p \in Nat, NEW r, HistoryInv(r, p), MarkedInv(r, p),
           NEW events, Len(events) \in Nat
    PROVE  HistoryInv(Replayed(r, events, p), p)
<1> DEFINE f == CHOOSE g : Replays(r, events, p, g)
           Good == {m \in Nat : m <= Len(events) => HistoryInv(f[m], p) /\ MarkedInv(f[m], p)}
<1>1. Replays(r, events, p, f)
  BY ReplaysDefined
<1>2. Replayed(r, events, p) = f[Len(events)]
  BY DEF Replayed, Replays
<1> HIDE DEF f
<1>3. f[0] = r /\ \A i \in 1 .. Len(events) : f[i] = Replay(f[i - 1], events[i], p)
  <2>1. \A i \in 0 .. Len(events) : f[i] = IF i = 0 THEN r ELSE Replay(f[i - 1], events[i], p)
    BY <1>1 DEF Replays
  <2> QED
    BY <2>1
<1>4. 0 \in Good
  BY <1>3
<1>5. \A m \in Nat : m \in Good => m + 1 \in Good
  <2> SUFFICES ASSUME NEW m \in Nat, m + 1 <= Len(events), HistoryInv(f[m], p), MarkedInv(f[m], p)
               PROVE  HistoryInv(f[m + 1], p) /\ MarkedInv(f[m + 1], p)
    OBVIOUS
  <2>1. f[m + 1] = Replay(f[m], events[m + 1], p)
    BY <1>3
  <2> QED
    BY <2>1, HistoryStep
<1>6. Len(events) \in Good
  <2> HIDE DEF Good
  <2> QED
    BY <1>4, <1>5, NatSet
<1> QED
  BY <1>2, <1>6

\* The events of a walk are a sequence.
EventsShape(s) ==
    DOMAIN s = {"frames", "if", "sclassAny", "sclassNonself", "events"} /\ IsSequence(s.events)

\* Whatever the rule finds, it keeps that shape.
LEMMA PushKeeps ==
    ASSUME NEW s, EventsShape(s), NEW event
    PROVE  EventsShape(PushEvent(s, event))
<1>1. ASSUME NEW x PROVE EventsShape([s EXCEPT !.events = Append(@, x)])
  <2>1. IsSequence(Append(s.events, x))
    BY AppendIs DEF EventsShape
  <2> QED
    BY <2>1 DEF EventsShape
<1> QED
  BY <1>1 DEF PushEvent

\* A definition found, whatever it turns out to be, keeps the shape, too.
LEMMA FoundKeeps ==
    ASSUME NEW s, EventsShape(s), NEW n
    PROVE  EventsShape(FoundIn(s, n))
<1>1. ASSUME NEW t, EventsShape(t), NEW name PROVE EventsShape(FoundInstanceMethod(t, n, name))
  BY <1>1, PushKeeps DEF FoundInstanceMethod
<1>2. EventsShape(FoundSelfMethod(s, n))
  BY PushKeeps DEF FoundSelfMethod
<1>3. EventsShape(FoundConstMethod(s, n))
  BY PushKeeps DEF FoundConstMethod
<1>4. EventsShape(TrackIntentionalRedefinition(s, n))
  <2>1. ASSUME NEW x PROVE EventsShape([s EXCEPT !.events = Append(@, x)])
    <3>1. IsSequence(Append(s.events, x))
      BY AppendIs DEF EventsShape
    <3> QED
      BY <3>1 DEF EventsShape
  <2> QED
    BY <2>1 DEF TrackIntentionalRedefinition
<1> QED
  BY <1>1, <1>2, <1>3, <1>4 DEF FoundIn


\* Every hook keeps the shape of the events, and the tree.
LEMMA EventsStep ==
    ASSUME EventsShape(methods), OnHook
    PROVE  EventsShape(methods)' /\ tree' = tree /\ registry' = registry /\ path' = path
<1>1. registry' = registry /\ path' = path
  BY DEF OnHook, fileVars
<1>2. ASSUME NEW s, EventsShape(s), NEW n, NEW by PROVE EventsShape(Counted(s, n, by))
  BY <1>2 DEF Counted, EventsShape
<1>3. ASSUME NEW s, EventsShape(s), NEW x PROVE EventsShape([s EXCEPT !.frames = x])
  BY <1>3 DEF EventsShape
<1>4. CASE OnBranch
  <2>1. tree' = tree
    BY <1>4 DEF OnBranch, EnterBranch
  <2>2. PICK s : s = Counted(FoundIn(methods, Node), Node, 1)
    OBVIOUS
  <2>3. EventsShape(s)
    BY <1>2, <2>2, FoundKeeps
  <2>4. \E x : methods' = [s EXCEPT !.frames = x]
    BY <1>4, <2>2 DEF OnBranch, MethodsEnter
  <2>5. EventsShape(methods')
    BY <1>3, <2>3, <2>4
  <2> QED
    BY <1>1, <2>1, <2>5 DEF EventsShape
<1>5. CASE OnLeave
  <2>1. tree' = tree
    BY <1>5 DEF OnLeave, LeaveBranch
  <2>2. \E m, x : methods' = [Counted(methods, m, -1) EXCEPT !.frames = x]
    BY <1>5 DEF OnLeave, MethodsLeave, Left
  <2>3. EventsShape(methods')
    BY <1>2, <1>3, <2>2
  <2> QED
    BY <1>1, <2>1, <2>3 DEF EventsShape
<1>6. CASE OnLeaf
  BY <1>1, <1>6 DEF OnLeaf, EnterLeaf, EventsShape
<1>7. CASE OnDirect
  BY <1>1, <1>7 DEF OnDirect, VisitDirect, EventsShape, copVars
<1>8. CASE OnRescue
  BY <1>1, <1>8 DEF OnRescue, EnterRescue, EventsShape
<1>9. CASE OnRescueLeave
  BY <1>1, <1>9 DEF OnRescueLeave, LeaveRescue, EventsShape
<1> QED
  BY <1>4, <1>5, <1>6, <1>7, <1>8, <1>9 DEF OnHook

\* What the log says of its entries depends on the tree by one option only.
LEMMA HistorySame ==
    ASSUME AllowedCrossFile' <=> AllowedCrossFile, NEW r, NEW p, HistoryInv(r, p)
    PROVE  HistoryInv(r, p)'
<1>1. ASSUME NEW log, NEW i PROVE OffenseByHistory(log, i)' <=> OffenseByHistory(log, i)
  BY DEF OffenseByHistory, Before, LastKept, KeyAt, Key
<1>2. LogInv(r.log)' <=> LogInv(r.log)
  BY <1>1 DEF LogInv
<1> QED
  BY <1>2 DEF HistoryInv, RegistryShape, IsSequence, DefinitionsInv, CountsFor, IsDefinition,
              KeyAt, Key, Known, ScopesInv, Before, PathsInv


\* Between two files the registry is in step with its log, and no entry is of a
\* file to come.
RegistryInv ==
    /\ EventsShape(methods)
    /\ path \in Nat \ {0} /\ registry.seen \in BOOLEAN
    /\ HistoryInv(registry, IF registry.seen THEN path ELSE path - 1)

\* The first file begins with an empty registry.
LEMMA RegistryInvInit ==
    ASSUME CopsInit
    PROVE  RegistryInv
<1>1. methods = [frames |-> <<>>, if |-> 0, sclassAny |-> 0, sclassNonself |-> 0, events |-> <<>>]
  BY DEF CopsInit, MethodsInit, MethodsFresh
<1>2. /\ path = 1
      /\ registry = [definitions |-> {}, scopes |-> {}, marked |-> {}, log |-> <<>>, seen |-> FALSE]
  BY DEF CopsInit, RegistryInit
<1>3. IsSequence(<<>>) /\ Len(<<>>) = 0
  <2>1. <<>> \in Seq({})
    OBVIOUS
  <2> QED
    BY <2>1 DEF IsSequence
<1>4. EventsShape(methods)
  BY <1>1, <1>3 DEF EventsShape
<1>5. RegistryShape(registry)
  BY <1>2, <1>3 DEF RegistryShape
<1>6. Len(registry.log) = 0 /\ registry.definitions = {} /\ registry.scopes = {} /\ registry.seen = FALSE
  BY <1>2, <1>3
<1>7. \A j : j \notin 1 .. Len(registry.log)
  BY <1>6
<1>8. HistoryInv(registry, 0)
  BY <1>5, <1>6, <1>7 DEF HistoryInv, DefinitionsInv, ScopesInv, PathsInv, LogInv, IsDefinition
<1> QED
  BY <1>2, <1>4, <1>6, <1>8 DEF RegistryInv

\* The wrapper replays a file: its markers are forgotten first, and no entry is
\* of this file yet.
LEMMA InvestigationStep ==
    ASSUME RegistryInv, OnInvestigation
    PROVE  RegistryInv'
<1>1. /\ ~registry.seen /\ path' = path /\ methods' = methods /\ tree' = tree
      /\ registry' = [Replayed(Fresh(registry), methods.events, path) EXCEPT !.seen = TRUE]
  BY DEF OnInvestigation, Investigate, walkVars
<1>2. PICK p : p = path
  OBVIOUS
<1>3. p \in Nat \ {0} /\ HistoryInv(registry, p - 1) /\ EventsShape(methods)
  BY <1>1, <1>2 DEF RegistryInv
<1>4. PICK r : r = Fresh(registry)
  OBVIOUS
<1>5. /\ DOMAIN r = DOMAIN registry /\ r.log = registry.log /\ r.definitions = registry.definitions
      /\ r.scopes = registry.scopes /\ r.marked = {}
  BY <1>3, <1>4 DEF Fresh, HistoryInv, RegistryShape
<1>6. HistoryInv(r, p)
  <2>1. PathsInv(r, p)
    BY <1>3, <1>5 DEF HistoryInv, PathsInv
  <2> QED
    BY <1>3, <1>5, <2>1 DEF HistoryInv, RegistryShape, DefinitionsInv, ScopesInv, Known
<1>7. MarkedInv(r, p)
  BY <1>3, <1>5 DEF HistoryInv, PathsInv, MarkedInv
<1>8. PICK q : q = Replayed(r, methods.events, p)
  OBVIOUS
<1>9. HistoryInv(q, p)
  <2>1. Len(methods.events) \in Nat
    BY <1>3 DEF EventsShape, IsSequence
  <2> QED
    BY <1>3, <1>6, <1>7, <1>8, <2>1, HistoryReplayed
<1>10. PICK s : s = [q EXCEPT !.seen = TRUE]
  OBVIOUS
<1>11. /\ DOMAIN s = DOMAIN q /\ s.log = q.log /\ s.definitions = q.definitions
       /\ s.scopes = q.scopes /\ s.seen = TRUE
  BY <1>9, <1>10 DEF HistoryInv, RegistryShape
<1>12. HistoryInv(s, p)
  BY <1>9, <1>11 DEF HistoryInv, RegistryShape, DefinitionsInv, ScopesInv, PathsInv, Known
<1>13. HistoryInv(s, p)'
  BY <1>1, <1>12, HistorySame DEF AllowedCrossFile
<1>14. registry' = s /\ path' = p
  BY <1>1, <1>2, <1>4, <1>8, <1>10
<1>15. EventsShape(methods)'
  BY <1>1, <1>3 DEF EventsShape
<1> QED
  BY <1>3, <1>11, <1>13, <1>14, <1>15 DEF RegistryInv


\* Another tree has the same options, as far as the registry is concerned.
LEMMA AgainAllowed ==
    ASSUME WalkAgain
    PROVE  (AllowedCrossFile' <=> AllowedCrossFile) /\ EventsShape(methods)'
<1>1. tree'.options = tree.options \ {"another"} /\ methods' = MethodsFresh
  BY DEF WalkAgain
<1>2. AllowedCrossFile' <=> AllowedCrossFile
  BY <1>1 DEF AllowedCrossFile
<1>3. IsSequence(<<>>)
  <2>1. <<>> \in Seq({})
    OBVIOUS
  <2> QED
    BY <2>1 DEF IsSequence
<1>4. EventsShape(methods')
  BY <1>1, <1>3 DEF EventsShape, MethodsFresh
<1> QED
  BY <1>2, <1>4 DEF EventsShape

\* A step that leaves the registry alone, and tells its files apart.
LEMMA RegistryStays ==
    ASSUME RegistryInv, AllowedCrossFile' <=> AllowedCrossFile, EventsShape(methods)',
           \/ registry' = registry /\ path' = path
           \/ registry.seen /\ registry' = [registry EXCEPT !.seen = FALSE] /\ path' = path + 1
    PROVE  RegistryInv'
<1>1. PICK r, p : r = registry /\ p = IF registry.seen THEN path ELSE path - 1
  OBVIOUS
<1>2. HistoryInv(r, p)
  BY <1>1 DEF RegistryInv
<1>3. HistoryInv(r, p)'
  BY <1>2, HistorySame
<1>4. CASE registry' = registry /\ path' = path
  BY <1>1, <1>3, <1>4 DEF RegistryInv
<1>5. CASE registry.seen /\ registry' = [registry EXCEPT !.seen = FALSE] /\ path' = path + 1
  <2>1. PICK s : s = [r EXCEPT !.seen = FALSE]
    OBVIOUS
  <2>2. /\ DOMAIN s = DOMAIN r /\ s.log = r.log /\ s.definitions = r.definitions
        /\ s.scopes = r.scopes /\ s.seen = FALSE
    BY <1>2, <2>1 DEF HistoryInv, RegistryShape
  <2>3. HistoryInv(s, p)
    BY <1>2, <2>2 DEF HistoryInv, RegistryShape, DefinitionsInv, ScopesInv, PathsInv, Known
  <2>4. HistoryInv(s, p)'
    BY <2>3, HistorySame
  <2>5. registry' = s /\ p = path' - 1 /\ path' \in Nat \ {0}
    BY <1>1, <1>5, <2>1 DEF RegistryInv
  <2> QED
    BY <2>2, <2>4, <2>5 DEF RegistryInv
<1> QED
  BY <1>4, <1>5

\* Every step keeps the registry in step with its log.
LEMMA RegistryInvNext ==
    ASSUME RegistryInv, [CopsNext]_<<walkVars, copVars, fileVars>>
    PROVE  RegistryInv'
<1>1. CASE OnHook
  <2>1. EventsShape(methods)' /\ tree' = tree /\ registry' = registry /\ path' = path
    BY <1>1, EventsStep DEF RegistryInv
  <2> QED
    BY <2>1, RegistryStays DEF AllowedCrossFile
<1>2. CASE OnInvestigation
  BY <1>2, InvestigationStep
<1>3. CASE NextFile
  BY <1>3, AgainAllowed, RegistryStays DEF NextFile
<1>4. CASE NextRound
  BY <1>4, AgainAllowed, RegistryStays DEF NextRound, fileVars
<1>5. CASE UNCHANGED <<walkVars, copVars, fileVars>>
  <2>1. methods' = methods /\ tree' = tree /\ registry' = registry /\ path' = path
    BY <1>5 DEF walkVars, copVars, fileVars
  <2>2. EventsShape(methods)'
    BY <2>1 DEF RegistryInv, EventsShape
  <2> QED
    BY <2>1, <2>2, RegistryStays DEF AllowedCrossFile
<1> QED
  BY <1>1, <1>2, <1>3, <1>4, <1>5 DEF CopsNext

\* Over any number of files, DuplicateMethods' wrapper reports a definition just
\* when the history of its key says so: its registry of the definitions that
\* count, of the scopes in which a key was doubled and of the names marked in this
\* file is the memory this takes, and nothing of an earlier file is left in it
\* that should not be.
THEOREM RegistryFollowsHistory == CopsSpec => []OffensesAsHistory
<1>1. CopsInit => RegistryInv
  BY RegistryInvInit
<1>2. RegistryInv /\ [CopsNext]_<<walkVars, copVars, fileVars>> => RegistryInv'
  BY RegistryInvNext
<1>3. RegistryInv => OffensesAsHistory
  <2>1. SUFFICES ASSUME RegistryInv PROVE OffensesAsHistory
    OBVIOUS
  <2>2. LogInv(registry.log) /\ IsSequence(registry.log)
    BY <2>1 DEF RegistryInv, HistoryInv, RegistryShape
  <2>3. DOMAIN registry.log = 1 .. Len(registry.log)
    BY <2>2 DEF IsSequence
  <2> QED
    BY <2>2, <2>3 DEF LogInv, OffensesAsHistory
<1> QED
  BY <1>1, <1>2, <1>3, PTL DEF CopsSpec

-----------------------------------------------------------------------------
(* The frames of a rule that keeps one for every node the parser gem has,  *)
(* by which the other rules know where in the tree they are.               *)

\* Such a rule.
ClauseRule == CHOOSE r \in Rules : Frames[r] = "clause"

\* The rule that keeps a frame for every node the parser gem has.
LEMMA ClauseRuleIs ==
    /\ ClauseRule \in Rules /\ Frames[ClauseRule] = "clause"
    /\ ClauseRule \in KeepFrames /\ ClauseRule \in KeepClauses
    /\ ENTER_ALL \cup {LEAVE, RESCUE} \subseteq Mask[ClauseRule]
<1>1. \E r \in Rules : Frames[r] = "clause"
  BY RulesAssumption DEF KeepClauses
<1>2. ClauseRule \in Rules /\ Frames[ClauseRule] = "clause"
  BY <1>1 DEF ClauseRule
<1>3. ENTER_ALL \cup {LEAVE} \subseteq Mask[ClauseRule] /\ RESCUE \in Mask[ClauseRule]
  BY <1>2, MaskAssumption
<1> QED
  BY <1>2, <1>3 DEF KeepFrames, KeepClauses

\* Its ancestors are all there are.
LEMMA ClauseAncestors ==
    ASSUME tree \in Shapes, NEW n \in Nodes
    PROVE  ParserAncestors(ClauseRule, n) = ParserAbove(n)
<1> DEFINE K == {k \in Nodes : Frames[ClauseRule] = "clause" \/ Class(tree, k) # "rescue"}
<1>1. Nodes \subseteq K
  BY ClauseRuleIs
<1>2. ParserAbove(n) \in Seq(Nodes)
  BY ParserAboveType
<1>3. ParserAncestors(ClauseRule, n) = Filter(ParserAbove(n), K)
  BY DEF ParserAncestors
<1> HIDE DEF K
<1> QED
  BY <1>1, <1>2, <1>3, FilterAll

\* The frames of the rule that keeps all: the ancestors of the node to visit ...
LEMMA ClauseVisited ==
    ASSUME WalkInv, Next("visit")
    PROVE  /\ tree \in Shapes /\ Node \in Nodes
           /\ frames[ClauseRule] = ParserAbove(Node)
           /\ EnterBranch \/ EnterRescue => frames'[ClauseRule] = Append(ParserAbove(Node), Node)
           /\ EnterLeaf \/ VisitDirect => frames'[ClauseRule] = ParserAbove(Node)
<1>1. tree \in Shapes /\ todo # <<>> /\ Head(todo)[1] = "visit"
  BY DEF WalkInv, Next
<1>2. Node \in Nodes
  BY <1>1, CallFrames
<1>3. PICK n, r : n = Node /\ r = ClauseRule
  OBVIOUS
<1>4. /\ r \in Rules /\ Frames[r] = "clause" /\ r \in KeepFrames /\ r \in KeepClauses
      /\ ENTER_ALL \cup {LEAVE, RESCUE} \subseteq Mask[r]
  BY <1>3, ClauseRuleIs
<1>5. frames[r] = ParserAbove(n)
  <2>1. frames[r] = ParserAncestors(r, n)
    BY <1>1, <1>3, <1>4, CallFrames DEF Wanted, Node
  <2> QED
    BY <1>1, <1>2, <1>3, <2>1, ClauseAncestors
<1>6. CASE EnterBranch
  <2>1. PICK bit : bit = 3 + ClassIndex[Class(tree, n)]
    OBVIOUS
  <2>2. bit \in Mask[r]
    BY <1>3, <1>4, <1>6, <2>1, BranchBit DEF EnterBranch
  <2>3. frames' = Pushed(Bucket(bit) \cap KeepFrames, n)
    BY <1>3, <1>6, <2>1 DEF EnterBranch
  <2>4. frames'[r] = Append(frames[r], n)
    BY <1>4, <2>2, <2>3 DEF Pushed, Bucket
  <2> QED
    BY <1>1, <1>2, <1>3, <1>5, <1>6, <2>4 DEF EnterBranch, EnterLeaf, VisitDirect, Branches, ClassIndex
<1>7. CASE EnterRescue
  <2>1. frames' = Pushed(Bucket(RESCUE) \cap KeepClauses, n)
    BY <1>3, <1>7 DEF EnterRescue
  <2>2. frames'[r] = Append(frames[r], n)
    BY <1>4, <2>1 DEF Pushed, Bucket
  <2> QED
    BY <1>1, <1>2, <1>3, <1>5, <1>7, <2>2 DEF EnterRescue, EnterLeaf, VisitDirect
<1>8. CASE ~EnterBranch /\ ~EnterRescue
  BY <1>1, <1>2, <1>3, <1>5, <1>8 DEF EnterLeaf, VisitDirect
<1> QED
  BY <1>6, <1>7, <1>8

\* ... and when a node is left, those of the node, from which the node goes.
LEMMA ClauseLeft ==
    ASSUME WalkInv, LeaveBranch \/ LeaveRescue
    PROVE  /\ tree \in Shapes /\ Node \in Nodes /\ tree' = tree
           /\ frames[ClauseRule] = Append(ParserAbove(Node), Node)
           /\ frames'[ClauseRule] = ParserAbove(Node)
           /\ \A m : OrderInv(todo, m) => OrderInv(todo', m)
<1>1. /\ tree \in Shapes /\ todo # <<>> /\ todo \in Seq(Calls) /\ tree' = tree /\ todo' = Tail(todo)
      /\ Head(todo)[1] \in {"leave", "leaveRescue"}
  BY DEF WalkInv, Next, LeaveBranch, LeaveRescue
<1>2. Node \in Nodes /\ Head(todo) \in Calls
  BY <1>1, CallFrames
<1>3. PICK n, r, up : n = Node /\ r = ClauseRule /\ up = ParserAbove(n)
  OBVIOUS
<1>4. /\ r \in Rules /\ Frames[r] = "clause" /\ r \in KeepFrames /\ r \in KeepClauses
      /\ ENTER_ALL \cup {LEAVE, RESCUE} \subseteq Mask[r]
  BY <1>3, ClauseRuleIs
<1>5. frames[r] = Inner(r, n)
  BY <1>1, <1>3, <1>4, CallFrames DEF Wanted, Node
<1>6. Class(tree, n) \in Branches \/ Class(tree, n) = "rescue"
  BY <1>1, <1>2, <1>3 DEF Calls, Node
<1>7. frames[r] = Append(up, n)
  BY <1>1, <1>2, <1>3, <1>4, <1>5, <1>6, ClauseAncestors DEF Inner
<1>8. up \in Seq(Nodes) /\ n \in Nodes
  BY <1>1, <1>2, <1>3, ParserAboveType
<1>9. /\ Append(up, n) # <<>>
      /\ SubSeq(Append(up, n), 1, Len(Append(up, n)) - 1) = up
  BY <1>8, PopIs
<1>10. frames'[r] = up
  <2>1. CASE LeaveBranch
    <3>1. frames' = Popped(Bucket(LEAVE) \cap KeepFrames)
      BY <2>1 DEF LeaveBranch
    <3> QED
      BY <1>4, <1>7, <1>9, <3>1 DEF Popped, Bucket
  <2>2. CASE LeaveRescue
    <3>1. frames' = Popped(Bucket(RESCUE) \cap KeepClauses)
      BY <2>2 DEF LeaveRescue
    <3> QED
      BY <1>4, <1>7, <1>9, <3>1 DEF Popped, Bucket
  <2> QED
    BY <2>1, <2>2
<1>11. ASSUME NEW m, OrderInv(todo, m) PROVE OrderInv(todo', m)
  <2>1. Head(todo)[1] # "visit"
    BY <1>1
  <2>2. PICK x : x = todo
    OBVIOUS
  <2>3. OrderInv(Tail(x), m)
    BY <1>1, <1>11, <2>1, <2>2, OrderLeave
  <2> QED
    BY <1>1, <2>2, <2>3
<1> QED
  BY <1>1, <1>2, <1>3, <1>7, <1>10, <1>11

-----------------------------------------------------------------------------
(* Metrics/BlockNesting: the running level against the recursion.          *)

Levels == [level : Nat, deep : BOOLEAN, ignored : BOOLEAN]

\* The nodes that count for the rule, and those that add a level, on any tree;
\* what the recursion of the stock cop makes of these.
ConsideredNodes == {n \in DOMAIN tree.kind : Considered(n)}
IncrementsNodes == {n \in DOMAIN tree.kind : Increments(n)}

RunLevels == LevelsOf(ConsideredNodes, IncrementsNodes)

RunReported == ReportedAt(RunLevels)

RunOver(m) == LevelsOver(RunLevels, m)

\* Reported itself, or below something reported.
Covered(at) == at.ignored \/ at.deep

\* What the recursion of the stock cop hands down below the nodes above.
Handed(above) == IF above = <<>> THEN Outermost ELSE RunLevels[above[Len(above)]].node

\* The frame of a node keeps what the node adds to what is handed to it, and
\* its rescue value until that is entered, which the first m nodes are.
FrameOf(frame, n, above, m) ==
    LET at == RunLevels[n].node
    IN  /\ frame.delta + above.level = at.level
        /\ frame.opened <=> Covered(at) /\ ~Covered(above)
        /\ frame.value \in {0, RescueValue(n)}
        /\ RescueValue(n) > m => frame.value = RescueValue(n)

FramesOf(stack, above, m) ==
    /\ Len(stack) = Len(above)
    /\ \A i \in 1 .. Len(above) : FrameOf(stack[i], above[i], Handed(SubSeq(above, 1, i - 1)), m)

\* The running state is what the recursion hands down at this place.
RunsLike(s, above) == /\ s.level = Handed(above).level
                      /\ s.ignoring <=> Covered(Handed(above))

IsDeepest(l, m) == l \in RunOver(m) \cup {0} /\ \A k \in RunOver(m) : k <= l

NestingTyped(s) ==
    s \in [level : Nat, deepest : Nat, ignoring : BOOLEAN,
           stack : Seq([delta : Nat, opened : BOOLEAN, value : Nat]),
           out : Seq({"resbody", "node"} \X Nat)]

NestInv(s, above, m) ==
    /\ NestingTyped(s)
    /\ RunsLike(s, above) /\ FramesOf(s.stack, above, m)
    /\ s.out = RunReported[m] /\ IsDeepest(s.deepest, m)

-----------------------------------------------------------------------------
(* What the stock cop finds.                                               *)

LevelsUnder(n, outer) ==
    LET resbody == Under(outer, HasResbody(n), HasResbody(n))
    IN  [resbody |-> resbody, node |-> Under(resbody, n \in ConsideredNodes, n \in IncrementsNodes)]

\* An item under another one has a level.
LEMMA UnderIs ==
    ASSUME NEW above \in Levels, NEW considered \in BOOLEAN, NEW increments \in BOOLEAN
    PROVE  Under(above, considered, increments) \in Levels
<1>1. PICK l : l = above.level + IF increments THEN 1 ELSE 0
  OBVIOUS
<1>2. l \in Nat
  BY <1>1 DEF Levels
<1>3. (considered /\ l > MaxNesting) \in BOOLEAN /\ (above.ignored \/ above.deep) \in BOOLEAN
  OBVIOUS
<1> QED
  BY <1>1, <1>2, <1>3 DEF Under, Levels

\* The levels of a node and of the resbody above it.
LEMMA LevelsUnderIs ==
    ASSUME NEW n, NEW outer \in Levels
    PROVE  LevelsUnder(n, outer) \in [resbody : Levels, node : Levels]
<1>1. HasResbody(n) \in BOOLEAN /\ (n \in ConsideredNodes) \in BOOLEAN /\ (n \in IncrementsNodes) \in BOOLEAN
  BY DEF HasResbody
<1>2. PICK resbody : resbody = Under(outer, HasResbody(n), HasResbody(n))
  OBVIOUS
<1>3. resbody \in Levels
  BY <1>1, <1>2, UnderIs
<1>4. Under(resbody, n \in ConsideredNodes, n \in IncrementsNodes) \in Levels
  BY <1>1, <1>3, UnderIs
<1> QED
  BY <1>2, <1>3, <1>4 DEF LevelsUnder

\* That recursion, node by node.
LEMMA RunLevelsIs ==
    ASSUME tree \in Shapes, NEW n \in Nodes
    PROVE  /\ RunLevels[n] = LevelsUnder(n, Handed(ParserAbove(n)))
           /\ Handed(ParserAbove(n)) \in Levels
           /\ RunLevels[n] \in [resbody : Levels, node : Levels]
<1>1. PICK N \in Nat : N = Len(tree.parent) /\ Nodes = 1 .. N /\ DOMAIN tree.kind = 1 .. N
  BY TreeFacts
<1> DEFINE V == [resbody : Levels, node : Levels]
           q == [j \in 1 .. N |-> IF ParserAbove(j) = <<>> THEN 0
                                  ELSE ParserAbove(j)[Len(ParserAbove(j))]]
           G == [c \in (1 .. N) \X V |-> LevelsUnder(c[1], c[2].node)]
           v0 == [resbody |-> Outermost, node |-> Outermost]
           outer(at, j) == IF ParserAbove(j) = <<>> THEN Outermost
                           ELSE at[ParserAbove(j)[Len(ParserAbove(j))]].node
           IsLevels(at) == at = [j \in 1 .. N |-> LevelsUnder(j, outer(at, j))]
<1>2. v0 \in V
  BY DEF Outermost, Levels
<1>3. ASSUME NEW j \in 1 .. N PROVE q[j] \in 0 .. j - 1 /\ (ParserAbove(j) # <<>> => q[j] # 0)
  <2>1. PICK s : s = ParserAbove(j)
    OBVIOUS
  <2>2. s \in Seq(1 .. j - 1)
    BY <1>1, <2>1, AboveSmaller
  <2>3. s # <<>> => Len(s) \in 1 .. Len(s)
    BY <2>2
  <2>4. s # <<>> => s[Len(s)] \in 1 .. j - 1
    BY <2>2, <2>3
  <2> QED
    BY <2>1, <2>4
<1>4. ASSUME NEW j \in 1 .. N, NEW v \in V PROVE G[<<j, v>>] = LevelsUnder(j, v.node) /\ G[<<j, v>>] \in V
  <2>1. v.node \in Levels
    OBVIOUS
  <2> QED
    BY <2>1, LevelsUnderIs
<1> HIDE DEF G
<1>5. RecursiveStep(N, V, q, G)
  BY <1>3, <1>4 DEF RecursiveStep
<1> HIDE DEF V, v0
<1>6. PICK f : SolvesRecursion(f, N, V, v0, q, G)
  BY <1>2, <1>5, Recursion
<1>7. PICK u : u = [j \in 1 .. N |-> f[j]]
  OBVIOUS
<1>8. ASSUME NEW j \in 1 .. N PROVE u[j] = LevelsUnder(j, outer(u, j))
  <2>1. q[j] \in 0 .. N /\ f[q[j]] \in V /\ f[j] = G[<<j, f[q[j]]>>]
    BY <1>3, <1>6 DEF SolvesRecursion
  <2>2. u[j] = LevelsUnder(j, f[q[j]].node)
    BY <1>4, <1>7, <2>1
  <2>3. CASE ParserAbove(j) = <<>>
    <3>1. f[q[j]].node = Outermost
      BY <1>6, <2>3 DEF SolvesRecursion, v0
    <3> QED
      BY <2>2, <2>3, <3>1
  <2>4. CASE ParserAbove(j) # <<>>
    <3>1. q[j] \in 1 .. N /\ q[j] = ParserAbove(j)[Len(ParserAbove(j))]
      BY <1>3, <2>1, <2>4
    <3>2. f[q[j]].node = outer(u, j)
      BY <1>7, <2>4, <3>1
    <3> QED
      BY <2>2, <3>2
  <2> QED
    BY <2>3, <2>4
<1>9. IsLevels(u)
  BY <1>7, <1>8
<1>10. RunLevels = CHOOSE at : IsLevels(at)
  BY <1>1 DEF RunLevels, LevelsOf, LevelsUnder
<1> HIDE DEF IsLevels
<1>11. IsLevels(RunLevels)
  BY <1>9, <1>10
<1>12. \A j \in 1 .. N : RunLevels[j] = LevelsUnder(j, Handed(ParserAbove(j)))
  BY <1>11 DEF IsLevels, Handed
<1> DEFINE Good == {j \in Nat : j \in 1 .. N => RunLevels[j] \in [resbody : Levels, node : Levels]}
<1>13. ASSUME NEW j \in 1 .. N, \A k \in Nat : k < j => k \in Good
       PROVE  Handed(ParserAbove(j)) \in Levels
  <2>1. CASE ParserAbove(j) = <<>>
    BY <2>1 DEF Handed, Outermost, Levels
  <2>2. CASE ParserAbove(j) # <<>>
    <3>1. PICK k : k = ParserAbove(j)[Len(ParserAbove(j))] /\ k \in 1 .. j - 1
      BY <1>3, <2>2
    <3>2. RunLevels[k] \in [resbody : Levels, node : Levels]
      BY <1>13, <3>1
    <3>3. RunLevels[k].node \in Levels
      BY <3>2
    <3> QED
      BY <2>2, <3>1, <3>3 DEF Handed
  <2> QED
    BY <2>1, <2>2
<1>14. ASSUME NEW j \in Nat, \A k \in Nat : k < j => k \in Good PROVE j \in Good
  BY <1>12, <1>13, <1>14, LevelsUnderIs
<1> HIDE DEF Good
<1>15. \A j \in Nat : j \in Good
  BY <1>14, NatSetStrong
<1>16. n \in Nat /\ n \in 1 .. N
  BY <1>1
<1>17. Handed(ParserAbove(n)) \in Levels
  BY <1>13, <1>15, <1>16
<1> QED
  BY <1>12, <1>16, <1>17, LevelsUnderIs

\* And its report, node by node.
LEMMA RunReportedIs ==
    ASSUME tree \in Shapes
    PROVE  /\ RunReported[0] = <<>>
           /\ \A n \in Nodes :
                 RunReported[n] = Noted(Noted(RunReported[n - 1], <<"resbody", n>>, RunLevels[n].resbody),
                                          <<"node", n>>, RunLevels[n].node)
<1>1. PICK N \in Nat : N = Len(tree.parent) /\ Nodes = 1 .. N /\ Len(tree.kind) = N
  BY TreeFacts
<1> DEFINE noted(out, j) == Noted(Noted(out, <<"resbody", j>>, RunLevels[j].resbody),
                                  <<"node", j>>, RunLevels[j].node)
           V == Seq({"resbody", "node"} \X Nat)
           q == [j \in 1 .. N |-> j - 1]
           G == [c \in (1 .. N) \X V |-> noted(c[2], c[1])]
           IsReport(u) == u = [j \in 0 .. N |-> IF j = 0 THEN <<>> ELSE noted(u[j - 1], j)]
<1>2. <<>> \in V
  OBVIOUS
<1>3. ASSUME NEW j \in 1 .. N, NEW v \in V PROVE G[<<j, v>>] = noted(v, j) /\ G[<<j, v>>] \in V
  <2>1. <<"resbody", j>> \in {"resbody", "node"} \X Nat /\ <<"node", j>> \in {"resbody", "node"} \X Nat
    OBVIOUS
  <2>2. Noted(v, <<"resbody", j>>, RunLevels[j].resbody) \in V
    BY <2>1 DEF Noted
  <2>3. noted(v, j) \in V
    BY <2>1, <2>2 DEF Noted
  <2> HIDE DEF noted
  <2> QED
    BY <2>3
<1> HIDE DEF V, G
<1>4. RecursiveStep(N, V, q, G)
  <2>1. \A j \in 1 .. N : q[j] \in 0 .. j - 1
    OBVIOUS
  <2>2. \A j \in 1 .. N : \A v \in V : G[<<j, v>>] \in V
    BY <1>3
  <2> QED
    BY <2>1, <2>2 DEF RecursiveStep
<1>5. PICK f : SolvesRecursion(f, N, V, <<>>, q, G)
  BY <1>2, <1>4, Recursion
<1>6. \A j \in 1 .. N : f[j] = noted(f[j - 1], j)
  <2> SUFFICES ASSUME NEW j \in 1 .. N PROVE f[j] = noted(f[j - 1], j)
    OBVIOUS
  <2>1. q[j] = j - 1 /\ j - 1 \in 0 .. N
    OBVIOUS
  <2>2. f[j] = G[<<j, f[j - 1]>>] /\ f[j - 1] \in V
    BY <1>5, <2>1 DEF SolvesRecursion
  <2> HIDE DEF noted
  <2> QED
    BY <1>3, <2>2
<1> HIDE DEF noted
<1>7. f[0] = <<>> /\ f = [j \in 0 .. N |-> f[j]]
  BY <1>5 DEF SolvesRecursion
<1>8. IsReport(f)
  <2>1. \A j \in 0 .. N : j = 0 \/ j \in 1 .. N
    OBVIOUS
  <2>2. \A j \in 0 .. N : f[j] = IF j = 0 THEN <<>> ELSE noted(f[j - 1], j)
    BY <1>6, <1>7, <2>1
  <2> QED
    BY <1>7, <2>2
<1>9. RunReported = CHOOSE u : IsReport(u)
  BY <1>1 DEF RunReported, ReportedAt, noted
<1> HIDE DEF IsReport
<1>10. IsReport(RunReported)
  BY <1>8, <1>9
<1>11. \A j \in 0 .. N : RunReported[j] = IF j = 0 THEN <<>> ELSE noted(RunReported[j - 1], j)
  BY <1>10 DEF IsReport
<1>12. 0 \in 0 .. N /\ \A j \in 1 .. N : j \in 0 .. N /\ j # 0
  OBVIOUS
<1> QED
  BY <1>1, <1>11, <1>12 DEF noted

-----------------------------------------------------------------------------
(* The hooks of the rule against the recursion.                             *)

\* The value of an `x rescue y` is a later node, a child of it; no rescue value
\* is a node of which no hook tells.
LEMMA RescueValueIs ==
    ASSUME tree \in Shapes, NEW n \in Nodes
    PROVE  /\ RescueValue(n) \in Nat
           /\ RescueValue(n) # 0 => /\ RescueValue(n) \in Nodes /\ tree.parent[RescueValue(n)] = n
                                    /\ Class(tree, n) \in Branches
                                    /\ Class(tree, RescueValue(n)) # "direct"
<1>1. CASE Kind(n) # "rescueMod"
  BY <1>1 DEF RescueValue
<1>2. CASE Kind(n) = "rescueMod"
  <2>1. n \in DOMAIN tree.kind /\ tree.kind[n] = "rescueMod" /\ DOMAIN tree.kind = Nodes
    BY <1>2, TreeFacts DEF Kind
  <2>2. Class(tree, n) \in Branches
    BY <2>1, NestingKindsAssumption
  <2>3. PICK x, y \in Nodes : Children(tree.parent, n) = <<x, y>> /\ Class(tree, y) # "direct"
    BY <2>1, NestingKindsAssumption
  <2>4. PICK s : s = Children(tree.parent, n)
    OBVIOUS
  <2>5. Elements(s) = {j \in DOMAIN tree.parent : tree.parent[j] = n}
    BY <2>4, TreeFacts, ChildrenAre
  <2>6. Len(s) = 2 /\ s[2] = y
    BY <2>3, <2>4
  <2>7. s[2] \in Elements(s)
    BY <2>6 DEF Elements
  <2>8. tree.parent[y] = n
    BY <2>5, <2>6, <2>7
  <2>9. RescueValue(n) = y /\ y \in Nat
    BY <1>2, <2>4, <2>6, TreeFacts DEF RescueValue
  <2> QED
    BY <2>2, <2>3, <2>8, <2>9
<1> QED
  BY <1>1, <1>2

\* A node under a `resbody` is below the `x rescue y` itself.
LEMMA HasResbodyIs ==
    ASSUME tree \in Shapes, NEW n \in Nodes, HasResbody(n)
    PROVE  \E k \in Nodes : /\ RescueValue(k) = n /\ Class(tree, n) # "direct"
                            /\ ParserAbove(n) = Append(ParserAbove(k), k)
<1>1. PICK k \in Nodes : RescueValue(k) = n
  BY DEF HasResbody, Nodes
<1>2. n # 0 /\ k # 0 /\ k \in Nat
  BY TreeFacts
<1>3. tree.parent[n] = k /\ Class(tree, k) \in Branches /\ Class(tree, n) # "direct"
  BY <1>1, <1>2, RescueValueIs
<1>4. ParserAbove(n) = Append(ParserAbove(k), k)
  BY <1>2, <1>3, ParserAboveStep
<1> QED
  BY <1>1, <1>3, <1>4

\* Only nodes of which a hook tells count.
LEMMA ConsideredIs ==
    ASSUME tree \in Shapes, NEW n \in Nodes, Considered(n)
    PROVE  Class(tree, n) \in Branches \/ Class(tree, n) = "rescue"
<1>1. n \in DOMAIN tree.kind
  BY TreeFacts
<1>2. tree.kind[n] \in {"loop", "elsif", "modifierIf", "blockCall", "blockPass"} \/ tree.kind[n] = "rescue"
  BY DEF Considered, Kind
<1> QED
  BY <1>1, <1>2, NestingKindsAssumption

Deeper(l, at) == IF at.deep /\ l < at.level THEN at.level ELSE l

\* The state t is the state s after the item has been looked at.
After(s, t, item, at) ==
    /\ NestingTyped(t)
    /\ t.level = at.level /\ (t.ignoring <=> Covered(at))
    /\ t.out = Noted(s.out, item, at)
    /\ t.deepest = Deeper(s.deepest, at)

Fits(s, above) == NestingTyped(s) /\ s.level = above.level /\ (s.ignoring <=> Covered(above))

\* check_level does for a considered item what the stock cop does.
LEMMA CheckLevelIs ==
    ASSUME NEW s, NEW above \in Levels, Fits(s, above), NEW increments \in BOOLEAN,
           NEW item \in {"resbody", "node"} \X Nat
    PROVE  LET t == CheckLevel([s EXCEPT !.level = @ + IF increments THEN 1 ELSE 0], item)
           IN  After(s, t, item, Under(above, TRUE, increments)) /\ t.stack = s.stack
<1>1. PICK l \in Nat : l = s.level + IF increments THEN 1 ELSE 0
  <2>1. s.level \in Nat
    BY DEF Fits, NestingTyped
  <2> QED
    BY <2>1
<1>2. PICK u : u = [s EXCEPT !.level = l]
  OBVIOUS
<1>3. /\ NestingTyped(u) /\ u.level = l /\ u.ignoring = s.ignoring
      /\ u.out = s.out /\ u.deepest = s.deepest /\ u.stack = s.stack
  BY <1>1, <1>2 DEF Fits, NestingTyped
<1>4. PICK t : t = CheckLevel(u, item)
  OBVIOUS
<1>5. PICK at : at = Under(above, TRUE, increments)
  OBVIOUS
<1>6. at.level = l /\ (at.deep <=> l > MaxNesting) /\ (at.ignored <=> Covered(above))
  BY <1>1, <1>5 DEF Under, Covered, Fits
<1>7. CASE l <= MaxNesting
  <2>1. t = u
    BY <1>3, <1>4, <1>7 DEF CheckLevel
  <2>2. ~at.deep
    BY <1>1, <1>6, <1>7, MaxNestingAssumption
  <2>3. After(s, t, item, at)
    BY <1>3, <1>6, <2>1, <2>2 DEF After, Fits, Covered, Noted, Deeper
  <2> QED
    BY <1>1, <1>2, <1>3, <1>4, <1>5, <2>1, <2>3
<1>8. CASE ~(l <= MaxNesting)
  <2>1. at.deep
    BY <1>1, <1>6, <1>8, MaxNestingAssumption
  <2>2. t = [u EXCEPT !.deepest = IF @ < u.level THEN u.level ELSE @, !.ignoring = TRUE,
                      !.out = IF u.ignoring THEN @ ELSE Append(@, item)]
    BY <1>3, <1>4, <1>8 DEF CheckLevel
  <2>3. /\ t.level = l /\ t.ignoring = TRUE /\ t.stack = s.stack
        /\ t.deepest = IF s.deepest < l THEN l ELSE s.deepest
        /\ t.out = IF s.ignoring THEN s.out ELSE Append(s.out, item)
    BY <1>3, <2>2 DEF NestingTyped
  <2>4. NestingTyped(t)
    <3>1. Append(u.out, item) \in Seq({"resbody", "node"} \X Nat)
      BY <1>3 DEF NestingTyped
    <3>2. u.deepest \in Nat /\ u.level \in Nat
      BY <1>3 DEF NestingTyped
    <3> QED
      BY <1>3, <2>2, <3>1, <3>2 DEF NestingTyped
  <2>5. After(s, t, item, at)
    BY <1>6, <2>1, <2>3, <2>4 DEF After, Fits, Covered, Noted, Deeper
  <2> QED
    BY <1>1, <1>2, <1>4, <1>5, <2>3, <2>5
<1> QED
  BY <1>7, <1>8

\* An item that does not count changes nothing.
LEMMA NotConsidered ==
    ASSUME NEW s, NEW above \in Levels, Fits(s, above), NEW item
    PROVE  After(s, s, item, Under(above, FALSE, FALSE))
<1>1. PICK at : at = Under(above, FALSE, FALSE)
  OBVIOUS
<1>2. at.level = above.level /\ ~at.deep /\ (at.ignored <=> Covered(above))
  <2>1. above.level \in Nat
    BY DEF Levels
  <2>2. at.level = above.level + 0 /\ ~at.deep
    BY <1>1 DEF Under
  <2>3. at.ignored <=> above.ignored \/ above.deep
    BY <1>1 DEF Under
  <2>4. at.level = above.level
    BY <2>1, <2>2
  <2> QED
    BY <2>2, <2>3, <2>4 DEF Covered
<1> QED
  BY <1>1, <1>2 DEF After, Fits, Noted, Deeper, Covered

\* The stack once the rescue value n is entered.
Taken(stack, n) == IF HasResbody(n) THEN [stack EXCEPT ![Len(stack)].value = 0] ELSE stack

ResbodyOf(n, outer) == Under(outer, HasResbody(n), HasResbody(n))

\* take_resbody and the level of the resbody.
LEMMA UnderResbodyIs ==
    ASSUME NEW s, NEW outer \in Levels, Fits(s, outer), NEW n \in Nat,
           TakesResbody(s, n) <=> HasResbody(n)
    PROVE  /\ After(s, UnderResbody(s, n), <<"resbody", n>>, ResbodyOf(n, outer))
           /\ UnderResbody(s, n).stack = Taken(s.stack, n)
<1>1. CASE HasResbody(n)
  <2>1. PICK st : st = Taken(s.stack, n)
    OBVIOUS
  <2>2. /\ st = [s.stack EXCEPT ![Len(s.stack)].value = 0]
        /\ st \in Seq([delta : Nat, opened : BOOLEAN, value : Nat])
    <3>1. PICK old : old = s.stack
      OBVIOUS
    <3>2. old \in Seq([delta : Nat, opened : BOOLEAN, value : Nat]) /\ old # <<>>
      BY <1>1, <3>1 DEF Fits, NestingTyped, TakesResbody
    <3>3. Len(old) \in 1 .. Len(old)
      BY <3>2
    <3>4. old[Len(old)] \in [delta : Nat, opened : BOOLEAN, value : Nat]
      <4>1. PICK R : R = [delta : Nat, opened : BOOLEAN, value : Nat]
        OBVIOUS
      <4>2. old \in Seq(R)
        BY <3>2, <4>1
      <4>3. old[Len(old)] \in R
        BY <3>3, <4>2
      <4> QED
        BY <4>1, <4>3
    <3>5. [old[Len(old)] EXCEPT !.value = 0] \in [delta : Nat, opened : BOOLEAN, value : Nat]
      BY <3>4
    <3>6. [old EXCEPT ![Len(old)] = [old[Len(old)] EXCEPT !.value = 0]]
             \in Seq([delta : Nat, opened : BOOLEAN, value : Nat])
      BY <3>2, <3>3, <3>5
    <3> QED
      BY <1>1, <2>1, <3>1, <3>6 DEF Taken
  <2>3. PICK w : w = [s EXCEPT !.stack = st]
    OBVIOUS
  <2>4. /\ NestingTyped(w) /\ w.level = s.level /\ w.ignoring = s.ignoring
        /\ w.out = s.out /\ w.deepest = s.deepest /\ w.stack = st
    BY <2>2, <2>3 DEF Fits, NestingTyped
  <2>5. Fits(w, outer)
    BY <2>4 DEF Fits
  <2>6. PICK t : t = UnderResbody(s, n)
    OBVIOUS
  <2>7. [w EXCEPT !.level = @ + IF TRUE THEN 1 ELSE 0] =
           [s EXCEPT !.level = @ + 1, !.stack[Len(s.stack)].value = 0]
    BY <2>2, <2>3 DEF Fits, NestingTyped
  <2>8. t = CheckLevel([w EXCEPT !.level = @ + IF TRUE THEN 1 ELSE 0], <<"resbody", n>>)
    BY <1>1, <2>6, <2>7 DEF UnderResbody
  <2>9. <<"resbody", n>> \in {"resbody", "node"} \X Nat
    OBVIOUS
  <2>10. After(w, t, <<"resbody", n>>, Under(outer, TRUE, TRUE)) /\ t.stack = w.stack
    BY <2>5, <2>8, <2>9, CheckLevelIs
  <2>11. After(s, t, <<"resbody", n>>, Under(outer, TRUE, TRUE)) /\ t.stack = st
    BY <2>4, <2>10 DEF After
  <2>12. HasResbody(n) = TRUE
    BY <1>1 DEF HasResbody
  <2> QED
    BY <2>1, <2>6, <2>11, <2>12 DEF ResbodyOf
<1>2. CASE ~HasResbody(n)
  <2>1. UnderResbody(s, n) = s /\ Taken(s.stack, n) = s.stack
    BY <1>2 DEF UnderResbody, Taken
  <2>2. HasResbody(n) = FALSE
    BY <1>2 DEF HasResbody
  <2>3. After(s, s, <<"resbody", n>>, Under(outer, FALSE, FALSE))
    BY NotConsidered
  <2> QED
    BY <2>1, <2>2, <2>3 DEF ResbodyOf
<1> QED
  BY <1>1, <1>2

\* The frame enter pushes.
NewFrame(n, outer) ==
    LET at == LevelsUnder(n, outer).node
    IN  [delta  |-> at.level - outer.level,
         opened |-> Covered(at) /\ ~Covered(outer),
         value  |-> RescueValue(n)]

\* Does the node count, and add a level?
LEMMA CountsHere ==
    ASSUME tree \in Shapes, NEW n \in Nodes
    PROVE  (n \in ConsideredNodes) = Considered(n) /\ (n \in IncrementsNodes) = Increments(n)
<1>1. n \in DOMAIN tree.kind
  BY TreeFacts
<1>2. Considered(n) \in BOOLEAN /\ Increments(n) \in BOOLEAN
  BY DEF Considered, Increments
<1>3. (n \in ConsideredNodes <=> Considered(n)) /\ (n \in IncrementsNodes <=> Increments(n))
  BY <1>1 DEF ConsideredNodes, IncrementsNodes
<1> QED
  BY <1>2, <1>3

\* The state after both items of a node, the resbody and the node itself.
AfterNode(s, t, n, outer) ==
    LET at == LevelsUnder(n, outer)
    IN  /\ t.out = Noted(Noted(s.out, <<"resbody", n>>, at.resbody), <<"node", n>>, at.node)
        /\ t.deepest = Deeper(Deeper(s.deepest, at.resbody), at.node)

\* enter gives the level below the node.
LEMMA NestIs ==
    ASSUME tree \in Shapes, NEW s, NEW outer \in Levels, Fits(s, outer), NEW n \in Nodes,
           TakesResbody(s, n) <=> HasResbody(n)
    PROVE  /\ Fits(Nest(s, n), LevelsUnder(n, outer).node)
           /\ AfterNode(s, Nest(s, n), n, outer)
           /\ Nest(s, n).stack = Append(Taken(s.stack, n), NewFrame(n, outer))
<1>1. n \in Nat
  BY TreeFacts
<1>2. PICK u : u = UnderResbody(s, n)
  OBVIOUS
<1>3. PICK rb : rb = ResbodyOf(n, outer)
  OBVIOUS
<1>4. After(s, u, <<"resbody", n>>, rb) /\ u.stack = Taken(s.stack, n)
  BY <1>1, <1>2, <1>3, UnderResbodyIs
<1>5. rb \in Levels /\ Fits(u, rb)
  <2>1. HasResbody(n) \in BOOLEAN
    BY DEF HasResbody
  <2>2. rb \in Levels
    BY <1>3, <2>1, UnderIs DEF ResbodyOf
  <2> QED
    BY <1>4, <2>2 DEF After, Fits
<1>6. PICK at : at = LevelsUnder(n, outer).node
  OBVIOUS
<1>7. at = Under(rb, Considered(n), Increments(n)) /\ LevelsUnder(n, outer).resbody = rb
  BY <1>3, <1>6, CountsHere DEF LevelsUnder, ResbodyOf
<1>8. PICK here : here = IF Considered(n)
                         THEN CheckLevel([u EXCEPT !.level = @ + IF Increments(n) THEN 1 ELSE 0],
                                         <<"node", n>>)
                         ELSE u
  OBVIOUS
<1>9. After(u, here, <<"node", n>>, at) /\ here.stack = u.stack
  <2>1. CASE Considered(n)
    <3>1. Considered(n) = TRUE /\ Increments(n) \in BOOLEAN
      BY <2>1 DEF Considered, Increments
    <3>2. <<"node", n>> \in {"resbody", "node"} \X Nat
      BY <1>1
    <3>3. here = CheckLevel([u EXCEPT !.level = @ + IF Increments(n) THEN 1 ELSE 0], <<"node", n>>)
      BY <1>8, <2>1
    <3>4. After(u, here, <<"node", n>>, Under(rb, TRUE, Increments(n))) /\ here.stack = u.stack
      BY <1>5, <3>1, <3>2, <3>3, CheckLevelIs
    <3> QED
      BY <1>7, <3>1, <3>4
  <2>2. CASE ~Considered(n)
    <3>1. Considered(n) = FALSE /\ Increments(n) = FALSE
      BY <2>2 DEF Considered, Increments
    <3>2. here = u
      BY <1>8, <2>2
    <3>3. After(u, u, <<"node", n>>, Under(rb, FALSE, FALSE))
      BY <1>5, NotConsidered
    <3> QED
      BY <1>7, <3>1, <3>2, <3>3
  <2> QED
    BY <2>1, <2>2
<1>10. PICK frame : frame = [delta |-> here.level - s.level, opened |-> here.ignoring /\ ~s.ignoring,
                             value |-> RescueValue(n)]
  OBVIOUS
<1>11. frame = NewFrame(n, outer)
  <2>1. here.level - s.level = at.level - outer.level
    BY <1>9 DEF After, Fits
  <2>2. (here.ignoring /\ ~s.ignoring) = (Covered(at) /\ ~Covered(outer))
    BY <1>9 DEF After, Fits
  <2> QED
    BY <1>6, <1>10, <2>1, <2>2 DEF NewFrame
<1>12. Nest(s, n) = [here EXCEPT !.stack = Append(@, frame)]
  BY <1>2, <1>8, <1>10 DEF Nest, Delta
<1>13. frame \in [delta : Nat, opened : BOOLEAN, value : Nat]
  <2>1. here.level - s.level \in Nat
    <3>1. here.level \in Nat /\ s.level \in Nat
      BY <1>9 DEF After, Fits, NestingTyped
    <3>2. here.level = at.level /\ s.level = outer.level
      BY <1>9 DEF After, Fits
    <3>3. rb.level >= outer.level
      BY <1>3, <3>1, <3>2 DEF ResbodyOf, Under
    <3>4. at.level >= rb.level
      BY <1>5, <1>7 DEF Under, Levels
    <3>5. rb.level \in Nat
      BY <1>5 DEF Levels
    <3> QED
      BY <3>1, <3>2, <3>3, <3>4, <3>5
  <2>2. RescueValue(n) \in Nat
    BY RescueValueIs
  <2> QED
    BY <1>10, <2>1, <2>2
<1>14. NestingTyped(here)
  BY <1>9 DEF After
<1>15. PICK t : t = Nest(s, n)
  OBVIOUS
<1>16. /\ NestingTyped(t) /\ t.level = here.level /\ t.ignoring = here.ignoring
       /\ t.out = here.out /\ t.deepest = here.deepest /\ t.stack = Append(here.stack, frame)
  <2>1. Append(here.stack, frame) \in Seq([delta : Nat, opened : BOOLEAN, value : Nat])
    BY <1>13, <1>14 DEF NestingTyped
  <2> QED
    BY <1>12, <1>14, <1>15, <2>1 DEF NestingTyped
<1>17. Fits(t, at)
  BY <1>9, <1>16 DEF After, Fits
<1>18. /\ t.out = Noted(Noted(s.out, <<"resbody", n>>, rb), <<"node", n>>, at)
       /\ t.deepest = Deeper(Deeper(s.deepest, rb), at)
  BY <1>4, <1>9, <1>16 DEF After
<1>19. AfterNode(s, t, n, outer)
  BY <1>6, <1>7, <1>18 DEF AfterNode
<1> QED
  BY <1>4, <1>6, <1>9, <1>11, <1>15, <1>16, <1>17, <1>19

\* A leaf, and a node no hook tells of, is no item itself.
LEMMA NestLeafIs ==
    ASSUME tree \in Shapes, NEW s, NEW outer \in Levels, Fits(s, outer), NEW n \in Nodes,
           TakesResbody(s, n) <=> HasResbody(n), ~Considered(n)
    PROVE  /\ Fits(NestLeaf(s, n), outer)
           /\ AfterNode(s, NestLeaf(s, n), n, outer)
           /\ NestLeaf(s, n).stack = Taken(s.stack, n)
<1>1. n \in Nat
  BY TreeFacts
<1>2. PICK u, rb, t : u = UnderResbody(s, n) /\ rb = ResbodyOf(n, outer) /\ t = NestLeaf(s, n)
  OBVIOUS
<1>3. After(s, u, <<"resbody", n>>, rb) /\ u.stack = Taken(s.stack, n)
  BY <1>1, <1>2, UnderResbodyIs
<1>4. t = [u EXCEPT !.level = s.level, !.ignoring = s.ignoring]
  BY <1>2 DEF NestLeaf
<1>5. /\ NestingTyped(t) /\ t.level = s.level /\ t.ignoring = s.ignoring
      /\ t.out = u.out /\ t.deepest = u.deepest /\ t.stack = u.stack
  BY <1>3, <1>4 DEF After, Fits, NestingTyped
<1>6. LevelsUnder(n, outer).resbody = rb /\ ~LevelsUnder(n, outer).node.deep
  BY <1>2, CountsHere DEF LevelsUnder, ResbodyOf, Under
<1>7. AfterNode(s, t, n, outer)
  BY <1>3, <1>5, <1>6 DEF AfterNode, After, Noted, Deeper
<1> QED
  BY <1>2, <1>3, <1>5, <1>7 DEF Fits

\* The node entered next takes the resbody just when it has one.
LEMMA TakesIs ==
    ASSUME tree \in Shapes, NEW n \in Nodes, NEW s, NestingTyped(s),
           FramesOf(s.stack, ParserAbove(n), n - 1)
    PROVE  TakesResbody(s, n) <=> HasResbody(n)
<1>1. PICK above, stack : above = ParserAbove(n) /\ stack = s.stack
  OBVIOUS
<1>2. /\ above \in Seq(Nodes) /\ Len(above) \in Nat /\ Len(stack) = Len(above)
      /\ stack \in Seq([delta : Nat, opened : BOOLEAN, value : Nat])
      /\ \A i \in 1 .. Len(above) : FrameOf(stack[i], above[i], Handed(SubSeq(above, 1, i - 1)), n - 1)
  BY <1>1, ParserAboveType DEF FramesOf, NestingTyped
<1>3. n \in Nat \ {0}
  BY TreeFacts
<1>4. ASSUME TakesResbody(s, n) PROVE HasResbody(n)
  <2>1. PICK k : k = Len(above)
    OBVIOUS
  <2>2. k \in 1 .. k /\ stack[k].value = n
    BY <1>1, <1>2, <1>4, <2>1 DEF TakesResbody
  <2>3. stack[k].value \in {0, RescueValue(above[k])}
    BY <1>2, <2>1, <2>2 DEF FrameOf
  <2>4. RescueValue(above[k]) = n /\ above[k] \in Nodes
    BY <1>2, <1>3, <2>1, <2>2, <2>3
  <2> QED
    BY <2>4 DEF HasResbody, Nodes
<1>5. ASSUME HasResbody(n) PROVE TakesResbody(s, n)
  <2>1. PICK k \in Nodes : RescueValue(k) = n /\ above = Append(ParserAbove(k), k)
    BY <1>1, <1>5, HasResbodyIs
  <2>2. PICK up : up = ParserAbove(k)
    OBVIOUS
  <2>3. up \in Seq(Nodes)
    BY <2>2, ParserAboveType
  <2>4. PICK i : i = Len(above)
    OBVIOUS
  <2>5. i \in 1 .. i /\ above[i] = k
    BY <2>1, <2>2, <2>3, <2>4
  <2>6. FrameOf(stack[i], k, Handed(SubSeq(above, 1, i - 1)), n - 1)
    BY <1>2, <2>4, <2>5
  <2>7. stack[i].value = n
    BY <1>3, <2>1, <2>6 DEF FrameOf
  <2> QED
    BY <1>1, <1>2, <2>4, <2>5, <2>7 DEF TakesResbody
<1> QED
  BY <1>4, <1>5

\* The frames are right once the node is entered.
LEMMA FramesTaken ==
    ASSUME tree \in Shapes, NEW n \in Nodes, NEW s, NestingTyped(s),
           FramesOf(s.stack, ParserAbove(n), n - 1)
    PROVE  FramesOf(Taken(s.stack, n), ParserAbove(n), n)
<1>1. PICK above, stack : above = ParserAbove(n) /\ stack = s.stack
  OBVIOUS
<1>2. /\ above \in Seq(Nodes) /\ Len(above) \in Nat /\ Len(stack) = Len(above)
      /\ stack \in Seq([delta : Nat, opened : BOOLEAN, value : Nat])
      /\ \A i \in 1 .. Len(above) : FrameOf(stack[i], above[i], Handed(SubSeq(above, 1, i - 1)), n - 1)
  BY <1>1, ParserAboveType DEF FramesOf, NestingTyped
<1>3. n \in Nat \ {0}
  BY TreeFacts
<1>4. ASSUME NEW i \in 1 .. Len(above), NEW outer, FrameOf(stack[i], above[i], outer, n - 1)
      PROVE  FrameOf(stack[i], above[i], outer, n)
  <2>1. above[i] \in Nodes
    BY <1>2
  <2>2. RescueValue(above[i]) \in Nat
    BY <2>1, RescueValueIs
  <2> QED
    BY <1>3, <1>4, <2>2 DEF FrameOf
<1>5. CASE ~HasResbody(n)
  <2>1. Taken(stack, n) = stack
    BY <1>5 DEF Taken
  <2>2. \A i \in 1 .. Len(above) : FrameOf(stack[i], above[i], Handed(SubSeq(above, 1, i - 1)), n)
    BY <1>2, <1>4
  <2> QED
    BY <1>1, <1>2, <2>1, <2>2 DEF FramesOf
<1>6. CASE HasResbody(n)
  <2>1. PICK k \in Nodes : RescueValue(k) = n /\ above = Append(ParserAbove(k), k)
    BY <1>1, <1>6, HasResbodyIs
  <2>2. PICK up : up = ParserAbove(k)
    OBVIOUS
  <2>3. up \in Seq(Nodes)
    BY <2>2, ParserAboveType
  <2>4. PICK l : l = Len(above)
    OBVIOUS
  <2>5. l \in 1 .. l /\ above[l] = k /\ Len(stack) = l /\ DOMAIN stack = 1 .. l
    BY <1>2, <2>1, <2>2, <2>3, <2>4
  <2>6. PICK old, new : old = stack[l] /\ new = [old EXCEPT !.value = 0]
    OBVIOUS
  <2>7. old \in [delta : Nat, opened : BOOLEAN, value : Nat]
    <3>1. PICK R : R = [delta : Nat, opened : BOOLEAN, value : Nat]
      OBVIOUS
    <3>2. stack \in Seq(R)
      BY <1>2, <3>1
    <3>3. old \in R
      BY <2>5, <2>6, <3>2
    <3> QED
      BY <3>1, <3>3
  <2>8. new.delta = old.delta /\ new.opened = old.opened /\ new.value = 0
    BY <2>6, <2>7
  <2>9. PICK st : st = Taken(stack, n)
    OBVIOUS
  <2>10. st = [stack EXCEPT ![l] = new]
    BY <1>6, <2>5, <2>6, <2>9 DEF Taken
  <2>11. Len(st) = l /\ st[l] = new /\ \A i \in 1 .. l : i # l => st[i] = stack[i]
    BY <1>2, <2>5, <2>10
  <2>12. ASSUME NEW i \in 1 .. l PROVE FrameOf(st[i], above[i], Handed(SubSeq(above, 1, i - 1)), n)
    <3>1. FrameOf(stack[i], above[i], Handed(SubSeq(above, 1, i - 1)), n - 1)
      BY <1>2, <2>4
    <3>2. CASE i # l
      BY <1>4, <2>4, <2>11, <3>1, <3>2
    <3>3. CASE i = l
      <4>1. PICK outer : outer = Handed(SubSeq(above, 1, i - 1))
        OBVIOUS
      <4>2. FrameOf(old, k, outer, n - 1)
        BY <2>5, <2>6, <3>1, <3>3, <4>1
      <4>3. FrameOf(new, k, outer, n)
        BY <1>3, <2>1, <2>8, <4>2 DEF FrameOf
      <4> QED
        BY <2>5, <2>11, <3>3, <4>1, <4>3
    <3> QED
      BY <3>2, <3>3
  <2> QED
    BY <1>1, <2>4, <2>9, <2>11, <2>12 DEF FramesOf
<1> QED
  BY <1>5, <1>6

\* enter pushes the frame the node should have.
LEMMA FramesPush ==
    ASSUME tree \in Shapes, NEW n \in Nodes, NEW stack, NEW m,
           stack \in Seq([delta : Nat, opened : BOOLEAN, value : Nat]),
           FramesOf(stack, ParserAbove(n), m)
    PROVE  FramesOf(Append(stack, NewFrame(n, Handed(ParserAbove(n)))), Append(ParserAbove(n), n), m)
<1>1. PICK above, outer, new : /\ above = ParserAbove(n) /\ outer = Handed(above)
                               /\ new = NewFrame(n, outer)
  OBVIOUS
<1>2. above \in Seq(Nodes) /\ Len(above) \in Nat /\ Len(stack) = Len(above)
  BY <1>1, ParserAboveType DEF FramesOf
<1>3. PICK l : l = Len(above)
  OBVIOUS
<1>4. PICK st, longer : st = Append(stack, new) /\ longer = Append(above, n)
  OBVIOUS
<1>5. /\ Len(st) = l + 1 /\ st[l + 1] = new /\ \A i \in 1 .. l : st[i] = stack[i]
      /\ Len(longer) = l + 1 /\ longer[l + 1] = n /\ \A i \in 1 .. l : longer[i] = above[i]
  <2>1. IsSequence(stack)
    BY DEF IsSequence
  <2>2. /\ Len(st) = Len(stack) + 1 /\ st[Len(stack) + 1] = new
        /\ \A i \in 1 .. Len(stack) : st[i] = stack[i]
    BY <1>4, <2>1, AppendIs
  <2> QED
    BY <1>2, <1>3, <1>4, <2>2
<1>6. ASSUME NEW i \in 1 .. l PROVE FrameOf(st[i], longer[i], Handed(SubSeq(longer, 1, i - 1)), m)
  <2>1. SubSeq(longer, 1, i - 1) = SubSeq(above, 1, i - 1)
    BY <1>2, <1>3, <1>4, PrefixIs
  <2>2. FrameOf(stack[i], above[i], Handed(SubSeq(above, 1, i - 1)), m)
    BY <1>1, <1>3 DEF FramesOf
  <2> QED
    BY <1>5, <2>1, <2>2
<1>7. FrameOf(new, n, outer, m)
  <2>1. PICK at : at = RunLevels[n].node
    OBVIOUS
  <2>2. at = LevelsUnder(n, outer).node /\ at.level \in Nat /\ outer.level \in Nat
    BY <1>1, <2>1, RunLevelsIs DEF Levels
  <2>3. /\ new.delta = at.level - outer.level /\ new.value = RescueValue(n)
        /\ new.opened <=> Covered(at) /\ ~Covered(outer)
    BY <1>1, <2>2 DEF NewFrame
  <2> QED
    BY <2>1, <2>2, <2>3 DEF FrameOf
<1>8. SubSeq(longer, 1, (l + 1) - 1) = above
  <2>1. l + 1 \in 1 .. Len(above) + 1 /\ (l + 1) - 1 = Len(above)
    BY <1>2, <1>3
  <2>2. SubSeq(longer, 1, (l + 1) - 1) = SubSeq(above, 1, (l + 1) - 1)
    BY <1>2, <1>4, <2>1, PrefixIs
  <2> QED
    BY <1>2, <2>1, <2>2, WholeIs
<1>9. FrameOf(st[l + 1], longer[l + 1], Handed(SubSeq(longer, 1, (l + 1) - 1)), m)
  BY <1>1, <1>5, <1>7, <1>8
<1>10. \A i \in 1 .. l + 1 : i \in 1 .. l \/ i = l + 1
  BY <1>2, <1>3
<1>11. FramesOf(st, longer, m)
  BY <1>5, <1>6, <1>9, <1>10 DEF FramesOf
<1> QED
  BY <1>1, <1>4, <1>11

\* leave takes off the frame of the node, and leaves those above it.
LEMMA FramesPop ==
    ASSUME NEW above \in Seq(Nodes), NEW n \in Nodes, NEW stack, NEW m,
           stack \in Seq([delta : Nat, opened : BOOLEAN, value : Nat]),
           FramesOf(stack, Append(above, n), m)
    PROVE  /\ FramesOf(SubSeq(stack, 1, Len(stack) - 1), above, m)
           /\ FrameOf(stack[Len(stack)], n, Handed(above), m)
           /\ stack[Len(stack)] \in [delta : Nat, opened : BOOLEAN, value : Nat]
           /\ SubSeq(stack, 1, Len(stack) - 1) \in Seq([delta : Nat, opened : BOOLEAN, value : Nat])
<1>1. PICK longer, l, R : /\ longer = Append(above, n) /\ l = Len(above)
                          /\ R = [delta : Nat, opened : BOOLEAN, value : Nat]
  OBVIOUS
<1>2. /\ l \in Nat /\ Len(longer) = l + 1 /\ longer[l + 1] = n /\ \A i \in 1 .. l : longer[i] = above[i]
      /\ Len(stack) = l + 1 /\ stack \in Seq(R)
      /\ \A i \in 1 .. l + 1 : FrameOf(stack[i], longer[i], Handed(SubSeq(longer, 1, i - 1)), m)
  BY <1>1 DEF FramesOf
<1>3. PICK st : st = SubSeq(stack, 1, l)
  OBVIOUS
<1>4. st \in Seq(R) /\ Len(st) = l /\ \A i \in 1 .. l : st[i] = stack[i]
  BY <1>2, <1>3
<1>5. \A i \in 1 .. l + 1 : SubSeq(longer, 1, i - 1) = SubSeq(above, 1, i - 1)
  BY <1>1, PrefixIs
<1>6. FramesOf(st, above, m)
  <2>1. ASSUME NEW i \in 1 .. l PROVE FrameOf(st[i], above[i], Handed(SubSeq(above, 1, i - 1)), m)
    <3>1. i \in 1 .. l + 1
      BY <1>2
    <3>2. FrameOf(stack[i], longer[i], Handed(SubSeq(longer, 1, i - 1)), m)
      BY <1>2, <3>1
    <3> QED
      BY <1>2, <1>4, <1>5, <3>1, <3>2
  <2> QED
    BY <1>1, <1>4, <2>1 DEF FramesOf
<1>7. l + 1 \in 1 .. l + 1 /\ (l + 1) - 1 = l
  BY <1>2
<1>8. SubSeq(longer, 1, (l + 1) - 1) = above
  BY <1>1, <1>5, <1>7, WholeIs
<1>9. FrameOf(stack[l + 1], n, Handed(above), m)
  BY <1>2, <1>7, <1>8
<1>10. stack[l + 1] \in R
  BY <1>2, <1>7
<1> QED
  BY <1>1, <1>2, <1>3, <1>4, <1>6, <1>7, <1>9, <1>10

\* The deepest level, once the node is entered.
LEMMA DeepestStep ==
    ASSUME tree \in Shapes, NEW n \in Nodes, NEW l, IsDeepest(l, n - 1)
    PROVE  IsDeepest(Deeper(Deeper(l, RunLevels[n].resbody), RunLevels[n].node), n)
<1>1. n \in Nat \ {0} /\ \A j \in 1 .. n : j \in Nodes
  BY TreeFacts
<1> DEFINE over(j) == {at.level : at \in {a \in {RunLevels[j].resbody, RunLevels[j].node} : a.deep}}
<1>2. ASSUME NEW j \in Nodes PROVE RunLevels[j].resbody \in Levels /\ RunLevels[j].node \in Levels
  BY RunLevelsIs
<1>3. PICK a, b : a = RunLevels[n].resbody /\ b = RunLevels[n].node
  OBVIOUS
<1>4. a.level \in Nat /\ b.level \in Nat
  BY <1>2, <1>3 DEF Levels
<1>5. RunOver(n) = RunOver(n - 1) \cup over(n)
  <2>1. 1 .. n = (1 .. n - 1) \cup {n}
    BY <1>1
  <2>2. RunOver(n) = UNION {over(j) : j \in 1 .. n} /\ RunOver(n - 1) = UNION {over(j) : j \in 1 .. n - 1}
    BY DEF RunOver, LevelsOver
  <2> HIDE DEF over
  <2> QED
    BY <2>1, <2>2
<1>6. \A k : k \in over(n) <=> (a.deep /\ k = a.level) \/ (b.deep /\ k = b.level)
  BY <1>3
<1>7. RunOver(n - 1) \subseteq Nat
  <2>1. ASSUME NEW j \in 1 .. n - 1 PROVE over(j) \subseteq Nat
    <3>1. j \in Nodes
      BY <1>1
    <3>2. RunLevels[j].resbody.level \in Nat /\ RunLevels[j].node.level \in Nat
      BY <1>2, <3>1 DEF Levels
    <3> QED
      BY <3>2
  <2>2. RunOver(n - 1) = UNION {over(j) : j \in 1 .. n - 1}
    BY DEF RunOver, LevelsOver
  <2> HIDE DEF over
  <2> QED
    BY <2>1, <2>2
<1> HIDE DEF over
<1>8. l \in RunOver(n - 1) \cup {0} /\ l \in Nat /\ \A k \in RunOver(n - 1) : k <= l
  BY <1>7 DEF IsDeepest
<1>9. PICK c : c = Deeper(l, a)
  OBVIOUS
<1>10. c \in Nat /\ l <= c /\ (a.deep => a.level <= c) /\ (c = l \/ (a.deep /\ c = a.level))
  BY <1>4, <1>8, <1>9 DEF Deeper
<1>11. PICK d : d = Deeper(c, b)
  OBVIOUS
<1>12. d \in Nat /\ c <= d /\ (b.deep => b.level <= d) /\ (d = c \/ (b.deep /\ d = b.level))
  BY <1>4, <1>10, <1>11 DEF Deeper
<1>13. d \in RunOver(n) \cup {0}
  BY <1>5, <1>6, <1>8, <1>10, <1>12
<1>14. ASSUME NEW k \in RunOver(n) PROVE k <= d
  <2>1. CASE k \in RunOver(n - 1)
    <3>1. k \in Nat /\ k <= l
      BY <1>7, <1>8, <2>1
    <3> QED
      BY <1>8, <1>10, <1>12, <3>1
  <2>2. CASE k \in over(n)
    BY <1>4, <1>6, <1>10, <1>12, <2>2
  <2> QED
    BY <1>5, <2>1, <2>2
<1> QED
  BY <1>3, <1>9, <1>11, <1>13, <1>14 DEF IsDeepest

\* A node is entered: what was reported, and how deep.
LEMMA NodeSeen ==
    ASSUME tree \in Shapes, NEW n \in Nodes, NEW s, NEW t,
           s.out = RunReported[n - 1], IsDeepest(s.deepest, n - 1),
           AfterNode(s, t, n, Handed(ParserAbove(n)))
    PROVE  t.out = RunReported[n] /\ IsDeepest(t.deepest, n)
<1>1. LevelsUnder(n, Handed(ParserAbove(n))) = RunLevels[n]
  BY RunLevelsIs
<1>2. /\ t.out = Noted(Noted(s.out, <<"resbody", n>>, RunLevels[n].resbody), <<"node", n>>, RunLevels[n].node)
      /\ t.deepest = Deeper(Deeper(s.deepest, RunLevels[n].resbody), RunLevels[n].node)
  BY <1>1 DEF AfterNode
<1>3. t.out = RunReported[n]
  BY <1>2, RunReportedIs
<1>4. IsDeepest(t.deepest, n)
  BY <1>2, DeepestStep
<1> QED
  BY <1>3, <1>4

\* What is handed down below a node that has a frame.
LEMMA HandedBelow ==
    ASSUME tree \in Shapes, NEW n \in Nodes
    PROVE  Handed(Append(ParserAbove(n), n)) = RunLevels[n].node
<1>1. PICK above, longer : above = ParserAbove(n) /\ longer = Append(above, n)
  OBVIOUS
<1>2. above \in Seq(Nodes)
  BY <1>1, ParserAboveType
<1>3. longer # <<>> /\ longer[Len(longer)] = n
  BY <1>1, <1>2
<1> QED
  BY <1>1, <1>3 DEF Handed

\* enter, at a node that gets a frame.
LEMMA NestVisit ==
    ASSUME tree \in Shapes, NEW n \in Nodes, NEW s, NestInv(s, ParserAbove(n), n - 1)
    PROVE  NestInv(Nest(s, n), Append(ParserAbove(n), n), n)
<1>1. PICK above, outer, t : above = ParserAbove(n) /\ outer = Handed(above) /\ t = Nest(s, n)
  OBVIOUS
<1>2. outer \in Levels /\ Fits(s, outer) /\ NestingTyped(s) /\ FramesOf(s.stack, above, n - 1)
  BY <1>1, RunLevelsIs DEF NestInv, Fits, RunsLike
<1>3. TakesResbody(s, n) <=> HasResbody(n)
  BY <1>1, <1>2, TakesIs
<1>4. /\ Fits(t, LevelsUnder(n, outer).node)
      /\ AfterNode(s, t, n, outer)
      /\ t.stack = Append(Taken(s.stack, n), NewFrame(n, outer))
  BY <1>1, <1>2, <1>3, NestIs
<1>5. LevelsUnder(n, outer).node = Handed(Append(above, n))
  BY <1>1, RunLevelsIs, HandedBelow
<1>6. NestingTyped(t) /\ RunsLike(t, Append(above, n))
  BY <1>4, <1>5 DEF Fits, RunsLike
<1>7. FramesOf(t.stack, Append(above, n), n)
  <2>1. FramesOf(Taken(s.stack, n), above, n)
    BY <1>1, <1>2, FramesTaken
  <2>2. Taken(s.stack, n) \in Seq([delta : Nat, opened : BOOLEAN, value : Nat])
    <3>1. n \in Nat
      BY TreeFacts
    <3>2. /\ After(s, UnderResbody(s, n), <<"resbody", n>>, ResbodyOf(n, outer))
          /\ UnderResbody(s, n).stack = Taken(s.stack, n)
      BY <1>2, <1>3, <3>1, UnderResbodyIs
    <3> QED
      BY <3>2 DEF After, NestingTyped
  <2> QED
    BY <1>1, <1>4, <2>1, <2>2, FramesPush
<1>8. s.out = RunReported[n - 1] /\ IsDeepest(s.deepest, n - 1)
  BY DEF NestInv
<1>9. t.out = RunReported[n] /\ IsDeepest(t.deepest, n)
  BY <1>1, <1>4, <1>8, NodeSeen
<1> QED
  BY <1>1, <1>6, <1>7, <1>9 DEF NestInv

\* enter_leaf.
LEMMA NestSkip ==
    ASSUME tree \in Shapes, NEW n \in Nodes, NEW s, NestInv(s, ParserAbove(n), n - 1), ~Considered(n)
    PROVE  NestInv(NestLeaf(s, n), ParserAbove(n), n)
<1>1. PICK above, outer, t : above = ParserAbove(n) /\ outer = Handed(above) /\ t = NestLeaf(s, n)
  OBVIOUS
<1>2. outer \in Levels /\ Fits(s, outer) /\ NestingTyped(s) /\ FramesOf(s.stack, above, n - 1)
  BY <1>1, RunLevelsIs DEF NestInv, Fits, RunsLike
<1>3. TakesResbody(s, n) <=> HasResbody(n)
  BY <1>1, <1>2, TakesIs
<1>4. /\ Fits(t, outer) /\ AfterNode(s, t, n, outer)
      /\ t.stack = Taken(s.stack, n)
  BY <1>1, <1>2, <1>3, NestLeafIs
<1>5. NestingTyped(t) /\ RunsLike(t, above)
  BY <1>1, <1>4 DEF Fits, RunsLike
<1>6. FramesOf(t.stack, above, n)
  BY <1>1, <1>2, <1>4, FramesTaken
<1>7. s.out = RunReported[n - 1] /\ IsDeepest(s.deepest, n - 1)
  BY DEF NestInv
<1>8. t.out = RunReported[n] /\ IsDeepest(t.deepest, n)
  BY <1>1, <1>4, <1>7, NodeSeen
<1> QED
  BY <1>1, <1>5, <1>6, <1>8 DEF NestInv

\* At a node no hook tells of, there is nothing to do.
LEMMA NestDirect ==
    ASSUME tree \in Shapes, NEW n \in Nodes, NEW s, NestInv(s, ParserAbove(n), n - 1),
           Class(tree, n) = "direct"
    PROVE  NestInv(s, ParserAbove(n), n)
<1>1. ~Considered(n) /\ ~HasResbody(n)
  <2>1. "direct" \notin Branches
    BY DEF Branches, ClassIndex
  <2> QED
    BY <2>1, ConsideredIs, HasResbodyIs
<1>2. ~TakesResbody(s, n)
  BY <1>1, TakesIs DEF NestInv
<1>3. NestLeaf(s, n) = s
  BY <1>2 DEF NestLeaf, UnderResbody, NestInv, NestingTyped
<1> QED
  BY <1>1, <1>3, NestSkip

\* leave.
LEMMA NestPop ==
    ASSUME tree \in Shapes, NEW n \in Nodes, NEW s, NEW m,
           NestInv(s, Append(ParserAbove(n), n), m)
    PROVE  NestInv(Unnest(s), ParserAbove(n), m)
<1>1. PICK above, outer, t, at : /\ above = ParserAbove(n) /\ outer = Handed(above) /\ t = Unnest(s)
                                 /\ at = RunLevels[n].node
  OBVIOUS
<1>2. above \in Seq(Nodes) /\ outer \in Levels /\ at \in Levels
  BY <1>1, ParserAboveType, RunLevelsIs
<1>3. PICK stack, st, frame : /\ stack = s.stack /\ st = SubSeq(stack, 1, Len(stack) - 1)
                              /\ frame = stack[Len(stack)]
  OBVIOUS
<1>4. /\ NestingTyped(s) /\ FramesOf(stack, Append(above, n), m)
      /\ s.level = at.level /\ (s.ignoring <=> Covered(at))
      /\ stack \in Seq([delta : Nat, opened : BOOLEAN, value : Nat])
  BY <1>1, <1>3, HandedBelow DEF NestInv, RunsLike, NestingTyped
<1>5. /\ FramesOf(st, above, m) /\ FrameOf(frame, n, outer, m)
      /\ frame \in [delta : Nat, opened : BOOLEAN, value : Nat]
      /\ st \in Seq([delta : Nat, opened : BOOLEAN, value : Nat])
  BY <1>1, <1>2, <1>3, <1>4, FramesPop
<1>6. frame.delta + outer.level = at.level /\ (frame.opened <=> Covered(at) /\ ~Covered(outer))
  BY <1>1, <1>5 DEF FrameOf
<1>7. s.level - frame.delta = outer.level /\ outer.level \in Nat
  <2>1. outer.level \in Nat /\ frame.delta \in Nat
    BY <1>2, <1>5 DEF Levels
  <2> QED
    BY <1>4, <1>6, <2>1
<1>8. Covered(outer) => Covered(at)
  <2>1. PICK rb : rb = ResbodyOf(n, outer)
    OBVIOUS
  <2>2. RunLevels[n] = LevelsUnder(n, outer)
    BY <1>1, RunLevelsIs
  <2>3. at = Under(rb, n \in ConsideredNodes, n \in IncrementsNodes)
    BY <1>1, <2>1, <2>2 DEF LevelsUnder, ResbodyOf
  <2>4. at.ignored <=> rb.ignored \/ rb.deep
    BY <2>3 DEF Under
  <2>5. rb.ignored <=> outer.ignored \/ outer.deep
    BY <2>1 DEF ResbodyOf, Under
  <2> QED
    BY <2>4, <2>5 DEF Covered
<1>9. t = [s EXCEPT !.stack = st, !.level = outer.level, !.ignoring = s.ignoring /\ ~frame.opened]
  <2>1. t = [s EXCEPT !.stack = SubSeq(@, 1, Len(@) - 1), !.level = @ - frame.delta,
                      !.ignoring = @ /\ ~frame.opened]
    BY <1>1, <1>3 DEF Unnest
  <2> QED
    BY <1>3, <1>4, <1>7, <2>1 DEF NestingTyped
<1>10. /\ NestingTyped(t) /\ t.level = outer.level /\ (t.ignoring <=> s.ignoring /\ ~frame.opened)
       /\ t.out = s.out /\ t.deepest = s.deepest /\ t.stack = st
  <2>1. (s.ignoring /\ ~frame.opened) \in BOOLEAN
    OBVIOUS
  <2> QED
    BY <1>4, <1>5, <1>7, <1>9, <2>1 DEF NestingTyped
<1>11. t.ignoring <=> Covered(outer)
  BY <1>4, <1>6, <1>8, <1>10
<1> QED
  BY <1>1, <1>5, <1>10, <1>11 DEF NestInv, RunsLike

-----------------------------------------------------------------------------
(* And with the walk.                                                       *)

\* While the tree stays, so does what the stock cop finds in it.
LEMMA SameStock ==
    ASSUME tree' = tree
    PROVE  /\ \A calls, m : OrderInv(calls, m)' = OrderInv(calls, m)
           /\ \A s, above, m : NestInv(s, above, m)' = NestInv(s, above, m)
<1>1. \A n : RescueValue(n)' = RescueValue(n)
  BY DEF RescueValue, Kind
<1>2. \A n : Considered(n)' = Considered(n)
  BY DEF Considered, Kind
<1>3. \A n : Increments(n)' = Increments(n)
  BY <1>2 DEF Increments, Kind
<1>4. \A n : HasResbody(n)' = HasResbody(n)
  BY <1>1 DEF HasResbody
<1>5. \A n : ParserAbove(n)' = ParserAbove(n)
  <2>1. Nodes' = Nodes
    BY DEF Nodes
  <2> QED
    BY <2>1 DEF ParserAbove, Class, Subsequents
<1>6. RunLevels' = RunLevels
  <2>1. ConsideredNodes' = ConsideredNodes /\ IncrementsNodes' = IncrementsNodes
    BY <1>2, <1>3 DEF ConsideredNodes, IncrementsNodes
  <2> QED
    BY <1>4, <1>5, <2>1 DEF RunLevels, LevelsOf
<1>7. RunReported' = RunReported
  BY <1>6 DEF RunReported, ReportedAt
<1>8. \A m : RunOver(m)' = RunOver(m)
  BY <1>6 DEF RunOver, LevelsOver
<1>9. \A above : Handed(above)' = Handed(above)
  BY <1>6 DEF Handed
<1>10. \A s, above, m : NestInv(s, above, m)' = NestInv(s, above, m)
  <2>1. \A stack, above, m : FramesOf(stack, above, m)' = FramesOf(stack, above, m)
    BY <1>1, <1>6, <1>9 DEF FramesOf, FrameOf
  <2>2. \A s, above : RunsLike(s, above)' = RunsLike(s, above)
    BY <1>9 DEF RunsLike
  <2>3. \A l, m : IsDeepest(l, m)' = IsDeepest(l, m)
    BY <1>8 DEF IsDeepest
  <2> QED
    BY <1>7, <2>1, <2>2, <2>3 DEF NestInv
<1>11. \A calls, m : OrderInv(calls, m)' = OrderInv(calls, m)
  BY DEF OrderInv
<1> QED
  BY <1>10, <1>11

\* Of the nodes that are entered, the running state is what the recursion gives.
NestingInv ==
    \E m \in 0 .. Len(tree.parent) : OrderInv(todo, m) /\ NestInv(nesting, frames[ClauseRule], m)

\* A step within a tree.
LEMMA NestingInvAfter ==
    ASSUME tree' = tree, NEW m \in 0 .. Len(tree.parent), OrderInv(todo', m),
           NestInv(nesting', frames'[ClauseRule], m)
    PROVE  NestingInv'
<1>1. PICK calls, s, above : calls = todo' /\ s = nesting' /\ above = frames'[ClauseRule]
  OBVIOUS
<1>2. OrderInv(calls, m)' /\ NestInv(s, above, m)'
  BY <1>1, SameStock
<1>3. OrderInv(todo, m)'
  BY <1>1, <1>2 DEF OrderInv, Ordered, Pending
<1>4. ClauseRule' = ClauseRule
  BY DEF ClauseRule
<1>5. NestInv(nesting, frames[ClauseRule], m)'
  <2>1. FramesOf(nesting.stack, frames[ClauseRule], m)'
    BY <1>1, <1>2, <1>4 DEF NestInv, FramesOf, FrameOf
  <2>2. RunsLike(nesting, frames[ClauseRule])'
    BY <1>1, <1>2, <1>4 DEF NestInv, RunsLike, Handed
  <2> QED
    BY <1>1, <1>2, <2>1, <2>2 DEF NestInv, NestingTyped, IsDeepest
<1>6. (m \in 0 .. Len(tree.parent))'
  OBVIOUS
<1> QED
  BY <1>3, <1>5, <1>6 DEF NestingInv

\* A walk starts with the rule fresh.
LEMMA NestingStart ==
    ASSUME WalkInit, NestingInit
    PROVE  NestingInv
<1>1. /\ tree \in Shapes /\ todo = <<<<"visit", 1>>>> /\ frames = [r \in Rules |-> <<>>]
      /\ nesting = NestingFresh
  BY DEF WalkInit, NestingInit
<1>2. OrderInv(todo, 0) /\ 0 \in 0 .. Len(tree.parent)
  BY <1>1, OrderStart, TreeFacts
<1>3. frames[ClauseRule] = <<>>
  BY <1>1, ClauseRuleIs
<1>4. NestingTyped(nesting)
  BY <1>1 DEF NestingFresh, NestingTyped
<1>5. RunsLike(nesting, <<>>) /\ FramesOf(nesting.stack, <<>>, 0)
  BY <1>1 DEF NestingFresh, RunsLike, Handed, Outermost, Covered, FramesOf
<1>6. nesting.out = RunReported[0]
  BY <1>1, RunReportedIs DEF NestingFresh
<1>7. IsDeepest(nesting.deepest, 0)
  <2>1. 1 .. 0 = {}
    OBVIOUS
  <2>2. RunOver(0) = {}
    BY <2>1 DEF RunOver, LevelsOver
  <2> QED
    BY <1>1, <2>2 DEF NestingFresh, IsDeepest
<1> QED
  BY <1>2, <1>3, <1>4, <1>5, <1>6, <1>7 DEF NestingInv, NestInv

\* A node is visited.
LEMMA NestingVisit ==
    ASSUME WalkInv, NestingInv, OnBranch \/ OnLeaf \/ OnDirect \/ OnRescue
    PROVE  NestingInv'
<1>1. PICK m \in 0 .. Len(tree.parent) : OrderInv(todo, m) /\ NestInv(nesting, frames[ClauseRule], m)
  BY DEF NestingInv
<1>2. Next("visit") /\ WalkNext
  BY DEF OnBranch, OnLeaf, OnDirect, OnRescue, EnterBranch, EnterLeaf, VisitDirect, EnterRescue, WalkNext
<1>3. /\ Node = m + 1 /\ m + 1 \in Nodes /\ m + 1 \in 0 .. Len(tree.parent)
      /\ tree' = tree /\ OrderInv(todo', m + 1)
  BY <1>1, <1>2, VisitIsNext
<1>4. PICK n, s : n = Node /\ s = nesting
  OBVIOUS
<1>5. /\ tree \in Shapes /\ n \in Nodes /\ n = m + 1 /\ n - 1 = m
      /\ frames[ClauseRule] = ParserAbove(n)
      /\ EnterBranch \/ EnterRescue => frames'[ClauseRule] = Append(ParserAbove(n), n)
      /\ EnterLeaf \/ VisitDirect => frames'[ClauseRule] = ParserAbove(n)
  BY <1>2, <1>3, <1>4, ClauseVisited
<1>6. NestInv(s, ParserAbove(n), n - 1)
  BY <1>1, <1>4, <1>5
<1>7. CASE OnBranch \/ OnRescue
  <2>1. nesting' = Nest(s, n) /\ frames'[ClauseRule] = Append(ParserAbove(n), n)
    BY <1>4, <1>5, <1>7 DEF OnBranch, OnRescue, NestingEnter
  <2>2. NestInv(Nest(s, n), Append(ParserAbove(n), n), n)
    BY <1>5, <1>6, NestVisit
  <2> QED
    BY <1>3, <1>5, <2>1, <2>2, NestingInvAfter
<1>8. CASE OnLeaf
  <2>1. nesting' = NestLeaf(s, n) /\ frames'[ClauseRule] = ParserAbove(n) /\ Class(tree, n) = "leaf"
    BY <1>4, <1>5, <1>8 DEF OnLeaf, NestingLeaf, EnterLeaf
  <2>2. ~Considered(n)
    BY <1>5, <2>1, ConsideredIs DEF Branches, ClassIndex
  <2>3. NestInv(NestLeaf(s, n), ParserAbove(n), n)
    BY <1>5, <1>6, <2>2, NestSkip
  <2> QED
    BY <1>3, <1>5, <2>1, <2>3, NestingInvAfter
<1>9. CASE OnDirect
  <2>1. nesting' = s /\ frames'[ClauseRule] = ParserAbove(n) /\ Class(tree, n) = "direct"
    BY <1>4, <1>5, <1>9 DEF OnDirect, VisitDirect, copVars
  <2>2. NestInv(s, ParserAbove(n), n)
    BY <1>5, <1>6, <2>1, NestDirect
  <2> QED
    BY <1>3, <1>5, <2>1, <2>2, NestingInvAfter
<1> QED
  BY <1>7, <1>8, <1>9

\* A node is left.
LEMMA NestingLeft ==
    ASSUME WalkInv, NestingInv, OnLeave \/ OnRescueLeave
    PROVE  NestingInv'
<1>1. PICK m \in 0 .. Len(tree.parent) : OrderInv(todo, m) /\ NestInv(nesting, frames[ClauseRule], m)
  BY DEF NestingInv
<1>2. (LeaveBranch \/ LeaveRescue) /\ nesting' = Unnest(nesting)
  BY DEF OnLeave, OnRescueLeave, NestingLeave
<1>3. PICK n, s : n = Node /\ s = nesting
  OBVIOUS
<1>4. /\ tree \in Shapes /\ n \in Nodes /\ tree' = tree
      /\ frames[ClauseRule] = Append(ParserAbove(n), n)
      /\ frames'[ClauseRule] = ParserAbove(n)
      /\ OrderInv(todo', m)
  BY <1>1, <1>2, <1>3, ClauseLeft
<1>5. NestInv(Unnest(s), ParserAbove(n), m)
  BY <1>1, <1>3, <1>4, NestPop
<1> QED
  BY <1>2, <1>3, <1>4, <1>5, NestingInvAfter

\* Another walk starts fresh.
LEMMA AgainIsFresh ==
    ASSUME WalkAgain
    PROVE  (WalkInit /\ NestingInit)'
BY AgainIsWalkStart DEF WalkAgain, NestingInit, NestingFresh

\* A step of the rules keeps what the rule runs on, or starts it afresh.
LEMMA NestingNext ==
    ASSUME WalkInv, NestingInv, [CopsNext]_<<walkVars, copVars, fileVars>>
    PROVE  NestingInv' \/ (WalkInit /\ NestingInit)'
<1>1. CASE OnHook
  BY <1>1, NestingVisit, NestingLeft DEF OnHook
<1>2. CASE OnInvestigation \/ UNCHANGED <<walkVars, copVars, fileVars>>
  <2>1. UNCHANGED <<walkVars, nesting>>
    BY <1>2 DEF OnInvestigation, Investigate, copVars
  <2>2. PICK m \in 0 .. Len(tree.parent) : OrderInv(todo, m) /\ NestInv(nesting, frames[ClauseRule], m)
    BY DEF NestingInv
  <2>3. tree' = tree /\ OrderInv(todo', m) /\ NestInv(nesting', frames'[ClauseRule], m)
    BY <2>1, <2>2 DEF walkVars
  <2> QED
    BY <2>3, NestingInvAfter
<1>3. CASE NextFile \/ NextRound
  BY <1>3, AgainIsFresh DEF NextFile, NextRound
<1> QED
  BY <1>1, <1>2, <1>3 DEF CopsNext

\* Block nesting runs like the recursion of the stock cop, at every node of every
\* tree it walks.
THEOREM NestingRunsLikeStock == CopsSpec => []NestingInv
<1>1. WalkInit /\ NestingInit => NestingInv
  BY NestingStart
<1>2. CopsInit => WalkInit /\ NestingInit
  BY DEF CopsInit
<1>3. (WalkInit /\ NestingInit)' => NestingInv'
  BY <1>1, PTL
<1>4. WalkInv /\ NestingInv /\ [CopsNext]_<<walkVars, copVars, fileVars>> => NestingInv'
  BY <1>3, NestingNext
<1> QED
  BY <1>1, <1>2, <1>4, CopsWalkInv, PTL DEF CopsSpec

\* Where no block is one for the rule alone, or for the stock cop alone, the same
\* nodes count and add a level.
LEMMA SameLevels ==
    ASSUME tree \in Shapes, ~BlocksApart
    PROVE  RunLevels = StockLevels
<1>1. ASSUME NEW n \in DOMAIN tree.kind PROVE Considered(n) <=> StockConsidered(n)
  BY <1>1 DEF BlocksApart, Considered, StockConsidered
<1>2. ASSUME NEW n \in DOMAIN tree.kind PROVE Increments(n) <=> StockIncrements(n)
  <2>1. CASE Kind(n) = "elsif"
    BY <2>1 DEF Increments, StockIncrements
  <2>2. CASE Kind(n) = "modifierIf"
    BY <2>2 DEF Increments, StockIncrements, Considered
  <2>3. CASE Kind(n) \notin {"elsif", "modifierIf"}
    BY <1>1, <2>3 DEF Increments, StockIncrements
  <2> QED
    BY <2>1, <2>2, <2>3
<1>3. ConsideredNodes = {n \in DOMAIN tree.kind : StockConsidered(n)}
  BY <1>1 DEF ConsideredNodes
<1>4. IncrementsNodes = {n \in DOMAIN tree.kind : StockIncrements(n)}
  BY <1>2 DEF IncrementsNodes
<1> QED
  BY <1>3, <1>4 DEF RunLevels, StockLevels

\* block_nesting.rs reports the nodes the stock cop reports, in its order, and
\* the same maximum: with its running level and its running suppression, for
\* every maximum and on every tree in which what counts as a block for one of
\* them does for the other.
THEOREM NestingFollowsStock == CopsSpec => []NestingAsStock
<1>1. ASSUME WalkInv, NestingInv, todo = <<>>, ~BlocksApart
      PROVE  nesting.out = StockNesting /\ nesting.deepest = StockDeepest
  <2>1. PICK m \in 0 .. Len(tree.parent) : OrderInv(todo, m) /\ NestInv(nesting, frames[ClauseRule], m)
    BY <1>1 DEF NestingInv
  <2>2. tree \in Shapes /\ OrderInv(<<>>, m)
    BY <1>1, <2>1 DEF WalkInv
  <2>3. m = Len(tree.kind)
    BY <2>2, OrderEnd, TreeFacts
  <2>4. nesting.out = RunReported[m] /\ IsDeepest(nesting.deepest, m) /\ nesting.deepest \in Nat
    BY <2>1 DEF NestInv, NestingTyped
  <2>5. RunOver(m) \subseteq Nat
    <3>1. ASSUME NEW j \in 1 .. m PROVE RunLevels[j].resbody.level \in Nat /\ RunLevels[j].node.level \in Nat
      <4>1. j \in Nodes
        BY <2>2, TreeFacts
      <4>2. RunLevels[j].resbody \in Levels /\ RunLevels[j].node \in Levels
        BY <2>2, <4>1, RunLevelsIs
      <4> QED
        BY <4>2 DEF Levels
    <3> QED
      BY <3>1 DEF RunOver, LevelsOver
  <2>6. PICK S, d : S = RunOver(m) /\ d = nesting.deepest
    OBVIOUS
  <2>7. d \in S \cup {0} /\ \A k \in S : k <= d
    BY <2>4, <2>6 DEF IsDeepest
  <2>8. ASSUME NEW l \in S \cup {0}, \A k \in S : k <= l PROVE l = d
    <3>1. l \in Nat /\ d \in Nat
      BY <2>4, <2>5, <2>6
    <3>2. l <= d
      BY <2>7, <3>1
    <3>3. d <= l
      BY <2>7, <2>8, <3>1
    <3> QED
      BY <3>1, <3>2, <3>3
  <2>9. RunLevels = StockLevels
    BY <1>1, <2>2, SameLevels
  <2>10. StockDeepest = d
    BY <2>3, <2>6, <2>7, <2>8, <2>9 DEF StockDeepest, RunOver
  <2> QED
    BY <2>3, <2>4, <2>6, <2>9, <2>10 DEF StockNesting, RunReported
<1>2. WalkInv /\ NestingInv => NestingAsStock
  BY <1>1 DEF NestingAsStock
<1> QED
  BY <1>2, CopsWalkInv, NestingRunsLikeStock, PTL

-----------------------------------------------------------------------------
(* The nodes above a node, as a set and in their order.                    *)

Over(n) == Ancestors(tree.parent, n)

\* The nodes above one are its parent and those above that.
LEMMA OverIs ==
    ASSUME tree \in Shapes, NEW n \in Nodes
    PROVE  /\ Over(n) = Elements(Above(tree.parent, n))
           /\ Over(n) \subseteq 1 .. n - 1 /\ Over(n) \subseteq Nodes
           /\ tree.parent[n] = 0 => Over(n) = {}
           /\ tree.parent[n] # 0 => /\ tree.parent[n] \in 1 .. n - 1 /\ tree.parent[n] \in Nodes
                                    /\ Over(n) = Over(tree.parent[n]) \cup {tree.parent[n]}
<1>1. PICK p : p = tree.parent /\ IsTree(p) /\ n \in DOMAIN p /\ n \in Nat /\ n \in 1 .. Len(p)
  BY TreeFacts DEF Nodes
<1>2. PICK s : s = Above(p, n) /\ s \in Seq(1 .. n - 1)
  BY <1>1, AboveIs
<1>3. Over(n) = Elements(s) /\ Over(n) \subseteq 1 .. n - 1
  BY <1>1, <1>2 DEF Over, Ancestors, Elements
<1>4. 1 .. n - 1 \subseteq Nodes
  BY <1>1, TreeFacts
<1>5. p[n] = 0 => s = <<>>
  BY <1>1, <1>2, AboveIs
<1>6. ASSUME p[n] # 0 PROVE p[n] \in 1 .. n - 1 /\ Over(n) = Over(p[n]) \cup {p[n]}
  <2>1. PICK u, t : u = p[n] /\ t = Above(p, u) /\ u \in 1 .. n - 1 /\ s = Append(t, u)
    BY <1>1, <1>2, <1>6, AboveIs
  <2>2. u \in DOMAIN p /\ u \in Nat
    BY <1>1, <1>4, <2>1 DEF Nodes
  <2>3. t \in Seq(1 .. u - 1)
    BY <1>1, <2>1, <2>2, AboveIs
  <2>4. t \in Seq(Nat)
    <3>1. 1 .. u - 1 \subseteq Nat
      OBVIOUS
    <3> QED
      BY <2>3, <3>1, SeqMonotonic
  <2>5. Elements(Append(t, u)) = Elements(t) \cup {u}
    BY <2>2, <2>4, ElementsAppend
  <2>6. Over(u) = Elements(t)
    BY <1>1, <2>1, <2>4 DEF Over, Ancestors, Elements
  <2> QED
    BY <1>3, <2>1, <2>5, <2>6
<1>7. s = <<>> => Elements(s) = {}
  BY DEF Elements
<1> QED
  BY <1>1, <1>2, <1>3, <1>4, <1>5, <1>6, <1>7

\* Of two nodes above a third one, one is above the other.
LEMMA OverOneAnother ==
    ASSUME tree \in Shapes, NEW n \in Nodes, NEW x \in Over(n), NEW k \in Over(n), k < x
    PROVE  k \in Over(x)
<1> DEFINE S == {i \in Nat : i \in Nodes => \A y, z \in Over(i) : z < y => z \in Over(y)}
<1>1. ASSUME NEW i \in Nat, \A j \in Nat : j < i => j \in S
      PROVE  i \in S
  <2> SUFFICES ASSUME i \in Nodes, NEW y \in Over(i), NEW z \in Over(i), z < y
               PROVE  z \in Over(y)
    OBVIOUS
  <2>1. PICK u : u = tree.parent[i] /\ u \in Nodes /\ u \in 1 .. i - 1 /\ Over(i) = Over(u) \cup {u}
    BY OverIs
  <2>2. Over(u) \subseteq 1 .. u - 1
    BY <2>1, OverIs
  <2>3. z \in Over(u)
    BY <2>1, <2>2
  <2>4. CASE y = u
    BY <2>3, <2>4
  <2>5. CASE y \in Over(u)
    <3>1. u \in S
      BY <1>1, <2>1
    <3> QED
      BY <2>1, <2>3, <2>5, <3>1
  <2> QED
    BY <2>1, <2>4, <2>5
<1> HIDE DEF S
<1>2. \A i \in Nat : i \in S
  BY <1>1, NatSetStrong
<1>3. n \in Nat
  BY TreeFacts
<1> QED
  BY <1>2, <1>3 DEF S

\* A number on top of smaller ones.
LEMMA IncreasingAppend ==
    ASSUME NEW n \in Nat, NEW s \in Seq(1 .. n - 1), Increasing(s)
    PROVE  Increasing(Append(s, n))
<1>1. PICK k \in Nat : k = Len(s) /\ \A i \in 1 .. k : s[i] \in 1 .. n - 1
  OBVIOUS
<1>2. PICK t : t = Append(s, n)
  OBVIOUS
<1>3. Len(t) = k + 1 /\ t[k + 1] = n /\ \A i \in 1 .. k : t[i] = s[i]
  BY <1>1, <1>2
<1>4. ASSUME NEW i \in 1 .. k + 1, NEW j \in 1 .. k + 1, i < j PROVE t[i] < t[j]
  <2>1. i \in 1 .. k /\ t[i] = s[i] /\ t[i] \in 1 .. n - 1
    BY <1>1, <1>3, <1>4
  <2>2. CASE j = k + 1
    BY <1>3, <2>1, <2>2
  <2>3. CASE j \in 1 .. k
    BY <1>1, <1>3, <1>4, <2>1, <2>3 DEF Increasing
  <2> QED
    BY <2>2, <2>3
<1> QED
  BY <1>2, <1>3, <1>4 DEF Increasing

\* The path from the root goes up in number.
LEMMA AboveIncreasing ==
    ASSUME tree \in Shapes, NEW n \in Nodes
    PROVE  Increasing(Above(tree.parent, n))
<1>1. PICK p : p = tree.parent /\ IsTree(p) /\ DOMAIN p = Nodes /\ Nodes \subseteq Nat
  BY TreeFacts DEF Nodes
<1> DEFINE S == {i \in Nat : i \in Nodes => Increasing(Above(p, i))}
<1>2. ASSUME NEW i \in Nat, \A j \in Nat : j < i => j \in S
      PROVE  i \in S
  <2> SUFFICES ASSUME i \in Nodes PROVE Increasing(Above(p, i))
    OBVIOUS
  <2>1. CASE p[i] = 0
    <3>1. Above(p, i) = <<>>
      BY <1>1, <2>1, AboveIs
    <3> QED
      BY <3>1 DEF Increasing
  <2>2. CASE p[i] # 0
    <3>1. PICK u, s : u = p[i] /\ s = Above(p, u) /\ u \in 1 .. i - 1 /\ Above(p, i) = Append(s, u)
      BY <1>1, <2>2, AboveIs
    <3>2. u \in Nodes /\ u \in Nat
      BY <1>1, <3>1, TreeFacts
    <3>3. s \in Seq(1 .. u - 1)
      BY <1>1, <3>1, <3>2, AboveIs
    <3>4. Increasing(s)
      BY <1>2, <3>1, <3>2
    <3> QED
      BY <3>1, <3>2, <3>3, <3>4, IncreasingAppend
  <2> QED
    BY <2>1, <2>2
<1> HIDE DEF S
<1>3. \A i \in Nat : i \in S
  BY <1>2, NatSetStrong
<1> QED
  BY <1>1, <1>3 DEF S

\* The ancestors of the parser gem, as a set.
LEMMA ParserOverIs ==
    ASSUME tree \in Shapes, NEW n \in Nodes
    PROVE  /\ ParserAbove(n) \in Seq(Nodes) /\ Increasing(ParserAbove(n))
           /\ Elements(ParserAbove(n)) = Over(n) \cap Kept(n)
<1>1. PICK s, S : s = Above(tree.parent, n) /\ S = Kept(n)
  OBVIOUS
<1>2. ParserAbove(n) = Filter(s, S)
  BY <1>1, ParserAboveIs
<1>3. s \in Seq(Nat)
  <2>1. IsTree(tree.parent) /\ n \in DOMAIN tree.parent
    BY TreeFacts DEF Nodes
  <2>2. s \in Seq(1 .. n - 1) /\ 1 .. n - 1 \subseteq Nat
    BY <1>1, <2>1, AboveIs
  <2> QED
    BY <2>2, SeqMonotonic
<1>4. Elements(s) = Over(n)
  BY <1>1, OverIs
<1>5. Increasing(s)
  BY <1>1, AboveIncreasing
<1>6. Elements(Filter(s, S)) = Elements(s) \cap S
  BY <1>3, FilterElements
<1>7. Increasing(Filter(s, S))
  BY <1>3, <1>5, FilterIncreasing
<1> QED
  BY <1>1, <1>2, <1>4, <1>6, <1>7, ParserAboveType

=============================================================================
