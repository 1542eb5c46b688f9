------------------------------- MODULE Trees -------------------------------
(***************************************************************************)
(* Small syntax trees.  The nodes of a tree are 1 .. n in the order in     *)
(* which a depth-first walk enters them; `parent` gives the parent of each *)
(* node, 0 for the root, and `kind` what the node is.                      *)
(***************************************************************************)
EXTENDS Integers, Sequences, FiniteSets

\* The parents of the nodes of a tree, numbered as a depth-first walk enters
\* them: nothing between a node and its child is outside of the node.
IsTree(p) ==
    /\ p \in Seq(Nat) /\ p # <<>> /\ p[1] = 0
    /\ \A k \in 2 .. Len(p) : /\ p[k] \in 1 .. k - 1
                              /\ \A j \in p[k] + 1 .. k : p[j] >= p[k]

\* The elements of a sequence that are in S, in their order.
Filter(s, S) ==
    LET kept[i \in 0 .. Len(s)] ==
            IF i = 0 THEN <<>>
            ELSE IF s[i] \in S THEN Append(kept[i - 1], s[i]) ELSE kept[i - 1]
    IN  kept[Len(s)]

\* The nodes up to n.
UpTo(n) == [j \in 1 .. n |-> j]

\* The nodes above k, the root first.
Above(p, k) ==
    LET up[j \in DOMAIN p] == IF p[j] = 0 THEN <<>> ELSE Append(up[p[j]], p[j])
    IN  up[k]

Ancestors(p, k) == {Above(p, k)[i] : i \in DOMAIN Above(p, k)}

Children(p, k) == Filter(UpTo(Len(p)), {j \in DOMAIN p : p[j] = k})

Below(p, k) == {j \in DOMAIN p : k \in Ancestors(p, j)}

=============================================================================
