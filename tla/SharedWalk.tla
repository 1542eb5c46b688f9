----------------------------- MODULE SharedWalk -----------------------------
(***************************************************************************)
(* dispatch::run (crates/shirobai-core/src/rules/dispatch.rs): one walk    *)
(* over the tree that drives every rule, each of which narrows the hooks   *)
(* it receives by a mask.                                                  *)
(*                                                                         *)
(* A rule body is represented by what the hooks are there for: the kinds   *)
(* of node it reports on, and whether it keeps a stack of frames, pushed   *)
(* by `enter` and popped by `leave` (and by enter_rescue and leave_rescue  *)
(* when it tells rescue clauses apart).  What it reports of a node is the  *)
(* frames above it.                                                        *)
(*                                                                         *)
(* The generated visitor keeps its place in the tree on the call stack;    *)
(* here it is the sequence of the calls still to make.                     *)
(***************************************************************************)
EXTENDS Trees

CONSTANTS
    Shapes,    \* the trees: parents and kinds of the nodes, options of the cops
    ClassOf,   \* the hooks that tell of a kind of node
    Rules,     \* the rules of the walk
    Mask,      \* Rule::interest of each rule
    Reports,   \* the kinds each rule's bodies do not fall through on
    Frames     \* what each rule keeps frames of: "none", "branch" or "clause"

VARIABLES
    tree,
    todo,      \* the visitor's calls still to make
    frames,    \* the stack of each rule
    reports    \* what each rule has reported, in order

walkVars == <<tree, todo, frames, reports>>

\* Interest: the bit of each hook.
LEAVE == 0
LEAF == 1
RESCUE == 2
ENTER ==
    [call |-> 3, def |-> 4, block |-> 5, lambda |-> 6, classMod |-> 7, write |-> 8,
     constPath |-> 9, istring |-> 10, literal |-> 11, super |-> 12, other |-> 13]
ENTER_ALL == {ENTER[class] : class \in DOMAIN ENTER}
ALL == {LEAVE, LEAF, RESCUE} \cup ENTER_ALL

\* Mutant: the last two classes share a bit.
ClassIndexShort ==
    [call |-> 0, def |-> 1, block |-> 2, lambda |-> 3, classMod |-> 4, write |-> 5,
     constPath |-> 6, istring |-> 7, literal |-> 8, super |-> 9, other |-> 9]

\* class_index: the ENTER_* class of a branch node.
ClassIndex ==
    [call |-> 0, def |-> 1, block |-> 2, lambda |-> 3, classMod |-> 4, write |-> 5,
     constPath |-> 6, istring |-> 7, literal |-> 8, super |-> 9, other |-> 10]

\* Besides the branch nodes: leaves; rescue clauses; and the nodes a visitor
\* reaches through a field of a concrete type, of which no hook tells.
Branches == DOMAIN ClassIndex
Class(t, n) == ClassOf[t.kind[n]]
Kind(n) == tree.kind[n]
Nodes == DOMAIN tree.parent

\* The next clause of a `rescue A ... rescue B`: the last child of the first.
Subsequents(t, n) ==
    {k \in DOMAIN t.parent : /\ t.parent[k] = n
                             /\ Class(t, n) = "rescue" /\ Class(t, k) = "rescue"}

\* A rescue clause follows a clause or belongs to a `begin`; leaves are leaves.
WellFormed(t) ==
    /\ IsTree(t.parent)
    /\ t.kind \in Seq(DOMAIN ClassOf) /\ Len(t.kind) = Len(t.parent)
    /\ \A k \in 2 .. Len(t.kind) :
          LET up == t.parent[k] IN
          /\ Class(t, up) # "leaf"
          /\ k \in Subsequents(t, up) => \A j \in k + 1 .. Len(t.kind) : t.parent[j] # up
          /\ Class(t, k) = "rescue" => Class(t, up) = "rescue" \/ t.kind[up] = "begin"

ASSUME ShapesAssumption == \A t \in Shapes : WellFormed(t)

ASSUME ClassesAssumption ==
    \A kind \in DOMAIN ClassOf : ClassOf[kind] \in Branches \cup {"leaf", "rescue", "direct"}

\* What a rule must receive: the kinds it reports on, and every push and pop
\* of its stack.
ASSUME MaskAssumption ==
    \A r \in Rules :
        /\ \A kind \in Reports[r] :
              CASE ClassOf[kind] \in Branches -> ENTER[ClassOf[kind]] \in Mask[r]
                [] ClassOf[kind] = "leaf"     -> LEAF \in Mask[r]
                [] ClassOf[kind] = "rescue"   -> RESCUE \in Mask[r]
                [] OTHER                      -> FALSE
        /\ Frames[r] # "none" => ENTER_ALL \cup {LEAVE} \subseteq Mask[r]
        /\ Frames[r] = "clause" => RESCUE \in Mask[r]

-----------------------------------------------------------------------------

Visits(ns) == [i \in DOMAIN ns |-> <<"visit", ns[i]>>]

WalkInit ==
    /\ tree \in Shapes
    /\ todo = <<<<"visit", 1>>>>
    /\ frames = [r \in Rules |-> <<>>]
    /\ reports = [r \in Rules |-> <<>>]

Next(call) == todo # <<>> /\ Head(todo)[1] = call
Node == Head(todo)[2]

\* The bucket of a hook: the rules whose mask has its bit.
Bucket(bit) == {r \in Rules : bit \in Mask[r]}

\* A rule's hook body reports the node under the frames above it ...
Reported(bucket, n) ==
    [r \in Rules |-> IF r \in bucket /\ Kind(n) \in Reports[r]
                     THEN Append(reports[r], <<n, frames[r]>>) ELSE reports[r]]

\* ... and, after that, pushes its own frame.
Pushed(rs, n) == [r \in Rules |-> IF r \in rs THEN Append(frames[r], n) ELSE frames[r]]

\* Mutant: a rule pops when a kind closes that it reports on.
PoppedNarrow(rs) ==
    [r \in Rules |-> IF r \in rs /\ frames[r] # <<>> /\ Kind(Node) \in Reports[r]
                     THEN SubSeq(frames[r], 1, Len(frames[r]) - 1) ELSE frames[r]]

Popped(rs) ==
    [r \in Rules |-> IF r \in rs /\ frames[r] # <<>>
                     THEN SubSeq(frames[r], 1, Len(frames[r]) - 1) ELSE frames[r]]

KeepFrames == {r \in Rules : Frames[r] # "none"}
KeepClauses == {r \in Rules : Frames[r] = "clause"}

\* visit_branch_node_enter, then the children, then visit_branch_node_leave.
EnterBranch ==
    /\ Next("visit") /\ Class(tree, Node) \in Branches
    /\ LET bucket == Bucket(3 + ClassIndex[Class(tree, Node)]) IN
       /\ reports' = Reported(bucket, Node)
       /\ frames' = Pushed(bucket \cap KeepFrames, Node)
    /\ todo' = Visits(Children(tree.parent, Node)) \o <<<<"leave", Node>>>> \o Tail(todo)
    /\ UNCHANGED tree

LeaveBranch ==
    /\ Next("leave")
    /\ frames' = Popped(Bucket(LEAVE) \cap KeepFrames)
    /\ todo' = Tail(todo)
    /\ UNCHANGED <<tree, reports>>

\* visit_leaf_node_enter.
EnterLeaf ==
    /\ Next("visit") /\ Class(tree, Node) = "leaf"
    /\ reports' = Reported(Bucket(LEAF), Node)
    /\ todo' = Tail(todo)
    /\ UNCHANGED <<tree, frames>>

\* visit_statements_node and the like, called for a field of that type: no hook.
VisitDirect ==
    /\ Next("visit") /\ Class(tree, Node) = "direct"
    /\ todo' = Visits(Children(tree.parent, Node)) \o Tail(todo)
    /\ UNCHANGED <<tree, frames, reports>>

\* Mutant: the generated order, all four fields before the pair is closed.
Nested(n) == Visits(Children(tree.parent, n)) \o <<<<"leaveRescue", n>>>>

\* visit_rescue_node: exceptions, reference and statements between the two
\* hooks, the subsequent clause after them.
Clause(n) ==
    LET kids == Children(tree.parent, n)
    IN  Visits(Filter(kids, Nodes \ Subsequents(tree, n))) \o <<<<"leaveRescue", n>>>>
            \o Visits(Filter(kids, Subsequents(tree, n)))

EnterRescue ==
    /\ Next("visit") /\ Class(tree, Node) = "rescue"
    /\ reports' = Reported(Bucket(RESCUE), Node)
    /\ frames' = Pushed(Bucket(RESCUE) \cap KeepClauses, Node)
    /\ todo' = Clause(Node) \o Tail(todo)
    /\ UNCHANGED tree

LeaveRescue ==
    /\ Next("leaveRescue")
    /\ frames' = Popped(Bucket(RESCUE) \cap KeepClauses)
    /\ todo' = Tail(todo)
    /\ UNCHANGED <<tree, reports>>

WalkNext ==
    \/ EnterBranch \/ LeaveBranch \/ EnterLeaf \/ VisitDirect
    \/ EnterRescue \/ LeaveRescue

WalkSpec == WalkInit /\ [][WalkNext]_walkVars

-----------------------------------------------------------------------------

\* Every variable has its type.
TypeOK ==
    /\ tree.kind \in Seq(DOMAIN ClassOf)
    /\ todo \in Seq({"visit", "leave", "leaveRescue"} \X Nodes)
    /\ frames \in [Rules -> Seq(Nodes)]
    /\ reports \in [Rules -> Seq(Nodes \X Seq(Nodes))]

\* The parser gem's ancestors of a node, as the stock cops see them: the clauses
\* of one `begin` are siblings, and the nodes no hook tells of do not exist.
ParserAbove(n) ==
    LET above == Above(tree.parent, n)
        chained(k) ==      \* a later clause of the same chain is on the way to n
            \E j \in DOMAIN above : above[j] \in Subsequents(tree, k)
        kept(k) == \/ Class(tree, k) \in Branches
                   \/ Class(tree, k) = "rescue" /\ ~chained(k) /\ n \notin Subsequents(tree, k)
    IN  Filter(above, {k \in Nodes : kept(k)})

ParserAncestors(r, n) ==
    Filter(ParserAbove(n), {k \in Nodes : Frames[r] = "clause" \/ Class(tree, k) # "rescue"})

\* A rule reports exactly the nodes of its kinds, in the order of the source,
\* each under the ancestors the parser gem gives it: what the rule would do
\* alone with every hook, whatever the masks of the other rules.
ReportsAsAlone ==
    todo = <<>> =>
        \A r \in Rules :
            LET nodes == Filter(UpTo(Len(tree.parent)), {n \in Nodes : Kind(n) \in Reports[r]})
            IN  reports[r] =
                [i \in DOMAIN nodes |->
                    <<nodes[i], IF Frames[r] = "none" THEN <<>> ELSE ParserAncestors(r, nodes[i])>>]

\* Whenever the walk is about to visit a node, the stack of every rule that
\* keeps one holds the ancestors of that node, and at the end it is empty: no
\* frame of an earlier sibling or of an earlier clause is left on it.
FramesAreAncestors ==
    \A r \in KeepFrames :
        frames[r] = IF todo = <<>> THEN <<>>
                    ELSE IF Head(todo)[1] = "visit" THEN ParserAncestors(r, Node)
                    ELSE frames[r]

=============================================================================
