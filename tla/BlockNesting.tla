---------------------------- MODULE BlockNesting ----------------------------
(***************************************************************************)
(* Metrics/BlockNesting (crates/shirobai-core/src/rules/block_nesting.rs)  *)
(* as a rule of the shared walk.  The stock cop descends recursively and   *)
(* hands the level down; the rule keeps the level, and whether an ancestor *)
(* is reported, in a running state that every `leave` has to take back.    *)
(*                                                                         *)
(* Kinds it tells apart: "loop" (case, for, while, until and the block     *)
(* forms of if and unless), "elsif", "modifierIf", "rescue" and            *)
(* "rescueMod", `x rescue y`, whose second child is under a `resbody` that *)
(* prism has no node for; "blockCall", a call with a block, "blockPass",   *)
(* one with a block argument (`foo(&blk)`), and "lambda", `-> { }` or a    *)
(* `super` with a block.                                                   *)
(***************************************************************************)
EXTENDS SharedWalk

CONSTANT MaxNesting    \* cop_config["Max"]

ASSUME MaxNestingAssumption == MaxNesting \in Nat

\* The generated visitor has a hook for each of these kinds, and for the value
\* of an `x rescue y`, its second child.
ASSUME NestingKindsAssumption ==
    \A t \in Shapes : \A n \in DOMAIN t.kind :
        /\ t.kind[n] \in {"loop", "elsif", "modifierIf", "blockCall", "blockPass", "lambda",
                          "rescueMod"} => Class(t, n) \in Branches
        /\ t.kind[n] = "rescue" => Class(t, n) = "rescue"
        /\ t.kind[n] = "rescueMod" =>
              \E x, y \in DOMAIN t.kind : Children(t.parent, n) = <<x, y>> /\ Class(t, y) # "direct"

VARIABLE nesting

\* A reported item is a node or the `resbody` around the rescue value n.
NestingFresh ==
    [level |-> 0, deepest |-> 0, ignoring |-> FALSE, stack |-> <<>>, out |-> <<>>]

NestingInit == nesting = NestingFresh

RescueValue(n) == IF Kind(n) = "rescueMod" THEN Children(tree.parent, n)[2] ELSE 0

\* classify: does the node count at all, and does it add a level?  A call counts
\* that has anything in the place of a block.
Considered(n) ==
    \/ Kind(n) \in {"loop", "elsif", "modifierIf", "rescue"}
    \/ Kind(n) \in {"blockCall", "blockPass"} /\ "CountBlocks" \in tree.options

Increments(n) ==
    /\ Considered(n) /\ Kind(n) # "elsif"
    /\ Kind(n) = "modifierIf" => "CountModifierForms" \in tree.options

\* check_level: a level over the maximum is remembered, and reported unless an
\* ancestor was.
CheckLevel(s, item) ==
    IF s.level <= MaxNesting THEN s
    ELSE [s EXCEPT !.deepest = IF @ < s.level THEN s.level ELSE @,
                   !.ignoring = TRUE,
                   !.out = IF s.ignoring THEN @ ELSE Append(@, item)]

\* take_resbody: the child after the keyword, once.
TakesResbody(s, n) == s.stack # <<>> /\ s.stack[Len(s.stack)].value = n

UnderResbody(s, n) ==
    IF TakesResbody(s, n)
    THEN CheckLevel([s EXCEPT !.level = @ + 1, !.stack[Len(s.stack)].value = 0], <<"resbody", n>>)
    ELSE s

\* Mutant: every considered node is taken to have added a level.
DeltaConsidered(before, s) == IF Considered(Node) THEN 1 ELSE 0

\* Mutant: the frame forgets the level of the resbody.
OnlyOwnDelta(before, s) == s.level - UnderResbody(before, Node).level

Delta(before, s) == s.level - before.level

\* enter, also called for a rescue clause.
Nest(s, n) ==
    LET under == UnderResbody(s, n)
        here  == IF Considered(n)
                 THEN CheckLevel([under EXCEPT !.level = @ + IF Increments(n) THEN 1 ELSE 0],
                                 <<"node", n>>)
                 ELSE under
    IN  [here EXCEPT !.stack = Append(@, [delta  |-> Delta(s, here),
                                          opened |-> here.ignoring /\ ~s.ignoring,
                                          value  |-> RescueValue(n)])]

\* leave
Unnest(s) ==
    LET frame == s.stack[Len(s.stack)]
    IN  [s EXCEPT !.stack = SubSeq(@, 1, Len(@) - 1), !.level = @ - frame.delta,
                  !.ignoring = @ /\ ~frame.opened]

\* enter_leaf: the level of a leaf rescue value is dropped at once.
NestLeaf(s, n) ==
    LET under == UnderResbody(s, n)
    IN  [under EXCEPT !.level = s.level, !.ignoring = s.ignoring]

NestingEnter == nesting' = Nest(nesting, Node)
NestingLeave == nesting' = Unnest(nesting)
NestingLeaf  == nesting' = NestLeaf(nesting, Node)

-----------------------------------------------------------------------------
(* The stock cop: check_nesting_level, recursive over the tree of the       *)
(* parser gem, with the level handed down.                                  *)

\* consider_node?, with what the parser gem makes a block node of ...
StockConsidered(n) ==
    \/ Kind(n) \in {"loop", "elsif", "modifierIf", "rescue"}
    \/ "CountBlocks" \in tree.options /\ Kind(n) \in {"blockCall", "lambda"}

\* ... and count_if_block?, which asks of an `if` alone.
StockIncrements(n) ==
    CASE Kind(n) = "elsif" -> FALSE
      [] Kind(n) = "modifierIf" -> "CountModifierForms" \in tree.options
      [] OTHER -> StockConsidered(n)

\* An item under another one; ignored: an ancestor is too deep, so it was
\* reported, or one of its own ancestors was.
Under(above, considered, increments) ==
    LET level == above.level + IF increments THEN 1 ELSE 0
    IN  [level   |-> level,
         deep    |-> considered /\ level > MaxNesting,
         ignored |-> above.ignored \/ above.deep]

Outermost == [level |-> 0, deep |-> FALSE, ignored |-> FALSE]

\* Is the node under a `resbody`?
HasResbody(n) == \E k \in DOMAIN tree.parent : RescueValue(k) = n

\* What the recursion finds at each node, and at the `resbody` above it, given
\* the nodes that count and those that add a level.
LevelsOf(considered, increments) ==
    LET at[n \in DOMAIN tree.kind] ==
            LET above == ParserAbove(n)
                outer == IF above = <<>> THEN Outermost ELSE at[above[Len(above)]].node
                resbody == Under(outer, HasResbody(n), HasResbody(n))
            IN  [resbody |-> resbody, node |-> Under(resbody, n \in considered, n \in increments)]
    IN  at

StockLevels ==
    LevelsOf({n \in DOMAIN tree.kind : StockConsidered(n)}, {n \in DOMAIN tree.kind : StockIncrements(n)})

\* add_offense, unless the item is part of an ignored one.
Noted(out, item, at) == IF at.deep /\ ~at.ignored THEN Append(out, item) ELSE out

\* Of the first m nodes.
ReportedAt(levels) ==
    LET upTo[m \in 0 .. Len(tree.kind)] ==
            IF m = 0 THEN <<>>
            ELSE LET at == levels[m]
                 IN  Noted(Noted(upTo[m - 1], <<"resbody", m>>, at.resbody), <<"node", m>>, at.node)
    IN  upTo

LevelsOver(levels, m) ==
    UNION {{at.level : at \in {a \in {levels[n].resbody, levels[n].node} : a.deep}} : n \in 1 .. m}

StockNesting == ReportedAt(StockLevels)[Len(tree.kind)]

StockDeepest ==
    LET over == LevelsOver(StockLevels, Len(tree.kind))
    IN  CHOOSE l \in over \cup {0} : \A k \in over : k <= l

\* A block for one of the two alone: the rule counts a call with a block
\* argument, and neither a lambda nor a `super` with a block.
BlocksApart ==
    "CountBlocks" \in tree.options /\ \E n \in DOMAIN tree.kind : Kind(n) \in {"blockPass", "lambda"}

\* The running level and the running suppression give what the recursion of the
\* stock cop gives: the same nodes in the same order, and the same maximum for
\* the ExcludeLimit, whatever clauses, rescue values, blocks and modifier forms
\* nest, where the two agree on what a block is.
NestingAsStock ==
    todo = <<>> /\ ~BlocksApart => nesting.out = StockNesting /\ nesting.deepest = StockDeepest

=============================================================================
