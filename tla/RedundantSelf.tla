--------------------------- MODULE RedundantSelf ---------------------------
(***************************************************************************)
(* Style/RedundantSelf (crates/shirobai-core/src/rules/redundant_self.rs)  *)
(* as a rule of the shared walk, followed for one name `a`: which          *)
(* `self.a` is flagged because no local variable `a` is in its way?        *)
(*                                                                         *)
(* The stock cop keeps an array of names for every node, one and the same  *)
(* array for all nodes under a `def` or a block, and looks at the arrays   *)
(* of a send and of all its ancestors.  The rule keeps a stack of the      *)
(* shared arrays and the names of the nodes outside of any.                *)
(*                                                                         *)
(* Kinds: "selfA" (`self.a`), "argsCall" (children: its arguments),        *)
(* "safeCall" (`x&.foo(y)`), "recvCall" (`x.foo`), each with a block when  *)
(* its last child is one: "block", or "blockA" with the parameter a;       *)
(* "def", "defA" (with it); "writeA" (`a = x`), "orWriteA" (`a ||= x`),    *)
(* "masgnA" (`a, b = x`), "if" (condition first), "inA" (`in a then`),     *)
(* "rescueA" (rescue => a), "rescue", "begin", "stmts", "leaf", "program". *)
(***************************************************************************)
EXTENDS SharedWalk, SequencesExt

VARIABLE selfs


BlockKinds == {"block", "blockA"}
DefKinds == {"def", "defA"}
CallKinds == {"selfA", "argsCall", "safeCall", "recvCall"}
Writes == {"writeA", "orWriteA", "masgnA"}

\* AssignmentNameCollector: a LocalVariableWriteNode, and every
\* LocalVariableTargetNode, of a pattern and of a clause, too.
Collected == {"writeA", "masgnA", "inA", "rescueA"}

\* What gives names; no parser node is missing where one is given.
Givers == DefKinds \cup Writes \cup {"if", "inA"}

\* An assignment has a value.  A block is the last of its call.
ASSUME SelfKindsAssumption ==
    \A t \in Shapes : \A n \in DOMAIN t.kind :
        LET up == t.parent[n] IN
        /\ t.kind[n] \in Writes => \E k \in DOMAIN t.kind : t.parent[k] = n
        /\ t.kind[n] \in Givers \cup BlockKinds => Class(t, n) \in Branches \ {"call"}
        /\ t.kind[n] \in CallKinds => Class(t, n) = "call"
        /\ t.kind[n] = "rescueA" => Class(t, n) = "rescue"
        /\ t.kind[n] \in BlockKinds =>
              n # 1 /\ Class(t, up) = "call" /\ \A k \in n + 1 .. Len(t.kind) : t.parent[k] # up
        /\ n # 1 /\ (t.kind[up] \in Writes \cup CallKinds \/ (t.kind[up] = "if" /\ n = up + 1)) =>
              Class(t, n) # "direct"

\* owners: does each shared array hold the name?  named: the nodes outside of
\* any owner that were given the name.
SelfFresh ==
    [owners |-> <<>>, pushed |-> <<>>, named |-> {}, above |-> <<>>, out |-> {}]

SelfInit == selfs = SelfFresh

BlockOf(n) == {k \in DOMAIN tree.kind : tree.parent[k] = n /\ Kind(k) \in BlockKinds}

Parts(n) == {k \in DOMAIN tree.kind : tree.parent[k] = n} \ BlockOf(n)

\* What `arguments` of a call gives.
Arguments(n) ==
    CASE Kind(n) = "argsCall" -> Parts(n)
      [] Kind(n) = "safeCall" -> Parts(n) \ {Children(tree.parent, n)[1]}
      [] OTHER -> {}

\* add_local: into the innermost shared array, or onto the node itself.
AddLocal(s, ns) ==
    IF s.owners = <<>> THEN [s EXCEPT !.named = @ \cup ns]
    ELSE [s EXCEPT !.owners[Len(s.owners)] = @ \/ ns # {}]

\* add_lhs_to_scopes: onto the arguments of a call that has some, else onto the
\* node.
AddLhs(s, rhs) == AddLocal(s, IF Arguments(rhs) # {} THEN Arguments(rhs) ELSE {rhs})

\* Mutant: a block always has an array of its own.
PushesEach(s, n) == Kind(n) \in DefKinds \cup BlockKinds

\* A def has an array of its own, a block when there is none to join.
PushesOwner(s, n) == Kind(n) \in DefKinds \/ (Kind(n) \in BlockKinds /\ s.owners = <<>>)

\* allowed_send_node
Allowed(s, n) ==
    \/ s.owners # <<>> /\ Last(s.owners)
    \/ s.named \cap ({n} \cup {s.above[i] : i \in DOMAIN s.above}) # {}

\* process_send
ProcessSend(s, n) == IF Allowed(s, n) THEN s ELSE [s EXCEPT !.out = @ \cup {n}]

First(n) == Children(tree.parent, n)[1]

\* shadow_condition_assignments: names assigned anywhere in the construct.
Shadow(s, n) ==
    IF \E k \in Below(tree.parent, n) : Kind(k) \in Collected THEN AddLhs(s, First(n)) ELSE s

\* handle_enter, after the owner is pushed.
Handle(s, n) ==
    CASE Kind(n) = "selfA" -> ProcessSend(s, n)
      [] Kind(n) \in {"defA", "blockA"} -> [s EXCEPT !.owners[Len(s.owners)] = TRUE]
      [] Kind(n) \in Writes -> AddLhs(s, First(n))
      [] Kind(n) = "if" -> Shadow(s, n)
      [] Kind(n) = "inA" -> AddLocal(s, {n})
      [] OTHER -> s

SelfEnter ==
    LET pushes == PushesOwner(selfs, Node)
        opened == [selfs EXCEPT !.pushed = Append(@, pushes),
                                !.owners = IF pushes THEN Append(@, FALSE) ELSE @]
    IN  selfs' = [Handle(opened, Node) EXCEPT !.above = Append(@, Node)]

SelfLeave ==
    selfs' = [selfs EXCEPT !.above = Front(@), !.pushed = Front(@),
                           !.owners = IF Last(selfs.pushed) THEN Front(@) ELSE @]

SelfRescue ==
    selfs' = [(IF Kind(Node) = "rescueA" THEN AddLocal(selfs, {Node}) ELSE selfs)
                 EXCEPT !.above = Append(@, Node)]

SelfRescueLeave == selfs' = [selfs EXCEPT !.above = Front(@)]

-----------------------------------------------------------------------------
(* The stock cop, on the parser gem's tree.  There a block is the parent   *)
(* of its call; the BlockNode's number stands for that block.              *)

CallOf(b) == tree.parent[b]

\* The parser node in the place of a prism node.
Placed(n) == IF BlockOf(n) # {} THEN CHOOSE b \in BlockOf(n) : TRUE ELSE n

AtOrAbove(n) == {n} \cup Ancestors(tree.parent, n)

\* Is the parser node k above n?  A block is above its call, and the call above
\* nothing of the block; the clauses of one `begin` are siblings.
Encloses(k, n) ==
    IF Kind(k) \in BlockKinds THEN k # n /\ CallOf(k) \in AtOrAbove(n)
    ELSE k \in AtOrAbove(n) \ {n} /\ (BlockOf(k) \cup Subsequents(tree, k)) \cap AtOrAbove(n) = {}

ParserOver(n) == {k \in DOMAIN tree.kind : Encloses(k, n)}
ParserUnder(n) == {k \in DOMAIN tree.kind : Encloses(n, k)}

\* @local_variables_scopes: which array a node has, and which arrays hold the
\* name.  An array is named by a node, or by the def it was made for.
StockFresh ==
    [array |-> [n \in DOMAIN tree.kind |-> <<"own", n>>], holding |-> {}, out |-> {}]

Share(h, n, array) ==
    LET under == ParserUnder(n)
    IN  [h EXCEPT !.array = [k \in DOMAIN @ |-> IF k \in under THEN array ELSE @[k]]]

Give(h, ns) == [h EXCEPT !.holding = @ \cup {h.array[n] : n \in ns}]

\* The arguments of a plain send: not of a safe navigation, not under a block.
GiveLhs(h, rhs) ==
    LET args == IF Kind(rhs) = "argsCall" /\ BlockOf(rhs) = {} THEN Arguments(rhs) ELSE {}
    IN  Give(h, IF args # {} THEN {Placed(k) : k \in args} ELSE {Placed(rhs)})

\* on_block, which comes before the on_send of the call.
StockBlock(h, n) == IF BlockOf(n) # {} THEN Share(h, Placed(n), h.array[Placed(n)]) ELSE h

StockDef(h, n) ==
    LET shared == Share(h, n, <<"def", n>>)
    IN  IF Kind(n) = "defA" THEN [shared EXCEPT !.holding = @ \cup {<<"def", n>>}] ELSE shared

StockSend(h, n) ==
    IF \E k \in {n} \cup ParserOver(n) : h.array[k] \in h.holding
    THEN h ELSE [h EXCEPT !.out = @ \cup {n}]

\* What the parser gem makes an `lvasgn` of: of a clause's variable and of `a ||= x`,
\* too, but not of a variable in a pattern.
Lvasgns == {"writeA", "orWriteA", "masgnA", "rescueA"}

StockNode(h, n) ==
    CASE Kind(n) \in DefKinds -> StockDef(h, n)
      [] Kind(n) \in Writes -> GiveLhs(h, First(n))
      [] Kind(n) = "if" ->
            IF \E k \in ParserUnder(n) : Kind(k) \in Lvasgns THEN GiveLhs(h, First(n)) ELSE h
      [] Kind(n) \in {"blockA", "inA", "rescueA"} -> Give(h, {n})
      [] Kind(n) = "selfA" -> StockSend(h, n)
      [] OTHER -> h

\* After the first m nodes.
StockRun ==
    LET after[m \in 0 .. Len(tree.kind)] ==
            IF m = 0 THEN StockFresh ELSE StockNode(StockBlock(after[m - 1], m), m)
    IN  after

StockSelf == StockRun[Len(tree.kind)].out

\* `def` in a `def` or in a block: the stock cop still finds the outer array,
\* on the inner def itself and on what is between.
DefInOwner ==
    \E n \in DOMAIN tree.kind : /\ Kind(n) \in DefKinds
                                /\ \E k \in ParserOver(n) : Kind(k) \in DefKinds \cup BlockKinds

\* A name given to a call that is a plain send for prism alone.
GivenApart ==
    \E n \in DOMAIN tree.kind :
        /\ Kind(n) \in Writes \cup {"if"} /\ Arguments(First(n)) # {}
        /\ Kind(First(n)) = "safeCall" \/ BlockOf(First(n)) # {}

\* A name given in the call of a block: the stock cop's block covers its call.
GivenBeforeBlock ==
    \E b \in DOMAIN tree.kind :
        /\ Kind(b) \in BlockKinds
        /\ \E k \in Below(tree.parent, CallOf(b)) \ ({b} \cup Below(tree.parent, b)) :
              Kind(k) \in Writes \cup {"inA", "rescueA", "blockA"}

\* A condition that a name is given to by one of the two alone: by the rule for a
\* variable in a pattern, by the stock cop for `a ||= x`.
ShadowedApart ==
    \E n \in DOMAIN tree.kind :
        /\ Kind(n) = "if"
        /\ (\E k \in Below(tree.parent, n) : Kind(k) \in Collected)
               # (\E k \in Below(tree.parent, n) : Kind(k) \in Lvasgns)

\* Outside of four constructs, the stack of shared arrays flags the same sends
\* as the arrays the stock cop shares between nodes: with names given before and
\* after they are asked for, blocks that join the array around them, and clauses
\* whose names end with them.
SelfAsStock ==
    todo = <<>> /\ ~DefInOwner /\ ~GivenApart /\ ~GivenBeforeBlock /\ ~ShadowedApart =>
        selfs.out = StockSelf

=============================================================================
