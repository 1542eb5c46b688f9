----------------------- MODULE UselessAccessModifier -----------------------
(***************************************************************************)
(* Lint/UselessAccessModifier                                              *)
(* (crates/shirobai-core/src/rules/useless_access_modifier.rs) as a rule   *)
(* of the shared walk.  The stock cop starts a recursion of its own at     *)
(* every scope, from a handler and from the recursion around it; the rule  *)
(* does both on one walk, with up to two trackers for an open scope.       *)
(*                                                                         *)
(* Kinds: "private" and "public" (the bare modifiers), "privateClass" and  *)
(* "privateClassArgs" (private_class_method without and with arguments),   *)
(* "def", "defs", "attr", "dynamicDef" (define_method with a block),       *)
(* "class", "evalCall" (class_eval and the configured methods with a       *)
(* block), "constructor" (Class.new with a block), "constructorSend"       *)
(* (without), "included" (with a block), "blockCall" (any other block),    *)
(* "block" (the BlockNode of such a call), "stmts", "paren", "if",         *)
(* "begin", "rescue", "program".                                           *)
(***************************************************************************)
EXTENDS SharedWalk, SequencesExt

VARIABLE access


Modifiers == {"private", "public"}
Constructors == {"constructor", "constructorSend"}
BlockCalls == {"evalCall", "constructor", "included", "dynamicDef", "blockCall"}

\* A tracker: cur_vis and unused of the stock recursion; 0 is no node.
Tracker == [vis |-> "public", unused |-> 0]
NoTracker == [vis |-> "off", unused |-> 0]

\* What the children of a node inherit of its macro scope, by their position.
Uniform(b) == [condition |-> b, block |-> b, other |-> b]

AccessFresh ==
    [macros |-> <<>>, frames |-> <<>>, out |-> {}]

AccessInit == access = AccessFresh

Depth == Len(access.macros)
Top == Last(access.frames)

\* macro_at
Position(n) ==
    CASE Kind(n) = "block" -> "block"
      [] tree.parent[n] # 0 /\ Kind(tree.parent[n]) = "if"
            /\ Children(tree.parent, tree.parent[n])[1] = n -> "condition"
      [] OTHER -> "other"

MacroAt(n) == IF Depth = 0 THEN TRUE ELSE Last(access.macros)[Position(n)]

\* The entry pushed for a node.
HasRescue(n) == \E k \in DOMAIN tree.kind : tree.parent[k] = n /\ Kind(k) = "rescue"

MacroEntry(n) ==
    LET here == MacroAt(n)
        constructs == Kind(n) \in Constructors
    IN  CASE Kind(n) \in {"program", "class"} -> Uniform(TRUE)
          [] Class(tree, n) = "call" -> [condition |-> constructs, block |-> constructs \/ here,
                                         other |-> constructs]
          [] Kind(n) = "if" -> [condition |-> FALSE, block |-> here, other |-> here]
          [] Kind(n) \in {"stmts", "paren", "block"} -> Uniform(here)
          [] Kind(n) = "begin" -> Uniform(here /\ ~HasRescue(n))
          [] OTHER -> Uniform(FALSE)

\* The trackers of a frame that follow the walk here.
Active(f) ==
    {w \in {"parent", "handler"} : f[w] # NoTracker /\ (w = "handler" => f.activeAt # 0)}

Following == IF access.frames = <<>> \/ Top.suspendAt # 0 THEN {} ELSE Active(Top)

\* consuming
Consuming == Following # {}

Flagged(n) == <<n, Kind(n)>>

\* add_offense keeps the first offense of a range.
Flag(s, ns) == [s EXCEPT !.out = @ \cup {Flagged(n) : n \in ns}]

Retrack(s, tracked(_)) ==
    [s EXCEPT !.frames[Len(s.frames)] =
        [w \in DOMAIN @ |-> IF w \in Active(@) THEN tracked(@[w]) ELSE @[w]]]

Suspend(s) == [s EXCEPT !.frames[Len(s.frames)].suspendAt = Depth]

\* apply_modifier: a repeated modifier is useless itself, a changed one makes
\* the one before it so unless a method came in between.
ApplyModifier(s, n) ==
    LET flags(t) == IF t.vis = Kind(n) THEN {n} ELSE {t.unused} \ {0}
        tracked(t) == [vis |-> Kind(n), unused |-> IF t.vis = Kind(n) THEN t.unused ELSE n]
    IN  Flag(Retrack(s, tracked), UNION {flags(Top[w]) : w \in Following})

\* apply_private_class_method
ApplyPrivateClassMethod(s, n) ==
    LET reset(t) == [vis |-> "none", unused |-> 0]
    IN  Suspend(IF Kind(n) = "privateClassArgs" THEN Retrack(s, reset) ELSE Flag(s, {n}))

\* apply_method_def
ApplyMethodDef(s) ==
    LET used(t) == [t EXCEPT !.unused = 0]
    IN  Retrack(s, used)

\* The body statements of a scope: a child of the node or of its block.
Bodies(n) ==
    {k \in DOMAIN tree.kind :
        /\ Kind(k) = "stmts"
        /\ \/ tree.parent[k] = n
           \/ Kind(tree.parent[k]) = "block" /\ tree.parent[tree.parent[k]] = n}

\* check_node does its tracking in a body of several statements or of one group.
IsParserBegin(body) ==
    LET list == Children(tree.parent, body)
    IN  Len(list) >= 2 \/ (Len(list) = 1 /\ Kind(list[1]) = "paren")

\* open_frame
OpenFrame(s, n, withParent, bodyMacro) ==
    LET tracked == {b \in Bodies(n) : IsParserBegin(b)}
        single == {k \in DOMAIN tree.kind : /\ tree.parent[k] \in Bodies(n) \ tracked
                                            /\ Kind(k) \in Modifiers /\ bodyMacro}
        frame == [openAt |-> Depth, suspendAt |-> 0, activeAt |-> 0,
                  parent |-> IF withParent THEN Tracker ELSE NoTracker,
                  handler |-> IF tracked # {} THEN Tracker ELSE NoTracker,
                  body |-> IF tracked # {} THEN CHOOSE b \in tracked : TRUE ELSE 0]
    IN  Flag([s EXCEPT !.frames = Append(@, frame)], single)

\* top_level: every modifier directly in a program of several statements.
TopLevel(s) ==
    LET list == Children(tree.parent, 1)
        group(k) == UNION {{j \in DOMAIN tree.kind : tree.parent[j] = b} : b \in Bodies(k)}
        items == IF Len(list) >= 2 THEN {list[i] : i \in DOMAIN list}
                 ELSE UNION {group(k) : k \in {list[i] : i \in {j \in DOMAIN list : Kind(list[j]) = "paren"}}}
    IN  Flag(s, {n \in items : Kind(n) \in Modifiers \cup {"privateClass"}})

\* enter_call for a call with a literal block.
EnterBlockCall(s, n) ==
    LET bodyMacro == Kind(n) \in Constructors \/ MacroAt(n) IN
    CASE Kind(n) = "included" -> OpenFrame(s, n, FALSE, bodyMacro)
      [] Kind(n) = "dynamicDef" /\ Consuming -> Suspend(ApplyMethodDef(s))
      [] Kind(n) \in {"evalCall", "constructor"} -> OpenFrame(s, n, Consuming, bodyMacro)
      [] OTHER -> s

\* enter_call for a send, where a tracker follows.
EnterSend(s, n) ==
    CASE Kind(n) \in Modifiers /\ MacroAt(n) -> ApplyModifier(s, n)
      [] Kind(n) \in {"privateClass", "privateClassArgs"} -> ApplyPrivateClassMethod(s, n)
      [] Kind(n) = "attr" -> Suspend(ApplyMethodDef(s))
      [] Kind(n) = "constructorSend" ->
            [s EXCEPT !.frames = Append(@, [openAt |-> Depth, suspendAt |-> 0, activeAt |-> 0,
                                            parent |-> Tracker, handler |-> NoTracker, body |-> 0])]
      [] OTHER -> s

\* A multi-statement body arms the handler's tracker.
Arm(s, n) ==
    IF s.frames # <<>> /\ Top.body = n /\ Top.activeAt = 0
    THEN [s EXCEPT !.frames[Len(s.frames)].activeAt = Depth] ELSE s

EnterAccess(s, n) ==
    CASE Kind(n) = "program" -> TopLevel(s)
      [] Kind(n) = "class" -> OpenFrame(s, n, Consuming, TRUE)
      [] Kind(n) = "def" /\ Consuming -> Suspend(ApplyMethodDef(s))
      [] Kind(n) = "defs" /\ Consuming -> Suspend(s)
      [] Kind(n) \in BlockCalls -> EnterBlockCall(s, n)
      [] Class(tree, n) = "call" /\ Kind(n) \notin BlockCalls /\ Consuming -> EnterSend(s, n)
      [] Kind(n) = "stmts" -> Arm(s, n)
      [] OTHER -> s

AccessEnter ==
    access' = [EnterAccess(access, Node) EXCEPT !.macros = Append(@, MacroEntry(Node))]

\* The end of a scope flags what is still unused.
Close(s) ==
    LET f == Last(s.frames)
    IN  [Flag(s, {f.parent.unused, f.handler.unused} \ {0}) EXCEPT !.frames = Front(@)]

\* Mutant: leave does not end the suspension.
StillSuspended(s, depth) == s

\* What ends when the walk is back at `depth`.
Resume(s, depth) ==
    LET ended(at) == IF at = depth THEN 0 ELSE at
    IN  IF s.frames = <<>> THEN s
        ELSE [s EXCEPT !.frames[Len(s.frames)].suspendAt = ended(@),
                       !.frames[Len(s.frames)].activeAt = ended(@)]

AccessLeave ==
    LET s == Resume([access EXCEPT !.macros = Front(@)], Depth - 1)
    IN  access' = IF s.frames # <<>> /\ Last(s.frames).openAt = Depth - 1 THEN Close(s) ELSE s

AccessRescue == access' = [access EXCEPT !.macros = Append(@, Uniform(FALSE))]
AccessRescueLeave == access' = [access EXCEPT !.macros = Front(@)]

-----------------------------------------------------------------------------
(* The stock cop, in terms of the parser gem's tree: a body of one         *)
(* statement is that statement, and a block is the parent of its call.     *)

\* in_macro_scope?
InMacroScope ==
    LET macro[n \in DOMAIN tree.kind] ==
            LET up == tree.parent[n] IN
            IF up = 0 THEN TRUE
            ELSE CASE Kind(up) \in {"program", "class"} -> TRUE
                   [] Kind(up) \in Constructors -> TRUE
                   [] Kind(up) \in BlockCalls -> Kind(n) = "block" /\ macro[up]
                   [] Kind(up) \in {"stmts", "paren", "block"} -> macro[up]
                   [] Kind(up) = "begin" -> ~HasRescue(up) /\ macro[up]
                   [] Kind(up) = "if" -> Children(tree.parent, up)[1] # n /\ macro[up]
                   [] OTHER -> FALSE
    IN  macro

\* The nodes check_child_nodes comes to below `up`, which it does not descend
\* into where it has something to do or to skip.
Opens(n) == Kind(n) \in {"class", "evalCall"} \cup Constructors
ActsOn(n) == Kind(n) \in Modifiers /\ InMacroScope[n]
Skips(n) == Kind(n) \in {"privateClass", "privateClassArgs", "included", "def", "defs", "attr", "dynamicDef"}

Reached(up) ==
    {n \in Below(tree.parent, up) :
        \A k \in Ancestors(tree.parent, n) \cap Below(tree.parent, up) :
            ~Opens(k) /\ ~ActsOn(k) /\ ~Skips(k)}

\* check_scope over the children of each node.
CheckScope ==
    LET checked[up \in DOMAIN tree.kind] ==
            LET step(acc, n) ==
                    CASE ActsOn(n) /\ acc.vis = Kind(n) -> [acc EXCEPT !.out = @ \cup {n}]
                      [] ActsOn(n) /\ acc.vis # Kind(n) ->
                            [vis |-> Kind(n), unused |-> n, out |-> acc.out \cup ({acc.unused} \ {0})]
                      [] Kind(n) = "privateClass" -> [acc EXCEPT !.out = @ \cup {n}]
                      [] Kind(n) = "privateClassArgs" -> [acc EXCEPT !.vis = "none", !.unused = 0]
                      [] Kind(n) \in {"def", "attr", "dynamicDef"} -> [acc EXCEPT !.unused = 0]
                      [] Opens(n) -> [acc EXCEPT !.out = @ \cup checked[n]]
                      [] OTHER -> acc
                end == FoldLeft(step, [vis |-> "public", unused |-> 0, out |-> {}],
                                Filter(UpTo(Len(tree.kind)), Reached(up)))
            IN  end.out \cup ({end.unused} \ {0})
    IN  checked

\* check_node, from the handlers of classes and blocks.
CheckNode(body) ==
    LET list == Children(tree.parent, body)
    IN  CASE IsParserBegin(body) -> CheckScope[body]
          [] Len(list) = 1 -> {n \in {list[1]} : Kind(n) \in Modifiers /\ InMacroScope[n]}
          [] OTHER -> {}

\* on_begin
OnBegin ==
    LET list == Children(tree.parent, 1)
        flagged(ns) == {n \in ns : Kind(n) \in Modifiers \cup {"privateClass"}}
        kids(k) == {j \in DOMAIN tree.kind : tree.parent[j] \in Bodies(k)}
    IN  CASE Kind(1) # "program" -> {}
          [] Len(list) >= 2 -> flagged({list[i] : i \in DOMAIN list})
          [] Len(list) = 1 /\ Kind(list[1]) = "paren" -> flagged(kids(list[1]))
          [] OTHER -> {}

StockAccess ==
    LET scopes == {n \in DOMAIN tree.kind :
                      Kind(n) \in {"class", "evalCall", "constructor", "included"}}
    IN  OnBegin \cup UNION {CheckNode(b) : b \in UNION {Bodies(n) : n \in scopes}}

\* The trackers of one walk flag what the recursions of the stock cop flag,
\* wherever a scope opens: nested in another scope or in a method, in a block
\* the recursion passes over, or under a rescue that breaks the macro scope.
AccessAsStock == todo = <<>> => access.out = {Flagged(n) : n \in StockAccess}

=============================================================================
