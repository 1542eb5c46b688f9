-------------------------- MODULE DuplicateMethods --------------------------
(***************************************************************************)
(* Lint/DuplicateMethods                                                   *)
(* (crates/shirobai-core/src/rules/duplicate_methods.rs) as a rule of the  *)
(* shared walk: the stream of found_method calls of one file, each with    *)
(* the scope it is in.  The stock cop asks the ancestors of a node; the    *)
(* rule keeps a stack of frames that know what they add to the scope, and  *)
(* counters of the frames of some kinds.                                   *)
(*                                                                         *)
(* Every method is called m.  Kinds: "classA", "classB"; "sclassSelf",     *)
(* "sclassA", "sclassSend" (class << self, A, x); "casgn" (A = child),     *)
(* "lvasgn"; "newBlock", "newArgsBlock" (Class.new without and with an     *)
(* argument, and a block), "evalA", "evalBare" (class_eval with a block),  *)
(* "recvBlock", "blockCall" (x.foo, foo with a block); "def", "defs"       *)
(* (def self.m), "defOnA" (def A.m); "alias", "marker" (alias m m),        *)
(* "attr" (attr_accessor); "if"; "begin" with clauses "rescue" and         *)
(* "ensure"; "rescueMod"; "stmts", "paren", "block", "program".            *)
(***************************************************************************)
EXTENDS SharedWalk, SequencesExt

VARIABLE methods

DefKind(k) == k \in {"def", "defs", "defOnA"}
ClassNewBlock == {"newBlock", "newArgsBlock"}
PlainBlock == ClassNewBlock \cup {"evalA", "evalBare", "recvBlock", "blockCall"}
Sclass == {"sclassSelf", "sclassA", "sclassSend"}

\* The hooks that tell of these kinds; "none" is no kind.
ASSUME MethodKindsAssumption ==
    \A kind \in DOMAIN ClassOf :
        /\ kind # "none"
        /\ kind \in PlainBlock \cup {"attr"} => ClassOf[kind] = "call"
        /\ kind \in Sclass \cup {"classA", "classB"} => ClassOf[kind] = "classMod"
        /\ kind \in {"casgn", "lvasgn"} => ClassOf[kind] = "write"
        /\ DefKind(kind) => ClassOf[kind] = "def"
        /\ kind = "block" => ClassOf[kind] = "block"
        /\ kind \in {"program", "stmts", "paren", "if", "begin", "rescueMod", "alias", "marker"} =>
              ClassOf[kind] = "other"
        /\ kind = "ensure" => ClassOf[kind] = "direct"

\* The place of an `ensure`; the one value of an assignment, which has a hook;
\* around an anonymous class the lists no hook tells of are parts of constructs
\* of other kinds (the arguments of a call are its children here, as its frames
\* show them).
MethodPlaces(t) ==
    LET lists(k) == {j \in {k} \cup Ancestors(t.parent, k) : Class(t, j) = "direct"}
        up(k) == t.kind[t.parent[k]]
    IN  /\ t.kind[1] \in {"program", "begin"}
        /\ \A k \in 2 .. Len(t.kind) :
            /\ t.kind[k] = "ensure" => up(k) = "begin"
            /\ up(k) = "casgn" => /\ Class(t, k) # "direct"
                                 /\ \A j \in 2 .. Len(t.kind) : t.parent[j] = t.parent[k] => j = k
            /\ t.kind[k] \in ClassNewBlock =>
                  \A j \in lists(k) : /\ up(j) \notin {"stmts", "paren", "block", "casgn", "lvasgn"}
                                      /\ ~DefKind(up(j)) /\ ClassOf[up(j)] # "call"

ASSUME MethodPlacesAssumption == \A t \in Shapes : MethodPlaces(t)

\* Pmn: what a frame adds to the name of the module.  A name is a sequence of
\* words; a singleton class is the word "<<" and the name of its subject.
Word == Seq({"A", "B", "<<"})
Invisible == <<"invisible">>
Abort == <<"abort">>

\* The name under a frame that aborts.
Unknown == <<Abort>>

MethodsFresh ==
    [frames |-> <<>>, if |-> 0, sclassAny |-> 0, sclassNonself |-> 0, events |-> <<>>]

MethodsInit == methods = MethodsFresh

KindAt(fs, i) == IF i \in DOMAIN fs THEN Kind(fs[i].node) ELSE "none"

\* pmn: the name in `fs`, the empty name for Object.
Pmn(fs) ==
    LET adds == [i \in DOMAIN fs |-> fs[i].pmn]
    IN  IF \E i \in DOMAIN adds : adds[i] = Abort THEN Unknown
        ELSE Filter(adds, Word)

\* humanize_scope: `A::<<A` is `A.`, any other scope ends with `#`.
Humanize(parts) ==
    LET singles == {i \in DOMAIN parts : parts[i][1] = "<<"} IN
    IF singles = {} THEN FlattenSeq(parts) \o <<"#">>
    ELSE LET i == CHOOSE k \in singles : \A j \in singles : k <= j
             before == FlattenSeq(SubSeq(parts, 1, i - 1))
             inner == Tail(parts[i])
             after == FlattenSeq(SubSeq(parts, i + 1, Len(parts)))
             kept == IF IsSuffix(inner, before) THEN SubSeq(before, 1, Len(before) - Len(inner))
                     ELSE before
         IN  kept \o inner \o <<".">> \o after \o (IF after = <<>> THEN <<>> ELSE <<"#">>)

\* block_pmn and make_frame: what the frame of a node adds under the frames `fs`.
FramePmn(fs, n) ==
    CASE Kind(n) = "classA" -> <<"A">>
      [] Kind(n) = "classB" -> <<"B">>
      [] Kind(n) = "sclassSelf" -> IF Pmn(fs) = Unknown THEN <<"<<">>
                                   ELSE <<"<<">> \o FlattenSeq(Pmn(fs))
      [] Kind(n) = "sclassA" -> <<"<<", "A">>
      [] Kind(n) = "sclassSend" -> Abort
      [] Kind(n) = "casgn" ->
            IF Kind(Children(tree.parent, n)[1]) \in ClassNewBlock THEN <<"A">> ELSE Invisible
      [] Kind(n) = "evalA" -> <<"A">>
      [] Kind(n) = "evalBare" -> Invisible
      [] Kind(n) = "newBlock" -> IF KindAt(fs, Len(fs)) = "casgn" THEN Invisible ELSE Abort
      [] Kind(n) \in {"newArgsBlock", "recvBlock", "blockCall"} -> Abort
      [] OTHER -> Invisible

\* rescue_scope: 1 for rescue, 2 for ensure, of the nearest begin that has one.
Clauses(n) ==
    {k \in DOMAIN tree.kind : tree.parent[k] = n /\ (Class(tree, k) = "rescue" \/ Kind(k) = "ensure")}
HasRescueClause(n) == \E c \in Clauses(n) : Class(tree, c) = "rescue"
InEnsure(n, k) == \E e \in Clauses(n) : Kind(e) = "ensure" /\ k \in Below(tree.parent, e)

RescueScopeOf(n, k) ==
    IF Kind(n) = "rescueMod" THEN 1
    ELSE IF Kind(n) # "begin" \/ Clauses(n) = {} THEN 0
    ELSE IF HasRescueClause(n) /\ ~InEnsure(n, k) THEN 1
    ELSE 2

RescueScope(fs, k) ==
    LET inside == {i \in DOMAIN fs : RescueScopeOf(fs[i].node, k) # 0}
    IN  IF inside = {} THEN 0
        ELSE RescueScopeOf(fs[CHOOSE i \in inside : \A j \in inside : j <= i].node, k)

\* first_block
FirstBlock(fs) ==
    LET blocks == {i \in DOMAIN fs : KindAt(fs, i) \in PlainBlock}
    IN  IF blocks = {} THEN 0 ELSE CHOOSE i \in blocks : \A j \in blocks : j <= i

\* resolve_parent and anon_scope_id of the block of frame i: none, the receiver
\* of the call around it, or its own place.
Many(n) == Len(Children(tree.parent, n)) >= 2

AnonScopeId(fs, i) ==
    LET up == KindAt(fs, i - 1)
        holder == KindAt(fs, i - 2)
        multi == Many(fs[i - 1].node)
        own == <<"at", fs[i].node>>
        none == <<"none", 0>>
    IN  CASE up = "stmts" /\ holder = "paren" ->
                IF /\ KindAt(fs, i - 3) = "stmts" /\ ~Many(fs[i - 3].node)
                   /\ KindAt(fs, i - 4) = "block"
                THEN own ELSE none
          [] up = "stmts" /\ holder = "block" ->
                IF ~multi /\ KindAt(fs, i - 3) \in ClassNewBlock \cup {"recvBlock", "evalA"}
                THEN <<KindAt(fs, i - 3), 0>> ELSE own
          [] up = "stmts" /\ DefKind(holder) /\ ~multi -> IF holder = "def" THEN own ELSE <<holder, 0>>
          [] up # "none" /\ (up = "casgn" \/ ClassOf[up] = "call") -> own
          [] OTHER -> none

\* anonymous_class_block: the frame of it, or 0.
AnonymousClassBlock(s) ==
    LET i == FirstBlock(s.frames)
    IN  IF /\ KindAt(s.frames, i) \in ClassNewBlock /\ KindAt(s.frames, i - 1) # "lvasgn"
           /\ s.sclassNonself = 0
        THEN i ELSE 0

Event(n, name, id) ==
    [at |-> n, name |-> name, id |-> id, prefix |-> FALSE, scope |-> 0, marks |-> FALSE]

\* push_event adds the key prefix of the def around and the rescue scope.
PushEvent(s, event) ==
    [s EXCEPT !.events = Append(@, [event EXCEPT
        !.prefix = \E i \in DOMAIN s.frames : DefKind(KindAt(s.frames, i)),
        !.scope = RescueScope(s.frames, event.at)])]

Plain == <<"none", 0>>

\* anon_base: Object under the name around the block, "" if that is unknown.
AnonBase(fs, i) ==
    LET around == Pmn(SubSeq(fs, 1, i - 1))
    IN  IF around = Unknown THEN <<"", "Object">> ELSE FlattenSeq(around) \o <<"Object">>

\* found_instance_method and, at its end, found_sclass_method.
FoundInstanceMethod(s, n, name) ==
    LET scope == Pmn(s.frames)
        anon == AnonymousClassBlock(s)
        subjects == {i \in DOMAIN s.frames : KindAt(s.frames, i) \in Sclass}
    IN  CASE scope # Unknown -> PushEvent(s, Event(n, Humanize(scope) \o name, Plain))
          [] scope = Unknown /\ anon # 0 ->
                LET base == AnonBase(s.frames, anon)
                IN  PushEvent(s, Event(n, Humanize(<<IF s.sclassAny > 0 THEN <<"<<">> \o base ELSE base>>) \o name,
                                       AnonScopeId(s.frames, anon)))
          [] scope = Unknown /\ anon = 0 /\ subjects # {}
                /\ KindAt(s.frames, CHOOSE i \in subjects : \A j \in subjects : j <= i) = "sclassSend" ->
                PushEvent(s, Event(n, <<"x", ".">> \o name, Plain))
          [] OTHER -> s

\* check_self_receiver
FoundSelfMethod(s, n) ==
    LET anon == AnonymousClassBlock(s) IN
    CASE Pmn(s.frames) # Unknown ->
            PushEvent(s, Event(n, (IF Pmn(s.frames) = <<>> THEN <<"Object">> ELSE FlattenSeq(Pmn(s.frames)))
                                     \o <<".", "m">>, Plain))
      [] Pmn(s.frames) = Unknown /\ anon # 0 ->
            PushEvent(s, Event(n, AnonBase(s.frames, anon) \o <<".", "m">>, AnonScopeId(s.frames, anon)))
      [] OTHER -> s

\* check_const_receiver: the innermost A, or the text of the whole definition.
FoundConstMethod(s, n) ==
    LET named == {i \in DOMAIN s.frames : KindAt(s.frames, i) \in {"classA", "casgn"}}
        i == CHOOSE k \in named : \A j \in named : j <= k
        around == Pmn(SubSeq(s.frames, 1, i - 1))
    IN  IF named = {} THEN PushEvent(s, Event(n, <<"(defs)", ".", "m">>, Plain))
        ELSE PushEvent(s, Event(n, (IF around = Unknown THEN <<"">> ELSE FlattenSeq(around))
                                      \o <<"A", ".", "m">>, Plain))

\* track_intentional_redefinition
TrackIntentionalRedefinition(s, n) ==
    IF Pmn(s.frames) = Unknown THEN s
    ELSE [s EXCEPT !.events =
            Append(@, [Event(n, Humanize(Pmn(s.frames)) \o <<"m">>, Plain) EXCEPT !.marks = TRUE])]

\* handle_def, handle_alias and handle_send: in an `if` only accessors count.
FoundIn(s, n) ==
    CASE Kind(n) = "attr" ->
            FoundInstanceMethod(FoundInstanceMethod(s, n, <<"m">>), n, <<"m=">>)
      [] Kind(n) = "marker" -> TrackIntentionalRedefinition(s, n)
      [] Kind(n) \in {"def", "alias"} /\ s.if = 0 -> FoundInstanceMethod(s, n, <<"m">>)
      [] Kind(n) = "defs" /\ s.if = 0 -> FoundSelfMethod(s, n)
      [] Kind(n) = "defOnA" /\ s.if = 0 -> FoundConstMethod(s, n)
      [] OTHER -> s

\* The counters a frame bumps, and takes back.
Counted(s, n, by) ==
    [s EXCEPT !.if = @ + IF Kind(n) = "if" THEN by ELSE 0,
              !.sclassAny = @ + IF Kind(n) \in Sclass THEN by ELSE 0,
              !.sclassNonself = @ + IF Kind(n) \in Sclass \ {"sclassSelf"} THEN by ELSE 0]

MethodsEnter ==
    LET found == FoundIn(methods, Node)
        frame == [node |-> Node, pmn |-> FramePmn(found.frames, Node)]
    IN  methods' = [Counted(found, Node, 1) EXCEPT !.frames = Append(@, frame)]

\* Mutant: leave pops the frame and keeps what it counted.
LeftCounted(s) == [s EXCEPT !.frames = Front(@)]

Left(s) == [Counted(s, Last(s.frames).node, -1) EXCEPT !.frames = Front(@)]

MethodsLeave == methods' = Left(methods)

-----------------------------------------------------------------------------
(* The stock cop asks the ancestors in the parser gem's tree, where a      *)
(* block is the parent of its call, a body of one statement is that        *)
(* statement, and `ensure` is the parent of the `rescue` of its begin.     *)

\* parent_module_name of n, whose parent is `up` and has the name `name`.
NameUnder(n, up, name) ==
    CASE \/ name = Unknown \/ Kind(up) \in {"sclassSend", "newArgsBlock", "recvBlock", "blockCall"}
         \/ Kind(up) = "newBlock" /\ Kind(tree.parent[up]) # "casgn" -> Unknown
      [] name # Unknown /\ Kind(up) = "sclassSelf" -> Append(name, <<"<<">> \o FlattenSeq(name))
      [] name # Unknown /\ Kind(up) = "sclassA" -> Append(name, <<"<<", "A">>)
      [] name # Unknown /\ (\/ Kind(up) \in {"classA", "evalA"}
                            \/ Kind(up) = "casgn" /\ Kind(n) \in ClassNewBlock) -> Append(name, <<"A">>)
      [] name # Unknown /\ Kind(up) = "classB" -> Append(name, <<"B">>)
      [] OTHER -> name

\* What the ancestors of each node answer: parent_module_name, the first block,
\* if and def ancestors, the sclass ancestors, the first rescue or ensure.
AroundRoot ==
    [pmn |-> <<>>, block |-> 0, inIf |-> FALSE, inDef |-> FALSE, named |-> 0, sclasses |-> <<>>,
     scope |-> 0]

AroundUnder(n, up, a) ==
    [pmn |-> NameUnder(n, up, a.pmn),
     block |-> IF Kind(up) \in PlainBlock THEN up ELSE a.block,
     inIf |-> a.inIf \/ Kind(up) = "if",
     inDef |-> a.inDef \/ DefKind(Kind(up)),
     named |-> IF Kind(up) \in {"classA", "casgn"} THEN up ELSE a.named,
     sclasses |-> IF Kind(up) \in Sclass THEN Append(a.sclasses, Kind(up)) ELSE a.sclasses,
     scope |-> IF Kind(n) = "ensure" THEN 2
               ELSE IF Kind(up) = "rescueMod" \/ HasRescueClause(up) THEN 1
               ELSE IF Kind(up) = "begin" /\ Clauses(up) # {} THEN 2
               ELSE a.scope]

Around ==
    LET of[n \in DOMAIN tree.kind] ==
            IF n = 1 THEN AroundRoot ELSE AroundUnder(n, tree.parent[n], of[tree.parent[n]])
    IN  of

\* anon_block_scope_id, by the parent of the block in the parser gem's tree.
StockScopeId(b) ==
    LET up == tree.parent[b]
        holder == tree.parent[up]
        under(k) == Kind(k) = "block"
        named(k) == Kind(tree.parent[k]) \in ClassNewBlock \cup {"recvBlock", "evalA"}
        begin == Kind(up) = "stmts" /\ (Many(up) \/ Kind(holder) = "paren")
        beginInBlock ==
            IF Kind(holder) # "paren" THEN under(holder)
            ELSE LET out == tree.parent[holder]
                 IN  Kind(out) = "stmts" /\ ~Many(out) /\ under(tree.parent[out])
        own == <<"at", b>>
    IN  CASE Class(tree, up) = "call" \/ Kind(up) = "casgn" -> own
          [] begin -> IF beginInBlock THEN own ELSE Plain
          [] Kind(up) = "stmts" /\ ~begin /\ under(holder) ->
                IF named(holder) THEN <<Kind(tree.parent[holder]), 0>> ELSE own
          [] Kind(up) = "stmts" /\ ~begin /\ DefKind(Kind(holder)) ->
                IF Kind(holder) = "def" THEN own ELSE <<Kind(holder), 0>>
          [] OTHER -> Plain

StockFound(a, n) ==
    LET names == IF Kind(n) = "attr" THEN <<<<"m">>, <<"m=">>>> ELSE <<<<"m">>>>
        anon == /\ a.block # 0 /\ Kind(a.block) \in ClassNewBlock
                /\ Kind(tree.parent[a.block]) # "lvasgn"
                /\ \A i \in DOMAIN a.sclasses : a.sclasses[i] = "sclassSelf"
        base == LET p == Around[a.block].pmn
                IN  IF p = Unknown THEN <<"", "Object">> ELSE FlattenSeq(p) \o <<"Object">>
        instance == CASE a.pmn # Unknown -> Humanize(a.pmn)
                      [] a.pmn = Unknown /\ anon ->
                            Humanize(<<IF a.sclasses # <<>> THEN <<"<<">> \o base ELSE base>>)
                      [] a.pmn = Unknown /\ ~anon /\ a.sclasses # <<>> /\ Last(a.sclasses) = "sclassSend" ->
                            <<"x", ".">>
                      [] OTHER -> <<>>
        self == CASE a.pmn # Unknown -> (IF a.pmn = <<>> THEN <<"Object">> ELSE FlattenSeq(a.pmn)) \o <<".">>
                  [] a.pmn = Unknown /\ anon -> base \o <<".">>
                  [] OTHER -> <<>>
        constant == IF a.named = 0 THEN <<"(defs)", ".">>
                    ELSE LET p == Around[a.named].pmn
                         IN  (IF p = Unknown THEN <<"">> ELSE FlattenSeq(p)) \o <<"A", ".">>
        owner == CASE Kind(n) = "defs" -> self
                   [] Kind(n) = "defOnA" -> constant
                   [] Kind(n) = "marker" -> IF a.pmn = Unknown THEN <<>> ELSE instance
                   [] OTHER -> instance
        found(name) == [at |-> n, name |-> owner \o name,
                        id |-> IF a.pmn = Unknown /\ anon /\ Kind(n) # "defOnA"
                               THEN StockScopeId(a.block) ELSE Plain,
                        prefix |-> Kind(n) # "marker" /\ a.inDef,
                        scope |-> IF Kind(n) = "marker" THEN 0 ELSE a.scope,
                        marks |-> Kind(n) = "marker"]
    IN  IF \/ ~DefKind(Kind(n)) /\ Kind(n) \notin {"alias", "attr", "marker"}
           \/ a.inIf /\ Kind(n) \notin {"attr", "marker"}
           \/ owner = <<>>
        THEN <<>>
        ELSE [i \in DOMAIN names |-> found(names[i])]

\* Of the first m nodes.
StockHistory ==
    LET upTo[m \in 0 .. Len(tree.kind)] ==
            IF m = 0 THEN <<>> ELSE upTo[m - 1] \o StockFound(Around[m], m)
    IN  upTo

StockMethods == StockHistory[Len(tree.kind)]

\* The running frames and counters tell of each definition what its ancestors
\* tell the stock cop: the owner of the method, an anonymous class and its place
\* in the source, a singleton class, and the rescue or ensure it is under; and
\* nothing of a sibling that was left is counted.
MethodsAsStock == todo = <<>> => methods.events = StockMethods

=============================================================================
