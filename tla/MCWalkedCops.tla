---------------------------- MODULE MCWalkedCops ----------------------------
(***************************************************************************)
(* WalkedCops over families of small trees, each made for one of the cops, *)
(* with generic rules whose masks are those of rules of the bundle.        *)
(***************************************************************************)
EXTENDS WalkedCops

CONSTANTS abcSize, emptyLines, indentationWidth, blockNesting, hashSyntax, rescueEnsure

MCClassOf ==
    [program |-> "other", begin |-> "other", loop |-> "other", elsif |-> "other",
     modifierIf |-> "other", rescueMod |-> "other", super |-> "super",
     blockCall |-> "call", blockPass |-> "call", lambda |-> "lambda", wide |-> "leaf", leaf |-> "leaf", rescue |-> "rescue", direct |-> "direct",
     class |-> "classMod", stmts |-> "other", paren |-> "other", def |-> "def", defs |-> "def",
     block |-> "block", private |-> "call", public |-> "call", privateClass |-> "call",
     privateClassArgs |-> "call", attr |-> "call", dynamicDef |-> "call", evalCall |-> "call",
     constructor |-> "call", constructorSend |-> "call", included |-> "call", if |-> "other",
     selfA |-> "call", argsCall |-> "call", safeCall |-> "call", recvCall |-> "call",
     blockA |-> "block", defA |-> "def", writeA |-> "write", orWriteA |-> "write",
     masgnA |-> "write",
     inA |-> "other", rescueA |-> "rescue",
     classA |-> "classMod", classB |-> "classMod", sclassSelf |-> "classMod",
     sclassA |-> "classMod", sclassSend |-> "classMod", casgn |-> "write", lvasgn |-> "write",
     newBlock |-> "call", newArgsBlock |-> "call", evalA |-> "call", evalBare |-> "call",
     recvBlock |-> "call", defOnA |-> "def", alias |-> "other", marker |-> "other",
     ensure |-> "direct", then |-> "direct", main |-> "direct", unlessElse |-> "direct",
     caseElse |-> "direct", beginElse |-> "direct", else |-> "other", unless |-> "other",
     case |-> "other", when |-> "other", group |-> "call", sharedGroup |-> "call",
     numGroup |-> "call", include |-> "call", hook |-> "call", example |-> "call",
     exampleLine |-> "call", letA |-> "call", letB |-> "call", bangA |-> "call",
     bangSendA |-> "call", subjectC |-> "call", subject |-> "call", each |-> "call",
     callA |-> "call", subjectRef |-> "call", shifted |-> "direct", shiftedBody |-> "other",
     while |-> "other", whileAllowed |-> "other", assign |-> "write", modifier |-> "call"]

\* Elsif and rescue clauses where they belong, nothing after a later clause.
InPlace(t, up, k) ==
    /\ t.kind[up] # "leaf"
    /\ k = "elsif" => t.kind[up] \in {"loop", "elsif"}
    /\ k = "rescue" => t.kind[up] \in {"begin", "rescue"}
    /\ t.kind[up] = "rescue" => \A j \in DOMAIN t.kind : ~(t.parent[j] = up /\ t.kind[j] = "rescue")
    /\ t.kind[up] = "rescueMod" => Cardinality({j \in DOMAIN t.kind : t.parent[j] = up}) < 2

Whole(t) ==
    \A i \in DOMAIN t.kind :
        t.kind[i] = "rescueMod" => Cardinality({j \in DOMAIN t.kind : t.parent[j] = i}) = 2

\* The trees of n nodes under a root of kind `root`: each node follows the one
\* before it as its child or as a child of one of its ancestors, where
\* `Fits(t, up, k)` allows a further child of kind k.
TreesOver(n, root, kinds, Fits(_, _, _)) ==
    LET grown(t) ==
            {[parent |-> Append(t.parent, up), kind |-> Append(t.kind, k)] :
                <<up, k>> \in {c \in ({Len(t.kind)} \cup Ancestors(t.parent, Len(t.kind))) \X kinds :
                                  Fits(t, c[1], c[2])}}
        of[i \in 1 .. n] ==
            IF i = 1 THEN {[parent |-> <<0>>, kind |-> <<root>>]}
                     ELSE UNION {grown(t) : t \in of[i - 1]}
    IN  of[n]

\* The trees with these parents whose i-th node is of a kind in kinds[i].
Filled(parents, kinds) ==
    LET words[i \in 0 .. Len(kinds)] ==
            IF i = 0 THEN {<<>>} ELSE {Append(w, k) : w \in words[i - 1], k \in kinds[i]}
    IN  {[parent |-> parents, kind |-> w] : w \in words[Len(kinds)]}

With(trees, optionSets) ==
    {[parent |-> t.parent, kind |-> t.kind, options |-> o] : t \in trees, o \in optionSets}

NestingTrees(n, kinds) ==
    With({t \in TreesOver(n, "begin", kinds, InPlace) : Whole(t)},
         {{}, {"CountBlocks", "CountModifierForms"}})

\* Class bodies of three statements; with a nested scope, wrapper or method of
\* one or two statements in between; programs and bodies of a single statement.
AccessTrees ==
    LET item == {"private", "public", "def", "privateClassArgs"}
        inner == {"private", "public", "def"}
        open == <<{"program"}, {"class"}, {"stmts"}, item>>
        calls == {"evalCall", "constructor", "included", "dynamicDef", "blockCall"}
    IN  Filled(<<0, 1, 2, 3, 3, 3>>, <<{"program"}, {"class"}, {"stmts"}>> \o
                   [k \in 1 .. 3 |-> item \cup {"privateClass", "attr", "defs"}])
        \cup Filled(<<0, 1, 2, 3, 3, 5, 6, 6, 3>>,
                    open \o <<{"class", "def", "paren"}, {"stmts"}, inner, inner, item>>)
        \cup Filled(<<0, 1, 2, 3, 3, 5, 6, 3>>,
                    open \o <<{"class", "def", "paren"}, {"stmts"}, inner, item>>)
        \cup Filled(<<0, 1, 2, 3, 3, 5, 6, 7, 7, 3>>,
                    open \o <<calls, {"block"}, {"stmts"}, inner, inner, item>>)
        \cup Filled(<<0, 1, 2, 3, 3, 5, 6, 7, 3>>,
                    open \o <<calls, {"block"}, {"stmts"}, inner, item>>)
        \cup Filled(<<0, 1, 2, 3, 3, 5, 5, 3>>,
                    open \o <<{"if", "begin"}, {"leaf", "private"}, inner, item>>)
        \cup Filled(<<0, 1, 2, 3, 3, 5, 5, 7, 3>>,
                    open \o <<{"begin"}, inner, {"rescue"}, inner, item>>)
        \cup Filled(<<0, 1, 2, 3, 3, 5, 6, 7, 8, 8, 3>>,
                    open \o <<{"def", "class"}, {"stmts"}, {"class"}, {"stmts"}, inner, inner, item>>)
        \cup Filled(<<0, 1, 2, 3, 3, 5, 6, 7, 8, 9, 9, 3>>,
                    open \o <<{"included", "blockCall"}, {"block"}, {"stmts"}, {"class"}, {"stmts"},
                              inner, inner, {"def"}>>)
        \cup Filled(<<0, 1, 2, 2, 4, 4>>,
                    <<{"program"}, {"class"}, {"constructorSend", "leaf"}, {"stmts"}, item, item>>)
        \cup Filled(<<0, 1, 2, 3, 3, 5, 5, 7, 7, 3>>,
                    open \o <<{"class"}, {"constructorSend"}, {"stmts"}, inner, inner, item>>)
        \cup Filled(<<0, 1, 1, 3, 3>>, <<{"program"}, item, {"if", "begin"}, inner, inner>>)
        \cup Filled(<<0, 1, 2, 3, 3>>, <<{"program"}, {"paren", "class"}, {"stmts"},
                                         inner \cup {"privateClass"}, inner>>)
        \cup Filled(<<0, 1, 2, 3, 4, 4>>, <<{"program"}, calls, {"block"}, {"stmts"}, inner, inner>>)
        \cup Filled(<<0, 1, 2, 3, 4, 5, 5>>,
                    <<{"program"}, {"class"}, {"stmts"}, {"paren", "class"}, {"stmts"}, item, item>>)
        \cup Filled(<<0, 1, 2, 3, 3, 5>>,
                    open \o <<{"constructorSend"}, inner>>)

\* At most one block, at the end; one value, one receiver.
SelfFits(t, up, k) ==
    LET kids == {t.kind[j] : j \in {i \in DOMAIN t.kind : t.parent[i] = up}}
        blocks == {"block", "blockA"}
    IN  /\ kids \cap blocks = {}
        /\ k \in blocks => t.kind[up] \in {"selfA", "argsCall", "recvCall"}
        /\ t.kind[up] = "selfA" => k \in blocks
        /\ t.kind[up] \in {"writeA", "recvCall"} /\ k \notin blocks => kids = {}

SelfWhole(t) ==
    \A n \in DOMAIN t.kind :
        t.kind[n] \in {"writeA", "recvCall"} =>
            \E j \in DOMAIN t.kind : t.parent[j] = n /\ t.kind[j] \notin {"block", "blockA"}

\* Reads of `self.a` before, in and after assignments, calls with and without
\* blocks, methods, conditions, patterns and rescue clauses.
SelfTrees ==
    LET self == {"selfA"}
        write == {"writeA", "masgnA"}
        assigned == {"writeA", "orWriteA", "inA", "rescueA"}
        def == {"def", "defA"}
        block == {"block", "blockA"}
        call == {"argsCall", "recvCall"}
        value == {"selfA", "leaf"}
    IN  Filled(<<0, 1, 2, 3, 2, 1>>, <<{"program"}, def \cup {"if"}, write \cup {"inA"}, value, self, self>>)
        \cup Filled(<<0, 1, 2, 2, 4, 5, 4, 1>>,
                    <<{"program"}, call, value, block, write \cup {"if", "argsCall"}, value, self, self>>)
        \cup Filled(<<0, 1, 2, 3, 3, 5, 6, 2, 1>>,
                    <<{"program"}, def, call, {"selfA"}, block, write, value, self, self>>)
        \cup Filled(<<0, 1, 2, 2, 4, 5, 1, 7, 7, 9>>,
                    <<{"program"}, {"argsCall"}, {"leaf"}, block, {"writeA", "argsCall"}, value,
                      {"argsCall"}, value, block, self>>)
        \cup Filled(<<0, 1, 2, 3, 3, 1>>,
                    <<{"program"}, write \cup {"if"}, {"argsCall", "safeCall"}, value, self, self>>)
        \cup Filled(<<0, 1, 2, 3, 3, 5, 1>>,
                    <<{"program"}, write, call, value, block, self, self>>)
        \cup Filled(<<0, 1, 2, 3, 2, 2, 1>>,
                    <<{"program"}, {"if"}, write \cup {"argsCall"}, value, self \cup {"leaf"}, self, self>>)
        \cup Filled(<<0, 1, 2, 2, 4, 1>>,
                    <<{"program"}, {"if", "argsCall"}, self, write \cup {"recvCall"}, value, self>>)
        \cup Filled(<<0, 1, 2, 2, 4, 4, 6, 1>>,
                    <<{"program"}, {"begin"}, self, {"rescue", "rescueA"}, self,
                      {"rescue", "rescueA"}, self, self>>)
        \cup Filled(<<0, 1, 2, 3, 3, 5, 2>>,
                    <<{"program"}, def, {"begin"}, self, {"rescueA"}, value, self>>)
        \cup Filled(<<0, 1, 2, 3, 2, 5, 1>>,
                    <<{"program"}, {"loop"}, {"inA"}, self, {"inA", "elsif"}, self, self>>)
        \cup Filled(<<0, 1, 2, 3, 1, 5>>, <<{"program"}, def, {"writeA"}, value, def, self>>)
        \cup Filled(<<0, 1, 2, 3, 3, 5, 2, 7>>,
                    <<{"program"}, {"recvCall", "argsCall"}, call, value, block, value, block, self>>)
        \cup Filled(<<0, 1, 2, 3, 4, 2, 6, 1>>,
                    <<{"program"}, {"argsCall"}, {"begin"}, {"inA", "rescueA"}, value, {"block"}, self, self>>)
        \cup Filled(<<0, 1, 2, 3, 2, 5, 6, 5, 1>>,
                    <<{"program"}, {"if"}, {"argsCall", "recvCall"}, self, {"begin"}, assigned, value,
                      self \cup {"inA", "rescueA"}, self>>)
        \cup {t \in TreesOver(5, "program", self \cup call \cup block \cup {"writeA"}, SelfFits) :
                 SelfWhole(t)}

\* Methods in two nested scopes, with one after the scopes; in anonymous classes
\* by what is around their block; under clauses.
MethodTrees ==
    LET scope == {"classA", "sclassSelf", "sclassA", "sclassSend", "def"}
        method == {"def", "defs", "defOnA", "attr", "marker"}
        few == {"def", "defs"}
        program == {"program"}
        stmts == {"stmts"}
        block == {"block"}
    IN  Filled(<<0, 1, 2, 3, 4, 5, 1>>,
               <<program, scope \cup {"classB"}, stmts, scope, stmts, method, {"def"}>>)
        \cup Filled(<<0, 1, 2, 3, 4, 3, 1>>, <<program, scope, stmts, {"if"}, method, {"alias"}, {"attr"}>>)
        \cup Filled(<<0, 1, 2, 3, 4, 5, 6, 3>>,
                    <<program, {"classB"}, stmts, {"evalA", "evalBare", "recvBlock", "newArgsBlock"},
                      block, stmts, method, few>>)
        \cup Filled(<<0, 1, 2, 3, 4, 5, 5>>,
                    <<program, {"casgn", "lvasgn", "argsCall"},
                      {"newBlock", "newArgsBlock", "evalA", "blockCall"}, block, stmts, few, {"def"}>>)
        \cup Filled(<<0, 1, 2, 3, 4, 5, 6, 6>>,
                    <<program, {"newBlock", "recvBlock", "blockCall"}, block, stmts, {"newBlock"}, block, few, few>>)
        \cup Filled(<<0, 1, 2, 3, 4, 5, 6, 7, 4>>,
                    <<program, {"recvBlock", "evalA"}, block, stmts, {"newBlock"}, block, stmts,
                      few \cup {"marker"}, {"sclassSend"}>>)
        \cup Filled(<<0, 1, 2, 3, 4, 5, 6, 7, 6>>,
                    <<program, {"newBlock"}, block, stmts, {"sclassSelf", "sclassSend"}, stmts,
                      {"def"}, stmts, {"attr"}>>)
        \cup Filled(<<0, 1, 2, 3, 4, 5, 6>>, <<program, few, stmts, {"newBlock"}, block, stmts, few>>)
        \cup Filled(<<0, 1, 2, 3, 4, 5, 6, 7, 8, 9>>,
                    <<program, {"recvBlock"}, block, stmts, {"paren"}, stmts, {"newBlock"}, block, stmts, few>>)
        \cup Filled(<<0, 1, 2, 2, 4, 2, 6, 1>>,
                    <<program, {"begin"}, method, {"rescue"}, {"def"}, {"ensure"}, {"def"}, {"def"}>>)
        \cup Filled(<<0, 1, 2, 3, 2, 5>>,
                    <<program, {"begin"}, {"if"}, {"def", "attr", "alias"}, {"ensure", "rescue"}, {"def"}>>)
        \cup Filled(<<0, 1, 2, 2, 1>>, <<program, {"rescueMod"}, {"def", "attr"}, {"leaf"}, {"def"}>>)

\* Two files, one after the other: two definitions or markers each, maybe under
\* a clause.
FileTrees ==
    LET found == {"def", "attr", "marker"}
    IN  Filled(<<0, 1, 1>>, <<{"program"}, found, found>>)
        \cup Filled(<<0, 1, 2, 3, 2>>, <<{"program"}, {"begin"}, {"rescue"}, {"def", "marker"}, {"def"}>>)
        \cup Filled(<<0, 1, 2, 3, 1>>, <<{"program"}, {"begin"}, {"ensure"}, {"def"}, {"def"}>>)
        \cup Filled(<<0, 1, 2, 3>>, <<{"program"}, {"newBlock"}, {"block"}, {"def"}>>)

\* Groups in groups, methods, plain blocks and helpers, with items before, in and
\* after the inner one; uses of subject; statements after one another in every
\* kind of list.
GroupTrees ==
    LET open == <<{"program"}, {"group"}, {"block"}, {"stmts"}>>
        body == <<{"block"}, {"stmts"}>>
    IN  Filled(<<0, 1, 2, 3, 4, 4, 6, 7, 8, 8, 4>>,
               open \o <<{"bangA", "letA"}, {"group", "include", "example", "each", "numGroup", "letB"}>>
                    \o body \o <<{"bangA", "bangSendA", "letB", "subjectC", "example"}, {"bangA", "callA", "example"},
                               {"callA", "letB", "example"}>>)
        \cup Filled(<<0, 1, 2, 3, 4, 5, 6, 7, 8, 9, 10, 4>>,
                    open \o <<{"each", "example", "letB", "include"}>> \o body \o <<{"sharedGroup"}>>
                         \o body \o <<{"letB", "bangA", "subjectC", "subject"}, {"letA", "subject"}>>)
        \cup Filled(<<0, 1, 2, 2, 1, 5, 6, 7, 7>>,
                    <<{"program"}, {"class", "group", "numGroup"}, {"subjectC"}, {"leaf"},
                      {"group", "numGroup", "each"}>> \o body \o
                      <<{"letA", "group"}, {"bangSendA"}>>)
        \cup Filled(<<0, 1, 2, 2, 1, 5, 6, 6>>,
                    <<{"program"}, {"class", "group", "numGroup"}, {"subjectC"}, {"leaf"}, {"class"}, {"stmts"},
                      {"letA", "group"}, {"bangSendA"}>>)
        \cup Filled(<<0, 1, 2, 3, 4, 5, 6, 7, 4, 9, 10, 11>>,
                    <<{"program"}, {"each", "group"}>> \o body \o <<{"hook", "letB"}>> \o body \o
                      <<{"letA"}, {"group"}>> \o body \o <<{"letB", "bangA"}>>)

\* A group or a helper before the condition in the text, and in it.
ModifiedTrees(conditions) ==
    LET body == <<{"block"}, {"stmts"}>>
        item == {"bangA", "callA", "letB"}
    IN  Filled(<<0, 1, 2, 2, 4, 5, 6, 6, 1>>,
               <<{"program"}, {"modifierIf"}, conditions, {"group", "include"}>> \o body
                    \o <<{"bangA"}, item, {"callA", "group"}>>)
        \cup Filled(<<0, 1, 2, 3, 4, 5, 5, 2, 1>>,
                    <<{"program"}, {"modifierIf"}, {"group"}>> \o body \o <<{"bangA"}, item, item, item>>)

\* A call of the helper in the condition.
ModifiedCalls == With(ModifiedTrees({"callA"}), {{}})

SubjectTrees ==
    LET body == <<{"block"}, {"stmts"}>>
        subject == {"subject", "subjectC"}
    IN  Filled(<<0, 1, 2, 3, 4, 4, 6, 7, 8, 8, 10, 11, 12>>,
               <<{"program"}, {"group", "sharedGroup"}>> \o body \o <<subject, {"sharedGroup", "hook", "each"}>>
                   \o body \o <<{"letA", "subjectC", "subject"}, {"example", "hook", "numGroup"}>>
                   \o body \o <<{"subjectRef"}>>)

LineTrees ==
    LET open == <<{"program"}, {"group"}, {"block"}, {"stmts"}>>
        concept == {"example", "exampleLine", "letA", "hook", "subject"}
        few == {"exampleLine", "example"}
    IN  Filled(<<0, 1, 2, 3, 4, 4, 4>>, open \o <<concept, concept, concept>>)
        \cup Filled(<<0, 1, 1, 3, 3, 5, 5, 3, 8, 8>>,
                    <<{"program"}, {"hook"}, {"if"}, {"leaf"}, {"then"}, few, {"hook"}, {"else"}, few, {"example"}>>)
        \cup Filled(<<0, 1, 2, 2, 4, 4, 2, 7, 7>>,
                    <<{"program"}, {"if"}, {"leaf"}, {"then"}, {"hook"}, few, {"else"}, few, few>>)
        \cup Filled(<<0, 1, 2, 2, 4, 4, 4>>,
                    <<{"program"}, {"unless", "while"}, {"leaf"}, {"then"}, few, {"hook"}, few>>)
        \cup Filled(<<0, 1, 2, 2, 4, 4, 4>>,
                    <<{"program"}, {"case"}, {"leaf"}, {"when"}, few, {"hook"}, few>>)
        \cup Filled(<<0, 1, 2, 3, 3, 2, 6, 6, 6, 9, 9, 2, 12, 12, 2, 15, 15>>,
                    <<{"program"}, {"begin"}, {"main"}, few, {"hook"}, {"rescue"}, few, {"hook"}, {"rescue"}, few, {"hook"},
                      {"beginElse"}, {"hook"}, few, {"ensure"}, few, {"hook"}>>)
        \cup Filled(<<0, 1, 2, 3, 3, 1>>, <<{"program"}, {"begin"}, {"main"}, few, {"hook"}, {"hook", "group"}>>)

\* Examples in the `else` of an `unless`.
UnlessElses ==
    With(Filled(<<0, 1, 2, 2, 4, 2, 6, 6>>,
                <<{"program"}, {"unless"}, {"leaf"}, {"then"}, {"example"},
                  {"unlessElse"}, {"example", "hook"}, {"example"}>>), {{}})

\* Bodies off their column in one another, in assignments, methods and the parts
\* of a begin.
WidthTrees ==
    LET list == {"then", "shifted"}
        shifted == {"shifted"}
        while == {"while", "whileAllowed"}
    IN  Filled(<<0, 1, 2, 3, 4, 5>>, <<{"program"}, {"while"}, list, while, list, {"leaf"}>>)
        \cup Filled(<<0, 1, 2, 3, 4, 5, 6>>,
                    <<{"program"}, {"assign"}, {"while"}, list, while, shifted, {"leaf"}>>)
        \cup Filled(<<0, 1, 2, 3, 4, 5, 6>>,
                    <<{"program"}, {"modifier"}, {"def"}, {"stmts", "shiftedBody"}, {"while"}, list, {"leaf"}>>)
        \cup Filled(<<0, 1, 2, 3, 4, 5, 2, 7, 8, 9, 10, 2, 12, 13>>,
                    <<{"program"}, {"begin"}, {"main", "shifted"}, {"while"}, shifted, {"leaf"},
                      {"rescue"}, list, {"while"}, shifted, {"leaf"}, {"ensure"}, list, {"leaf"}>>)
        \cup Filled(<<0, 1, 2, 3, 2, 5, 6, 5, 8, 9, 2, 11, 12>>,
                    <<{"program"}, {"begin"}, {"main", "shifted"}, {"leaf"}, {"rescue"}, list, {"leaf"},
                      {"rescue"}, shifted, {"leaf"}, {"beginElse"}, shifted, {"leaf"}>>)

\* Characters of several bytes before, in and after what is moved.
WideTrees ==
    LET end == {"leaf", "wide"}
    IN  Filled(<<0, 1, 1, 3, 4, 4, 6, 7>>,
               <<{"program"}, end, {"while"}, {"then", "shifted"}, end, {"while"}, {"shifted"}, end>>)
        \cup Filled(<<0, 1, 2, 3, 2, 5, 6, 7, 8>>,
                    <<{"program"}, {"begin"}, {"shifted"}, end, {"rescue"}, {"then"}, {"while"}, {"shifted"}, end>>)

Everything ==
    NestingTrees(5, {"loop", "rescueMod", "rescue", "leaf"})
    \cup NestingTrees(4, {"loop", "elsif", "modifierIf", "blockCall", "rescueMod", "rescue", "leaf"})
    \cup With(TreesOver(4, "begin", {"rescue", "direct", "super", "leaf", "blockCall"}, InPlace), {{}})
    \cup NestingTrees(4, {"loop", "blockCall", "blockPass", "lambda"})
    \cup With(AccessTrees, {{}})
    \cup With(SelfTrees, {{}})
    \cup With(MethodTrees, {{}})
    \cup With(GroupTrees, {{"CountSubjects"}})
    \cup With(ModifiedTrees({"leaf", "callA"}), {{}})
    \cup With(SubjectTrees, SUBSET {"NamedOnly", "IgnoreSharedExamples"})
    \cup With(LineTrees, {{}})
    \cup With(FileTrees, {{"files"}, {"files", "another"}, {"files", "AllowedCrossFilePaths"},
                          {"files", "AllowedCrossFilePaths", "another"}})
    \cup With(WideTrees, {{"rounds", "multibyte", "Autocorrect"},
                          {"rounds", "multibyte", "Autocorrect", "another"}})
    \cup With(WidthTrees, {{"rounds"}, {"rounds", "Autocorrect"}, {"rounds", "Autocorrect", "another"},
                           {"rounds", "Autocorrect", "AllowedPatterns"},
                           {"rounds", "Autocorrect", "AllowedPatterns", "another"}})

MCShapes == Everything

MCRules == {abcSize, emptyLines, indentationWidth, blockNesting, hashSyntax, rescueEnsure}

MCMask == [r \in MCRules |->
    CASE r = abcSize          -> {ENTER.call, ENTER.def}
      [] r = emptyLines       -> ENTER_ALL \cup {LEAF}
      [] r = indentationWidth -> ALL
      [] r = blockNesting     -> ENTER_ALL \cup {LEAVE, RESCUE}
      [] r = hashSyntax       -> ENTER_ALL \cup {LEAVE}
      [] r = rescueEnsure     -> {ENTER.other}]

MCReports == [r \in MCRules |->
    CASE r = abcSize          -> {"blockCall"}
      [] r = emptyLines       -> {"blockCall", "loop", "leaf"}
      [] r = indentationWidth -> {"super", "blockCall", "rescue"}
      [] r = blockNesting     -> {"rescue", "super"}
      [] r = hashSyntax       -> {"super", "loop"}
      [] r = rescueEnsure     -> {"rescueMod"}]

MCFrames == [r \in MCRules |->
    CASE r \in {indentationWidth, blockNesting} -> "clause"
      [] r = hashSyntax                         -> "branch"
      [] OTHER                                  -> "none"]

=============================================================================
