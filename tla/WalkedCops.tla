----------------------------- MODULE WalkedCops -----------------------------
(***************************************************************************)
(* The rules of cops that keep state across nodes, driven together by the  *)
(* shared walk: every step is a hook of the walk and what each rule makes  *)
(* of it.                                                                  *)
(***************************************************************************)
EXTENDS BlockNesting, UselessAccessModifier, RedundantSelf, DuplicateRegistry, RSpecScopes,
        IndentationWidth

\* These rules are among those of the walk; some keep a frame for a clause, too.
ASSUME RulesAssumption == KeepClauses # {}

copVars == <<nesting, access, selfs, methods, rspec, widths>>
fileVars == <<path, registry>>

CopsInit ==
    /\ WalkInit /\ NestingInit /\ AccessInit /\ SelfInit /\ MethodsInit /\ RSpecInit
    /\ WidthsInit /\ RegistryInit

OnBranch == EnterBranch /\ NestingEnter /\ AccessEnter /\ SelfEnter /\ MethodsEnter /\ RSpecEnter
            /\ WidthsEnter
OnLeave == LeaveBranch /\ NestingLeave /\ AccessLeave /\ SelfLeave /\ MethodsLeave /\ RSpecLeave
           /\ UNCHANGED widths
OnLeaf == EnterLeaf /\ NestingLeaf /\ UNCHANGED <<access, selfs, methods, rspec, widths>>
OnDirect == VisitDirect /\ UNCHANGED copVars
OnRescue == EnterRescue /\ NestingEnter /\ AccessRescue /\ SelfRescue
            /\ RSpecRescue /\ UNCHANGED <<methods, widths>>
OnRescueLeave == LeaveRescue /\ NestingLeave /\ AccessRescueLeave /\ SelfRescueLeave
                 /\ RSpecRescueLeave /\ UNCHANGED <<methods, widths>>

OnHook == (OnBranch \/ OnLeave \/ OnLeaf \/ OnDirect \/ OnRescue \/ OnRescueLeave) /\ UNCHANGED fileVars

\* The bundled run is over: the wrapper reads its slot (followed for the trees
\* that are for this).
OnInvestigation == "files" \in tree.options /\ Investigate /\ UNCHANGED <<nesting, access, selfs, rspec, widths>>

\* Another walk with fresh rules.
WalkAgain ==
    /\ "another" \in tree.options
    /\ tree' \in {t \in Shapes : t.options = tree.options \ {"another"}}
    /\ todo' = <<<<"visit", 1>>>>
    /\ frames' = [r \in Rules |-> <<>>] /\ reports' = [r \in Rules |-> <<>>]
    /\ nesting' = NestingFresh /\ access' = AccessFresh /\ selfs' = SelfFresh
    /\ methods' = MethodsFresh /\ rspec' = RSpecFresh

\* The next file of the run, if any: for new instances of the cops, or the same.
NextFile ==
    /\ todo = <<>> /\ registry.seen
    /\ WalkAgain
    /\ NextWidths \/ widths' = WidthsFresh
    /\ path' = path + 1 /\ registry' = [registry EXCEPT !.seen = FALSE]

\* The file again, after a round of corrections.
NextRound ==
    /\ todo = <<>> /\ "rounds" \in tree.options
    /\ WalkAgain /\ NextWidths
    /\ UNCHANGED fileVars

CopsNext == OnHook \/ OnInvestigation \/ NextFile \/ NextRound

CopsSpec == CopsInit /\ [][CopsNext]_<<walkVars, copVars, fileVars>>

-----------------------------------------------------------------------------

\* Every variable has its type; the counters the rules keep as usize
\* (block_nesting.rs, duplicate_methods.rs) never go below zero.
CopsTypeOK ==
    /\ TypeOK
    /\ nesting.level \in Nat /\ nesting.deepest \in Nat /\ nesting.ignoring \in BOOLEAN
    /\ access.macros \in Seq([{"condition", "block", "other"} -> BOOLEAN])
    /\ access.out \subseteq Nodes \X {Kind(n) : n \in Nodes}
    /\ selfs.owners \in Seq(BOOLEAN) /\ selfs.pushed \in Seq(BOOLEAN)
    /\ selfs.named \subseteq Nodes /\ selfs.above \in Seq(Nodes) /\ selfs.out \subseteq Nodes
    /\ {methods.if, methods.sclassAny, methods.sclassNonself} \subseteq Nat
    /\ \A i \in DOMAIN methods.frames : methods.frames[i].node \in Nodes
    /\ rspec.topSpecs \in Nat /\ rspec.open \in Seq(DOMAIN rspec.scopes)
    /\ rspec.calls \in Seq(Nodes) /\ rspec.named \cup rspec.variables \subseteq Nodes
    /\ widths.registered \cup widths.ranges \subseteq Nat \X Nat
    /\ path \in Nat /\ registry.seen \in BOOLEAN

=============================================================================
