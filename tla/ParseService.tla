---------------------------- MODULE ParseService ----------------------------
(***************************************************************************)
(* What the parse cache of shirobai-core promises its callers: a closure   *)
(* is run on a parse of exactly the source it named, together with exactly *)
(* that parse's tokens when it asked for tokens, one closure at a time.    *)
(* No cache, no buffer: every call parses afresh.                          *)
(***************************************************************************)
CONSTANTS Sources,    \* the distinct contents a file can have
          None        \* a value that is none of the values below

VARIABLE view         \* what the running closure can see, None when none runs

\* One parse lexes its source once: its token stream is one run of tokens.
TokensOf(s) == <<s>>

Init == view = None

\* A closure starts on a fresh parse of s, with tokens or without.
Serve(s) ==
    /\ view = None
    /\ view' \in {[asked |-> s, owner |-> s, tokens |-> None],
                  [asked |-> s, owner |-> s, tokens |-> TokensOf(s)]}

\* The closure returns, or unwinds.
Finish == view # None /\ view' = None

Next == Finish \/ \E s \in Sources : Serve(s)

Spec == Init /\ [][Next]_view
=============================================================================
