----------------------------- MODULE ParseCache -----------------------------
(***************************************************************************)
(* The thread-local parse cache of shirobai-core                           *)
(* (crates/shirobai-core/src/rules/parse_cache.rs) with the token buffer   *)
(* that pm_lex.rs fills.  One thread: CACHE and SPARE are thread locals.   *)
(*                                                                         *)
(* A parse is represented by the source that owns it (self_cell ties the   *)
(* two together), a token buffer by the sequence of sources whose tokens   *)
(* were pushed onto it and not cleared since: the tokens of s are <<s>>,   *)
(* anything longer is residue of an earlier file.                          *)
(***************************************************************************)
EXTENDS Naturals, Sequences

CONSTANTS Sources,    \* the distinct contents a file can have
          None        \* a value that is none of the values below

VARIABLES
    cache,      \* CACHE: None, or the entry [owner, tokens]
    spare,      \* SPARE: None, or a retired token buffer
    closure,    \* None, or what the closure now running was called with
    visit,      \* history: the calls on the current source since it changed
    allocated   \* history: token buffers allocated from the heap

vars == <<cache, spare, closure, visit, allocated>>

Buffers == Seq(Sources)
Entries == [owner : Sources, tokens : Buffers \cup {None}]
Apis    == {"plain", "tokens"}   \* with_shared_parse, with_parsed_and_tokens
Calls   == [source : Sources, api : Apis]
Views   == [asked : Sources, owner : Sources, tokens : Buffers \cup {None}]
Visits  == [source : Sources \cup {None}, parses : Nat, first : Apis]

ASSUME NoneAssumption ==
    /\ None \notin Sources
    /\ None \notin Buffers
    /\ None \notin Entries
    /\ None \notin Calls
    /\ None \notin Views

-----------------------------------------------------------------------------

Init ==
    /\ cache = None
    /\ spare = None
    /\ closure = None
    /\ visit = [source |-> None, parses |-> 0, first |-> "plain"]
    /\ allocated = 0

\* Mutants of three operators below: the evicted buffer is dropped, the reused
\* buffer is not cleared, a tokens entry does not serve a plain query.
SpareForgotten  == spare
Uncleared(buf)  == buf
TokenFreeHit(s) == cache # None /\ cache.tokens = None /\ cache.owner = s

\* recover_spare: the buffer of an evicted entry, when it has one, becomes the
\* spare; an entry without tokens leaves the spare as it was.
RecoverSpare == IF cache # None /\ cache.tokens # None THEN cache.tokens ELSE spare

\* parse_with_lex_into clears the buffer it is given, then lexes s into it.
Cleared(buf) == <<>>
LexInto(buf, s) == Append(Cleared(buf), s)

\* The visit after a call on s that ran `n` parses.
Visited(s, n, api) ==
    IF visit.source = s THEN [visit EXCEPT !.parses = @ + n]
    ELSE [source |-> s, parses |-> n, first |-> api]

PlainHit(s)  == cache # None /\ cache.owner = s
TokensHit(s) == cache # None /\ cache.tokens # None /\ cache.owner = s

\* ensure_parsed: any entry of the same source serves, with tokens or without.
EnsureParsed(s) ==
    \/ /\ PlainHit(s)
       /\ visit' = Visited(s, 0, "plain")
       /\ UNCHANGED <<cache, spare, allocated>>
    \/ /\ ~PlainHit(s)
       /\ spare' = RecoverSpare
       /\ cache' = [owner |-> s, tokens |-> None]
       /\ visit' = Visited(s, 1, "plain")
       /\ UNCHANGED allocated

\* ensure_parsed_with_tokens: an entry without tokens is a miss.  The rebuild
\* takes the spare buffer, or allocates one, and lexes into it.
EnsureParsedWithTokens(s) ==
    \/ /\ TokensHit(s)
       /\ visit' = Visited(s, 0, "tokens")
       /\ UNCHANGED <<cache, spare, allocated>>
    \/ /\ ~TokensHit(s)
       /\ LET retired == RecoverSpare
              buf == IF retired = None THEN <<>> ELSE retired
          IN  /\ cache' = [owner |-> s, tokens |-> LexInto(buf, s)]
              /\ allocated' = allocated + (IF retired = None THEN 1 ELSE 0)
       /\ spare' = None
       /\ visit' = Visited(s, 1, "tokens")

\* with_parsed, with_parsed_and_comments, data_start and comment_ranges all go
\* through with_shared_parse: both cells are borrowed for the whole closure.
WithSharedParse(s) ==
    /\ closure = None
    /\ EnsureParsed(s)
    /\ closure' = [source |-> s, api |-> "plain"]

WithParsedAndTokens(s) ==
    /\ closure = None
    /\ EnsureParsedWithTokens(s)
    /\ closure' = [source |-> s, api |-> "tokens"]

\* The closure returns; both borrows end.
Return ==
    /\ closure # None
    /\ closure' = None
    /\ UNCHANGED <<cache, spare, visit, allocated>>

\* The closure calls a parse_cache function itself: CACHE is already borrowed,
\* borrow_mut panics before anything is looked up, and the unwinding drops the
\* outer borrows.  The thread lives on: the panic surfaces as a Ruby exception.
NestedCall(s) ==
    /\ closure # None
    /\ closure' = None
    /\ UNCHANGED <<cache, spare, visit, allocated>>

Next ==
    \/ \E s \in Sources : \/ WithSharedParse(s)
                          \/ WithParsedAndTokens(s)
                          \/ NestedCall(s)
    \/ Return

Spec == Init /\ [][Next]_vars

-----------------------------------------------------------------------------

\* Every variable has its type.
TypeOK ==
    /\ cache \in Entries \cup {None}
    /\ spare \in Buffers \cup {None}
    /\ closure \in Calls \cup {None}
    /\ visit \in Visits
    /\ allocated \in Nat

\* A running closure reads an entry of the source it was called with, and when
\* it asked for tokens the entry carries the tokens of that source alone, with
\* no residue of the file whose buffer was reused ("switching source rebuilds
\* tokens without residue").
ClosureSeesItsParse ==
    closure # None =>
        /\ cache # None
        /\ cache.owner = closure.source
        /\ closure.api = "tokens" => cache.tokens = <<closure.source>>

\* "The intended call order is that the first cop to touch a file is the token
\* consumer": the file is then parsed once whatever is called afterwards.  In
\* any other order one rebuild is the whole tax.
ParsesPerFile ==
    visit.parses <= (IF visit.first = "tokens" THEN 1 ELSE 2)

\* The single spare is enough: over any sequence of files a thread allocates
\* one token buffer, which is in the entry or in the spare, never in both.
OneTokenBuffer ==
    /\ allocated <= 1
    /\ cache # None /\ cache.tokens # None => spare = None

\* What the running closure can see of the entry.
View == IF closure = None THEN None
        ELSE [asked |-> closure.source, owner |-> cache.owner,
              tokens |-> IF closure.api = "tokens" THEN cache.tokens ELSE None]

Service == INSTANCE ParseService WITH view <- View

\* The cache is transparent: every closure sees what a parse made for it alone
\* would show.
ImplementsParseService == Service!Spec

=============================================================================
