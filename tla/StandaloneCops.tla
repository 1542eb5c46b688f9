--------------------------- MODULE StandaloneCops ---------------------------
(***************************************************************************)
(* What the bundled run of shirobai promises to a RuboCop team: every cop  *)
(* that inspects a file obtains exactly the result its own standalone      *)
(* entry point (`Shirobai.check_*`) computes from the file's source and    *)
(* the team's config.  No bundle, no token, no cache, no slot mask.        *)
(***************************************************************************)
CONSTANTS Contents, Configs, Keys, None

VARIABLES
    file,     \* None, or the [content, config] under investigation
    reply     \* None, or the [key, value] the last cop obtained

\* The standalone result depends on the source and the config alone.
Computed(content, config) == [content |-> content, config |-> config]

Init == file = None /\ reply = None

\* RuboCop starts an investigation: the next file, or the same file again in
\* the autocorrect loop.
Investigate ==
    /\ \E content \in Contents, config \in Configs :
           file' = [content |-> content, config |-> config]
    /\ reply' = None

Inspect(k) ==
    /\ file # None
    /\ reply' = [key |-> k, value |-> Computed(file.content, file.config)]
    /\ UNCHANGED file

\* A cop that raises obtains nothing; RuboCop records the error and goes on.
Fail ==
    /\ file # None
    /\ reply' = None
    /\ UNCHANGED file

Next == Investigate \/ Fail \/ \E k \in Keys : Inspect(k)

Spec == Init /\ [][Next]_<<file, reply>>
=============================================================================
