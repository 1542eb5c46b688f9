------------------------- MODULE DuplicateRegistry -------------------------
(***************************************************************************)
(* The Ruby side of Lint/DuplicateMethods                                  *)
(* (lib/shirobai/cop/lint/duplicate_methods.rb): one cop instance sees     *)
(* every file with the same config and replays the events of each into     *)
(* its own registry.  No project index.                                    *)
(***************************************************************************)
EXTENDS DuplicateMethods

VARIABLES
    path,            \* the number of the file under investigation
    registry         \* @definitions, @scopes and @intentionally_redefined

\* log: every definition so far, and whether it was reported.
RegistryInit ==
    /\ path = 1
    /\ registry = [definitions |-> {}, scopes |-> {}, marked |-> {}, log |-> <<>>, seen |-> FALSE]

\* The key: an anonymous block is told apart by its file, too.
Key(e, p) == <<e.prefix, e.name, e.id, IF e.id[1] = "at" THEN p ELSE 0>>

Definition(r, key) == CHOOSE d \in r.definitions : d.key = key
Known(r, key) == \E d \in r.definitions : d.key = key

Register(r, key, p) ==
    [r EXCEPT !.definitions = {d \in @ : d.key # key} \cup {[key |-> key, path |-> p]}]

Logged(r, e, p, offense) ==
    [r EXCEPT !.log = Append(@, [event |-> e, path |-> p, offense |-> offense])]

\* allowed_cross_file_path?, for patterns that match every file or none.
AllowedCrossFile == "AllowedCrossFilePaths" \in tree.options

\* intentional_cross_file_redefinition? or allowed_cross_file_redefinition?
Excused(r, e, defined, p) == defined # p /\ (e.name \in r.marked \/ AllowedCrossFile)

\* One event of the stream.
Replay(r, e, p) ==
    LET key == Key(e, p)
        inScope == <<e.scope, key>>
        logged(s, offense) == Logged(s, e, p, offense)
    IN  CASE e.marks -> [logged(r, FALSE) EXCEPT !.marked = @ \cup {e.name}]
          [] ~e.marks /\ ~Known(r, key) -> logged(Register(r, key, p), FALSE)
          [] ~e.marks /\ Known(r, key) /\ e.scope # 0 /\ inScope \notin r.scopes ->
                [logged(Register(r, key, p), FALSE) EXCEPT !.scopes = @ \cup {inScope}]
          [] ~e.marks /\ Known(r, key) /\ (e.scope = 0 \/ inScope \in r.scopes) ->
                IF Excused(r, e, Definition(r, key).path, p)
                THEN logged(Register(r, key, p), FALSE)
                ELSE logged(r, TRUE)

\* Mutant: the markers of the files before are still there.
MarksKept(r) == r

\* @intentionally_redefined is made anew for every file.
Fresh(r) == [r EXCEPT !.marked = {}]

\* The events of a file, one after the other.
Replayed(r, events, p) ==
    LET done[i \in 0 .. Len(events)] == IF i = 0 THEN r ELSE Replay(done[i - 1], events[i], p)
    IN  done[Len(events)]

\* on_new_investigation, with the result of the walk.
Investigate ==
    /\ todo = <<>> /\ ~registry.seen
    /\ registry' = [Replayed(Fresh(registry), methods.events, path) EXCEPT !.seen = TRUE]
    /\ UNCHANGED <<walkVars, methods, path>>

-----------------------------------------------------------------------------

\* The definitions before position i of a log with the key of the i-th; the
\* registry holds the last of them that was not reported.
KeyAt(log, i) == Key(log[i].event, log[i].path)
Before(log, i) == {j \in 1 .. i - 1 : ~log[j].event.marks /\ KeyAt(log, j) = KeyAt(log, i)}

LastKept(log, i) ==
    LET kept == {j \in Before(log, i) : ~log[j].offense}
    IN  CHOOSE j \in kept : \A k \in kept : k <= j

\* What a log says of its i-th event.
OffenseByHistory(log, i) ==
    LET e == log[i].event
        p == log[i].path
        firstUnder == \A j \in Before(log, i) :
                          log[j].event.scope = e.scope => Before(log, j) = {}
        marked == \E j \in 1 .. i - 1 : /\ log[j].event.marks
                                        /\ log[j].event.name = e.name
                                        /\ log[j].path = p
    IN  /\ ~e.marks /\ Before(log, i) # {}
        /\ ~(e.scope # 0 /\ firstUnder)
        /\ ~(log[LastKept(log, i)].path # p /\ (marked \/ AllowedCrossFile))

\* Across the files of a run, a definition is reported just when its key was
\* defined before, unless it is the first one redefined under a rescue (or under
\* an ensure), or the definition that counts is in another file and either that
\* file is allowed to be redefined or a marker came before in this very file.
OffensesAsHistory ==
    \A i \in DOMAIN registry.log : registry.log[i].offense <=> OffenseByHistory(registry.log, i)

=============================================================================
