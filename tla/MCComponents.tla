----------------------------- MODULE MCComponents -----------------------------
(***************************************************************************)
(* The components that are modelled each on its own, in one run: `focus' is   *)
(* the one that moves, the others stay as they begin.                        *)
(***************************************************************************)
EXTENDS OfflineFiles, RealtimeQuery, RetryingRequest, ProjectMigrations

CONSTANTS
    a, b, c,
    MaxAtOnce, \* bound: the programs of the page for a recording that are under way at once
    MaxEvents  \* bound: recordings made, connections lost and pages closed, together

VARIABLE focus

vars == <<focus, filesVars, queryVars, requestVars, migrationVars>>

\* Results that insert at one place and at two, remove, and move.
SomeResults == {<<>>, <<b>>, <<a, b>>, <<b, a>>, <<a, b, c>>, <<c, a>>, <<a, c>>}

\* Two batches of one project, the two alike; migrations begun before and after each change of shape,
\* but not at versions 14 to 21, from which Migration22 throws when repeated.
TwoBatches == <<{"p"}, {"q"}>>
SomeStarts == {4, 13, 22, 26, Latest}

FilesMove(A) ==
    /\ focus = "files" /\ A /\ UNCHANGED <<focus, queryVars, requestVars, migrationVars>>
    /\ Cardinality({t \in Slots : tasks'[t].pc # "idle"}) <= MaxAtOnce
    /\ (takes + pauses + reloads)' <= MaxEvents
QueryMoves(A) == focus = "query" /\ A /\ UNCHANGED <<focus, filesVars, requestVars, migrationVars>>
RequestMoves(A) == focus = "request" /\ A /\ UNCHANGED <<focus, filesVars, queryVars, migrationVars>>
MigratorMoves(A) == focus = "migrator" /\ A /\ UNCHANGED <<focus, filesVars, queryVars, requestVars>>

\* What does not move need not begin in more than one way.
Init ==
    /\ focus \in {"files", "query", "request", "migrator"}
    /\ FilesInit /\ (focus = "files" \/ keepOffline)
    /\ QueryInit
    /\ RequestInit /\ (focus = "request" \/ (browserOnline /\ socket = "null"))
    /\ MigrationsInit /\ project["p"] = project["q"]
    /\ focus = "migrator" \/ recorded = Latest
    /\ focus = "migrator" \/ project["p"] = Straight(First, 0, Latest)

Next ==
    \/ FilesMove(FilesNext)
    \/ QueryMoves(QueryNext)
    \/ RequestMoves(RequestNext)
    \/ MigratorMoves(MigrationsNext)

\* The fairness of the components' own specifications.
Fairness ==
    /\ WF_vars(RequestMoves(LoopHead \/ StatusRead \/ TryAgain))
    /\ SF_vars(RequestMoves(UponOnline)) /\ SF_vars(RequestMoves(Serve)) /\ SF_vars(RequestMoves(Answer))
    /\ WF_vars(RequestMoves(BrowserReturns)) /\ SF_vars(RequestMoves(SocketOpens))
    /\ WF_vars(MigratorMoves(MigrationsNext))

Spec == Init /\ [][Next]_vars /\ Fairness

ComponentsTypeOK == FilesTypeOK /\ QueryTypeOK /\ RequestTypeOK /\ MigrationsTypeOK
=============================================================================
