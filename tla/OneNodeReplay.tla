--------------------------- MODULE OneNodeReplay ---------------------------
(***************************************************************************)
(* ReplayOperations for small instances of ReplayStore: snapshots of one   *)
(* tab with at most one node, and mutations that create the node or move   *)
(* it to where it is.  A body is stored the way a client serialised it or  *)
(* the way encodeReplaySnapshot does, so a replay that changes nothing     *)
(* still changes the hash.                                                 *)
(***************************************************************************)
EXTENDS ReplayStore, SequencesExt

CONSTANTS Malformed, Absent

Operations == INSTANCE ReplayOperations WITH ItemsPerTabMax <- 1, EdgesPerTabMax <- 0

Mutation(op) ==
    [op |-> op, entity |-> "node",
     payload |-> [tab |-> "tab", name |-> "short", color |-> "plain", position |-> 0, width |-> Absent]]

\* The tabs of a snapshot, by name.
EmptyTab == <<[id |-> "tab", name |-> "short", items |-> <<>>, edges |-> <<>>]>>
TabsNamed ==
    [empty |-> EmptyTab,
     node  |-> CHOOSE tabs \in Operations!Replayed(EmptyTab, Mutation("CreateNode")) : TRUE]
Named(tabs) == CHOOSE name \in DOMAIN TabsNamed : TabsNamed[name] = tabs

Encoded(name) == [tabs |-> name, form |-> "encoded"]
AsSent(name) == [tabs |-> name, form |-> "client"]

\* With and without the node, in both forms where it matters.
Snapshots == {AsSent("empty"), Encoded("empty"), Encoded("node")}

\* Enough where only the bookkeeping of rows matters: the node exists and stays,
\* or a client has stored a body that does not decode.
OneSnapshot == {Encoded("node")}
OneSnapshotOrMalformed == OneSnapshot \cup {AsSent("malformed")}

\* Both operations have one verdict, and one result at most.
Result(tabs, op) ==
    LET results == Operations!Replayed(tabs, Mutation(op)) IN
    IF results = {} THEN tabs ELSE CHOOSE t \in results : TRUE

Outcome ==
    [name \in DOMAIN TabsNamed, op \in {"CreateNode", "MoveNode"} |->
        [verdict |-> CHOOSE v \in Operations!Verdicts(TabsNamed[name], Mutation(op)) : TRUE,
         tabs    |-> Named(Result(TabsNamed[name], op))]]

MCDryRun(b, r) ==
    Encoded(FoldLeft(LAMBDA tabs, m : Outcome[tabs, r[m].op].tabs, b.tabs, Ordered(r)))

AuthoritativeStep(s, m, r) ==
    LET outcome == Outcome[s.tabs, r[m].op]
        allowed == outcome.verdict.status = "allowed"
    IN  IF s.abort \/ outcome.verdict.status \notin {"allowed", "skip"}
        THEN [s EXCEPT !.abort = TRUE]
        ELSE [s EXCEPT !.tabs = IF allowed THEN outcome.tabs ELSE @,
                       !.status[m] = IF allowed THEN "applied" ELSE "skipped"]

MCAuthoritative(b, r) ==
    LET end == FoldLeft(LAMBDA s, m : AuthoritativeStep(s, m, r),
                        [abort |-> FALSE, tabs |-> b.tabs,
                         status |-> [m \in Accepted(r) |-> "skipped"]], Ordered(r))
    IN  [abort |-> end.abort, body |-> Encoded(end.tabs), status |-> end.status]
=============================================================================
