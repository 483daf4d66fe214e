---------------------------- MODULE MCPublicBuild ----------------------------
(***************************************************************************)
(* A maintainer's checkout: everything current but for at most MaxFaults   *)
(* files, each of which has one of the texts that merges, stale checkouts, *)
(* other line endings and interrupted writes leave.                        *)
(***************************************************************************)
EXTENDS PublicBuild, FiniteSets

CONSTANTS
    MaxFaults,      \* bound: files that are not current at the start
    MayBeMissing,   \* files that may not exist at the start
    Stale           \* a revision nothing has any more

MCBodies == {"app", "app2", "page", "worker", "torn", "empty"}

Defining(body) == [Bare(body) EXCEPT !.defs = 1, !.stamp = Stale]
Page == [Bare("page") EXCEPT !.defs = 1]

Unbuilt ==
    [f \in Files |->
       CASE f \in {"source", "js/script.js"} -> Bare("app")
         [] f \in {"template", "sw.js"} -> Defining("worker")
         [] f = "js/version.js" -> Defining("page")
         [] f = "index.html" -> Page
         [] OTHER -> Bare("page")]

CurrentDisk ==
    LET rev == DeployRevision(Unbuilt, Unbuilt["js/script.js"]) IN
    [f \in Files |-> IF f \in {"sw.js", "index.html", "js/version.js"}
                     THEN Stamped(Unbuilt[f], rev) ELSE Unbuilt[f]]

WithMarkers(text) == [text EXCEPT !.conflict = TRUE]
WithCrLf(text) == [text EXCEPT !.crlf = TRUE]

\* What an edit leaves: another text, an older stamp, or a merge
MCVariants ==
    [f \in Files |->
       CASE f = "source" -> {Bare("app2"), WithMarkers(Bare("app"))}
         [] f = "template" -> {Defining("app2"), WithMarkers(Defining("worker"))}
         [] f = "js/script.js" -> {Bare("app2"), WithMarkers(Bare("app"))}
         [] f = "sw.js" -> {Defining("worker"), WithMarkers([Defining("worker") EXCEPT !.defs = 2])}
         [] f = "index.html" -> {Stamped(Page, Stale), WithMarkers(Page)}
         [] f = "js/version.js" -> {Defining("page"), WithMarkers(Defining("page"))}
         [] OTHER -> {Bare("app2"), WithMarkers(Bare("page"))}]

\* What a checkout may have besides
FaultyTexts(f) ==
    MCVariants[f] \cup
    (CASE f = "template" -> {Bare("worker"), [Defining("worker") EXCEPT !.defs = 2],
                             WithCrLf(Defining("worker"))}
       [] f = "js/script.js" -> {WithCrLf(Bare("app")), Torn}
       [] f = "sw.js" -> {Bare("worker"), Torn}
       [] f = "index.html" -> {Page, Bare("page"), Empty, WithCrLf(CurrentDisk[f])}
       [] f = "js/version.js" -> {Bare("page"), Empty}
       [] f \in {"css/style.css", "manifest.json"} -> {WithCrLf(Bare("page"))}
       [] OTHER -> {})
    \cup (IF f \in MayBeMissing THEN {NoFile} ELSE {})

MCInitialDisks ==
    UNION {{[f \in Files |-> IF f \in faults THEN texts[f] ELSE CurrentDisk[f]] :
              texts \in {t \in [faults -> UNION {FaultyTexts(f) : f \in faults}] :
                           \A f \in faults : t[f] \in FaultyTexts(f)}} :
           faults \in {s \in SUBSET Files : Cardinality(s) <= MaxFaults}}
=============================================================================
