----------------------------- MODULE PublicBuild -----------------------------
(***************************************************************************)
(* scripts/build-public-js.mjs: the public script and service worker are   *)
(* generated from private sources, and one revision, the hash of what is   *)
(* published, is stamped into sw.js, index.html and js/version.js.  Files  *)
(* may be edited while the tool runs, and it may be killed at any time.    *)
(*                                                                         *)
(* A text is a record: its body without stamps, the revision stamped into  *)
(* it, the number of places for one (revision definitions; asset addresses *)
(* of a page count as one), whether it has merge conflict markers and      *)
(* whether its lines end in CR LF.  The hash is modelled as the texts it   *)
(* is taken of (no collisions).                                            *)
(***************************************************************************)
EXTENDS Naturals

CONSTANTS
    InitialDisks,   \* the files a maintainer may start from
    Variants,       \* Variants[f]: texts an edit of f may leave
    Bodies,         \* bodies of texts, "torn" and "empty" among them
    Unstamped,      \* the revision of a text without a stamp
    MaxEdits        \* bound: edits of files

\* Paths: the private script and worker, and the files that are published.
Private == {"source", "template"}
Published == {"index.html", "sw.js", "js/script.js", "js/version.js",
              "css/style.css", "manifest.json"}
Files == Private \cup Published

\* A text that is nothing but its body
Bare(body) == [body |-> body, stamp |-> Unstamped, defs |-> 0,
               conflict |-> FALSE, crlf |-> FALSE]

\* The beginning of a text, without a place for a revision; the text of an
\* empty file; and a file that does not exist, whose body is that of no text.
Torn == Bare("torn")
Empty == Bare("empty")
NoFile == Bare("absent")

\* A file that is not as long as it was meant to be
IsCut(text) == text.body \in {"torn", "empty"}

IsText(text) ==
    /\ text = [body |-> text.body, stamp |-> text.stamp, defs |-> text.defs,
               conflict |-> text.conflict, crlf |-> text.crlf]
    /\ text.body \in Bodies
    /\ text.defs = 0 => text.stamp = Unstamped

IsDisk(files) ==
    /\ files = [f \in Files |-> files[f]]
    /\ \A f \in Files : files[f] = NoFile \/ IsText(files[f])

\* The published script is part of every checkout, and nothing here writes the
\* private files.
ASSUME PublicBuildAssumption ==
    /\ {"torn", "empty"} \subseteq Bodies /\ "absent" \notin Bodies
    /\ \A files \in InitialDisks :
          /\ IsDisk(files) /\ files["js/script.js"] # NoFile
          /\ \A f \in Private : ~IsCut(files[f])
    /\ \A f \in Files : \A text \in Variants[f] : text = NoFile \/ IsText(text)
    /\ \A f \in Private : \A text \in Variants[f] : ~IsCut(text)
    /\ NoFile \notin Variants["js/script.js"]

VARIABLES
    disk,           \* disk[f]: the text of every file
    phase,          \* what the tool does next, or "idle", "done"
    flags,          \* its command line
    read,           \* the files as it read them at the start
    revision,       \* nextRevision
    exit,           \* process.exitCode of the last run
    error,          \* why it failed
    edited,         \* history: a file was edited during this run
    cut,            \* history: the last write was cut short, no edit since
    edits           \* how often files were edited

vars == <<disk, phase, flags, read, revision, exit, error, edited, cut, edits>>

Flags == {"--check", "--candidate"}
NothingRead == [f \in Files |-> NoFile]

Phases == {"idle", "script", "revision", "candidate", "check", "precheck",
           "write script", "write worker", "write index", "write version",
           "final", "done"}

-----------------------------------------------------------------------------
(***************************************************************************)
(* Texts.                                                                  *)
(***************************************************************************)
normalizeLineEndings(text) == [text EXCEPT !.crlf = FALSE]

\* Broken variant: the stamp stays in the text that is hashed
StampKept(text) == normalizeLineEndings(text)

\* normalizeIndexHtmlForRevision, normalizeVersionJsForRevision
WithoutStamp(text) == [normalizeLineEndings(text) EXCEPT !.stamp = Unstamped]

\* stampIndexHtml, stampVersionJs, replaceSinglePublicJsRevision
Stamped(text, rev) == [normalizeLineEndings(text) EXCEPT !.stamp = rev]

\* The obfuscator is deterministic (--seed 1): equal sources, equal scripts.
buildPublicScript(source) == [normalizeLineEndings(source) EXCEPT !.stamp = Unstamped]

\* A page without asset addresses is not stamped; an empty text is left alone,
\* and so is one that does not exist.
StampedIfAny(text, rev) ==
    IF text.defs = 0 THEN normalizeLineEndings(text) ELSE Stamped(text, rev)

\* readOptionalTextFile
TextOf(file) == IF file = NoFile THEN Empty ELSE file

\* collectPublishCriticalTextAssetPaths: index.html and sw.js are named, the
\* others are found by listing directories
Listed(files) == {"index.html", "sw.js"} \cup {f \in Published : files[f] # NoFile}

Hashed(f, files, script) ==
    CASE f = "js/script.js" -> script
      [] f \in {"index.html", "js/version.js"} -> WithoutStamp(TextOf(files[f]))
      [] OTHER -> normalizeLineEndings(TextOf(files[f]))

\* buildDeployRevision
DeployRevision(files, script) ==
    [f \in Listed(files) \ {"sw.js"} |-> Hashed(f, files, script)]

\* The texts of a run, from what it read and the revision it computed
NextScript == buildPublicScript(read["source"])
NextWorker == Stamped(read["template"], revision)
NextIndex == StampedIfAny(read["index.html"], revision)
NextVersion == StampedIfAny(read["js/version.js"], revision)

\* Listed files that cannot be read or have conflict markers
Offending(files, except) ==
    {f \in Listed(files) \ except : files[f] = NoFile \/ files[f].conflict}

\* assertNoConflictMarkersInPublishCriticalAssets
NoConflictMarkers(files, except) == Offending(files, except) = {}

\* assertTextHasNoConflictMarkers and readSinglePublicJsRevision
WellFormedWorker(text) == ~text.conflict /\ text.defs = 1

-----------------------------------------------------------------------------
(***************************************************************************)
(* A run of the tool.                                                      *)
(***************************************************************************)
BuildInit ==
    /\ disk \in InitialDisks
    /\ phase = "idle" /\ flags = {}
    /\ read = NothingRead /\ revision = Unstamped
    /\ exit = 0 /\ error = "none" /\ edited = FALSE /\ cut = FALSE /\ edits = 0

Ends(code, reason) == phase' = "done" /\ exit' = code /\ error' = reason

\* main: the six files are read together; three of them have to exist.
Start ==
    /\ phase = "idle"
    /\ flags' \in SUBSET Flags
    /\ read' = disk /\ edited' = FALSE
    /\ IF \E f \in {"source", "template", "sw.js"} : disk[f] = NoFile
       THEN Ends(1, "missing")
       ELSE phase' = "script" /\ exit' = 0 /\ error' = "none"
    /\ UNCHANGED <<disk, revision, cut, edits>>

\* The obfuscator refuses what is no script, or is not installed.
BuildScript ==
    /\ phase = "script"
    /\ \/ ~read["source"].conflict /\ phase' = "revision" /\ UNCHANGED <<exit, error>>
       \/ read["source"].conflict /\ Ends(1, "source")
       \/ Ends(1, "tool")
    /\ UNCHANGED <<disk, flags, read, revision, edited, cut, edits>>

\* buildServiceWorkerText
UsableTemplate(text) == WellFormedWorker(text)

\* stampVersionJs; it is not called for an empty text.
UsableVersion(text) == text \in {NoFile, Empty} \/ text.defs # 0

\* parseArgs: a candidate is written even when a check is asked for
NextPhase ==
    IF "--candidate" \in flags THEN "candidate"
    ELSE IF "--check" \in flags THEN "check" ELSE "precheck"

\* buildDeployRevision reads the published files as they are by now.
ComputeRevision ==
    /\ phase = "revision"
    /\ revision' = DeployRevision(disk, NextScript)
    /\ IF ~UsableTemplate(read["template"]) THEN Ends(1, "template")
       ELSE IF ~UsableVersion(read["js/version.js"]) THEN Ends(1, "version")
       ELSE phase' = NextPhase /\ UNCHANGED <<exit, error>>
    /\ UNCHANGED <<disk, flags, read, edited, cut, edits>>

\* The candidate is a file outside the checkout; nothing here reads it.
WriteCandidate ==
    /\ phase = "candidate"
    /\ Ends(0, "none") \/ Ends(1, "write")
    /\ UNCHANGED <<disk, flags, read, revision, edited, cut, edits>>

\* Broken variant: the stamps in index.html and version.js are not compared
StaleArtifacts ==
    {f \in {"js/script.js", "sw.js"} :
       read[f] # IF f = "sw.js" THEN NextWorker ELSE NextScript}

\* publicScriptChanged, serviceWorkerChanged, indexHtmlChanged, versionJsChanged
StaleFiles ==
    {f \in {"js/script.js", "sw.js", "index.html", "js/version.js"} :
       read[f] # CASE f = "js/script.js" -> NextScript
                   [] f = "sw.js" -> NextWorker
                   [] f = "index.html" -> NextIndex
                   [] f = "js/version.js" -> NextVersion}

Verify ==
    /\ phase = "check"
    /\ IF ~WellFormedWorker(read["sw.js"]) THEN Ends(1, "worker")
       ELSE IF ~NoConflictMarkers(disk, {}) THEN Ends(1, "conflict")
       ELSE IF StaleFiles # {} THEN Ends(1, "drift") ELSE Ends(0, "none")
    /\ UNCHANGED <<disk, flags, read, revision, edited, cut, edits>>

\* What a build writes anew may have conflict markers before
Replaceable == {"js/script.js", "sw.js"}

Precheck ==
    /\ phase = "precheck"
    /\ IF NoConflictMarkers(disk, Replaceable)
       THEN phase' = "write script" /\ UNCHANGED <<exit, error>>
       ELSE Ends(1, "conflict")
    /\ UNCHANGED <<disk, flags, read, revision, edited, cut, edits>>

\* What is left of a text when its write is cut short: fs.writeFile empties the
\* file and then writes the text from its beginning.
CutShort(text) == {Empty, Torn, [text EXCEPT !.body = "torn"]} \ {text}

CutWrite(f, text) ==
    /\ \E rest \in CutShort(text) : disk' = [disk EXCEPT ![f] = rest]
    /\ cut' = ~edited

\* writeFileLoud, when the text differs from what was read; a write may fail
\* before it changes the file, or after.
WriteFile(f, text, next) ==
    /\ \/ f \notin StaleFiles /\ phase' = next /\ UNCHANGED <<disk, cut, exit, error>>
       \/ /\ f \in StaleFiles
          /\ \/ /\ disk' = [disk EXCEPT ![f] = text] /\ cut' = FALSE
                /\ phase' = next /\ UNCHANGED <<exit, error>>
             \/ UNCHANGED <<disk, cut>> /\ Ends(1, "write")
             \/ CutWrite(f, text) /\ Ends(1, "write")
    /\ UNCHANGED <<flags, read, revision, edited, edits>>

WriteScript == phase = "write script" /\ WriteFile("js/script.js", NextScript, "write worker")
WriteWorker == phase = "write worker" /\ WriteFile("sw.js", NextWorker, "write index")
WriteIndex == phase = "write index" /\ WriteFile("index.html", NextIndex, "write version")
WriteVersion == phase = "write version" /\ WriteFile("js/version.js", NextVersion, "final")

\* Broken variant: a build that wrote its files is done
FinalCheckSkipped ==
    /\ phase = "final" /\ Ends(0, "none")
    /\ UNCHANGED <<disk, flags, read, revision, edited, cut, edits>>

\* The last look at what has been published.
FinalCheck ==
    /\ phase = "final"
    /\ IF disk["sw.js"] = NoFile \/ ~NoConflictMarkers(disk, {}) THEN Ends(1, "conflict")
       ELSE IF ~WellFormedWorker(disk["sw.js"]) THEN Ends(1, "worker")
       ELSE Ends(0, "none")
    /\ UNCHANGED <<disk, flags, read, revision, edited, cut, edits>>

\* The process ends: what it had read is gone.
Exits ==
    /\ phase' = "idle" /\ flags' = {} /\ read' = NothingRead
    /\ revision' = Unstamped /\ exit' = 0 /\ error' = "none" /\ edited' = FALSE
    /\ UNCHANGED edits

Return == phase = "done" /\ UNCHANGED <<disk, cut>> /\ Exits

-----------------------------------------------------------------------------
(***************************************************************************)
(* The surroundings: edits at any time, and the end of the process at any  *)
(* time, in the middle of a write as well.                                 *)
(***************************************************************************)
EditFile ==
    /\ edits < MaxEdits /\ edits' = edits + 1
    /\ \E f \in Files : \E text \in Variants[f] : disk' = [disk EXCEPT ![f] = text]
    /\ edited' = (edited \/ phase # "idle") /\ cut' = FALSE
    /\ UNCHANGED <<phase, flags, read, revision, exit, error>>

\* The file a phase writes, and its text
Writes ==
    {<<"write script", "js/script.js", NextScript>>, <<"write worker", "sw.js", NextWorker>>,
     <<"write index", "index.html", NextIndex>>, <<"write version", "js/version.js", NextVersion>>}

Killed ==
    /\ phase \notin {"idle", "done"}
    /\ Exits
    /\ \/ UNCHANGED <<disk, cut>>
       \/ \E w \in Writes : w[1] = phase /\ w[2] \in StaleFiles /\ CutWrite(w[2], w[3])

BuildNext ==
    \/ Start \/ BuildScript \/ ComputeRevision \/ WriteCandidate \/ Verify \/ Precheck
    \/ WriteScript \/ WriteWorker \/ WriteIndex \/ WriteVersion \/ FinalCheck
    \/ Return \/ EditFile \/ Killed

BuildSpec == BuildInit /\ [][BuildNext]_vars

-----------------------------------------------------------------------------
(***************************************************************************)
(* Properties                                                              *)
(***************************************************************************)
\* What the tool can tell of a checkout: the script is built from the source,
\* the worker from its template, everything with a place for a revision carries
\* that of what is published, and no file has conflict markers.  Whether a page
\* or a version file is whole it cannot tell.
Consistent(files) ==
    LET current == DeployRevision(files, files["js/script.js"]) IN
    /\ files["js/script.js"] = buildPublicScript(files["source"])
    /\ files["sw.js"] = Stamped(files["template"], current)
    /\ files["index.html"] = StampedIfAny(files["index.html"], current)
    /\ files["js/version.js"] = StampedIfAny(files["js/version.js"], current)
    /\ NoConflictMarkers(files, {})

Ended(arguments) == phase = "done" /\ flags = arguments /\ ~edited

\* "build once so artifacts are current" (verify-sw-revision-repair.mjs:99): a
\* build that succeeds leaves one revision, that of what is on disk, in all
\* that has a place for it, and repairs a script and a worker that were cut
\* short.  An emptied or torn index.html or version.js it takes as it finds it
\* (build-public-js.mjs:439): those are whole afterwards if they were before.
BuiltIsCurrent ==
    Ended({}) /\ exit = 0 =>
       /\ Consistent(disk)
       /\ \A f \in Published :
             IsCut(disk[f]) => IsCut(read[f]) /\ f \notin {"js/script.js", "sw.js"}

\* --check succeeds exactly when all is consistent, and never when the last
\* write was cut short, whatever it left of the file (build-public-js.mjs:450).
CheckIsExact ==
    Ended({"--check"}) /\ error \notin {"missing", "source", "tool", "template", "version"}
       => (exit = 0 <=> Consistent(disk) /\ ~cut)

\* Neither a build nor a check reports success while a published file has
\* conflict markers, edits during the run included
\* (assertNoConflictMarkersInPublishCriticalAssets, build-public-js.mjs:378).
NoConflictReleased ==
    [][phase' = "done" /\ phase # "done" /\ exit' = 0 /\ "--candidate" \notin flags'
         => \A f \in Published : disk'[f] = NoFile \/ ~disk'[f].conflict]_vars
=============================================================================
