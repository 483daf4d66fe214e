-------------------------- MODULE PublicBuildProofs --------------------------
(***************************************************************************)
(* Proofs about PublicBuild, for any checkout, any edits and any number of *)
(* them.  The invariant follows the files through a run: until somebody    *)
(* edits one, each is what the tool read or what it has written by then,   *)
(* and a write that was cut short leaves a file that fits nothing else.    *)
(***************************************************************************)
EXTENDS PublicBuild, TLAPS

WritePhases == {"write script", "write worker", "write index", "write version", "final"}
AfterRevision == {"candidate", "check", "precheck"} \cup WritePhases
Running == phase \notin {"idle", "done"}

BuildTypeOK ==
    /\ IsDisk(disk) /\ IsDisk(read)
    /\ phase \in Phases /\ flags \subseteq Flags
    /\ exit \in {0, 1} /\ edited \in BOOLEAN /\ cut \in BOOLEAN
    /\ disk["js/script.js"] # NoFile

\* The command line decides how a run goes on.
ModeFits ==
    /\ phase = "candidate" => "--candidate" \in flags
    /\ phase = "check" => flags = {"--check"}
    /\ phase \in {"precheck"} \cup WritePhases => flags = {}

\* What a run needs was there when it read the files.
SourcesRead ==
    Running => \A f \in {"source", "template", "sw.js", "js/script.js"} : read[f] # NoFile

\* From the revision on: the texts could be used, and unless a file was edited
\* the revision is that of what was read.
RevisionFits ==
    phase \in AfterRevision =>
       /\ UsableTemplate(read["template"])
       /\ ~edited => revision = DeployRevision(read, NextScript)

\* The texts of a build, and which of them a phase has behind it
Generated == {"js/script.js", "sw.js", "index.html", "js/version.js"}

NextText(f) ==
    CASE f = "js/script.js" -> NextScript
      [] f = "sw.js" -> NextWorker
      [] f = "index.html" -> NextIndex
      [] f = "js/version.js" -> NextVersion

Written(p) ==
    CASE p = "write worker" -> {"js/script.js"}
      [] p = "write index" -> {"js/script.js", "sw.js"}
      [] p = "write version" -> {"js/script.js", "sw.js", "index.html"}
      [] p = "final" -> Generated
      [] OTHER -> {}

DiskFollows ==
    Running /\ ~edited =>
       \A f \in Files : disk[f] = IF f \in Written(phase) THEN NextText(f) ELSE read[f]

\* The private files are whole: the tool only reads them.
PrivateWhole == \A f \in Private : ~IsCut(disk[f]) /\ ~IsCut(read[f])

\* A file that was cut short does not go with the rest.
CutIsInconsistent == cut => ~Consistent(disk)

BuildInv ==
    /\ BuildTypeOK /\ ModeFits /\ SourcesRead /\ RevisionFits /\ DiskFollows
    /\ PrivateWhole /\ CutIsInconsistent
    /\ BuiltIsCurrent /\ CheckIsExact

-----------------------------------------------------------------------------
(* Texts *)

Text(body, stamp, defs, conflict, crlf) ==
    [body |-> body, stamp |-> stamp, defs |-> defs, conflict |-> conflict, crlf |-> crlf]

\* The value of crlf in a text with normalized line endings
Lf == FALSE

\* A text is its five fields.
LEMMA TextFields ==
    ASSUME NEW b, NEW s, NEW d, NEW c, NEW l
    PROVE  /\ Text(b, s, d, c, l).body = b /\ Text(b, s, d, c, l).stamp = s
           /\ Text(b, s, d, c, l).defs = d /\ Text(b, s, d, c, l).conflict = c
           /\ Text(b, s, d, c, l).crlf = l
           /\ IsText(Text(b, s, d, c, l)) <=> b \in Bodies /\ (d = 0 => s = Unstamped)
BY DEF Text, IsText

LEMMA TextIsFields ==
    ASSUME NEW t, IsText(t)
    PROVE  /\ t = Text(t.body, t.stamp, t.defs, t.conflict, t.crlf)
           /\ t.body \in Bodies /\ (t.defs = 0 => t.stamp = Unstamped)
BY DEF Text, IsText

LEMMA BareText ==
    ASSUME NEW body
    PROVE  /\ Bare(body) = Text(body, Unstamped, 0, Lf, Lf)
           /\ Bare(body).body = body /\ Bare(body).stamp = Unstamped /\ Bare(body).defs = 0
           /\ Bare(body).conflict = Lf /\ Bare(body).crlf = Lf
           /\ IsText(Bare(body)) <=> body \in Bodies
BY DEF Bare, Text, Lf, IsText

LEMMA CutTexts ==
    /\ IsText(Torn) /\ IsText(Empty) /\ ~IsText(NoFile)
    /\ Torn # NoFile /\ Empty # NoFile /\ ~IsCut(NoFile)
    /\ NoFile.defs = 0 /\ NoFile.crlf = Lf /\ NoFile.body = "absent"
<1>1. IsText(Torn) /\ IsText(Empty) /\ ~IsText(NoFile)
    BY BareText, PublicBuildAssumption DEF Torn, Empty, NoFile
<1>2. NoFile.defs = 0 /\ NoFile.crlf = Lf /\ NoFile.body = "absent"
    BY BareText DEF NoFile
<1> QED
    BY <1>1, <1>2 DEF IsCut

LEMMA CrlfSet ==
    ASSUME NEW b, NEW s, NEW d, NEW c, NEW l, NEW value
    PROVE  [Text(b, s, d, c, l) EXCEPT !.crlf = value] = Text(b, s, d, c, value)
BY DEF Text

LEMMA Normalized ==
    ASSUME NEW b, NEW s, NEW d, NEW c, NEW l
    PROVE  normalizeLineEndings(Text(b, s, d, c, l)) = Text(b, s, d, c, Lf)
<1>1. \A u : normalizeLineEndings(u) = [u EXCEPT !.crlf = Lf]
    BY DEF normalizeLineEndings, Lf
<1> QED
    BY <1>1, CrlfSet

LEMMA StampSet ==
    ASSUME NEW b, NEW s, NEW d, NEW c, NEW l, NEW rev
    PROVE  /\ Stamped(Text(b, s, d, c, l), rev) = Text(b, rev, d, c, Lf)
           /\ WithoutStamp(Text(b, s, d, c, l)) = Text(b, Unstamped, d, c, Lf)
<1>1. ASSUME NEW stamp
      PROVE  [Text(b, s, d, c, Lf) EXCEPT !.stamp = stamp] = Text(b, stamp, d, c, Lf)
    BY DEF Text
<1> QED
    BY <1>1, Normalized DEF Stamped, WithoutStamp

\* The operators on the fields of a text
LEMMA OnFields ==
    ASSUME NEW t, IsText(t), NEW rev
    PROVE  /\ normalizeLineEndings(t) = Text(t.body, t.stamp, t.defs, t.conflict, Lf)
           /\ Stamped(t, rev) = Text(t.body, rev, t.defs, t.conflict, Lf)
           /\ WithoutStamp(t) = Text(t.body, Unstamped, t.defs, t.conflict, Lf)
<1> DEFINE b == t.body  s == t.stamp  d == t.defs  c == t.conflict  l == t.crlf
<1>1. t = Text(b, s, d, c, l)
    BY TextIsFields
<1>2. /\ normalizeLineEndings(Text(b, s, d, c, l)) = Text(b, s, d, c, Lf)
      /\ Stamped(Text(b, s, d, c, l), rev) = Text(b, rev, d, c, Lf)
      /\ WithoutStamp(Text(b, s, d, c, l)) = Text(b, Unstamped, d, c, Lf)
    BY Normalized, StampSet
<1> HIDE DEF b, s, d, c, l
<1>3. /\ normalizeLineEndings(t) = Text(b, s, d, c, Lf)
      /\ Stamped(t, rev) = Text(b, rev, d, c, Lf)
      /\ WithoutStamp(t) = Text(b, Unstamped, d, c, Lf)
    BY <1>1, <1>2
<1> QED
    BY <1>3 DEF b, s, d, c, l

\* Normalizing line endings and removing the stamp keep everything else.
LEMMA PlainText ==
    ASSUME NEW t, IsText(t)
    PROVE  /\ IsText(normalizeLineEndings(t)) /\ IsText(WithoutStamp(t))
           /\ normalizeLineEndings(t).defs = t.defs /\ normalizeLineEndings(t).body = t.body
           /\ normalizeLineEndings(t).crlf = Lf
           /\ normalizeLineEndings(normalizeLineEndings(t)) = normalizeLineEndings(t)
           /\ WithoutStamp(normalizeLineEndings(t)) = WithoutStamp(t)
           /\ WithoutStamp(t).body = t.body /\ WithoutStamp(t).defs = t.defs
           /\ WithoutStamp(t).conflict = t.conflict
<1> DEFINE n == Text(t.body, t.stamp, t.defs, t.conflict, Lf)
           w == Text(t.body, Unstamped, t.defs, t.conflict, Lf)
<1>1. normalizeLineEndings(t) = n /\ WithoutStamp(t) = w
    BY OnFields
<1>2. /\ n.body = t.body /\ n.stamp = t.stamp /\ n.defs = t.defs
      /\ n.conflict = t.conflict /\ n.crlf = Lf /\ IsText(n)
    BY TextFields, TextIsFields
<1>3. /\ w.body = t.body /\ w.defs = t.defs /\ w.conflict = t.conflict /\ IsText(w)
    BY TextFields, TextIsFields
<1>4. normalizeLineEndings(n) = n /\ WithoutStamp(n) = w
    BY Normalized, StampSet
<1> HIDE DEF n, w
<1> QED
    BY <1>1, <1>2, <1>3, <1>4 DEF Lf

\* A stamp keeps everything but the line endings and the stamp itself.
LEMMA StampedText ==
    ASSUME NEW t, IsText(t), t.defs # 0, NEW rev
    PROVE  /\ IsText(Stamped(t, rev)) /\ Stamped(t, rev) # NoFile
           /\ Stamped(t, rev).body = t.body /\ Stamped(t, rev).stamp = rev
           /\ Stamped(t, rev).defs = t.defs /\ Stamped(t, rev).conflict = t.conflict
           /\ Stamped(t, rev).crlf = Lf
           /\ WithoutStamp(Stamped(t, rev)) = WithoutStamp(t)
           /\ Stamped(Stamped(t, rev), rev) = Stamped(t, rev)
<1> DEFINE r == Text(t.body, rev, t.defs, t.conflict, Lf)
<1>1. Stamped(t, rev) = r /\ WithoutStamp(t) = Text(t.body, Unstamped, t.defs, t.conflict, Lf)
    BY OnFields
<1>2. /\ r.body = t.body /\ r.stamp = rev /\ r.defs = t.defs
      /\ r.conflict = t.conflict /\ r.crlf = Lf /\ IsText(r)
    BY TextFields, TextIsFields
<1>3. Stamped(r, rev) = r /\ WithoutStamp(r) = Text(t.body, Unstamped, t.defs, t.conflict, Lf)
    BY StampSet
<1> HIDE DEF r
<1> QED
    BY <1>1, <1>2, <1>3, CutTexts DEF Lf

LEMMA BuiltScript ==
    ASSUME NEW t, IsText(t)
    PROVE  /\ IsText(buildPublicScript(t)) /\ buildPublicScript(t) # NoFile
           /\ buildPublicScript(t).body = t.body
<1>1. buildPublicScript(t) = WithoutStamp(t)
    BY DEF buildPublicScript, WithoutStamp
<1> QED
    BY <1>1, PlainText, CutTexts

\* The text of no file stays that.
LEMMA NoFileStays == \A rev : StampedIfAny(NoFile, rev) = NoFile
<1>1. NoFile = Text("absent", Unstamped, 0, Lf, Lf)
    BY BareText DEF NoFile
<1>2. normalizeLineEndings(NoFile) = NoFile
    BY <1>1, Normalized
<1> QED
    BY <1>2, CutTexts DEF StampedIfAny

LEMMA StampedIfAnyText ==
    ASSUME NEW t, t = NoFile \/ IsText(t), NEW rev
    PROVE  /\ StampedIfAny(t, rev) = NoFile \/ IsText(StampedIfAny(t, rev))
           /\ StampedIfAny(t, rev) = NoFile <=> t = NoFile
           /\ StampedIfAny(t, rev).body = t.body /\ StampedIfAny(t, rev).crlf = Lf
           /\ StampedIfAny(StampedIfAny(t, rev), rev) = StampedIfAny(t, rev)
           /\ t # NoFile => WithoutStamp(StampedIfAny(t, rev)) = WithoutStamp(t)
<1>1. CASE t = NoFile
    BY <1>1, NoFileStays, CutTexts
<1>2. CASE IsText(t) /\ t.defs = 0
    <2>1. StampedIfAny(t, rev) = normalizeLineEndings(t)
        BY <1>2 DEF StampedIfAny
    <2>2. StampedIfAny(normalizeLineEndings(t), rev) = normalizeLineEndings(t)
        BY <1>2, PlainText DEF StampedIfAny
    <2> QED  BY <1>2, <2>1, <2>2, PlainText, CutTexts
<1>3. CASE IsText(t) /\ t.defs # 0
    <2>1. StampedIfAny(t, rev) = Stamped(t, rev)
        BY <1>3 DEF StampedIfAny
    <2>2. StampedIfAny(Stamped(t, rev), rev) = Stamped(t, rev)
        BY <1>3, StampedText DEF StampedIfAny
    <2> QED  BY <1>3, <2>1, <2>2, StampedText, CutTexts
<1> QED
    BY <1>1, <1>2, <1>3

\* What is left of a text that is cut short: another text, which differs in more
\* than a stamp.
LEMMA CutText ==
    ASSUME NEW t, IsText(t), NEW rest \in CutShort(t)
    PROVE  /\ IsText(rest) /\ IsCut(rest) /\ rest # t
           /\ t.crlf = Lf => WithoutStamp(rest) # WithoutStamp(t)
<1>1. rest # t /\ rest \in {Empty, Torn, [t EXCEPT !.body = "torn"]}
    BY DEF CutShort
<1>2. CASE rest = [t EXCEPT !.body = "torn"]
    <2>1. rest = Text("torn", t.stamp, t.defs, t.conflict, t.crlf)
        BY <1>2, TextIsFields DEF Text
    <2>2. IsText(rest) /\ rest.body = "torn"
        BY <2>1, TextFields, TextIsFields, PublicBuildAssumption
    <2>3. t.body # "torn"
        BY <1>1, <2>1, TextIsFields
    <2>4. WithoutStamp(rest).body = "torn" /\ WithoutStamp(t).body = t.body
        BY <2>2, PlainText
    <2> QED  BY <1>1, <2>2, <2>3, <2>4 DEF IsCut
<1>3. CASE rest \in {Empty, Torn}
    <2>1. PICK body \in {"torn", "empty"} : rest = Bare(body)
        BY <1>3 DEF Torn, Empty
    <2>2. /\ IsText(rest) /\ rest.body \in {"torn", "empty"}
          /\ rest.defs = 0 /\ rest.conflict = Lf
          /\ rest = Text(rest.body, Unstamped, 0, Lf, Lf)
        BY <2>1, BareText, PublicBuildAssumption
    <2>3. ASSUME t.crlf = Lf, WithoutStamp(rest) = WithoutStamp(t)  PROVE FALSE
        <3>1. t.body = rest.body /\ t.defs = 0 /\ t.conflict = Lf
            BY <2>2, <2>3, PlainText
        <3>2. t.stamp = Unstamped
            BY <3>1, TextIsFields
        <3>3. t = Text(rest.body, Unstamped, 0, Lf, Lf)
            BY <2>3, <3>1, <3>2, TextIsFields
        <3> QED  BY <1>1, <2>2, <3>3
    <2> QED  BY <1>1, <2>2, <2>3 DEF IsCut
<1> QED
    BY <1>1, <1>2, <1>3

-----------------------------------------------------------------------------
(* The revision *)

\* Writing the worker, the script and new stamps does not change the revision
\* of what is published.
LEMMA StampsDoNotCount ==
    ASSUME NEW d, IsDisk(d), NEW e, NEW script, NEW rev,
           d["js/script.js"] # NoFile, e["js/script.js"] # NoFile,
           \A f \in {"index.html", "js/version.js"} : e[f] = StampedIfAny(d[f], rev),
           \A f \in Published \ Generated : e[f] = d[f]
    PROVE  DeployRevision(e, script) = DeployRevision(d, script)
<1>1. \A f \in Files : d[f] = NoFile \/ IsText(d[f])
    BY DEF IsDisk
<1>2. \A f \in Published \ {"sw.js"} : e[f] = NoFile <=> d[f] = NoFile
    BY <1>1, StampedIfAnyText DEF Published, Files, Generated
<1>3. Listed(e) \ {"sw.js"} = Listed(d) \ {"sw.js"}
    BY <1>2 DEF Listed
<1>4. ASSUME NEW f \in Listed(d) \ {"sw.js"}  PROVE Hashed(f, e, script) = Hashed(f, d, script)
    <2>1. f \in Published
        BY DEF Listed, Published
    <2>2. CASE f = "js/script.js"
        BY <2>2 DEF Hashed
    <2>3. CASE f \in {"index.html", "js/version.js"}
        <3>1. CASE d[f] = NoFile
            BY <1>2, <2>1, <2>3, <3>1 DEF Hashed, TextOf
        <3>2. CASE d[f] # NoFile
            <4>1. WithoutStamp(e[f]) = WithoutStamp(d[f])
                BY <1>1, <2>1, <2>3, <3>2, StampedIfAnyText DEF Files
            <4> QED  BY <1>2, <2>1, <2>3, <3>2, <4>1 DEF Hashed, TextOf
        <3> QED  BY <3>1, <3>2
    <2>4. CASE f \notin Generated
        BY <2>1, <2>4 DEF Hashed, Generated
    <2> QED  BY <2>2, <2>3, <2>4 DEF Generated
<1> QED
    BY <1>3, <1>4 DEF DeployRevision

\* A file is written exactly when it is not yet what the build wants.
LEMMA StaleOrRight ==
    \A f \in Generated : f \in StaleFiles <=> read[f] # NextText(f)
BY DEF StaleFiles, Generated, NextText

-----------------------------------------------------------------------------
(* Files *)

LEMMA SameDisk ==
    ASSUME NEW d, IsDisk(d), NEW e, IsDisk(e), \A f \in Files : d[f] = e[f]
    PROVE  d = e
<1>1. [f \in Files |-> d[f]] = [f \in Files |-> e[f]]
    OBVIOUS
<1> QED
    BY <1>1 DEF IsDisk

\* The texts of a run depend on what it read and on its revision only.
LEMMA SameTexts ==
    ASSUME UNCHANGED <<read, revision>>
    PROVE  NextScript' = NextScript /\ \A f : NextText(f)' = NextText(f)
BY DEF NextText, NextScript, NextWorker, NextIndex, NextVersion

LEMMA NothingReadIsDisk == IsDisk(NothingRead)
BY DEF IsDisk, NothingRead

\* The texts of a build; the script and the worker always exist.
LEMMA GeneratedTexts ==
    ASSUME BuildTypeOK, SourcesRead, RevisionFits, phase \in WritePhases
    PROVE  /\ \A f \in Generated :
                 /\ NextText(f) = NoFile \/ IsText(NextText(f))
                 /\ read[f] = NoFile => NextText(f) = NoFile \/ f = "sw.js"
                 /\ read[f] # NoFile => NextText(f) # NoFile
           /\ IsText(NextScript) /\ NextScript # NoFile
           /\ IsText(NextWorker) /\ NextWorker # NoFile
<1>0. Running /\ phase \in AfterRevision
    BY DEF Running, AfterRevision, WritePhases
<1>1. \A f \in Files : read[f] = NoFile \/ IsText(read[f])
    BY DEF BuildTypeOK, IsDisk
<1>2. IsText(read["source"]) /\ IsText(read["template"]) /\ read["template"].defs # 0
    BY <1>0, <1>1 DEF SourcesRead, RevisionFits, UsableTemplate, WellFormedWorker, Files, Private
<1>3. IsText(NextScript) /\ NextScript # NoFile
    BY <1>2, BuiltScript DEF NextScript
<1>4. IsText(NextWorker) /\ NextWorker # NoFile
    BY <1>2, StampedText DEF NextWorker
<1>5. /\ NextIndex = NoFile \/ IsText(NextIndex)
      /\ NextIndex = NoFile <=> read["index.html"] = NoFile
    BY <1>1, StampedIfAnyText DEF NextIndex, Files, Published
<1>6. /\ NextVersion = NoFile \/ IsText(NextVersion)
      /\ NextVersion = NoFile <=> read["js/version.js"] = NoFile
    BY <1>1, StampedIfAnyText DEF NextVersion, Files, Published
<1>7. read["js/script.js"] # NoFile
    BY <1>0 DEF SourcesRead
<1> QED
    BY <1>3, <1>4, <1>5, <1>6, <1>7 DEF Generated, NextText

\* The file whose turn it is, and the phase after it
Turn(f, next) ==
    /\ phase \in WritePhases \ {"final"} /\ f \in Generated /\ next \in WritePhases
    /\ f \notin Written(phase) /\ Written(next) = Written(phase) \cup {f}
    /\ f \in {"index.html", "js/version.js"} => "sw.js" \in Written(phase)

\* The four writes are one: each adds its file to what has been written.
LEMMA WriteStep ==
    ASSUME WriteScript \/ WriteWorker \/ WriteIndex \/ WriteVersion
    PROVE  \E f \in Generated, next \in WritePhases :
              /\ Turn(f, next) /\ WriteFile(f, NextText(f), next)
<1> USE DEF Generated, WritePhases, Written, NextText, Turn
<1>1. CASE WriteScript
    BY <1>1 DEF WriteScript
<1>2. CASE WriteWorker
    BY <1>2 DEF WriteWorker
<1>3. CASE WriteIndex
    BY <1>3 DEF WriteIndex
<1>4. CASE WriteVersion
    BY <1>4 DEF WriteVersion
<1> QED
    BY <1>1, <1>2, <1>3, <1>4

\* A run that is killed leaves the files alone, or cuts the one it writes.
LEMMA KilledStep ==
    ASSUME Killed
    PROVE  \/ UNCHANGED <<disk, cut>>
           \/ \E f \in Generated, next \in WritePhases :
                 Turn(f, next) /\ f \in StaleFiles /\ CutWrite(f, NextText(f))
<1> SUFFICES ASSUME ~UNCHANGED <<disk, cut>>
             PROVE  \E f \in Generated, next \in WritePhases :
                       Turn(f, next) /\ f \in StaleFiles /\ CutWrite(f, NextText(f))
    OBVIOUS
<1>1. PICK w \in Writes : w[1] = phase /\ w[2] \in StaleFiles /\ CutWrite(w[2], w[3])
    BY DEF Killed
<1> USE DEF Generated, WritePhases, Written, NextText, Turn
<1>2. CASE w = <<"write script", "js/script.js", NextScript>>
    <2>1. Turn("js/script.js", "write worker")
        BY <1>1, <1>2
    <2> QED  BY <1>1, <1>2, <2>1
<1>3. CASE w = <<"write worker", "sw.js", NextWorker>>
    <2>1. Turn("sw.js", "write index")
        BY <1>1, <1>3
    <2> QED  BY <1>1, <1>3, <2>1
<1>4. CASE w = <<"write index", "index.html", NextIndex>>
    <2>1. Turn("index.html", "write version")
        BY <1>1, <1>4
    <2> QED  BY <1>1, <1>4, <2>1
<1>5. CASE w = <<"write version", "js/version.js", NextVersion>>
    <2>1. Turn("js/version.js", "final")
        BY <1>1, <1>5
    <2> QED  BY <1>1, <1>5, <2>1
<1> QED
    BY <1>1, <1>2, <1>3, <1>4, <1>5 DEF Writes

\* What a cut write leaves is a checkout all the same.
LEMMA CutWriteTyped ==
    ASSUME BuildTypeOK, SourcesRead, RevisionFits, NEW f \in Generated, NEW next,
           Turn(f, next), f \in StaleFiles, CutWrite(f, NextText(f))
    PROVE  /\ IsText(NextText(f)) /\ read[f] # NoFile
           /\ \E rest \in CutShort(NextText(f)) :
                 \A g \in Files : disk'[g] = IF g = f THEN rest ELSE disk[g]
           /\ IsDisk(disk') /\ disk'["js/script.js"] # NoFile /\ cut' = ~edited
<1>1. phase \in WritePhases /\ Running
    BY DEF Turn, Running, WritePhases
<1>2. read[f] # NextText(f)
    BY StaleOrRight
<1>3. f = "sw.js" => read[f] # NoFile
    BY <1>1 DEF SourcesRead
<1>4. /\ NextText(f) = NoFile \/ IsText(NextText(f))
      /\ read[f] = NoFile => NextText(f) = NoFile \/ f = "sw.js"
      /\ read[f] # NoFile => NextText(f) # NoFile
    BY <1>1, GeneratedTexts
<1>10. IsText(NextText(f)) /\ read[f] # NoFile
    BY <1>2, <1>3, <1>4
<1>5. PICK rest \in CutShort(NextText(f)) : disk' = [disk EXCEPT ![f] = rest]
    BY DEF CutWrite
<1>6. IsText(rest) /\ rest # NoFile
    BY <1>5, <1>10, CutText, CutTexts
<1>7. f \in Files /\ disk = [g \in Files |-> disk[g]]
    BY DEF Generated, Files, Published, BuildTypeOK, IsDisk
<1>8. disk' = [g \in Files |-> IF g = f THEN rest ELSE disk[g]]
    BY <1>5, <1>7
<1>9. IsDisk(disk') /\ disk'["js/script.js"] # NoFile
    BY <1>6, <1>8 DEF BuildTypeOK, IsDisk, Files, Published
<1> QED
    BY <1>5, <1>8, <1>9, <1>10 DEF CutWrite

-----------------------------------------------------------------------------
(* The invariant *)

LEMMA BuildInitCorrect == BuildInit => BuildInv
<1> SUFFICES ASSUME BuildInit  PROVE BuildInv
    OBVIOUS
<1>1. BuildTypeOK
    BY PublicBuildAssumption, NothingReadIsDisk DEF BuildInit, BuildTypeOK, Phases
<1>2. phase = "idle" /\ cut = FALSE /\ read = NothingRead
    BY DEF BuildInit
<1>3. PrivateWhole
    <2>1. \A f \in Private : ~IsCut(disk[f])
        BY PublicBuildAssumption DEF BuildInit
    <2>2. \A f \in Private : read[f] = NoFile
        BY <1>2 DEF NothingRead, Private, Files
    <2> QED  BY <2>1, <2>2, CutTexts DEF PrivateWhole
<1> QED
    BY <1>1, <1>2, <1>3 DEF CutIsInconsistent, BuildInv, ModeFits, SourcesRead, RevisionFits, AfterRevision, WritePhases,
        DiskFollows, Running, BuiltIsCurrent, CheckIsExact, Ended

LEMMA BuildTypesKept ==
    ASSUME BuildInv, BuildNext
    PROVE  BuildTypeOK'
<1> USE DEF BuildInv, BuildTypeOK, Phases, Ends
<1>1. CASE Start
    BY <1>1 DEF Start
<1>2. CASE BuildScript \/ ComputeRevision \/ WriteCandidate \/ Verify \/ Precheck \/ FinalCheck
    BY <1>2 DEF BuildScript, ComputeRevision, NextPhase, WriteCandidate, Verify, Precheck,
                FinalCheck
<1>3. CASE WriteScript \/ WriteWorker \/ WriteIndex \/ WriteVersion
    <2>1. PICK f \in Generated, next \in WritePhases :
              Turn(f, next) /\ WriteFile(f, NextText(f), next)
        BY <1>3, WriteStep
    <2>2. phase \in WritePhases /\ Running /\ f \in Files
        BY <2>1 DEF Turn, Running, WritePhases, Generated, Files, Published
    <2>3. /\ NextText(f) = NoFile \/ IsText(NextText(f))
          /\ read[f] # NoFile => NextText(f) # NoFile
        BY <2>2, GeneratedTexts
    <2>8. f = "js/script.js" => NextText(f) # NoFile
        BY <2>2, <2>3 DEF SourcesRead
    <2>4. /\ phase' \in {"done", next} /\ exit' \in {0, 1}
          /\ UNCHANGED <<flags, read, edited>>
        BY <2>1 DEF WriteFile
    <2>5. CASE disk' = disk /\ cut' = cut
        BY <2>4, <2>5 DEF WritePhases
    <2>6. CASE disk' = [disk EXCEPT ![f] = NextText(f)] /\ cut' = FALSE
        <3>1. IsDisk(disk') /\ disk'["js/script.js"] # NoFile
            BY <2>2, <2>3, <2>6, <2>8 DEF IsDisk, Files, Published
        <3> QED  BY <2>4, <2>6, <3>1 DEF WritePhases
    <2>7. CASE f \in StaleFiles /\ CutWrite(f, NextText(f))
        BY <2>1, <2>4, <2>7, CutWriteTyped DEF WritePhases
    <2> QED  BY <2>1, <2>5, <2>6, <2>7 DEF WriteFile
<1>4. CASE Return
    BY <1>4, NothingReadIsDisk DEF Return, Exits
<1>5. CASE EditFile
    <2>1. PICK f \in Files : \E text \in Variants[f] : disk' = [disk EXCEPT ![f] = text]
        BY <1>5 DEF EditFile
    <2>2. PICK text \in Variants[f] : disk' = [disk EXCEPT ![f] = text]
        BY <2>1
    <2>3. /\ text = NoFile \/ IsText(text)
          /\ f = "js/script.js" => text # NoFile
        BY PublicBuildAssumption
    <2>4. IsDisk(disk') /\ disk'["js/script.js"] # NoFile
        BY <2>2, <2>3 DEF IsDisk, Files, Published
    <2> QED  BY <1>5, <2>4 DEF EditFile
<1>6. CASE Killed
    <2>1. IsDisk(disk') /\ disk'["js/script.js"] # NoFile /\ cut' \in BOOLEAN
        <3>1. CASE UNCHANGED <<disk, cut>>
            BY <3>1
        <3>2. ASSUME NEW f \in Generated, NEW next \in WritePhases, Turn(f, next),
                     f \in StaleFiles, CutWrite(f, NextText(f))
              PROVE  IsDisk(disk') /\ disk'["js/script.js"] # NoFile /\ cut' \in BOOLEAN
            BY <3>2, CutWriteTyped
        <3> QED  BY <1>6, <3>1, <3>2, KilledStep
    <2> QED  BY <1>6, <2>1, NothingReadIsDisk DEF Killed, Exits
<1> QED
    BY <1>1, <1>2, <1>3, <1>4, <1>5, <1>6 DEF BuildNext

LEMMA RunKept ==
    ASSUME BuildInv, BuildNext
    PROVE  (ModeFits /\ SourcesRead /\ RevisionFits /\ DiskFollows)'
<1> DEFINE Fits == ModeFits /\ SourcesRead /\ RevisionFits /\ DiskFollows
<1> USE DEF BuildInv, ModeFits, Running, AfterRevision, WritePhases
<1>1. CASE Start
    <2>1. /\ read' = disk /\ disk' = disk /\ phase' \in {"done", "script"}
          /\ phase' = "script" => \A f \in {"source", "template", "sw.js"} : disk[f] # NoFile
        BY <1>1 DEF Start, Ends
    <2>2. SourcesRead'
        BY <2>1 DEF SourcesRead, BuildTypeOK
    <2>3. DiskFollows'
        BY <2>1 DEF DiskFollows, Written
    <2> QED  BY <2>1, <2>2, <2>3 DEF RevisionFits
<1>2. CASE BuildScript
    <2>1. /\ UNCHANGED <<disk, read, edited>> /\ phase = "script" /\ phase' \in {"done", "revision"}
        BY <1>2 DEF BuildScript, Ends
    <2>2. DiskFollows'
        BY <2>1 DEF DiskFollows, Written
    <2> QED  BY <2>1, <2>2 DEF RevisionFits, SourcesRead
<1>3. CASE ComputeRevision
    <2>1. /\ UNCHANGED <<disk, flags, read, edited>> /\ phase = "revision"
          /\ revision' = DeployRevision(disk, NextScript)
          /\ phase' \in {"done", NextPhase}
          /\ phase' # "done" => UsableTemplate(read["template"])
        BY <1>3 DEF ComputeRevision, Ends
    <2>2. NextPhase \in {"candidate", "check", "precheck"}
        BY DEF NextPhase
    <2>3. ~edited => disk = read
        BY <2>1, SameDisk DEF DiskFollows, Written, BuildTypeOK
    <2>4. NextScript' = NextScript
        BY <2>1 DEF NextScript
    <2>5. RevisionFits'
        BY <2>1, <2>3, <2>4 DEF RevisionFits
    <2>6. ModeFits'
        BY <2>1 DEF NextPhase, BuildTypeOK, Flags
    <2>7. DiskFollows'
        BY <2>1, <2>2 DEF DiskFollows, Written
    <2> QED  BY <2>1, <2>5, <2>6, <2>7 DEF SourcesRead
<1>4. CASE WriteCandidate \/ Verify \/ FinalCheck
    <2>1. phase' = "done"
        BY <1>4 DEF WriteCandidate, Verify, FinalCheck, Ends
    <2> QED  BY <2>1 DEF RevisionFits, SourcesRead, DiskFollows
<1>5. CASE Precheck
    <2>1. /\ UNCHANGED <<disk, flags, read, revision, edited>> /\ phase = "precheck"
          /\ phase' \in {"done", "write script"}
        BY <1>5 DEF Precheck, Ends
    <2>2. NextScript' = NextScript
        BY <2>1, SameTexts
    <2>3. DiskFollows'
        BY <2>1 DEF DiskFollows, Written
    <2>4. RevisionFits'
        BY <2>1, <2>2 DEF RevisionFits
    <2> QED  BY <2>1, <2>3, <2>4 DEF SourcesRead
<1>6. CASE WriteScript \/ WriteWorker \/ WriteIndex \/ WriteVersion
    <2>1. PICK f \in Generated, next \in WritePhases :
              Turn(f, next) /\ WriteFile(f, NextText(f), next)
        BY <1>6, WriteStep
    <2>2. /\ UNCHANGED <<flags, read, revision, edited>> /\ phase' \in {"done", next}
          /\ phase \in WritePhases \ {"final"} /\ Written(next) = Written(phase) \cup {f}
          /\ phase' # "done" => \/ disk' = disk /\ f \notin StaleFiles
                                \/ disk' = [disk EXCEPT ![f] = NextText(f)]
        BY <2>1 DEF WriteFile, Turn, Ends
    <2>3. NextScript' = NextScript /\ \A g : NextText(g)' = NextText(g)
        BY <2>2, SameTexts
    <2>4. ModeFits' /\ SourcesRead' /\ RevisionFits'
        BY <2>2, <2>3 DEF SourcesRead, RevisionFits
    <2>5. ASSUME phase' # "done", ~edited, NEW g \in Files
          PROVE  disk'[g] = IF g \in Written(next) THEN NextText(g) ELSE read[g]
        <3>1. disk[g] = IF g \in Written(phase) THEN NextText(g) ELSE read[g]
            BY <2>2, <2>5 DEF DiskFollows
        <3>2. CASE disk' = disk /\ f \notin StaleFiles
            <4>1. read[f] = NextText(f)
                BY <3>2, StaleOrRight
            <4> QED  BY <2>2, <3>1, <3>2, <4>1
        <3>3. CASE disk' = [disk EXCEPT ![f] = NextText(f)]
            <4>1. disk = [h \in Files |-> disk[h]]
                BY DEF BuildTypeOK, IsDisk
            <4>2. disk'[g] = IF g = f THEN NextText(f) ELSE disk[g]
                BY <3>3, <4>1
            <4> QED  BY <2>2, <3>1, <4>2
        <3> QED  BY <2>2, <2>5, <3>2, <3>3
    <2>6. DiskFollows'
        <3> SUFFICES ASSUME phase' \notin {"idle", "done"}, ~edited, NEW g \in Files
                     PROVE  disk'[g] = IF g \in Written(phase') THEN NextText(g)' ELSE read'[g]
            BY <2>2 DEF DiskFollows, Written
        <3>1. phase' = next /\ phase' # "done"
            BY <2>2
        <3> QED  BY <2>2, <2>3, <2>5, <3>1
    <2> QED  BY <2>4, <2>6
<1>7. CASE Return \/ Killed
    <2>1. phase' = "idle"
        BY <1>7 DEF Return, Killed, Exits
    <2> QED  BY <2>1 DEF RevisionFits, SourcesRead, DiskFollows
<1>8. CASE EditFile
    <2>1. /\ UNCHANGED <<phase, flags, read, revision>> /\ edited' = (edited \/ phase # "idle")
        BY <1>8 DEF EditFile
    <2> QED  BY <2>1 DEF RevisionFits, SourcesRead, DiskFollows
<1> QED
    BY <1>1, <1>2, <1>3, <1>4, <1>5, <1>6, <1>7, <1>8 DEF BuildNext

-----------------------------------------------------------------------------
(* Writes that are cut short *)

\* A write that is cut short while nobody edits leaves a checkout that does not
\* fit together: the file itself shows it, or the revision in the worker.
LEMMA CutWriteInconsistent ==
    ASSUME BuildInv, NEW f \in Generated, NEW next, Turn(f, next), f \in StaleFiles,
           CutWrite(f, NextText(f)), ~edited
    PROVE  ~Consistent(disk')
<1> USE DEF BuildInv
<1> DEFINE current == DeployRevision(disk', disk'["js/script.js"])
<1>1. /\ IsText(NextText(f)) /\ read[f] # NoFile
      /\ \E rest \in CutShort(NextText(f)) :
            \A g \in Files : disk'[g] = IF g = f THEN rest ELSE disk[g]
    BY CutWriteTyped
<1>2. PICK rest \in CutShort(NextText(f)) :
         \A g \in Files : disk'[g] = IF g = f THEN rest ELSE disk[g]
    BY <1>1
<1>3. /\ IsText(rest) /\ IsCut(rest) /\ rest # NextText(f) /\ rest # NoFile
      /\ NextText(f).crlf = Lf => WithoutStamp(rest) # WithoutStamp(NextText(f))
    BY <1>1, CutText, CutTexts
<1>4. /\ phase \in WritePhases /\ Running /\ phase \in AfterRevision
      /\ f \notin Written(phase)
    BY DEF Turn, Running, AfterRevision, WritePhases
<1>5. \A g \in Files : disk[g] = IF g \in Written(phase) THEN NextText(g) ELSE read[g]
    BY <1>4 DEF DiskFollows
<1>6. /\ disk'["source"] = read["source"] /\ disk'["template"] = read["template"]
      /\ {"source", "template", "js/script.js", "sw.js", "index.html", "js/version.js"}
            \subseteq Files
      /\ disk'[f] = rest
    BY <1>2, <1>5 DEF Files, Private, Published, Generated, Written
<1>7. /\ IsText(read["template"]) /\ read["template"].defs # 0
      /\ ~IsCut(read["template"]) /\ revision = DeployRevision(read, NextScript)
    BY <1>4 DEF BuildTypeOK, IsDisk, SourcesRead, RevisionFits, UsableTemplate,
                WellFormedWorker, PrivateWhole, Files, Private
<1> SUFFICES ASSUME Consistent(disk')  PROVE FALSE
    OBVIOUS
<1>8. /\ disk'["js/script.js"] = NextScript
      /\ disk'["sw.js"] = Stamped(read["template"], current)
    BY <1>6 DEF Consistent, NextScript
<1>9. CASE f = "js/script.js"
    BY <1>3, <1>6, <1>8, <1>9 DEF NextText
<1>10. CASE f = "sw.js"
    <2>1. Stamped(read["template"], current).body = read["template"].body
        BY <1>7, StampedText
    <2> QED  BY <1>3, <1>6, <1>7, <1>8, <1>10, <2>1 DEF IsCut
<1>11. CASE f \in {"index.html", "js/version.js"}
    <2>1. disk'["sw.js"] = NextWorker
        BY <1>2, <1>5, <1>6, <1>11 DEF Turn, NextText
    <2>2. Stamped(read["template"], current) = Stamped(read["template"], revision)
        BY <1>8, <2>1 DEF NextWorker
    <2>3. current = revision
        <3>1. /\ Stamped(read["template"], current).stamp = current
              /\ Stamped(read["template"], revision).stamp = revision
            BY <1>7, StampedText
        <3> QED  BY <2>2, <3>1
    <2>4. f \in Listed(disk') \ {"sw.js"} /\ f \in Listed(read) \ {"sw.js"}
        BY <1>1, <1>3, <1>6, <1>11 DEF Listed, Published
    <2>5. current[f] = WithoutStamp(rest) /\ revision[f] = WithoutStamp(read[f])
        <3>1. Hashed(f, disk', disk'["js/script.js"]) = WithoutStamp(rest)
            BY <1>3, <1>6, <1>11 DEF Hashed, TextOf
        <3>2. Hashed(f, read, NextScript) = WithoutStamp(read[f])
            BY <1>1, <1>11 DEF Hashed, TextOf
        <3>3. current[f] = Hashed(f, disk', disk'["js/script.js"])
            BY <2>4 DEF DeployRevision
        <3>4. revision[f] = Hashed(f, read, NextScript)
            BY <1>7, <2>4 DEF DeployRevision
        <3> QED  BY <3>1, <3>2, <3>3, <3>4
    <2>6. NextText(f) = StampedIfAny(read[f], revision)
        BY <1>11 DEF NextText, NextIndex, NextVersion
    <2>7. read[f] = NoFile \/ IsText(read[f])
        BY <1>6, <1>11 DEF BuildTypeOK, IsDisk
    <2>8. WithoutStamp(NextText(f)) = WithoutStamp(read[f]) /\ NextText(f).crlf = Lf
        BY <1>1, <2>6, <2>7, StampedIfAnyText
    <2> QED  BY <1>3, <2>3, <2>5, <2>8
<1> QED
    BY <1>9, <1>10, <1>11 DEF Generated

\* Private files stay whole, and cut ones are told apart until somebody writes.
LEMMA CutKept ==
    ASSUME BuildInv, BuildNext
    PROVE  (PrivateWhole /\ CutIsInconsistent)'
<1> USE DEF BuildInv
<1>0. Private \subseteq Files /\ Private \cap Generated = {}
    BY DEF Private, Files, Generated
<1>1. CASE Start \/ BuildScript \/ ComputeRevision \/ WriteCandidate \/ Verify \/ Precheck
           \/ FinalCheck
    <2>1. UNCHANGED <<disk, cut>> /\ read' \in {read, disk}
        BY <1>1 DEF Start, BuildScript, ComputeRevision, WriteCandidate, Verify, Precheck,
                    FinalCheck
    <2> QED  BY <2>1 DEF PrivateWhole, CutIsInconsistent
<1>2. ASSUME NEW f \in Generated, NEW next, Turn(f, next), f \in StaleFiles,
             CutWrite(f, NextText(f))
      PROVE  CutIsInconsistent' /\ \A g \in Private : disk'[g] = disk[g]
    <2>1. cut' = ~edited /\ \E rest : \A g \in Files : disk'[g] = IF g = f THEN rest ELSE disk[g]
        BY <1>2, CutWriteTyped
    <2>2. \A g \in Private : disk'[g] = disk[g]
        BY <1>0, <2>1
    <2>3. ~edited => ~Consistent(disk')
        BY <1>2, CutWriteInconsistent
    <2> QED  BY <2>1, <2>2, <2>3 DEF CutIsInconsistent
<1>3. CASE WriteScript \/ WriteWorker \/ WriteIndex \/ WriteVersion
    <2>1. PICK f \in Generated, next \in WritePhases :
              Turn(f, next) /\ WriteFile(f, NextText(f), next)
        BY <1>3, WriteStep
    <2>2. read' = read
        BY <2>1 DEF WriteFile
    <2>3. CASE UNCHANGED <<disk, cut>>
        BY <2>2, <2>3 DEF PrivateWhole, CutIsInconsistent
    <2>4. CASE disk' = [disk EXCEPT ![f] = NextText(f)] /\ cut' = FALSE
        <3>1. \A g \in Private : disk'[g] = disk[g]
            BY <1>0, <2>4
        <3> QED  BY <2>2, <2>4, <3>1 DEF PrivateWhole, CutIsInconsistent
    <2>5. CASE f \in StaleFiles /\ CutWrite(f, NextText(f))
        BY <1>2, <2>1, <2>2, <2>5 DEF PrivateWhole
    <2> QED  BY <2>1, <2>3, <2>4, <2>5 DEF WriteFile
<1>4. CASE Return \/ Killed
    <2>1. read' = NothingRead
        BY <1>4 DEF Return, Killed, Exits
    <2>2. \A g \in Private : ~IsCut(read'[g])
        BY <1>0, <2>1, CutTexts DEF NothingRead
    <2>3. CASE UNCHANGED <<disk, cut>>
        BY <2>2, <2>3 DEF PrivateWhole, CutIsInconsistent
    <2>4. CASE Killed /\ ~UNCHANGED <<disk, cut>>
        <3>1. PICK f \in Generated, next \in WritePhases :
                  Turn(f, next) /\ f \in StaleFiles /\ CutWrite(f, NextText(f))
            BY <2>4, KilledStep
        <3> QED  BY <1>2, <2>2, <3>1 DEF PrivateWhole
    <2> QED  BY <1>4, <2>3, <2>4 DEF Return
<1>5. CASE EditFile
    <2>1. PICK f \in Files : \E text \in Variants[f] : disk' = [disk EXCEPT ![f] = text]
        BY <1>5 DEF EditFile
    <2>2. PICK text \in Variants[f] : disk' = [disk EXCEPT ![f] = text]
        BY <2>1
    <2>3. \A g \in Private : disk'[g] = disk[g] \/ (g = f /\ disk'[g] = text)
        BY <1>0, <2>2 DEF BuildTypeOK, IsDisk
    <2>4. f \in Private => ~IsCut(text)
        BY PublicBuildAssumption
    <2>5. cut' = FALSE /\ read' = read
        BY <1>5 DEF EditFile
    <2> QED  BY <2>3, <2>4, <2>5 DEF PrivateWhole, CutIsInconsistent
<1> QED
    BY <1>1, <1>3, <1>4, <1>5 DEF BuildNext

-----------------------------------------------------------------------------
(* What a run says when it ends *)

\* A build that was left alone and found no markers afterwards has made the
\* checkout current: its writes do not change the revision it computed before.
LEMMA FinalIsCurrent ==
    ASSUME BuildInv, FinalCheck, exit' = 0, ~edited
    PROVE  /\ Consistent(disk)
           /\ \A f \in Published :
                 IsCut(disk[f]) => IsCut(read[f]) /\ f \notin {"js/script.js", "sw.js"}
<1> USE DEF BuildInv
<1>1. phase = "final" /\ NoConflictMarkers(disk, {})
    BY DEF FinalCheck, Ends
<1>2. SourcesRead /\ Running /\ phase \in AfterRevision /\ Written(phase) = Generated
    BY <1>1 DEF Running, AfterRevision, WritePhases, Written
<1>3. \A f \in Files : disk[f] = IF f \in Generated THEN NextText(f) ELSE read[f]
    BY <1>2 DEF DiskFollows
<1>4. \A f \in Files : read[f] = NoFile \/ IsText(read[f])
    BY DEF BuildTypeOK, IsDisk
<1>5. /\ disk["js/script.js"] = NextScript /\ disk["sw.js"] = NextWorker
      /\ disk["index.html"] = StampedIfAny(read["index.html"], revision)
      /\ disk["js/version.js"] = StampedIfAny(read["js/version.js"], revision)
      /\ disk["source"] = read["source"] /\ disk["template"] = read["template"]
      /\ \A f \in Published \ Generated : disk[f] = read[f]
    BY <1>3 DEF Generated, NextText, NextIndex, NextVersion, Files, Private, Published
<1>6. revision = DeployRevision(read, NextScript)
    BY <1>2 DEF RevisionFits
<1>7. DeployRevision(disk, NextScript) = DeployRevision(read, NextScript)
    BY <1>2, <1>5, StampsDoNotCount DEF BuildTypeOK, SourcesRead
<1>8. /\ disk["index.html"] = StampedIfAny(disk["index.html"], revision)
      /\ disk["js/version.js"] = StampedIfAny(disk["js/version.js"], revision)
    BY <1>4, <1>5, StampedIfAnyText DEF Files, Published
<1>9. Consistent(disk)
    BY <1>1, <1>5, <1>6, <1>7, <1>8 DEF Consistent, NextScript, NextWorker
<1>10. ~IsCut(disk["js/script.js"]) /\ ~IsCut(disk["sw.js"])
    <2>1. /\ IsText(read["source"]) /\ IsText(read["template"])
          /\ read["template"].defs # 0
          /\ ~IsCut(read["source"]) /\ ~IsCut(read["template"])
        BY <1>2, <1>4 DEF SourcesRead, RevisionFits, UsableTemplate, WellFormedWorker,
                          PrivateWhole, Files, Private
    <2>2. NextScript.body = read["source"].body /\ NextWorker.body = read["template"].body
        BY <2>1, BuiltScript, StampedText DEF NextScript, NextWorker
    <2> QED  BY <1>5, <2>1, <2>2 DEF IsCut
<1>11. \A f \in Published \ {"js/script.js", "sw.js"} : disk[f].body = read[f].body
    BY <1>4, <1>5, StampedIfAnyText DEF Generated, Files
<1> QED
    BY <1>9, <1>10, <1>11 DEF IsCut

\* A check that was left alone tells apart the checkouts that are current.
LEMMA CheckTells ==
    ASSUME BuildInv, Verify, ~edited
    PROVE  exit' = 0 <=> Consistent(disk)
<1> USE DEF BuildInv
<1>1. phase = "check"
    BY DEF Verify
<1>2. Running /\ phase \in AfterRevision /\ Written(phase) = {}
    BY <1>1 DEF Running, AfterRevision, Written
<1>3. disk = read
    BY <1>2, SameDisk DEF DiskFollows, BuildTypeOK
<1>4. revision = DeployRevision(read, NextScript) /\ UsableTemplate(read["template"])
    BY <1>2 DEF RevisionFits
<1>5. exit' = 0 <=> /\ WellFormedWorker(read["sw.js"]) /\ NoConflictMarkers(disk, {})
                    /\ StaleFiles = {}
    BY DEF Verify, Ends
<1>6. StaleFiles = {} <=> \A f \in Generated : read[f] = NextText(f)
    BY StaleOrRight DEF StaleFiles, Generated
<1>7. (\A f \in Generated : read[f] = NextText(f))
         <=> /\ read["js/script.js"] = NextScript /\ read["sw.js"] = NextWorker
             /\ read["index.html"] = NextIndex /\ read["js/version.js"] = NextVersion
    BY DEF Generated, NextText
<1>8. read["sw.js"] = NextWorker => WellFormedWorker(read["sw.js"])
    <2>1. IsText(read["template"])
        BY <1>2 DEF BuildTypeOK, IsDisk, SourcesRead, Files, Private
    <2> QED  BY <1>4, <2>1, StampedText DEF NextWorker, UsableTemplate, WellFormedWorker
<1>9. read["js/script.js"] = NextScript => DeployRevision(disk, disk["js/script.js"]) = revision
    BY <1>3, <1>4
<1>10. Consistent(disk) <=>
          /\ read["js/script.js"] = NextScript /\ read["sw.js"] = NextWorker
          /\ read["index.html"] = NextIndex /\ read["js/version.js"] = NextVersion
          /\ NoConflictMarkers(disk, {})
    BY <1>3, <1>9 DEF Consistent, NextScript, NextWorker, NextIndex, NextVersion
<1> QED
    BY <1>5, <1>6, <1>7, <1>8, <1>10

LEMMA OutcomeKept ==
    ASSUME BuildInv, BuildNext
    PROVE  (BuiltIsCurrent /\ CheckIsExact)'
<1> USE DEF BuildInv, BuiltIsCurrent, CheckIsExact, Ended, CutIsInconsistent
<1>0. \A code, reason : Ends(code, reason) => phase' = "done" /\ exit' = code /\ error' = reason
    BY DEF Ends
<1>1. CASE Start \/ BuildScript \/ ComputeRevision
    <2>1. phase' # "done" \/ (exit' = 1 /\ error' \in {"missing", "source", "tool", "template", "version"})
        BY <1>1 DEF Start, BuildScript, ComputeRevision, NextPhase, Ends
    <2> QED  BY <2>1
<1>2. CASE WriteCandidate
    <2>1. flags' # {} /\ flags' # {"--check"}
        BY <1>2 DEF WriteCandidate, ModeFits
    <2> QED  BY <2>1
<1>3. CASE Verify
    <2>1. /\ disk' = disk /\ flags' = {"--check"} /\ edited' = edited /\ cut' = cut
        BY <1>3 DEF Verify, ModeFits
    <2>2. ~edited => (exit' = 0 <=> Consistent(disk))
        BY <1>3, CheckTells
    <2> QED  BY <2>1, <2>2
<1>4. CASE Precheck \/ WriteScript \/ WriteWorker \/ WriteIndex \/ WriteVersion
    <2>1. flags' = {} /\ (phase' = "done" => exit' = 1)
        BY <1>4 DEF Precheck, WriteScript, WriteWorker, WriteIndex, WriteVersion, WriteFile,
                    ModeFits, WritePhases, Ends
    <2> QED  BY <2>1
<1>5. CASE FinalCheck
    <2>1. flags' = {} /\ edited' = edited /\ disk' = disk /\ read' = read
        BY <1>5 DEF FinalCheck, ModeFits, WritePhases
    <2> QED  BY <1>5, <2>1, FinalIsCurrent
<1>6. CASE Return \/ Killed
    BY <1>6 DEF Return, Killed, Exits
<1>7. CASE EditFile
    <2>1. phase' = phase /\ edited' = (edited \/ phase # "idle")
        BY <1>7 DEF EditFile
    <2> QED  BY <2>1
<1> QED
    BY <1>1, <1>2, <1>3, <1>4, <1>5, <1>6, <1>7 DEF BuildNext

LEMMA BuildInvKept == BuildInv /\ [BuildNext]_vars => BuildInv'
<1>1. ASSUME BuildInv, BuildNext  PROVE BuildInv'
    BY <1>1, BuildTypesKept, RunKept, CutKept, OutcomeKept DEF BuildInv
<1>2. ASSUME BuildInv, UNCHANGED vars  PROVE BuildInv'
    <2>1. NextScript' = NextScript /\ \A f : NextText(f)' = NextText(f)
        BY <1>2, SameTexts DEF vars
    <2>2. BuildTypeOK' /\ ModeFits' /\ SourcesRead' /\ RevisionFits' /\ DiskFollows'
        BY <1>2, <2>1 DEF BuildInv, vars, BuildTypeOK, ModeFits, SourcesRead, RevisionFits,
            DiskFollows, Running
    <2>3. BuiltIsCurrent' /\ CheckIsExact'
        BY <1>2 DEF BuildInv, vars, BuiltIsCurrent, CheckIsExact, Ended
    <2>4. PrivateWhole' /\ CutIsInconsistent'
        BY <1>2 DEF BuildInv, vars, PrivateWhole, CutIsInconsistent
    <2> QED  BY <2>2, <2>3, <2>4 DEF BuildInv
<1> QED
    BY <1>1, <1>2

-----------------------------------------------------------------------------
(* The theorems *)

\* Whatever is edited, and however often a run is killed in the middle of a
\* write: while nobody edits during a run, every file is what the tool read or
\* what it has generated so far, and its revision is that of what it read
\* (main, build-public-js.mjs:410).
THEOREM BuildInvariant == BuildSpec => []BuildInv
<1>1. BuildInit => BuildInv
    BY BuildInitCorrect
<1> QED
    BY <1>1, BuildInvKept, PTL DEF BuildSpec

\* A build that succeeds, nobody editing meanwhile, leaves one revision, that
\* of what is published, wherever there is a place for it, whatever an earlier
\* build left behind.  A script or a worker that was cut short is whole again;
\* index.html and js/version.js are whole if they were whole when the build
\* read them (main, build-public-js.mjs:410).
THEOREM OneBuildIsEnough == BuildSpec => []BuiltIsCurrent
<1>1. BuildInv => BuiltIsCurrent
    BY DEF BuildInv
<1> QED
    BY <1>1, BuildInvariant, PTL

\* --check has neither false alarms nor misses: among the checkouts whose
\* sources can be built it accepts exactly the consistent ones, and none whose
\* last write was cut short (build-public-js.mjs:450).
THEOREM CheckDecides == BuildSpec => []CheckIsExact
<1>1. BuildInv => CheckIsExact
    BY DEF BuildInv
<1> QED
    BY <1>1, BuildInvariant, PTL

\* No build and no check ends in success while a published file has conflict
\* markers, even when files are edited while it runs
\* (assertNoConflictMarkersInPublishCriticalAssets, build-public-js.mjs:378).
THEOREM SuccessMeansNoConflict == BuildSpec => NoConflictReleased
<1> DEFINE Clean == \A f \in Published : disk'[f] = NoFile \/ ~disk'[f].conflict
           Released == phase' = "done" /\ phase # "done" /\ exit' = 0
                          /\ "--candidate" \notin flags'
<1>1. ASSUME BuildInv, BuildNext, Released  PROVE Clean
    <2>1. CASE Verify \/ FinalCheck
        <3>1. disk' = disk /\ NoConflictMarkers(disk, {})
            BY <1>1, <2>1 DEF Verify, FinalCheck, Ends
        <3> QED  BY <3>1 DEF NoConflictMarkers, Offending, Listed
    <2>2. CASE WriteCandidate
        BY <1>1, <2>2 DEF WriteCandidate, BuildInv, ModeFits
    <2>3. CASE Start \/ BuildScript \/ ComputeRevision \/ Precheck
        BY <1>1, <2>3 DEF Start, BuildScript, ComputeRevision, NextPhase, Precheck, Ends
    <2>4. CASE WriteScript \/ WriteWorker \/ WriteIndex \/ WriteVersion
        BY <1>1, <2>4 DEF WriteScript, WriteWorker, WriteIndex, WriteVersion, WriteFile, Ends
    <2>5. CASE Return \/ Killed \/ EditFile
        BY <1>1, <2>5 DEF Return, Killed, EditFile, Exits
    <2> QED  BY <1>1, <2>1, <2>2, <2>3, <2>4, <2>5 DEF BuildNext
<1>2. BuildInv /\ [BuildNext]_vars
         => [phase' = "done" /\ phase # "done" /\ exit' = 0 /\ "--candidate" \notin flags'
               => \A f \in Published : disk'[f] = NoFile \/ ~disk'[f].conflict]_vars
    BY <1>1
<1> QED
    BY <1>2, BuildInvariant, PTL DEF BuildSpec, NoConflictReleased
=============================================================================
