--------------------------- MODULE MCBrowserStorage ---------------------------
(***************************************************************************)
(* Instances of BrowserStorage: two keys, the disks a release finds.       *)
(***************************************************************************)
EXTENDS BrowserStorage

CONSTANTS v1, v2

\* A browser that never ran the program.
Fresh == [snapshot |-> NoRecord, marker |-> FALSE, local |-> Nothing, dirty |-> FALSE]

\* localStorage written by a release that did not use IndexedDB.
Legacy == [Fresh EXCEPT !.local = [Nothing EXCEPT ![TabsKey] = v1]]

\* A migrated browser that kept an old backup in localStorage.
Migrated == [snapshot |-> [Nothing EXCEPT ![TabsKey] = v2], marker |-> TRUE,
             local |-> [Nothing EXCEPT ![TabsKey] = v1], dirty |-> FALSE]

\* Something broke the snapshot.
Broken == [Nothing EXCEPT ![TabsKey] = Unparsable]
BrokenSnapshot == [Migrated EXCEPT !.snapshot = Broken]

\* Where the run of the safety properties starts, and where the others do.
SoundDisks == {Fresh, Legacy, Migrated, BrokenSnapshot}
FreshDisk == {Fresh}

\* The runs start where the theorems do.
ASSUME SoundDisksAreSound == InitialDisks \subseteq SoundDisks => DisksAreSound
=============================================================================
