---------------------------- MODULE DocumentStore ----------------------------
(***************************************************************************)
(* The canonical document of one (owner_key, app_id) pair: the row of the  *)
(* documents table that the HTTP API and the replay tool both write.       *)
(* UNIQUE (owner_key, app_id) makes it a single row, and no statement of   *)
(* the program ever deletes it.  SQLite runs every write transaction to    *)
(* commit or rollback without interleaving another writer, so PutDocument  *)
(* is one atomic step here.                                                *)
(***************************************************************************)
EXTENDS Integers

CONSTANTS
    Bodies,      \* the snapshots a client may store
    NoDocument,  \* the row does not exist
    NoVersion,   \* the request carries no version (a nil *int64)
    MaxVersion   \* bound: writes stop when the document reaches this version

ASSUME DocumentStoreAssumption ==
    /\ NoDocument \notin [version : Int, body : Bodies]
    /\ NoVersion \notin Int
    /\ MaxVersion \in Nat \ {0}

VARIABLE doc

Version == 1 .. MaxVersion
Document == [version : Version, body : Bodies]

\* A version a request may carry; zero asks for a document that does not exist.
ExpectedVersion == {NoVersion} \cup (0 .. MaxVersion)

DocumentTypeOK == doc \in Document \cup {NoDocument}

DocumentInit == doc = NoDocument

-----------------------------------------------------------------------------
\* Broken variant of Accepts: any version the document has had.
AcceptsOlder(d, expected) ==
    IF d = NoDocument THEN expected \in {NoVersion, 0}
                      ELSE expected \in {NoVersion} \cup (1 .. d.version)

(***************************************************************************)
(* PutDocument: optimistic write.  A missing row accepts no version or 0;  *)
(* an existing row accepts its own version, and also no version at all,    *)
(* in which case the UPDATE is unconditional.                              *)
(***************************************************************************)
Accepts(d, expected) ==
    IF d = NoDocument THEN expected \in {NoVersion, 0}
                      ELSE expected \in {NoVersion, d.version}

\* Broken variant of Written: an UPDATE that forgets to increase the version.
WrittenWithoutBump(d, body) ==
    [version |-> IF d = NoDocument THEN 1 ELSE d.version, body |-> body]

Written(d, body) ==
    [version |-> IF d = NoDocument THEN 1 ELSE d.version + 1, body |-> body]

PutDocument(body, expected) ==
    /\ Accepts(doc, expected)
    /\ doc # NoDocument => doc.version < MaxVersion
    /\ doc' = Written(doc, body)

\* VersionConflictError: the transaction rolls back and nothing changes.
PutDocumentConflict(expected) ==
    /\ ~ Accepts(doc, expected)
    /\ UNCHANGED doc
=============================================================================
