------------------------------ MODULE MCSyncApi ------------------------------
(***************************************************************************)
(* Small instances of SyncApi: one followed client, among all the others   *)
(* that ReplaySystem's Next stands for.                                    *)
(***************************************************************************)
EXTENDS SyncApi, OneNodeReplay
=============================================================================
