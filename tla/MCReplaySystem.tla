--------------------------- MODULE MCReplaySystem ---------------------------
(***************************************************************************)
(* A small instance of ReplaySystem: many rows over one body that every    *)
(* replay keeps (bodies that replays change: MCSyncApi).                   *)
(***************************************************************************)
EXTENDS ReplaySystem, OneNodeReplay
=============================================================================
