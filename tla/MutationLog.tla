----------------------------- MODULE MutationLog -----------------------------
(***************************************************************************)
(* What the sync server promises the clients of one document, without its  *)
(* tables, clock and operators: a document that only moves forward,        *)
(* mutations that keep the payload they were acknowledged with, and one    *)
(* replay of all mutations acknowledged so far.  ReplaySystem implements   *)
(* it.                                                                     *)
(***************************************************************************)
EXTENDS Naturals

CONSTANTS Mutation, Payload, Content, NoContent

VARIABLES
    version, content,   \* the document; version 0 while there is none
    payload,            \* the payload of each mutation acknowledged and not forgotten
    replayed            \* the mutations whose outcome is on record

logVars == <<version, content, payload, replayed>>

Acknowledged == DOMAIN payload

Init ==
    /\ version = 0 /\ content = NoContent
    /\ payload = [m \in {} |-> NoContent]
    /\ replayed = {}

Overwrite ==
    /\ version' = version + 1
    /\ content' \in Content

\* A client saves the document.
Save == Overwrite /\ UNCHANGED <<payload, replayed>>

\* A client's mutations are acknowledged; those known already keep their payload.
Acknowledge ==
    /\ \E ids \in SUBSET (Mutation \ Acknowledged) : \E new \in [ids -> Payload] :
          payload' = [m \in Acknowledged \cup ids |-> IF m \in ids THEN new[m] ELSE payload[m]]
    /\ UNCHANGED <<version, content, replayed>>

\* Everything acknowledged is replayed onto the document there is, once.
Replay ==
    /\ replayed = {} /\ Acknowledged # {}
    /\ version > 0
    /\ Overwrite
    /\ replayed' = Acknowledged
    /\ UNCHANGED payload

\* Retention: what was replayed is never forgotten.
Forget ==
    /\ \E kept \in SUBSET Acknowledged :
          /\ replayed \subseteq kept
          /\ payload' = [m \in kept |-> payload[m]]
    /\ UNCHANGED <<version, content, replayed>>

Next == Save \/ Acknowledge \/ Replay \/ Forget

Spec == Init /\ [][Next]_logVars
=============================================================================
