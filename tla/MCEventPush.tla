---------------------------- MODULE MCEventPush -----------------------------
(***************************************************************************)
(* EventPush for TLC: which kinds the routes of a run accept.              *)
(***************************************************************************)
EXTENDS EventPush

CONSTANTS Everything, MessagesOnly   \* routes by what they match

MCMatches == Everything \X Kind \cup MessagesOnly \X {"new_message"}

MCRoute == Everything \cup MessagesOnly
=============================================================================
