------------------------- MODULE MCCommandExchange -------------------------
(***************************************************************************)
(* A V1 and a V2 programmer, every kind of command, any number of calls.   *)
(* A V2 never leaves anything unread; a V1 that stumbled leaves an item or *)
(* two at a time, and three are enough for a wrapper, a reply and another  *)
(* command's reply to be in the queue together.                            *)
(***************************************************************************)
EXTENDS CommandExchange

=============================================================================
