-------------------------- MODULE MCDeviceSessions --------------------------
(* DeviceSessions on two threads, two programmers and two places to plug   *)
(* them into: enough for one programmer to be claimed under two keys, for  *)
(* a stale sheet to name a place where another programmer now is, and for  *)
(* a find() to meet a create() on either.                                  *)
EXTENDS DeviceSessions

=============================================================================
