---------------------------- MODULE MCOpenDevice ----------------------------
(***************************************************************************)
(* A trace buffer of one byte is enough for a read to be given too little  *)
(* room and exactly enough, and to find the buffer empty or full.          *)
(***************************************************************************)
EXTENDS OpenDevice

=============================================================================
