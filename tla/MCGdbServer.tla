---------------------------- MODULE MCGdbServer ----------------------------
(***************************************************************************)
(* What GDB is used for: breakpoints and watchpoints, loading a program,   *)
(* writing code that is run and that calls the debugger, breakpoints next  *)
(* to such calls, and a program that makes every call there is.            *)
(***************************************************************************)
EXTENDS GdbServer

AllUses == {{"break"}, {"watch"}, {"load"}, {"code", "calls"}, {"break", "calls"}, {"files"}}
LoadsOnly == {{"load"}}
=============================================================================
