---- MODULE MCStlinkGui ----
(***************************************************************************)
(* A file of each kind, and threads enough for two to meet.                *)
(***************************************************************************)
EXTENDS StlinkGui

TwoFiles == {"f.hex", "f.bin"}
OneHex == {"f.hex"}
====
