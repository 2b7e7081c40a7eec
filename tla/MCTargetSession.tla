-------------------------- MODULE MCTargetSession --------------------------
(***************************************************************************)
(* TargetSession needs no bounds: eight boards, and as many sessions one   *)
(* after another as it takes to leave a board in every state there is.     *)
(***************************************************************************)
EXTENDS TargetSession

=============================================================================
