-------------------------- MODULE MCGameTransfer --------------------------
(***************************************************************************)
(* A package for TLC: a plain gamecard content of two blocks, a compressed *)
(* content of two, and the control content that Prepare reads before the   *)
(* transfer.                                                               *)
(***************************************************************************)
EXTENDS GameTransfer

MCSize == <<2, 2, 1>>
MCReach == << <<>>, <<2>>, <<>> >>
MCGamecard == {1}
=============================================================================
