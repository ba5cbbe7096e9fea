----------------------------- MODULE MCReflash -----------------------------
(***************************************************************************)
(* A row of two units with an image of two pages for TLC.         *)
(***************************************************************************)
EXTENDS Reflash
=============================================================================
