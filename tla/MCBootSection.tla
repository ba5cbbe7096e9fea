--------------------------- MODULE MCBootSection ---------------------------
(***************************************************************************)
(* A boot section of four pages for TLC: the one with the reset entry, two *)
(* in the middle and the one of the page-writing routine.                  *)
(***************************************************************************)
EXTENDS BootSection
=============================================================================
