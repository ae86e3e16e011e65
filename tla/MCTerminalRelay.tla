--------------------------- MODULE MCTerminalRelay ---------------------------
(***************************************************************************)
(* Instances of TerminalRelay for TLC.                                     *)
(***************************************************************************)
EXTENDS TerminalRelay, TLC
=============================================================================
