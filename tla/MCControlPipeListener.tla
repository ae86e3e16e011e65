----------------------- MODULE MCControlPipeListener -----------------------
(***************************************************************************)
(* Instances of ControlPipeListener for TLC.                               *)
(***************************************************************************)
EXTENDS ControlPipeListener

AllFaults == PossibleFaults
NoFaults == {}
=============================================================================
