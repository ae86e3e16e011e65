------------------------- MODULE MCServiceInstaller -------------------------
(* Two users and two packages of two files. *)
EXTENDS ServiceInstaller
=============================================================================
