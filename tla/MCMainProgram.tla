---------------------------- MODULE MCMainProgram ----------------------------
(* Instances of MainProgram for TLC.                                        *)
EXTENDS MainProgram
=============================================================================
