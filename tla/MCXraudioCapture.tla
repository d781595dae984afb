-------------------------- MODULE MCXraudioCapture --------------------------
(* Instances of the captures for TLC.                                       *)
EXTENDS XraudioCapture

AllInputs == {{"all"}}
=============================================================================
