------------------------ MODULE MCXraudioLifecycle ------------------------
(* Instances of the life cycle for TLC.                                     *)
EXTENDS XraudioLifecycle, TLC

CONSTANTS c1, c2, o1, o2

ObjectSymmetry == Permutations({o1, o2})

Alone    == (c1 :> {o1})
Both     == (c1 :> {o1, o2})
Shared   == (c1 :> {o1} @@ c2 :> {o1})
Separate == (c1 :> {o1} @@ c2 :> {o2})

Mic      == [in |-> "mic", out |-> TRUE]
External == [in |-> "external", out |-> FALSE]
Speaker  == [in |-> "none", out |-> TRUE]
Hfp      == [in |-> "hfp", out |-> TRUE]

AllDevices == {Mic, External, Speaker, Hfp}
MicOnly    == {Mic}
SpeakerOnly == {Speaker}
MicSpeaker == {Mic, Speaker}
=============================================================================
