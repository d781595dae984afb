------------------------- MODULE MCXraudioResource -------------------------
(* Instances of the resource manager for TLC.                              *)
EXTENDS XraudioResource, TLC

CONSTANTS u1, u2, u3, p1, p2, p3

Two    == {u1, u2}
Three  == {u1, u2, u3}
TwoProcs == {p1, p2}
ThreeProcs == {p1, p2, p3}
\* Every user is a process of its own, or two share one.
Apart2 == u1 :> p1 @@ u2 :> p2
Apart3 == u1 :> p1 @@ u2 :> p2 @@ u3 :> p3
OneOfTwo == u1 :> p1 @@ u2 :> p2 @@ u3 :> p2

NoIds == {}
OneId == {0}
TwoIds == {0, 1}
NoCaps == [d \in {} |-> {}]
Normal1 == 0 :> {"normal"}

Record(p) == [in |-> TRUE, out |-> "none", prio |-> p]
Play(p)   == [in |-> FALSE, out |-> "normal", prio |-> p]
Records == {Record(0), Record(2)}
Record0 == {Record(0)}
Ranked  == {Record(0), Record(1), Play(2)}

Paired == {Record(0), [Record(2) EXCEPT !.out = "normal"]}

Never == {}
Holding  == {"holding"}
WhileWaiting == {"holding", "waiting"}
BetweenSections == {"holding", "waiting", "handling"}
\* One of the two, or both, of the moments that DeviceExclusive does not survive.
ButUnmarked == Moments \ {"unmarked"}
ButMarked   == Moments \ {"marked"}
ButBoth     == Moments \ {"unmarked", "marked"}
=============================================================================
