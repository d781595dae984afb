----------------------- MODULE MCXraudioKeywordStream -----------------------
(* Instances of the keyword streams for TLC.                                *)
EXTENDS XraudioKeywordStream

Stream(group, dest, until, from, offset, qty) ==
    [group |-> group, dest |-> dest, until |-> until, from |-> from,
     offset |-> offset, qty |-> qty]

FromKeyword == {Stream("default", "pipe", "speech", "keywordBegin", o, q) : o \in {-1, 1}, q \in {1, 2}}
FromTap == {Stream("tap", "pipe", "stream", "keywordBegin", 0, 1)}
FromLive == {Stream("default", "user", "stream", "live", 0, 2)}
Asked == FromKeyword \cup FromTap \cup FromLive

SomeBegins == {-3, -2}
=============================================================================
