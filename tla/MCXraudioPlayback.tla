------------------------- MODULE MCXraudioPlayback -------------------------
(* Instances of the playback for TLC.                                      *)
EXTENDS XraudioPlayback, TLC

CONSTANTS c1, c2

ClientSymmetry == Permutations({c1, c2})

Async(srcs) == {[src |-> s, sync |-> FALSE] : s \in srcs}
Sync(srcs)  == {[src |-> s, sync |-> TRUE] : s \in srcs}

FileAsync  == Async({"file"})
FileSync   == Sync({"file"})
PipeAsync  == Async({"pipe"})
PipeSync   == Sync({"pipe"})
UserAsync  == Async({"user"})
NoPipe     == Async({"file", "memory"}) \cup Sync({"file", "user"})

FileUser   == Async({"file", "user"})

ToTheEnd == {"data", "eof"}
AllReads == {"data", "eof", "error"}
Endless  == {"data"}
AnyWrite == {-1, 1}
GoodWrite == {1}
=============================================================================
