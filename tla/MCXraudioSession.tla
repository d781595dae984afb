-------------------------- MODULE MCXraudioSession --------------------------
(***************************************************************************)
(* Small instances of XraudioSession for TLC: the sets of requests that    *)
(* the runs let the clients make.                                          *)
(***************************************************************************)
EXTENDS XraudioSessionImplements, TLC

CONSTANTS Ptt, Tap

Request(src, dest, until, sync) ==
    [src |-> src, dest |-> dest, until |-> until, sync |-> sync]

NoTaps == {}
NoExternals == {}
NoHal == {}
FirstIndex == {0}
AllIndexes == {-1}

MixedRequests == {Request(Mic, "file", "speech", TRUE),
                  Request(Ptt, "pipe", "stream", FALSE)}
TapSpeech == {Request(Mic, "user", "speech", TRUE),
              Request(Tap, "pipe", "keyword", FALSE)}
TapAsync == {Request(Mic, "user", "speech", FALSE),
             Request(Tap, "pipe", "keyword", FALSE)}
AsyncRequests == {Request(Mic, "pipe", "speech", FALSE)}
PipeStream == {Request(Mic, "pipe", "stream", FALSE)}
PipeAndFile == {Request(Mic, "pipe", "stream", FALSE),
                Request(Mic, "file", "stream", FALSE)}
SyncMicStream == {Request(Mic, "pipe", "stream", TRUE)}
SyncPttStream == {Request(Ptt, "pipe", "stream", TRUE)}
FileUntilSpeech == {Request(Mic, "file", "speech", TRUE)}

ClientSymmetry == Permutations(Clients)
=============================================================================
