------------------------ MODULE XraudioKeywordStream ------------------------
(***************************************************************************)
(* From the microphone to a stream: the ring buffer that keeps the audio   *)
(* of the last seconds, the local keyword detector that listens on several *)
(* channels and reports one of them, and a stream that starts at a point   *)
(* in the past, from the ring, and goes on with live audio in groups of    *)
(* frames (xraudio_thread.c with XRAUDIO_KWD_ENABLED).                     *)
(*                                                                         *)
(* A sample is its number since the microphone was opened; `now' is the    *)
(* number of the next.  The rings of all channels are written in the same  *)
(* places, so that one stands for all.                                     *)
(***************************************************************************)
EXTENDS Integers, Sequences

CONSTANTS
    ChanQty,     \* channels with a keyword detector
    FrameQty,    \* XRAUDIO_INPUT_FRAME_SAMPLE_QTY
    RingFrames,  \* capacity of the ring, in frames
    Threshold,   \* KEYWORD_TRIGGER_DETECT_THRESHOLD
    ByteQty,     \* values of post_frame_count, a uint8_t
    WordQty,     \* values of pre_detection_sample_qty, a uint32_t
    Requests,    \* the streams the clients start
    Care,        \* what the clients take care of
    Begins,      \* where a detector may find that a keyword began
    Scores,      \* how sure it may be
    MaxFrames    \* bound: frames

Groups  == {"default", "tap"}
Froms   == {"beginning", "live", "keywordBegin", "keywordEnd"}
Cares   == {"answers", "oneFrame", "heard", "once"}
RequestType == [group : Groups, dest : {"pipe", "user"}, until : {"stream", "speech"},
                from : Froms, offset : Int, qty : Nat \ {0}]

ASSUME SizesAssumption ==
    /\ ChanQty \in Nat \ {0} /\ FrameQty \in Nat \ {0} /\ RingFrames \in Nat \ {0}
    /\ Threshold \in Nat /\ ByteQty \in Nat \ {0} /\ WordQty \in Nat \ {0}
    /\ MaxFrames \in Nat
ASSUME ClientsAssumption == Requests \subseteq RequestType /\ Care \subseteq Cares
ASSUME DetectorAssumption == Begins \subseteq Int /\ Scores \subseteq Nat

Chans   == 0 .. ChanQty - 1
RingQty == RingFrames * FrameQty

VARIABLES
    now,      \* samples read so far
    ring,     \* pre_detection_buffer_fp32
    avail,    \* pd_sample_qty
    write,    \* pd_index_write
    det,      \* the rest of the keyword detector, per channel in ch
    idx,      \* frame_group_index, of both groups
    inst,     \* per group the recording instance
    strm,     \* per group: what its last stream was to deliver and has delivered
    report,   \* the last keyword event the client was given
    armedAt   \* when the detector was armed

kept == <<ring, avail, write>>
vars == <<now, kept, det, idx, inst, strm, report, armedAt>>

Lost == -1       \* a sample of the ring that was overwritten in place
None == -1
NoChan == [triggered |-> FALSE, post |-> 0, begin |-> 0, score |-> 0, at |-> 0]
NoInst == [on |-> FALSE, dest |-> "none", until |-> "none", qty |-> 1, pre |-> 0]
NoStrm == [want |-> 0, out |-> <<>>, upTo |-> None]
NoReport == [begin |-> 0, end |-> 0, heard |-> {0}, fresh |-> FALSE]

Init ==
    /\ now = 0
    /\ ring = [i \in 0 .. RingQty - 1 |-> 0] /\ avail = 0 /\ write = 0
    /\ det = [active |-> FALSE, armed |-> FALSE, triggered |-> FALSE,
              ch |-> [c \in Chans |-> NoChan], chosen |-> None, begin |-> 0, end |-> 0,
              postTrigger |-> 0, postCallback |-> 0]
    /\ idx = 0 /\ inst = [g \in Groups |-> NoInst] /\ strm = [g \in Groups |-> NoStrm]
    /\ report = NoReport /\ armedAt = 0

-----------------------------------------------------------------------------
(* The ring.                                                               *)

\* xraudio_in_write_to_keyword_buffer for the frame that begins with sample n.
RingWith(rg, n) ==
    [i \in 0 .. RingQty - 1 |->
        IF write <= i /\ i < write + FrameQty THEN n + (i - write) ELSE rg[i]]
AvailUncapped == avail + FrameQty                  \* mutant: the ring never fills up
AvailAfter == IF avail < RingQty THEN avail + FrameQty ELSE avail
WriteLate ==                                       \* mutant: wraps one frame late
    IF write + FrameQty > RingQty THEN 0 ELSE write + FrameQty
WriteAfter == IF write + FrameQty >= RingQty THEN 0 ELSE write + FrameQty

\* xraudio_in_pre_detection_chunks: where the last n samples begin, and how
\* many of them are in one piece.
ChunkBegin(n) == IF write - n < 0 THEN write - n + avail ELSE write - n
ChunkQty(n) == IF ChunkBegin(n) + n > avail THEN avail - ChunkBegin(n) ELSE n
Chunks(rg, n) ==
    [i \in 1 .. n |-> IF i <= ChunkQty(n) THEN rg[ChunkBegin(n) + i - 1]
                      ELSE rg[i - ChunkQty(n) - 1]]
\* The chunks are converted to half their size in place.
Half(n) == (n + 1) \div 2
Converted(rg, n) ==
    [i \in 0 .. RingQty - 1 |->
        IF \/ ChunkBegin(n) <= i /\ i < ChunkBegin(n) + Half(ChunkQty(n))
           \/ i < Half(n - ChunkQty(n))
        THEN Lost ELSE rg[i]]

-----------------------------------------------------------------------------
(* The keyword detector.                                                   *)

Disarmed(d) ==
    [d EXCEPT !.armed = FALSE, !.triggered = FALSE,
              !.ch = [c \in Chans |-> NoChan]]
Armed(d) ==
    [Disarmed(d) EXCEPT !.armed = TRUE, !.chosen = None, !.postTrigger = 0,
                        !.postCallback = 0]

NoHit == [begin |-> 0, score |-> 0, hit |-> FALSE]
\* What the detectors of the channels find in a frame that ends with sample n:
\* keywords that began after the detector was armed and are still in the ring.
Hits(n) ==
    [Chans -> {NoHit} \cup
              {[begin |-> b, score |-> s, hit |-> TRUE] :
                  b \in {b \in Begins : -b <= AvailAfter /\ n + b >= armedAt}, s \in Scores}]

\* The channels after a frame that ends with sample n.
ChansAfter(d, hits, n) ==
    [c \in Chans |->
        IF d.ch[c].triggered THEN [d.ch[c] EXCEPT !.post = (@ + 1) % ByteQty]
        ELSE IF hits[c].hit
        THEN [triggered |-> TRUE, post |-> 0, begin |-> hits[c].begin,
              score |-> hits[c].score, at |-> n + hits[c].begin]
        ELSE d.ch[c]]
\* The loop over the channels takes each new hit that is not worse than the best.
New(d, hits) == {c \in Chans : hits[c].hit /\ ~d.ch[c].triggered}
BestOf(d, hits) ==
    {c \in New(d, hits) :
        /\ \A e \in New(d, hits) : hits[e].score <= hits[c].score
        /\ d.chosen # None => d.ch[d.chosen].score <= hits[c].score}
LastOf(cs) == CHOOSE c \in cs : \A e \in cs : e <= c
Heard(d, hits, n) ==
    LET d1 == [d EXCEPT !.ch = ChansAfter(d, hits, n),
                        !.triggered = @ \/ New(d, hits) # {}]
        b  == BestOf(d, hits)
    IN  IF b = {} THEN d1
        ELSE [d1 EXCEPT !.chosen = LastOf(b), !.begin = hits[LastOf(b)].begin, !.end = 0]

\* The event: the endpoints count back from the end of this frame.
AdjustedByFirst(d) ==                   \* mutant: counted since the first channel
    LET back == (d.postTrigger - 1) * FrameQty
    IN  [d EXCEPT !.begin = @ - back, !.end = @ - back]
Adjusted(d) ==
    LET back == d.ch[d.chosen].post * FrameQty
    IN  [d EXCEPT !.begin = @ - back, !.end = @ - back]
Told(d, n) ==
    [begin |-> n + d.begin, end |-> n + d.end, fresh |-> TRUE,
     heard |-> {d.ch[c].at : c \in {c \in Chans : /\ d.ch[c].triggered
                      /\ \A e \in Chans : d.ch[e].triggered =>
                                            d.ch[e].score <= d.ch[c].score}}]

\* xraudio_in_write_to_keyword_detector after the ring has been written. The HAL
\* may ask to ignore the keyword; the group may belong to another source.
Detector(n) ==
    LET counted(d) == [d EXCEPT !.postCallback = @ + 1]
        waits(d) == /\ \E c \in Chans : ~d.ch[c].triggered
                    /\ d.postTrigger <= Threshold
    IN  IF ~det.armed
        THEN det' = counted(det) /\ UNCHANGED <<report, armedAt>>
        ELSE \E hits \in Hits(n) :
               LET d0 == counted(Heard(det, hits, n))
                   d1 == [d0 EXCEPT !.postTrigger = @ + 1]
               IN  IF ~d0.triggered
                   THEN det' = d0 /\ UNCHANGED <<report, armedAt>>
                   ELSE IF waits(d1)
                   THEN det' = d1 /\ UNCHANGED <<report, armedAt>>
                   ELSE \/ det' = Armed(d1) /\ armedAt' = n /\ UNCHANGED report
                        \/ det' = d1 /\ UNCHANGED <<report, armedAt>>
                        \/ LET d2 == Adjusted(d1) IN
                           /\ report' = Told(d2, n)
                           /\ det' = [Disarmed(d2) EXCEPT !.postCallback = 0]
                           /\ UNCHANGED armedAt

-----------------------------------------------------------------------------
(* The writers of the streams.                                             *)

\* xraudio_in_write_to_pipe and xraudio_in_write_to_user, when k frames of a
\* group have been collected, of which the last ends before sample m.  A pipe that
\* has been closed is the destination "none".
Newest(n, m) == [i \in 1 .. n |-> m - n + i - 1]
Pre(i) == IF i.dest = "pipe" THEN i.pre ELSE 0
Live(i, k, m) == IF k >= i.qty THEN Newest(k * FrameQty, m) ELSE <<>>
Serve(st, g, k, m) ==
    LET i == st.inst[g] IN
    IF ~i.on \/ i.dest = "none" THEN st
    ELSE [ring |-> IF Pre(i) > 0 THEN Converted(st.ring, Pre(i)) ELSE st.ring,
          inst |-> [st.inst EXCEPT ![g].pre = @ - Pre(i)],
          strm |-> [st.strm EXCEPT ![g].out = @ \o Chunks(st.ring, Pre(i)) \o Live(i, k, m)]]
State == [ring |-> ring, inst |-> inst, strm |-> strm]

\* xraudio_in_flush: what is left of a group of frames is written, but for the tap.
FlushNothing(st, g, k, m) == Serve(st, g, k, m)       \* mutant: only whole groups
Flush(st, g, k, m) ==
    Serve(IF g = "tap" THEN st ELSE [st EXCEPT !.inst[g].qty = 1], g, k, m)

-----------------------------------------------------------------------------
(* Messages.                                                               *)

\* xraudio_msg_detect; the API refuses it while the default group streams.
Detect ==
    /\ ~inst["default"].on
    /\ inst' = [inst EXCEPT !["default"] = NoInst]
    /\ IF det.active THEN det' = Armed(det) /\ UNCHANGED kept
       ELSE /\ det' = [Armed(det) EXCEPT !.active = TRUE]
            /\ ring' = [i \in 0 .. RingQty - 1 |-> 0] /\ avail' = 0 /\ write' = 0
    /\ idx' = 0 /\ armedAt' = now /\ report' = [report EXCEPT !.fresh = FALSE]
    /\ UNCHANGED <<now, strm>>

\* Where the client wants its stream to begin.
Wish(r) ==
    CASE r.from = "live"         -> now
      [] r.from = "beginning"    -> now - avail + r.offset
      [] r.from = "keywordBegin" -> report.begin + r.offset
      [] r.from = "keywordEnd"   -> report.end + r.offset
Oldest(n) == IF n < now - avail THEN now - avail ELSE n

\* A keyword stream answers a keyword event; groups of several frames are for
\* one stream at a time, not of the tap; a stream begins with a sample that has
\* been heard, and with none that was streamed before.
Careful(r) ==
    /\ "answers" \in Care /\ r.from \in {"keywordBegin", "keywordEnd"} => report.fresh
    /\ "oneFrame" \in Care =>
          \/ r.qty = 1 /\ \A g \in Groups : inst[g].on => inst[g].qty = 1
          \/ r.group = "default" /\ ~inst["tap"].on
    /\ "heard" \in Care => Wish(r) <= now
    /\ "once" \in Care => Wish(r) >= armedAt \/ Wish(r) >= now

\* The samples to take from the ring, a uint32_t, with the frames since the event.
Post(r, d) == IF r.from = "live" THEN 0 ELSE d.postCallback
PreQty(r, d) ==
    LET qty == CASE r.from = "live"         -> 0
                 [] r.from = "beginning"    -> avail - r.offset
                 [] r.from = "keywordBegin" -> -d.begin - r.offset
                 [] r.from = "keywordEnd"   -> -r.offset
        n   == (qty + Post(r, d) * FrameQty) % WordQty
    IN  IF n > avail THEN avail ELSE n

\* xraudio_msg_record_start for a local source.
RecordStart ==
    \E r \in Requests :
        /\ ~inst[r.group].on /\ Careful(r)
        /\ LET d == IF r.from = "keywordEnd" /\ ~det.triggered
                    THEN [det EXCEPT !.postCallback = 0] ELSE det
           IN  /\ inst' = [inst EXCEPT ![r.group] =
                              [on |-> TRUE, dest |-> r.dest, until |-> r.until, qty |-> r.qty,
                               pre |-> PreQty(r, d)]]
               /\ det' = IF r.group = "tap" THEN d ELSE Disarmed(d)
        /\ strm' = [strm EXCEPT ![r.group] =
                              [want |-> Oldest(Wish(r)), out |-> <<>>, upTo |-> None]]
        /\ report' = [report EXCEPT !.fresh = FALSE]
        /\ idx' = 0
        /\ UNCHANGED <<now, kept, armedAt>>

\* A stream was to deliver what came before sample n.
UpTo(s, n) == [s EXCEPT !.upTo = IF @ = None THEN n ELSE @]

\* xraudio_msg_record_stop.
RecordStop ==
    \E g \in Groups :
        /\ inst[g].on
        /\ LET st == Flush(State, g, idx, now) IN
            /\ ring' = st.ring
            /\ inst' = [inst EXCEPT ![g] = NoInst]
            /\ strm' = [st.strm EXCEPT ![g] = UpTo(@, now)]
        /\ UNCHANGED <<now, avail, write, det, idx, report, armedAt>>

-----------------------------------------------------------------------------
(* xraudio_process_mic_data: a frame goes to the streams, then to the ring *)
(* and the detector; the end of speech ends a stream of the default group. *)

\* The end of speech, when a group has k frames: what is left is written, and
\* a pipe is closed.
SpeechEnds(st, k, n) ==
    LET st1 == Flush(st, "default", k, n) IN
    [st1 EXCEPT !.inst["default"].until = "none",
                !.inst["default"].dest = IF @ = "pipe" THEN "none" ELSE @,
                !.strm["default"] = UpTo(@, n)]

MicFrame ==
    /\ now < MaxFrames * FrameQty
    /\ LET n  == now + FrameQty
           k  == idx + 1
           st == Serve(Serve(State, "default", k, n), "tap", k, n)
           left == IF k >= inst["default"].qty THEN 0 ELSE k
       IN  /\ now' = n
           /\ \/ inst' = st.inst /\ strm' = st.strm /\ idx' = left
              \/ /\ inst["default"].until = "speech"
                 /\ LET end == SpeechEnds(st, left, n)
                    IN  inst' = end.inst /\ strm' = end.strm
                 /\ idx' = 0
           /\ IF det.active
              THEN /\ ring' = RingWith(st.ring, now) /\ avail' = AvailAfter /\ write' = WriteAfter
                   /\ Detector(n)
              ELSE ring' = st.ring /\ UNCHANGED <<avail, write, det, report, armedAt>>

Next == Detect \/ RecordStart \/ RecordStop \/ MicFrame

Spec == Init /\ [][Next]_vars

-----------------------------------------------------------------------------
(* Properties.                                                             *)

\* Every variable has its type; in particular no index leaves the ring.
TypeOK ==
    /\ now \in Nat
    /\ ring \in [0 .. RingQty - 1 -> Nat \cup {Lost}]
    /\ avail \in 0 .. RingQty /\ write \in 0 .. RingQty - 1
    /\ det.chosen \in Chans \cup {None} /\ det.postCallback \in Nat
    /\ idx \in Nat
    /\ \A g \in Groups : inst[g].pre \in 0 .. avail /\ inst[g].qty \in Nat \ {0}

\* What the ring holds are the last samples read, in their order, but for those
\* that were converted in place; and it holds as many as it can.
Place(n) == IF n <= write THEN write - n ELSE write - n + RingQty
RingHoldsNewest ==
    /\ \A n \in 1 .. avail : ring[Place(n)] \in {now - n, Lost}
    /\ avail < RingQty => write = avail

\* A stream begins where the client asked, in the past or now, or at the oldest
\* sample left, and goes on without a gap, a repetition or a damaged sample; once
\* it has ended, it has delivered all that was read until then.
StreamExact ==
    \A g \in Groups :
        LET s == strm[g] IN
        /\ \A i \in DOMAIN s.out : s.out[i] = s.want + i - 1
        /\ s.upTo # None => Len(s.out) = s.upTo - s.want

\* The keyword event tells where the keyword began for a channel that is as sure
\* of it as any, however many frames and channels came between.
ReportTrue == report.begin \in report.heard
=============================================================================
