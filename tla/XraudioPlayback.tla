-------------------------- MODULE XraudioPlayback --------------------------
(***************************************************************************)
(* The playback side of xraudio: the client calls that play, pause, resume *)
(* and stop, set the volume, the sound intensity fifo and the bluetooth    *)
(* HFP bypass, open and close (xraudio.c), the output object behind its    *)
(* play mutex (xraudio_output.c), and the part of the main thread that     *)
(* serves their messages and writes the frames (xraudio_thread.c).         *)
(*                                                                         *)
(* A client step runs to the next point where the thread can block or      *)
(* where another thread can come between a check and what follows it.      *)
(* Playbacks are numbered: the HAL output, file, pipe and fifo that belong *)
(* to playback n are the handles <<kind, n>>.                              *)
(***************************************************************************)
EXTENDS Integers, Sequences, FiniteSets

CONSTANTS
    Clients,    \* client threads of one xraudio object
    Main,       \* the main thread, which calls back into the clients' code
    None,       \* no thread
    Ops,        \* the API calls the clients make
    Plays,      \* the playbacks they ask for
    Reads,      \* what a read from a pipe or from the user's handler can return
    HalWrites,  \* the sign of what the HAL's write returns
    MicRuns,    \* the microphone runs too: the frame timer never stops
    CallbackStops, \* the clients' callbacks call xraudio_play_stop
    QMax,       \* capacity of the main message queue
    MaxPlays,   \* bound: playbacks
    MaxOpens,   \* bound: openings of the object
    MaxFrames   \* bound: frames of a file or a buffer

Finite   == {"file", "memory"}
Kinds    == Finite \cup {"pipe", "user"}
Requests == [src : Kinds, sync : BOOLEAN]
AllOps   == {"open", "close", "play", "stop", "pause", "pauseSync", "resume",
             "resumeSync", "volume", "intensity", "hfpStart", "hfpStop"}
Callers  == Clients \cup {Main}

ASSUME CallersAssumption == None \notin Callers /\ Main \notin Clients
ASSUME OpsAssumption == Ops \subseteq AllOps /\ Plays \subseteq Requests
ASSUME OutcomesAssumption ==
    /\ Reads \subseteq {"data", "eof", "error"}
    /\ HalWrites \subseteq -1 .. 1
    /\ {MicRuns, CallbackStops} \subseteq BOOLEAN
ASSUME BoundsAssumption ==
    QMax \in Nat \ {0} /\ MaxPlays \in Nat /\ MaxOpens \in Nat /\ MaxFrames \in Nat

VARIABLES
    call,    \* per thread: the API call in progress and where it is
    api,     \* holder of mutex_api
    play,    \* holder of mutex_play
    posted,  \* threads whose stack semaphore has been posted
    obj,     \* xraudio_output_obj_t
    plays,   \* playbacks started so far
    opens,   \* output objects created so far
    open,    \* handles that are open
    stray,   \* handles that were used or closed when they were not open
    q,       \* the main message queue
    thr,     \* the main thread's xraudio_session_playback_t
    timer,   \* the frame timer is armed
    told     \* per playback: the events its callback has had

clientVars == <<call, api, play>>
vars == <<clientVars, posted, obj, plays, opens, open, stray, q, thr, timer, told>>

-----------------------------------------------------------------------------
(* Records.                                                                *)

Nums == 0 .. MaxPlays                       \* 0: none
Handles == {"hal", "file", "pipe", "fifo"} \X (Nums \ {0})
Waits == {"waitPlay", "waitStop", "waitPause", "waitTerm"}
PCs   == {"out", "api", "enter", "pausing", "volume"} \cup Waits
CallType == [pc : PCs, op : AllOps \cup {"none"}, src : Kinds \cup {"none"},
             sync : BOOLEAN, gen : 0 .. MaxOpens, hal : Nums]
NoCall == [pc |-> "out", op |-> "none", src |-> "none", sync |-> FALSE,
           gen |-> 0, hal |-> 0]

States == {"created", "idling", "playing", "paused"}
ObjType == [live : BOOLEAN, state : States, hal : Nums, file : Nums, memory : Nums,
            pipe : Nums, user : Nums, fifo : Nums, named : BOOLEAN]
NewObj == [live |-> TRUE, state |-> "idling", hal |-> 0, file |-> 0, memory |-> 0,
           pipe |-> 0, user |-> 0, fifo |-> 0, named |-> FALSE]
NoObj  == [NewObj EXCEPT !.live = FALSE, !.state = "created"]

Msg == [type : {"start"}, sem : Callers \cup {None}, n : Nums, hal : Nums, file : Nums,
        memory : Nums, pipe : Nums, user : Nums, fifo : Nums, left : 0 .. MaxFrames]
       \cup [type : {"pause", "resume", "stop", "terminate"}, sem : Callers \cup {None}]
ThrType == [on : BOOLEAN, hal : Nums, file : Nums, memory : Nums, pipe : Nums,
            user : Nums, fifo : Nums, left : 0 .. MaxFrames, sync : BOOLEAN,
            cb : Nums, sem : Callers \cup {None}]
NoThr  == [on |-> FALSE, hal |-> 0, file |-> 0, memory |-> 0, pipe |-> 0, user |-> 0,
           fifo |-> 0, left |-> 0, sync |-> FALSE, cb |-> 0, sem |-> None]

Init ==
    /\ call = [c \in Callers |-> NoCall]
    /\ api = None /\ play = None /\ posted = {}
    /\ obj = NoObj /\ plays = 0 /\ opens = 0
    /\ open = {} /\ stray = {}
    /\ q = <<>> /\ thr = NoThr /\ timer = FALSE
    /\ told = [n \in 1 .. MaxPlays |-> [eof |-> 0, error |-> 0]]

Held(kind, n) == IF n = 0 THEN {} ELSE {<<kind, n>>}

\* xr_mq_push fails when the queue is full; the caller only logs it.
Push(m) == q' = IF Len(q) < QMax THEN Append(q, m) ELSE q
Signal(type, c) == Push([type |-> type, sem |-> c])

-----------------------------------------------------------------------------
(* Client threads: entering and leaving a call.                            *)

At(c, pc) == call[c].pc = pc
Doing(c, pc, op) == At(c, pc) /\ call[c].op = op
Goto(c, pc) == call' = [call EXCEPT ![c].pc = pc]

\* The call returns and its thread gives back the mutexes it holds.
Return(c) ==
    /\ call' = [call EXCEPT ![c] = NoCall]
    /\ api'  = IF api = c THEN None ELSE api
    /\ play' = IF play = c THEN None ELSE play

Call(c) ==
    /\ At(c, "out") /\ c # Main
    /\ \E op \in Ops :
        /\ op = "play" => plays < MaxPlays
        /\ op = "hfpStart" => plays < MaxPlays
        /\ \E r \in IF op = "play" THEN Plays ELSE {[src |-> "none", sync |-> FALSE]} :
            call' = [call EXCEPT ![c] = [NoCall EXCEPT !.pc = "api", !.op = op,
                                                       !.src = r.src, !.sync = r.sync]]
    /\ UNCHANGED <<api, play, posted, obj, plays, opens, open, stray, q, thr, timer, told>>

\* mutex_api, and the check that there is an output object.
TakesApi(c) == At(c, "api") /\ api = None
Enters(c) == [call[c] EXCEPT !.pc = "enter", !.gen = opens]

\* xraudio_open, as far as playback goes: the object and the main thread.
\* It is refused when xraudio is open; beyond the bound it fails.
Open(c) ==
    /\ TakesApi(c) /\ call[c].op = "open"
    /\ IF obj.live \/ opens = MaxOpens
       THEN UNCHANGED <<obj, opens, thr, timer>>
       ELSE /\ obj' = NewObj /\ opens' = opens + 1
            /\ thr' = [NoThr EXCEPT !.on = TRUE]
            /\ timer' = MicRuns
    /\ Return(c)
    /\ UNCHANGED <<posted, plays, open, stray, q, told>>

\* xraudio is not open, or a pause or resume finds the wrong state.
Refused(c) ==
    /\ TakesApi(c) /\ call[c].op # "open"
    /\ \/ ~obj.live
       \/ call[c].op \in {"pause", "pauseSync"} /\ obj.state # "playing"
       \/ call[c].op \in {"resume", "resumeSync"} /\ obj.state # "paused"
    /\ Return(c)
    /\ UNCHANGED <<posted, obj, plays, opens, open, stray, q, thr, timer, told>>

\* A synchronous play gives mutex_api back before it calls the output object.
EnterSync(c) ==
    /\ TakesApi(c) /\ obj.live
    /\ call[c].op = "play" /\ call[c].sync
    /\ call' = [call EXCEPT ![c] = Enters(c)]
    /\ UNCHANGED <<api, play, posted, obj, plays, opens, open, stray, q, thr, timer, told>>

\* Mutant: an asynchronous call gives mutex_api back as well.
EnterUnlocked(c) ==
    /\ TakesApi(c) /\ obj.live
    /\ call[c].op \in {"play", "stop", "close", "hfpStart", "hfpStop"}
    /\ call' = [call EXCEPT ![c] = Enters(c)]
    /\ UNCHANGED <<api, play, posted, obj, plays, opens, open, stray, q, thr, timer, told>>

Enter(c) ==
    /\ TakesApi(c) /\ obj.live
    /\ call[c].op \in {"play", "stop", "close", "hfpStart", "hfpStop"}
    /\ ~call[c].sync
    /\ api' = c
    /\ call' = [call EXCEPT ![c] = Enters(c)]
    /\ UNCHANGED <<play, posted, obj, plays, opens, open, stray, q, thr, timer, told>>

\* Pause and resume check the state without mutex_play.
CheckState(c) ==
    /\ TakesApi(c) /\ obj.live
    /\ \/ call[c].op \in {"pause", "pauseSync"} /\ obj.state = "playing"
       \/ call[c].op \in {"resume", "resumeSync"} /\ obj.state = "paused"
    /\ api' = c
    /\ Goto(c, "pausing")
    /\ UNCHANGED <<play, posted, obj, plays, opens, open, stray, q, thr, timer, told>>

\* The volume calls read the handle of the HAL output without mutex_play.
ReadHandle(c) ==
    /\ TakesApi(c) /\ obj.live /\ call[c].op = "volume"
    /\ IF obj.hal = 0
       THEN Return(c)
       ELSE /\ api' = c
            /\ call' = [call EXCEPT ![c].pc = "volume", ![c].hal = obj.hal]
            /\ UNCHANGED play
    /\ UNCHANGED <<posted, obj, plays, opens, open, stray, q, thr, timer, told>>

SetVolume(c) ==
    /\ At(c, "volume")
    /\ stray' = stray \cup (Held("hal", call[c].hal) \ open)
    /\ Return(c)
    /\ UNCHANGED <<posted, obj, plays, opens, open, q, thr, timer, told>>

\* xraudio_output_sound_intensity_transfer: without mutex_play.
Intensity(c) ==
    /\ TakesApi(c) /\ obj.live /\ call[c].op = "intensity"
    /\ \E named \in BOOLEAN : obj' = [obj EXCEPT !.fifo = 0, !.named = named]
    /\ open' = open \ Held("fifo", obj.fifo)
    /\ stray' = stray \cup (Held("fifo", obj.fifo) \ open)
    /\ Return(c)
    /\ UNCHANGED <<posted, plays, opens, q, thr, timer, told>>

-----------------------------------------------------------------------------
(* Client threads: behind mutex_play (xraudio_output.c).                   *)

\* The output object that a thread entered with has been destroyed since.
Dangling(c) == ~obj.live \/ call[c].gen # opens

\* The freed object fails its identifier check; other outcomes are undefined.
EnterFreed(c) ==
    /\ At(c, "enter") /\ Dangling(c)
    /\ Return(c)
    /\ UNCHANGED <<posted, obj, plays, opens, open, stray, q, thr, timer, told>>

TakesPlay(c, op) == Doing(c, "enter", op) /\ ~Dangling(c) /\ play = None

\* The state check, then the parameters, the file, its header or the HAL fail.
PlayFails(c) ==
    /\ TakesPlay(c, "play") \/ TakesPlay(c, "hfpStart")
    /\ Return(c)
    /\ UNCHANGED <<posted, obj, plays, opens, open, stray, q, thr, timer, told>>

\* xraudio_output_play_from_file, _memory, _pipe, _user; dispatch_play.
Play(c) ==
    LET n   == plays + 1
        src == call[c].src
        o   == [obj EXCEPT ![src] = n, !.state = "playing", !.hal = n,
                           !.fifo = IF obj.named THEN n ELSE obj.fifo]
    IN  /\ TakesPlay(c, "play") /\ obj.state = "idling" /\ plays < MaxPlays
        /\ plays' = n /\ obj' = o
        /\ open' = open \cup {<<"hal", n>>} \cup (IF obj.named THEN {<<"fifo", n>>} ELSE {})
                        \cup (IF src \in {"file", "pipe"} THEN {<<src, n>>} ELSE {})
        /\ \E len \in IF src \in Finite THEN 1 .. MaxFrames ELSE {0} :
            Push([type |-> "start", sem |-> IF call[c].sync THEN c ELSE None, n |-> n,
                  hal |-> o.hal, file |-> o.file, memory |-> o.memory, pipe |-> o.pipe,
                  user |-> o.user, fifo |-> o.fifo, left |-> len])
        /\ IF call[c].sync
           THEN Goto(c, "waitPlay") /\ play' = c /\ UNCHANGED api
           ELSE Return(c)
        /\ UNCHANGED <<posted, opens, stray, thr, timer, told>>

\* xraudio_output_stop_locked as far as the semaphore of dispatch_stop.
StopBegins(c) == Signal("stop", c) /\ play' = c /\ Goto(c, "waitStop")

\* A synchronous playback is over: its thread stops it.
PlayReturns(c) ==
    /\ At(c, "waitPlay") /\ c \in posted
    /\ posted' = posted \ {c}
    /\ StopBegins(c)
    /\ UNCHANGED <<api, obj, plays, opens, open, stray, thr, timer, told>>

\* xraudio_play_stop, or the stop in xraudio_close, while something plays.
Stop(c) ==
    /\ TakesPlay(c, "stop") \/ TakesPlay(c, "close")
    /\ obj.state \in {"playing", "paused"}
    /\ StopBegins(c)
    /\ UNCHANGED <<api, posted, obj, plays, opens, open, stray, thr, timer, told>>

StopIdle(c) ==
    /\ TakesPlay(c, "stop") /\ obj.state \in {"created", "idling"}
    /\ Return(c)
    /\ UNCHANGED <<posted, obj, plays, opens, open, stray, q, thr, timer, told>>

\* The handles that the end of stop_locked closes.
Closes == Held("file", obj.file) \cup Held("pipe", obj.pipe)
          \cup Held("fifo", obj.fifo) \cup Held("hal", obj.hal)
Stopped == [NewObj EXCEPT !.named = obj.named]

\* xraudio_output_close gives mutex_play back; then main_thread_terminate.
Terminate(c) ==
    /\ obj' = [Stopped EXCEPT !.state = "created"]
    /\ Signal("terminate", c) /\ play' = None /\ Goto(c, "waitTerm")
    /\ UNCHANGED api

StopDone(c) ==
    /\ At(c, "waitStop") /\ c \in posted
    /\ posted' = posted \ {c}
    /\ open' = open \ Closes
    /\ stray' = stray \cup (Closes \ open)
    /\ IF call[c].op = "close"
       THEN Terminate(c)
       ELSE obj' = Stopped /\ Return(c) /\ UNCHANGED q
    /\ UNCHANGED <<plays, opens, thr, timer, told>>

CloseIdle(c) ==
    /\ TakesPlay(c, "close") /\ obj.state \in {"created", "idling"}
    /\ Terminate(c)
    /\ UNCHANGED <<posted, plays, opens, open, stray, thr, timer, told>>

\* The main thread is gone: the object, the queue and the HAL are released.
CloseDone(c) ==
    /\ At(c, "waitTerm") /\ c \in posted /\ play = None
    /\ posted' = posted \ {c}
    /\ obj' = NoObj /\ q' = <<>>
    /\ Return(c)
    /\ UNCHANGED <<plays, opens, open, stray, thr, timer, told>>

\* xraudio_output_pause and _resume after their check. Nothing in the code posts
\* the semaphore that a synchronous one then waits on: no step leaves waitPause.
SetState(c) ==
    LET pausing == call[c].op \in {"pause", "pauseSync"}
        sync    == call[c].op \in {"pauseSync", "resumeSync"}
    IN  /\ At(c, "pausing")
        /\ obj' = [obj EXCEPT !.state = IF pausing THEN "paused" ELSE "playing"]
        /\ Signal(IF pausing THEN "pause" ELSE "resume", IF sync THEN c ELSE None)
        /\ IF sync THEN Goto(c, "waitPause") /\ UNCHANGED <<api, play>> ELSE Return(c)
        /\ UNCHANGED <<posted, plays, opens, open, stray, thr, timer, told>>

\* Mutant: the stop leaves the state.
HfpStopKeepsState(c) ==
    /\ TakesPlay(c, "hfpStop")
    /\ obj' = [obj EXCEPT !.hal = 0]
    /\ open' = open \ Held("hal", obj.hal)
    /\ Return(c)
    /\ UNCHANGED <<posted, plays, opens, stray, q, thr, timer, told>>

\* The bypass opens the HAL output and sends the main thread nothing.
HfpStart(c) ==
    LET n == plays + 1
    IN  /\ TakesPlay(c, "hfpStart") /\ obj.state = "idling" /\ plays < MaxPlays
        /\ plays' = n
        /\ obj' = [obj EXCEPT !.state = "playing", !.hal = n]
        /\ open' = open \cup {<<"hal", n>>}
        /\ Return(c)
        /\ UNCHANGED <<posted, opens, stray, q, thr, timer, told>>

HfpStop(c) ==
    /\ TakesPlay(c, "hfpStop")
    /\ IF obj.state \in {"created", "idling"}
       THEN UNCHANGED <<obj, open, stray>>
       ELSE /\ obj' = [obj EXCEPT !.state = "idling", !.hal = 0]
            /\ open' = open \ Held("hal", obj.hal)
            /\ stray' = stray \cup (Held("hal", obj.hal) \ open)
    /\ Return(c)
    /\ UNCHANGED <<posted, plays, opens, q, thr, timer, told>>

-----------------------------------------------------------------------------
(* The main thread (xraudio_thread.c).                                     *)

Runs == thr.on /\ At(Main, "out")
Kind(t) == CASE t.file # 0 -> "file" [] t.memory # 0 -> "memory"
             [] t.pipe # 0 -> "pipe" [] t.user # 0 -> "user" [] OTHER -> "silence"

\* What reading k frames can return: a file ends when it falls short, a
\* buffer when there is nothing after the k frames.
ReadsOf(t, k) ==
    CASE Kind(t) = "file"    -> {IF t.left < k THEN "eof" ELSE "data"}
      [] Kind(t) = "memory"  -> {IF t.left <= k THEN "eof" ELSE "data"}
      [] Kind(t) = "silence" -> {"data"}
      [] OTHER               -> Reads

\* The handles a frame uses: its source, and the HAL and fifo it writes to.
Uses(t, wrote) ==
    (IF Kind(t) \in {"file", "pipe"} THEN {<<Kind(t), t[Kind(t)]>>} ELSE {})
    \cup (IF wrote THEN Held("hal", t.hal) \cup Held("fifo", t.fifo) ELSE {})

\* After the end of its source the thread forgets file, buffer and pipe; the
\* user's handler stays (xraudio_out_write_from_user resets the pipe).
ForgetNothing(t) == t
Forget(t) == [t EXCEPT !.file   = IF Kind(t) = "file" THEN 0 ELSE @,
                       !.memory = IF Kind(t) = "memory" THEN 0 ELSE @,
                       !.pipe   = IF Kind(t) \in {"pipe", "user"} THEN 0 ELSE @]
Count(m) == IF m = 2 THEN 2 ELSE m + 1      \* told: none, one, more
LessUnchecked(m, k) == m - k
Less(m, k) == IF m < k THEN 0 ELSE m - k
Tell(n, event) == told' = [told EXCEPT ![n][event] = Count(@)]

\* A callback that stops the playback runs on the main thread.
CallBack ==
    call' = IF CallbackStops
            THEN [call EXCEPT ![Main] = [NoCall EXCEPT !.pc = "api", !.op = "stop"]]
            ELSE call

\* Mutants: the semaphore is kept after the post; only an error wakes the caller.
NotifyKeeps(t, rc) ==
    /\ thr' = t
    /\ posted' = IF rc <= 0 /\ t.sync THEN posted \cup ({t.sem} \ {None}) ELSE posted
    /\ IF rc <= 0 /\ ~t.sync /\ t.cb # 0
       THEN Tell(t.cb, IF rc < 0 THEN "error" ELSE "eof") /\ CallBack
       ELSE UNCHANGED <<told, call>>
NotifyErrors(t, rc) ==
    /\ thr' = [t EXCEPT !.sem = IF rc < 0 /\ t.sync THEN None ELSE @]
    /\ posted' = IF rc < 0 /\ t.sync THEN posted \cup ({t.sem} \ {None}) ELSE posted
    /\ IF rc <= 0 /\ ~t.sync /\ t.cb # 0
       THEN Tell(t.cb, IF rc < 0 THEN "error" ELSE "eof") /\ CallBack
       ELSE UNCHANGED <<told, call>>

\* The end of xraudio_process_spkr_data for the return code rc.
Notify(t, rc) ==
    /\ thr' = [t EXCEPT !.sem = IF rc <= 0 /\ t.sync THEN None ELSE @]
    /\ posted' = IF rc <= 0 /\ t.sync THEN posted \cup ({t.sem} \ {None}) ELSE posted
    /\ IF rc <= 0 /\ ~t.sync /\ t.cb # 0
       THEN Tell(t.cb, IF rc < 0 THEN "error" ELSE "eof") /\ CallBack
       ELSE UNCHANGED <<told, call>>

\* xraudio_process_spkr_data: k frames for session t; stays says whether the
\* frame timer stays armed when the session needs no further frame.
SpkrData(t, k, stays) ==
    IF t.hal = 0
    THEN thr' = t /\ timer' = stays /\ UNCHANGED <<posted, told, stray, call>>
    ELSE \E r \in ReadsOf(t, k), w \in HalWrites :
            LET wrote == r # "error" /\ ~(Kind(t) = "file" /\ t.left = 0)
                rc == CASE r = "error" -> -1 [] r = "eof" -> 0 [] OTHER -> w
                s  == [t EXCEPT !.left = Less(@, k)]
            IN  /\ Notify(IF r = "eof" THEN Forget(s) ELSE s, rc)
                /\ stray' = stray \cup (Uses(t, wrote) \ open)
                /\ timer' = (rc > 0 \/ stays)

Received(type) == Runs /\ q # <<>> /\ Head(q).type = type
Next0 == q' = Tail(q)

\* xraudio_msg_play_start: twice a frame at once, and the timer in any case.
PlayStart ==
    LET m == Head(q)
    IN  /\ Received("start") /\ Next0
        /\ SpkrData([thr EXCEPT !.hal = m.hal, !.file = m.file, !.memory = m.memory,
                                !.pipe = m.pipe, !.user = m.user, !.fifo = m.fifo,
                                !.left = m.left, !.sync = (m.sem # None), !.sem = m.sem,
                                !.cb = IF m.sem = None THEN m.n ELSE 0],
                    2, TRUE)
        /\ UNCHANGED <<api, play, obj, plays, opens, open>>

\* xraudio_msg_play_pause and xraudio_msg_play_resume only log.
PlayPause ==
    /\ Received("pause") \/ Received("resume")
    /\ Next0
    /\ UNCHANGED <<clientVars, posted, obj, plays, opens, open, stray, thr, timer, told>>

\* Mutants: a stop that leaves the HAL output, or the callback, with the thread.
PlayStopDrops(t) ==
    /\ Received("stop") /\ Next0
    /\ thr' = t
    /\ open' = open \ Held("pipe", thr.pipe)
    /\ stray' = stray \cup (Held("pipe", thr.pipe) \ open)
    /\ posted' = posted \cup ({Head(q).sem} \ {None})
    /\ UNCHANGED <<clientVars, obj, plays, opens, timer, told>>
PlayStopKeepsOutput ==
    PlayStopDrops([thr EXCEPT !.file = 0, !.memory = 0, !.user = 0, !.cb = 0, !.pipe = 0])
PlayStopKeepsCallback ==
    PlayStopDrops([thr EXCEPT !.hal = 0, !.file = 0, !.memory = 0, !.user = 0, !.pipe = 0])

\* xraudio_msg_play_stop: drops what it was given and closes the pipe.
PlayStop ==
    /\ Received("stop") /\ Next0
    /\ thr' = [thr EXCEPT !.hal = 0, !.file = 0, !.memory = 0, !.user = 0, !.cb = 0,
                          !.pipe = 0]
    /\ open' = open \ Held("pipe", thr.pipe)
    /\ stray' = stray \cup (Held("pipe", thr.pipe) \ open)
    /\ posted' = posted \cup ({Head(q).sem} \ {None})
    /\ UNCHANGED <<clientVars, obj, plays, opens, timer, told>>

\* xraudio_msg_terminate, and the exit of the thread.
Terminated ==
    /\ Received("terminate") /\ Next0
    /\ thr' = NoThr /\ timer' = FALSE
    /\ posted' = posted \cup {Head(q).sem}
    /\ UNCHANGED <<clientVars, obj, plays, opens, open, stray, told>>

\* timer_frame_process.
Frame ==
    /\ Runs /\ timer
    /\ SpkrData(thr, 1, MicRuns)
    /\ UNCHANGED <<api, play, obj, plays, opens, open, q>>

-----------------------------------------------------------------------------
ClientStep(c) ==
    \/ Open(c) \/ Refused(c) \/ EnterSync(c) \/ Enter(c) \/ CheckState(c)
    \/ ReadHandle(c) \/ SetVolume(c) \/ Intensity(c)
    \/ EnterFreed(c) \/ PlayFails(c) \/ Play(c) \/ PlayReturns(c)
    \/ Stop(c) \/ StopIdle(c) \/ StopDone(c) \/ CloseIdle(c) \/ CloseDone(c)
    \/ SetState(c) \/ HfpStart(c) \/ HfpStop(c)
ThreadStep == PlayStart \/ PlayPause \/ PlayStop \/ Terminated \/ Frame
Next == ThreadStep \/ \E c \in Callers : Call(c) \/ ClientStep(c)

Spec == Init /\ [][Next]_vars

\* The main thread serves its queue and its timer, the scheduler runs every
\* thread, and the semaphores that serve as mutexes starve nobody.
Fairness == /\ WF_vars(PlayStart \/ PlayPause \/ PlayStop \/ Terminated)
            /\ WF_vars(Frame)
            /\ \A c \in Callers : SF_vars(ClientStep(c))
FairSpec == Spec /\ Fairness

-----------------------------------------------------------------------------
(* Properties.                                                             *)

TypeOK ==
    /\ call \in [Callers -> CallType]
    /\ api \in Callers \cup {None} /\ play \in Callers \cup {None}
    /\ posted \subseteq Callers
    /\ obj \in ObjType /\ plays \in Nums /\ opens \in 0 .. MaxOpens
    /\ open \subseteq Handles /\ stray \subseteq Handles
    /\ q \in Seq(Msg) /\ Len(q) <= QMax
    /\ thr \in ThrType /\ timer \in BOOLEAN
    /\ told \in [1 .. MaxPlays -> [eof : 0 .. 2, error : 0 .. 2]]

Queued(type) == {i \in 1 .. Len(q) : q[i].type = type}

\* The semaphores are on the stacks of their callers: the main thread, its
\* queue and the posts refer to callers that wait, and to each once
\* (sem_post(session->semaphore); session->semaphore = NULL).
SemaphoresLive ==
    LET holders(c) == {i \in 1 .. Len(q) : q[i].sem = c}
    IN  \A c \in Callers :
            Cardinality(holders(c)) + (IF thr.sem = c THEN 1 ELSE 0)
                + (IF c \in posted THEN 1 ELSE 0)
            <= (IF call[c].pc \in Waits THEN 1 ELSE 0)

\* A frame is never read from, or written to, a handle that has been closed; and
\* the files and HAL outputs that are open are the object's own, so that the
\* next stop closes them.
HandlesLive ==
    /\ thr.hal # 0 => Held("hal", thr.hal) \cup Held("file", thr.file)
                      \cup Held("pipe", thr.pipe) \cup Held("fifo", thr.fifo) \subseteq open
    /\ \A h \in open : h[1] # "pipe" => h[2] = obj[h[1]]

\* When nothing plays, nothing is left over: the main thread has no output and
\* no callback, no start is queued, and no HAL output, file or fifo is open.
IdleIsQuiet ==
    play = None /\ obj.state \in {"created", "idling"} =>
        /\ thr.hal = 0 /\ thr.cb = 0 /\ Queued("start") = {}
        /\ \A h \in open : h[1] = "pipe"

\* No thread is about to use an output object that a close has freed.
ObjectLive == \A c \in Callers : At(c, "enter") => ~Dangling(c)

\* The callback of a playback hears of its end once.
EofOnce == \A n \in 1 .. MaxPlays : told[n].eof <= 1

\* Every call returns.
CallsReturn == \A c \in Clients : At(c, "api") ~> At(c, "out")

\* Where no mutex is held, the state says whether the HAL output is open.
StateTellsHal ==
    play = None /\ obj.live /\ (\A c \in Callers : ~At(c, "pausing")) =>
        (obj.state \in {"playing", "paused"} <=> obj.hal # 0)

\* While a playback is paused none of it is played.
PausedIsSilent ==
    [][obj.state = "paused" /\ Queued("start") = {} => thr'.left >= thr.left]_vars

\* Nobody closes a pipe twice.
PipeClosedOnce == \A h \in stray : h[1] # "pipe"

\* The HAL is only given outputs that are open.
HalGetsOpenOutputs == \A h \in stray : h[1] # "hal"

\* The intensity is only written to a fifo that is open.
FifoIsOpen == \A h \in stray : h[1] # "fifo"

\* A call of xraudio_play_stop returns.
StopReturns == \A c \in Callers : Doing(c, "api", "stop") ~> At(c, "out")
=============================================================================
