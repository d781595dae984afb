--------------------------- MODULE XraudioSession ---------------------------
(***************************************************************************)
(* The voice session core of xraudio: the client API calls that record,    *)
(* stream, stop, arm the keyword detector, open and close (xraudio.c,      *)
(* xraudio_input.c), the xraudio main thread that serves their messages    *)
(* and the microphone (xraudio_thread.c), and the HAL thread that asks for *)
(* a voice session and announces it (xraudio_hal_msg_async_handler).       *)
(*                                                                         *)
(* A client step is everything a client thread does between two points     *)
(* where it can block: the API mutex, the record mutex and the semaphore   *)
(* it waits on after it has queued a message.                              *)
(***************************************************************************)
EXTENDS Integers, Sequences, FiniteSets

CONSTANTS
    Clients,      \* client threads of one xraudio object
    Mic,          \* the local microphone
    Taps,         \* {} or one source, the microphone tap (--enable-mic_tap)
    Externals,    \* PTT and far field, whose audio the HAL delivers on an fd
    None,         \* no source, no client
    Invalid,      \* XRAUDIO_DEVICE_INPUT_INVALID
    Kwd,          \* built with XRAUDIO_KWD_ENABLED
    MicFd,        \* the HAL paces the microphone with an fd, not with a timer
    QMax,         \* capacity of the main message queue
    HalBacklog,   \* bound: the HAL waits while so many of its messages are queued
    Ops,          \* the API calls the clients make
    Requests,     \* the recordings and streams the clients ask for
    StopIndexes,  \* the stream indexes they stop: 0 the first pipe, -1 all
    HalSources    \* the sources for which the HAL starts sessions

Dests  == {"pipe", "file", "memory", "user"}
Untils == {"stream", "speech", "keyword"}
Indexes == {0, -1}
States == {"created", "idling", "pending", "recording", "streaming", "detecting"}
AllOps == {"open", "close", "record", "stop", "detect", "detectStop"}
Local   == {Mic} \cup Taps
Sources == Local \cup Externals
Devices == {Mic} \cup Externals
Groups  == {"default"} \cup {"tap" : t \in Taps}

ASSUME SourcesAssumption ==
    /\ Mic \notin Taps \cup Externals
    /\ Taps \cap Externals = {}
    /\ {None, Invalid} \cap (Sources \cup Clients) = {}
    /\ None # Invalid
    /\ {None, Invalid} \cap {"default", "tap"} = {}
    /\ IsFiniteSet(Clients)
    /\ HalSources \subseteq Sources
ASSUME BuildAssumption == Kwd \in BOOLEAN /\ MicFd \in BOOLEAN
ASSUME QueueAssumption == QMax \in Nat \ {0} /\ HalBacklog \in Nat
ASSUME OpsAssumption ==
    /\ Ops \subseteq AllOps
    /\ StopIndexes \subseteq Indexes
    /\ Requests \subseteq [src : Sources, dest : Dests, until : Untils, sync : BOOLEAN]

VARIABLES
    call,       \* per client: the API call in progress and where it is
    api,        \* holder of mutex_api
    rec,        \* holder of mutex_record
    posted,     \* clients whose stack semaphore has been posted
    opened,     \* obj->opened
    session,    \* per group: xraudio_input_session_t
    q,          \* the main message queue
    thread,     \* the main thread runs
    tail,       \* the group whose record_stop has posted but not yet unlocked
    inst,       \* per group: xraudio_session_record_inst_t
    armed,      \* keyword_detector.callback # NULL
    mic,        \* record.fd >= 0, the frame timer, record.recording
    ext,        \* record.external_obj_hal and whether external_fd >= 0
    leaked,     \* groups whose pipe was forgotten with its write side open
    lock,       \* g_voice_session.source
    ready,      \* g_voice_session: sources_supported set, msgq is current
    hal         \* per source: the HAL's view of its session

clientVars == <<call, api, rec, posted, opened, session>>
threadVars == <<thread, tail, inst, armed, mic, ext, leaked>>
voiceVars  == <<lock, ready>>
vars == <<clientVars, q, threadVars, voiceVars, hal>>

-----------------------------------------------------------------------------
(* Messages, calls and the records of a group.                             *)

GroupOf(s) == IF s \in Taps THEN "tap" ELSE "default"

HalTypes == {"begin", "end", "inputError"}
MsgTypes == {"idleStart", "idleStop", "recordStart", "recordStop", "detect",
             "terminate"} \cup HalTypes
Msg == [type : MsgTypes, src : Sources \cup {None}, sem : Clients \cup {None},
        dests : SUBSET Dests, until : Untils \cup {"none"}, index : Indexes]
Message(type, src, sem) ==
    [type |-> type, src |-> src, sem |-> sem, dests |-> {}, until |-> "none",
     index |-> -1]

\* Mutant of Push: a stop overtakes what is queued.
PushUrgent(m) ==
    q' = IF Len(q) = QMax THEN q
         ELSE IF m.type = "recordStop" THEN <<m>> \o q ELSE Append(q, m)
\* xr_mq_push fails when the queue is full; the caller only logs it.
Push(m) == q' = IF Len(q) < QMax THEN Append(q, m) ELSE q

Waits == {"waitRecord", "waitStop", "waitDetect", "waitIdle", "waitTerm"}
PCs   == {"out", "api", "rec", "closing"} \cup Waits
CallType == [pc : PCs, op : AllOps \cup {"none"}, src : Sources \cup {None},
             dest : Dests \cup {"none"}, until : Untils \cup {"none"},
             sync : BOOLEAN, index : Indexes]
NoCall == [pc |-> "out", op |-> "none", src |-> None, dest |-> "none",
           until |-> "none", sync |-> FALSE, index |-> -1]
PlainCall(op) == [NoCall EXCEPT !.pc = "api", !.op = op]
RecordCall(r) == [NoCall EXCEPT !.pc = "api", !.op = "record", !.src = r.src,
                                !.dest = r.dest, !.until = r.until, !.sync = r.sync]
\* A stop names a source, of which only the group matters.
StopCall(s, i) == [NoCall EXCEPT !.pc = "api", !.op = "stop", !.src = s, !.index = i]
Calls ==
    {PlainCall(o) : o \in Ops \ {"record", "stop"}}
    \cup (IF "record" \in Ops THEN {RecordCall(r) : r \in Requests} ELSE {})
    \cup (IF "stop" \in Ops
          THEN {StopCall(s, i) : s \in Local, i \in StopIndexes} ELSE {})

NewSession == [state |-> "created", dests |-> {}]
InstType == [src : Sources \cup {None}, dests : SUBSET Dests,
             writer : Dests \cup {"none"}, cb : BOOLEAN, sync : BOOLEAN,
             sem : Clients \cup {None}, until : Untils \cup {"none"}]
NewInst == [src |-> None, dests |-> {}, writer |-> "none", cb |-> FALSE,
            sync |-> FALSE, sem |-> None, until |-> "none"]
MicOff == [fd |-> FALSE, timer |-> FALSE, recording |-> FALSE]
NoExt  == [src |-> None, fd |-> FALSE]

Init ==
    /\ call = [c \in Clients |-> NoCall]
    /\ api = None /\ rec = None /\ posted = {} /\ opened = FALSE
    /\ session = [g \in Groups |-> NewSession]
    /\ q = <<>>
    /\ thread = FALSE /\ tail = None
    /\ inst = [g \in Groups |-> NewInst]
    /\ armed = FALSE /\ mic = MicOff /\ ext = NoExt /\ leaked = {}
    /\ lock = [g \in Groups |-> IF g = "default" THEN Invalid ELSE None]
    /\ ready = [sources |-> FALSE, msgq |-> TRUE]
    /\ hal = [s \in Sources |-> "idle"]

-----------------------------------------------------------------------------
(* Client threads: the API mutex (xraudio.c).                              *)

At(c, pc) == call[c].pc = pc
Goto(c, pc) == call' = [call EXCEPT ![c].pc = pc]
Return(c) == call' = [call EXCEPT ![c] = NoCall]

Invoke(c) ==
    /\ At(c, "out")
    /\ \E r \in Calls : call' = [call EXCEPT ![c] = r]
    /\ UNCHANGED <<api, rec, posted, opened, session, q, threadVars, voiceVars, hal>>

\* xraudio_open: a new queue, input object and main thread; idle_start is
\* queued before the thread is launched.  The thread fills g_voice_session the
\* first time only; later the stored descriptor may or may not be reused.
Open(c) ==
    /\ At(c, "api") /\ call[c].op = "open" /\ api = None /\ ~opened
    /\ Return(c)
    /\ opened' = TRUE /\ thread' = TRUE
    /\ session' = [g \in Groups |-> [NewSession EXCEPT !.state = "idling"]]
    /\ q' = <<Message("idleStart", None, None)>>
    /\ inst' = [g \in Groups |-> NewInst]
    /\ tail' = None /\ armed' = FALSE /\ mic' = MicOff /\ ext' = NoExt /\ leaked' = {}
    /\ \E same \in BOOLEAN :
          ready' = [ready EXCEPT !.msgq = ~ready.sources \/ same]
    /\ UNCHANGED <<api, rec, posted, lock, hal>>

\* Calls refused under the API mutex: open when opened, the rest when closed.
ApiRefuse(c) ==
    /\ At(c, "api") /\ api = None
    /\ (call[c].op = "open") = opened
    /\ Return(c)
    /\ UNCHANGED <<api, rec, posted, opened, session, q, threadVars, voiceVars, hal>>

\* A synchronous recording gives the API mutex back before it starts.
ApiEnter(c) ==
    /\ At(c, "api") /\ api = None /\ opened /\ call[c].op # "open"
    /\ Goto(c, "rec")
    /\ api' = IF call[c].op = "record" /\ call[c].sync THEN None ELSE c
    /\ UNCHANGED <<rec, posted, opened, session, q, threadVars, voiceVars, hal>>

-----------------------------------------------------------------------------
(* Client threads: the record mutex (xraudio_input.c).                     *)

Enters(c, op) == At(c, "rec") /\ call[c].op = op /\ rec = None
ReleaseApi(c) == api' = IF api = c THEN None ELSE api
Group(c) == GroupOf(call[c].src)
InputUnchanged == UNCHANGED <<opened, threadVars, voiceVars, hal>>

SourceAllowed(c) ==
    \/ call[c].src \in Devices
    \/ call[c].src \in Taps /\ call[c].dest = "pipe"
\* Mutant of RecordAllowed: the state of the session is not checked.
RecordAllowedAlways(c) == opened /\ SourceAllowed(c)
RecordAllowed(c) ==
    /\ opened /\ SourceAllowed(c)
    /\ session[Group(c)].state \in {"idling", "pending"}

\* The message of dispatch_record: every destination the session has stored, the
\* semaphore only when the caller gave no callback.
StartMessage(c, dests) ==
    LET r == call[c]
    IN  [Message("recordStart", r.src, IF r.sync THEN c ELSE None)
            EXCEPT !.dests = dests, !.until = r.until]
StartedState(dest) == IF dest \in {"file", "memory"} THEN "recording" ELSE "streaming"

\* record_to_file/memory, stream_to_fifo/pipe/user and dispatch_record.
RecordEnter(c) ==
    /\ Enters(c, "record") /\ RecordAllowed(c)
    /\ LET dests == session[Group(c)].dests \cup {call[c].dest}
       IN  /\ session' = [session EXCEPT ![Group(c)] =
                  [state |-> StartedState(call[c].dest), dests |-> dests]]
           /\ Push(StartMessage(c, dests))
    /\ IF call[c].sync THEN Goto(c, "waitRecord") /\ rec' = c /\ UNCHANGED api
                       ELSE Return(c) /\ ReleaseApi(c) /\ UNCHANGED rec
    /\ UNCHANGED posted
    /\ InputUnchanged

RecordRefuse(c) ==
    /\ Enters(c, "record") /\ ~RecordAllowed(c)
    /\ Return(c) /\ ReleaseApi(c)
    /\ UNCHANGED <<rec, posted, session, q>>
    /\ InputUnchanged

\* stream_to_pipe stores the pipe and then cannot set the HAL start point.
StreamSetFails(c) ==
    /\ Enters(c, "record") /\ RecordAllowed(c)
    /\ call[c].dest = "pipe" /\ call[c].src \in Local
    /\ session' = [session EXCEPT ![Group(c)].dests = @ \cup {"pipe"}]
    /\ Return(c) /\ ReleaseApi(c)
    /\ UNCHANGED <<rec, posted, q>>
    /\ InputUnchanged

Detect(c) ==
    /\ Enters(c, "detect")
    /\ IF session["default"].state = "idling"
       THEN /\ session' = [session EXCEPT !["default"].state = "pending"]
            /\ Push(Message("detect", None, c))
            /\ Goto(c, "waitDetect")
            /\ rec' = c /\ UNCHANGED api
       ELSE /\ Return(c) /\ ReleaseApi(c)
            /\ UNCHANGED <<rec, session, q>>
    /\ UNCHANGED posted
    /\ InputUnchanged

\* detect_stop acts only in state DETECTING, which dispatch_detect replaces by
\* PENDING before keyword_detect releases the record mutex.
DetectStop(c) ==
    /\ Enters(c, "detectStop")
    /\ session["default"].state # "detecting"
    /\ Return(c) /\ ReleaseApi(c)
    /\ UNCHANGED <<rec, posted, session, q>>
    /\ InputUnchanged

Stop(c) ==
    /\ Enters(c, "stop")
    /\ IF session[Group(c)].state \in {"recording", "streaming", "pending"}
       THEN /\ Push([Message("recordStop", call[c].src, c)
                        EXCEPT !.index = call[c].index])
            /\ Goto(c, "waitStop")
            /\ rec' = c /\ UNCHANGED api
       ELSE /\ Return(c) /\ ReleaseApi(c)
            /\ UNCHANGED <<rec, q>>
    /\ UNCHANGED <<posted, session>>
    /\ InputUnchanged

Close(c) ==
    /\ Enters(c, "close")
    /\ rec' = c /\ Goto(c, "closing")
    /\ UNCHANGED <<api, posted, session, q>>
    /\ InputUnchanged

\* Mutant of Active: close looks at the default group only.
ActiveDefault(g) ==
    g = "default" /\ session[g].state \in {"recording", "streaming", "detecting"}
Active(g) == session[g].state \in {"recording", "streaming", "detecting"}

\* close_locked: stop the active groups one after the other, then idle_stop.
CloseStep(c) ==
    /\ At(c, "closing")
    /\ LET active == {g \in Groups : Active(g)}
           src == IF "default" \in active THEN Mic ELSE CHOOSE t \in Taps : TRUE
       IN  IF active # {}
           THEN /\ Push(Message("recordStop", src, c))
                /\ call' = [call EXCEPT ![c].pc = "waitStop", ![c].src = src]
           ELSE /\ Push(Message("idleStop", None, c))
                /\ Goto(c, "waitIdle")
    /\ UNCHANGED <<api, rec, posted, session>>
    /\ InputUnchanged

-----------------------------------------------------------------------------
(* Client threads: return from the semaphore.                              *)

Woken(c, pc) == At(c, pc) /\ c \in posted /\ posted' = posted \ {c}

DispatchReturn(c) ==
    /\ Woken(c, "waitRecord") \/ Woken(c, "waitDetect")
    /\ Return(c) /\ rec' = None /\ ReleaseApi(c)
    /\ UNCHANGED <<session, q>>
    /\ InputUnchanged

StopReturn(c) ==
    /\ Woken(c, "waitStop")
    /\ session' = [session EXCEPT ![Group(c)] = [state |-> "idling", dests |-> {}]]
    /\ IF call[c].op = "stop"
       THEN Return(c) /\ rec' = None /\ ReleaseApi(c)
       ELSE Goto(c, "closing") /\ UNCHANGED <<rec, api>>
    /\ UNCHANGED q
    /\ InputUnchanged

\* Mutant of Closed: a closed session keeps its state.
ClosedKeepsState(s) == s
Closed(s) == [s EXCEPT !.state = "created"]
IdleReturn(c) ==
    /\ Woken(c, "waitIdle")
    /\ session' = [g \in Groups |-> Closed(session[g])]
    /\ rec' = None
    /\ Push(Message("terminate", None, c))
    /\ Goto(c, "waitTerm")
    /\ UNCHANGED api
    /\ InputUnchanged

\* The objects, the queue and the HAL are closed; g_voice_session survives.
TermReturn(c) ==
    /\ Woken(c, "waitTerm")
    /\ opened' = FALSE /\ q' = <<>>
    /\ hal' = [s \in Sources |-> "idle"]
    /\ Return(c) /\ ReleaseApi(c)
    /\ UNCHANGED <<rec, session, threadVars, voiceVars>>

-----------------------------------------------------------------------------
(* The main thread: message handlers (xraudio_thread.c).                   *)

\* Mutant of Post: the NULL check of the semaphore is dropped.
PostUnchecked(who) == posted' = posted \cup who
Post(who) == posted' = posted \cup (who \ {None})
Handles(type) == thread /\ tail = None /\ q # <<>> /\ Head(q).type = type
Pop == q' = Tail(q)
\* What a handler leaves alone unless it says otherwise.
CallersUnchanged == UNCHANGED <<call, api, rec, opened, session, hal>>

Unlock(g) == /\ lock' = [lock EXCEPT ![g] = None]
             /\ ready' = [sources |-> TRUE, msgq |-> TRUE]

\* With a timer the handler reads the microphone itself before the first tick.
IdleStart ==
    /\ Handles("idleStart") /\ Pop
    /\ inst' = [inst EXCEPT !["default"] = NewInst]
    /\ Unlock("default")
    /\ IF MicFd THEN mic' = [mic EXCEPT !.fd = TRUE]
       ELSE \E read \in BOOLEAN :
               mic' = [mic EXCEPT !.timer = TRUE, !.recording = read]
    /\ CallersUnchanged /\ UNCHANGED <<posted, thread, tail, armed, ext, leaked>>

\* Mutant of IdleStop: the closing client is not told.
IdleStopSilent ==
    /\ Handles("idleStop") /\ Pop
    /\ mic' = [mic EXCEPT !.fd = FALSE, !.recording = FALSE]
    /\ armed' = (armed /\ ~Kwd)
    /\ CallersUnchanged
    /\ UNCHANGED <<posted, voiceVars, thread, tail, inst, ext, leaked>>

IdleStop ==
    /\ Handles("idleStop") /\ Pop
    /\ mic' = [mic EXCEPT !.fd = FALSE, !.recording = FALSE]
    /\ armed' = (armed /\ ~Kwd)
    /\ Post({Head(q).sem})
    /\ CallersUnchanged /\ UNCHANGED <<voiceVars, thread, tail, inst, ext, leaked>>

\* The first destination present, in the order of the code, gets the audio.
Writer(dests) ==
    CASE "pipe" \in dests   -> "pipe"
      [] "file" \in dests   -> "file"
      [] "memory" \in dests -> "memory"
      [] OTHER              -> "user"

\* The main thread overwrites its only copy of a pipe's write side.
Forget(g) ==
    leaked' = IF "pipe" \in inst[g].dests THEN leaked \cup {g} ELSE leaked

\* Mutant of KeepsDetector: a recording does not disarm the detector.
NeverDisarms(src) == TRUE
KeepsDetector(src) == src \in Taps

RecordStart ==
    /\ Handles("recordStart") /\ Pop
    /\ LET m == Head(q)
       IN  /\ inst' = [inst EXCEPT ![GroupOf(m.src)] =
                  [src |-> m.src, dests |-> m.dests, writer |-> Writer(m.dests),
                   cb |-> m.sem = None, sync |-> m.sem # None, sem |-> m.sem,
                   until |-> m.until]]
           /\ armed' = (armed /\ KeepsDetector(m.src))
           /\ Forget(GroupOf(m.src))
    /\ CallersUnchanged /\ UNCHANGED <<posted, voiceVars, thread, tail, mic, ext>>

\* record_stop up to the post; RecordStopTail is the rest of the handler.  Only a
\* stop with an index closes the pipe; the others just forget it.
Released(i) == [i EXCEPT !.dests = {}, !.cb = FALSE]
RecordStop ==
    /\ Handles("recordStop") /\ Pop
    /\ LET g == GroupOf(Head(q).src)
       IN  /\ inst' = [inst EXCEPT ![g] = Released(@)]
           /\ IF Head(q).index >= 0 THEN UNCHANGED leaked ELSE Forget(g)
           /\ tail' = g
    /\ Post({Head(q).sem})
    /\ CallersUnchanged /\ UNCHANGED <<voiceVars, thread, armed, mic, ext>>

RecordStopTail ==
    /\ thread /\ tail # None
    /\ inst' = [inst EXCEPT ![tail].src = None, ![tail].writer = "none"]
    /\ ext' = IF ext.src # None THEN NoExt ELSE ext
    /\ Unlock(tail)
    /\ tail' = None
    /\ CallersUnchanged /\ UNCHANGED <<posted, q, thread, armed, mic, leaked>>

Listening(i) == [i EXCEPT !.dests = {}, !.writer = "none", !.cb = FALSE,
                          !.sync = FALSE, !.until = "none"]
DetectStart ==
    /\ Handles("detect") /\ Pop
    /\ inst' = [inst EXCEPT !["default"] = Listening(@)]
    /\ armed' = TRUE
    /\ Forget("default")
    /\ Post({Head(q).sem})
    /\ CallersUnchanged /\ UNCHANGED <<voiceVars, thread, tail, mic, ext>>

\* keyword_detector_session_event: a detection by another source than the one
\* that holds the session is dropped; every other event disarms the detector.
KeywordEvent(src, detected) ==
    armed' = (armed /\ detected /\ lock["default"] # src)

SessionBegin ==
    /\ Handles("begin") /\ Pop
    /\ LET src == Head(q).src
       IN  \/ /\ ~armed
              /\ UNCHANGED <<armed, mic, ext>>
           \/ /\ armed /\ src \in Local
              /\ \E fd \in BOOLEAN, valid \in BOOLEAN :
                    /\ mic' = [mic EXCEPT !.fd = fd]
                    /\ KeywordEvent(src, fd /\ valid)
              /\ UNCHANGED ext
           \/ /\ armed /\ src \in Externals
              /\ \E fd \in BOOLEAN :
                    /\ ext' = IF fd THEN [src |-> src, fd |-> TRUE] ELSE NoExt
                    /\ KeywordEvent(src, fd)
              /\ UNCHANGED mic
    /\ CallersUnchanged /\ UNCHANGED <<posted, voiceVars, thread, tail, inst, leaked>>

SessionEnd ==
    /\ Handles("end") /\ Pop
    /\ CallersUnchanged /\ UNCHANGED <<posted, voiceVars, threadVars>>

\* process_mic_error: end the synchronous sessions, tell the local
\* asynchronous ones or else the armed keyword client.
TellsKeyword(i) == ~i.sync /\ ~(i.cb /\ i.src \in Local)
\* Mutant of MicErrorTold: the posted semaphore is not forgotten.
MicErrorToldKeepsSem(i) == i
MicErrorTold(i) == IF i.sync THEN [i EXCEPT !.sem = None] ELSE i
MicError ==
    /\ Post({inst[g].sem : g \in {x \in Groups : inst[x].sync}})
    /\ inst' = [g \in Groups |-> MicErrorTold(inst[g])]
    /\ armed' = (armed /\ \A g \in Groups : ~TellsKeyword(inst[g]))

InputError ==
    /\ Handles("inputError") /\ Pop
    /\ LET src == Head(q).src
       IN  \/ /\ src \in Local /\ mic.recording
              /\ MicError
              /\ mic' = [mic EXCEPT !.recording = FALSE]
              /\ UNCHANGED lock
           \/ /\ src \in Externals /\ lock["default"] = src
              /\ lock' = [lock EXCEPT !["default"] = None]
              /\ UNCHANGED <<posted, inst, armed, mic>>
           \/ /\ IF src \in Local THEN ~mic.recording ELSE lock["default"] # src
              /\ UNCHANGED <<posted, inst, armed, mic, lock>>
    /\ CallersUnchanged /\ UNCHANGED <<ready, thread, tail, ext, leaked>>

Terminate ==
    /\ Handles("terminate") /\ Pop
    /\ thread' = FALSE
    /\ Post({Head(q).sem})
    /\ CallersUnchanged /\ UNCHANGED <<voiceVars, tail, inst, armed, mic, ext, leaked>>

HandleMessage ==
    \/ IdleStart \/ IdleStop \/ RecordStart \/ RecordStop \/ DetectStart
    \/ SessionBegin \/ SessionEnd \/ InputError \/ Terminate

-----------------------------------------------------------------------------
(* The main thread: audio.                                                 *)

FrameUnchanged == CallersUnchanged /\ UNCHANGED <<q, thread, tail, leaked>>
\* With a timer a microphone that is not recording is not read again.
MicDue == thread /\ tail = None /\ (mic.fd \/ (mic.timer /\ mic.recording))

\* A failed read sets no next timeout, so the frame timer is removed.
MicReadFails ==
    /\ MicDue
    /\ MicError
    /\ mic' = [mic EXCEPT !.recording = FALSE, !.timer = FALSE]
    /\ FrameUnchanged /\ UNCHANGED <<voiceVars, ext>>

\* A target that takes no more: the memory is full, or the pipe has got the
\* keyword it was opened for.
MemoryFull(i) == [i EXCEPT !.dests = @ \ {"memory"}]
KeywordPassed(i) == [i EXCEPT !.dests = @ \ {"pipe"}, !.until = "none"]
Done(i) == CASE i.writer = "memory"                         -> MemoryFull(i)
             [] i.writer = "pipe" /\ i.until = "keyword"    -> KeywordPassed(i)
             [] OTHER                                       -> i

\* End of the stream for the default group: everything but the data callback
\* and the writer is cleared and the caller is told.
Ended(i) == [i EXCEPT !.dests = @ \cap {"user"}, !.until = "none",
                      !.sem = IF i.sync THEN None ELSE @]

\* One microphone frame: every group's writer runs (done are the groups whose
\* target then takes no more), a failed write stops the frame timer, and end of
\* speech or a failed write ends a session of the default group that waits for
\* the end of speech.
MicFrame ==
    /\ MicDue
    /\ \E done \in SUBSET Groups, failed \in BOOLEAN, eos \in BOOLEAN :
          LET written == [g \in Groups |->
                             IF g \in done THEN Done(inst[g]) ELSE inst[g]]
              ends == (eos \/ failed) /\ inst["default"].until = "speech"
          IN  /\ \A g \in done : inst[g].src \in Local
              /\ failed => \E g \in Groups : inst[g].writer # "none"
                                           /\ inst[g].src \in Local
              /\ mic' = [mic EXCEPT !.recording = TRUE, !.timer = @ /\ ~failed]
              /\ inst' = IF ends
                         THEN [written EXCEPT !["default"] = Ended(@)]
                         ELSE written
              /\ Post(IF ends /\ inst["default"].sync
                      THEN {inst["default"].sem} ELSE {})
    /\ FrameUnchanged /\ UNCHANGED <<voiceVars, armed, ext>>

\* A frame in which the detector triggers: without the session lock the
\* detection is not reported and the detector stays armed.
MicKeyword ==
    /\ MicDue /\ Kwd /\ armed
    /\ mic' = [mic EXCEPT !.recording = TRUE]
    /\ lock["default"] = None
    /\ lock' = [lock EXCEPT !["default"] = Mic]
    /\ armed' = FALSE
    /\ FrameUnchanged /\ UNCHANGED <<posted, inst, ext, ready>>

\* The frame timer with nothing to do is removed.
TimerIdle ==
    /\ thread /\ tail = None /\ mic.timer /\ ~mic.recording
    /\ mic' = [mic EXCEPT !.timer = FALSE]
    /\ FrameUnchanged /\ UNCHANGED <<posted, voiceVars, inst, armed, ext>>

\* The external fd is watched only while its source owns the session.
ExternalDue ==
    /\ thread /\ tail = None /\ ext.fd
    /\ inst["default"].src \in Externals
    /\ inst["default"].src = lock["default"]

ExternalFrame ==
    /\ ExternalDue
    /\ inst' = [inst EXCEPT !["default"] = Done(@)]
    /\ FrameUnchanged /\ UNCHANGED <<posted, voiceVars, armed, mic, ext>>

\* The HAL has no more data.
ExternalEnd ==
    /\ ExternalDue
    /\ inst["default"].until = "stream"
    /\ inst' = [inst EXCEPT !["default"] =
           [Ended(@) EXCEPT !.until =
               IF "pipe" \in inst["default"].dests THEN "none" ELSE "stream"]]
    /\ Post(IF inst["default"].sync THEN {inst["default"].sem} ELSE {})
    /\ ext' = [ext EXCEPT !.fd = FALSE]
    /\ FrameUnchanged /\ UNCHANGED <<voiceVars, armed, mic>>

MainThread ==
    \/ HandleMessage \/ RecordStopTail
    \/ MicReadFails \/ MicFrame \/ MicKeyword \/ TimerIdle
    \/ ExternalFrame \/ ExternalEnd

-----------------------------------------------------------------------------
(* The HAL thread (xraudio_hal_msg_async_handler).                         *)

HalUnchanged == UNCHANGED <<clientVars, threadVars, ready>>
HalMayPush == Cardinality({i \in DOMAIN q : q[i].type \in HalTypes}) < HalBacklog
PushVoice(m) == IF ready.msgq THEN Push(m) ELSE UNCHANGED q

HalRequest(s) ==
    /\ opened /\ hal[s] = "idle"
    /\ ready.sources /\ lock[GroupOf(s)] = None
    /\ lock' = [lock EXCEPT ![GroupOf(s)] = s]
    /\ hal' = [hal EXCEPT ![s] = "granted"]
    /\ HalUnchanged /\ UNCHANGED q

\* begin and end are refused to a source that no longer owns its group.
HalBegin(s) ==
    /\ opened /\ hal[s] = "granted" /\ HalMayPush
    /\ IF lock[GroupOf(s)] = s
       THEN /\ PushVoice(Message("begin", s, None))
            /\ hal' = [hal EXCEPT ![s] = "begun"]
       ELSE /\ UNCHANGED q
            /\ hal' = [hal EXCEPT ![s] = "idle"]
    /\ HalUnchanged /\ UNCHANGED lock

HalEnd(s) ==
    /\ opened /\ hal[s] = "begun" /\ HalMayPush
    /\ IF lock[GroupOf(s)] = s THEN PushVoice(Message("end", s, None))
                               ELSE UNCHANGED q
    /\ hal' = [hal EXCEPT ![s] = "idle"]
    /\ HalUnchanged /\ UNCHANGED lock

HalError(s) ==
    /\ opened /\ (s \in Local \/ hal[s] = "begun") /\ HalMayPush
    /\ PushVoice(Message("inputError", s, None))
    /\ HalUnchanged /\ UNCHANGED <<lock, hal>>

-----------------------------------------------------------------------------

ClientStep(c) ==
    \/ Open(c) \/ ApiRefuse(c) \/ ApiEnter(c)
    \/ RecordEnter(c) \/ RecordRefuse(c) \/ StreamSetFails(c)
    \/ Detect(c) \/ DetectStop(c) \/ Stop(c) \/ Close(c) \/ CloseStep(c)
    \/ DispatchReturn(c) \/ StopReturn(c) \/ IdleReturn(c) \/ TermReturn(c)
Hal(s) == HalRequest(s) \/ HalBegin(s) \/ HalEnd(s) \/ HalError(s)

Next ==
    \/ \E c \in Clients : Invoke(c) \/ ClientStep(c)
    \/ MainThread
    \/ \E s \in HalSources : Hal(s)

-----------------------------------------------------------------------------
(* Properties.                                                             *)

\* Every variable stays in the values its C type and the code give it; in
\* particular no NULL semaphore is ever posted.
ClientTypeOK ==
    /\ call \in [Clients -> CallType]
    /\ api \in Clients \cup {None} /\ rec \in Clients \cup {None}
    /\ posted \subseteq Clients
    /\ opened \in BOOLEAN
    /\ session \in [Groups -> [state : States, dests : SUBSET Dests]]
QueueTypeOK == q \in Seq(Msg)
ThreadTypeOK ==
    /\ thread \in BOOLEAN /\ tail \in Groups \cup {None}
    /\ inst \in [Groups -> InstType]
    /\ armed \in BOOLEAN
    /\ mic \in [fd : BOOLEAN, timer : BOOLEAN, recording : BOOLEAN]
    /\ ext \in [src : Externals \cup {None}, fd : BOOLEAN]
    /\ leaked \subseteq Groups
VoiceTypeOK ==
    /\ lock \in [Groups -> Sources \cup {None, Invalid}]
    /\ ready \in [sources : BOOLEAN, msgq : BOOLEAN]
    /\ hal \in [Sources -> {"idle", "granted", "begun"}]
TypeOK == ClientTypeOK /\ QueueTypeOK /\ ThreadTypeOK /\ VoiceTypeOK

\* A client in sem_wait has exactly one post coming: its semaphore is in one
\* queued message, or in one recording instance, or it is posted.  Nobody else
\* holds a pointer to the semaphore of a client that has left sem_wait (it is
\* on that client's stack).
OneWakeup ==
    \A c \in Clients :
       Cardinality({i \in DOMAIN q : q[i].sem = c})
       + Cardinality({g \in Groups : inst[g].sem = c})
       + (IF c \in posted THEN 1 ELSE 0)
       = (IF call[c].pc \in Waits THEN 1 ELSE 0)

\* Nobody waits for a main thread that has terminated: a synchronous call that
\* gave the API mutex back cannot slip in between the last steps of a close.
NoWaiterOnDeadThread ==
    \A c \in Clients : call[c].pc \in Waits /\ ~thread => c \in posted

\* The keyword detector is never armed while the default group is written to a
\* client: no keyword callback in the middle of a stream.
DetectorStreamExclusive ==
    armed => inst["default"].dests = {} /\ inst["default"].writer = "none"

\* The clients, however many, never have more messages in the queue than one
\* start per group, the idle start of the open and one synchronous message, so
\* the ten places of the queue are never filled by clients.
ClientBacklog ==
    Cardinality({i \in DOMAIN q : q[i].type \notin HalTypes})
        <= Cardinality(Groups) + 2

\* An armed detector can report: with nothing in progress the session lock that
\* a detection must take is free.
KeywordNotBlocked ==
    armed /\ q = <<>> /\ tail = None /\ (\A s \in Sources : hal[s] = "idle")
        => lock["default"] = None

\* The destinations of a session are exclusive (comment in its declaration).
OneDestination == \A g \in Groups : Cardinality(session[g].dests) <= 1

\* The writer to a file that a microphone frame will call has a file.
FileWriterHasFile ==
    \A g \in Groups : inst[g].writer = "file" /\ inst[g].src \in Local
                          => "file" \in inst[g].dests \/ tail = g

\* The main thread, which is responsible for closing the write side of a pipe
\* (comment in stop_locked), never forgets one that is open: the reader gets EOF.
PipesClosed == leaked = {}

\* A synchronous recording of a local source is not left waiting for a microphone
\* that is no longer read.
NoWaitOnDeadMic ==
    \A g \in Groups :
       thread /\ inst[g].sem # None /\ inst[g].src \in Local => mic.fd \/ mic.timer

\* When xraudio_detect_stop returns the detector does not run.
DetectStopDisarms ==
    [][\A c \in Clients :
          call[c].op = "detectStop" /\ call'[c].pc = "out" /\ call[c].pc = "rec"
             => ~armed']_vars

Spec == Init /\ [][Next]_vars

\* The main thread takes one message in every turn of its loop; a runnable
\* client thread runs; a client blocked on a mutex that is released again and
\* again gets it in the end.
Fairness ==
    /\ WF_vars(HandleMessage \/ RecordStopTail)
    /\ \A c \in Clients : SF_vars(ClientStep(c))
FairSpec == Spec /\ Fairness

\* Every API call comes back.
CallsReturn == \A c \in Clients : call[c].pc = "api" ~> call[c].pc = "out"

\* A stop, in particular of a synchronous stream, comes back.
StopReturns ==
    \A c \in Clients :
       call[c].op = "stop" /\ call[c].pc = "api" ~> call[c].pc = "out"

\* A synchronous stream whose source reports an error comes back.
ErrorEndsSyncStream ==
    \A c \in Clients :
       (/\ inst["default"].sem = c /\ thread
        /\ q # <<>> /\ Head(q).type = "inputError"
        /\ Head(q).src = inst["default"].src) ~> call[c].pc = "out"
=============================================================================
