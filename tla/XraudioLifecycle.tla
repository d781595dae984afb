-------------------------- MODULE XraudioLifecycle --------------------------
(***************************************************************************)
(* The life of xraudio objects (xraudio.c): creation, opening, closing and *)
(* destruction, the HAL that all the objects of a process share, the       *)
(* message queue and the main thread of each, and the calls that talk to   *)
(* that thread whatever is recorded or played: power mode, privacy mode,   *)
(* sensitivity limits and the thread poll.                                 *)
(*                                                                         *)
(* Recording and playing are left to the modules XraudioSession and        *)
(* XraudioPlayback; here the input object is what open and close need of   *)
(* it: its idle messages, the second of which is waited for.               *)
(***************************************************************************)
EXTENDS Integers, Sequences, FiniteSets

CONSTANTS
    Callers,     \* client threads
    Objects,     \* xraudio objects of the process
    None,
    Serves,      \* per caller: the objects it calls for
    Ops,         \* the API calls they make
    Devices,     \* the devices they open
    Modes,       \* power modes
    Failures,    \* what can fail
    GetsWhenOpen,\* the clients call the two getters on an open object only
    Detector,    \* the build has a keyword detector
    SlowPolls,   \* the function of a thread poll may take its time
    QMax,        \* capacity of a main message queue
    QIds,        \* descriptors a queue can get; a closed one is given out again
    MaxCalls,    \* bound: calls of one caller
    MaxOpens     \* bound: openings of the HAL, and main threads

Inputs  == {"none", "mic", "external", "hfp"}
AllOps  == {"create", "destroy", "open", "close", "power", "privacy", "privacyGet",
            "limits", "poll"}
AllFailures == {"hal", "queue", "ppr", "mic", "thread", "channels", "refusal"}

ASSUME ObjectsAssumption ==
    /\ None \notin Callers \cup Objects /\ IsFiniteSet(Objects)
    /\ Serves \in [Callers -> SUBSET Objects]
ASSUME OpsAssumption ==
    /\ Ops \subseteq AllOps /\ Failures \subseteq AllFailures
    /\ Devices \subseteq [in : Inputs, out : BOOLEAN]
    /\ {GetsWhenOpen, Detector, SlowPolls} \subseteq BOOLEAN
ASSUME BoundsAssumption ==
    {QMax, QIds, MaxCalls, MaxOpens} \subseteq Nat /\ QMax > 0 /\ Modes # {}

VARIABLES
    call,    \* per caller: the API call in progress and where it is
    mutex,   \* per object: the holder of mutex_api
    obj,     \* per object: xraudio_obj_t
    proc,    \* g_xraudio_process
    hals,    \* the HAL objects that are open, and how often one was opened
    device,  \* what the HAL was last told
    queues,  \* the message queues that exist
    thr,     \* the main threads launched so far
    answer,  \* per caller: what was posted to the semaphore on its stack
    voiceQ,  \* g_voice_session.msgq
    stray    \* what was used after its life

vars == <<call, mutex, obj, proc, hals, device, queues, thr, answer, voiceQ, stray>>

-----------------------------------------------------------------------------
Nums    == 0 .. MaxOpens              \* HAL objects, threads; 0: none
Waits   == {"waitLaunch", "waitUndo", "waitInput", "waitTerm", "wait"}
PCs     == {"out", "enter", "hal", "opening", "count", "queue", "input", "launch", "drop",
            "free"} \cup Waits
NoCall  == [pc |-> "out", obj |-> None, op |-> "none", in |-> "none", out |-> FALSE,
            mode |-> None, on |-> FALSE, n |-> 0]
NewObj  == [made |-> TRUE, opened |-> FALSE, running |-> FALSE, msgq |-> 0,
            input |-> "null", output |-> FALSE, thread |-> 0]
NoObj   == [NewObj EXCEPT !.made = FALSE]
Nobody  == <<None, 0>>

Init ==
    /\ call = [c \in Callers |-> NoCall]
    /\ mutex = [o \in Objects |-> None]
    /\ obj = [o \in Objects |-> NoObj]
    /\ \E full \in Modes :
        /\ proc = [hal |-> 0, users |-> 0, power |-> full, privacy |-> FALSE]
        /\ device = [power |-> full, privacy |-> FALSE]
    /\ hals = [open |-> {}, opens |-> 0]
    /\ queues = <<>>                  \* no descriptor is a queue
    /\ thr = <<>>
    /\ answer = [c \in Callers |-> "none"]
    /\ voiceQ = 0 /\ stray = {}

IsOpen(q) == q \in DOMAIN queues
With(q, msgs) == [i \in DOMAIN queues \cup {q} |-> IF i = q THEN msgs ELSE queues[i]]
Without(q) == [i \in DOMAIN queues \ {q} |-> queues[i]]

\* xr_mq_push fails when the queue is full or closed; the caller only logs it.
Push(q, m) ==
    queues' = IF IsOpen(q) /\ Len(queues[q]) < QMax THEN With(q, Append(queues[q], m))
              ELSE queues
Msg(type, c) == [type |-> type, sem |-> <<c, call[c].n>>, mode |-> call[c].mode,
                 on |-> call[c].on]

-----------------------------------------------------------------------------
(* Calls: mutex_api is taken first and given back last.                    *)

At(c, pc) == call[c].pc = pc
Goto(c, pc) == call' = [call EXCEPT ![c].pc = pc]
Obj(c) == call[c].obj
Doing(c, ops) == At(c, "enter") /\ call[c].op \in ops /\ mutex[Obj(c)] = None
Return(c) ==
    /\ call' = [call EXCEPT ![c] = [NoCall EXCEPT !.n = call[c].n]]
    /\ mutex' = [o \in Objects |-> IF mutex[o] = c THEN None ELSE mutex[o]]
Set(c, o) == obj' = [obj EXCEPT ![Obj(c)] = o]
Answered(c, pc) == At(c, pc) /\ answer[c] # "none"
Consume(c) == answer' = [answer EXCEPT ![c] = "none"]

\* A client uses an object between its creation and its destruction only.
Permitted(c, o, op) ==
    /\ op = "create" <=> ~obj[o].made
    /\ op \in {"create", "destroy"} => \A d \in Callers : Obj(d) # o
    /\ \A d \in Callers : Obj(d) = o => call[d].op \notin {"create", "destroy"}
    /\ op \in {"limits", "privacyGet"} /\ GetsWhenOpen => obj[o].opened

Call(c) ==
    /\ At(c, "out") /\ call[c].n < MaxCalls
    /\ \E o \in Serves[c], op \in Ops :
        /\ Permitted(c, o, op)
        /\ \E d \in IF op = "open" THEN Devices ELSE {[in |-> "none", out |-> FALSE]},
              m \in IF op \in {"open", "power"} THEN Modes ELSE {None},
              b \in IF op \in {"open", "privacy"} /\ "privacy" \in Ops THEN BOOLEAN
                    ELSE {FALSE} :
            call' = [call EXCEPT ![c] = [pc |-> "enter", obj |-> o, op |-> op, in |-> d.in,
                                         out |-> d.out, mode |-> m, on |-> b, n |-> @.n + 1]]
    /\ UNCHANGED <<mutex, obj, proc, hals, device, queues, thr, answer, voiceQ, stray>>

\* xraudio_object_create.
Create(c) ==
    /\ Doing(c, {"create"})
    /\ Set(c, NewObj)
    /\ Return(c)
    /\ UNCHANGED <<proc, hals, device, queues, thr, answer, voiceQ, stray>>

\* xraudio_object_destroy, after its close.
Free(c) ==
    /\ At(c, "free")
    /\ Set(c, NoObj)
    /\ Return(c)
    /\ UNCHANGED <<proc, hals, device, queues, thr, answer, voiceQ, stray>>

-----------------------------------------------------------------------------
(* xraudio_open.                                                           *)

\* It is open already, or the devices, resources or format are not accepted.
OpenRefused(c) ==
    /\ Doing(c, {"open"})
    /\ Return(c)
    /\ UNCHANGED <<obj, proc, hals, device, queues, thr, answer, voiceQ, stray>>

\* Mutant: no check that the object is open already.
OpenAgain(c) ==
    /\ Doing(c, {"open"})
    /\ mutex' = [mutex EXCEPT ![Obj(c)] = c]
    /\ proc' = [proc EXCEPT !.privacy = call[c].on]
    /\ Goto(c, "hal")
    /\ UNCHANGED <<obj, hals, device, queues, thr, answer, voiceQ, stray>>

OpenBegins(c) ==
    /\ Doing(c, {"open"}) /\ ~obj[Obj(c)].opened
    /\ mutex' = [mutex EXCEPT ![Obj(c)] = c]
    /\ proc' = [proc EXCEPT !.privacy = call[c].on]
    /\ Goto(c, "hal")
    /\ UNCHANGED <<obj, hals, device, queues, thr, answer, voiceQ, stray>>

\* xraudio_audio_hal_open: no lock covers the process data of several objects.
CheckHal(c) ==
    /\ At(c, "hal")
    /\ Goto(c, IF proc.hal = 0 THEN "opening" ELSE "count")
    /\ UNCHANGED <<mutex, obj, proc, hals, device, queues, thr, answer, voiceQ, stray>>

OpenHal(c) ==
    LET h == hals.opens + 1
    IN  /\ At(c, "opening") /\ h <= MaxOpens
        /\ hals' = [open |-> hals.open \cup {h}, opens |-> h]
        /\ proc' = [proc EXCEPT !.hal = h]
        /\ device' = [power |-> proc.power, privacy |-> proc.privacy]
        /\ Goto(c, "count")
        /\ UNCHANGED <<mutex, obj, queues, thr, answer, voiceQ, stray>>

HalFails(c) ==
    /\ At(c, "opening") /\ ("hal" \in Failures \/ hals.opens = MaxOpens)
    /\ Return(c)
    /\ UNCHANGED <<obj, proc, hals, device, queues, thr, answer, voiceQ, stray>>

CountUser(c) ==
    /\ At(c, "count")
    /\ proc' = [proc EXCEPT !.users = @ + 1]
    /\ Goto(c, "queue")
    /\ UNCHANGED <<mutex, obj, hals, device, queues, thr, answer, voiceQ, stray>>

OpenQueue(c) ==
    /\ At(c, "queue")
    /\ \E q \in (1 .. QIds) \ DOMAIN queues :
        /\ Set(c, [obj[Obj(c)] EXCEPT !.msgq = q])
        /\ queues' = With(q, <<>>)
    /\ Goto(c, "input")
    /\ UNCHANGED <<mutex, proc, hals, device, thr, answer, voiceQ, stray>>

\* xraudio_audio_hal_close: first the count goes down, then it is looked at.
Uncount == [proc EXCEPT !.users = @ - 1]

\* Mutant: the HAL's users are not counted down.
QueueFailsCounted(c) ==
    /\ At(c, "queue") /\ ("queue" \in Failures \/ DOMAIN queues = 1 .. QIds)
    /\ Goto(c, "drop")
    /\ UNCHANGED <<mutex, proc, obj, hals, device, queues, thr, answer, voiceQ, stray>>

QueueFails(c) ==
    /\ At(c, "queue") /\ ("queue" \in Failures \/ DOMAIN queues = 1 .. QIds)
    /\ proc' = Uncount
    /\ Goto(c, "drop")
    /\ UNCHANGED <<mutex, obj, hals, device, queues, thr, answer, voiceQ, stray>>

\* The input object, and its idle start; HFP needs none.
NeedsInput(c) == call[c].in \in {"mic", "external"}
OpenInput(c) ==
    /\ At(c, "input")
    /\ Goto(c, "launch")
    /\ IF NeedsInput(c)
       THEN \/ /\ Set(c, [obj[Obj(c)] EXCEPT !.input = "live"])
               /\ Push(obj[Obj(c)].msgq, [Msg("idleStart", c) EXCEPT !.sem = Nobody])
            \/ /\ "ppr" \in Failures           \* and the open goes on without it
               /\ Set(c, [obj[Obj(c)] EXCEPT !.input = "null"])
               /\ UNCHANGED queues
       ELSE UNCHANGED <<obj, queues>>
    /\ UNCHANGED <<mutex, proc, hals, device, thr, answer, voiceQ, stray>>

\* The HAL cannot open the microphone: the input object is freed, and neither
\* the pointer to it nor the queue is given up.
MicFails(c) ==
    /\ At(c, "input") /\ call[c].in = "mic" /\ "mic" \in Failures
    /\ Set(c, [obj[Obj(c)] EXCEPT !.input = "freed"])
    /\ proc' = Uncount
    /\ Goto(c, "drop")
    /\ UNCHANGED <<mutex, hals, device, queues, thr, answer, voiceQ, stray>>

UsesInput(c) == IF obj[Obj(c)].input = "freed" THEN {"input"} ELSE {}

\* The output object and main_thread_launch.
Launch(c) ==
    LET o == obj[Obj(c)]
        t == [st |-> "init", q |-> o.msgq, hal |-> proc.hal, sem |-> <<c, call[c].n>>]
    IN  /\ At(c, "launch") /\ ~o.running /\ Len(thr) < MaxOpens
        /\ thr' = Append(thr, t)
        /\ Set(c, [o EXCEPT !.output = call[c].out, !.running = TRUE,
                            !.thread = Len(thr) + 1])
        /\ stray' = stray \cup UsesInput(c)
        /\ Goto(c, "waitLaunch")
        /\ UNCHANGED <<mutex, proc, hals, device, queues, answer, voiceQ>>

\* Mutant: the queue is forgotten, not destroyed.
ReleasedKeeps(c) ==
    /\ UNCHANGED queues
    /\ proc' = Uncount
    /\ Goto(c, "drop")

\* What is undone when the thread cannot be launched, and at the end of a close.
Released(c) ==
    /\ queues' = Without(obj[Obj(c)].msgq)
    /\ proc' = Uncount
    /\ Goto(c, "drop")

\* A thread abandoned by an earlier close counts as running. Closing the input
\* object waits for the main thread.
LaunchFails(c) ==
    LET o == obj[Obj(c)]
    IN  /\ At(c, "launch")
        /\ o.running \/ "thread" \in Failures \/ Len(thr) = MaxOpens
        /\ stray' = stray \cup UsesInput(c)
        /\ IF o.input = "live"
           THEN /\ Push(o.msgq, Msg("idleStop", c)) /\ Goto(c, "waitUndo")
                /\ UNCHANGED <<obj, proc>>
           ELSE Released(c) /\ Set(c, [o EXCEPT !.msgq = 0, !.input = "null"])
        /\ UNCHANGED <<mutex, hals, device, thr, answer, voiceQ>>

Undo(c) ==
    /\ Answered(c, "waitUndo") /\ Consume(c)
    /\ Released(c)
    /\ Set(c, [obj[Obj(c)] EXCEPT !.msgq = 0, !.input = "null"])
    /\ UNCHANGED <<mutex, hals, device, thr, voiceQ, stray>>

Launched(c) ==
    /\ Answered(c, "waitLaunch") /\ Consume(c)
    /\ proc' = [proc EXCEPT !.power = call[c].mode]
    /\ Set(c, [obj[Obj(c)] EXCEPT !.opened = TRUE])
    /\ Return(c)
    /\ UNCHANGED <<hals, device, queues, thr, voiceQ, stray>>

-----------------------------------------------------------------------------
(* xraudio_close, alone or at the beginning of xraudio_object_destroy.     *)

Closing(c) == Doing(c, {"close", "destroy"})

\* Mutant: an early return without giving mutex_api back.
CloseNotLocked(c) ==
    /\ Closing(c) /\ ~obj[Obj(c)].opened
    /\ mutex' = [mutex EXCEPT ![Obj(c)] = c]
    /\ call' = [call EXCEPT ![c] = [NoCall EXCEPT !.n = call[c].n]]
    /\ UNCHANGED <<obj, proc, hals, device, queues, thr, answer, voiceQ, stray>>

CloseNot(c) ==
    /\ Closing(c) /\ ~obj[Obj(c)].opened
    /\ IF call[c].op = "destroy" THEN Goto(c, "free") /\ UNCHANGED mutex ELSE Return(c)
    /\ UNCHANGED <<obj, proc, hals, device, queues, thr, answer, voiceQ, stray>>

\* xraudio_input_close waits for the main thread without a limit.
CloseInput(c) ==
    LET o == obj[Obj(c)]
    IN  /\ Closing(c) /\ o.opened
        /\ mutex' = [mutex EXCEPT ![Obj(c)] = c]
        /\ stray' = stray \cup UsesInput(c)
        /\ IF o.input = "live"
           THEN Push(o.msgq, Msg("idleStop", c)) /\ Goto(c, "waitInput")
           ELSE Push(o.msgq, Msg("terminate", c)) /\ Goto(c, "waitTerm")
        /\ UNCHANGED <<obj, proc, hals, device, thr, answer, voiceQ>>

\* main_thread_terminate.
Terminate(c) ==
    /\ Answered(c, "waitInput") /\ Consume(c)
    /\ Push(obj[Obj(c)].msgq, Msg("terminate", c)) /\ Goto(c, "waitTerm")
    /\ UNCHANGED <<mutex, obj, proc, hals, device, thr, voiceQ, stray>>

Emptied(o) == [o EXCEPT !.msgq = 0, !.input = "null", !.output = FALSE]

\* Mutant: the thread is still taken for a running one.
JoinForgets(c) ==
    LET o == obj[Obj(c)]
    IN  /\ Answered(c, "waitTerm") /\ thr[o.thread].st = "exited" /\ Consume(c)
        /\ Set(c, Emptied(o))
        /\ Released(c)
        /\ UNCHANGED <<mutex, hals, device, thr, voiceQ, stray>>

Join(c) ==
    LET o == obj[Obj(c)]
    IN  /\ Answered(c, "waitTerm") /\ thr[o.thread].st = "exited" /\ Consume(c)
        /\ Set(c, [Emptied(o) EXCEPT !.running = FALSE])
        /\ Released(c)
        /\ UNCHANGED <<mutex, hals, device, thr, voiceQ, stray>>

\* Mutant: the close does not wait for an answer at all.
AbandonSoon(c) ==
    LET o == obj[Obj(c)]
    IN  /\ At(c, "waitTerm") /\ answer[c] = "none"
        /\ Set(c, [o EXCEPT !.input = "null", !.output = FALSE])
        /\ proc' = Uncount /\ Goto(c, "drop")
        /\ UNCHANGED <<mutex, hals, device, queues, thr, answer, voiceQ, stray>>

\* Five seconds without an answer, while the thread is in a client's function.
Abandon(c) ==
    LET o == obj[Obj(c)]
    IN  /\ At(c, "waitTerm") /\ answer[c] = "none" /\ thr[o.thread].st = "poll"
        /\ Set(c, Emptied(o))
        /\ Released(c)
        /\ UNCHANGED <<mutex, hals, device, thr, answer, voiceQ, stray>>

\* The end of a close, or of an open that failed.
Dropped(c) ==
    /\ At(c, "drop")
    /\ Set(c, IF call[c].op = "open" THEN obj[Obj(c)]
              ELSE [obj[Obj(c)] EXCEPT !.opened = FALSE])
    /\ IF call[c].op = "destroy"
       THEN Goto(c, "free") /\ mutex' = [mutex EXCEPT ![Obj(c)] = None]
       ELSE Return(c)
    /\ UNCHANGED <<device, queues, thr, answer, voiceQ, stray>>
\* Mutant: the first to close closes the HAL.
DropEarly(c) ==
    /\ Dropped(c)
    /\ hals' = [hals EXCEPT !.open = {}]
    /\ proc' = [proc EXCEPT !.hal = 0]

\* The last user of the HAL closes it.
Drop(c) ==
    /\ Dropped(c)
    /\ IF proc.users = 0 /\ proc.hal # 0
       THEN /\ hals' = [hals EXCEPT !.open = @ \ {proc.hal}]
            /\ proc' = [proc EXCEPT !.hal = 0]
       ELSE UNCHANGED <<hals, proc>>

-----------------------------------------------------------------------------
(* Calls that send the main thread a message.                              *)

Same(c) == IF call[c].op = "power" THEN proc.power = call[c].mode
           ELSE proc.privacy = call[c].on
Stored(c) == IF call[c].op = "power" THEN [proc EXCEPT !.power = call[c].mode]
             ELSE [proc EXCEPT !.privacy = call[c].on]

\* xraudio_power_mode_update and xraudio_privacy_mode_update: nothing changes,
\* or the object is not open and the mode is stored for later.
Update(c) ==
    /\ Doing(c, {"power", "privacy"})
    /\ Same(c) \/ ~obj[Obj(c)].opened
    /\ proc' = Stored(c)
    /\ Return(c)
    /\ UNCHANGED <<obj, hals, device, queues, thr, answer, voiceQ, stray>>

Ask(c) ==
    /\ mutex' = [mutex EXCEPT ![Obj(c)] = c]
    /\ Push(obj[Obj(c)].msgq, Msg(call[c].op, c))
    /\ Goto(c, "wait")
    /\ UNCHANGED <<obj, proc, hals, device, thr, answer, voiceQ, stray>>

UpdateAsks(c) ==
    /\ Doing(c, {"power", "privacy"}) /\ obj[Obj(c)].opened /\ ~Same(c)
    /\ Ask(c)

\* xraudio_privacy_mode_get and xraudio_detect_sensitivity_limits_get do not
\* check that the object is open.
Get(c) == Doing(c, {"privacyGet", "limits"}) /\ Ask(c)

\* Mutant: the mode is stored although the HAL refused it.
ReplyStored(c) ==
    /\ Answered(c, "wait") /\ Consume(c)
    /\ proc' = CASE answer[c] \in {"on", "off"} -> [proc EXCEPT !.privacy = (answer[c] = "on")]
                 [] call[c].op \in {"power", "privacy"} -> Stored(c)
                 [] OTHER -> proc
    /\ Return(c)
    /\ UNCHANGED <<obj, hals, device, queues, thr, voiceQ, stray>>

Reply(c) ==
    /\ Answered(c, "wait") /\ Consume(c)
    /\ proc' = CASE answer[c] \in {"on", "off"} -> [proc EXCEPT !.privacy = (answer[c] = "on")]
                 [] call[c].op \in {"power", "privacy"} /\ answer[c] = "ok" -> Stored(c)
                 [] OTHER -> proc
    /\ Return(c)
    /\ UNCHANGED <<obj, hals, device, queues, thr, voiceQ, stray>>

\* xraudio_thread_poll; on an object that is not open it calls the function.
Poll(c) ==
    /\ Doing(c, {"poll"})
    /\ IF obj[Obj(c)].opened
       THEN Push(obj[Obj(c)].msgq, [Msg("poll", c) EXCEPT !.sem = Nobody])
       ELSE UNCHANGED queues
    /\ Return(c)
    /\ UNCHANGED <<obj, proc, hals, device, thr, answer, voiceQ, stray>>

-----------------------------------------------------------------------------
(* The main threads (xraudio_thread.c).                                    *)

\* A semaphore lives on its caller's stack for as long as that call waits.
Waiting(s) == s[1] # None /\ call[s[1]].n = s[2] /\ call[s[1]].pc \in Waits
Post(s, a) ==
    IF Waiting(s) THEN answer' = [answer EXCEPT ![s[1]] = a] /\ UNCHANGED stray
    ELSE stray' = stray \cup {"semaphore"} /\ UNCHANGED answer
Becomes(t, st) == thr' = [thr EXCEPT ![t].st = st]

\* The voice session keeps the queue it was first set up with until an idle start.
Starts(t) ==
    /\ thr[t].st = "init"
    /\ voiceQ' = IF voiceQ = 0 THEN thr[t].q ELSE voiceQ
    /\ Post(thr[t].sem, "ok")
    /\ Becomes(t, "loop")
    /\ UNCHANGED <<call, mutex, obj, proc, hals, device, queues>>

\* The HAL's configuration has too many channels: nobody wakes the launcher.
TooManyChannels(t) ==
    /\ thr[t].st = "init" /\ "channels" \in Failures
    /\ Becomes(t, "exited")
    /\ UNCHANGED <<call, mutex, obj, proc, hals, device, queues, answer, voiceQ, stray>>

Loops(t) == thr[t].st = "loop" /\ IsOpen(thr[t].q)
Receives(t, types) ==
    /\ Loops(t) /\ queues[thr[t].q] # <<>> /\ Head(queues[thr[t].q]).type \in types
    /\ queues' = With(thr[t].q, Tail(queues[thr[t].q]))
    /\ UNCHANGED <<call, mutex, obj, proc, hals>>
Received(t) == Head(queues[thr[t].q])

\* select fails on a descriptor that is closed, and the loop ends.
QueueGone(t) ==
    /\ thr[t].st = "loop" /\ ~IsOpen(thr[t].q)
    /\ Becomes(t, "exited")
    /\ UNCHANGED <<call, mutex, obj, proc, hals, device, queues, answer, voiceQ, stray>>

\* Mutant: the idle start leaves the queue of the voice session as it is.
IdleStartKeeps(t) ==
    /\ Receives(t, {"idleStart"})
    /\ UNCHANGED <<voiceQ, device, thr, answer, stray>>

\* xraudio_msg_record_idle_start, whose unlock renews the voice session.
IdleStart(t) ==
    /\ Receives(t, {"idleStart"})
    /\ voiceQ' = thr[t].q
    /\ UNCHANGED <<device, thr, answer, stray>>

IdleStop(t) ==
    /\ Receives(t, {"idleStop"})
    /\ Post(Received(t).sem, "ok")
    /\ UNCHANGED <<device, thr, voiceQ>>

\* xraudio_msg_terminate posts before the thread leaves its loop and ends.
Terminated(t) ==
    /\ Receives(t, {"terminate"})
    /\ Post(Received(t).sem, "ok")
    /\ Becomes(t, "ending")
    /\ UNCHANGED <<device, voiceQ>>

Exits(t) ==
    /\ thr[t].st = "ending"
    /\ Becomes(t, "exited")
    /\ UNCHANGED <<call, mutex, obj, proc, hals, device, queues, answer, voiceQ, stray>>

\* xraudio_msg_power_mode and xraudio_msg_privacy_mode; the HAL may refuse.
SetMode(t) ==
    LET m == Received(t)
    IN  /\ Receives(t, {"power", "privacy"})
        /\ \/ /\ "refusal" \in Failures
              /\ Post(m.sem, "error") /\ UNCHANGED device
           \/ /\ Post(m.sem, "ok")
              /\ device' = IF m.type = "power" THEN [device EXCEPT !.power = m.mode]
                           ELSE [device EXCEPT !.privacy = m.on]
        /\ UNCHANGED <<thr, voiceQ>>

\* xraudio_msg_privacy_mode_get and xraudio_msg_detect_sensitivity_limits_get,
\* which does nothing in a build without the detector.
GetMode(t) ==
    LET m == Received(t)
    IN  /\ Receives(t, {"privacyGet", "limits"})
        /\ \/ "refusal" \in Failures /\ Post(m.sem, "error")
           \/ m.type = "privacyGet" /\ Post(m.sem, IF device.privacy THEN "on" ELSE "off")
           \/ m.type = "limits" /\ Detector /\ Post(m.sem, "ok")
           \/ m.type = "limits" /\ ~Detector /\ UNCHANGED <<answer, stray>>
        /\ UNCHANGED <<device, thr, voiceQ>>

\* xraudio_msg_thread_poll calls the client's function.
Polled(t) ==
    /\ Receives(t, {"poll"})
    /\ thr' = IF SlowPolls THEN [thr EXCEPT ![t].st = "poll"] ELSE thr
    /\ UNCHANGED <<device, answer, voiceQ, stray>>

PollEnds(t) ==
    /\ thr[t].st = "poll"
    /\ Becomes(t, "loop")
    /\ UNCHANGED <<call, mutex, obj, proc, hals, device, queues, answer, voiceQ, stray>>

-----------------------------------------------------------------------------
OpenStep(c) ==
    \/ OpenRefused(c) \/ OpenBegins(c) \/ CheckHal(c) \/ OpenHal(c) \/ HalFails(c)
    \/ CountUser(c) \/ OpenQueue(c) \/ QueueFails(c) \/ OpenInput(c) \/ MicFails(c)
    \/ Launch(c) \/ LaunchFails(c) \/ Undo(c) \/ Launched(c)
CloseStep(c) ==
    CloseNot(c) \/ CloseInput(c) \/ Terminate(c) \/ Join(c) \/ Abandon(c) \/ Drop(c)
CallerStep(c) ==
    \/ Create(c) \/ Free(c) \/ OpenStep(c) \/ CloseStep(c)
    \/ Update(c) \/ UpdateAsks(c) \/ Get(c) \/ Reply(c) \/ Poll(c)
ThreadStep(t) ==
    \/ Starts(t) \/ TooManyChannels(t) \/ QueueGone(t) \/ IdleStart(t) \/ IdleStop(t)
    \/ Terminated(t) \/ Exits(t) \/ SetMode(t) \/ GetMode(t) \/ Polled(t) \/ PollEnds(t)
Next == \/ \E c \in Callers : Call(c) \/ CallerStep(c)
        \/ \E t \in DOMAIN thr : ThreadStep(t)

Spec == Init /\ [][Next]_vars

\* The scheduler runs every thread, a client's function returns, and the
\* semaphore that serves as mutex starves nobody.
Fairness == /\ \A c \in Callers : SF_vars(CallerStep(c))
            /\ \A t \in 1 .. MaxOpens : WF_vars(t \in DOMAIN thr /\ ThreadStep(t))
FairSpec == Spec /\ Fairness

-----------------------------------------------------------------------------
(* Properties.                                                             *)

TypeOK ==
    /\ call \in [Callers -> [pc : PCs, obj : Objects \cup {None}, op : AllOps \cup {"none"},
                             in : Inputs, out : BOOLEAN, mode : Modes \cup {None},
                             on : BOOLEAN, n : 0 .. MaxCalls]]
    /\ mutex \in [Objects -> Callers \cup {None}]
    /\ obj \in [Objects -> [made : BOOLEAN, opened : BOOLEAN, running : BOOLEAN,
                            msgq : 0 .. QIds, input : {"null", "live", "freed"},
                            output : BOOLEAN, thread : Nums]]
    /\ proc \in [hal : Nums, users : 0 .. Cardinality(Objects), power : Modes,
                 privacy : BOOLEAN]
    /\ hals \in [open : SUBSET (Nums \ {0}), opens : Nums]
    /\ device \in [power : Modes, privacy : BOOLEAN]
    /\ DOMAIN queues \subseteq 1 .. QIds
    /\ \A q \in DOMAIN queues : Len(queues[q]) <= QMax
    /\ \A t \in DOMAIN thr : thr[t].st \in {"init", "loop", "poll", "ending", "exited"}
    /\ answer \in [Callers -> {"none", "ok", "error", "on", "off"}]
    /\ voiceQ \in 0 .. QIds
    /\ stray \subseteq {"input", "semaphore"}

\* The call that holds the object's mutex is on its way out of it.
Leaving(o) == mutex[o] # None /\ call[mutex[o]].op \in {"close", "destroy"}

\* An open object has a main thread that reads its queue.
Served ==
    \A o \in Objects : obj[o].opened /\ ~Leaving(o) =>
        /\ IsOpen(obj[o].msgq)
        /\ thr[obj[o].thread].q = obj[o].msgq
        /\ thr[obj[o].thread].st \in {"loop", "poll"}

\* Whoever will be woken is waiting for it: no queue and no starting thread
\* refers to the stack of a call that has gone on.
SemaphoresLive ==
    /\ "semaphore" \notin stray
    /\ \A q \in DOMAIN queues : \A i \in DOMAIN queues[q] :
            queues[q][i].sem # Nobody => Waiting(queues[q][i].sem)
    /\ \A t \in DOMAIN thr : thr[t].st = "init" => Waiting(thr[t].sem)

\* Nobody uses an input object that has been freed.
InputLive == "input" \notin stray

\* A queue belongs to an object that is open or in a call.
QueuesOwned ==
    \A q \in DOMAIN queues : \E o \in Objects :
        obj[o].msgq = q /\ (obj[o].opened \/ mutex[o] # None)

\* Between calls the HAL is open when, and only when, an object is, and only
\* once; and the HAL an open object's thread was given stays open.
HalCounted ==
    /\ (\A c \in Callers : At(c, "out")) =>
        /\ proc.users = Cardinality({o \in Objects : obj[o].opened})
        /\ proc.hal # 0 <=> proc.users > 0
        /\ hals.open = {proc.hal} \ {0}
    /\ \A o \in Objects : obj[o].opened /\ ~Leaving(o) => thr[obj[o].thread].hal \in hals.open

\* Nothing of the process is left open without an owner, nor closed under one.
NothingLeaks == QueuesOwned /\ HalCounted

\* Between calls the HAL is in the privacy mode the process believes it is in.
PrivacyTold ==
    (\A c \in Callers : At(c, "out")) /\ proc.hal # 0 => device.privacy = proc.privacy

\* Between calls the HAL is in the power mode the process believes it is in, so
\* that an update that finds no change has nothing to do.
PowerTold ==
    (\A c \in Callers : At(c, "out")) /\ proc.hal # 0 => device.power = proc.power

\* Once an open object's idle start is handled, the messages of the HAL go to
\* the queue of an object that is open.
VoiceFollows ==
    \A o \in Objects :
        /\ obj[o].opened /\ ~Leaving(o) /\ obj[o].input = "live"
        /\ \A i \in DOMAIN queues[obj[o].msgq] : queues[obj[o].msgq][i].type # "idleStart"
        => IsOpen(voiceQ) /\ \E p \in Objects : obj[p].opened /\ obj[p].msgq = voiceQ

\* A closed object can be opened again: its last thread is not in the way.
Reopens == \A o \in Objects : mutex[o] = None /\ ~obj[o].opened => ~obj[o].running

\* Every call returns.
CallsReturn == \A c \in Callers : At(c, "enter") ~> At(c, "out")
=============================================================================
