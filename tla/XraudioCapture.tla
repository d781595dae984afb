--------------------------- MODULE XraudioCapture ---------------------------
(***************************************************************************)
(* Capturing audio for diagnosis.  The internal capture writes each        *)
(* recording to a file of its own in a directory that keeps the last       *)
(* file_qty_max files, also over restarts of the process; a capture        *)
(* session of the client writes the signal at several points of the        *)
(* processing to files.  Both, and raw recordings, switch the HAL between  *)
(* its normal and its raw test mode.                                       *)
(*                                                                         *)
(* Every call of this module keeps mutex_api to its end (recordings are    *)
(* asynchronous, the others wait for the main thread), so the calls of all *)
(* clients are those of one.                                               *)
(***************************************************************************)
EXTENDS Integers, Sequences, FiniteSets

CONSTANTS
    Groups,      \* session groups: the default one and the microphone tap
    Kinds,       \* the recordings that are made
    Types,       \* the capture types: sets of flags
    Qtys,        \* values the client gives file_qty_max
    Failures,    \* what can fail
    MaxClock     \* bound: seconds that pass

AllKinds    == {"pcm", "raw", "encoded", "decoded"}
AllFlags    == {"all", "kwd", "eos", "output"}
AllFailures == {"fopen", "write", "rawOn", "crash"}

ASSUME CaptureAssumption ==
    /\ Groups \subseteq {"default", "tap"}
    /\ Kinds \subseteq AllKinds /\ Types \subseteq SUBSET AllFlags
    /\ Failures \subseteq AllFailures
    /\ Qtys \subseteq Nat \ {0} /\ MaxClock \in Nat
    /\ \E n \in Qtys : \A m \in Qtys : m <= n     \* file_qty_max is a C integer

VARIABLES
    dir,     \* per index of a name, the file of the directory that has it;
             \* wave: it is open and waits for the header of a wave file
    clock,   \* the time in seconds, as stat reports it
    params,  \* internal_capture_params: file_qty_max; 0 while disabled
    opened, session, capt,  \* the object: opened, the groups that record, capture.active
    call,    \* the call in progress: the messages left and whether it waits
    q,       \* the main message queue
    thr,     \* capture_internal of the main thread: file_qty_max and file_index
    inst,    \* per group the recording instance with its capture_internal
    rawRec,  \* record.raw_mic_enable
    cs,      \* record.capture_session
    test,    \* the HAL is in its raw test mode
    seen     \* what the properties have to remember of the past

client  == <<params, opened, session, capt, call>>
vars == <<dir, clock, params, opened, session, capt, call, q, thr, inst, rawRec,
          cs, test, seen>>

-----------------------------------------------------------------------------
Most    == CHOOSE n \in Qtys : \A m \in Qtys : m <= n
Indexes == 0 .. Most          \* one more than the rotation may use
NoFile  == [time |-> 0, wave |-> FALSE, st |-> "none"]
\* A handle is the index of an open file, or one of
Null     == -1
Unlinked == -2      \* a file that is open but deleted
Stale    == -3      \* a handle that has been closed
NoInst  == [raw |-> FALSE, active |-> FALSE, two |-> FALSE, native |-> Null,
            decoded |-> Null]
NoCs    == [active |-> FALSE, type |-> {}, raw |-> FALSE, files |-> {}]
NoCall  == [todo |-> <<>>, waits |-> FALSE]
Off     == [qty |-> 0, index |-> 0]
Clean   == [most |-> 0, orderly |-> TRUE, stray |-> FALSE]

Init ==
    /\ dir = [i \in Indexes |-> NoFile] /\ clock = 0
    /\ params = 0 /\ opened = FALSE /\ session = {} /\ capt = FALSE
    /\ call = NoCall /\ q = <<>> /\ thr = Off
    /\ inst = [g \in Groups |-> NoInst] /\ rawRec = FALSE /\ cs = NoCs
    /\ test = FALSE /\ seen = Clean

-----------------------------------------------------------------------------
(* Where the rotation goes on after a restart.                             *)

Present == {i \in Indexes : dir[i].st # "none"}
Time(i) == dir[i].time
Before(i) == {j \in Present : j < i}
\* The entry scandir lists after the one of index i.
IsSuccessor(i, j) == j \in Present /\ i < j /\ Before(j) = Before(i) \cup {i}
\* difftime of two neighbours: the entry is newer than the next.
Turns(i) == i \in Present /\ \E j \in Present : IsSuccessor(i, j) /\ Time(i) > Time(j)

\* Mutant: one entry too early.
NextIndexNewest(qty) ==
    IF Cardinality(Present) < qty THEN Cardinality(Present)
    ELSE IF \E i \in Present : Turns(i)
         THEN Cardinality(Before(CHOOSE i \in Present : Turns(i)))
         ELSE 0
\* xraudio_capture_next_file_index.
NextIndex(qty) ==
    IF Cardinality(Present) < qty THEN Cardinality(Present)
    ELSE IF \E i \in Present : Turns(i)
         THEN 1 + Cardinality(Before(CHOOSE i \in Present :
                                        Turns(i) /\ \A j \in Before(i) : ~Turns(j)))
         ELSE 0

-----------------------------------------------------------------------------
(* Files.                                                                  *)

Open(d) == {i \in Indexes : d[i].st = "open"}
\* fclose, after the header of a wave file has been completed or not.
Closed(d, handles, header) ==
    [i \in Indexes |->
        IF i \in handles
        THEN [time |-> clock, wave |-> FALSE,
              st |-> IF d[i].wave /\ ~header THEN "cut" ELSE "closed"]
        ELSE d[i]]
\* Whoever has the file of index i open goes on writing to a deleted file.
Unlink(is, i) ==
    [g \in Groups |-> [is[g] EXCEPT !.native  = IF @ = i THEN Unlinked ELSE @,
                                    !.decoded = IF @ = i THEN Unlinked ELSE @]]
Handles(i) == ({i.native} \cup (IF i.two THEN {i.decoded} ELSE {})) \ {Null}

\* One pass of xraudio_in_capture_internal_input_begin over its captures:
\* what has the index is deleted, the file made and the index advanced.
WrapLate(i) == IF i > thr.qty THEN 0 ELSE i      \* mutant: one too late
Wrap(i) == IF i >= thr.qty THEN 0 ELSE i
Set(is, g, decoded, h) ==
    IF decoded THEN [is EXCEPT ![g].decoded = h] ELSE [is EXCEPT ![g].native = h]
Make(s, g, decoded, wave, ok) ==
    LET is == Unlink(s.inst, s.index) IN
    IF ok THEN [dir   |-> [s.dir EXCEPT ![s.index] = [time |-> clock, wave |-> wave,
                                                      st |-> "open"]],
                inst  |-> Set(is, g, decoded, s.index),
                index |-> Wrap(s.index + 1)]
    ELSE [dir   |-> [s.dir EXCEPT ![s.index] = NoFile],
          inst  |-> Set(is, g, decoded, Null),
          index |-> s.index]

NativeIsWave(kind) == kind = "pcm"
\* Every recording so far was captured alone, in a directory of one size, and no
\* step of it failed.
StaysOrderly == Open(dir) = {} /\ \A g \in Groups : ~inst[g].active

\* The passes of a recording that begins; fails: the one whose fopen fails.
Passes(g, kind, raw, fails) ==
    LET s0 == [dir |-> dir, index |-> thr.index,
               inst |-> [inst EXCEPT ![g].raw = raw, ![g].two = kind = "decoded",
                                     ![g].active = fails = 0]]
        s1 == Make(s0, g, FALSE, NativeIsWave(kind), fails # 1)
    IN  IF kind = "decoded" /\ fails # 1 THEN Make(s1, g, TRUE, TRUE, fails # 2) ELSE s1
\* What was made is closed again, and its handles are left.
Shut(i) == [i EXCEPT !.native  = IF @ = Null THEN @ ELSE Stale,
                     !.decoded = IF ~i.two \/ @ = Null THEN @ ELSE Stale]

\* xraudio_in_capture_internal_input_begin.
Begin(g, kind, raw, fails) ==
    LET s    == Passes(g, kind, raw, fails)
        shut == IF fails = 0 THEN {} ELSE Handles(s.inst[g])
    IN  /\ inst' = IF fails = 0 THEN s.inst ELSE [s.inst EXCEPT ![g] = Shut(@)]
        /\ dir' = Closed(s.dir, shut, FALSE)
        /\ thr' = [thr EXCEPT !.index = s.index]
        /\ seen' = [seen EXCEPT !.orderly = @ /\ fails = 0 /\ StaysOrderly,
                                !.stray = @ \/ Stale \in shut]

\* xraudio_in_capture_internal_end, in the instance and in its files.
Ended(i) == [i EXCEPT !.active = FALSE, !.native = Null, !.two = FALSE,
                      !.decoded = IF i.two THEN Null ELSE @]
\* Mutant: the header of the wave file is left as it was.
EndNoHeader(g, new) ==
    /\ inst' = [inst EXCEPT ![g] = Ended(new)]
    /\ dir' = Closed(dir, Handles(new), FALSE)
    /\ UNCHANGED seen
\* The instance g goes over to new, and its capture ends.
End(g, new) ==
    /\ inst' = [inst EXCEPT ![g] = Ended(new)]
    /\ dir' = Closed(dir, Handles(new), TRUE)
    /\ seen' = [seen EXCEPT !.stray = @ \/ Stale \in Handles(new)]

-----------------------------------------------------------------------------
(* Calls, as the messages they send, one after the other; those of type    *)
(* "start" are not waited for.  What a call leaves in the object is set when it begins: nobody    *)
(* else reads it before its end.                                           *)

Idle == call = NoCall
Msg(type) == [type |-> type, g |-> "default", kind |-> "pcm", ctype |-> {}, raw |-> FALSE]
For(type, g) == [Msg(type) EXCEPT !.g = g]
Push(todo) ==
    /\ q' = Append(q, Head(todo))
    /\ call' = [todo |-> Tail(todo), waits |-> Head(todo).type # "start"]
MainThread == <<thr, inst, rawRec, cs, test>>

\* xraudio_internal_capture_params_set; with enable FALSE it changes nothing.
ParamsSet ==
    /\ Idle /\ ~opened
    /\ \E n \in Qtys : /\ params' = n
                       /\ seen' = [seen EXCEPT !.most = IF @ > n THEN @ ELSE n,
                                               !.orderly = @ /\ seen.most \in {0, n}]
    /\ UNCHANGED <<dir, clock, opened, session, capt, call, q, MainThread>>

\* xraudio_internal_capture_delete_files.
DeleteFiles ==
    /\ Idle /\ ~opened
    /\ dir' = [i \in Indexes |-> NoFile]
    /\ UNCHANGED <<clock, client, q, seen, MainThread>>

\* xraudio_open: the main thread begins with nothing but its index.
OpenObject ==
    /\ Idle /\ ~opened
    /\ opened' = TRUE
    /\ thr' = IF params = 0 THEN Off ELSE [qty |-> params, index |-> NextIndex(params)]
    /\ inst' = [g \in Groups |-> NoInst] /\ rawRec' = FALSE /\ cs' = NoCs
    /\ UNCHANGED <<dir, clock, params, session, capt, call, q, test, seen>>

\* An asynchronous recording or stream.
Record ==
    /\ Idle /\ opened
    /\ \E g \in Groups \ session, k \in Kinds :
        /\ k # "pcm" => g = "default"
        /\ session' = session \cup {g}
        /\ Push(<<[For("start", g) EXCEPT !.kind = k]>>)
    /\ UNCHANGED <<dir, clock, params, opened, capt, seen, MainThread>>

Stop ==
    /\ Idle /\ opened
    /\ \E g \in session : session' = session \ {g} /\ Push(<<For("stop", g)>>)
    /\ UNCHANGED <<dir, clock, params, opened, capt, seen, MainThread>>

\* xraudio_capture_to_file_start and xraudio_capture_stop.
CaptureStart ==
    /\ Idle /\ opened /\ ~capt
    /\ capt' = TRUE
    /\ \E t \in Types, b \in BOOLEAN :
            Push(<<[Msg("captureStart") EXCEPT !.ctype = t, !.raw = b]>>)
    /\ UNCHANGED <<dir, clock, params, opened, session, seen, MainThread>>
CaptureStop ==
    /\ Idle /\ opened /\ capt
    /\ capt' = FALSE
    /\ Push(<<Msg("captureStop")>>)
    /\ UNCHANGED <<dir, clock, params, opened, session, seen, MainThread>>

\* xraudio_close: xraudio_input_close_locked stops what is in progress.
If(b, m) == IF b THEN <<m>> ELSE <<>>
CloseObject ==
    /\ Idle /\ opened
    /\ opened' = FALSE /\ session' = {} /\ capt' = FALSE
    /\ Push(If("default" \in session, For("stop", "default"))
             \o If("tap" \in session, For("stop", "tap"))
             \o If(capt, Msg("captureStop")) \o <<Msg("terminate")>>)
    /\ UNCHANGED <<dir, clock, params, seen, MainThread>>

Send ==
    /\ call.todo # <<>> /\ ~call.waits
    /\ Push(call.todo)
    /\ UNCHANGED <<dir, clock, params, opened, session, capt, seen, MainThread>>

-----------------------------------------------------------------------------
(* The main thread.                                                        *)

Received(type) == q # <<>> /\ Head(q).type = type
Take == q' = Tail(q)
Post == call' = [call EXCEPT !.waits = FALSE]
May(b, failure) == b \/ failure \in Failures
\* The HAL is told to switch to its test mode, and may refuse.
RawOn(b, ok) == /\ ok \/ (b /\ "rawOn" \in Failures)
                /\ test' = (test \/ (b /\ ok))

\* xraudio_msg_record_start.
RecordStart ==
    /\ Received("start") /\ Take
    /\ LET m == Head(q) IN
        /\ \E ok \in BOOLEAN : /\ RawOn(m.kind = "raw", ok)
                               /\ rawRec' = (rawRec \/ (m.kind = "raw" /\ ok))
        /\ LET raw == m.kind = "raw" \/ inst[m.g].raw IN
            IF thr.qty = 0
            THEN /\ inst' = [inst EXCEPT ![m.g].raw = raw]
                 /\ UNCHANGED <<dir, thr, seen>>
            ELSE \E fails \in 0 .. (IF m.kind = "decoded" THEN 2 ELSE 1) :
                    May(fails = 0, "fopen") /\ Begin(m.g, m.kind, raw, fails)
    /\ UNCHANGED <<clock, client, cs>>

\* xraudio_msg_record_stop.
RecordStop ==
    /\ Received("stop") /\ Take /\ Post
    /\ LET g     == Head(q).g
           clear == inst[g].raw /\ rawRec
           new   == [inst[g] EXCEPT !.raw = FALSE]
       IN  /\ IF inst[g].active THEN End(g, new)
              ELSE inst' = [inst EXCEPT ![g] = new] /\ UNCHANGED <<dir, seen>>
           /\ test' = (test /\ ~clear) /\ rawRec' = (rawRec /\ ~clear)
    /\ UNCHANGED <<clock, params, opened, session, capt, thr, cs>>

\* The files of a capture session: inputs, detector inputs and the output.
Channels(type) == IF "all" \in type THEN {0, 1} ELSE {0}
Points(type) == ({"input"} \cup (type \cap {"kwd", "eos"})) \X Channels(type)
                \cup {<<p, 0>> : p \in type \cap {"output"}}

\* xraudio_msg_capture_start; leftovers are closed first.
SessionStart ==
    /\ Received("captureStart") /\ Take /\ Post
    /\ LET m == Head(q) IN
        \E failed \in SUBSET Points(m.ctype), ok \in BOOLEAN :
            /\ May(failed = {}, "fopen") /\ RawOn(m.raw, ok)
            /\ cs' = [active |-> TRUE, type |-> m.ctype, raw |-> m.raw /\ ok,
                      files |-> Points(m.ctype) \ failed]
    /\ UNCHANGED <<dir, clock, params, opened, session, capt, thr, inst, rawRec, seen>>

\* Mutant: the type is reset before the channels are counted.
SessionStopTypeFirst ==
    /\ Received("captureStop") /\ Take /\ Post
    /\ cs' = [NoCs EXCEPT !.files = {f \in cs.files : f[1] # "output" /\ f[2] # 0}]
    /\ test' = (test /\ ~cs.raw)
    /\ UNCHANGED <<dir, clock, params, opened, session, capt, thr, inst, rawRec, seen>>
\* xraudio_msg_capture_stop.
SessionStop ==
    /\ Received("captureStop") /\ Take /\ Post
    /\ cs' = [NoCs EXCEPT !.files = {f \in cs.files : f[1] # "output"
                                                      /\ f[2] \notin Channels(cs.type)}]
    /\ test' = (test /\ ~cs.raw)
    /\ UNCHANGED <<dir, clock, params, opened, session, capt, thr, inst, rawRec, seen>>

\* xraudio_msg_terminate, and the end of the thread.
Terminated ==
    /\ Received("terminate") /\ Take /\ Post
    /\ thr' = Off
    /\ UNCHANGED <<dir, clock, params, opened, session, capt, inst, rawRec, cs,
                   test, seen>>

\* A write reaches file_size_max or fails (xraudio_in_capture_internal_to_file).
InternalEnds ==
    /\ thr.qty > 0
    /\ \E g \in Groups : inst[g].active /\ End(g, inst[g])
    /\ UNCHANGED <<clock, client, q, thr, rawRec, cs, test>>

\* A write of a capture session fails: its files stay open until the stop.
SessionWriteFails ==
    /\ "write" \in Failures /\ cs.active /\ cs.files # {}
    /\ cs' = [cs EXCEPT !.active = FALSE]
    /\ UNCHANGED <<dir, clock, client, q, thr, inst, rawRec, test, seen>>

-----------------------------------------------------------------------------
(* The process dies, perhaps between the deletion of a file and the fopen  *)
(* of the next with the same index, and starts again.  What it leaves of a *)
(* file that was open counts as whole.                                     *)

Crash ==
    /\ "crash" \in Failures
    /\ \E hole \in BOOLEAN :
        /\ hole => Received("start") /\ thr.qty > 0
        /\ LET d == IF hole THEN [dir EXCEPT ![thr.index] = NoFile] ELSE dir
           IN  dir' = Closed(d, Open(d), TRUE)
        /\ seen' = [seen EXCEPT !.orderly = @ /\ ~hole]
    /\ params' = 0 /\ opened' = FALSE /\ session' = {} /\ capt' = FALSE
    /\ call' = NoCall /\ q' = <<>> /\ thr' = Off
    /\ inst' = [g \in Groups |-> NoInst] /\ rawRec' = FALSE /\ cs' = NoCs /\ test' = FALSE
    /\ UNCHANGED clock

Tick ==
    /\ clock < MaxClock
    /\ clock' = clock + 1
    /\ UNCHANGED <<dir, client, q, thr, inst, rawRec, cs, test, seen>>

Next ==
    \/ ParamsSet \/ DeleteFiles \/ OpenObject \/ CloseObject
    \/ Record \/ Stop \/ CaptureStart \/ CaptureStop \/ Send
    \/ RecordStart \/ RecordStop \/ SessionStart \/ SessionStop \/ Terminated
    \/ InternalEnds \/ SessionWriteFails
    \/ Crash \/ Tick

Spec == Init /\ [][Next]_vars

-----------------------------------------------------------------------------
(* Properties.                                                             *)

HandleType == Indexes \cup {Null, Unlinked, Stale}
InstType == [raw : BOOLEAN, active : BOOLEAN, two : BOOLEAN,
             native : HandleType, decoded : HandleType]

\* Every variable has its type; in particular the rotation never leaves the
\* indexes below the largest limit.
TypeOK ==
    /\ dir \in [Indexes -> [time : 0 .. MaxClock, wave : BOOLEAN,
                            st : {"none", "open", "closed", "cut"}]]
    /\ clock \in 0 .. MaxClock /\ params \in {0} \cup Qtys
    /\ opened \in BOOLEAN /\ session \subseteq Groups /\ capt \in BOOLEAN
    /\ thr \in [qty : {0} \cup Qtys, index : 0 .. Most - 1]
    /\ inst \in [Groups -> InstType]
    /\ rawRec \in BOOLEAN /\ test \in BOOLEAN
    /\ cs \in [active : BOOLEAN, type : SUBSET AllFlags, raw : BOOLEAN,
               files : SUBSET ((AllFlags \cup {"input"}) \X {0, 1})]

\* The directory never holds more files than the largest limit it was given
\* (file_qty_max), over restarts, crashes and failures to make a file.
FilesBounded == Cardinality(Present) <= seen.most

\* The rotation loses the oldest: a new file takes the place of another only in
\* a full directory, and what stays is not older than what goes, also after a
\* restart, when only the times of the files tell where to go on.
OldestGoes ==
    LET made  == {i \in Indexes : dir'[i] # dir[i] /\ dir'[i].st = "open"}
        gone  == {i \in Present : dir'[i] # dir[i]}
        stays == {i \in Present : dir'[i] = dir[i]}
    IN  seen.orderly' /\ made # {} =>
          /\ \A i \in gone, j \in stays : Time(i) <= Time(j)
          /\ gone = {} \/ Cardinality(Present) + Cardinality(made) > thr.qty
OldestGoesFirst == [][OldestGoes]_vars

\* The rotation of the files is what its parameters promise: as many of the
\* newest as the limit allows.
RotationSound == []FilesBounded /\ OldestGoesFirst

\* A capture that has ended is usable: a wave file is closed with its header,
\* unless the process died, and no handle is closed twice or forgotten open.
CapturesFinished ==
    /\ \A i \in Indexes : dir[i].st # "cut"
    /\ ~seen.stray
    /\ \A i \in Open(dir) : \E g \in Groups : inst[g].active /\ i \in Handles(inst[g])

\* When the client has stopped everything, no file of a capture is open, and
\* the HAL is back in its normal mode.
NothingLeft ==
    Idle /\ q = <<>> /\ session = {} /\ ~capt => Open(dir) = {} /\ cs.files = {} /\ ~test

\* While a raw recording or a raw capture session goes on, the HAL delivers raw
\* audio.
RawServed ==
    ((\E g \in Groups : inst[g].raw) /\ rawRec) \/ cs.raw => test
=============================================================================
