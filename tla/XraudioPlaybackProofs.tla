----------------------- MODULE XraudioPlaybackProofs -----------------------
(***************************************************************************)
(* Proofs about the playback, for every number of clients, playbacks and   *)
(* openings.  Its types; that the semaphore on a caller's stack is in one  *)
(* place, and only while its owner waits; who holds the two mutexes where, *)
(* and with that the life of the output object; that nothing is left when  *)
(* nothing plays, for a stop comes after every start; that the handles in  *)
(* use are open; that the state tells of the HAL output; and that the end  *)
(* of a playback is told once.  What a theorem assumes about the calls     *)
(* that the clients make is written in it: the calls left out are those    *)
(* that break the property in the code.                                    *)
(***************************************************************************)
EXTENDS XraudioPlayback, FiniteSetTheorems, TLAPS

-----------------------------------------------------------------------------
(* Types.                                                                  *)

\* A stop and a terminate are always waited for.
AlwaysAwaited == \A i \in DOMAIN q : q[i].type \in {"stop", "terminate"} => q[i].sem # None
\* The types of what the clients write and of what the main thread writes.
ObjTypes == /\ api \in Callers \cup {None} /\ play \in Callers \cup {None}
            /\ obj \in ObjType /\ plays \in Nums /\ opens \in 0 .. MaxOpens
            /\ open \subseteq Handles
ThrTypes == /\ thr \in ThrType /\ timer \in BOOLEAN /\ posted \subseteq Callers
            /\ stray \subseteq Handles
            /\ told \in [1 .. MaxPlays -> [eof : 0 .. 2, error : 0 .. 2]]
CallTypes == call \in [Callers -> CallType]
QueueTypes == q \in Seq(Msg) /\ Len(q) <= QMax /\ AlwaysAwaited

TypeInv == CallTypes /\ ObjTypes /\ ThrTypes /\ QueueTypes

\* The invariant of the types adds to TypeOK only that stops and terminates are awaited.
LEMMA TypesSplit == TypeInv <=> TypeOK /\ AlwaysAwaited
BY DEF TypeInv, TypeOK, CallTypes, ObjTypes, ThrTypes, QueueTypes

\* What is held of a kind is a handle.
LEMMA HeldTyped ==
    ASSUME NEW kind \in {"hal", "file", "pipe", "fifo"}, NEW n \in Nums
    PROVE  Held(kind, n) \subseteq Handles
BY BoundsAssumption DEF Held, Handles, Nums

\* Pushing a message keeps the queue typed and within QMax.
LEMMA PushTyped ==
    ASSUME QueueTypes, NEW m \in Msg, Push(m),
           m.type \in {"stop", "terminate"} => m.sem # None
    PROVE  QueueTypes'
BY BoundsAssumption DEF QueueTypes, Push, AlwaysAwaited

\* A message without data keeps the queue typed.
LEMMA SignalTyped ==
    ASSUME QueueTypes, NEW type \in {"pause", "resume", "stop", "terminate"},
           NEW c \in Callers \cup {None}, Signal(type, c),
           type \in {"stop", "terminate"} => c # None
    PROVE  QueueTypes'
<1> DEFINE m == [type |-> type, sem |-> c]
<1>1. m \in Msg /\ m.type = type /\ m.sem = c /\ Push(m)
  BY DEF Msg, Signal
<1> HIDE DEF m
<1>2. QED
  BY <1>1, PushTyped

\* Taking the head keeps the queue typed.
LEMMA PopTyped ==
    ASSUME QueueTypes, q # <<>>, Next0
    PROVE  QueueTypes'
<1>1. /\ q' \in Seq(Msg) /\ Len(q') <= QMax
      /\ \A i \in DOMAIN q' : i + 1 \in DOMAIN q /\ q'[i] = q[i + 1]
  BY BoundsAssumption DEF QueueTypes, Next0
<1>2. QED
  BY <1>1 DEF QueueTypes, AlwaysAwaited

\* A caller outside of any call is typed.
LEMMA NoCallTyped == NoCall \in CallType
BY BoundsAssumption DEF NoCall, CallType, PCs, Nums

\* The main thread's own call of stop, from a callback, is typed.
LEMMA StopCallTyped == [NoCall EXCEPT !.pc = "api", !.op = "stop"] \in CallType
BY NoCallTyped DEF CallType, PCs, AllOps

\* The main thread's record is typed when it starts.
LEMMA NoThrTyped == NoThr \in ThrType /\ [NoThr EXCEPT !.on = TRUE] \in ThrType
<1>1. NoThr \in ThrType
  BY BoundsAssumption DEF NoThr, ThrType, Nums
<1>2. \A t \in ThrType : [t EXCEPT !.on = TRUE] \in ThrType
  BY DEF ThrType
<1>3. QED
  BY <1>1, <1>2

\* Returning from a call keeps the calls typed.
LEMMA ReturnTyped ==
    ASSUME CallTypes, NEW c \in Callers, Return(c)
    PROVE  CallTypes'
BY NoCallTyped DEF CallTypes, Return

\* Moving on within a call keeps the calls typed.
LEMMA GotoTyped ==
    ASSUME CallTypes, NEW c \in Callers, NEW pc \in PCs, Goto(c, pc)
    PROVE  CallTypes'
BY DEF CallTypes, Goto, CallType

\* A call that read the output object's handle is typed.
LEMMA EntersTyped ==
    ASSUME CallTypes, ObjTypes, NEW c \in Callers
    PROVE  Enters(c) \in CallType
BY DEF CallTypes, ObjTypes, Enters, CallType, PCs

\* The main thread's frames.
LEMMA NotifyTyped ==
    ASSUME CallTypes, ThrTypes, NEW t \in ThrType, NEW rc \in -1 .. 1, Notify(t, rc)
    PROVE  /\ CallTypes' /\ thr' \in ThrType /\ posted' \subseteq Callers
           /\ told' \in [1 .. MaxPlays -> [eof : 0 .. 2, error : 0 .. 2]]
<1>1. thr' \in ThrType
  BY DEF Notify, ThrType
<1>2. posted' \subseteq Callers
  BY DEF Notify, ThrType, ThrTypes
<1>3. CallTypes'
  BY StopCallTyped DEF Notify, CallBack, CallTypes, Callers
<1>4. told' \in [1 .. MaxPlays -> [eof : 0 .. 2, error : 0 .. 2]]
  <2>1. ASSUME NEW n \in 1 .. MaxPlays, NEW event \in {"eof", "error"}, Tell(n, event)
        PROVE  told' \in [1 .. MaxPlays -> [eof : 0 .. 2, error : 0 .. 2]]
    BY <2>1 DEF Tell, Count, ThrTypes
  <2>2. t.cb # 0 => t.cb \in 1 .. MaxPlays
    BY BoundsAssumption DEF ThrType, Nums
  <2>3. QED
    BY <2>1, <2>2 DEF Notify, ThrTypes
<1>5. QED
  BY <1>1, <1>2, <1>3, <1>4

\* A session with no source left, and one with at most one.
Silent(t) == t.file = 0 /\ t.memory = 0 /\ t.pipe = 0 /\ t.user = 0
OneSource(t) == /\ t.file # 0 => t.memory = 0 /\ t.pipe = 0
                /\ t.memory # 0 => t.pipe = 0

\* What the main thread forgets when a source ends: the source, never its HAL handle,
\* its FIFO, its callback or its semaphore; a single source leaves it silent.
LEMMA ForgetTyped ==
    ASSUME NEW t \in ThrType
    PROVE  /\ Forget(t) \in ThrType
           /\ Forget(t).hal = t.hal /\ Forget(t).fifo = t.fifo /\ Forget(t).user = t.user
           /\ Forget(t).sem = t.sem /\ Forget(t).sync = t.sync /\ Forget(t).cb = t.cb
           /\ Forget(t).file \in {t.file, 0} /\ Forget(t).pipe \in {t.pipe, 0}
           /\ Forget(t).memory \in {t.memory, 0}
           /\ ~Silent(t) /\ t.user = 0 /\ OneSource(t) => Silent(Forget(t))
<1> DEFINE a == IF Kind(t) = "file" THEN 0 ELSE t.file
           b == IF Kind(t) = "memory" THEN 0 ELSE t.memory
           d == IF Kind(t) \in {"pipe", "user"} THEN 0 ELSE t.pipe
<1>1. Forget(t) = [t EXCEPT !.file = a, !.memory = b, !.pipe = d]
  BY DEF Forget
<1>2. a \in Nums /\ b \in Nums /\ d \in Nums
      /\ a \in {t.file, 0} /\ b \in {t.memory, 0} /\ d \in {t.pipe, 0}
  BY BoundsAssumption DEF ThrType, Nums
<1>3. ~Silent(t) /\ t.user = 0 /\ OneSource(t) => a = 0 /\ b = 0 /\ d = 0
  BY DEF Silent, OneSource, Kind
<1> HIDE DEF a, b, d
<1>4. QED
  BY <1>1, <1>2, <1>3 DEF ThrType, Silent

\* A frame that is asked for is what the end of the processing makes of the session t
\* with some frames less, for some return code.
LEMMA SpkrParts ==
    ASSUME NEW t \in ThrType, NEW k \in {1, 2}, NEW stays \in BOOLEAN,
           SpkrData(t, k, stays), t.hal # 0
    PROVE  \E f \in ThrType, rc \in -1 .. 1, wrote \in BOOLEAN :
              /\ Notify(f, rc) /\ stray' = stray \cup (Uses(t, wrote) \ open)
              /\ timer' = (rc > 0 \/ stays)
              /\ f.hal = t.hal /\ f.fifo = t.fifo /\ f.user = t.user
              /\ f.sem = t.sem /\ f.sync = t.sync /\ f.cb = t.cb
              /\ f.file \in {t.file, 0} /\ f.pipe \in {t.pipe, 0} /\ f.memory \in {t.memory, 0}
              /\ rc = 0 => 0 \in HalWrites
                           \/ (~Silent(t) /\ (t.user = 0 /\ OneSource(t) => Silent(f)))
<1>1. PICK r \in ReadsOf(t, k), w \in HalWrites :
         LET wrote == r # "error" /\ ~(Kind(t) = "file" /\ t.left = 0)
             rc == CASE r = "error" -> -1 [] r = "eof" -> 0 [] OTHER -> w
             s  == [t EXCEPT !.left = Less(@, k)]
         IN  /\ Notify(IF r = "eof" THEN Forget(s) ELSE s, rc)
             /\ stray' = stray \cup (Uses(t, wrote) \ open)
             /\ timer' = (rc > 0 \/ stays)
  BY DEF SpkrData
<1> DEFINE wrote == r # "error" /\ ~(Kind(t) = "file" /\ t.left = 0)
           rc == CASE r = "error" -> -1 [] r = "eof" -> 0 [] OTHER -> w
           s  == [t EXCEPT !.left = Less(@, k)]
           f  == IF r = "eof" THEN Forget(s) ELSE s
<1>2. rc \in -1 .. 1
  BY OutcomesAssumption
<1>3. s \in ThrType
  BY BoundsAssumption DEF ThrType, Less
<1>4. /\ s.hal = t.hal /\ s.fifo = t.fifo /\ s.user = t.user /\ s.file = t.file
      /\ s.sem = t.sem /\ s.sync = t.sync /\ s.cb = t.cb /\ s.pipe = t.pipe
      /\ s.memory = t.memory
  BY DEF ThrType
<1>5. Notify(f, rc) /\ stray' = stray \cup (Uses(t, wrote) \ open)
      /\ timer' = (rc > 0 \/ stays)
  BY <1>1
<1>6. wrote \in BOOLEAN
  OBVIOUS
<1>7. rc = 0 => 0 \in HalWrites \/ (r = "eof" /\ ~Silent(t))
  BY DEF ReadsOf, Kind, Silent
<1> HIDE DEF rc, s, wrote
<1>8. f \in ThrType
  BY <1>3, ForgetTyped
<1>9. /\ f.hal = t.hal /\ f.fifo = t.fifo /\ f.user = t.user
      /\ f.sem = t.sem /\ f.sync = t.sync /\ f.cb = t.cb
      /\ f.file \in {t.file, 0} /\ f.pipe \in {t.pipe, 0} /\ f.memory \in {t.memory, 0}
  BY <1>3, <1>4, ForgetTyped
<1>10. rc = 0 => 0 \in HalWrites \/ (~Silent(t) /\ (t.user = 0 /\ OneSource(t) => Silent(f)))
  <2>1. (Silent(s) <=> Silent(t)) /\ (OneSource(s) <=> OneSource(t))
    BY <1>4 DEF Silent, OneSource
  <2>2. QED
    BY <1>7, <1>3, <1>4, <2>1, ForgetTyped
<1> HIDE DEF f
<1>11. QED
  BY <1>2, <1>5, <1>6, <1>8, <1>9, <1>10

\* What a frame uses are handles.
LEMMA UsesTyped ==
    ASSUME NEW t \in ThrType, NEW wrote \in BOOLEAN
    PROVE  Uses(t, wrote) \subseteq Handles
BY BoundsAssumption, HeldTyped DEF Uses, Kind, Handles, ThrType, Nums

\* A frame keeps the main thread's record, the handles and the callers typed.
LEMMA SpkrTyped ==
    ASSUME CallTypes, ThrTypes, NEW t \in ThrType, NEW k \in {1, 2}, NEW stays \in BOOLEAN,
           SpkrData(t, k, stays), open \subseteq Handles
    PROVE  CallTypes' /\ ThrTypes'
<1>1. CASE t.hal = 0
  BY <1>1 DEF CallTypes, ThrTypes, SpkrData
<1>2. CASE t.hal # 0
  <2>1. PICK f \in ThrType, rc \in -1 .. 1, wrote \in BOOLEAN :
              /\ Notify(f, rc) /\ stray' = stray \cup (Uses(t, wrote) \ open)
              /\ timer' = (rc > 0 \/ stays)
    BY <1>2, SpkrParts
  <2>2. QED
    BY <2>1, UsesTyped, NotifyTyped DEF ThrTypes
<1>3. QED
  BY <1>1, <1>2

\* What a frame does with the session, its semaphore and the callback.
LEMMA SpkrMoves ==
    ASSUME CallTypes, ThrTypes, NEW t \in ThrType, NEW k \in {1, 2}, NEW stays \in BOOLEAN,
           SpkrData(t, k, stays)
    PROVE  /\ \/ thr'.sem = t.sem /\ posted' = posted
              \/ thr'.sem = None /\ posted' = posted \cup ({t.sem} \ {None})
           /\ \A d \in Callers \ {Main} : call'[d] = call[d]
           /\ call'[Main] = call[Main] \/ (call'[Main].pc = "api" /\ call'[Main].op = "stop"
                                             /\ ~call'[Main].sync /\ call'[Main].src = "none")
           /\ thr'.hal = t.hal /\ thr'.fifo = t.fifo /\ thr'.user = t.user /\ thr'.cb = t.cb
           /\ thr'.sync = t.sync
           /\ thr'.file \in {t.file, 0} /\ thr'.pipe \in {t.pipe, 0}
           /\ thr'.memory \in {t.memory, 0}
<1>1. CASE t.hal = 0
  BY <1>1 DEF SpkrData
<1>2. CASE t.hal # 0
  <2>1. PICK f \in ThrType, rc \in -1 .. 1, wrote \in BOOLEAN :
              /\ Notify(f, rc)
              /\ f.hal = t.hal /\ f.fifo = t.fifo /\ f.user = t.user
              /\ f.sem = t.sem /\ f.sync = t.sync /\ f.cb = t.cb
              /\ f.file \in {t.file, 0} /\ f.pipe \in {t.pipe, 0} /\ f.memory \in {t.memory, 0}
    BY <1>2, SpkrParts
  <2>2. thr' = [f EXCEPT !.sem = IF rc <= 0 /\ f.sync THEN None ELSE @]
    BY <2>1 DEF Notify
  <2>3. /\ thr'.hal = f.hal /\ thr'.fifo = f.fifo /\ thr'.user = f.user /\ thr'.cb = f.cb
        /\ thr'.file = f.file /\ thr'.pipe = f.pipe /\ thr'.memory = f.memory
        /\ thr'.sync = f.sync
        /\ thr'.sem = IF rc <= 0 /\ f.sync THEN None ELSE f.sem
    BY <2>2 DEF ThrType
  <2>4. posted' = IF rc <= 0 /\ f.sync THEN posted \cup ({f.sem} \ {None}) ELSE posted
    BY <2>1 DEF Notify
  <2>5. call' = call \/ call' = [call EXCEPT ![Main] = [NoCall EXCEPT !.pc = "api", !.op = "stop"]]
    BY <2>1 DEF Notify, CallBack
  <2>6. [NoCall EXCEPT !.pc = "api", !.op = "stop"].pc = "api"
        /\ [NoCall EXCEPT !.pc = "api", !.op = "stop"].op = "stop"
        /\ ~[NoCall EXCEPT !.pc = "api", !.op = "stop"].sync
        /\ [NoCall EXCEPT !.pc = "api", !.op = "stop"].src = "none"
    BY DEF NoCall
  <2>7. QED
    BY <2>1, <2>3, <2>4, <2>5, <2>6 DEF CallTypes, Callers
<1>3. QED
  BY <1>1, <1>2

\* What the clients return to, and the lock they give back.
LEMMA ReturnLocks ==
    ASSUME ObjTypes, NEW c \in Callers, Return(c)
    PROVE  api' \in Callers \cup {None} /\ play' \in Callers \cup {None}
BY DEF ObjTypes, Return

\* The object that was created, stopped or closed is typed.
LEMMA StoppedTyped ==
    ASSUME ObjTypes
    PROVE  NewObj \in ObjType /\ NoObj \in ObjType /\ Stopped \in ObjType
           /\ [Stopped EXCEPT !.state = "created"] \in ObjType
<1>1. NewObj \in ObjType
  BY BoundsAssumption DEF NewObj, ObjType, States, Nums
<1>2. QED
  BY <1>1 DEF ObjTypes, NoObj, Stopped, ObjType, States

\* The edits of the output object keep it typed.
LEMMA ObjEdits ==
    /\ \A p \in ObjType, named \in BOOLEAN : [p EXCEPT !.fifo = 0, !.named = named] \in ObjType
    /\ \A p \in ObjType : [p EXCEPT !.state = "idling", !.hal = 0] \in ObjType
    /\ \A p \in ObjType, n \in Nums, f \in Nums :
          [p EXCEPT !.state = "playing", !.hal = n, !.fifo = f] \in ObjType
<1>1. 0 \in Nums
  BY BoundsAssumption DEF Nums
<1>2. QED
  BY <1>1 DEF ObjType, States

\* What a stop closes are handles.
LEMMA ClosesTyped == ASSUME ObjTypes PROVE Closes \subseteq Handles
BY HeldTyped DEF ObjTypes, Closes, ObjType

\* The output object of a playback that starts.
Started(src, n) == [obj EXCEPT ![src] = n, !.state = "playing", !.hal = n,
                               !.fifo = IF obj.named THEN n ELSE obj.fifo]

\* The output object of a started playback: its state, its number and its one source.
LEMMA StartedTyped ==
    ASSUME ObjTypes, NEW src \in Kinds \cup {"none"}, NEW n \in Nums
    PROVE  /\ Started(src, n) \in ObjType
           /\ Started(src, n).state = "playing" /\ Started(src, n).hal = n
           /\ Started(src, n).live = obj.live
           /\ obj.named => Started(src, n).fifo = n
           /\ ~obj.named => Started(src, n).fifo = obj.fifo
           /\ src = "file" => Started(src, n).file = n
           /\ \A k \in Kinds : Started(src, n)[k] = IF k = src THEN n ELSE obj[k]
<1>1. [obj EXCEPT ![src] = n] \in ObjType
  <2>1. CASE src = "file"
    BY <2>1 DEF ObjTypes, ObjType
  <2>2. CASE src = "memory"
    BY <2>2 DEF ObjTypes, ObjType
  <2>3. CASE src = "pipe"
    BY <2>3 DEF ObjTypes, ObjType
  <2>4. CASE src = "user"
    BY <2>4 DEF ObjTypes, ObjType
  <2>5. CASE src = "none"
    BY <2>5 DEF ObjTypes, ObjType
  <2>6. QED
    BY <2>1, <2>2, <2>3, <2>4, <2>5 DEF Kinds, Finite
<1>2. (IF obj.named THEN n ELSE obj.fifo) \in Nums
  BY DEF ObjTypes, ObjType
<1>3. Started(src, n) \in ObjType
  BY <1>1, <1>2, ObjEdits DEF Started
<1>4. QED
  BY <1>3 DEF Started, ObjTypes, ObjType, Kinds, Finite

\* A playback takes the next number; the output object and the handles stay typed.
LEMMA PlayTyped ==
    ASSUME CallTypes, ObjTypes, NEW c \in Callers, Play(c)
    PROVE  /\ plays + 1 \in Nums /\ plays' = plays + 1 /\ plays' \in Nums
           /\ call[c].src \in Kinds \cup {"none"}
           /\ obj' = Started(call[c].src, plays + 1) /\ obj' \in ObjType
           /\ open' \subseteq Handles
<1> DEFINE n == plays + 1
<1>1. plays < MaxPlays
  BY DEF Play
<1>2. n \in Nums \ {0}
  BY <1>1, BoundsAssumption DEF ObjTypes, Nums
<1>3. call[c].src \in Kinds \cup {"none"}
  BY DEF CallTypes, CallType
<1>4. plays' = n /\ obj' = Started(call[c].src, n)
  BY DEF Play, Started
<1>5. {<<"hal", n>>, <<"fifo", n>>, <<"file", n>>, <<"pipe", n>>} \subseteq Handles
  BY <1>2 DEF Handles
<1>6. open' \subseteq open \cup {<<"hal", n>>, <<"fifo", n>>, <<"file", n>>, <<"pipe", n>>}
  BY DEF Play
<1> HIDE DEF n
<1>7. open' \subseteq Handles
  BY <1>5, <1>6 DEF ObjTypes
<1>8. QED
  BY <1>2, <1>3, <1>4, <1>7, StartedTyped DEF n

\* A playback that starts sends its object to the main thread.
LEMMA PlayPushes ==
    ASSUME CallTypes, ObjTypes, NEW c \in Callers, Play(c)
    PROVE  \E m \in Msg :
              /\ Push(m) /\ m.type = "start" /\ m.n = plays + 1
              /\ m.sem = IF call[c].sync THEN c ELSE None
              /\ m.hal = obj'.hal /\ m.file = obj'.file /\ m.memory = obj'.memory
              /\ m.pipe = obj'.pipe /\ m.user = obj'.user /\ m.fifo = obj'.fifo
<1> DEFINE n == plays + 1
           src == call[c].src
           o == Started(src, n)
<1>1. PICK len \in IF src \in Finite THEN 1 .. MaxFrames ELSE {0} :
         Push([type |-> "start", sem |-> IF call[c].sync THEN c ELSE None, n |-> n,
               hal |-> o.hal, file |-> o.file, memory |-> o.memory, pipe |-> o.pipe,
               user |-> o.user, fifo |-> o.fifo, left |-> len])
  BY DEF Play, Started
<1>2. n \in Nums /\ obj' = o /\ o \in ObjType
  BY PlayTyped
<1> HIDE DEF o, n, src
<1>3. len \in 0 .. MaxFrames
  BY BoundsAssumption
<1> DEFINE m == [type |-> "start", sem |-> IF call[c].sync THEN c ELSE None, n |-> n,
                 hal |-> o.hal, file |-> o.file, memory |-> o.memory, pipe |-> o.pipe,
                 user |-> o.user, fifo |-> o.fifo, left |-> len]
<1>4. m \in Msg
  BY <1>2, <1>3 DEF Msg, ObjType
<1>5. /\ m.type = "start" /\ m.n = n /\ m.sem = IF call[c].sync THEN c ELSE None
      /\ m.hal = o.hal /\ m.file = o.file /\ m.memory = o.memory /\ m.pipe = o.pipe
      /\ m.user = o.user /\ m.fifo = o.fifo
  OBVIOUS
<1>6. Push(m)
  BY <1>1
<1> HIDE DEF m
<1>7. QED
  BY <1>2, <1>4, <1>5, <1>6 DEF n

\* Entering an API call keeps the types.
LEMMA CallStepTyped ==
    ASSUME TypeInv, NEW c \in Callers, Call(c)
    PROVE  TypeInv'
<1> USE DEF TypeInv
<1>1. PICK op \in Ops, r \in Plays \cup {[src |-> "none", sync |-> FALSE]} :
         call' = [call EXCEPT ![c] = [NoCall EXCEPT !.pc = "api", !.op = op,
                                                    !.src = r.src, !.sync = r.sync]]
  BY DEF Call
<1>2. r.src \in Kinds \cup {"none"} /\ r.sync \in BOOLEAN /\ op \in AllOps
  <2>1. CASE r \in Plays
    BY <2>1, OpsAssumption DEF Requests
  <2>2. CASE r = [src |-> "none", sync |-> FALSE]
    BY <2>2, OpsAssumption
  <2>3. QED
    BY <2>1, <2>2
<1>3. CallTypes'
  BY <1>1, <1>2, NoCallTyped DEF CallTypes, CallType, PCs
<1>4. QED
  BY <1>3 DEF Call, ObjTypes, ThrTypes, QueueTypes, AlwaysAwaited, AllOps

\* The steps of a client leave the main thread's state alone, but for an opening.
LEMMA ClientStepTyped ==
    ASSUME TypeInv, NEW c \in Callers, ClientStep(c)
    PROVE  TypeInv'
<1> USE DEF TypeInv
<1>1. CASE Open(c)
  <2>1. [NoThr EXCEPT !.on = TRUE] \in ThrType
    BY NoThrTyped
  <2>2. ThrTypes'
    BY <1>1, <2>1, OutcomesAssumption DEF Open, ThrTypes
  <2>3. ObjTypes'
    BY <1>1, StoppedTyped, ReturnLocks, BoundsAssumption DEF Open, ObjTypes
  <2>4. QED
    BY <1>1, <2>2, <2>3, ReturnTyped DEF Open, QueueTypes, AlwaysAwaited
<1>2. CASE Refused(c) \/ EnterFreed(c) \/ PlayFails(c) \/ StopIdle(c)
  <2>1. ObjTypes'
    BY <1>2, ReturnLocks DEF Refused, EnterFreed, PlayFails, StopIdle, ObjTypes
  <2>2. QED
    BY <1>2, <2>1, ReturnTyped DEF Refused, EnterFreed, PlayFails, StopIdle, ThrTypes,
       QueueTypes, AlwaysAwaited
<1>3. CASE EnterSync(c) \/ Enter(c)
  BY <1>3, EntersTyped DEF EnterSync, Enter, CallTypes, ObjTypes, ThrTypes, QueueTypes,
     AlwaysAwaited
<1>4. CASE CheckState(c)
  BY <1>4, GotoTyped DEF CheckState, PCs, ObjTypes, ThrTypes, QueueTypes, AlwaysAwaited
<1>5. CASE ReadHandle(c)
  <2>1. CallTypes' /\ ObjTypes'
    BY <1>5, ReturnTyped, ReturnLocks DEF ReadHandle, CallTypes, ObjTypes, CallType, ObjType,
       PCs
  <2>2. QED
    BY <1>5, <2>1 DEF ReadHandle, ThrTypes, QueueTypes, AlwaysAwaited
<1>6. CASE SetVolume(c)
  <2>1. Held("hal", call[c].hal) \subseteq Handles
    BY HeldTyped DEF CallTypes, CallType
  <2>2. QED
    BY <1>6, <2>1, ReturnTyped, ReturnLocks DEF SetVolume, ObjTypes, ThrTypes, QueueTypes,
       AlwaysAwaited
<1>7. CASE Intensity(c)
  <2>1. Held("fifo", obj.fifo) \subseteq Handles
    BY HeldTyped DEF ObjTypes, ObjType
  <2>2. obj' \in ObjType
    BY <1>7, ObjEdits DEF Intensity, ObjTypes
  <2>3. QED
    BY <1>7, <2>1, <2>2, ReturnTyped, ReturnLocks DEF Intensity, ObjTypes, ThrTypes,
       QueueTypes, AlwaysAwaited
<1>8. CASE Play(c)
  <2>1. PICK m \in Msg : Push(m) /\ m.type = "start"
    BY <1>8, PlayPushes
  <2>2. plays' \in Nums /\ obj' \in ObjType /\ open' \subseteq Handles
    BY <1>8, PlayTyped
  <2>3. CallTypes' /\ play' \in Callers \cup {None} /\ api' \in Callers \cup {None}
    BY <1>8, ReturnTyped, ReturnLocks, GotoTyped DEF Play, PCs, Waits, ObjTypes
  <2>4. QED
    BY <1>8, <2>1, <2>2, <2>3, PushTyped DEF Play, ObjTypes, ThrTypes
<1>9. CASE PlayReturns(c) \/ Stop(c)
  <2>1. StopBegins(c) /\ UNCHANGED <<api, obj, plays, opens, open, stray, thr, timer, told>>
        /\ posted' \subseteq posted
    BY <1>9 DEF PlayReturns, Stop
  <2>2. CallTypes' /\ QueueTypes'
    BY <2>1, GotoTyped, SignalTyped, CallersAssumption DEF StopBegins, PCs, Waits
  <2>3. QED
    BY <2>1, <2>2 DEF StopBegins, ObjTypes, ThrTypes
<1>10. ASSUME Terminate(c) PROVE CallTypes' /\ QueueTypes' /\ obj' \in ObjType /\ play' = None
  BY <1>10, GotoTyped, SignalTyped, StoppedTyped, CallersAssumption
     DEF Terminate, PCs, Waits
<1>11. CASE StopDone(c)
  <2>1. CallTypes' /\ QueueTypes' /\ obj' \in ObjType /\ play' \in Callers \cup {None}
        /\ api' \in Callers \cup {None}
    BY <1>11, <1>10, ReturnTyped, ReturnLocks, StoppedTyped
       DEF StopDone, Terminate, QueueTypes, AlwaysAwaited, ObjTypes
  <2>2. QED
    BY <1>11, <2>1, ClosesTyped DEF StopDone, ObjTypes, ThrTypes
<1>12. CASE CloseIdle(c)
  BY <1>12, <1>10 DEF CloseIdle, Terminate, ObjTypes, ThrTypes
<1>13. CASE CloseDone(c)
  <2>1. QueueTypes'
    BY <1>13, BoundsAssumption DEF CloseDone, QueueTypes, AlwaysAwaited
  <2>2. QED
    BY <1>13, <2>1, ReturnTyped, ReturnLocks, StoppedTyped DEF CloseDone, ObjTypes, ThrTypes
<1>14. CASE SetState(c)
  <2>1. CallTypes' /\ api' \in Callers \cup {None} /\ play' \in Callers \cup {None}
    BY <1>14, GotoTyped, ReturnTyped, ReturnLocks DEF SetState, PCs, Waits, ObjTypes
  <2>2. PICK type \in {"pause", "resume"}, d \in {c, None} : Signal(type, d)
    BY <1>14 DEF SetState
  <2>3. QueueTypes'
    BY <2>2, SignalTyped
  <2>4. obj' \in ObjType
    BY <1>14 DEF SetState, ObjTypes, ObjType, States
  <2>5. QED
    BY <1>14, <2>1, <2>3, <2>4 DEF SetState, ObjTypes, ThrTypes
<1>15. CASE HfpStart(c)
  <2>1. plays + 1 \in Nums /\ plays + 1 # 0
    BY <1>15, BoundsAssumption DEF HfpStart, ObjTypes, Nums
  <2>2. obj' \in ObjType /\ <<"hal", plays + 1>> \in Handles
    BY <1>15, <2>1 DEF HfpStart, ObjTypes, ObjType, States, Handles
  <2>3. QED
    BY <1>15, <2>1, <2>2, ReturnTyped, ReturnLocks DEF HfpStart, ObjTypes, ThrTypes,
       QueueTypes, AlwaysAwaited
<1>16. CASE HfpStop(c)
  <2>1. Held("hal", obj.hal) \subseteq Handles
    BY HeldTyped DEF ObjTypes, ObjType
  <2>2. obj' \in ObjType
    BY <1>16, ObjEdits DEF HfpStop, ObjTypes
  <2>3. QED
    BY <1>16, <2>1, <2>2, ReturnTyped, ReturnLocks DEF HfpStop, ObjTypes, ThrTypes,
       QueueTypes, AlwaysAwaited
<1>17. QED
  BY <1>1, <1>2, <1>3, <1>4, <1>5, <1>6, <1>7, <1>8, <1>9, <1>11, <1>12, <1>13, <1>14,
     <1>15, <1>16 DEF ClientStep

\* What a start message tells the main thread.
Given(m) == [thr EXCEPT !.hal = m.hal, !.file = m.file, !.memory = m.memory,
                        !.pipe = m.pipe, !.user = m.user, !.fifo = m.fifo,
                        !.left = m.left, !.sync = (m.sem # None), !.sem = m.sem,
                        !.cb = IF m.sem = None THEN m.n ELSE 0]

\* What the main thread's record takes from a start.
LEMMA GivenTyped ==
    ASSUME thr \in ThrType, NEW m \in Msg, m.type = "start"
    PROVE  /\ Given(m) \in ThrType /\ Given(m).hal = m.hal /\ Given(m).file = m.file
           /\ Given(m).memory = m.memory /\ Given(m).pipe = m.pipe /\ Given(m).user = m.user
           /\ Given(m).fifo = m.fifo /\ Given(m).sem = m.sem
           /\ Given(m).sync <=> m.sem # None
           /\ Given(m).cb = (IF m.sem = None THEN m.n ELSE 0)
           /\ Given(m).left = m.left
<1> DEFINE b == m.sem # None
           cb == IF m.sem = None THEN m.n ELSE 0
<1>1. /\ m.hal \in Nums /\ m.file \in Nums /\ m.memory \in Nums /\ m.pipe \in Nums
      /\ m.user \in Nums /\ m.fifo \in Nums /\ m.left \in 0 .. MaxFrames
      /\ m.sem \in Callers \cup {None} /\ m.n \in Nums
  BY DEF Msg
<1>2. b \in BOOLEAN /\ cb \in Nums
  BY <1>1, BoundsAssumption DEF Nums
<1>3. Given(m) = [thr EXCEPT !.hal = m.hal, !.file = m.file, !.memory = m.memory,
                             !.pipe = m.pipe, !.user = m.user, !.fifo = m.fifo,
                             !.left = m.left, !.sync = b, !.sem = m.sem, !.cb = cb]
  BY DEF Given
<1>4. b <=> m.sem # None
  OBVIOUS
<1>5. cb = IF m.sem = None THEN m.n ELSE 0
  OBVIOUS
<1> HIDE DEF b, cb
<1>6. QED
  BY <1>1, <1>2, <1>3, <1>4, <1>5 DEF ThrType

\* The message at the head of the queue.
LEMMA HeadTyped ==
    ASSUME QueueTypes, q # <<>>
    PROVE  Head(q) \in Msg /\ Head(q) = q[1] /\ 1 \in DOMAIN q
           /\ Head(q).sem \in Callers \cup {None}
           /\ (Head(q).type \in {"stop", "terminate"} => Head(q).sem # None)
BY DEF QueueTypes, AlwaysAwaited, Msg

\* The record of a stopped playback is typed.
LEMMA DroppedTyped ==
    \A t \in ThrType : [t EXCEPT !.hal = 0, !.file = 0, !.memory = 0, !.user = 0, !.cb = 0,
                                 !.pipe = 0] \in ThrType
<1>1. 0 \in Nums
  BY BoundsAssumption DEF Nums
<1>2. QED
  BY <1>1 DEF ThrType

\* A step of the main thread keeps the types.
LEMMA ThreadStepTyped ==
    ASSUME TypeInv, ThreadStep
    PROVE  TypeInv'
<1> USE DEF TypeInv
<1>1. CASE PlayStart
  <2>1. SpkrData(Given(Head(q)), 2, TRUE) /\ Received("start") /\ Next0
    BY <1>1 DEF PlayStart, Given
  <2>2. Given(Head(q)) \in ThrType
    BY <2>1, HeadTyped, GivenTyped DEF Received, ThrTypes
  <2>3. CallTypes' /\ ThrTypes'
    BY <2>1, <2>2, SpkrTyped DEF ObjTypes
  <2>4. QED
    BY <1>1, <2>1, <2>3, PopTyped DEF PlayStart, Received, ObjTypes
<1>2. CASE PlayPause
  BY <1>2, PopTyped DEF PlayPause, Received, clientVars, CallTypes, ObjTypes, ThrTypes
<1>3. CASE PlayStop
  <2>1. thr' \in ThrType
    BY <1>3, DroppedTyped DEF PlayStop, ThrTypes
  <2>2. Held("pipe", thr.pipe) \subseteq Handles
    BY HeldTyped DEF ThrTypes, ThrType
  <2>3. QED
    BY <1>3, <2>1, <2>2, PopTyped, HeadTyped DEF PlayStop, Received, clientVars, CallTypes,
       ObjTypes, ThrTypes
<1>4. CASE Terminated
  BY <1>4, PopTyped, HeadTyped, NoThrTyped DEF Terminated, Received, clientVars, CallTypes,
     ObjTypes, ThrTypes
<1>5. CASE Frame
  <2>1. CallTypes' /\ ThrTypes'
    BY <1>5, SpkrTyped, OutcomesAssumption DEF Frame, ObjTypes, ThrTypes
  <2>2. QED
    BY <1>5, <2>1 DEF Frame, ObjTypes, QueueTypes, AlwaysAwaited
<1>6. QED
  BY <1>1, <1>2, <1>3, <1>4, <1>5 DEF ThreadStep

\* Every step keeps the types.
LEMMA TypeStep == ASSUME TypeInv, [Next]_vars PROVE TypeInv'
<1>1. CASE UNCHANGED vars
  BY <1>1 DEF vars, clientVars, TypeInv, CallTypes, ObjTypes, ThrTypes, QueueTypes,
     AlwaysAwaited
<1>2. QED
  BY <1>1, CallStepTyped, ClientStepTyped, ThreadStepTyped DEF Next

\* The types hold initially.
LEMMA TypeInit == ASSUME Init PROVE TypeInv
<1>1. told \in [1 .. MaxPlays -> [eof : 0 .. 2, error : 0 .. 2]]
  BY DEF Init
<1>2. 0 \in 0 .. MaxOpens /\ 0 \in Nums
  BY BoundsAssumption DEF Nums
<1>3. NoObj \in ObjType
  <2>1. NewObj \in ObjType
    BY <1>2 DEF NewObj, ObjType, States
  <2>2. \A p \in ObjType : [p EXCEPT !.live = FALSE, !.state = "created"] \in ObjType
    BY DEF ObjType, States
  <2>3. QED
    BY <2>1, <2>2 DEF NoObj
<1>4. CallTypes /\ ObjTypes
  BY <1>2, <1>3, NoCallTyped DEF Init, CallTypes, ObjTypes
<1>5. ThrTypes /\ QueueTypes
  <2>1. q = <<>> /\ thr = NoThr /\ timer = FALSE /\ posted = {} /\ stray = {}
    BY DEF Init
  <2>2. QueueTypes
    BY <2>1, BoundsAssumption DEF QueueTypes, AlwaysAwaited
  <2>3. QED
    BY <1>1, <2>1, <2>2, NoThrTyped DEF ThrTypes
<1>6. QED
  BY <1>4, <1>5 DEF TypeInv

\* The types of the playback (TypeOK), for any of its constants.
THEOREM PlaybackTypes == Spec => []TypeOK
<1>1. Spec => []TypeInv
  BY TypeInit, TypeStep, PTL DEF Spec
<1>2. TypeInv => TypeOK
  BY TypesSplit
<1>3. QED
  BY <1>1, <1>2, PTL

-----------------------------------------------------------------------------
(* Semaphores.                                                             *)

\* Where a caller waits whose semaphore is in a message of that type.
Awaits(type, pc) ==
    \/ type = "start" /\ pc = "waitPlay"
    \/ type \in {"pause", "resume"} /\ pc = "waitPause"
    \/ type = "stop" /\ pc = "waitStop"
    \/ type = "terminate" /\ pc = "waitTerm"

\* A semaphore is in one place: in one message, or with the playback, or posted; and
\* its owner waits there for what that place will bring.
SemInv ==
    /\ \A i \in DOMAIN q : q[i].sem # None =>
          /\ Awaits(q[i].type, call[q[i].sem].pc)
          /\ q[i].sem # thr.sem /\ q[i].sem \notin posted
    /\ \A i, j \in DOMAIN q : q[i].sem # None /\ q[i].sem = q[j].sem => i = j
    /\ thr.sem # None => call[thr.sem].pc = "waitPlay" /\ thr.sem \notin posted
    /\ \A c \in posted : call[c].pc \in Waits

\* The queue after a step of client c: it is as it was, or has been flushed, or has one
\* more message, with a semaphore only if c now waits for it.
QueueStep(c) ==
    \/ q' = q \/ q' = <<>>
    \/ \E m \in Msg : /\ q' = Append(q, m)
                      /\ m.sem # None => m.sem = c /\ Awaits(m.type, call'[c].pc)

\* A message that carries its sender's own semaphore, for which the sender now waits, is a
\* legal step of the queue.
LEMMA PushStep ==
    ASSUME NEW c \in Callers, NEW m \in Msg, Push(m),
           m.sem # None => m.sem = c /\ Awaits(m.type, call'[c].pc)
    PROVE  QueueStep(c)
BY DEF Push, QueueStep

\* The same for a message without data.
LEMMA SignalStep ==
    ASSUME NEW c \in Callers, NEW type \in {"pause", "resume", "stop", "terminate"},
           NEW d \in {c, None}, Signal(type, d),
           d = c => Awaits(type, call'[c].pc)
    PROVE  QueueStep(c)
<1> DEFINE m == [type |-> type, sem |-> d]
<1>1. m \in Msg /\ m.type = type /\ m.sem = d /\ Push(m)
  BY DEF Msg, Signal
<1> HIDE DEF m
<1>2. QED
  BY <1>1, PushStep

\* What a client's step does with its call, the semaphores and the queue.
ClientMoves(c) ==
    /\ \A d \in Callers \ {c} : call'[d] = call[d]
    /\ posted' \subseteq posted
    /\ call[c].pc \in Waits => c \in posted /\ c \notin posted'
    /\ thr'.sem \in {thr.sem, None}
    /\ QueueStep(c)

\* A client touches its own call only, posts nothing and gives the queue its own semaphore.
LEMMA ClientStepMoves ==
    ASSUME TypeInv, NEW c \in Callers, Call(c) \/ ClientStep(c)
    PROVE  ClientMoves(c)
<1> USE DEF TypeInv
<1>1. CASE Call(c) \/ Open(c) \/ Refused(c) \/ EnterSync(c) \/ Enter(c) \/ CheckState(c)
           \/ ReadHandle(c) \/ SetVolume(c) \/ Intensity(c) \/ EnterFreed(c) \/ PlayFails(c)
           \/ StopIdle(c) \/ HfpStart(c) \/ HfpStop(c)
  <2>1. [NoThr EXCEPT !.on = TRUE].sem = None
    BY DEF NoThr
  <2>2. call[c].pc \notin Waits
    BY <1>1 DEF Call, Open, Refused, EnterSync, Enter, CheckState, ReadHandle, SetVolume,
       Intensity, EnterFreed, PlayFails, StopIdle, HfpStart, HfpStop, TakesApi, TakesPlay,
       Doing, At, Waits
  <2>3. q' = q /\ posted' = posted /\ thr'.sem \in {thr.sem, None}
    BY <1>1, <2>1 DEF Call, Open, Refused, EnterSync, Enter, CheckState, ReadHandle, SetVolume,
       Intensity, EnterFreed, PlayFails, StopIdle, HfpStart, HfpStop
  <2>4. \A d \in Callers \ {c} : call'[d] = call[d]
    BY <1>1 DEF Call, Open, Refused, EnterSync, Enter, CheckState, ReadHandle, SetVolume,
       Intensity, EnterFreed, PlayFails, StopIdle, HfpStart, HfpStop, Return, Goto, CallTypes
  <2>5. QED
    BY <2>2, <2>3, <2>4 DEF ClientMoves, QueueStep
<1>2. CASE Play(c)
  <2>1. call[c].pc = "enter" /\ posted' = posted /\ thr' = thr
    BY <1>2 DEF Play, TakesPlay, Doing, At
  <2>2. /\ \A d \in Callers \ {c} : call'[d] = call[d]
        /\ call[c].sync => call'[c].pc = "waitPlay"
    <3>1. IF call[c].sync THEN Goto(c, "waitPlay") ELSE Return(c)
      BY <1>2 DEF Play
    <3>2. QED
      BY <3>1 DEF Return, Goto, CallTypes, CallType
  <2>3. PICK m \in Msg : /\ Push(m) /\ m.type = "start"
                         /\ m.sem = IF call[c].sync THEN c ELSE None
    BY <1>2, PlayPushes
  <2>4. QueueStep(c)
    BY <2>2, <2>3, PushStep DEF Awaits
  <2>5. QED
    BY <2>1, <2>2, <2>4 DEF ClientMoves, Waits
<1>3. CASE PlayReturns(c) \/ Stop(c)
  <2>1. Signal("stop", c) /\ Goto(c, "waitStop")
    BY <1>3 DEF PlayReturns, Stop, StopBegins
  <2>2. call'[c].pc = "waitStop" /\ \A d \in Callers \ {c} : call'[d] = call[d]
    BY <2>1 DEF Goto, CallTypes, CallType
  <2>3. QueueStep(c)
    BY <2>1, <2>2, SignalStep DEF Awaits
  <2>4. QED
    BY <1>3, <2>2, <2>3 DEF PlayReturns, Stop, TakesPlay, Doing, At, Waits, ClientMoves
<1>4. ASSUME Terminate(c)
      PROVE  QueueStep(c) /\ \A d \in Callers \ {c} : call'[d] = call[d]
  <2>1. Signal("terminate", c) /\ Goto(c, "waitTerm")
    BY <1>4 DEF Terminate
  <2>2. call'[c].pc = "waitTerm" /\ \A d \in Callers \ {c} : call'[d] = call[d]
    BY <2>1 DEF Goto, CallTypes, CallType
  <2>3. QED
    BY <2>1, <2>2, SignalStep DEF Awaits
<1>5. CASE StopDone(c) \/ CloseIdle(c)
  <2>1. CASE call[c].op = "close"
    BY <1>4, <1>5, <2>1 DEF StopDone, CloseIdle, TakesPlay, Doing, At, Waits, ClientMoves
  <2>2. CASE call[c].op # "close"
    BY <1>5, <2>2 DEF StopDone, CloseIdle, TakesPlay, Doing, Return, CallTypes, ClientMoves,
       QueueStep
  <2>3. QED
    BY <2>1, <2>2
<1>6. CASE CloseDone(c)
  BY <1>6 DEF CloseDone, Return, CallTypes, ClientMoves, QueueStep
<1>7. CASE SetState(c)
  <2>1. call[c].pc = "pausing" /\ posted' = posted /\ thr' = thr
    BY <1>7 DEF SetState, At
  <2>2. PICK type \in {"pause", "resume"}, d \in {c, None} :
          /\ Signal(type, d)
          /\ d = c => Goto(c, "waitPause")
    <3> DEFINE type == IF call[c].op \in {"pause", "pauseSync"} THEN "pause" ELSE "resume"
               d == IF call[c].op \in {"pauseSync", "resumeSync"} THEN c ELSE None
    <3>1. Signal(type, d)
      BY <1>7 DEF SetState
    <3>2. call[c].op \in {"pauseSync", "resumeSync"} => Goto(c, "waitPause")
      BY <1>7 DEF SetState
    <3>3. d = c => call[c].op \in {"pauseSync", "resumeSync"}
      BY CallersAssumption
    <3>4. type \in {"pause", "resume"} /\ d \in {c, None}
      OBVIOUS
    <3> HIDE DEF type, d
    <3>5. QED
      BY <3>1, <3>2, <3>3, <3>4
  <2>3. \A d1 \in Callers \ {c} : call'[d1] = call[d1]
    BY <1>7 DEF SetState, Goto, Return, CallTypes
  <2>4. d = c => call'[c].pc = "waitPause"
    BY <2>2 DEF Goto, CallTypes, CallType
  <2>5. QueueStep(c)
    BY <2>2, <2>4, SignalStep DEF Awaits
  <2>6. QED
    BY <2>1, <2>3, <2>5 DEF ClientMoves, Waits
<1>8. QED
  BY <1>1, <1>2, <1>3, <1>5, <1>6, <1>7 DEF ClientStep

\* A client that takes a step has no semaphore anywhere once the step is over.
LEMMA ClientStepSems ==
    ASSUME TypeInv, SemInv, NEW c \in Callers, ClientMoves(c)
    PROVE  SemInv'
<1> USE DEF TypeInv
<1>1. \A i \in DOMAIN q : q[i].sem # c
  BY CallersAssumption DEF SemInv, ClientMoves, Awaits, Waits
<1>2. thr.sem # c /\ c \notin posted'
  BY CallersAssumption DEF SemInv, ClientMoves, Waits
<1>3. thr.sem \in Callers \cup {None} /\ posted \subseteq Callers
  BY DEF ThrTypes, ThrType
<1>4. \A i \in DOMAIN q : q[i].sem \in Callers \cup {None}
  BY DEF QueueTypes, Msg
<1>5. \A d \in Callers \ {c} : call'[d] = call[d]
  BY DEF ClientMoves
<1>6. thr'.sem # None => call'[thr'.sem].pc = "waitPlay" /\ thr'.sem \notin posted'
  BY <1>2, <1>3, <1>5 DEF SemInv, ClientMoves
<1>7. \A d \in posted' : call'[d].pc \in Waits
  BY <1>2, <1>3, <1>5 DEF SemInv, ClientMoves
<1>8. \A i \in DOMAIN q : q[i].sem # None =>
         /\ Awaits(q[i].type, call'[q[i].sem].pc)
         /\ q[i].sem # thr'.sem /\ q[i].sem \notin posted'
  BY <1>1, <1>4, <1>5 DEF SemInv, ClientMoves
<1>9. CASE q' = q
  BY <1>6, <1>7, <1>8, <1>9 DEF SemInv
<1>10. CASE q' = <<>>
  BY <1>6, <1>7, <1>10 DEF SemInv
<1>11. ASSUME NEW m \in Msg, q' = Append(q, m),
              m.sem # None => m.sem = c /\ Awaits(m.type, call'[c].pc)
       PROVE  SemInv'
  <2>1. /\ \A i \in DOMAIN q' : (i \in DOMAIN q /\ q'[i] = q[i]) \/ (i = Len(q) + 1 /\ q'[i] = m)
    BY <1>11 DEF QueueTypes
  <2>2. \A i \in DOMAIN q' : q'[i].sem # None =>
           /\ Awaits(q'[i].type, call'[q'[i].sem].pc)
           /\ q'[i].sem # thr'.sem /\ q'[i].sem \notin posted'
    BY <1>2, <1>8, <1>11, <2>1 DEF ClientMoves
  <2>3. \A i, j \in DOMAIN q' : q'[i].sem # None /\ q'[i].sem = q'[j].sem => i = j
    BY <1>1, <1>11, <2>1 DEF SemInv
  <2>4. QED
    BY <1>6, <1>7, <2>2, <2>3 DEF SemInv
<1>12. QED
  BY <1>9, <1>10, <1>11 DEF ClientMoves, QueueStep

\* What a step of the main thread does with the semaphores and the queue.
ThreadMoves ==
    /\ call[Main].pc = "out"
    /\ \A d \in Callers \ {Main} : call'[d] = call[d]
    /\ call'[Main] = call[Main] \/ (call'[Main].pc = "api" /\ call'[Main].op = "stop"
                                    /\ ~call'[Main].sync /\ call'[Main].src = "none")
    /\ \/ /\ q' = q
          /\ \/ thr'.sem = thr.sem /\ posted' = posted
             \/ thr'.sem = None /\ posted' = posted \cup ({thr.sem} \ {None})
       \/ /\ q # <<>> /\ q' = Tail(q)
          /\ \/ Head(q).type = "start" /\ thr'.sem = Head(q).sem /\ posted' = posted
             \/ thr'.sem = None /\ posted' = posted \cup ({Head(q).sem} \ {None})
             \/ thr'.sem = thr.sem /\ posted' = posted
             \/ thr'.sem = thr.sem /\ posted' = posted \cup ({Head(q).sem} \ {None})

\* The main thread moves no client; a semaphore goes from the queue to its record or is
\* posted, and the one in its record stays there until it is posted.
LEMMA ThreadStepMoves ==
    ASSUME TypeInv, ThreadStep
    PROVE  ThreadMoves
<1> USE DEF TypeInv
<1>1. call[Main].pc = "out"
  BY DEF ThreadStep, PlayStart, PlayPause, PlayStop, Terminated, Frame, Received, Runs, At
<1>2. CASE PlayStart
  <2>1. SpkrData(Given(Head(q)), 2, TRUE) /\ Received("start") /\ Next0
    BY <1>2 DEF PlayStart, Given
  <2>2. Given(Head(q)) \in ThrType /\ Given(Head(q)).sem = Head(q).sem
    BY <2>1, HeadTyped, GivenTyped DEF Received, ThrTypes
  <2>3. QED
    BY <1>1, <2>1, <2>2, SpkrMoves DEF Received, Next0, ThreadMoves
<1>3. CASE PlayPause
  BY <1>1, <1>3 DEF PlayPause, Received, Next0, clientVars, ThreadMoves
<1>4. CASE PlayStop
  <2>1. thr'.sem = thr.sem
    BY <1>4 DEF PlayStop, ThrTypes, ThrType
  <2>2. QED
    BY <1>1, <1>4, <2>1 DEF PlayStop, Received, Next0, clientVars, ThreadMoves
<1>5. CASE Terminated
  <2>1. Head(q).sem # None /\ thr'.sem = None
    BY <1>5, HeadTyped DEF Terminated, Received, NoThr
  <2>2. QED
    BY <1>1, <1>5, <2>1 DEF Terminated, Received, Next0, clientVars, ThreadMoves
<1>6. CASE Frame
  BY <1>1, <1>6, SpkrMoves, OutcomesAssumption DEF Frame, ThrTypes, ThreadMoves
<1>7. QED
  BY <1>2, <1>3, <1>4, <1>5, <1>6 DEF ThreadStep

\* A step of the main thread keeps every semaphore in one place.
LEMMA ThreadStepSems ==
    ASSUME TypeInv, SemInv, ThreadMoves
    PROVE  SemInv'
<1> USE DEF TypeInv
<1>1. thr.sem \in Callers \cup {None} /\ posted \subseteq Callers
      /\ \A i \in DOMAIN q : q[i].sem \in Callers \cup {None}
  BY DEF ThrTypes, ThrType, QueueTypes, Msg
<1>2. \A d \in Callers : call[d].pc \in Waits => call'[d] = call[d]
  BY DEF ThreadMoves, Waits
<1>3. thr.sem # None => thr.sem \in Callers /\ call'[thr.sem] = call[thr.sem]
  BY <1>1, <1>2 DEF SemInv, Waits
<1>4. \A d \in posted : call'[d] = call[d]
  BY <1>1, <1>2 DEF SemInv
<1>5. \A i \in DOMAIN q : q[i].sem # None =>
         q[i].sem \in Callers /\ call'[q[i].sem] = call[q[i].sem]
               /\ call[q[i].sem].pc \in Waits
  BY <1>1, <1>2 DEF SemInv, Awaits, Waits
<1>6. CASE q' = q
  <2>1. \/ thr'.sem = thr.sem /\ posted' = posted
        \/ thr'.sem = None /\ posted' = posted \cup ({thr.sem} \ {None})
    <3>1. q # <<>> => Tail(q) # q
      BY DEF QueueTypes
    <3>2. QED
      BY <1>6, <3>1 DEF ThreadMoves
  <2>2. QED
    BY <1>3, <1>4, <1>5, <1>6, <2>1 DEF SemInv, Waits
<1>7. CASE q # <<>> /\ q' = Tail(q)
  <2>1. /\ \A i \in DOMAIN q' : i + 1 \in DOMAIN q /\ q'[i] = q[i + 1] /\ i + 1 # 1 /\ i \in Nat
        /\ 1 \in DOMAIN q /\ Head(q) = q[1]
    BY <1>7 DEF QueueTypes
  <2>2. \A i \in DOMAIN q' : q'[i].sem # None =>
           /\ Awaits(q'[i].type, call'[q'[i].sem].pc)
           /\ q'[i].sem # thr.sem /\ q'[i].sem \notin posted /\ q'[i].sem # Head(q).sem
    BY <1>5, <2>1 DEF SemInv
  <2>3. \A i, j \in DOMAIN q' : q'[i].sem # None /\ q'[i].sem = q'[j].sem => i = j
    BY <2>1 DEF SemInv
  <2>4. Head(q).sem # None =>
           /\ Head(q).sem \notin posted /\ Head(q).sem # thr.sem
           /\ call'[Head(q).sem].pc \in Waits
           /\ Head(q).type = "start" => call'[Head(q).sem].pc = "waitPlay"
    BY <1>5, <2>1 DEF SemInv, Awaits
  <2>5. q' # q
    BY <1>7 DEF QueueTypes
  <2>6. QED
    BY <1>3, <1>4, <2>2, <2>3, <2>4, <2>5 DEF SemInv, ThreadMoves
<1>8. QED
  BY <1>6, <1>7 DEF ThreadMoves

\* Every step keeps every semaphore in one place.
LEMMA SemStep == ASSUME TypeInv, SemInv, [Next]_vars PROVE SemInv'
<1>1. CASE UNCHANGED vars
  BY <1>1 DEF vars, clientVars, SemInv
<1>2. QED
  BY <1>1, ClientStepMoves, ClientStepSems, ThreadStepMoves, ThreadStepSems DEF Next

\* No semaphore is anywhere initially.
LEMMA SemInit == ASSUME Init PROVE SemInv
<1>1. q = <<>> /\ posted = {} /\ thr.sem = None
  BY DEF Init, NoThr
<1>2. QED
  BY <1>1 DEF SemInv

\* The types and the places of the semaphores hold always.
LEMMA SemAlways == Spec => [](TypeInv /\ SemInv)
<1>1. Init => TypeInv /\ SemInv
  BY TypeInit, SemInit
<1>2. TypeInv /\ SemInv /\ [Next]_vars => TypeInv' /\ SemInv'
  BY TypeStep, SemStep
<1>3. QED
  BY <1>1, <1>2, PTL DEF Spec

\* The main thread, its queue and the posts refer to callers that wait, and to each
\* once (SemaphoresLive): no semaphore is posted whose stack frame is gone.
THEOREM SemaphoresAreLive == Spec => []SemaphoresLive
<1>1. TypeInv /\ SemInv => SemaphoresLive
  <2> SUFFICES ASSUME TypeInv, SemInv, NEW c \in Callers
               PROVE  Cardinality({i \in 1 .. Len(q) : q[i].sem = c})
                         + (IF thr.sem = c THEN 1 ELSE 0) + (IF c \in posted THEN 1 ELSE 0)
                      <= (IF call[c].pc \in Waits THEN 1 ELSE 0)
    BY DEF SemaphoresLive
  <2> DEFINE H == {i \in 1 .. Len(q) : q[i].sem = c}
  <2>1. 1 .. Len(q) = DOMAIN q /\ c # None
    BY CallersAssumption DEF TypeInv, QueueTypes
  <2>2. H # {} => call[c].pc \in Waits /\ thr.sem # c /\ c \notin posted
    BY <2>1 DEF SemInv, Awaits, Waits
  <2>3. thr.sem = c => call[c].pc \in Waits /\ c \notin posted
    BY <2>1 DEF SemInv, Waits
  <2>4. c \in posted => call[c].pc \in Waits
    BY DEF SemInv
  <2>5. Cardinality(H) = IF H = {} THEN 0 ELSE 1
    <3>1. CASE H = {}
      BY <3>1, FS_EmptySet
    <3>2. CASE H # {}
      <4>1. PICK i \in H : TRUE
        BY <3>2
      <4>2. H = {i}
        BY <2>1, <4>1 DEF SemInv
      <4>3. QED
        BY <3>2, <4>2, FS_Singleton
    <3>3. QED
      BY <3>1, <3>2
  <2> HIDE DEF H
  <2>6. Cardinality(H) + (IF thr.sem = c THEN 1 ELSE 0) + (IF c \in posted THEN 1 ELSE 0)
           <= (IF call[c].pc \in Waits THEN 1 ELSE 0)
    BY <2>2, <2>3, <2>4, <2>5
  <2>7. QED
    BY <2>6 DEF H
<1>2. QED
  BY <1>1, SemAlways, PTL

-----------------------------------------------------------------------------
(* The mutexes.                                                            *)

\* mutex_play is held across the waits for a playback and for its stop; mutex_api from
\* the entry to the return of every call but a synchronous play. What a call behind
\* mutex_api has checked stays as it is.
PlayOwned(c) == play = c <=> call[c].pc \in {"waitPlay", "waitStop"}
ApiOwned(c)  == call[c].pc \notin {"out", "api"} /\ ~call[c].sync => api = c
CallShape(c) ==
    /\ call[c].sync => call[c].op = "play"
    /\ call[c].pc = "pausing" => call[c].op \in {"pause", "pauseSync", "resume", "resumeSync"}
    /\ call[c].pc = "waitTerm" => call[c].op = "close"
Checked(c) ==
    /\ call[c].pc = "enter" /\ ~call[c].sync => obj.live /\ call[c].gen = opens
    /\ call[c].pc = "pausing" => obj.live
LockOf(c) == PlayOwned(c) /\ ApiOwned(c) /\ CallShape(c) /\ Checked(c)
LockInv == \A c \in Callers : LockOf(c)

\* A step of client c gives or takes a mutex only for c, and the object is replaced only
\* by one who has mutex_api.
Moved(m, n, c) == m = n \/ (m = None /\ n = c) \/ (m = c /\ n = None)
ClientLocks(c) ==
    /\ Moved(play, play', c) /\ Moved(api, api', c)
    /\ (opens' = opens /\ (obj.live => obj'.live)) \/ api \in {None, c}
    /\ LockOf(c)'

\* A stopped output object is still there.
LEMMA StoppedLive == Stopped.live /\ [Stopped EXCEPT !.state = "created"].live
BY DEF Stopped, NewObj

\* A call that is over.
LEMMA ReturnLocked ==
    ASSUME TypeInv, LockInv, NEW c \in Callers, Return(c)
    PROVE  /\ Moved(play, play', c) /\ Moved(api, api', c) /\ LockOf(c)'
           /\ call'[c].pc = "out" /\ ~call'[c].sync
<1>1. call'[c].pc = "out" /\ ~call'[c].sync /\ play' # c
  BY CallersAssumption DEF Return, NoCall, TypeInv, CallTypes
<1>2. Moved(play, play', c) /\ Moved(api, api', c)
  BY DEF Return, Moved
<1>3. QED
  BY <1>1, <1>2 DEF LockOf, PlayOwned, ApiOwned, CallShape, Checked

\* Where a client takes, holds and gives back the two mutexes, and where it may destroy the
\* output object.
LEMMA ClientStepLocks ==
    ASSUME TypeInv, LockInv, NEW c \in Callers, Call(c) \/ ClientStep(c)
    PROVE  ClientLocks(c)
<1> USE DEF TypeInv
<1>0. LockOf(c)
  BY DEF LockInv
<1>1. CASE Call(c)
  <2>1. PICK op \in Ops, r \in Plays \cup {[src |-> "none", sync |-> FALSE]} :
           /\ call' = [call EXCEPT ![c] = [NoCall EXCEPT !.pc = "api", !.op = op,
                                                         !.src = r.src, !.sync = r.sync]]
           /\ op = "play" \/ ~r.sync
    <3>1. PICK op \in Ops :
             \E r \in IF op = "play" THEN Plays ELSE {[src |-> "none", sync |-> FALSE]} :
                call' = [call EXCEPT ![c] = [NoCall EXCEPT !.pc = "api", !.op = op,
                                                           !.src = r.src, !.sync = r.sync]]
      BY <1>1 DEF Call
    <3>2. PICK r \in IF op = "play" THEN Plays ELSE {[src |-> "none", sync |-> FALSE]} :
             call' = [call EXCEPT ![c] = [NoCall EXCEPT !.pc = "api", !.op = op,
                                                        !.src = r.src, !.sync = r.sync]]
      BY <3>1
    <3>3. r \in Plays \cup {[src |-> "none", sync |-> FALSE]} /\ (op = "play" \/ ~r.sync)
      OBVIOUS
    <3>4. QED
      BY <3>2, <3>3
  <2>2. call'[c] = [NoCall EXCEPT !.pc = "api", !.op = op, !.src = r.src, !.sync = r.sync]
    BY <2>1 DEF CallTypes
  <2>3. call'[c].pc = "api" /\ call'[c].op = op /\ call'[c].sync = r.sync
    BY <2>2 DEF NoCall
  <2>4. call'[c].sync => call'[c].op = "play"
    BY <2>1, <2>3
  <2>5. LockOf(c)'
    BY <1>0, <1>1, <2>3, <2>4 DEF Call, At, LockOf, PlayOwned, ApiOwned, CallShape, Checked
  <2>6. QED
    BY <1>1, <2>5 DEF Call, ClientLocks, Moved
<1>2. CASE Open(c)
  BY <1>2, ReturnLocked DEF Open, TakesApi, ClientLocks
<1>3. CASE Refused(c) \/ EnterFreed(c) \/ PlayFails(c) \/ StopIdle(c) \/ SetVolume(c)
  BY <1>3, ReturnLocked DEF Refused, EnterFreed, PlayFails, StopIdle, SetVolume, ClientLocks
<1>4. CASE EnterSync(c) \/ Enter(c)
  <2>1. call' = [call EXCEPT ![c] = Enters(c)] /\ call[c].pc = "api" /\ obj.live
        /\ UNCHANGED <<play, obj, opens>>
    BY <1>4 DEF EnterSync, Enter, TakesApi, At
  <2>2. /\ call'[c].pc = "enter" /\ call'[c].gen = opens /\ call'[c].op = call[c].op
        /\ call'[c].sync = call[c].sync
    BY <2>1 DEF CallTypes, CallType, Enters
  <2>3. call[c].sync \/ api' = c
    BY <1>4 DEF EnterSync, Enter
  <2>4. Moved(api, api', c)
    BY <1>4 DEF EnterSync, Enter, TakesApi, Moved
  <2>5. LockOf(c)'
    BY <1>0, <2>1, <2>2, <2>3 DEF LockOf, PlayOwned, ApiOwned, CallShape, Checked
  <2>6. QED
    BY <2>1, <2>4, <2>5 DEF ClientLocks, Moved
<1>5. CASE CheckState(c)
  <2>1. Goto(c, "pausing") /\ call[c].pc = "api" /\ obj.live /\ api' = c /\ api = None
        /\ UNCHANGED <<play, obj, opens>>
        /\ call[c].op \in {"pause", "pauseSync", "resume", "resumeSync"}
    BY <1>5 DEF CheckState, TakesApi, At
  <2>2. call'[c].pc = "pausing" /\ call'[c].op = call[c].op /\ call'[c].sync = call[c].sync
    BY <2>1 DEF CallTypes, CallType, Goto
  <2>3. LockOf(c)'
    BY <1>0, <2>1, <2>2 DEF LockOf, PlayOwned, ApiOwned, CallShape, Checked
  <2>4. QED
    BY <2>1, <2>3 DEF ClientLocks, Moved
<1>6. CASE ReadHandle(c)
  <2>1. UNCHANGED <<obj, opens>> /\ call[c].pc = "api" /\ call[c].op = "volume" /\ api = None
    BY <1>6 DEF ReadHandle, TakesApi, At
  <2>2. CASE Return(c)
    BY <2>1, <2>2, ReturnLocked DEF ClientLocks
  <2>3. CASE /\ api' = c /\ UNCHANGED play
             /\ call' = [call EXCEPT ![c].pc = "volume", ![c].hal = obj.hal]
    <3>1. /\ call'[c].pc = "volume" /\ call'[c].op = call[c].op
          /\ call'[c].sync = call[c].sync
      BY <2>3 DEF CallTypes, CallType
    <3>2. LockOf(c)'
      BY <1>0, <2>1, <2>3, <3>1 DEF LockOf, PlayOwned, ApiOwned, CallShape, Checked
    <3>3. QED
      BY <2>1, <2>3, <3>2 DEF ClientLocks, Moved
  <2>4. QED
    BY <1>6, <2>2, <2>3 DEF ReadHandle
<1>7. ASSUME UNCHANGED opens, obj.live => obj'.live, Return(c)
      PROVE  ClientLocks(c)
  BY <1>7, ReturnLocked DEF ClientLocks
<1>8. CASE Intensity(c) \/ HfpStart(c) \/ HfpStop(c)
  <2>1. obj'.live = obj.live
    <3>1. \/ obj' = obj
          \/ \E named \in BOOLEAN : obj' = [obj EXCEPT !.fifo = 0, !.named = named]
          \/ obj' = [obj EXCEPT !.state = "playing", !.hal = plays + 1]
          \/ obj' = [obj EXCEPT !.state = "idling", !.hal = 0]
      BY <1>8 DEF Intensity, HfpStart, HfpStop
    <3>2. QED
      BY <3>1 DEF ObjTypes, ObjType
  <2>2. QED
    BY <1>7, <1>8, <2>1 DEF Intensity, HfpStart, HfpStop
<1>9. CASE Play(c)
  <2>1. UNCHANGED opens /\ obj'.live = obj.live
    <3>1. UNCHANGED opens
      BY <1>9 DEF Play
    <3>2. QED
      BY <1>9, <3>1, PlayTyped, StartedTyped
  <2>2. IF call[c].sync THEN Goto(c, "waitPlay") /\ play' = c /\ UNCHANGED api ELSE Return(c)
    <3>1. IF call[c].sync THEN Goto(c, "waitPlay") /\ play' = c /\ UNCHANGED api
                          ELSE Return(c)
      BY <1>9 DEF Play
    <3>2. QED
      BY <3>1
  <2>3. CASE ~call[c].sync
    BY <1>7, <2>1, <2>2, <2>3
  <2>4. CASE call[c].sync
    <3>1. call'[c].pc = "waitPlay" /\ call'[c].op = call[c].op /\ call'[c].sync
      BY <2>2, <2>4 DEF CallTypes, CallType, Goto
    <3>2. LockOf(c)'
      BY <1>0, <2>2, <2>4, <3>1 DEF LockOf, PlayOwned, ApiOwned, CallShape, Checked
    <3>3. play = None
      BY <1>9 DEF Play, TakesPlay
    <3>4. QED
      BY <2>1, <2>2, <2>4, <3>2, <3>3 DEF ClientLocks, Moved
  <2>5. QED
    BY <2>3, <2>4
<1>10. CASE PlayReturns(c) \/ Stop(c)
  <2>1. Goto(c, "waitStop") /\ play' = c /\ UNCHANGED <<api, obj, opens>>
        /\ call[c].pc \in {"waitPlay", "enter"} /\ play \in {None, c}
    BY <1>0, <1>10 DEF PlayReturns, Stop, StopBegins, TakesPlay, Doing, At, LockOf, PlayOwned
  <2>2. call'[c].pc = "waitStop" /\ call'[c].op = call[c].op /\ call'[c].sync = call[c].sync
    BY <2>1 DEF CallTypes, CallType, Goto
  <2>3. LockOf(c)'
    BY <1>0, <2>1, <2>2 DEF LockOf, PlayOwned, ApiOwned, CallShape, Checked
  <2>4. QED
    BY <2>1, <2>3 DEF ClientLocks, Moved
<1>11. CASE StopDone(c) \/ CloseIdle(c)
  <2>1. UNCHANGED opens /\ obj'.live /\ call[c].pc \in {"enter", "waitStop"}
        /\ play \in {None, c}
    BY <1>0, <1>11, StoppedLive DEF StopDone, CloseIdle, Terminate, TakesPlay, Doing, At,
       LockOf, PlayOwned
  <2>2. CASE call[c].op # "close"
    BY <1>7, <1>11, <2>1, <2>2 DEF StopDone, CloseIdle, TakesPlay, Doing
  <2>3. CASE call[c].op = "close"
    <3>1. Goto(c, "waitTerm") /\ play' = None /\ UNCHANGED api
      BY <1>11, <2>3 DEF StopDone, CloseIdle, Terminate
    <3>2. call'[c].pc = "waitTerm" /\ call'[c].op = "close" /\ call'[c].sync = call[c].sync
      BY <2>3, <3>1 DEF CallTypes, CallType, Goto
    <3>3. LockOf(c)'
      <4>1. call[c].pc \notin {"out", "api"}
        BY <2>1
      <4>2. QED
        <5>1. ~call[c].sync /\ api = c
          BY <1>0, <2>3, <4>1 DEF LockOf, ApiOwned, CallShape
        <5>2. PlayOwned(c)'
          BY <3>1, <3>2, CallersAssumption DEF PlayOwned
        <5>3. ApiOwned(c)' /\ CallShape(c)' /\ Checked(c)'
          BY <3>1, <3>2, <5>1 DEF ApiOwned, CallShape, Checked
        <5>4. QED
          BY <5>2, <5>3 DEF LockOf
    <3>4. QED
      BY <2>1, <3>1, <3>3 DEF ClientLocks, Moved
  <2>4. QED
    BY <2>2, <2>3
<1>12. CASE CloseDone(c)
  <2>1. Return(c) /\ api = c
    BY <1>0, <1>12 DEF CloseDone, At, LockOf, ApiOwned, CallShape
  <2>2. QED
    BY <2>1, ReturnLocked DEF ClientLocks
<1>13. CASE SetState(c)
  <2>1. UNCHANGED opens /\ obj'.live = obj.live /\ call[c].pc = "pausing"
    BY <1>13 DEF SetState, ObjTypes, ObjType, At
  <2>2. \/ Return(c)
        \/ Goto(c, "waitPause") /\ UNCHANGED <<api, play>>
    BY <1>13 DEF SetState
  <2>3. CASE Goto(c, "waitPause") /\ UNCHANGED <<api, play>>
    <3>1. call'[c].pc = "waitPause" /\ call'[c].op = call[c].op /\ call'[c].sync = call[c].sync
      BY <2>3 DEF CallTypes, CallType, Goto
    <3>2. LockOf(c)'
      BY <1>0, <2>1, <2>3, <3>1 DEF LockOf, PlayOwned, ApiOwned, CallShape, Checked
    <3>3. QED
      BY <2>1, <2>3, <3>2 DEF ClientLocks, Moved
  <2>4. QED
    BY <1>7, <2>1, <2>2, <2>3
<1>14. QED
  BY <1>1, <1>2, <1>3, <1>4, <1>5, <1>6, <1>8, <1>9, <1>10, <1>11, <1>12, <1>13
     DEF ClientStep

\* Such a step keeps the invariant of the mutexes.
LEMMA ClientStepLocked ==
    ASSUME TypeInv, LockInv, NEW c \in Callers, ClientMoves(c), ClientLocks(c)
    PROVE  LockInv'
<1> SUFFICES ASSUME NEW d \in Callers PROVE LockOf(d)'
  BY DEF LockInv
<1>1. CASE d = c
  BY <1>1 DEF ClientLocks
<1>2. CASE d # c
  <2>1. call'[d] = call[d] /\ LockOf(d)
    BY <1>2 DEF ClientMoves, LockInv
  <2>2. (play' = d <=> play = d) /\ (api' = d <=> api = d)
    BY <1>2, CallersAssumption DEF ClientLocks, Moved
  <2>3. api = d => opens' = opens /\ (obj.live => obj'.live)
    BY <1>2, CallersAssumption DEF ClientLocks
  <2>5. QED
    BY <2>1, <2>2, <2>3 DEF LockOf, PlayOwned, ApiOwned, CallShape, Checked
<1>3. QED
  BY <1>1, <1>2

\* The main thread, outside of its own calls, leaves the mutexes alone.
LEMMA ThreadStepLocked ==
    ASSUME TypeInv, LockInv, ThreadStep
    PROVE  LockInv'
<1> SUFFICES ASSUME NEW d \in Callers PROVE LockOf(d)'
  BY DEF LockInv
<1>1. ThreadMoves /\ LockOf(d)
  BY ThreadStepMoves DEF LockInv
<1>2. UNCHANGED <<api, play, obj, opens>>
  BY DEF ThreadStep, PlayStart, PlayPause, PlayStop, Terminated, Frame, clientVars
<1>3. CASE call'[d] = call[d]
  BY <1>1, <1>2, <1>3 DEF LockOf, PlayOwned, ApiOwned, CallShape, Checked
<1>4. CASE d = Main /\ call[d].pc = "out" /\ call'[d].pc = "api" /\ ~call'[d].sync
  BY <1>1, <1>2, <1>4 DEF LockOf, PlayOwned, ApiOwned, CallShape, Checked
<1>5. QED
  BY <1>1, <1>3, <1>4 DEF ThreadMoves

\* Every step keeps the invariant of the mutexes.
LEMMA LockStep == ASSUME TypeInv, LockInv, [Next]_vars PROVE LockInv'
<1>1. CASE UNCHANGED vars
  BY <1>1 DEF vars, clientVars, LockInv, LockOf, PlayOwned, ApiOwned, CallShape, Checked
<1>2. QED
  BY <1>1, ClientStepMoves, ClientStepLocks, ClientStepLocked, ThreadStepLocked DEF Next

\* Nobody holds a mutex initially.
LEMMA LockInit == ASSUME Init PROVE LockInv
<1>1. \A c \in Callers : call[c].pc = "out" /\ ~call[c].sync /\ play = None
  BY DEF Init, NoCall
<1>2. QED
  BY <1>1, CallersAssumption DEF LockInv, LockOf, PlayOwned, ApiOwned, CallShape, Checked

\* The types and the invariant of the mutexes hold always.
LEMMA LockAlways == Spec => [](TypeInv /\ LockInv)
<1>1. Init => TypeInv /\ LockInv
  BY TypeInit, LockInit
<1>2. TypeInv /\ LockInv /\ [Next]_vars => TypeInv' /\ LockInv'
  BY TypeStep, LockStep
<1>3. QED
  BY <1>1, <1>2, PTL DEF Spec

\* An asynchronous call holds mutex_api from its check to its return: the output object
\* it is about to use has not been freed. (A synchronous play gives mutex_api back, and
\* its object can be freed before it takes mutex_play.)
AsyncObjectLive == \A c \in Callers : At(c, "enter") /\ ~call[c].sync => ~Dangling(c)

\* The object of an asynchronous call has not been freed when the call gets to it
\* (AsyncObjectLive), whatever the clients call.
THEOREM AsyncObjectsLive == Spec => []AsyncObjectLive
<1>1. TypeInv /\ LockInv => AsyncObjectLive
  BY DEF LockInv, LockOf, Checked, AsyncObjectLive, Dangling, At
<1>2. QED
  BY <1>1, LockAlways, PTL

\* Without synchronous plays no call is synchronous.
NoSync == \A c \in Callers : ~call[c].sync

\* In a call the operation and its kind stay what they are.
LEMMA ClientStepKeeps ==
    ASSUME CallTypes, NEW c \in Callers, ClientStep(c)
    PROVE  /\ call'[c].sync => call[c].sync
           /\ call'[c].op \in {call[c].op, "none"}
           /\ call'[c].src = "none" \/ (call'[c].src = call[c].src
                                        /\ call'[c].sync = call[c].sync)
<1> DEFINE Kept == /\ call'[c].sync => call[c].sync
                   /\ call'[c].op \in {call[c].op, "none"}
                   /\ call'[c].src = "none" \/ (call'[c].src = call[c].src
                                                /\ call'[c].sync = call[c].sync)
<1>1. CASE Return(c)
  BY <1>1 DEF Return, NoCall, CallTypes
<1>2. ASSUME NEW pc \in PCs, Goto(c, pc) PROVE Kept
  BY <1>2 DEF Goto, CallTypes, CallType
<1>3. CASE call' = [call EXCEPT ![c] = Enters(c)]
  BY <1>3 DEF Enters, CallTypes, CallType
<1>4. CASE call' = [call EXCEPT ![c].pc = "volume", ![c].hal = obj.hal]
  BY <1>4 DEF CallTypes, CallType
<1>5. \/ Return(c) \/ Goto(c, "pausing") \/ Goto(c, "waitPlay") \/ Goto(c, "waitStop")
      \/ Goto(c, "waitTerm") \/ Goto(c, "waitPause")
      \/ call' = [call EXCEPT ![c] = Enters(c)]
      \/ call' = [call EXCEPT ![c].pc = "volume", ![c].hal = obj.hal]
  BY DEF ClientStep, Open, Refused, EnterSync, Enter, CheckState, ReadHandle, SetVolume,
     Intensity, EnterFreed, PlayFails, Play, PlayReturns, Stop, StopBegins, StopIdle,
     StopDone, Terminate, CloseIdle, CloseDone, SetState, HfpStart, HfpStop
<1>6. QED
  BY <1>1, <1>2, <1>3, <1>4, <1>5 DEF PCs, Waits

\* What a call starts with.
LEMMA CallStarts ==
    ASSUME TypeInv, NEW c \in Callers, Call(c)
    PROVE  /\ call'[c].op \in Ops
           /\ \E r \in Plays \cup {[src |-> "none", sync |-> FALSE]} :
                 call'[c].src = r.src /\ call'[c].sync = r.sync
<1>1. PICK op \in Ops, r \in Plays \cup {[src |-> "none", sync |-> FALSE]} :
         call' = [call EXCEPT ![c] = [NoCall EXCEPT !.pc = "api", !.op = op,
                                                    !.src = r.src, !.sync = r.sync]]
  BY DEF Call
<1>2. call'[c].op = op /\ call'[c].src = r.src /\ call'[c].sync = r.sync
  BY <1>1 DEF NoCall, TypeInv, CallTypes
<1>3. QED
  BY <1>2

\* When no playback is synchronous, no call ever is.
LEMMA SyncStep ==
    ASSUME \A r \in Plays : ~r.sync, TypeInv, NoSync, [Next]_vars
    PROVE  NoSync'
<1> USE DEF TypeInv
<1>1. ASSUME NEW c \in Callers, Call(c) PROVE NoSync'
  <2>1. ~call'[c].sync
    BY <1>1, CallStarts
  <2>2. QED
    BY <1>1, <2>1, ClientStepMoves DEF NoSync, ClientMoves
<1>2. ASSUME NEW c \in Callers, ClientStep(c) PROVE NoSync'
  BY <1>2, ClientStepMoves, ClientStepKeeps DEF NoSync, ClientMoves
<1>3. CASE ThreadStep
  BY <1>3, ThreadStepMoves DEF NoSync, ThreadMoves
<1>4. CASE UNCHANGED vars
  BY <1>4 DEF vars, clientVars, NoSync
<1>5. QED
  BY <1>1, <1>2, <1>3, <1>4 DEF Next

\* Nobody is in a synchronous playback initially.
LEMMA SyncInit == ASSUME Init PROVE NoSync
BY DEF Init, NoCall, NoSync

\* Where all plays are asynchronous no thread is about to use an output object that a
\* close has freed (ObjectLive).
THEOREM ObjectsLive ==
    ASSUME \A r \in Plays : ~r.sync
    PROVE  Spec => []ObjectLive
<1>1. Init => TypeInv /\ LockInv /\ NoSync
  BY TypeInit, LockInit, SyncInit
<1>2. TypeInv /\ LockInv /\ NoSync /\ [Next]_vars => TypeInv' /\ LockInv' /\ NoSync'
  BY TypeStep, LockStep, SyncStep
<1>3. LockInv /\ NoSync => ObjectLive
  BY DEF LockInv, LockOf, Checked, NoSync, ObjectLive, Dangling, At
<1>4. QED
  BY <1>1, <1>2, <1>3, PTL DEF Spec

-----------------------------------------------------------------------------
(* What is left when nothing plays.                                        *)

\* An object in which nothing plays has nothing, and nobody else has anything of it.
Busy == obj.state \in {"playing", "paused"}
NoStarts == \A i \in DOMAIN q : q[i].type # "start"
NoStops == \A i \in DOMAIN q : q[i].type # "stop"
Quiet == /\ thr.hal = 0 /\ thr.cb = 0 /\ NoStarts
         /\ \A h \in open : h[1] = "pipe"
         /\ obj.hal = 0 /\ obj.fifo = 0
         /\ obj.file = 0 /\ obj.memory = 0 /\ obj.pipe = 0 /\ obj.user = 0
\* The HAL output, the file and the fifo that are open are the object's.
Own == \A h \in open : /\ h[1] = "hal" => h[2] = obj.hal
                       /\ h[1] = "file" => h[2] = obj.file
                       /\ h[1] = "fifo" => h[2] = obj.fifo
\* A stop that is over has reached the thread after every start, and none has been
\* queued since, for it holds mutex_play.
StopLast == \A i, j \in DOMAIN q : q[i].type = "stop" /\ i < j => q[j].type # "start"
StopOver(c) == call[c].pc = "waitStop" /\ c \in posted => thr.hal = 0 /\ thr.cb = 0 /\ NoStarts
States0 == /\ play # None => Busy
           /\ ~obj.live => obj.state = "created"
           /\ \A c \in Callers : call[c].pc = "waitTerm" => obj.state = "created"
IdleInv == /\ ~Busy => Quiet
           /\ Own /\ StopLast /\ States0
           /\ \A c \in Callers : StopOver(c)

\* Messages that are not starts change nothing about the starts.
LEMMA SignalStarts ==
    ASSUME QueueTypes, NEW type \in {"pause", "resume", "stop", "terminate"},
           NEW c \in Callers \cup {None}, Signal(type, c)
    PROVE  (NoStarts => NoStarts') /\ (StopLast => StopLast')
<1> DEFINE m == [type |-> type, sem |-> c]
<1>1. m.type # "start" /\ Push(m)
  BY DEF Signal
<1> HIDE DEF m
<1>2. \A i \in DOMAIN q' : (i \in DOMAIN q /\ q'[i] = q[i]) \/ (q'[i] = m /\ i = Len(q) + 1)
  BY <1>1 DEF QueueTypes, Push
<1>3. DOMAIN q = 1 .. Len(q) /\ Len(q) \in Nat
  BY DEF QueueTypes
<1>4. QED
  BY <1>1, <1>2, <1>3 DEF NoStarts, StopLast

\* A start queued when no stop is queued is not behind a stop.
LEMMA StartPushed ==
    ASSUME QueueTypes, NEW m \in Msg, m.type = "start", Push(m), NoStops
    PROVE  StopLast' /\ NoStops'
<1>1. \A i \in DOMAIN q' : (i \in DOMAIN q /\ q'[i] = q[i]) \/ (q'[i] = m /\ i = Len(q) + 1)
  BY DEF QueueTypes, Push
<1>2. NoStops'
  BY <1>1 DEF NoStops
<1>3. QED
  BY <1>2 DEF NoStops, StopLast

\* While nobody holds mutex_play no stop is queued.
LEMMA NoStopQueued ==
    ASSUME TypeInv, SemInv, LockInv, play = None
    PROVE  NoStops
BY DEF TypeInv, QueueTypes, AlwaysAwaited, SemInv, Awaits, LockInv, LockOf, PlayOwned, NoStops,
   Msg

\* What is open and not a pipe is closed by the end of a stop.
LEMMA OwnClosed ==
    ASSUME ObjTypes, Own, NEW h \in open, h[1] # "pipe"
    PROVE  h \in Closes
<1>1. h = <<h[1], h[2]>> /\ h[2] # 0 /\ h[1] \in {"hal", "file", "fifo"}
  BY DEF ObjTypes, Handles
<1>2. QED
  BY <1>1 DEF Own, Closes, Held

\* What a client's step must keep so that the others' stops that are over stay so.
KeepsStops(c) ==
    \/ play \in {None, c}
    \/ thr' = thr /\ (NoStarts => NoStarts')

\* What a step that neither queues a start nor shortens the stops leaves over stays over.
LEMMA StopsStayOver ==
    ASSUME TypeInv, SemInv, LockInv, IdleInv, NEW c \in Callers, ClientMoves(c), KeepsStops(c),
           NEW d \in Callers
    PROVE  StopOver(d)'
<1> SUFFICES ASSUME call'[d].pc = "waitStop", d \in posted'
             PROVE  thr'.hal = 0 /\ thr'.cb = 0 /\ NoStarts'
  BY DEF StopOver
<1>1. d # c
  BY DEF SemInv, ClientMoves
<1>2. call[d].pc = "waitStop" /\ d \in posted
  BY <1>1 DEF ClientMoves
<1>3. play = d /\ thr.hal = 0 /\ thr.cb = 0 /\ NoStarts
  BY <1>2 DEF IdleInv, StopOver, LockInv, LockOf, PlayOwned
<1>4. QED
  BY <1>1, <1>3, CallersAssumption DEF KeepsStops

\* A caller that waits for the end of the main thread has mutex_api.
LEMMA TermOwnsApi ==
    ASSUME LockInv, NEW d \in Callers, call[d].pc = "waitTerm"
    PROVE  api = d
BY DEF LockInv, LockOf, ApiOwned, CallShape

\* The steps that leave the object, its handles, the main thread and its queue alone.
LEMMA PlainIdle ==
    ASSUME TypeInv, SemInv, LockInv, IdleInv, NEW c \in Callers, ClientMoves(c),
           UNCHANGED <<obj, open, thr, q>>, play' \in {play, None},
           call'[c].pc # "waitTerm"
    PROVE  IdleInv'
<1>1. NoStarts <=> NoStarts'
  BY DEF NoStarts
<1>2. \A d \in Callers : StopOver(d)'
  BY <1>1, StopsStayOver DEF KeepsStops
<1>3. \A d \in Callers : call'[d].pc = "waitTerm" => obj'.state = "created"
  BY DEF ClientMoves, IdleInv, States0
<1>4. States0' /\ (~Busy => Quiet)' /\ Own' /\ StopLast'
  BY <1>1, <1>3 DEF IdleInv, States0, Busy, Quiet, Own, StopLast
<1>5. QED
  BY <1>2, <1>4 DEF IdleInv

\* Once everything is dropped: an object that is new, stopped or gone.
LEMMA DroppedQuiet ==
    ASSUME thr'.hal = 0, thr'.cb = 0, NoStarts', \A h \in open' : h[1] = "pipe",
           obj' \in {NewObj, Stopped, [Stopped EXCEPT !.state = "created"], NoObj}
    PROVE  Quiet' /\ ~Busy' /\ Own' /\ (~obj'.live => obj'.state = "created")
<1> DEFINE Bare(p) == /\ p.hal = 0 /\ p.fifo = 0 /\ p.file = 0 /\ p.memory = 0 /\ p.pipe = 0
                      /\ p.user = 0 /\ p.state \in {"created", "idling"}
                      /\ ~p.live => p.state = "created"
<1>1. Bare(NewObj) /\ Bare(Stopped)
  BY DEF NewObj, Stopped
<1>2. Bare([Stopped EXCEPT !.state = "created"])
  BY DEF NewObj, Stopped
<1>3. Bare(NoObj)
  BY DEF NewObj, NoObj
<1>4. Bare(obj')
  BY <1>1, <1>2, <1>3
<1>5. QED
  BY <1>4 DEF Quiet, Busy, Own

\* A client's step keeps the order of stops and starts, and what a stop has left over.
LEMMA ClientStepIdle ==
    ASSUME TypeInv, SemInv, LockInv, IdleInv, NEW c \in Callers, Call(c) \/ ClientStep(c),
           call[c].op # "hfpStop"
    PROVE  IdleInv'
<1> USE DEF TypeInv
<1>0. ClientMoves(c) /\ LockOf(c)
  BY ClientStepMoves DEF LockInv
<1>1. ASSUME Return(c) PROVE call'[c].pc = "out" /\ play' \in {play, None} /\ play' # c
  BY <1>1, CallersAssumption DEF Return, NoCall, CallTypes
<1>2. CASE Call(c)
  <2>1. call'[c].pc = "api"
    <3>1. PICK op \in Ops, r \in Plays \cup {[src |-> "none", sync |-> FALSE]} :
             call' = [call EXCEPT ![c] = [NoCall EXCEPT !.pc = "api", !.op = op,
                                                        !.src = r.src, !.sync = r.sync]]
      BY <1>2 DEF Call
    <3>2. QED
      BY <3>1 DEF NoCall, CallTypes
  <2>2. QED
    BY <1>0, <1>2, <2>1, PlainIdle DEF Call
<1>3. CASE Refused(c) \/ EnterFreed(c) \/ PlayFails(c) \/ StopIdle(c) \/ SetVolume(c)
  BY <1>0, <1>1, <1>3, PlainIdle DEF Refused, EnterFreed, PlayFails, StopIdle, SetVolume
<1>4. CASE EnterSync(c) \/ Enter(c) \/ CheckState(c) \/ ReadHandle(c)
  <2>1. \/ call' = [call EXCEPT ![c] = Enters(c)] /\ play' = play
        \/ Goto(c, "pausing") /\ play' = play
        \/ call' = [call EXCEPT ![c].pc = "volume", ![c].hal = obj.hal] /\ play' = play
        \/ Return(c)
    BY <1>4 DEF EnterSync, Enter, CheckState, ReadHandle
  <2>2. call'[c].pc # "waitTerm" /\ play' \in {play, None}
    BY <1>1, <2>1 DEF Enters, Goto, CallTypes, CallType
  <2>3. QED
    BY <1>0, <1>4, <2>2, PlainIdle DEF EnterSync, Enter, CheckState, ReadHandle
<1>5. CASE Open(c)
  <2>1. CASE obj.live \/ opens = MaxOpens
    BY <1>0, <1>1, <1>5, <2>1, PlainIdle DEF Open
  <2>2. CASE ~(obj.live \/ opens = MaxOpens)
    <3>1. /\ obj' = NewObj /\ thr'.hal = 0 /\ thr'.cb = 0 /\ UNCHANGED <<open, q>>
          /\ api = None /\ Return(c)
      BY <1>5, <2>2 DEF Open, NoThr, TakesApi
    <3>2. ~Busy /\ Quiet /\ play = None /\ NoStarts'
      BY <2>2, <3>1 DEF IdleInv, States0, Busy, Quiet, NoStarts
    <3>3. Quiet' /\ ~Busy' /\ Own' /\ (~obj'.live => obj'.state = "created")
      BY <3>1, <3>2, DroppedQuiet DEF Quiet
    <3>4. StopLast'
      BY <3>1 DEF IdleInv, StopLast
    <3>5. \A d \in Callers : StopOver(d)'
      BY <1>0, <3>2, StopsStayOver DEF KeepsStops
    <3>6. \A d \in Callers : call'[d].pc # "waitTerm"
      BY <1>0, <1>1, <3>1, TermOwnsApi, CallersAssumption DEF ClientMoves
    <3>7. play' = None
      BY <1>1, <3>1, <3>2
    <3>8. QED
      BY <3>3, <3>4, <3>5, <3>6, <3>7 DEF IdleInv, States0
  <2>3. QED
    BY <2>1, <2>2
<1>6. CASE Intensity(c)
  <2>1. PICK named \in BOOLEAN : obj' = [obj EXCEPT !.fifo = 0, !.named = named]
    BY <1>6 DEF Intensity
  <2>2. /\ obj'.state = obj.state /\ obj'.live = obj.live /\ obj'.hal = obj.hal
        /\ obj'.file = obj.file /\ obj'.memory = obj.memory /\ obj'.pipe = obj.pipe
        /\ obj'.user = obj.user /\ obj'.fifo = 0
    BY <2>1 DEF ObjTypes, ObjType
  <2>3. UNCHANGED <<thr, q>> /\ open' = open \ Held("fifo", obj.fifo) /\ Return(c)
        /\ api = None
    BY <1>6 DEF Intensity, TakesApi
  <2>4. \A h \in open' : h \in open /\ h[1] # "fifo"
    <3>1. \A h \in open : h = <<h[1], h[2]>> /\ h[2] # 0
      BY DEF ObjTypes, Handles
    <3>2. QED
      BY <2>3, <3>1 DEF IdleInv, Own, Held
  <2>5. NoStarts <=> NoStarts'
    BY <2>3 DEF NoStarts
  <2>6. \A d \in Callers : StopOver(d)'
    BY <1>0, <2>3, <2>5, StopsStayOver DEF KeepsStops
  <2>7. States0'
    <3>1. call'[c].pc = "out" /\ play' \in {play, None}
      BY <1>1, <2>3
    <3>2. \A d \in Callers : call'[d].pc = "waitTerm" => obj'.state = "created"
      BY <1>0, <2>2, <3>1 DEF IdleInv, States0, ClientMoves
    <3>3. QED
      BY <2>2, <3>1, <3>2 DEF IdleInv, States0, Busy
  <2>8. (~Busy => Quiet)' /\ Own' /\ StopLast'
    BY <2>2, <2>3, <2>4, <2>5 DEF IdleInv, Busy, Quiet, Own, StopLast
  <2>9. QED
    BY <2>6, <2>7, <2>8 DEF IdleInv
<1>7. CASE Play(c)
  <2>1. /\ play = None /\ obj.state = "idling" /\ obj.live /\ UNCHANGED thr
        /\ call[c].pc = "enter"
    BY <1>7 DEF Play, TakesPlay, Doing, At, Dangling
  <2>2. /\ obj'.state = "playing" /\ obj'.live /\ obj'.hal = plays + 1
        /\ call[c].src = "file" => obj'.file = plays + 1
        /\ obj.named => obj'.fifo = plays + 1
    <3>1. plays + 1 \in Nums /\ call[c].src \in Kinds \cup {"none"}
          /\ obj' = Started(call[c].src, plays + 1)
      BY <1>7, PlayTyped
    <3>2. obj'.live
      BY <2>1, <3>1, StartedTyped
    <3>3. obj.named => obj'.fifo = plays + 1
      BY <3>1, StartedTyped
    <3>4. QED
      BY <3>1, <3>2, <3>3, StartedTyped
  <2>3. \A h \in open : h[1] = "pipe"
    BY <2>1 DEF IdleInv, Busy, Quiet
  <2>4. open' = open \cup {<<"hal", plays + 1>>}
                     \cup (IF obj.named THEN {<<"fifo", plays + 1>>} ELSE {})
                     \cup (IF call[c].src \in {"file", "pipe"} THEN {<<call[c].src, plays + 1>>}
                                                              ELSE {})
    BY <1>7 DEF Play
  <2>5. Own'
    BY <2>2, <2>3, <2>4 DEF Own
  <2>6. StopLast'
    BY <1>7, <2>1, PlayPushes, NoStopQueued, StartPushed
  <2>7. \A d \in Callers : StopOver(d)'
    BY <1>0, <2>1, StopsStayOver DEF KeepsStops
  <2>8. \A d \in Callers : call'[d].pc # "waitTerm"
    <3>1. IF call[c].sync THEN Goto(c, "waitPlay") ELSE Return(c)
      BY <1>7 DEF Play
    <3>2. call'[c].pc # "waitTerm"
      BY <1>1, <3>1 DEF Goto, CallTypes, CallType
    <3>3. QED
      BY <1>0, <2>1, <3>2 DEF ClientMoves, IdleInv, States0
  <2>9. QED
    BY <2>2, <2>5, <2>6, <2>7, <2>8 DEF IdleInv, States0, Busy
<1>8. CASE HfpStart(c)
  <2>1. /\ play = None /\ obj.state = "idling" /\ obj.live /\ UNCHANGED <<thr, q>>
        /\ Return(c) /\ open' = open \cup {<<"hal", plays + 1>>}
        /\ obj' = [obj EXCEPT !.state = "playing", !.hal = plays + 1]
    BY <1>8 DEF HfpStart, TakesPlay, Dangling
  <2>2. obj'.state = "playing" /\ obj'.live /\ obj'.hal = plays + 1
    BY <2>1 DEF ObjTypes, ObjType
  <2>3. Own'
    BY <2>1, <2>2 DEF IdleInv, Busy, Quiet, Own
  <2>4. StopLast'
    BY <2>1 DEF IdleInv, StopLast
  <2>5. \A d \in Callers : StopOver(d)'
    BY <1>0, <2>1, StopsStayOver DEF KeepsStops
  <2>6. \A d \in Callers : call'[d].pc # "waitTerm"
    BY <1>0, <1>1, <2>1 DEF ClientMoves, IdleInv, States0
  <2>7. QED
    BY <2>2, <2>3, <2>4, <2>5, <2>6 DEF IdleInv, States0, Busy
<1>9. CASE PlayReturns(c) \/ Stop(c)
  <2>1. /\ Signal("stop", c) /\ Goto(c, "waitStop") /\ play' = c
        /\ UNCHANGED <<obj, open, thr>> /\ play \in {None, c} /\ Busy
    BY <1>0, <1>9, CallersAssumption DEF PlayReturns, Stop, StopBegins, TakesPlay, Doing, At,
       LockOf, PlayOwned, Busy, IdleInv, States0
  <2>2. StopLast'
    BY <2>1, SignalStarts DEF IdleInv
  <2>3. \A d \in Callers : StopOver(d)'
    BY <1>0, <2>1, StopsStayOver DEF KeepsStops
  <2>4. \A d \in Callers : call'[d].pc # "waitTerm"
    BY <1>0, <2>1 DEF ClientMoves, IdleInv, States0, Busy, Goto, CallTypes, CallType
  <2>5. QED
    BY <2>1, <2>2, <2>3, <2>4 DEF IdleInv, States0, Busy, Own
<1>10. CASE StopDone(c) \/ CloseIdle(c)
  <2>1. /\ thr.hal = 0 /\ thr.cb = 0 /\ NoStarts /\ UNCHANGED thr
        /\ play \in {None, c}
        /\ \A h \in open' : h[1] = "pipe"
    <3>1. CASE StopDone(c)
      BY <1>0, <3>1, OwnClosed DEF StopDone, At, LockOf, PlayOwned, IdleInv, StopOver
    <3>2. CASE CloseIdle(c)
      BY <3>2 DEF CloseIdle, TakesPlay, IdleInv, Busy, Quiet
    <3>3. QED
      BY <1>10, <3>1, <3>2
  <2>2. \/ obj' = [Stopped EXCEPT !.state = "created"] /\ Signal("terminate", c)
           /\ play' = None
        \/ obj' = Stopped /\ q' = q /\ play' = None /\ Return(c) /\ Busy
    BY <1>0, <1>10, CallersAssumption DEF StopDone, CloseIdle, Terminate, Return, TakesPlay,
       Doing, At, LockOf, PlayOwned, IdleInv, States0
  <2>3. NoStarts' /\ StopLast'
    <3>1. CASE Signal("terminate", c)
      BY <2>1, <3>1, SignalStarts DEF IdleInv
    <3>2. CASE q' = q
      BY <2>1, <3>2 DEF NoStarts, StopLast
    <3>3. QED
      BY <2>2, <3>1, <3>2
  <2>4. Quiet' /\ ~Busy' /\ Own' /\ (~obj'.live => obj'.state = "created")
    BY <2>1, <2>2, <2>3, DroppedQuiet
  <2>5. \A d \in Callers : StopOver(d)'
    BY <1>0, <2>1, StopsStayOver DEF KeepsStops
  <2>6. \A d \in Callers : call'[d].pc = "waitTerm" => obj'.state = "created"
    <3>1. CASE obj' = [Stopped EXCEPT !.state = "created"]
      BY <3>1 DEF Stopped, NewObj
    <3>2. CASE Return(c) /\ Busy
      BY <1>0, <1>1, <3>2 DEF ClientMoves, IdleInv, States0, Busy
    <3>3. QED
      BY <2>2, <3>1, <3>2
  <2>7. QED
    BY <2>2, <2>3, <2>4, <2>5, <2>6 DEF IdleInv, States0
<1>11. CASE CloseDone(c)
  <2>1. /\ obj' = NoObj /\ q' = <<>> /\ Return(c) /\ UNCHANGED <<open, thr>> /\ play = None
        /\ obj.state = "created"
    BY <1>11 DEF CloseDone, At, IdleInv, States0
  <2>2. NoStarts' /\ StopLast' /\ play' = None /\ obj'.state = "created"
    BY <1>1, <2>1 DEF NoStarts, StopLast, NoObj
  <2>3. Quiet' /\ ~Busy' /\ Own' /\ (~obj'.live => obj'.state = "created")
    BY <2>1, <2>2, DroppedQuiet DEF IdleInv, Busy, Quiet
  <2>4. \A d \in Callers : StopOver(d)'
    BY <1>0, <2>1, StopsStayOver DEF KeepsStops
  <2>5. QED
    BY <2>2, <2>3, <2>4 DEF IdleInv, States0
<1>12. CASE SetState(c)
  <2>1. /\ Busy' /\ obj'.live = obj.live /\ obj'.hal = obj.hal /\ obj'.file = obj.file
        /\ obj'.fifo = obj.fifo /\ UNCHANGED <<open, thr>>
    BY <1>12 DEF SetState, Busy, ObjTypes, ObjType
  <2>2. PICK type \in {"pause", "resume"}, sem \in {c, None} : Signal(type, sem)
    BY <1>12 DEF SetState
  <2>3. StopLast' /\ (NoStarts => NoStarts')
    BY <2>2, SignalStarts DEF IdleInv
  <2>4. \A d \in Callers : StopOver(d)'
    BY <1>0, <2>1, <2>3, StopsStayOver DEF KeepsStops
  <2>5. obj.live /\ api = c
    BY <1>0, <1>12 DEF SetState, At, LockOf, Checked, ApiOwned, CallShape
  <2>6. \A d \in Callers : call'[d].pc # "waitTerm"
    <3>1. call'[c].pc # "waitTerm"
      <4>1. Goto(c, "waitPause") \/ Return(c)
        BY <1>12 DEF SetState
      <4>2. QED
        BY <1>1, <4>1 DEF Goto, CallTypes, CallType
    <3>2. QED
      BY <1>0, <2>5, <3>1, TermOwnsApi DEF ClientMoves
  <2>7. QED
    BY <2>1, <2>3, <2>4, <2>5, <2>6 DEF IdleInv, States0, Busy, Own
<1>13. CASE HfpStop(c)
  BY <1>13 DEF HfpStop, TakesPlay, Doing
<1>14. QED
  BY <1>2, <1>3, <1>4, <1>5, <1>6, <1>7, <1>8, <1>9, <1>10, <1>11, <1>12, <1>13
     DEF ClientStep

\* Taking the head of the queue only removes starts from behind stops.
LEMMA PopStarts ==
    ASSUME QueueTypes, q # <<>>, Next0
    PROVE  /\ NoStarts => NoStarts' /\ Head(q).type # "start"
           /\ StopLast => StopLast'
           /\ StopLast /\ Head(q).type = "stop" => NoStarts'
<1>1. /\ \A i \in DOMAIN q' : i + 1 \in DOMAIN q /\ q'[i] = q[i + 1] /\ i \in Nat \ {0}
      /\ 1 \in DOMAIN q /\ Head(q) = q[1]
  BY DEF QueueTypes, Next0
<1>2. QED
  BY <1>1 DEF NoStarts, StopLast

\* A step of the main thread keeps that order; the stop it handles leaves it idle.
LEMMA ThreadStepIdle ==
    ASSUME TypeInv, SemInv, IdleInv, ThreadStep
    PROVE  IdleInv'
<1> USE DEF TypeInv
<1>1. UNCHANGED <<play, obj>>
  BY DEF ThreadStep, PlayStart, PlayPause, PlayStop, Terminated, Frame, clientVars
<1>2. ThreadMoves
  BY ThreadStepMoves
<1>3. States0'
  <2>1. \A d \in Callers : call'[d].pc = "waitTerm" => call[d].pc = "waitTerm"
    BY <1>2 DEF ThreadMoves
  <2>2. QED
    BY <1>1, <2>1 DEF IdleInv, States0, Busy
<1>4. ASSUME open' \subseteq open PROVE Own'
  BY <1>1, <1>4 DEF IdleInv, Own
<1>5. ASSUME NEW d \in Callers, call'[d].pc = "waitStop"
      PROVE  call[d].pc = "waitStop" /\ call'[d] = call[d]
  BY <1>2, <1>5 DEF ThreadMoves
<1>6. CASE PlayStart
  <2>1. /\ SpkrData(Given(Head(q)), 2, TRUE) /\ q # <<>> /\ Next0
        /\ Head(q).type = "start" /\ UNCHANGED open
    BY <1>6 DEF PlayStart, Given, Received
  <2>2. 1 \in DOMAIN q /\ Head(q) = q[1]
    BY <2>1, HeadTyped
  <2>3. ~NoStarts /\ Busy
    BY <2>1, <2>2 DEF NoStarts, IdleInv, Quiet
  <2>4. \A d \in Callers : StopOver(d)'
    <3>1. Given(Head(q)) \in ThrType /\ Given(Head(q)).sem = Head(q).sem
      BY <2>1, HeadTyped, GivenTyped DEF ThrTypes
    <3>2. posted' \subseteq posted \cup ({Head(q).sem} \ {None})
      BY <2>1, <3>1, SpkrMoves
    <3>3. Head(q).sem # None => call[Head(q).sem].pc = "waitPlay"
      BY <2>1, <2>2 DEF SemInv, Awaits
    <3>4. QED
      BY <1>5, <2>3, <3>2, <3>3 DEF IdleInv, StopOver
  <2>5. StopLast'
    BY <2>1, PopStarts DEF IdleInv
  <2>6. QED
    BY <1>1, <1>3, <1>4, <2>1, <2>3, <2>4, <2>5 DEF IdleInv, Busy
<1>7. CASE PlayPause
  <2>1. q # <<>> /\ Next0 /\ UNCHANGED <<open, thr, call, posted>>
    BY <1>7 DEF PlayPause, Received, clientVars
  <2>2. (NoStarts => NoStarts') /\ StopLast'
    BY <2>1, PopStarts DEF IdleInv, NoStarts
  <2>3. QED
    BY <1>1, <1>3, <1>4, <2>1, <2>2 DEF IdleInv, Busy, Quiet, StopOver
<1>8. CASE PlayStop
  <2>1. /\ q # <<>> /\ Next0 /\ Head(q).type = "stop"
        /\ open' = open \ Held("pipe", thr.pipe)
        /\ thr'.hal = 0 /\ thr'.cb = 0
    BY <1>8 DEF PlayStop, Received, ThrTypes, ThrType
  <2>2. NoStarts' /\ StopLast'
    BY <2>1, PopStarts DEF IdleInv
  <2>3. QED
    BY <1>1, <1>3, <1>4, <2>1, <2>2 DEF IdleInv, Busy, Quiet, StopOver
<1>9. CASE Terminated
  <2>1. /\ q # <<>> /\ Next0 /\ Head(q).type = "terminate" /\ UNCHANGED open
        /\ thr'.hal = 0 /\ thr'.cb = 0 /\ posted' = posted \cup {Head(q).sem}
    BY <1>9 DEF Terminated, Received, NoThr
  <2>2. Head(q) = q[1] /\ 1 \in DOMAIN q /\ Head(q).sem # None
    BY <2>1, HeadTyped
  <2>3. call[Head(q).sem].pc = "waitTerm"
    BY <2>1, <2>2 DEF SemInv, Awaits
  <2>4. (NoStarts => NoStarts') /\ StopLast'
    BY <2>1, PopStarts DEF IdleInv, NoStarts
  <2>5. QED
    BY <1>1, <1>3, <1>4, <1>5, <2>1, <2>3, <2>4 DEF IdleInv, Busy, Quiet, StopOver
<1>10. CASE Frame
  <2>1. /\ UNCHANGED <<q, open>> /\ thr'.hal = thr.hal /\ thr'.cb = thr.cb
        /\ posted' \subseteq posted \cup ({thr.sem} \ {None})
    BY <1>10, SpkrMoves, OutcomesAssumption DEF Frame, ThrTypes
  <2>2. thr.sem # None => call[thr.sem].pc = "waitPlay"
    BY DEF SemInv
  <2>3. (NoStarts => NoStarts') /\ StopLast'
    BY <2>1 DEF IdleInv, NoStarts, StopLast
  <2>4. QED
    BY <1>1, <1>3, <1>4, <1>5, <2>1, <2>2, <2>3 DEF IdleInv, Busy, Quiet, StopOver
<1>11. QED
  BY <1>6, <1>7, <1>8, <1>9, <1>10 DEF ThreadStep

\* There is no stop initially.
LEMMA IdleInit == ASSUME Init PROVE IdleInv
<1>1. /\ obj = NoObj /\ thr.hal = 0 /\ thr.cb = 0 /\ q = <<>> /\ open = {} /\ play = None
      /\ posted = {} /\ \A c \in Callers : call[c].pc = "out"
  BY DEF Init, NoThr, NoCall
<1>2. /\ obj.hal = 0 /\ obj.fifo = 0 /\ obj.file = 0 /\ obj.memory = 0 /\ obj.pipe = 0
      /\ obj.user = 0 /\ obj.state = "created"
  BY <1>1 DEF NoObj, NewObj
<1>3. QED
  BY <1>1, <1>2 DEF IdleInv, Busy, Quiet, NoStarts, Own, StopLast, States0, StopOver

\* A call that the clients never make.
Never(op) == \A c \in Callers : call[c].op # op

\* An operation that no client has is never called.
LEMMA NeverStep ==
    ASSUME NEW op \in AllOps \ {"stop"}, op \notin Ops, TypeInv, Never(op), [Next]_vars
    PROVE  Never(op)'
<1> USE DEF TypeInv
<1>0. op # "none"
  BY DEF AllOps
<1>1. ASSUME NEW c \in Callers, Call(c) PROVE Never(op)'
  <2>1. call'[c].op # op
    BY <1>1, CallStarts
  <2>2. QED
    BY <1>1, <2>1, ClientStepMoves DEF Never, ClientMoves
<1>2. ASSUME NEW c \in Callers, ClientStep(c) PROVE Never(op)'
  BY <1>0, <1>2, ClientStepMoves, ClientStepKeeps DEF Never, ClientMoves
<1>3. CASE ThreadStep
  BY <1>3, ThreadStepMoves DEF Never, ThreadMoves
<1>4. CASE UNCHANGED vars
  BY <1>4 DEF vars, clientVars, Never
<1>5. QED
  BY <1>1, <1>2, <1>3, <1>4 DEF Next

\* No operation is in progress initially.
LEMMA NeverInit == ASSUME NEW op \in AllOps, Init PROVE Never(op)
<1>1. \A c \in Callers : call[c].op = "none"
  BY DEF Init, NoCall
<1>2. QED
  BY <1>1 DEF Never, AllOps

\* Every step keeps the order of stops and starts.
LEMMA IdleStep ==
    ASSUME TypeInv, SemInv, LockInv, Never("hfpStop"), IdleInv, [Next]_vars
    PROVE  IdleInv'
<1>1. CASE UNCHANGED vars
  BY <1>1 DEF vars, clientVars, IdleInv, Busy, Quiet, NoStarts, Own, StopLast, States0,
     StopOver
<1>2. QED
  BY <1>1, ClientStepIdle, ThreadStepIdle DEF Next, Never

\* The types, the semaphores, the mutexes and the order of stops and starts hold always.
LEMMA IdleAlways ==
    ASSUME "hfpStop" \notin Ops
    PROVE  Spec => [](TypeInv /\ SemInv /\ LockInv /\ IdleInv)
<1>1. "hfpStop" \in AllOps \ {"stop"}
  BY DEF AllOps
<1>2. Init => TypeInv /\ SemInv /\ LockInv /\ IdleInv /\ Never("hfpStop")
  BY <1>1, TypeInit, SemInit, LockInit, IdleInit, NeverInit
<1>3. TypeInv /\ SemInv /\ LockInv /\ IdleInv /\ Never("hfpStop") /\ [Next]_vars
         => TypeInv' /\ SemInv' /\ LockInv' /\ IdleInv' /\ Never("hfpStop")'
  BY <1>1, TypeStep, SemStep, LockStep, IdleStep, NeverStep
<1>4. QED
  BY <1>2, <1>3, PTL DEF Spec

\* When nothing plays nothing is left over (IdleIsQuiet), provided that nobody stops the
\* HFP bypass: hfp_stop takes the HAL output of any playback away and calls it idle.
THEOREM IdleQuiet ==
    ASSUME "hfpStop" \notin Ops
    PROVE  Spec => []IdleIsQuiet
<1>1. TypeInv /\ IdleInv => IdleIsQuiet
  BY DEF TypeInv, QueueTypes, IdleInv, Quiet, Busy, NoStarts, IdleIsQuiet, Queued
<1>2. QED
  BY <1>1, IdleAlways, PTL

-----------------------------------------------------------------------------
(* The handles of what is played.                                          *)

\* The handles of a playback, with the main thread or still queued, are open.
Named(t) == Held("hal", t.hal) \cup Held("file", t.file) \cup Held("pipe", t.pipe)
            \cup Held("fifo", t.fifo)
HandleInv ==
    /\ thr.hal # 0 => Named(thr) \subseteq open
    /\ \A i \in DOMAIN q : q[i].type = "start" => Named(q[i]) \subseteq open

\* No start has been queued.
StartsKept == \A i \in DOMAIN q' : q'[i].type = "start" => \E j \in DOMAIN q : q'[i] = q[j]

\* A message without data adds no start.
LEMMA SignalKeepsStarts ==
    ASSUME QueueTypes, NEW type \in {"pause", "resume", "stop", "terminate"},
           NEW c \in Callers \cup {None}, Signal(type, c)
    PROVE  StartsKept
<1> DEFINE m == [type |-> type, sem |-> c]
<1>1. m.type # "start" /\ Push(m)
  BY DEF Signal
<1> HIDE DEF m
<1>2. \A i \in DOMAIN q' : (i \in DOMAIN q /\ q'[i] = q[i]) \/ q'[i] = m
  BY <1>1 DEF QueueTypes, Push
<1>3. QED
  BY <1>1, <1>2 DEF StartsKept

\* Taking the head adds no start.
LEMMA PopKeepsStarts == ASSUME QueueTypes, q # <<>>, Next0 PROVE StartsKept
<1>1. \A i \in DOMAIN q' : i + 1 \in DOMAIN q /\ q'[i] = q[i + 1]
  BY DEF QueueTypes, Next0
<1>2. QED
  BY <1>1 DEF StartsKept

\* Nothing is closed and nothing started, or the main thread has no output and no start
\* is queued.
LEMMA HandlesKept ==
    ASSUME HandleInv,
           \/ open \subseteq open' /\ StartsKept /\ (thr' = thr \/ thr'.hal = 0)
           \/ NoStarts' /\ thr'.hal = 0
    PROVE  HandleInv'
<1>1. CASE open \subseteq open' /\ StartsKept /\ (thr' = thr \/ thr'.hal = 0)
  <2>1. \A i \in DOMAIN q' : q'[i].type = "start" => Named(q'[i]) \subseteq open'
    BY <1>1 DEF HandleInv, StartsKept
  <2>2. QED
    BY <1>1, <2>1 DEF HandleInv
<1>2. CASE NoStarts' /\ thr'.hal = 0
  BY <1>2 DEF HandleInv, NoStarts
<1>3. QED
  BY <1>1, <1>2

\* A client closes handles only after its stop is over, so that neither the queue nor the
\* main thread still has one of them.
LEMMA ClientStepHandles ==
    ASSUME TypeInv, LockInv, IdleInv, HandleInv, NEW c \in Callers, Call(c) \/ ClientStep(c),
           call[c].op \notin {"hfpStop", "intensity"}
    PROVE  HandleInv'
<1> USE DEF TypeInv
<1>1. ASSUME UNCHANGED <<open, thr, q>> PROVE HandleInv'
  BY <1>1, HandlesKept DEF StartsKept
<1>2. CASE Call(c) \/ Refused(c) \/ EnterSync(c) \/ Enter(c) \/ CheckState(c) \/ ReadHandle(c)
           \/ SetVolume(c) \/ EnterFreed(c) \/ PlayFails(c) \/ StopIdle(c)
  BY <1>1, <1>2 DEF Call, Refused, EnterSync, Enter, CheckState, ReadHandle, SetVolume,
     EnterFreed, PlayFails, StopIdle
<1>3. CASE Open(c)
  <2>1. StartsKept /\ open' = open /\ (thr' = thr \/ thr'.hal = 0)
    BY <1>3 DEF Open, StartsKept, NoThr
  <2>2. QED
    BY <2>1, HandlesKept
<1>4. CASE Play(c)
  <2>1. PICK m \in Msg :
           /\ Push(m) /\ m.hal = obj'.hal /\ m.file = obj'.file /\ m.pipe = obj'.pipe
           /\ m.fifo = obj'.fifo
    BY <1>4, PlayPushes
  <2>2. /\ obj.file = 0 /\ obj.pipe = 0 /\ obj.fifo = 0
    BY <1>4 DEF Play, IdleInv, Busy, Quiet
  <2>3. plays + 1 \in Nums /\ call[c].src \in Kinds \cup {"none"}
        /\ obj' = Started(call[c].src, plays + 1)
    BY <1>4, PlayTyped
  <2>4. /\ obj'.hal = plays + 1
        /\ obj'.file = IF call[c].src = "file" THEN plays + 1 ELSE 0
        /\ obj'.pipe = IF call[c].src = "pipe" THEN plays + 1 ELSE 0
        /\ obj.named => obj'.fifo = plays + 1
        /\ ~obj.named => obj'.fifo = 0
    BY <2>2, <2>3, StartedTyped DEF Kinds, Finite
  <2>5. open' = open \cup {<<"hal", plays + 1>>}
                     \cup (IF obj.named THEN {<<"fifo", plays + 1>>} ELSE {})
                     \cup (IF call[c].src \in {"file", "pipe"} THEN {<<call[c].src, plays + 1>>}
                                                              ELSE {})
    BY <1>4 DEF Play
  <2>6. Named(m) \subseteq open'
    BY <2>1, <2>4, <2>5 DEF Named, Held
  <2>7. \A i \in DOMAIN q' : (i \in DOMAIN q /\ q'[i] = q[i]) \/ q'[i] = m
    BY <2>1 DEF QueueTypes, Push
  <2>8. thr' = thr /\ open \subseteq open'
    BY <1>4, <2>5 DEF Play
  <2>9. \A i \in DOMAIN q' : q'[i].type = "start" => Named(q'[i]) \subseteq open'
    BY <2>6, <2>7, <2>8 DEF HandleInv
  <2>10. QED
    BY <2>8, <2>9 DEF HandleInv
<1>5. CASE PlayReturns(c) \/ Stop(c) \/ CloseIdle(c)
  <2>1. (Signal("stop", c) \/ Signal("terminate", c)) /\ UNCHANGED <<open, thr>>
    BY <1>5 DEF PlayReturns, Stop, StopBegins, CloseIdle, Terminate
  <2>2. QED
    BY <2>1, SignalKeepsStarts, HandlesKept
<1>6. CASE StopDone(c)
  <2>1. thr'.hal = 0 /\ NoStarts
    BY <1>6 DEF StopDone, At, IdleInv, StopOver
  <2>2. NoStarts'
    <3>1. q' = q \/ Signal("terminate", c)
      BY <1>6 DEF StopDone, Terminate
    <3>2. QED
      BY <2>1, <3>1, SignalStarts DEF NoStarts
  <2>3. QED
    BY <2>1, <2>2, HandlesKept
<1>7. CASE CloseDone(c)
  BY <1>7, HandlesKept DEF CloseDone, StartsKept
<1>8. CASE SetState(c)
  <2>1. PICK type \in {"pause", "resume"}, d \in {c, None} : Signal(type, d)
    BY <1>8 DEF SetState
  <2>2. UNCHANGED <<open, thr>>
    BY <1>8 DEF SetState
  <2>3. QED
    BY <2>1, <2>2, SignalKeepsStarts, HandlesKept
<1>9. CASE HfpStart(c)
  BY <1>9, HandlesKept DEF HfpStart, StartsKept
<1>10. CASE HfpStop(c) \/ Intensity(c)
  BY <1>10 DEF HfpStop, Intensity, TakesPlay, Doing
<1>11. QED
  BY <1>2, <1>3, <1>4, <1>5, <1>6, <1>7, <1>8, <1>9, <1>10 DEF ClientStep

\* The main thread closes only the pipe that it forgets in the same step.
LEMMA ThreadStepHandles ==
    ASSUME TypeInv, IdleInv, HandleInv, ThreadStep
    PROVE  HandleInv'
<1> USE DEF TypeInv
<1>1. CASE PlayStart
  <2> DEFINE t == Given(Head(q))
  <2>1. SpkrData(t, 2, TRUE) /\ q # <<>> /\ Next0 /\ Head(q).type = "start" /\ UNCHANGED open
    BY <1>1 DEF PlayStart, Given, Received
  <2>2. /\ t \in ThrType /\ t.hal = Head(q).hal /\ t.file = Head(q).file
        /\ t.pipe = Head(q).pipe /\ t.fifo = Head(q).fifo
    BY <2>1, HeadTyped, GivenTyped DEF ThrTypes
  <2> HIDE DEF t
  <2>3. /\ thr'.hal = t.hal /\ thr'.fifo = t.fifo /\ thr'.file \in {t.file, 0}
        /\ thr'.pipe \in {t.pipe, 0}
    BY <2>1, <2>2, SpkrMoves
  <2>4. Named(Head(q)) \subseteq open
    BY <2>1, HeadTyped DEF HandleInv
  <2>5. Named(thr') \subseteq Named(Head(q))
    BY <2>2, <2>3 DEF Named, Held
  <2>6. \A i \in DOMAIN q' : q'[i].type = "start" => Named(q'[i]) \subseteq open
    BY <2>1, PopKeepsStarts DEF StartsKept, HandleInv
  <2>7. QED
    BY <2>1, <2>4, <2>5, <2>6 DEF HandleInv
<1>2. CASE PlayPause
  BY <1>2, PopKeepsStarts, HandlesKept DEF PlayPause, Received
<1>3. CASE PlayStop
  <2>1. q # <<>> /\ Next0 /\ Head(q).type = "stop" /\ thr'.hal = 0
    BY <1>3 DEF PlayStop, Received, ThrTypes, ThrType
  <2>2. QED
    BY <2>1, PopStarts, HandlesKept DEF IdleInv
<1>4. CASE Terminated
  BY <1>4, PopKeepsStarts, HandlesKept DEF Terminated, Received, NoThr
<1>5. CASE Frame
  <2>1. UNCHANGED <<q, open>>
        /\ thr'.hal = thr.hal /\ thr'.fifo = thr.fifo /\ thr'.file \in {thr.file, 0}
        /\ thr'.pipe \in {thr.pipe, 0}
    BY <1>5, SpkrMoves, OutcomesAssumption DEF Frame, ThrTypes
  <2>2. Named(thr') \subseteq Named(thr)
    BY <2>1 DEF Named, Held
  <2>3. QED
    BY <2>1, <2>2 DEF HandleInv
<1>6. QED
  BY <1>1, <1>2, <1>3, <1>4, <1>5 DEF ThreadStep

\* No frame is read from or written to a handle that has been closed, and what is open
\* is the object's (HandlesLive), provided that nobody stops the HFP bypass or changes the
\* intensity fifo: those two close a handle that the main thread goes on using.
THEOREM HandlesAreLive ==
    ASSUME "hfpStop" \notin Ops, "intensity" \notin Ops
    PROVE  Spec => []HandlesLive
<1>1. /\ Init => Never("hfpStop") /\ Never("intensity")
      /\ TypeInv /\ Never("hfpStop") /\ Never("intensity") /\ [Next]_vars
            => Never("hfpStop")' /\ Never("intensity")'
  <2>1. "hfpStop" \in AllOps \ {"stop"} /\ "intensity" \in AllOps \ {"stop"}
    BY DEF AllOps
  <2>2. QED
    BY <2>1, NeverInit, NeverStep
<1>2. Spec => [](TypeInv /\ SemInv /\ LockInv /\ IdleInv)
  BY IdleAlways
<1>3. Init => HandleInv
  <2>1. ASSUME Init PROVE q = <<>> /\ thr.hal = 0
    BY <2>1 DEF Init, NoThr
  <2>2. QED
    BY <2>1 DEF HandleInv
<1>4. TypeInv /\ SemInv /\ LockInv /\ IdleInv /\ HandleInv /\ Never("hfpStop")
         /\ Never("intensity") /\ [Next]_vars => HandleInv'
  <2> SUFFICES ASSUME TypeInv, LockInv, IdleInv, HandleInv, Never("hfpStop"),
                      Never("intensity"), [Next]_vars
               PROVE  HandleInv'
    OBVIOUS
  <2>1. CASE UNCHANGED vars
    BY <2>1, HandlesKept DEF vars, clientVars, StartsKept
  <2>2. QED
    BY <2>1, ClientStepHandles, ThreadStepHandles DEF Next, Never
<1>5. TypeInv /\ IdleInv /\ HandleInv => HandlesLive
  <2> SUFFICES ASSUME TypeInv, IdleInv, HandleInv PROVE HandlesLive
    OBVIOUS
  <2>1. ASSUME NEW h \in open, h[1] # "pipe" PROVE h[2] = obj[h[1]]
    <3>1. h[1] \in {"hal", "file", "fifo"}
      BY <2>1 DEF TypeInv, ObjTypes, Handles
    <3>2. QED
      BY <2>1, <3>1 DEF IdleInv, Own
  <2>2. QED
    BY <2>1 DEF HandleInv, Named, HandlesLive
<1>6. QED
  BY <1>1, <1>2, <1>3, <1>4, <1>5, PTL DEF Spec

-----------------------------------------------------------------------------
(* The state and the HAL output.                                           *)

\* Where every call holds mutex_api to its end, the state tells of the HAL output, and
\* what a pause or a resume has checked is still true when it acts.
Tells == obj.live => (Busy <=> obj.hal # 0)
TellInv == Tells /\ \A c \in Callers : call[c].pc = "pausing" => Busy

\* The state of an object without a playback tells the truth.
LEMMA TellsBare == ASSUME obj' \in {NewObj, Stopped, [Stopped EXCEPT !.state = "created"], NoObj}
                   PROVE  Tells'
<1>1. NewObj.hal = 0 /\ NewObj.state = "idling"
      /\ Stopped.hal = 0 /\ Stopped.state = "idling" /\ NoObj.hal = 0 /\ NoObj.state = "created"
      /\ [Stopped EXCEPT !.state = "created"].hal = 0
      /\ [Stopped EXCEPT !.state = "created"].state = "created"
  BY DEF NewObj, Stopped, NoObj
<1>2. obj'.hal = 0 /\ obj'.state \in {"created", "idling"}
  BY <1>1
<1>3. QED
  BY <1>2 DEF Tells, Busy

\* A client's step keeps the state of the output object true.
LEMMA ClientStepTells ==
    ASSUME TypeInv, LockInv, NoSync, TellInv, NEW c \in Callers, Call(c) \/ ClientStep(c)
    PROVE  TellInv'
<1> USE DEF TypeInv
<1>1. ClientMoves(c) /\ LockOf(c) /\ ~call[c].sync
  BY ClientStepMoves DEF LockInv, NoSync
\* The step either leaves the object alone, or is taken by one who has mutex_api or takes it.
<1>2. ASSUME Tells', obj'.state = obj.state \/ api \in {None, c},
             call'[c].pc = "pausing" => Busy'
      PROVE  TellInv'
  <2>1. ASSUME NEW d \in Callers, d # c, call'[d].pc = "pausing" PROVE Busy'
    <3>1. call[d].pc = "pausing" /\ Busy
      BY <1>1, <2>1 DEF ClientMoves, TellInv
    <3>2. api = d
      BY <3>1 DEF LockInv, LockOf, ApiOwned, NoSync
    <3>3. obj'.state = obj.state
      BY <1>2, <2>1, <3>2, CallersAssumption
    <3>4. QED
      BY <3>1, <3>3 DEF Busy
  <2>2. QED
    BY <1>2, <2>1 DEF TellInv
<1>3. ASSUME UNCHANGED obj PROVE Tells'
  BY <1>3 DEF TellInv, Tells, Busy
<1>4. ASSUME Return(c) PROVE call'[c].pc = "out"
  BY <1>4 DEF Return, NoCall, CallTypes
<1>5. CASE Call(c)
  <2>1. UNCHANGED obj
    BY <1>5 DEF Call
  <2>2. call'[c].pc = "api"
    <3>1. PICK op \in Ops, r \in Plays \cup {[src |-> "none", sync |-> FALSE]} :
             call' = [call EXCEPT ![c] = [NoCall EXCEPT !.pc = "api", !.op = op,
                                                        !.src = r.src, !.sync = r.sync]]
      BY <1>5 DEF Call
    <3>2. QED
      BY <3>1 DEF NoCall, CallTypes
  <2>3. QED
    BY <1>2, <1>3, <2>1, <2>2
<1>6. CASE Refused(c) \/ EnterFreed(c) \/ PlayFails(c) \/ StopIdle(c) \/ SetVolume(c)
  BY <1>2, <1>3, <1>4, <1>6 DEF Refused, EnterFreed, PlayFails, StopIdle, SetVolume
<1>7. CASE EnterSync(c) \/ Enter(c) \/ ReadHandle(c)
  <2>1. \/ call' = [call EXCEPT ![c] = Enters(c)]
        \/ call' = [call EXCEPT ![c].pc = "volume", ![c].hal = obj.hal]
        \/ Return(c)
    BY <1>7 DEF EnterSync, Enter, ReadHandle
  <2>2. call'[c].pc # "pausing"
    BY <1>4, <2>1 DEF Enters, CallTypes, CallType
  <2>3. QED
    BY <1>2, <1>3, <1>7, <2>2 DEF EnterSync, Enter, ReadHandle
<1>8. CASE CheckState(c)
  BY <1>2, <1>3, <1>8 DEF CheckState, Busy
<1>9. CASE Open(c)
  <2>1. api = None /\ Return(c) /\ (obj' = NewObj \/ obj' = obj)
    BY <1>9 DEF Open, TakesApi
  <2>2. QED
    BY <1>2, <1>3, <1>4, <2>1, TellsBare
<1>10. CASE Intensity(c)
  <2>1. obj'.state = obj.state /\ obj'.hal = obj.hal /\ obj'.live = obj.live /\ Return(c)
    BY <1>10 DEF Intensity, ObjTypes, ObjType
  <2>2. QED
    BY <1>2, <1>4, <2>1 DEF TellInv, Tells, Busy
<1>11. ASSUME call[c].pc \in {"enter", "waitStop", "waitTerm"} PROVE api = c
  BY <1>1, <1>11 DEF LockOf, ApiOwned
<1>12. CASE Play(c)
  <2>1. call[c].pc = "enter"
    BY <1>12 DEF Play, TakesPlay, Doing, At
  <2>2. plays + 1 \in Nums /\ plays + 1 # 0 /\ call[c].src \in Kinds \cup {"none"}
        /\ obj' = Started(call[c].src, plays + 1)
    BY <1>12, PlayTyped, BoundsAssumption DEF ObjTypes, Nums
  <2>3. obj'.state = "playing" /\ obj'.hal # 0
    BY <2>2, StartedTyped
  <2>4. call'[c].pc # "pausing"
    <3>1. IF call[c].sync THEN Goto(c, "waitPlay") ELSE Return(c)
      BY <1>12 DEF Play
    <3>2. QED
      BY <1>1, <1>4, <3>1
  <2>5. QED
    BY <1>2, <1>11, <2>1, <2>3, <2>4 DEF Tells, Busy
<1>13. CASE HfpStart(c)
  <2>1. /\ call[c].pc = "enter" /\ Return(c)
        /\ obj' = [obj EXCEPT !.state = "playing", !.hal = plays + 1]
    BY <1>13 DEF HfpStart, TakesPlay, Doing, At
  <2>2. obj'.state = "playing" /\ obj'.hal # 0
    BY <2>1, BoundsAssumption DEF ObjTypes, ObjType, Nums
  <2>3. QED
    BY <1>2, <1>4, <1>11, <2>1, <2>2 DEF Tells, Busy
<1>14. CASE HfpStop(c)
  <2>1. /\ call[c].pc = "enter" /\ Return(c)
        /\ obj' = obj \/ obj' = [obj EXCEPT !.state = "idling", !.hal = 0]
    BY <1>14 DEF HfpStop, TakesPlay, Doing, At
  <2>2. obj' = obj \/ (obj'.state = "idling" /\ obj'.hal = 0)
    BY <2>1 DEF ObjTypes, ObjType
  <2>3. Tells'
    BY <1>3, <2>2 DEF Tells, Busy
  <2>4. QED
    BY <1>2, <1>4, <1>11, <2>1, <2>3
<1>15. CASE PlayReturns(c) \/ Stop(c)
  <2>1. UNCHANGED obj /\ Goto(c, "waitStop")
    BY <1>15 DEF PlayReturns, Stop, StopBegins
  <2>2. call'[c].pc = "waitStop"
    BY <2>1 DEF Goto, CallTypes, CallType
  <2>3. QED
    BY <1>2, <1>3, <2>1, <2>2
<1>16. CASE StopDone(c) \/ CloseIdle(c)
  <2>1. call[c].pc \in {"waitStop", "enter"}
    BY <1>16 DEF StopDone, CloseIdle, TakesPlay, Doing, At
  <2>2. \/ obj' = [Stopped EXCEPT !.state = "created"] /\ Goto(c, "waitTerm")
        \/ obj' = Stopped /\ Return(c)
    BY <1>16 DEF StopDone, CloseIdle, Terminate
  <2>3. call'[c].pc # "pausing"
    BY <1>4, <2>2 DEF Goto, CallTypes, CallType
  <2>4. QED
    BY <1>2, <1>11, <2>1, <2>2, <2>3, TellsBare
<1>17. CASE CloseDone(c)
  <2>1. call[c].pc = "waitTerm" /\ obj' = NoObj /\ Return(c)
    BY <1>17 DEF CloseDone, At
  <2>2. QED
    BY <1>2, <1>4, <1>11, <2>1, TellsBare
<1>18. CASE SetState(c)
  <2>1. /\ call[c].pc = "pausing" /\ obj'.hal = obj.hal /\ obj'.live = obj.live /\ Busy'
    BY <1>18 DEF SetState, At, Busy, ObjTypes, ObjType
  <2>2. api = c /\ Busy
    BY <1>1, <2>1 DEF TellInv, LockOf, ApiOwned
  <2>3. QED
    BY <1>2, <2>1, <2>2 DEF TellInv, Tells
<1>19. QED
  BY <1>5, <1>6, <1>7, <1>8, <1>9, <1>10, <1>12, <1>13, <1>14, <1>15, <1>16, <1>17, <1>18
     DEF ClientStep

\* Every step keeps the state of the output object true.
LEMMA TellStep ==
    ASSUME TypeInv, LockInv, NoSync, TellInv, [Next]_vars
    PROVE  TellInv'
<1>1. CASE UNCHANGED vars
  BY <1>1 DEF vars, clientVars, TellInv, Tells, Busy
<1>2. CASE ThreadStep
  <2>1. UNCHANGED obj
    BY <1>2 DEF ThreadStep, PlayStart, PlayPause, PlayStop, Terminated, Frame
  <2>2. \A c \in Callers : call'[c].pc = "pausing" => call[c].pc = "pausing"
    BY <1>2, ThreadStepMoves DEF ThreadMoves
  <2>3. QED
    BY <2>1, <2>2 DEF TellInv, Tells, Busy
<1>3. QED
  BY <1>1, <1>2, ClientStepTells DEF Next

\* Where all plays are asynchronous, the state says whether the HAL output is open
\* (StateTellsHal), and a pause finds the playback that it has checked for.
THEOREM StateTells ==
    ASSUME \A r \in Plays : ~r.sync
    PROVE  Spec => []StateTellsHal
<1>1. Init => TypeInv /\ LockInv /\ NoSync /\ TellInv
  <2>1. ASSUME Init PROVE ~obj.live /\ \A c \in Callers : call[c].pc = "out"
    BY <2>1 DEF Init, NoObj, NewObj, NoCall
  <2>2. Init => TellInv
    BY <2>1 DEF TellInv, Tells
  <2>3. QED
    BY <2>2, TypeInit, LockInit, SyncInit
<1>2. TypeInv /\ LockInv /\ NoSync /\ TellInv /\ [Next]_vars
         => TypeInv' /\ LockInv' /\ NoSync' /\ TellInv'
  BY TypeStep, LockStep, SyncStep, TellStep
<1>3. TypeInv /\ TellInv => StateTellsHal
  BY DEF TypeInv, ObjTypes, TellInv, Tells, Busy, StateTellsHal
<1>4. QED
  BY <1>1, <1>2, <1>3, PTL DEF Spec

-----------------------------------------------------------------------------
(* The end of a playback is told once.                                     *)

\* A playback from the user's handler waits for its end.
UserWaits == \A c \in Callers : call[c].src = "user" => call[c].sync

\* When every playback from a user's handler is synchronous, so is every call of one.
LEMMA UserStep ==
    ASSUME \A r \in Plays : r.src = "user" => r.sync, TypeInv, UserWaits, [Next]_vars
    PROVE  UserWaits'
<1> USE DEF TypeInv
<1>1. ASSUME NEW c \in Callers, Call(c) PROVE UserWaits'
  <2>1. call'[c].src = "user" => call'[c].sync
    <3>1. PICK r \in Plays \cup {[src |-> "none", sync |-> FALSE]} :
             call'[c].src = r.src /\ call'[c].sync = r.sync
      BY <1>1, CallStarts
    <3>2. CASE r \in Plays
      BY <3>1, <3>2
    <3>3. CASE r = [src |-> "none", sync |-> FALSE]
      BY <3>1, <3>3
    <3>4. QED
      BY <3>2, <3>3
  <2>2. QED
    BY <1>1, <2>1, ClientStepMoves DEF UserWaits, ClientMoves
<1>2. ASSUME NEW c \in Callers, ClientStep(c) PROVE UserWaits'
  BY <1>2, ClientStepMoves, ClientStepKeeps DEF UserWaits, ClientMoves
<1>3. CASE ThreadStep
  BY <1>3, ThreadStepMoves DEF UserWaits, ThreadMoves
<1>4. CASE UNCHANGED vars
  BY <1>4 DEF vars, clientVars, UserWaits
<1>5. QED
  BY <1>1, <1>2, <1>3, <1>4 DEF Next

\* The playback that the main thread tells of has one source, and the playbacks that are
\* queued come after it, in order.
ThrTells == /\ thr.cb # 0 => thr.user = 0 /\ ~thr.sync /\ OneSource(thr)
            /\ thr.cb <= plays
StartFresh(i) == /\ thr.cb < q[i].n /\ q[i].n <= plays /\ OneSource(q[i])
                 /\ q[i].sem = None => q[i].user = 0
StartsInOrder ==
    /\ \A i \in DOMAIN q : q[i].type = "start" => StartFresh(i)
    /\ \A i, j \in DOMAIN q : q[i].type = "start" /\ q[j].type = "start" /\ i < j
                                 => q[i].n < q[j].n
\* A playback whose end has been told has no source left, and is not queued.
ToldOnce(n) == /\ told[n].eof = 1 /\ n <= plays
               /\ thr.cb = n => Silent(thr)
               /\ \A i \in DOMAIN q : q[i].type = "start" => q[i].n # n
ToldEnds == \A n \in 1 .. MaxPlays : told[n].eof # 0 => ToldOnce(n)
EofInv == ThrTells /\ StartsInOrder /\ ToldEnds

\* The queue keeps its starts, or loses them all.
PlainQueue == \/ q' = q \/ q' = <<>>
              \/ \E m \in Msg : m.type # "start" /\ q' = Append(q, m)

\* A message without data leaves the queue's starts as they are.
LEMMA SignalPlain ==
    ASSUME NEW type \in {"pause", "resume", "stop", "terminate"},
           NEW c \in Callers \cup {None}, Signal(type, c)
    PROVE  PlainQueue
<1> DEFINE m == [type |-> type, sem |-> c]
<1>1. m \in Msg /\ m.type # "start" /\ Push(m)
  BY DEF Msg, Signal
<1> HIDE DEF m
<1>2. QED
  BY <1>1 DEF Push, PlainQueue

\* The numbers of playbacks are natural numbers.
LEMMA PlayNumbers ==
    ASSUME TypeInv
    PROVE  /\ plays \in Nat /\ thr.cb \in Nat
           /\ \A i \in DOMAIN q : q[i].type = "start" => q[i].n \in Nat
<1>1. Nums \subseteq Nat
  BY BoundsAssumption DEF Nums
<1>2. plays \in Nums /\ thr.cb \in Nums
  BY DEF TypeInv, ObjTypes, ThrTypes, ThrType
<1>3. \A i \in DOMAIN q : q[i] \in Msg
  BY DEF TypeInv, QueueTypes
<1>4. \A m \in Msg : m.type = "start" => m.n \in Nums
  BY DEF Msg
<1>5. QED
  BY <1>1, <1>2, <1>3, <1>4

\* A step that starts nothing and tells nothing keeps the order of the playbacks' ends.
LEMMA EofKept ==
    ASSUME TypeInv, EofInv, PlainQueue, told' = told, plays' \in {plays, plays + 1},
           thr' = thr \/ thr'.cb = 0
    PROVE  EofInv'
<1> USE DEF TypeInv
<1>1. plays \in Nat /\ thr.cb \in Nat /\ \A i \in DOMAIN q : q[i].type = "start" => q[i].n \in Nat
  BY PlayNumbers
<1>2. ThrTells'
  BY <1>1 DEF EofInv, ThrTells
<1>3. \A i \in DOMAIN q' : q'[i].type = "start" => i \in DOMAIN q /\ q'[i] = q[i]
  <2>1. CASE q' = q \/ q' = <<>>
    BY <2>1
  <2>2. ASSUME NEW m \in Msg, m.type # "start", q' = Append(q, m)
        PROVE  \A i \in DOMAIN q' : q'[i].type = "start" => i \in DOMAIN q /\ q'[i] = q[i]
    BY <2>2 DEF QueueTypes
  <2>3. QED
    BY <2>1, <2>2 DEF PlainQueue
<1>4. StartsInOrder'
  <2>1. \A i \in DOMAIN q' : q'[i].type = "start" => StartFresh(i)'
    BY <1>1, <1>3 DEF EofInv, StartsInOrder, StartFresh
  <2>2. QED
    BY <1>3, <2>1 DEF EofInv, StartsInOrder
<1>5. ToldEnds'
  BY <1>1, <1>3 DEF EofInv, ToldEnds, ToldOnce
<1>6. QED
  BY <1>2, <1>4, <1>5 DEF EofInv

\* A client's step keeps it: a new start has a number above all others.
LEMMA ClientStepEof ==
    ASSUME TypeInv, IdleInv, EofInv, UserWaits, NEW c \in Callers, Call(c) \/ ClientStep(c)
    PROVE  EofInv'
<1> USE DEF TypeInv
<1>1. CASE Play(c)
  <2>1. PICK m \in Msg :
           /\ Push(m) /\ m.type = "start" /\ m.n = plays + 1
           /\ m.sem = IF call[c].sync THEN c ELSE None
           /\ m.file = obj'.file /\ m.memory = obj'.memory
           /\ m.pipe = obj'.pipe /\ m.user = obj'.user
    BY <1>1, PlayPushes
  <2>2. obj.file = 0 /\ obj.memory = 0 /\ obj.pipe = 0 /\ obj.user = 0
    BY <1>1 DEF Play, IdleInv, Busy, Quiet
  <2>3. plays + 1 \in Nums /\ plays' = plays + 1
        /\ call[c].src \in Kinds \cup {"none"} /\ obj' = Started(call[c].src, plays + 1)
    BY <1>1, PlayTyped
  <2>4. \A k \in Kinds : obj'[k] = IF k = call[c].src THEN plays + 1 ELSE obj[k]
    BY <2>3, StartedTyped
  <2>5. /\ obj'.file # 0 => call[c].src = "file"
        /\ obj'.memory # 0 => call[c].src = "memory"
        /\ obj'.pipe # 0 => call[c].src = "pipe"
        /\ obj'.user # 0 => call[c].src = "user"
    BY <2>2, <2>4 DEF Kinds, Finite
  <2>6. OneSource(m) /\ (m.sem = None => m.user = 0)
    BY <2>1, <2>5, CallersAssumption DEF OneSource, UserWaits
  <2>7. /\ plays \in Nat /\ thr.cb \in Nat
        /\ \A i \in DOMAIN q : q[i].type = "start" => q[i].n \in Nat
    BY PlayNumbers
  <2>8. UNCHANGED <<thr, told>>
    BY <1>1 DEF Play
  <2>9. ThrTells'
    BY <2>3, <2>7, <2>8 DEF EofInv, ThrTells
  <2>10. \A i \in DOMAIN q' : (i \in DOMAIN q /\ q'[i] = q[i])
                               \/ (i = Len(q) + 1 /\ q'[i] = m)
    BY <2>1 DEF QueueTypes, Push
  <2>11. \A i \in DOMAIN q' : q'[i].type = "start" => StartFresh(i)'
    BY <2>1, <2>3, <2>6, <2>7, <2>8, <2>10 DEF EofInv, ThrTells, StartsInOrder, StartFresh
  <2>12. \A i, j \in DOMAIN q' : q'[i].type = "start" /\ q'[j].type = "start" /\ i < j
                                  => q'[i].n < q'[j].n
    <3>1. DOMAIN q = 1 .. Len(q) /\ Len(q) \in Nat
      BY DEF QueueTypes
    <3>2. QED
      BY <2>1, <2>7, <2>10, <3>1 DEF EofInv, StartsInOrder, StartFresh
  <2>13. ToldEnds'
    BY <2>1, <2>3, <2>7, <2>8, <2>10 DEF EofInv, ToldEnds, ToldOnce
  <2>14. QED
    BY <2>9, <2>11, <2>12, <2>13 DEF EofInv, StartsInOrder
<1>2. told' = told
  BY DEF Call, ClientStep, Open, Refused, EnterSync, Enter, CheckState, ReadHandle, SetVolume,
     Intensity, EnterFreed, PlayFails, Play, PlayReturns, Stop, StopIdle, StopDone, CloseIdle,
     CloseDone, SetState, HfpStart, HfpStop
<1>3. plays' \in {plays, plays + 1}
  BY DEF Call, ClientStep, Open, Refused, EnterSync, Enter, CheckState, ReadHandle, SetVolume,
     Intensity, EnterFreed, PlayFails, Play, PlayReturns, Stop, StopIdle, StopDone, CloseIdle,
     CloseDone, SetState, HfpStart, HfpStop
<1>4. thr' = thr \/ thr'.cb = 0
  <2>1. CASE Open(c)
    BY <2>1 DEF Open, NoThr
  <2>2. CASE ~Open(c)
    BY <2>2 DEF Call, ClientStep, Refused, EnterSync, Enter, CheckState, ReadHandle, SetVolume,
       Intensity, EnterFreed, PlayFails, Play, PlayReturns, Stop, StopIdle, StopDone, CloseIdle,
       CloseDone, SetState, HfpStart, HfpStop
  <2>3. QED
    BY <2>1, <2>2
<1>5. CASE ~Play(c)
  <2>1. \/ q' = q \/ q' = <<>> \/ Signal("stop", c) \/ Signal("terminate", c)
        \/ \E type \in {"pause", "resume"}, d \in {c, None} : Signal(type, d)
    BY <1>5 DEF Call, ClientStep, Open, Refused, EnterSync, Enter, CheckState, ReadHandle,
       SetVolume, Intensity, EnterFreed, PlayFails, PlayReturns, Stop, StopBegins, StopIdle,
       StopDone, Terminate, CloseIdle, CloseDone, SetState, HfpStart, HfpStop
  <2>2. PlainQueue
    BY <2>1, SignalPlain DEF PlainQueue
  <2>3. QED
    BY <1>2, <1>3, <1>4, <2>2, EofKept
<1>6. QED
  BY <1>1, <1>5

\* What a frame tells: nothing of an end, or the end of the playback, whose source is then
\* forgotten.
LEMMA SpkrTells ==
    ASSUME CallTypes, ThrTypes, NEW t \in ThrType, NEW k \in {1, 2}, NEW stays \in BOOLEAN,
           SpkrData(t, k, stays), 0 \notin HalWrites,
           t.cb # 0 => t.user = 0 /\ ~t.sync /\ OneSource(t)
    PROVE  \A n \in 1 .. MaxPlays :
              \/ told'[n].eof = told[n].eof
              \/ n = t.cb /\ ~Silent(t) /\ told'[n].eof = Count(told[n].eof) /\ Silent(thr')
<1>1. CASE t.hal = 0
  BY <1>1 DEF SpkrData
<1>2. CASE t.hal # 0
  <2>1. PICK f \in ThrType, rc \in -1 .. 1, wrote \in BOOLEAN :
              /\ Notify(f, rc) /\ f.user = t.user /\ f.cb = t.cb
              /\ rc = 0 => ~Silent(t) /\ (t.user = 0 /\ OneSource(t) => Silent(f))
    BY <1>2, SpkrParts
  <2>2. \/ told' = told
        \/ rc < 0 /\ f.cb # 0 /\ Tell(f.cb, "error")
        \/ rc = 0 /\ f.cb # 0 /\ Tell(f.cb, "eof")
    BY <2>1 DEF Notify
  <2>3. f.cb # 0 => f.cb \in 1 .. MaxPlays
    BY BoundsAssumption DEF ThrType, Nums
  <2>4. CASE told' = told
    BY <2>4
  <2>5. CASE f.cb # 0 /\ Tell(f.cb, "error")
    BY <2>3, <2>5 DEF Tell, ThrTypes
  <2>6. CASE rc = 0 /\ f.cb # 0 /\ Tell(f.cb, "eof")
    <3>1. ~Silent(t) /\ Silent(f)
      BY <2>1, <2>6
    <3>2. Silent(thr')
      <4>1. thr'.file = f.file /\ thr'.memory = f.memory /\ thr'.pipe = f.pipe
            /\ thr'.user = f.user
        BY <2>1 DEF Notify, ThrType
      <4>2. QED
        BY <3>1, <4>1 DEF Silent
    <3>3. \A n \in 1 .. MaxPlays :
             told'[n].eof = IF n = f.cb THEN Count(told[n].eof) ELSE told[n].eof
      BY <2>3, <2>6 DEF Tell, ThrTypes
    <3>4. QED
      BY <2>1, <3>1, <3>2, <3>3
  <2>7. QED
    BY <2>2, <2>4, <2>5, <2>6
<1>3. QED
  BY <1>1, <1>2

\* The starts that stay in the queue when its head is taken.
LEMMA PopEof ==
    ASSUME TypeInv, q # <<>>, Next0, StartsInOrder
    PROVE  \A i \in DOMAIN q' : q'[i].type = "start" =>
              /\ thr.cb < q'[i].n /\ q'[i].n <= plays /\ OneSource(q'[i])
              /\ q'[i].sem = None => q'[i].user = 0
              /\ Head(q).type = "start" => Head(q).n < q'[i].n
              /\ \A j \in DOMAIN q' : q'[j].type = "start" /\ i < j => q'[i].n < q'[j].n
              /\ \E j \in DOMAIN q : q'[i] = q[j]
<1>1. /\ \A i \in DOMAIN q' : i + 1 \in DOMAIN q /\ q'[i] = q[i + 1] /\ i \in Nat \ {0}
      /\ 1 \in DOMAIN q /\ Head(q) = q[1]
  BY DEF TypeInv, QueueTypes, Next0
<1>2. QED
  BY <1>1 DEF StartsInOrder, StartFresh

\* A step of the main thread keeps it: an end is told as the source is forgotten.
LEMMA ThreadStepEof ==
    ASSUME 0 \notin HalWrites, TypeInv, EofInv, ThreadStep
    PROVE  EofInv'
<1> USE DEF TypeInv
<1>1. UNCHANGED plays /\ plays \in Nat /\ thr.cb \in Nat
      /\ \A i \in DOMAIN q : q[i].type = "start" => q[i].n \in Nat
  BY PlayNumbers DEF ThreadStep, PlayStart, PlayPause, PlayStop, Terminated, Frame, clientVars
<1>2. CASE PlayStart
  <2> DEFINE m == Head(q)
             t == Given(m)
  <2>1. SpkrData(t, 2, TRUE) /\ q # <<>> /\ Next0 /\ m.type = "start"
    BY <1>2 DEF PlayStart, Given, Received
  <2>2. m \in Msg /\ m = q[1] /\ 1 \in DOMAIN q
    BY <2>1, HeadTyped
  <2>3. /\ t \in ThrType /\ t.file = m.file /\ t.memory = m.memory
        /\ t.pipe = m.pipe /\ t.user = m.user /\ (t.sync <=> m.sem # None)
        /\ t.cb = IF m.sem = None THEN m.n ELSE 0
    BY <2>1, <2>2, GivenTyped DEF ThrTypes
  <2>4. /\ thr.cb < m.n /\ m.n <= plays /\ OneSource(m) /\ m.n \in Nat
        /\ m.sem = None => m.user = 0
    BY <1>1, <2>1, <2>2 DEF EofInv, StartsInOrder, StartFresh
  <2> HIDE DEF m, t
  <2>5. /\ t.cb # 0 => t.user = 0 /\ ~t.sync /\ OneSource(t) /\ t.cb = m.n
        /\ t.cb <= m.n
    BY <2>3, <2>4 DEF OneSource
  <2>6. /\ thr'.cb = t.cb /\ thr'.user = t.user /\ (thr'.sync <=> t.sync)
        /\ thr'.file \in {t.file, 0} /\ thr'.memory \in {t.memory, 0}
        /\ thr'.pipe \in {t.pipe, 0}
    BY <2>1, <2>3, SpkrMoves
  <2>7. ThrTells'
    BY <1>1, <2>4, <2>5, <2>6 DEF ThrTells, OneSource
  <2>8. \A i \in DOMAIN q' : q'[i].type = "start" =>
           /\ q'[i].n <= plays /\ OneSource(q'[i]) /\ (q'[i].sem = None => q'[i].user = 0)
           /\ m.n < q'[i].n /\ q'[i].n \in Nat
           /\ \A j \in DOMAIN q' : q'[j].type = "start" /\ i < j => q'[i].n < q'[j].n
           /\ \E j \in DOMAIN q : q'[i] = q[j]
    <3>1. \A i \in DOMAIN q' : q'[i].type = "start" => m.n < q'[i].n
      BY <2>1, PopEof DEF EofInv, m
    <3>2. QED
      BY <1>1, <2>1, <3>1, PopEof DEF EofInv
  <2>9. StartsInOrder'
    <3>1. \A i \in DOMAIN q' : q'[i].type = "start" => StartFresh(i)'
      BY <1>1, <2>4, <2>5, <2>6, <2>8 DEF StartFresh
    <3>2. QED
      BY <2>8, <3>1 DEF StartsInOrder
  <2>10. ASSUME NEW n \in 1 .. MaxPlays, told'[n].eof # 0 PROVE ToldOnce(n)'
    <3>1. told[n].eof # 0 => ToldOnce(n) /\ n # m.n
      BY <2>1, <2>2 DEF EofInv, ToldEnds, ToldOnce
    <3>2. \/ told'[n].eof = told[n].eof
          \/ n = t.cb /\ told'[n].eof = Count(told[n].eof) /\ Silent(thr')
      BY <2>1, <2>3, <2>5, SpkrTells
    <3>3. CASE told'[n].eof = told[n].eof
      BY <1>1, <2>5, <2>6, <2>8, <2>10, <3>1, <3>3 DEF ToldOnce
    <3>4. CASE n = t.cb /\ told'[n].eof = Count(told[n].eof) /\ Silent(thr')
      <4>1. n = m.n /\ told[n].eof = 0 /\ told'[n].eof = 1
        BY <2>5, <3>1, <3>4 DEF Count
      <4>2. QED
        BY <1>1, <2>4, <2>8, <3>4, <4>1 DEF ToldOnce
    <3>5. QED
      BY <3>2, <3>3, <3>4
  <2>11. QED
    BY <2>7, <2>9, <2>10 DEF EofInv, ToldEnds
<1>3. ASSUME q # <<>>, Next0, UNCHANGED told, thr' = thr \/ thr'.cb = 0
      PROVE  EofInv'
  <2>1. \A i \in DOMAIN q' : q'[i].type = "start" =>
           /\ thr.cb < q'[i].n /\ q'[i].n <= plays /\ OneSource(q'[i])
           /\ q'[i].sem = None => q'[i].user = 0
           /\ \A j \in DOMAIN q' : q'[j].type = "start" /\ i < j => q'[i].n < q'[j].n
           /\ \E j \in DOMAIN q : q'[i] = q[j]
    BY <1>3, PopEof DEF EofInv
  <2>2. ThrTells'
    BY <1>1, <1>3 DEF EofInv, ThrTells
  <2>3. \A i \in DOMAIN q' : q'[i].type = "start" => q'[i].n \in Nat
    BY <1>1, <2>1
  <2>4. \A i \in DOMAIN q' : q'[i].type = "start" => StartFresh(i)'
    BY <1>1, <1>3, <2>1, <2>3 DEF StartFresh
  <2>5. ToldEnds'
    BY <1>1, <1>3, <2>1 DEF EofInv, ToldEnds, ToldOnce
  <2>6. QED
    BY <2>1, <2>2, <2>4, <2>5 DEF EofInv, StartsInOrder
<1>4. CASE PlayPause
  BY <1>3, <1>4 DEF PlayPause, Received
<1>5. CASE PlayStop \/ Terminated
  <2>1. thr'.cb = 0
    <3>1. thr \in ThrType /\ (\A p \in ThrType : [p EXCEPT !.hal = 0, !.file = 0, !.memory = 0,
                                              !.user = 0, !.cb = 0, !.pipe = 0].cb = 0)
      BY DEF ThrTypes, ThrType
    <3>2. CASE PlayStop
      BY <3>1, <3>2 DEF PlayStop
    <3>3. CASE Terminated
      BY <3>3 DEF Terminated, NoThr
    <3>4. QED
      BY <1>5, <3>2, <3>3
  <2>2. QED
    BY <1>3, <1>5, <2>1 DEF PlayStop, Terminated, Received
<1>6. CASE Frame
  <2>1. /\ SpkrData(thr, 1, MicRuns) /\ MicRuns \in BOOLEAN /\ UNCHANGED q /\ thr \in ThrType
    BY <1>6, OutcomesAssumption DEF Frame, ThrTypes
  <2>2. /\ thr'.cb = thr.cb /\ thr'.user = thr.user /\ (thr'.sync <=> thr.sync)
        /\ thr'.file \in {thr.file, 0} /\ thr'.memory \in {thr.memory, 0}
        /\ thr'.pipe \in {thr.pipe, 0}
    BY <2>1, SpkrMoves
  <2>3. thr.cb # 0 => thr.user = 0 /\ ~thr.sync /\ OneSource(thr)
    BY DEF EofInv, ThrTells
  <2>4. ThrTells'
    BY <1>1, <2>2 DEF EofInv, ThrTells, OneSource
  <2>5. StartsInOrder'
    BY <1>1, <2>1, <2>2 DEF EofInv, StartsInOrder, StartFresh
  <2>6. ASSUME NEW n \in 1 .. MaxPlays, told'[n].eof # 0 PROVE ToldOnce(n)'
    <3>1. told[n].eof # 0 => ToldOnce(n)
      BY DEF EofInv, ToldEnds
    <3>2. \/ told'[n].eof = told[n].eof
          \/ n = thr.cb /\ ~Silent(thr) /\ told'[n].eof = Count(told[n].eof) /\ Silent(thr')
      BY <2>1, <2>3, SpkrTells
    <3>3. CASE told'[n].eof = told[n].eof
      BY <1>1, <2>1, <2>2, <2>6, <3>1, <3>3 DEF ToldOnce, Silent
    <3>4. CASE n = thr.cb /\ ~Silent(thr) /\ told'[n].eof = Count(told[n].eof) /\ Silent(thr')
      <4>1. told[n].eof = 0 /\ told'[n].eof = 1
        BY <3>1, <3>4 DEF Count, ToldOnce
      <4>2. QED
        BY <1>1, <2>1, <3>4, <4>1 DEF ToldOnce, EofInv, ThrTells, StartsInOrder, StartFresh
    <3>5. QED
      BY <3>2, <3>3, <3>4
  <2>7. QED
    BY <2>4, <2>5, <2>6 DEF EofInv, ToldEnds
<1>7. QED
  BY <1>2, <1>4, <1>5, <1>6 DEF ThreadStep

\* No playback has ended initially.
LEMMA EofInit == ASSUME Init PROVE EofInv
<1>1. thr.cb = 0 /\ plays = 0
  BY DEF Init, NoThr
<1>2. q = <<>> /\ DOMAIN q = {}
  BY DEF Init
<1>3. \A n \in 1 .. MaxPlays : told[n].eof = 0
  BY DEF Init
<1>4. QED
  BY <1>1, <1>2, <1>3 DEF EofInv, ThrTells, StartsInOrder, ToldEnds

\* The callback of a playback hears of its end once (EofOnce), provided that the playbacks
\* from a user's handler are synchronous, that the HAL's write never returns 0 and that
\* nobody stops the HFP bypass: the handler is not forgotten at its end and a 0 is taken
\* for an end, each frame anew.
THEOREM EndsToldOnce ==
    ASSUME \A r \in Plays : r.src = "user" => r.sync, 0 \notin HalWrites, "hfpStop" \notin Ops
    PROVE  Spec => []EofOnce
<1>1. Spec => [](TypeInv /\ SemInv /\ LockInv /\ IdleInv)
  BY IdleAlways
<1>2. Init => UserWaits /\ EofInv
  <2>1. NoCall.src # "user"
    BY DEF NoCall
  <2>2. Init => UserWaits
    BY <2>1 DEF Init, UserWaits
  <2>3. QED
    BY <2>2, EofInit
<1>3. TypeInv /\ IdleInv /\ UserWaits /\ EofInv /\ [Next]_vars => UserWaits' /\ EofInv'
  <2> SUFFICES ASSUME TypeInv, IdleInv, UserWaits, EofInv, [Next]_vars
               PROVE  UserWaits' /\ EofInv'
    OBVIOUS
  <2>1. UserWaits'
    BY UserStep
  <2>2. CASE UNCHANGED vars
    <3>1. /\ q' = q /\ told' = told /\ plays' = plays /\ thr' = thr
      BY <2>2 DEF vars
    <3>2. QED
      BY <2>1, <3>1, EofKept DEF PlainQueue
  <2>3. QED
    BY <2>1, <2>2, ClientStepEof, ThreadStepEof DEF Next
<1>4. EofInv => EofOnce
  BY DEF EofInv, ToldEnds, ToldOnce, EofOnce
<1>5. QED
  BY <1>1, <1>2, <1>3, <1>4, PTL DEF Spec
=============================================================================
