----------------------- MODULE XraudioSessionProofs -----------------------
(***************************************************************************)
(* Proofs about XraudioSession for every set of clients, sources, requests *)
(* and every queue size.                                                   *)
(***************************************************************************)
EXTENDS XraudioSession, TLAPS

-----------------------------------------------------------------------------
(* The operators the actions are built from.                               *)

\* xraudio_input_source_to_group yields an existing group for every source.
LEMMA GroupOfType == \A s : GroupOf(s) \in Groups
BY DEF GroupOf, Groups

\* A message built from a source and a caller is well formed.
LEMMA MessageType ==
    ASSUME NEW type \in MsgTypes, NEW src \in Sources \cup {None},
           NEW sem \in Clients \cup {None}
    PROVE  Message(type, src, sem) \in Msg
BY DEF Message, Msg, Dests, Untils, Indexes

\* Queueing a message, or losing it in a full queue, keeps the queue well formed.
LEMMA PushType ==
    ASSUME QueueTypeOK, NEW m \in Msg, Push(m)
    PROVE  QueueTypeOK'
BY DEF QueueTypeOK, Push

\* The message at the head is well formed and popping it keeps the queue so.
LEMMA PopType ==
    ASSUME QueueTypeOK, NEW t, Handles(t), Pop
    PROVE  /\ Head(q) \in Msg
           /\ Head(q).src \in Sources \cup {None}
           /\ Head(q).sem \in Clients \cup {None}
           /\ Head(q).dests \subseteq Dests
           /\ Head(q).until \in Untils \cup {"none"}
           /\ Head(q).index \in Indexes
           /\ QueueTypeOK'
<1>1. Head(q) \in Msg /\ QueueTypeOK'
  BY DEF QueueTypeOK, Handles, Pop
<1>2. QED
  BY <1>1 DEF Msg

\* A program counter or a finished call keeps the calls well formed.
LEMMA CallStepType ==
    ASSUME ClientTypeOK, NEW c \in Clients
    PROVE  /\ NoCall \in CallType
           /\ Return(c) => call' \in [Clients -> CallType]
           /\ \A pc \in PCs : Goto(c, pc) => call' \in [Clients -> CallType]
           /\ ReleaseApi(c) => api' \in Clients \cup {None}
<1>1. NoCall \in CallType
  BY DEF NoCall, CallType, PCs, AllOps, Dests, Untils, Indexes
<1>2. Return(c) => call' \in [Clients -> CallType]
  BY <1>1 DEF Return, ClientTypeOK
<1>3. \A pc \in PCs : Goto(c, pc) => call' \in [Clients -> CallType]
  BY DEF Goto, ClientTypeOK, CallType
<1>4. ReleaseApi(c) => api' \in Clients \cup {None}
  BY DEF ReleaseApi, ClientTypeOK
<1>5. QED
  BY <1>1, <1>2, <1>3, <1>4

\* Every call a client may make is well formed.
LEMMA CallsType == Calls \subseteq CallType
<1>1. \A o \in Ops : PlainCall(o) \in CallType
  BY OpsAssumption
  DEF PlainCall, NoCall, CallType, PCs, AllOps, Dests, Untils, Indexes
<1>2. \A r \in Requests : RecordCall(r) \in CallType
  BY OpsAssumption
  DEF RecordCall, NoCall, CallType, PCs, AllOps, Dests, Untils, Indexes
<1>3. \A s \in Local, i \in StopIndexes : StopCall(s, i) \in CallType
  BY OpsAssumption
  DEF StopCall, NoCall, CallType, PCs, AllOps, Dests, Untils, Indexes, Sources
<1>4. QED
  BY <1>1, <1>2, <1>3 DEF Calls
-----------------------------------------------------------------------------
(* Type correctness.                                                       *)

\* What a step does not touch keeps its type.
LEMMA FrameType ==
    ASSUME TypeOK
    PROVE  /\ UNCHANGED clientVars => ClientTypeOK'
           /\ UNCHANGED q => QueueTypeOK'
           /\ UNCHANGED threadVars => ThreadTypeOK'
           /\ UNCHANGED <<voiceVars, hal>> => VoiceTypeOK'
BY DEF TypeOK, ClientTypeOK, QueueTypeOK, ThreadTypeOK, VoiceTypeOK,
       clientVars, threadVars, voiceVars

\* The initial state is well typed.
LEMMA TypeInit == Init => TypeOK
<1> SUFFICES ASSUME Init PROVE TypeOK
  OBVIOUS
<1>1. ClientTypeOK
  BY DEF Init, ClientTypeOK, NoCall, CallType, PCs, AllOps, Dests, Untils,
         Indexes, NewSession, States
<1>2. QueueTypeOK
  BY DEF Init, QueueTypeOK
<1>3. ThreadTypeOK
  BY DEF Init, ThreadTypeOK, NewInst, InstType, MicOff, NoExt, Dests, Untils
<1>4. VoiceTypeOK
  BY DEF Init, VoiceTypeOK
<1>5. QED
  BY <1>1, <1>2, <1>3, <1>4 DEF TypeOK

\* The strengthening that makes TypeOK inductive: a recording in progress names
\* the destination that RecordEnter adds to the session.
RecordNamesDest ==
    \A c \in Clients : call[c].op = "record" => call[c].dest \in Dests
TypeInv == TypeOK /\ RecordNamesDest

\* The steps of a client keep the state well typed.
LEMMA ClientStepType ==
    ASSUME TypeOK, RecordNamesDest, NEW c \in Clients, Invoke(c) \/ ClientStep(c)
    PROVE  TypeOK'
<1> USE FrameType, CallStepType, GroupOfType
<1>0. ClientTypeOK /\ QueueTypeOK /\ call[c] \in CallType
  BY DEF TypeOK, ClientTypeOK
<1>1. CASE Invoke(c)
  <2>1. ClientTypeOK'
    BY <1>0, <1>1, CallsType DEF Invoke, ClientTypeOK
  <2>2. QED
    BY <1>1, <2>1 DEF Invoke, TypeOK
<1>2. CASE Open(c)
  <2>1. ClientTypeOK'
    BY <1>0, <1>2 DEF Open, ClientTypeOK, NewSession, States
  <2>2. QueueTypeOK'
    BY <1>2, MessageType DEF Open, QueueTypeOK, MsgTypes
  <2>3. ThreadTypeOK'
    BY <1>2 DEF Open, ThreadTypeOK, NewInst, InstType, MicOff, NoExt, Dests, Untils
  <2>4. VoiceTypeOK'
    BY <1>2 DEF Open, TypeOK, VoiceTypeOK
  <2>5. QED
    BY <2>1, <2>2, <2>3, <2>4 DEF TypeOK
<1>3. CASE ApiRefuse(c)
  <2>1. ClientTypeOK'
    BY <1>0, <1>3 DEF ApiRefuse, ClientTypeOK
  <2>2. QED
    BY <1>3, <2>1 DEF ApiRefuse, TypeOK
<1>4. CASE ApiEnter(c)
  <2>1. ClientTypeOK'
    BY <1>0, <1>4 DEF ApiEnter, ClientTypeOK, PCs
  <2>2. QED
    BY <1>4, <2>1 DEF ApiEnter, TypeOK
<1> DEFINE SessionType == [Groups -> [state : States, dests : SUBSET Dests]]
<1>5. CASE RecordEnter(c)
  <2>1. /\ call[c].src \in Sources /\ call[c].dest \in Dests
        /\ call[c].until \in Untils \cup {"none"} /\ call[c].sync \in BOOLEAN
        /\ session[Group(c)].dests \cup {call[c].dest} \subseteq Dests
    <3>1. call[c].src \in Sources
      BY <1>5 DEF RecordEnter, RecordAllowed, SourceAllowed, Devices, Sources, Local
    <3>2. call[c].dest \in Dests
      BY <1>5 DEF RecordEnter, Enters, RecordNamesDest
    <3>3. QED
      BY <1>0, <3>1, <3>2 DEF ClientTypeOK, CallType, Group
  <2>2. session' \in SessionType
    BY <1>0, <1>5, <2>1 DEF RecordEnter, StartedState, ClientTypeOK, Group, States
  <2>3. QueueTypeOK'
    <3>1. StartMessage(c, session[Group(c)].dests \cup {call[c].dest}) \in Msg
      BY <2>1 DEF StartMessage, Message, Msg, MsgTypes, Indexes
    <3>2. QED
      BY <1>0, <1>5, <3>1, PushType DEF RecordEnter
  <2>4. call' \in [Clients -> CallType]
    BY <1>0, <1>5 DEF RecordEnter, PCs, Waits
  <2>5. ClientTypeOK'
    BY <1>0, <1>5, <2>2, <2>4 DEF RecordEnter, ClientTypeOK, InputUnchanged
  <2>6. QED
    BY <1>5, <2>3, <2>5 DEF RecordEnter, InputUnchanged, TypeOK
<1>6. CASE RecordRefuse(c)
  <2>1. ClientTypeOK'
    BY <1>0, <1>6 DEF RecordRefuse, ClientTypeOK, InputUnchanged
  <2>2. QED
    BY <1>6, <2>1 DEF RecordRefuse, InputUnchanged, TypeOK
<1>7. CASE StreamSetFails(c)
  <2>1. session' \in SessionType
    BY <1>0, <1>7 DEF StreamSetFails, ClientTypeOK, Dests
  <2>2. ClientTypeOK'
    BY <1>0, <1>7, <2>1 DEF StreamSetFails, ClientTypeOK, InputUnchanged
  <2>3. QED
    BY <1>7, <2>2 DEF StreamSetFails, InputUnchanged, TypeOK
<1>8. CASE Detect(c)
  <2>1. session' \in SessionType
    BY <1>0, <1>8 DEF Detect, ClientTypeOK, States
  <2>2. QueueTypeOK'
    <3>1. Message("detect", None, c) \in Msg
      BY MessageType DEF MsgTypes
    <3>2. QED
      BY <1>0, <1>8, <3>1, PushType DEF Detect
  <2>3. ClientTypeOK'
    BY <1>0, <1>8, <2>1 DEF Detect, ClientTypeOK, InputUnchanged, PCs, Waits
  <2>4. QED
    BY <1>8, <2>2, <2>3 DEF Detect, InputUnchanged, TypeOK
<1>9. CASE DetectStop(c)
  <2>1. ClientTypeOK'
    BY <1>0, <1>9 DEF DetectStop, ClientTypeOK, InputUnchanged
  <2>2. QED
    BY <1>9, <2>1 DEF DetectStop, InputUnchanged, TypeOK
<1>10. CASE Stop(c)
  <2>1. QueueTypeOK'
    <3>1. [Message("recordStop", call[c].src, c) EXCEPT !.index = call[c].index]
            \in Msg
      BY <1>0 DEF Message, Msg, MsgTypes, CallType, Dests, Untils
    <3>2. QED
      BY <1>0, <1>10, <3>1, PushType DEF Stop
  <2>2. ClientTypeOK'
    BY <1>0, <1>10 DEF Stop, ClientTypeOK, InputUnchanged, PCs, Waits
  <2>3. QED
    BY <1>10, <2>1, <2>2 DEF Stop, InputUnchanged, TypeOK
<1>11. CASE Close(c)
  <2>1. ClientTypeOK'
    BY <1>0, <1>11 DEF Close, ClientTypeOK, InputUnchanged, PCs
  <2>2. QED
    BY <1>11, <2>1 DEF Close, InputUnchanged, TypeOK
<1>12. CASE CloseStep(c)
  <2> DEFINE active == {g \in Groups : Active(g)}
             src == IF "default" \in active THEN Mic ELSE CHOOSE t \in Taps : TRUE
  <2>1. CASE active # {}
    <3>1. src \in Sources
      BY <2>1 DEF Groups, Sources, Local
    <3>2. Message("recordStop", src, c) \in Msg
      BY <3>1, MessageType DEF MsgTypes
    <3>3. /\ Push(Message("recordStop", src, c))
          /\ call' = [call EXCEPT ![c].pc = "waitStop", ![c].src = src]
      BY <1>12, <2>1 DEF CloseStep
    <3>4. QueueTypeOK'
      BY <1>0, <3>2, <3>3, PushType
    <3>5. ClientTypeOK'
      <4> HIDE DEF active, src
      <4>1. call' \in [Clients -> CallType]
        BY <1>0, <3>1, <3>3 DEF ClientTypeOK, CallType, PCs, Waits
      <4>2. QED
        BY <1>0, <1>12, <4>1 DEF CloseStep, ClientTypeOK, InputUnchanged
    <3>6. QED
      BY <1>12, <3>4, <3>5 DEF CloseStep, InputUnchanged, TypeOK
  <2>2. CASE active = {}
    <3>1. Push(Message("idleStop", None, c)) /\ Goto(c, "waitIdle")
      BY <1>12, <2>2 DEF CloseStep
    <3>2. QueueTypeOK'
      BY <1>0, <3>1, PushType, MessageType DEF MsgTypes
    <3>3. ClientTypeOK'
      BY <1>0, <1>12, <3>1
      DEF CloseStep, ClientTypeOK, InputUnchanged, PCs, Waits
    <3>4. QED
      BY <1>12, <3>2, <3>3 DEF CloseStep, InputUnchanged, TypeOK
  <2>3. QED
    BY <2>1, <2>2
<1>13. CASE DispatchReturn(c)
  <2>1. ClientTypeOK'
    BY <1>0, <1>13 DEF DispatchReturn, Woken, ClientTypeOK, InputUnchanged
  <2>2. QED
    BY <1>13, <2>1 DEF DispatchReturn, InputUnchanged, TypeOK
<1>14. CASE StopReturn(c)
  <2>1. session' \in SessionType
    BY <1>0, <1>14 DEF StopReturn, ClientTypeOK, States
  <2>2. ClientTypeOK'
    BY <1>0, <1>14, <2>1 DEF StopReturn, Woken, ClientTypeOK, InputUnchanged, PCs
  <2>3. QED
    BY <1>14, <2>2 DEF StopReturn, InputUnchanged, TypeOK
<1>15. CASE IdleReturn(c)
  <2>1. session' \in SessionType
    BY <1>0, <1>15 DEF IdleReturn, Closed, ClientTypeOK, States
  <2>2. ClientTypeOK'
    BY <1>0, <1>15, <2>1
    DEF IdleReturn, Woken, ClientTypeOK, InputUnchanged, PCs, Waits
  <2>3. QueueTypeOK'
    BY <1>0, <1>15, PushType, MessageType DEF IdleReturn, MsgTypes
  <2>4. QED
    BY <1>15, <2>2, <2>3 DEF IdleReturn, InputUnchanged, TypeOK
<1>16. CASE TermReturn(c)
  <2>1. ClientTypeOK'
    BY <1>0, <1>16 DEF TermReturn, Woken, ClientTypeOK
  <2>2. QueueTypeOK'
    BY <1>16 DEF TermReturn, QueueTypeOK
  <2>3. VoiceTypeOK'
    BY <1>16 DEF TermReturn, TypeOK, VoiceTypeOK, voiceVars
  <2>4. QED
    BY <1>16, <2>1, <2>2, <2>3 DEF TermReturn, TypeOK
<1>17. QED
  BY <1>1, <1>2, <1>3, <1>4, <1>5, <1>6, <1>7, <1>8, <1>9, <1>10, <1>11, <1>12,
     <1>13, <1>14, <1>15, <1>16 DEF ClientStep

\* A call names its destination from the moment it is made.
LEMMA RecordNamesDestStep ==
    ASSUME TypeInv, [Next]_vars
    PROVE  RecordNamesDest'
<1>1. \A c \in Clients : call[c] \in CallType
  BY DEF TypeInv, TypeOK, ClientTypeOK
<1>2. ASSUME NEW c \in Clients, Invoke(c)
      PROVE  RecordNamesDest'
  <2>1. \A r \in Calls : r.op = "record" => r.dest \in Dests
    <3>1. \A o \in Ops \ {"record"} : PlainCall(o).op # "record"
      BY DEF PlainCall, NoCall
    <3>2. \A r \in Requests : RecordCall(r).dest \in Dests
      BY OpsAssumption DEF RecordCall, NoCall
    <3>3. \A s \in Local, i \in StopIndexes : StopCall(s, i).op # "record"
      BY DEF StopCall, NoCall
    <3>4. QED
      BY <3>1, <3>2, <3>3 DEF Calls
  <2>2. QED
    BY <1>1, <1>2, <2>1 DEF Invoke, TypeInv, TypeOK, ClientTypeOK, RecordNamesDest
<1>3. ASSUME NEW c \in Clients, ClientStep(c)
      PROVE  RecordNamesDest'
  <2>1. \/ UNCHANGED call
        \/ Return(c)
        \/ \E pc \in PCs : Goto(c, pc)
        \/ \E src : call' = [call EXCEPT ![c].pc = "waitStop", ![c].src = src]
    BY <1>3
    DEF ClientStep, Open, ApiRefuse, ApiEnter, RecordEnter, RecordRefuse,
        StreamSetFails, Detect, DetectStop, Stop, Close, CloseStep,
        DispatchReturn, StopReturn, IdleReturn, TermReturn, PCs, Waits
  <2>2. call \in [Clients -> CallType] /\ RecordNamesDest
    BY DEF TypeInv, TypeOK, ClientTypeOK
  <2>3. CASE UNCHANGED call
    BY <2>2, <2>3 DEF RecordNamesDest
  <2>4. CASE Return(c)
    BY <2>2, <2>4 DEF Return, NoCall, RecordNamesDest
  <2>5. ASSUME NEW pc \in PCs, Goto(c, pc)
        PROVE  RecordNamesDest'
    BY <2>2, <2>5 DEF Goto, CallType, RecordNamesDest
  <2>6. ASSUME NEW src, call' = [call EXCEPT ![c].pc = "waitStop", ![c].src = src]
        PROVE  RecordNamesDest'
    BY <2>2, <2>6 DEF CallType, RecordNamesDest
  <2>7. QED
    BY <2>1, <2>3, <2>4, <2>5, <2>6
<1>4. ASSUME MainThread \/ (\E s \in HalSources : Hal(s))
      PROVE  RecordNamesDest'
  <2>1. UNCHANGED call
    BY <1>4
    DEF MainThread, HandleMessage, IdleStart, IdleStop, RecordStart, RecordStop,
        DetectStart, SessionBegin, SessionEnd, InputError, Terminate,
        RecordStopTail, MicReadFails, MicFrame, MicKeyword, TimerIdle,
        ExternalFrame, ExternalEnd, FrameUnchanged, CallersUnchanged,
        Hal, HalRequest, HalBegin, HalEnd, HalError, HalUnchanged, clientVars
  <2>2. QED
    BY <2>1 DEF TypeInv, RecordNamesDest
<1>5. CASE UNCHANGED vars
  BY <1>5 DEF vars, clientVars, TypeInv, RecordNamesDest
<1>6. QED
  BY <1>2, <1>3, <1>4, <1>5 DEF Next

\* A posted semaphore is a client's; the callers' own state is left alone.
LEMMA PostType ==
    ASSUME ClientTypeOK, CallersUnchanged, NEW who \in SUBSET (Clients \cup {None}),
           Post(who) \/ UNCHANGED posted
    PROVE  ClientTypeOK'
BY DEF ClientTypeOK, CallersUnchanged, Post

\* Ending, filling or failing a recording keeps its instance well formed.
LEMMA InstanceType ==
    ASSUME NEW i \in InstType
    PROVE  /\ Released(i) \in InstType /\ MicErrorTold(i) \in InstType
           /\ Done(i) \in InstType /\ Ended(i) \in InstType
           /\ Listening(i) \in InstType
<1>1. Released(i) \in InstType /\ MicErrorTold(i) \in InstType
  BY DEF Released, MicErrorTold, InstType
<1>2. Done(i) \in InstType
  BY DEF Done, MemoryFull, KeywordPassed, InstType
<1>3. Ended(i) \in InstType
  BY DEF Ended, InstType
<1>4. Listening(i) \in InstType
  BY DEF Listening, InstType
<1>5. QED
  BY <1>1, <1>2, <1>3, <1>4

\* Unlocking a group keeps the voice session well typed.
LEMMA UnlockType ==
    ASSUME VoiceTypeOK, NEW g, Unlock(g), UNCHANGED hal
    PROVE  VoiceTypeOK'
BY DEF VoiceTypeOK, Unlock

\* The message handlers keep the state well typed.
LEMMA HandleMessageType ==
    ASSUME TypeOK, HandleMessage
    PROVE  TypeOK'
<1> USE FrameType, GroupOfType
<1>0. /\ ClientTypeOK /\ QueueTypeOK /\ ThreadTypeOK /\ VoiceTypeOK
      /\ "default" \in Groups
  BY DEF TypeOK, Groups
<1>1. CASE IdleStart
  <2>1. ThreadTypeOK'
    BY <1>0, <1>1 DEF IdleStart, ThreadTypeOK, NewInst, InstType, Dests, Untils
  <2>2. QED
    BY <1>0, <1>1, <2>1, PopType, PostType, UnlockType
    DEF IdleStart, TypeOK, CallersUnchanged
<1>2. CASE IdleStop
  <2>1. ThreadTypeOK'
    BY <1>0, <1>2 DEF IdleStop, ThreadTypeOK
  <2>2. Head(q).sem \in Clients \cup {None} /\ QueueTypeOK'
    BY <1>0, <1>2, PopType DEF IdleStop
  <2>3. QED
    BY <1>0, <1>2, <2>1, <2>2, PostType DEF IdleStop, TypeOK, CallersUnchanged
<1>3. CASE RecordStart
  <2>1. PICK m : m = Head(q)
    OBVIOUS
  <2>2. /\ m.src \in Sources \cup {None} /\ m.sem \in Clients \cup {None}
        /\ m.dests \subseteq Dests /\ m.until \in Untils \cup {"none"}
        /\ QueueTypeOK'
    BY <1>0, <1>3, <2>1, PopType DEF RecordStart
  <2>3. [src |-> m.src, dests |-> m.dests, writer |-> Writer(m.dests),
         cb |-> m.sem = None, sync |-> m.sem # None, sem |-> m.sem,
         until |-> m.until] \in InstType
    BY <2>2 DEF InstType, Writer, Dests
  <2>4. inst' \in [Groups -> InstType]
    BY <1>0, <1>3, <2>1, <2>3 DEF RecordStart, ThreadTypeOK
  <2>5. ThreadTypeOK'
    BY <1>0, <1>3, <2>4 DEF RecordStart, ThreadTypeOK, Forget
  <2>6. QED
    BY <1>0, <1>3, <2>2, <2>5, PostType DEF RecordStart, TypeOK, CallersUnchanged
<1>4. CASE RecordStop
  <2>1. Head(q).sem \in Clients \cup {None} /\ QueueTypeOK'
    BY <1>0, <1>4, PopType DEF RecordStop
  <2>2. ThreadTypeOK'
    BY <1>0, <1>4, InstanceType DEF RecordStop, ThreadTypeOK, Forget
  <2>3. QED
    BY <1>0, <1>4, <2>1, <2>2, PostType DEF RecordStop, TypeOK, CallersUnchanged
<1>5. CASE DetectStart
  <2>1. Head(q).sem \in Clients \cup {None} /\ QueueTypeOK'
    BY <1>0, <1>5, PopType DEF DetectStart
  <2>2. inst' \in [Groups -> InstType]
    BY <1>0, <1>5, InstanceType DEF DetectStart, ThreadTypeOK
  <2>3. ThreadTypeOK'
    BY <1>0, <1>5, <2>2 DEF DetectStart, ThreadTypeOK, Forget
  <2>4. QED
    BY <1>0, <1>5, <2>1, <2>3, PostType DEF DetectStart, TypeOK, CallersUnchanged
<1>6. CASE SessionBegin
  <2>1. QueueTypeOK'
    BY <1>0, <1>6, PopType DEF SessionBegin
  <2>2. armed' \in BOOLEAN
    BY <1>0, <1>6 DEF SessionBegin, KeywordEvent, ThreadTypeOK
  <2>3. /\ mic' \in [fd : BOOLEAN, timer : BOOLEAN, recording : BOOLEAN]
        /\ ext' \in [src : Externals \cup {None}, fd : BOOLEAN]
    <3>1. CASE UNCHANGED <<mic, ext>>
      BY <1>0, <3>1 DEF ThreadTypeOK
    <3>2. CASE UNCHANGED ext /\ \E fd \in BOOLEAN : mic' = [mic EXCEPT !.fd = fd]
      BY <1>0, <3>2 DEF ThreadTypeOK
    <3>3. ASSUME UNCHANGED mic, Head(q).src \in Externals, NEW fd \in BOOLEAN,
                 ext' = IF fd THEN [src |-> Head(q).src, fd |-> TRUE] ELSE NoExt
          PROVE  ext' \in [src : Externals \cup {None}, fd : BOOLEAN]
      BY <3>3 DEF NoExt
    <3>4. QED
      BY <1>0, <1>6, <3>1, <3>2, <3>3 DEF SessionBegin, ThreadTypeOK
  <2>5. ThreadTypeOK'
    BY <1>0, <1>6, <2>2, <2>3 DEF SessionBegin, ThreadTypeOK
  <2>6. QED
    BY <1>0, <1>6, <2>1, <2>5, PostType DEF SessionBegin, TypeOK, CallersUnchanged
<1>7. CASE SessionEnd
  BY <1>0, <1>7, PopType, PostType DEF SessionEnd, TypeOK, CallersUnchanged
<1>8. CASE InputError
  <2>1. QueueTypeOK'
    BY <1>0, <1>8, PopType DEF InputError
  <2>2. {inst[g].sem : g \in {x \in Groups : inst[x].sync}}
          \in SUBSET (Clients \cup {None})
    BY <1>0 DEF ThreadTypeOK, InstType
  <2>3. ClientTypeOK'
    BY <1>0, <1>8, <2>2, PostType DEF InputError, MicError
  <2>4. inst' \in [Groups -> InstType]
    BY <1>0, <1>8, InstanceType DEF InputError, MicError, ThreadTypeOK
  <2>5. ThreadTypeOK'
    BY <1>0, <1>8, <2>4 DEF InputError, MicError, ThreadTypeOK
  <2>6. VoiceTypeOK'
    BY <1>0, <1>8 DEF InputError, VoiceTypeOK, CallersUnchanged
  <2>7. QED
    BY <2>1, <2>3, <2>5, <2>6 DEF TypeOK
<1>9. CASE Terminate
  <2>1. Head(q).sem \in Clients \cup {None} /\ QueueTypeOK'
    BY <1>0, <1>9, PopType DEF Terminate
  <2>2. ThreadTypeOK'
    BY <1>0, <1>9 DEF Terminate, ThreadTypeOK
  <2>3. QED
    BY <1>0, <1>9, <2>1, <2>2, PostType DEF Terminate, TypeOK, CallersUnchanged
<1>10. QED
  BY <1>1, <1>2, <1>3, <1>4, <1>5, <1>6, <1>7, <1>8, <1>9 DEF HandleMessage

\* The audio steps and the end of record_stop keep the state well typed.
LEMMA AudioType ==
    ASSUME TypeOK, MainThread, ~HandleMessage
    PROVE  TypeOK'
<1> USE FrameType, GroupOfType
<1>0. /\ ClientTypeOK /\ QueueTypeOK /\ ThreadTypeOK /\ VoiceTypeOK
      /\ "default" \in Groups
  BY DEF TypeOK, Groups
<1>1. CASE RecordStopTail
  <2>1. ThreadTypeOK'
    <3>1. \A i \in InstType : [i EXCEPT !.src = None, !.writer = "none"] \in InstType
      BY DEF InstType
    <3>2. inst' \in [Groups -> InstType]
      BY <1>0, <1>1, <3>1 DEF RecordStopTail, ThreadTypeOK
    <3>3. QED
      BY <1>0, <1>1, <3>2 DEF RecordStopTail, ThreadTypeOK, NoExt
  <2>2. QED
    BY <1>0, <1>1, <2>1, PostType, UnlockType
    DEF RecordStopTail, TypeOK, CallersUnchanged
<1>2. CASE MicReadFails
  <2>1. {inst[g].sem : g \in {x \in Groups : inst[x].sync}}
          \in SUBSET (Clients \cup {None})
    BY <1>0 DEF ThreadTypeOK, InstType
  <2>2. ClientTypeOK'
    BY <1>0, <1>2, <2>1, PostType DEF MicReadFails, MicError, FrameUnchanged
  <2>3. inst' \in [Groups -> InstType]
    BY <1>0, <1>2, InstanceType DEF MicReadFails, MicError, ThreadTypeOK
  <2>4. ThreadTypeOK'
    BY <1>0, <1>2, <2>3 DEF MicReadFails, MicError, FrameUnchanged, ThreadTypeOK
  <2>5. QED
    BY <1>0, <1>2, <2>2, <2>4
    DEF MicReadFails, FrameUnchanged, CallersUnchanged, TypeOK
<1>3. CASE MicFrame
  <2>1. PICK done \in SUBSET Groups, failed \in BOOLEAN, eos \in BOOLEAN :
          LET written == [g \in Groups |->
                             IF g \in done THEN Done(inst[g]) ELSE inst[g]]
              ends == (eos \/ failed) /\ inst["default"].until = "speech"
          IN  /\ mic' = [mic EXCEPT !.recording = TRUE, !.timer = @ /\ ~failed]
              /\ inst' = IF ends THEN [written EXCEPT !["default"] = Ended(@)]
                                ELSE written
              /\ Post(IF ends /\ inst["default"].sync
                      THEN {inst["default"].sem} ELSE {})
    BY <1>3 DEF MicFrame
  <2>2. inst' \in [Groups -> InstType]
    <3>1. \A g \in Groups : Done(inst[g]) \in InstType /\ inst[g] \in InstType
      BY <1>0, InstanceType DEF ThreadTypeOK
    <3>2. QED
      BY <1>0, <2>1, <3>1, InstanceType
  <2>3. ClientTypeOK'
    <3>1. inst["default"].sem \in Clients \cup {None}
      BY <1>0 DEF ThreadTypeOK, InstType
    <3>2. QED
      BY <1>0, <1>3, <2>1, <3>1, PostType DEF MicFrame, FrameUnchanged
  <2>4. mic' \in [fd : BOOLEAN, timer : BOOLEAN, recording : BOOLEAN]
    BY <1>0, <2>1 DEF ThreadTypeOK
  <2>5. ThreadTypeOK'
    BY <1>0, <1>3, <2>2, <2>4 DEF MicFrame, FrameUnchanged, ThreadTypeOK
  <2>6. QED
    BY <1>0, <1>3, <2>3, <2>5 DEF MicFrame, FrameUnchanged, CallersUnchanged, TypeOK
<1>4. CASE MicKeyword
  <2>1. ThreadTypeOK' /\ VoiceTypeOK'
    BY <1>0, <1>4 DEF MicKeyword, FrameUnchanged, CallersUnchanged, ThreadTypeOK,
       VoiceTypeOK, Sources, Local
  <2>2. QED
    BY <1>0, <1>4, <2>1, PostType DEF MicKeyword, FrameUnchanged, TypeOK
<1>5. CASE TimerIdle
  <2>1. ThreadTypeOK'
    BY <1>0, <1>5 DEF TimerIdle, FrameUnchanged, ThreadTypeOK
  <2>2. QED
    BY <1>0, <1>5, <2>1, PostType
    DEF TimerIdle, FrameUnchanged, CallersUnchanged, TypeOK
<1>6. CASE ExternalFrame
  <2>1. ThreadTypeOK'
    BY <1>0, <1>6, InstanceType DEF ExternalFrame, FrameUnchanged, ThreadTypeOK
  <2>2. QED
    BY <1>0, <1>6, <2>1, PostType
    DEF ExternalFrame, FrameUnchanged, CallersUnchanged, TypeOK
<1>7. CASE ExternalEnd
  <2>1. inst["default"] \in InstType /\ inst["default"].sem \in Clients \cup {None}
    BY <1>0 DEF ThreadTypeOK, InstType
  <2>2. \A i \in InstType, u \in {"none", "stream"} :
          [Ended(i) EXCEPT !.until = u] \in InstType
    BY DEF Ended, InstType, Untils
  <2>3. ThreadTypeOK'
    BY <1>0, <1>7, <2>1, <2>2 DEF ExternalEnd, FrameUnchanged, ThreadTypeOK
  <2>4. QED
    BY <1>0, <1>7, <2>1, <2>3, PostType
    DEF ExternalEnd, FrameUnchanged, CallersUnchanged, TypeOK
<1>8. QED
  BY <1>1, <1>2, <1>3, <1>4, <1>5, <1>6, <1>7 DEF MainThread

\* The HAL's messages and grants keep the state well typed.
LEMMA HalType ==
    ASSUME TypeOK, NEW s \in HalSources, Hal(s)
    PROVE  TypeOK'
<1> USE FrameType
<1>0. QueueTypeOK /\ VoiceTypeOK /\ s \in Sources
  BY SourcesAssumption DEF TypeOK
<1>1. ASSUME NEW t \in HalTypes, PushVoice(Message(t, s, None))
      PROVE  QueueTypeOK'
  BY <1>0, <1>1, MessageType, PushType DEF PushVoice, MsgTypes
<1>2. ClientTypeOK' /\ ThreadTypeOK'
  BY DEF Hal, HalRequest, HalBegin, HalEnd, HalError, HalUnchanged
<1>3. QueueTypeOK'
  BY <1>1 DEF Hal, HalRequest, HalBegin, HalEnd, HalError, HalTypes
<1>4. VoiceTypeOK'
  BY <1>0 DEF Hal, HalRequest, HalBegin, HalEnd, HalError, HalUnchanged, VoiceTypeOK
<1>5. QED
  BY <1>2, <1>3, <1>4 DEF TypeOK

\* Every step of the system keeps the strengthened type invariant.
LEMMA TypeStep == TypeInv /\ [Next]_vars => TypeInv'
<1> SUFFICES ASSUME TypeInv, [Next]_vars PROVE TypeInv'
  OBVIOUS
<1>1. TypeOK /\ RecordNamesDest
  BY DEF TypeInv
<1>2. ASSUME NEW c \in Clients, Invoke(c) \/ ClientStep(c) PROVE TypeOK'
  BY <1>1, <1>2, ClientStepType
<1>3. ASSUME MainThread PROVE TypeOK'
  BY <1>1, <1>3, HandleMessageType, AudioType
<1>4. ASSUME NEW s \in HalSources, Hal(s) PROVE TypeOK'
  BY <1>1, <1>4, HalType
<1>5. ASSUME UNCHANGED vars PROVE TypeOK'
  <2>1. UNCHANGED <<clientVars, q, threadVars, voiceVars, hal>>
    BY <1>5 DEF vars
  <2>2. QED
    BY <1>1, <2>1, FrameType DEF TypeOK
<1>6. TypeOK'
  BY <1>2, <1>3, <1>4, <1>5 DEF Next
<1>7. RecordNamesDest'
  BY RecordNamesDestStep
<1>8. QED
  BY <1>6, <1>7 DEF TypeInv

\* The initial state satisfies the strengthened type invariant.
LEMMA TypeInvInit == Init => TypeInv
<1>1. Init => RecordNamesDest
  BY DEF Init, RecordNamesDest, NoCall
<1>2. QED
  BY <1>1, TypeInit DEF TypeInv

\* In every behaviour each variable of the clients, the main thread and the HAL
\* interface keeps its type, and a NULL semaphore is never posted.
THEOREM TypeCorrect == Spec => []TypeOK
<1>1. TypeInv => TypeOK
  BY DEF TypeInv
<1>2. QED
  BY <1>1, TypeInvInit, TypeStep, PTL DEF Spec

-----------------------------------------------------------------------------
(* The detector and the streams.                                           *)

\* A step that neither arms the detector nor adds to what is written to the
\* client keeps them exclusive.
LEMMA DetectorFrame ==
    ASSUME DetectorStreamExclusive,
           armed' => armed,
           inst'["default"].dests \subseteq inst["default"].dests,
           inst'["default"].writer = inst["default"].writer
    PROVE  DetectorStreamExclusive'
BY DEF DetectorStreamExclusive

\* Filling, ending, stopping or failing a recording adds no destination.
LEMMA InstanceShrinks ==
    ASSUME NEW i \in InstType
    PROVE  /\ Done(i).dests \subseteq i.dests /\ Done(i).writer = i.writer
           /\ Ended(i).dests \subseteq i.dests /\ Ended(i).writer = i.writer
           /\ Released(i).dests = {} /\ Released(i).writer = i.writer
           /\ MicErrorTold(i).dests = i.dests /\ MicErrorTold(i).writer = i.writer
           /\ Listening(i).dests = {} /\ Listening(i).writer = "none"
<1>1. Done(i).dests \subseteq i.dests /\ Done(i).writer = i.writer
  BY DEF Done, MemoryFull, KeywordPassed, InstType
<1>2. Ended(i).dests \subseteq i.dests /\ Ended(i).writer = i.writer
  BY DEF Ended, InstType
<1>3. /\ Released(i).dests = {} /\ Released(i).writer = i.writer
      /\ MicErrorTold(i).dests = i.dests /\ MicErrorTold(i).writer = i.writer
      /\ Listening(i).dests = {} /\ Listening(i).writer = "none"
  BY DEF Released, MicErrorTold, Listening, InstType
<1>4. QED
  BY <1>1, <1>2, <1>3

\* The message handlers keep the detector and the streams apart.
LEMMA DetectorHandler ==
    ASSUME ThreadTypeOK, DetectorStreamExclusive, HandleMessage
    PROVE  DetectorStreamExclusive'
<1>0. "default" \in Groups /\ inst["default"] \in InstType
  BY DEF ThreadTypeOK, Groups
<1>1. CASE IdleStart
  BY <1>0, <1>1
  DEF IdleStart, ThreadTypeOK, NewInst, DetectorStreamExclusive
<1>2. CASE RecordStart
  <2>1. CASE Head(q).src \in Taps
    <3>1. inst'["default"] = inst["default"]
      BY <1>0, <1>2, <2>1 DEF RecordStart, GroupOf, ThreadTypeOK
    <3>2. QED
      BY <1>2, <3>1, DetectorFrame DEF RecordStart
  <2>2. CASE Head(q).src \notin Taps
    BY <1>2, <2>2 DEF RecordStart, KeepsDetector, DetectorStreamExclusive
  <2>3. QED
    BY <2>1, <2>2
<1>3. CASE RecordStop
  <2>1. \/ inst'["default"] = inst["default"]
        \/ inst'["default"] = Released(inst["default"])
    BY <1>0, <1>3 DEF RecordStop, ThreadTypeOK
  <2>2. QED
    BY <1>0, <1>3, <2>1, InstanceShrinks, DetectorFrame DEF RecordStop
<1>4. CASE DetectStart
  <2>1. inst'["default"] = Listening(inst["default"])
    BY <1>0, <1>4 DEF DetectStart, ThreadTypeOK
  <2>2. QED
    BY <1>0, <2>1, InstanceShrinks DEF DetectorStreamExclusive
<1>5. CASE InputError
  <2>1. \/ inst'["default"] = inst["default"]
        \/ inst'["default"] = MicErrorTold(inst["default"])
    BY <1>0, <1>5 DEF InputError, MicError
  <2>2. armed' => armed
    BY <1>5 DEF InputError, MicError
  <2>3. QED
    BY <1>0, <2>1, <2>2, InstanceShrinks, DetectorFrame
<1>6. CASE IdleStop \/ SessionBegin \/ SessionEnd \/ Terminate
  <2>1. UNCHANGED inst
    BY <1>6 DEF IdleStop, SessionBegin, SessionEnd, Terminate, threadVars
  <2>2. armed' => armed
    BY <1>6 DEF IdleStop, SessionBegin, KeywordEvent, SessionEnd, Terminate, threadVars
  <2>3. QED
    BY <2>1, <2>2, DetectorFrame
<1>7. QED
  BY <1>1, <1>2, <1>3, <1>4, <1>5, <1>6 DEF HandleMessage

\* The audio steps and the end of record_stop keep them apart.
LEMMA DetectorAudio ==
    ASSUME ThreadTypeOK, DetectorStreamExclusive, MainThread, ~HandleMessage
    PROVE  DetectorStreamExclusive'
<1>0. "default" \in Groups /\ inst["default"] \in InstType
  BY DEF ThreadTypeOK, Groups
<1>1. CASE RecordStopTail
  <2>1. /\ inst'["default"].dests = inst["default"].dests
        /\ inst'["default"].writer \in {inst["default"].writer, "none"}
    BY <1>0, <1>1 DEF RecordStopTail, ThreadTypeOK, InstType
  <2>2. QED
    BY <1>1, <2>1 DEF RecordStopTail, DetectorStreamExclusive
<1>2. CASE MicReadFails
  BY <1>0, <1>2, InstanceShrinks, DetectorFrame DEF MicReadFails, MicError
<1>3. CASE MicFrame
  <2>1. PICK i \in {inst["default"], Done(inst["default"])} :
           inst'["default"] \in {i, Ended(i)}
    BY <1>0, <1>3 DEF MicFrame
  <2>2. i \in InstType
    BY <1>0, InstanceType
  <2>3. /\ i.dests \subseteq inst["default"].dests
        /\ i.writer = inst["default"].writer
    BY <1>0, InstanceShrinks
  <2>4. /\ inst'["default"].dests \subseteq i.dests
        /\ inst'["default"].writer = i.writer
    BY <2>1, <2>2, InstanceShrinks
  <2>5. QED
    BY <1>3, <2>3, <2>4, DetectorFrame DEF MicFrame
<1>4. CASE MicKeyword
  BY <1>4 DEF MicKeyword, DetectorStreamExclusive
<1>5. CASE TimerIdle
  BY <1>5, DetectorFrame DEF TimerIdle
<1>6. CASE ExternalFrame
  <2>1. inst'["default"] = Done(inst["default"])
    BY <1>0, <1>6 DEF ExternalFrame, ThreadTypeOK
  <2>2. QED
    BY <1>0, <1>6, <2>1, InstanceShrinks, DetectorFrame DEF ExternalFrame
<1>7. CASE ExternalEnd
  <2>1. Ended(inst["default"]) \in InstType
    BY <1>0, InstanceType
  <2>2. /\ inst'["default"].dests = Ended(inst["default"]).dests
        /\ inst'["default"].writer = Ended(inst["default"]).writer
    BY <1>0, <1>7, <2>1 DEF ExternalEnd, ThreadTypeOK, InstType
  <2>3. QED
    BY <1>0, <1>7, <2>2, InstanceShrinks, DetectorFrame DEF ExternalEnd
<1>8. QED
  BY <1>1, <1>2, <1>3, <1>4, <1>5, <1>6, <1>7 DEF MainThread

\* No step of the system arms the detector into a stream.
LEMMA DetectorStep ==
    ASSUME TypeOK, DetectorStreamExclusive, [Next]_vars
    PROVE  DetectorStreamExclusive'
<1>0. ThreadTypeOK
  BY DEF TypeOK
<1>1. ASSUME UNCHANGED threadVars PROVE DetectorStreamExclusive'
  BY <1>1 DEF threadVars, DetectorStreamExclusive
<1>2. ASSUME NEW c \in Clients, Invoke(c) \/ ClientStep(c)
      PROVE  DetectorStreamExclusive'
  <2>1. CASE Open(c)
    BY <2>1 DEF Open, DetectorStreamExclusive
  <2>2. CASE ~Open(c)
    BY <1>1, <1>2, <2>2
    DEF ClientStep, Invoke, ApiRefuse, ApiEnter, RecordEnter, RecordRefuse,
        StreamSetFails, Detect, DetectStop, Stop, Close, CloseStep,
        DispatchReturn, StopReturn, IdleReturn, TermReturn, InputUnchanged
  <2>3. QED
    BY <2>1, <2>2
<1>3. ASSUME MainThread PROVE DetectorStreamExclusive'
  BY <1>0, <1>3, DetectorHandler, DetectorAudio
<1>4. ASSUME NEW s \in HalSources, Hal(s) PROVE DetectorStreamExclusive'
  BY <1>1, <1>4 DEF Hal, HalRequest, HalBegin, HalEnd, HalError, HalUnchanged
<1>5. ASSUME UNCHANGED vars PROVE DetectorStreamExclusive'
  BY <1>1, <1>5 DEF vars
<1>6. QED
  BY <1>2, <1>3, <1>4, <1>5 DEF Next

\* No keyword callback in the middle of a stream: while the detector is armed
\* (xraudio_keyword_detector_session_arm) the default group writes to no client.
THEOREM DetectorExclusive == Spec => []DetectorStreamExclusive
<1>1. Init => DetectorStreamExclusive
  BY DEF Init, DetectorStreamExclusive
<1>2. TypeOK /\ DetectorStreamExclusive /\ [Next]_vars => DetectorStreamExclusive'
  BY DetectorStep
<1>3. QED
  BY <1>1, <1>2, TypeCorrect, PTL DEF Spec

-----------------------------------------------------------------------------
(***************************************************************************)
(* Closing xraudio strands nobody: a client that waits for the main thread *)
(* either has a running thread or has been woken already, for every number *)
(* of clients, every set of requests and every queue size.                 *)
(*                                                                         *)
(* The argument follows the two mutexes.  A client that waits for anything *)
(* but the end of the thread holds the record mutex; the closing client    *)
(* holds the API mutex from its first step to its last, and once it waits  *)
(* for the end of the thread the record mutex is free and every session is *)
(* "created", a state in which no call queues a message.                   *)
(***************************************************************************)

(* The inductive invariant.                                                *)

RecOwned ==
    \A c \in Clients :
       call[c].pc \in {"waitRecord", "waitStop", "waitDetect", "waitIdle", "closing"}
          => rec = c
CloseOwnsApi ==
    \A c \in Clients :
       /\ call[c].op = "close" /\ call[c].pc \notin {"out", "api"} => api = c
       /\ call[c].pc \in {"closing", "waitIdle", "waitTerm"} => call[c].op = "close"
       /\ call[c].pc = "waitStop" => call[c].op \in {"stop", "close"}
AllCreated == rec = None /\ \A g \in Groups : session[g].state = "created"
TermQuiet == \A c \in Clients : call[c].pc = "waitTerm" => opened /\ AllCreated
ClosedQuiet ==
    ~opened => /\ AllCreated
               /\ \A c \in Clients : ~(call[c].op = "close" /\ call[c].pc = "rec")
TerminateWaited ==
    \A i \in DOMAIN q : q[i].type = "terminate" =>
       \E c \in Clients : q[i].sem = c /\ call[c].pc = "waitTerm"
ThreadDown ==
    ~thread /\ opened => \E c \in Clients : call[c].pc = "waitTerm" /\ c \in posted
CloseInv == /\ RecOwned /\ CloseOwnsApi /\ TermQuiet /\ ClosedQuiet
            /\ TerminateWaited /\ ThreadDown /\ NoWaiterOnDeadThread

-----------------------------------------------------------------------------
(* The main thread and the HAL.                                            *)

\* The main thread and the HAL change nothing of the calls, and take no post back.
LEMMA SystemFrame ==
    ASSUME MainThread \/ \E s \in HalSources : Hal(s)
    PROVE  UNCHANGED <<call, api, rec, opened, session>> /\ posted \subseteq posted'
<1>1. CASE HandleMessage
  BY <1>1
  DEF HandleMessage, IdleStart, IdleStop, RecordStart, RecordStop, DetectStart,
      SessionBegin, SessionEnd, InputError, MicError, Terminate, Post,
      CallersUnchanged
<1>2. CASE MainThread /\ ~HandleMessage
  BY <1>2
  DEF MainThread, RecordStopTail, MicReadFails, MicError, MicFrame, MicKeyword,
      TimerIdle, ExternalFrame, ExternalEnd, Post, FrameUnchanged, CallersUnchanged
<1>3. CASE \E s \in HalSources : Hal(s)
  BY <1>3 DEF Hal, HalRequest, HalBegin, HalEnd, HalError, HalUnchanged, clientVars
<1>4. QED
  BY <1>1, <1>2, <1>3

\* No message to terminate is queued by a step that pushes another message, or
\* takes one, while the clients that wait for the end of the thread go on waiting.
LEMMA TerminateFrame ==
    ASSUME QueueTypeOK, TerminateWaited,
           \/ UNCHANGED q
           \/ q # <<>> /\ Pop
           \/ \E m : m.type # "terminate" /\ Push(m),
           \A c \in Clients : call[c].pc = "waitTerm" => call'[c].pc = "waitTerm"
    PROVE  TerminateWaited'
<1>1. CASE UNCHANGED q
  BY <1>1 DEF TerminateWaited
<1>2. CASE q # <<>> /\ Pop
  BY <1>2 DEF TerminateWaited, Pop, QueueTypeOK
<1>3. ASSUME NEW m, m.type # "terminate", Push(m)
      PROVE  TerminateWaited'
  BY <1>3 DEF TerminateWaited, Push, QueueTypeOK
<1>4. QED
  BY <1>1, <1>2, <1>3

\* The main thread takes a message or leaves the queue; the HAL queues its own.
LEMMA SystemQueue ==
    ASSUME TypeOK, MainThread \/ \E s \in HalSources : Hal(s)
    PROVE  \/ UNCHANGED q
           \/ q # <<>> /\ Pop
           \/ \E m : m.type # "terminate" /\ Push(m)
<1>1. CASE HandleMessage
  BY <1>1
  DEF HandleMessage, IdleStart, IdleStop, RecordStart, RecordStop, DetectStart,
      SessionBegin, SessionEnd, InputError, Terminate, Handles
<1>2. CASE MainThread /\ ~HandleMessage
  BY <1>2
  DEF MainThread, RecordStopTail, MicReadFails, MicFrame, MicKeyword, TimerIdle,
      ExternalFrame, ExternalEnd, FrameUnchanged
<1>3. ASSUME NEW s \in HalSources, Hal(s)
      PROVE  UNCHANGED q \/ \E m : m.type # "terminate" /\ Push(m)
  <2>1. UNCHANGED q \/ \E t \in HalTypes : PushVoice(Message(t, s, None))
    BY <1>3 DEF Hal, HalRequest, HalBegin, HalEnd, HalError, HalTypes
  <2>2. \A t \in HalTypes : Message(t, s, None).type # "terminate"
    BY DEF HalTypes, Message
  <2>3. QED
    BY <2>1, <2>2 DEF PushVoice
<1>4. QED
  BY <1>1, <1>2, <1>3

\* The thread stops only by serving the message of a client that waits for it,
\* when that client is the only one that waits.
LEMMA CloseSystemStep ==
    ASSUME TypeOK, CloseInv, MainThread \/ \E s \in HalSources : Hal(s)
    PROVE  CloseInv'
<1> USE SystemFrame
<1>1. RecOwned' /\ CloseOwnsApi' /\ TermQuiet' /\ ClosedQuiet'
  BY DEF CloseInv, RecOwned, CloseOwnsApi, TermQuiet, ClosedQuiet, AllCreated
<1>2. TerminateWaited'
  BY SystemQueue, TerminateFrame DEF CloseInv, TypeOK
<1>3. ThreadDown' /\ NoWaiterOnDeadThread'
  <2>1. CASE UNCHANGED thread
    BY <2>1 DEF CloseInv, ThreadDown, NoWaiterOnDeadThread
  <2>2. CASE Terminate
    <3>1. PICK c \in Clients : Head(q).sem = c /\ call[c].pc = "waitTerm"
      BY <2>2 DEF Terminate, Handles, CloseInv, TerminateWaited, TypeOK, QueueTypeOK
    <3>2. c \in posted'
      BY <2>2, <3>1, SourcesAssumption DEF Terminate, Post
    <3>3. ASSUME NEW d \in Clients, call[d].pc \in Waits PROVE d = c
      <4>1. rec = None /\ api = c
        BY <3>1 DEF CloseInv, TermQuiet, AllCreated, CloseOwnsApi
      <4>2. call[d].pc = "waitTerm"
        BY <3>3, <4>1, SourcesAssumption DEF CloseInv, RecOwned, Waits
      <4>3. QED
        BY <4>1, <4>2 DEF CloseInv, CloseOwnsApi
    <3>4. QED
      BY <3>1, <3>2, <3>3 DEF ThreadDown, NoWaiterOnDeadThread
  <2>3. UNCHANGED thread \/ Terminate
    BY DEF MainThread, HandleMessage, IdleStart, IdleStop, RecordStart, RecordStop,
       DetectStart, SessionBegin, SessionEnd, InputError, RecordStopTail,
       MicReadFails, MicFrame, MicKeyword, TimerIdle, ExternalFrame, ExternalEnd,
       FrameUnchanged, Hal, HalRequest, HalBegin, HalEnd, HalError, HalUnchanged,
       threadVars
  <2>4. QED
    BY <2>1, <2>2, <2>3
<1>4. QED
  BY <1>1, <1>2, <1>3 DEF CloseInv

-----------------------------------------------------------------------------
(* The clients.                                                            *)

\* Who holds the record mutex, or closes, has a running thread to talk to, and
\* nobody waits for the end of that thread.
LEMMA ThreadServes ==
    ASSUME TypeOK, CloseInv, NEW c \in Clients,
           \/ call[c].pc \in {"waitRecord", "waitStop", "waitDetect", "waitIdle",
                              "closing"}
           \/ call[c].op = "close" /\ call[c].pc = "rec"
           \/ \E g \in Groups : session[g].state # "created"
    PROVE  /\ thread /\ opened
           /\ \A d \in Clients : call[d].pc # "waitTerm"
<1>1. \A d \in Clients : call[d].pc # "waitTerm"
  <2>1. CASE call[c].op = "close" /\ call[c].pc = "rec"
    BY <2>1 DEF CloseInv, CloseOwnsApi
  <2>2. CASE ~(call[c].op = "close" /\ call[c].pc = "rec")
    BY <2>2, SourcesAssumption DEF CloseInv, RecOwned, TermQuiet, AllCreated
  <2>3. QED
    BY <2>1, <2>2
<1>2. opened
  BY SourcesAssumption DEF CloseInv, RecOwned, ClosedQuiet, AllCreated
<1>3. QED
  BY <1>1, <1>2 DEF CloseInv, ThreadDown

\* A step by which a client neither starts to wait nor takes a mutex or a post.
LEMMA PassingStep ==
    ASSUME TypeOK, CloseInv, NEW c \in Clients,
           ReleaseApi(c), Return(c),
           call[c].pc \notin Waits \cup {"closing"},
           UNCHANGED <<rec, posted, opened, thread>>,
           \A g \in Groups : session'[g].state = session[g].state,
           TerminateWaited'
    PROVE  CloseInv'
<1>1. /\ call'[c].pc = "out" /\ call'[c].op = "none"
      /\ \A d \in Clients \ {c} : call'[d] = call[d]
  BY DEF TypeOK, ClientTypeOK, Return, NoCall
<1>2. RecOwned' /\ TermQuiet' /\ ClosedQuiet' /\ ThreadDown' /\ NoWaiterOnDeadThread'
  BY <1>1
  DEF CloseInv, RecOwned, TermQuiet, ClosedQuiet, AllCreated, ThreadDown,
      NoWaiterOnDeadThread, Waits
<1>3. CloseOwnsApi'
  BY <1>1 DEF CloseInv, CloseOwnsApi, ReleaseApi
<1>4. QED
  BY <1>2, <1>3 DEF CloseInv

\* A step by which a client that holds the record mutex, or takes it free,
\* starts to wait or goes on closing.
LEMMA HoldingStep ==
    ASSUME TypeOK, CloseInv, NEW c \in Clients, thread, opened,
           rec \in {None, c}, rec' = c,
           \A d \in Clients : call[d].pc # "waitTerm",
           \A d \in Clients \ {c} : call'[d] = call[d],
           call'[c].op = call[c].op,
           call'[c].op = "close" => api = c,
           call'[c].pc \in {"waitRecord", "waitStop", "waitDetect", "waitIdle",
                            "closing"},
           call'[c].pc \in {"waitIdle", "closing"} => call[c].op = "close",
           call'[c].pc = "waitStop" => call[c].op \in {"stop", "close"},
           UNCHANGED <<api, opened, thread>>,
           TerminateWaited'
    PROVE  CloseInv'
<1>1. RecOwned'
  BY SourcesAssumption DEF CloseInv, RecOwned
<1>2. CloseOwnsApi'
  BY DEF CloseInv, CloseOwnsApi
<1>3. TermQuiet' /\ ClosedQuiet' /\ ThreadDown' /\ NoWaiterOnDeadThread'
  BY DEF TermQuiet, ClosedQuiet, ThreadDown, NoWaiterOnDeadThread
<1>4. QED
  BY <1>1, <1>2, <1>3 DEF CloseInv

\* A client's steps other than the last two of a close queue no terminate
\* message, and they leave the clients that wait for one waiting.
LEMMA ClientQueue ==
    ASSUME TypeOK, RecordNamesDest, CloseInv, NEW c \in Clients,
           Invoke(c) \/ (ClientStep(c) /\ ~IdleReturn(c) /\ ~TermReturn(c))
    PROVE  TerminateWaited'
<1> USE DEF TypeOK
<1>1. \A d \in Clients \ {c} : call'[d] = call[d]
  BY DEF ClientTypeOK, ClientStep, Invoke, Open, ApiRefuse, ApiEnter, RecordEnter,
     RecordRefuse, StreamSetFails, Detect, DetectStop, Stop, Close, CloseStep,
     DispatchReturn, StopReturn, Return, Goto
<1>2. call[c].pc # "waitTerm"
  BY DEF ClientStep, Invoke, Open, ApiRefuse, ApiEnter, RecordEnter,
     RecordRefuse, StreamSetFails, Detect, DetectStop, Stop, Close, CloseStep,
     DispatchReturn, StopReturn, Enters, At, Woken
<1>3. CASE Open(c)
  BY <1>3 DEF Open, TerminateWaited, Message
<1>4. CASE UNCHANGED q
  BY <1>1, <1>2, <1>4, TerminateFrame DEF CloseInv
<1>5. ASSUME ~Open(c), ~UNCHANGED q
      PROVE  \E m : m.type # "terminate" /\ Push(m)
  BY <1>5 DEF ClientStep, Invoke, ApiRefuse, ApiEnter, RecordEnter, RecordRefuse,
     StreamSetFails, Detect, DetectStop, Stop, Close, CloseStep, DispatchReturn,
     StopReturn, StartMessage, Message
<1>6. CASE ~Open(c) /\ ~UNCHANGED q
  BY <1>1, <1>2, <1>5, <1>6, TerminateFrame DEF CloseInv
<1>7. QED
  BY <1>3, <1>4, <1>6

\* Every step of a client keeps the invariant.
LEMMA CloseClientStep ==
    ASSUME TypeInv, CloseInv, NEW c \in Clients, Invoke(c) \/ ClientStep(c)
    PROVE  CloseInv'
<1>0. TypeOK /\ RecordNamesDest /\ call \in [Clients -> CallType]
  BY DEF TypeInv, TypeOK, ClientTypeOK
<1>1. CASE Invoke(c)
  <2>1. \A r \in Calls : r.pc = "api"
    <3>1. /\ \A o : PlainCall(o).pc = "api"
          /\ \A r : RecordCall(r).pc = "api"
          /\ \A s, i : StopCall(s, i).pc = "api"
      BY DEF PlainCall, RecordCall, StopCall, NoCall
    <3>2. QED
      BY <3>1 DEF Calls
  <2>2. /\ call'[c].pc = "api"
        /\ \A d \in Clients \ {c} : call'[d] = call[d]
    BY <1>0, <1>1, <2>1 DEF Invoke
  <2>3. TerminateWaited'
    BY <1>0, <1>1, ClientQueue
  <2>4. QED
    BY <1>1, <2>2, <2>3
    DEF Invoke, At, threadVars, CloseInv, RecOwned, CloseOwnsApi, TermQuiet,
        ClosedQuiet, AllCreated, ThreadDown, NoWaiterOnDeadThread, Waits
<1>2. CASE Open(c)
  <2>1. /\ call'[c].pc = "out" /\ call'[c].op = "none"
        /\ \A d \in Clients \ {c} : call'[d] = call[d]
    BY <1>0, <1>2 DEF Open, Return, NoCall
  <2>2. TerminateWaited'
    BY <1>0, <1>2, ClientQueue DEF ClientStep, IdleReturn, TermReturn, Open, At, Woken
  <2>3. QED
    BY <1>2, <2>1, <2>2
    DEF Open, At, CloseInv, RecOwned, CloseOwnsApi, TermQuiet, ClosedQuiet,
        AllCreated, ThreadDown, NoWaiterOnDeadThread
<1>3. CASE ApiRefuse(c)
  <2>1. TerminateWaited'
    BY <1>0, <1>3, ClientQueue
    DEF ClientStep, IdleReturn, TermReturn, ApiRefuse, At, Woken
  <2>2. ReleaseApi(c)
    BY <1>3, SourcesAssumption DEF ApiRefuse, ReleaseApi
  <2>3. QED
    BY <1>0, <1>3, <2>1, <2>2, PassingStep DEF ApiRefuse, At, Waits, threadVars
<1>4. CASE ApiEnter(c)
  <2>1. TerminateWaited'
    BY <1>0, <1>4, ClientQueue
    DEF ClientStep, IdleReturn, TermReturn, ApiEnter, At, Woken
  <2>2. /\ call'[c].pc = "rec" /\ call'[c].op = call[c].op
        /\ \A d \in Clients \ {c} : call'[d] = call[d]
    BY <1>0, <1>4 DEF ApiEnter, Goto, CallType
  <2>3. CloseOwnsApi'
    BY <1>4, <2>2, SourcesAssumption DEF ApiEnter, CloseInv, CloseOwnsApi
  <2>4. QED
    BY <1>4, <2>1, <2>2, <2>3
    DEF ApiEnter, At, threadVars, CloseInv, RecOwned, TermQuiet, ClosedQuiet,
        AllCreated, ThreadDown, NoWaiterOnDeadThread, Waits
<1>5. CASE RecordRefuse(c) \/ DetectStop(c) \/ StreamSetFails(c)
  <2>1. TerminateWaited'
    BY <1>0, <1>5, ClientQueue
    DEF ClientStep, IdleReturn, TermReturn, RecordRefuse, DetectStop,
        StreamSetFails, Enters, At, Woken
  <2>2. \A g \in Groups : session'[g].state = session[g].state
    BY <1>0, <1>5
    DEF RecordRefuse, DetectStop, StreamSetFails, TypeOK, ClientTypeOK
  <2>3. QED
    BY <1>0, <1>5, <2>1, <2>2, PassingStep
    DEF RecordRefuse, DetectStop, StreamSetFails, Enters, At, Waits,
        InputUnchanged, threadVars
<1>6. CASE RecordEnter(c)
  <2>1. TerminateWaited'
    BY <1>0, <1>6, ClientQueue
    DEF ClientStep, IdleReturn, TermReturn, RecordEnter, Enters, At, Woken
  <2>2. /\ Group(c) \in Groups /\ session[Group(c)].state # "created"
        /\ call[c].op = "record" /\ call[c].pc = "rec" /\ rec = None
    BY <1>6, GroupOfType DEF RecordEnter, RecordAllowed, Group, Enters, At
  <2>3. thread /\ opened /\ \A d \in Clients : call[d].pc # "waitTerm"
    BY <1>0, <2>2, ThreadServes
  <2>4. CASE call[c].sync
    <3>1. /\ call'[c].pc = "waitRecord" /\ call'[c].op = "record"
          /\ \A d \in Clients \ {c} : call'[d] = call[d]
      BY <1>0, <1>6, <2>2, <2>4 DEF RecordEnter, Goto, CallType
    <3>2. QED
      BY <1>0, <1>6, <2>1, <2>2, <2>3, <2>4, <3>1, HoldingStep
      DEF RecordEnter, InputUnchanged, threadVars
  <2>5. CASE ~call[c].sync
    <3>1. /\ call'[c].pc = "out" /\ call'[c].op = "none"
          /\ \A d \in Clients \ {c} : call'[d] = call[d]
      BY <1>0, <1>6, <2>5 DEF RecordEnter, Return, NoCall
    <3>2. ReleaseApi(c) /\ UNCHANGED <<rec, posted, opened, thread>>
      BY <1>6, <2>5 DEF RecordEnter, InputUnchanged, threadVars
    <3>3. QED
      BY <2>1, <2>3, <3>1, <3>2
      DEF CloseInv, RecOwned, CloseOwnsApi, ReleaseApi, TermQuiet, ClosedQuiet,
          ThreadDown, NoWaiterOnDeadThread
  <2>6. QED
    BY <2>4, <2>5
<1>7. CASE Detect(c) \/ Stop(c)
  <2>1. TerminateWaited'
    BY <1>0, <1>7, ClientQueue
    DEF ClientStep, IdleReturn, TermReturn, Detect, Stop, Enters, At, Woken
  <2>2. CASE Return(c)
    <3>1. call'[c].pc = "out"
      BY <1>0, <2>2 DEF Return, NoCall
    <3>2. /\ ReleaseApi(c) /\ UNCHANGED <<rec, session>>
      BY <1>0, <1>7, <3>1 DEF Detect, Stop, Goto, CallType
    <3>3. QED
      BY <1>0, <1>7, <2>1, <2>2, <3>2, PassingStep
      DEF Detect, Stop, Enters, At, Waits, InputUnchanged, threadVars
  <2>3. CASE ~Return(c)
    <3>1. \E g \in Groups : session[g].state # "created"
      BY <1>7, <2>3, GroupOfType DEF Detect, Stop, Group, Groups
    <3>2. thread /\ opened /\ \A d \in Clients : call[d].pc # "waitTerm"
      BY <1>0, <3>1, ThreadServes
    <3>3. /\ call'[c].pc \in {"waitDetect", "waitStop"}
          /\ call'[c].pc = "waitStop" => call[c].op = "stop"
          /\ call'[c].op = call[c].op /\ call[c].op # "close"
          /\ \A d \in Clients \ {c} : call'[d] = call[d]
      BY <1>0, <1>7, <2>3 DEF Detect, Stop, Goto, Enters, CallType
    <3>4. rec = None /\ rec' = c /\ UNCHANGED <<api, opened, thread>>
      BY <1>7, <2>3 DEF Detect, Stop, Enters, InputUnchanged, threadVars
    <3>5. QED
      BY <1>0, <2>1, <3>2, <3>3, <3>4, HoldingStep
  <2>4. QED
    BY <2>2, <2>3
<1>8. CASE Close(c) \/ CloseStep(c)
  <2>1. TerminateWaited'
    BY <1>0, <1>8, ClientQueue
    DEF ClientStep, IdleReturn, TermReturn, Close, CloseStep, Enters, At, Woken
  <2>2. call[c].op = "close" /\ api = c /\ call[c].pc \in {"rec", "closing"}
    BY <1>8 DEF Close, CloseStep, Enters, At, CloseInv, CloseOwnsApi
  <2>3. thread /\ opened /\ \A d \in Clients : call[d].pc # "waitTerm"
    BY <1>0, <2>2, ThreadServes
  <2>4. /\ call'[c].pc \in {"waitStop", "waitIdle", "closing"}
        /\ call'[c].op = call[c].op
        /\ \A d \in Clients \ {c} : call'[d] = call[d]
    BY <1>0, <1>8 DEF Close, CloseStep, Goto, CallType
  <2>5. rec \in {None, c} /\ rec' = c /\ UNCHANGED <<api, opened, thread>>
    BY <1>8
    DEF Close, CloseStep, Enters, At, InputUnchanged, threadVars, CloseInv, RecOwned
  <2>6. QED
    BY <1>0, <2>1, <2>2, <2>3, <2>4, <2>5, HoldingStep
<1>9. CASE DispatchReturn(c) \/ (StopReturn(c) /\ call[c].op = "stop")
  <2>1. TerminateWaited'
    BY <1>0, <1>9, ClientQueue
    DEF ClientStep, IdleReturn, TermReturn, DispatchReturn, StopReturn, At, Woken
  <2>2. call[c].pc \in {"waitRecord", "waitDetect", "waitStop"} /\ rec = c
    BY <1>9 DEF DispatchReturn, StopReturn, Woken, At, CloseInv, RecOwned
  <2>3. thread /\ opened /\ \A d \in Clients : call[d].pc # "waitTerm"
    BY <1>0, <2>2, ThreadServes
  <2>4. /\ call'[c].pc = "out" /\ call'[c].op = "none"
        /\ \A d \in Clients \ {c} : call'[d] = call[d]
    BY <1>0, <1>9 DEF DispatchReturn, StopReturn, Return, NoCall
  <2>5. ReleaseApi(c) /\ UNCHANGED <<opened, thread>>
    BY <1>9 DEF DispatchReturn, StopReturn, InputUnchanged, threadVars
  <2>6. QED
    BY <2>1, <2>2, <2>3, <2>4, <2>5
    DEF CloseInv, RecOwned, CloseOwnsApi, ReleaseApi, TermQuiet, ClosedQuiet,
        ThreadDown, NoWaiterOnDeadThread
<1>10. CASE StopReturn(c) /\ call[c].op # "stop"
  <2>1. TerminateWaited'
    BY <1>0, <1>10, ClientQueue
    DEF ClientStep, IdleReturn, TermReturn, StopReturn, At, Woken
  <2>2. call[c].pc = "waitStop" /\ rec = c /\ call[c].op = "close" /\ api = c
    BY <1>10 DEF StopReturn, Woken, At, CloseInv, RecOwned, CloseOwnsApi
  <2>3. thread /\ opened /\ \A d \in Clients : call[d].pc # "waitTerm"
    BY <1>0, <2>2, ThreadServes
  <2>4. /\ call'[c].pc = "closing" /\ call'[c].op = call[c].op
        /\ \A d \in Clients \ {c} : call'[d] = call[d]
    BY <1>0, <1>10 DEF StopReturn, Goto, CallType
  <2>5. UNCHANGED <<rec, api, opened, thread>>
    BY <1>10 DEF StopReturn, InputUnchanged, threadVars
  <2>6. QED
    BY <1>0, <2>1, <2>2, <2>3, <2>4, <2>5, HoldingStep
<1>11. CASE IdleReturn(c)
  <2>1. call[c].pc = "waitIdle" /\ rec = c /\ call[c].op = "close" /\ api = c
    BY <1>11 DEF IdleReturn, Woken, At, CloseInv, RecOwned, CloseOwnsApi
  <2>2. thread /\ opened /\ \A d \in Clients : call[d].pc # "waitTerm"
    BY <1>0, <2>1, ThreadServes
  <2>3. /\ call'[c].pc = "waitTerm" /\ call'[c].op = "close"
        /\ \A d \in Clients \ {c} : call'[d] = call[d]
    BY <1>0, <1>11, <2>1 DEF IdleReturn, Goto, CallType
  <2>4. AllCreated' /\ UNCHANGED <<api, opened, thread>>
    BY <1>0, <1>11
    DEF IdleReturn, Closed, AllCreated, InputUnchanged, threadVars, TypeOK, ClientTypeOK
  <2>5. TerminateWaited'
    <3>1. Push(Message("terminate", None, c)) /\ q \in Seq(Msg)
      BY <1>0, <1>11 DEF IdleReturn, TypeOK, QueueTypeOK
    <3>2. Message("terminate", None, c).sem = c
      BY DEF Message
    <3>3. \A i \in DOMAIN q : q[i].type # "terminate"
      BY <2>2 DEF CloseInv, TerminateWaited
    <3>4. QED
      BY <2>3, <3>1, <3>2, <3>3 DEF TerminateWaited, Push
  <2>6. QED
    BY <2>1, <2>2, <2>3, <2>4, <2>5
    DEF CloseInv, RecOwned, CloseOwnsApi, TermQuiet, ClosedQuiet, ThreadDown,
        NoWaiterOnDeadThread
<1>12. CASE TermReturn(c)
  <2>1. call[c].pc = "waitTerm" /\ api = c /\ AllCreated
    BY <1>12 DEF TermReturn, Woken, At, CloseInv, CloseOwnsApi, TermQuiet
  <2>2. /\ call'[c].pc = "out" /\ call'[c].op = "none"
        /\ \A d \in Clients \ {c} : call'[d] = call[d]
    BY <1>0, <1>12 DEF TermReturn, Return, NoCall
  <2>3. /\ ReleaseApi(c) /\ UNCHANGED <<rec, session, thread>> /\ opened' = FALSE
        /\ posted' = posted \ {c} /\ q' = <<>>
    BY <1>12 DEF TermReturn, Woken, threadVars
  <2>4. \A d \in Clients \ {c} : call[d].op # "close" \/ call[d].pc \in {"out", "api"}
    BY <2>1 DEF CloseInv, CloseOwnsApi
  <2>5. RecOwned' /\ CloseOwnsApi'
    BY <2>1, <2>2, <2>3, <2>4 DEF CloseInv, RecOwned, CloseOwnsApi
  <2>6. TermQuiet' /\ ClosedQuiet' /\ ThreadDown'
    <3>1. \A d \in Clients : call'[d].pc # "waitTerm"
      BY <2>2, <2>4 DEF CloseInv, CloseOwnsApi
    <3>2. \A d \in Clients : ~(call'[d].op = "close" /\ call'[d].pc = "rec")
      BY <2>2, <2>4
    <3>3. QED
      BY <2>1, <2>3, <3>1, <3>2 DEF TermQuiet, ClosedQuiet, AllCreated, ThreadDown
  <2>7. TerminateWaited'
    BY <2>3 DEF TerminateWaited
  <2>8. NoWaiterOnDeadThread'
    BY <2>2, <2>3 DEF CloseInv, NoWaiterOnDeadThread, Waits
  <2>9. QED
    BY <2>5, <2>6, <2>7, <2>8 DEF CloseInv
<1>13. QED
  BY <1>1, <1>2, <1>3, <1>4, <1>5, <1>6, <1>7, <1>8, <1>9, <1>10, <1>11, <1>12
  DEF ClientStep

-----------------------------------------------------------------------------
(* The theorem.                                                            *)

\* The initial state satisfies the invariant.
LEMMA CloseInit == Init => CloseInv
BY DEF Init, CloseInv, RecOwned, CloseOwnsApi, AllCreated, TermQuiet, ClosedQuiet,
   TerminateWaited, ThreadDown, NoWaiterOnDeadThread, NoCall, NewSession, Waits

\* Every step of the system keeps it.
LEMMA CloseStepInv ==
    ASSUME TypeInv, CloseInv, [Next]_vars
    PROVE  CloseInv'
<1>1. ASSUME NEW c \in Clients, Invoke(c) \/ ClientStep(c) PROVE CloseInv'
  BY <1>1, CloseClientStep
<1>2. ASSUME MainThread \/ \E s \in HalSources : Hal(s) PROVE CloseInv'
  BY <1>2, CloseSystemStep DEF TypeInv
<1>3. ASSUME UNCHANGED vars PROVE CloseInv'
  BY <1>3
  DEF vars, clientVars, threadVars, CloseInv, RecOwned, CloseOwnsApi, AllCreated,
      TermQuiet, ClosedQuiet, TerminateWaited, ThreadDown, NoWaiterOnDeadThread
<1>4. QED
  BY <1>1, <1>2, <1>3 DEF Next

\* Nobody waits for a main thread that has terminated: a synchronous recording,
\* which gives the API mutex back before it starts, cannot slip in between the
\* last steps of xraudio_close.
THEOREM CloseStrandsNobody == Spec => []NoWaiterOnDeadThread
<1>1. Init => TypeInv /\ CloseInv
  BY TypeInvInit, CloseInit
<1>2. TypeInv /\ CloseInv /\ [Next]_vars => TypeInv' /\ CloseInv'
  BY TypeStep, CloseStepInv
<1>3. CloseInv => NoWaiterOnDeadThread
  BY DEF CloseInv
<1>4. QED
  BY <1>1, <1>2, <1>3, PTL DEF Spec
=============================================================================
