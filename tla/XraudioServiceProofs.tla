------------------------ MODULE XraudioServiceProofs ------------------------
(***************************************************************************)
(* Proofs that every call that waits is woken exactly once, that the       *)
(* clients cannot fill the queue, and that the clients, the queue, the     *)
(* main thread and the HAL together implement the recording service of     *)
(* XraudioRecording, for every number of clients, whatever they ask for.   *)
(*                                                                         *)
(* The argument follows the one semaphore that is in use.  At most one     *)
(* client waits at a time (OneBlocked); its semaphore goes from the last   *)
(* message that is not of the HAL to a recording instance, or at once, to  *)
(* the posted ones, and as long as it waits no client queues another       *)
(* message.  So when a stop is answered no start is queued any more.       *)
(***************************************************************************)
EXTENDS XraudioSessionProofs, XraudioSessionImplements, FiniteSetTheorems

-----------------------------------------------------------------------------
(* The inductive invariant.                                                *)

Blocked(c) == call[c].pc \in Waits
Busy(g) == session[g].state \notin {"created", "idling", "pending"}
OnlyHal == \A i \in DOMAIN q : q[i].type \in HalTypes
NoSems == \A g \in Groups : inst[g].sem = None
IsStart(i, g) == q[i].type = "recordStart" /\ GroupOf(q[i].src) = g

\* The queue: a message that carries a semaphore is the last of the clients', a
\* group has one start, the idle start is the first message of all.
QueueShape ==
    /\ \A i, j \in DOMAIN q : q[i].sem # None /\ i < j => q[j].type \in HalTypes
    /\ \A i \in DOMAIN q :
          /\ q[i].type \in HalTypes => q[i].sem = None
          /\ q[i].type = "idleStart" => i = 1 /\ q[i].sem = None
          /\ q[i].type \in {"recordStop", "detect", "idleStop", "terminate"} => q[i].sem # None
    /\ \A i, j \in DOMAIN q : \A g \in Groups : IsStart(i, g) /\ IsStart(j, g) => i = j

\* What a client waits for is what its message asks for.
Asks(m, k) ==
    \/ m.type = "recordStart" /\ k.pc = "waitRecord"
    \/ m.type = "recordStop" /\ k.pc = "waitStop" /\ GroupOf(m.src) = GroupOf(k.src)
    \/ m.type = "detect" /\ k.pc = "waitDetect"
    \/ m.type = "idleStop" /\ k.pc = "waitIdle"
    \/ m.type = "terminate" /\ k.pc = "waitTerm"
QueueOwned ==
    \A i \in DOMAIN q : q[i].sem # None =>
       Asks(q[i], call[q[i].sem]) /\ q[i].sem \notin posted /\ NoSems
StartsBusy == \A i \in DOMAIN q : \A g \in Groups : IsStart(i, g) => Busy(g)

\* A semaphore in a recording instance, and one that has been posted.
InstanceOwned ==
    \A g \in Groups : inst[g].sem # None =>
       /\ call[inst[g].sem].pc = "waitRecord" /\ inst[g].sem \notin posted
       /\ inst[g].sync /\ OnlyHal
       /\ \A h \in Groups : inst[h].sem # None => h = g
Held0(g) == inst[g].dests = {} /\ ~inst[g].cb
PostedOwned ==
    \A c \in posted :
       /\ Blocked(c) /\ OnlyHal /\ NoSems
       /\ call[c].pc = "waitStop" => Held0(Group(c))

\* Only a busy group holds something of a client; a close has stopped them all
\* before it has the microphone stopped.
HeldWhileBusy == \A g \in Groups : ~Busy(g) => Held0(g)
IdleQuiet == \A c \in Clients : call[c].pc = "waitIdle" => \A g \in Groups : ~Busy(g)

SemInv == /\ QueueShape /\ QueueOwned /\ StartsBusy /\ InstanceOwned
          /\ PostedOwned /\ HeldWhileBusy /\ IdleQuiet

\* With room in the queue: what of the HAL is queued is bounded, and nobody's
\* semaphore gets lost.
HalIndexes == {i \in DOMAIN q : q[i].type \in HalTypes}
HalBounded == Cardinality(HalIndexes) <= HalBacklog
NoneLost ==
    \A c \in Clients : Blocked(c) =>
       \/ c \in posted
       \/ \E i \in DOMAIN q : q[i].sem = c
       \/ \E g \in Groups : inst[g].sem = c

-----------------------------------------------------------------------------
(* The queue and the one client that waits.                                *)

\* Where the messages are after a push and after a pop.
LEMMA PushIndexes ==
    ASSUME QueueTypeOK, NEW m \in Msg, Push(m)
    PROVE  /\ \A i \in DOMAIN q : i \in DOMAIN q' /\ q'[i] = q[i]
           /\ \A i \in DOMAIN q' : i \in DOMAIN q \/ (i = Len(q) + 1 /\ q'[i] = m)
           /\ DOMAIN q = 1 .. Len(q) /\ Len(q) \in Nat
           /\ Len(q) < QMax => Len(q) + 1 \in DOMAIN q' /\ q'[Len(q) + 1] = m
BY DEF QueueTypeOK, Push

\* The messages that stay move up by one.
LEMMA PopIndexes ==
    ASSUME QueueTypeOK, q # <<>>, Pop
    PROVE  /\ \A i \in DOMAIN q' : i + 1 \in DOMAIN q /\ q'[i] = q[i + 1] /\ i \in Nat \ {0}
           /\ \A i \in DOMAIN q : i # 1 => i - 1 \in DOMAIN q' /\ q'[i - 1] = q[i]
           /\ 1 \in DOMAIN q /\ q[1] = Head(q)
           /\ DOMAIN q \subseteq Nat \ {0} /\ DOMAIN q' \subseteq Nat \ {0}
BY DEF QueueTypeOK, Pop

\* A message in the queue is well formed.
LEMMA MessageInQueue ==
    ASSUME QueueTypeOK, NEW i \in DOMAIN q
    PROVE  /\ q[i] \in Msg /\ q[i].sem \in Clients \cup {None} /\ q[i].type \in MsgTypes
           /\ i \in Nat \ {0}
<1>1. q[i] \in Msg /\ i \in Nat \ {0}
  BY DEF QueueTypeOK
<1>2. QED
  BY <1>1 DEF Msg

\* The clients wait one at a time: all but the one that waits for the end of the
\* main thread hold the record mutex, and that one needs it free.
LEMMA OneBlocked ==
    ASSUME TypeOK, CloseInv, NEW c \in Clients, NEW d \in Clients,
           Blocked(c), Blocked(d)
    PROVE  c = d
<1>1. CASE call[c].pc = "waitTerm" \/ call[d].pc = "waitTerm"
  <2>1. rec = None
    BY <1>1 DEF CloseInv, TermQuiet, AllCreated
  <2>2. call[c].pc = "waitTerm" /\ call[d].pc = "waitTerm"
    BY <2>1, SourcesAssumption DEF CloseInv, RecOwned, Blocked, Waits
  <2>3. QED
    BY <2>2 DEF CloseInv, CloseOwnsApi
<1>2. CASE call[c].pc # "waitTerm" /\ call[d].pc # "waitTerm"
  BY <1>2 DEF CloseInv, RecOwned, Blocked, Waits
<1>3. QED
  BY <1>1, <1>2

\* When nobody waits, no semaphore is about.
LEMMA NobodyWaits ==
    ASSUME TypeOK, SemInv, \A d \in Clients : ~Blocked(d)
    PROVE  posted = {} /\ NoSems /\ \A i \in DOMAIN q : q[i].sem = None
<1>1. posted = {}
  BY DEF SemInv, PostedOwned, TypeOK, ClientTypeOK
<1>2. NoSems
  BY DEF SemInv, InstanceOwned, NoSems, Blocked, Waits, TypeOK, ThreadTypeOK, InstType
<1>3. \A i \in DOMAIN q : q[i].sem = None
  BY MessageInQueue DEF SemInv, QueueOwned, Asks, Blocked, Waits, TypeOK
<1>4. QED
  BY <1>1, <1>2, <1>3

-----------------------------------------------------------------------------
(* The steps of a client.                                                  *)

\* A client that is in the API, or moves in it, and queues nothing.
Quietly(c) ==
    /\ UNCHANGED <<q, inst, posted>>
    /\ ~Blocked(c) /\ ~Blocked(c)'
    /\ \A d \in Clients \ {c} : call'[d] = call[d]
    /\ \A g \in Groups : Busy(g)' = Busy(g)

\* A client that queues the message of a recording, detection, stop or close.
Pushes(c, m) ==
    /\ Push(m) /\ UNCHANGED <<inst, posted>>
    /\ \A d \in Clients : ~Blocked(d)
    /\ \A d \in Clients \ {c} : call'[d] = call[d]
    /\ m \in Msg /\ m.type \notin HalTypes \cup {"idleStart"}
    /\ m.type # "recordStart" => m.sem = c
    /\ m.sem = c => Asks(m, call'[c]) /\ Blocked(c)'
    /\ m.sem # c => m.sem = None /\ ~Blocked(c)'
    /\ call'[c].pc = "waitIdle" => \A g \in Groups : ~Busy(g)'
    /\ \A g \in Groups :
          IF m.type = "recordStart" /\ GroupOf(m.src) = g
          THEN ~Busy(g) /\ Busy(g)'
          ELSE Busy(g)' = Busy(g)

\* A client that returns from its semaphore.
Returns(c) ==
    /\ UNCHANGED inst
    /\ c \in posted /\ posted' = posted \ {c}
    /\ \A d \in Clients \ {c} : call'[d] = call[d]
    /\ \A g \in Groups : Busy(g)' => Busy(g)
    /\ \A g \in Groups : Busy(g) /\ ~Busy(g)' => call[c].pc = "waitStop" /\ g = Group(c)

\* A client step that queues nothing and waits for nothing new.
LEMMA QuietKeeps ==
    ASSUME TypeOK, SemInv, NEW c \in Clients, Quietly(c)
    PROVE  SemInv'
<1>1. \A d \in Clients : Blocked(d) => d # c /\ call'[d] = call[d]
  BY DEF Quietly
<1>2. QueueShape' /\ StartsBusy' /\ HeldWhileBusy'
  BY DEF SemInv, Quietly, QueueShape, IsStart, StartsBusy, HeldWhileBusy, Held0
<1>3. QueueOwned'
  BY <1>1, MessageInQueue
  DEF SemInv, QueueOwned, Asks, Blocked, Waits, Quietly, NoSems, TypeOK
<1>4. InstanceOwned'
  BY <1>1
  DEF SemInv, InstanceOwned, OnlyHal, Blocked, Waits, Quietly, TypeOK, ThreadTypeOK,
      InstType
<1>5. PostedOwned'
  BY <1>1
  DEF SemInv, PostedOwned, Blocked, Group, Held0, OnlyHal, NoSems, Quietly, TypeOK,
      ClientTypeOK
<1>6. IdleQuiet'
  BY DEF SemInv, IdleQuiet, Blocked, Waits, Quietly
<1>7. QED
  BY <1>2, <1>3, <1>4, <1>5, <1>6 DEF SemInv

\* A client step that queues a message and waits for its semaphore.
LEMMA PushKeeps ==
    ASSUME TypeOK, SemInv, NEW c \in Clients, NEW m, Pushes(c, m)
    PROVE  SemInv'
<1>1. posted = {} /\ NoSems /\ \A i \in DOMAIN q : q[i].sem = None
  BY NobodyWaits DEF Pushes
<1>2. /\ \A i \in DOMAIN q : q'[i] = q[i] /\ i \in DOMAIN q'
      /\ \A i \in DOMAIN q' : i \in DOMAIN q \/ (i = Len(q) + 1 /\ q'[i] = m)
      /\ DOMAIN q = 1 .. Len(q) /\ Len(q) \in Nat
  BY PushIndexes DEF Pushes, TypeOK
<1>3. \A d \in Clients : Blocked(d)' => d = c
  BY DEF Pushes, Blocked
<1>4. \A i \in DOMAIN q : \A g \in Groups : IsStart(i, g) => Busy(g) /\ Busy(g)'
  BY DEF SemInv, StartsBusy, Pushes
<1>5. \A i \in DOMAIN q' : \A g \in Groups :
         IsStart(i, g)' => \/ i \in DOMAIN q /\ IsStart(i, g)
                           \/ i = Len(q) + 1 /\ m.type = "recordStart" /\ GroupOf(m.src) = g
  BY <1>2 DEF IsStart
<1>6. QueueShape'
  <2>1. ASSUME NEW i \in DOMAIN q', NEW j \in DOMAIN q', q'[i].sem # None, i < j
        PROVE  q'[j].type \in HalTypes
    BY <1>1, <1>2, <2>1
  <2>2. ASSUME NEW i \in DOMAIN q'
        PROVE  /\ q'[i].type \in HalTypes => q'[i].sem = None
               /\ q'[i].type = "idleStart" => i = 1 /\ q'[i].sem = None
               /\ q'[i].type \in {"recordStop", "detect", "idleStop", "terminate"}
                     => q'[i].sem # None
    <3>1. CASE i \in DOMAIN q
      BY <1>1, <1>2, <3>1 DEF SemInv, QueueShape
    <3>2. CASE i = Len(q) + 1 /\ q'[i] = m
      BY <3>2, SourcesAssumption DEF Pushes
    <3>3. QED
      BY <1>2, <3>1, <3>2
  <2>3. ASSUME NEW i \in DOMAIN q', NEW j \in DOMAIN q', NEW g \in Groups,
               IsStart(i, g)', IsStart(j, g)'
        PROVE  i = j
    <3>1. CASE i \in DOMAIN q /\ j \in DOMAIN q
      BY <1>2, <2>3, <3>1 DEF IsStart, SemInv, QueueShape
    <3>2. CASE i \notin DOMAIN q \/ j \notin DOMAIN q
      <4>1. m.type = "recordStart" /\ GroupOf(m.src) = g
        BY <1>5, <2>3, <3>2
      <4>2. \A k \in DOMAIN q : ~IsStart(k, g)
        BY <1>4, <4>1 DEF Pushes
      <4>3. QED
        BY <1>5, <2>3, <4>2
    <3>3. QED
      BY <3>1, <3>2
  <2>4. QED
    BY <2>1, <2>2, <2>3 DEF QueueShape, IsStart
<1>7. QueueOwned'
  <2>1. \A i \in DOMAIN q' : q'[i].sem # None => q'[i] = m /\ m.sem = c
    BY <1>1, <1>2 DEF Pushes
  <2>2. posted' = {} /\ NoSems'
    BY <1>1 DEF Pushes, NoSems
  <2>3. QED
    BY <2>1, <2>2 DEF QueueOwned, Asks, Pushes
<1>8. StartsBusy'
  BY <1>4, <1>5 DEF StartsBusy, IsStart, Pushes
<1>9. InstanceOwned' /\ PostedOwned'
  BY <1>1 DEF InstanceOwned, PostedOwned, NoSems, Pushes
<1>10. HeldWhileBusy'
  BY DEF SemInv, HeldWhileBusy, Held0, Pushes
<1>11. IdleQuiet'
  BY <1>3 DEF IdleQuiet, Blocked, Waits, Pushes
<1>12. QED
  BY <1>6, <1>7, <1>8, <1>9, <1>10, <1>11 DEF SemInv

\* A client that has been posted returns.
LEMMA ReturnKeeps ==
    ASSUME TypeOK, CloseInv, SemInv, NEW c \in Clients, Returns(c), ~Blocked(c)',
           UNCHANGED q \/ q' = <<>>
    PROVE  /\ SemInv'
           /\ posted = {c} /\ posted' = {} /\ OnlyHal /\ NoSems
<1>1. Blocked(c) /\ OnlyHal /\ NoSems /\ (call[c].pc = "waitStop" => Held0(Group(c)))
  BY DEF SemInv, PostedOwned, Returns
<1>2. posted = {c} /\ posted' = {}
  BY <1>1, OneBlocked DEF SemInv, PostedOwned, Returns, TypeOK, ClientTypeOK
<1>3. \A d \in Clients : ~Blocked(d)'
  BY <1>1, OneBlocked DEF Returns, Blocked
<1>4. /\ DOMAIN q' \subseteq DOMAIN q
      /\ \A i \in DOMAIN q' : q'[i] = q[i] /\ q[i].type \in HalTypes /\ q[i].sem = None
  BY <1>1 DEF OnlyHal, SemInv, QueueShape
<1>5. QueueShape' /\ QueueOwned' /\ StartsBusy'
  <2>1. \A i \in DOMAIN q' : q'[i].type \in HalTypes /\ q'[i].sem = None
    BY <1>4
  <2>2. QED
    BY <2>1 DEF QueueShape, QueueOwned, StartsBusy, IsStart, HalTypes
<1>6. InstanceOwned' /\ PostedOwned'
  BY <1>1, <1>2 DEF InstanceOwned, PostedOwned, NoSems, Returns
<1>7. HeldWhileBusy'
  BY <1>1 DEF SemInv, HeldWhileBusy, Held0, Returns
<1>8. IdleQuiet'
  BY <1>3 DEF IdleQuiet, Blocked, Waits
<1>9. QED
  BY <1>1, <1>2, <1>5, <1>6, <1>7, <1>8 DEF SemInv

\* The close goes on to end the main thread.
LEMMA IdleReturnKeeps ==
    ASSUME TypeOK, CloseInv, SemInv, NEW c \in Clients, IdleReturn(c)
    PROVE  /\ SemInv'
           /\ posted = {c} /\ posted' = {} /\ OnlyHal /\ NoSems
<1> DEFINE m == Message("terminate", None, c)
<1>1. /\ call[c].pc = "waitIdle" /\ c \in posted /\ posted' = posted \ {c}
      /\ Push(m) /\ UNCHANGED inst
      /\ call'[c].pc = "waitTerm" /\ \A d \in Clients \ {c} : call'[d] = call[d]
      /\ \A g \in Groups : session'[g].state = "created"
  BY DEF IdleReturn, Woken, At, Goto, Closed, TypeOK, ClientTypeOK, CallType,
     InputUnchanged, threadVars
<1>2. Blocked(c) /\ OnlyHal /\ NoSems
  BY <1>1 DEF SemInv, PostedOwned
<1>3. posted = {c} /\ posted' = {}
  BY <1>1, <1>2, OneBlocked DEF SemInv, PostedOwned, TypeOK, ClientTypeOK
<1>4. m \in Msg /\ m.type = "terminate" /\ m.sem = c
  BY MessageType DEF Message, MsgTypes
<1>5. \A i \in DOMAIN q' :
         \/ q'[i].type \in HalTypes /\ q'[i].sem = None /\ i \in DOMAIN q
         \/ i = Len(q) + 1 /\ q'[i] = m
  BY <1>1, <1>2, <1>4, PushIndexes DEF OnlyHal, SemInv, QueueShape, TypeOK
<1>6. DOMAIN q = 1 .. Len(q) /\ Len(q) \in Nat
  BY DEF TypeOK, QueueTypeOK
<1> HIDE DEF m
<1>7. QueueShape'
  BY <1>4, <1>5, <1>6, SourcesAssumption DEF QueueShape, IsStart, HalTypes
<1>8. QueueOwned'
  BY <1>1, <1>2, <1>3, <1>4, <1>5 DEF QueueOwned, Asks, NoSems
<1>9. StartsBusy'
  BY <1>4, <1>5 DEF StartsBusy, IsStart, HalTypes
<1>10. InstanceOwned' /\ PostedOwned'
  BY <1>1, <1>2, <1>3 DEF InstanceOwned, PostedOwned, NoSems
<1>11. HeldWhileBusy'
  BY <1>1 DEF SemInv, HeldWhileBusy, IdleQuiet, Held0
<1>12. IdleQuiet'
  BY <1>1 DEF IdleQuiet, Busy
<1>13. QED
  BY <1>2, <1>3, <1>7, <1>8, <1>9, <1>10, <1>11, <1>12 DEF SemInv

\* A new object has a new queue and new recording instances.
LEMMA OpenKeeps ==
    ASSUME TypeOK, CloseInv, SemInv, NEW c \in Clients, Open(c)
    PROVE  /\ SemInv'
           /\ \A g \in Groups : Held0(g) /\ ~Busy(g) /\ \A i \in DOMAIN q : ~IsStart(i, g)
           /\ \A d \in Clients : ~Blocked(d) /\ call[d].pc # "closing"
<1>1. /\ \A d \in Clients : ~Blocked(d) /\ call[d].pc # "closing"
      /\ \A g \in Groups : ~Busy(g)
  BY SourcesAssumption
  DEF Open, CloseInv, ClosedQuiet, AllCreated, RecOwned, TermQuiet, Blocked, Waits, Busy
<1>2. posted = {} /\ posted' = {}
  BY <1>1, NobodyWaits DEF Open
<1>3. /\ q' = <<Message("idleStart", None, None)>>
      /\ inst' = [g \in Groups |-> NewInst]
      /\ \A d \in Clients : ~Blocked(d)'
      /\ \A g \in Groups : ~Busy(g)'
  BY <1>1
  DEF Open, Return, NoCall, Blocked, Waits, Busy, NewSession, TypeOK, ClientTypeOK
<1>4. \A i \in DOMAIN q' : i = 1 /\ q'[i].type = "idleStart" /\ q'[i].sem = None
  BY <1>3 DEF Message
<1>5. QueueShape' /\ QueueOwned' /\ StartsBusy'
  BY <1>4 DEF QueueShape, QueueOwned, StartsBusy, IsStart, HalTypes
<1>6. InstanceOwned' /\ PostedOwned' /\ HeldWhileBusy'
  BY <1>2, <1>3 DEF InstanceOwned, PostedOwned, HeldWhileBusy, Held0, NewInst
<1>7. IdleQuiet'
  BY <1>3 DEF IdleQuiet
<1>8. QED
  BY <1>1, <1>5, <1>6, <1>7 DEF SemInv, HeldWhileBusy, StartsBusy

\* Every step of a client is of one of these kinds.
LEMMA QuietSteps ==
    ASSUME TypeOK, NEW c \in Clients,
           \/ Invoke(c) \/ ApiRefuse(c) \/ ApiEnter(c) \/ RecordRefuse(c)
           \/ StreamSetFails(c) \/ DetectStop(c) \/ Close(c)
           \/ (Detect(c) \/ Stop(c)) /\ Return(c)
    PROVE  Quietly(c)
<1>1. call \in [Clients -> CallType] /\ NoCall.pc = "out"
  BY DEF TypeOK, ClientTypeOK, NoCall
<1>2. CASE Invoke(c)
  <2>1. /\ \A o : PlainCall(o).pc = "api"
        /\ \A r : RecordCall(r).pc = "api"
        /\ \A s, i : StopCall(s, i).pc = "api"
    BY DEF PlainCall, RecordCall, StopCall, NoCall
  <2>2. \A r \in Calls : r.pc = "api"
    BY <2>1 DEF Calls
  <2>3. call'[c].pc = "api" /\ \A d \in Clients \ {c} : call'[d] = call[d]
    BY <1>1, <1>2, <2>2 DEF Invoke
  <2>4. QED
    BY <1>2, <2>3 DEF Invoke, Quietly, Blocked, Busy, At, Waits, threadVars
<1>3. CASE ~Invoke(c)
  <2>1. /\ call'[c].pc \notin Waits /\ \A d \in Clients \ {c} : call'[d] = call[d]
    BY <1>1, <1>3
    DEF ApiRefuse, ApiEnter, RecordRefuse, StreamSetFails, DetectStop, Close, Return,
        Goto, Waits, CallType
  <2>2. call[c].pc \notin Waits
    BY <1>3
    DEF ApiRefuse, ApiEnter, RecordRefuse, StreamSetFails, DetectStop, Close, Detect,
        Stop, Enters, At, Waits
  <2>3. \A g \in Groups : session'[g].state = session[g].state
    <3>1. CASE StreamSetFails(c)
      BY <3>1 DEF StreamSetFails, TypeOK, ClientTypeOK
    <3>2. CASE (Detect(c) \/ Stop(c)) /\ Return(c)
      BY <1>1, <3>2 DEF Detect, Stop, Goto, Return, CallType
    <3>3. QED
      BY <1>3, <3>1, <3>2 DEF ApiRefuse, ApiEnter, RecordRefuse, DetectStop, Close
  <2>4. UNCHANGED <<q, inst, posted>>
    <3>1. CASE (Detect(c) \/ Stop(c)) /\ Return(c)
      BY <1>1, <3>1
      DEF Detect, Stop, Goto, Return, CallType, InputUnchanged, threadVars
    <3>2. QED
      BY <1>3, <3>1
      DEF ApiRefuse, ApiEnter, RecordRefuse, StreamSetFails, DetectStop, Close,
          InputUnchanged, threadVars
  <2>5. QED
    BY <2>1, <2>2, <2>3, <2>4 DEF Quietly, Blocked, Busy
<1>4. QED
  BY <1>2, <1>3

\* Who may queue a message knows that nobody waits: it holds the record mutex or
\* finds it free, with a session that is not closed.
LEMMA PusherAlone ==
    ASSUME TypeOK, CloseInv, NEW c \in Clients,
           \/ call[c].pc = "closing"
           \/ rec = None /\ \E g \in Groups : session[g].state # "created"
    PROVE  \A d \in Clients : ~Blocked(d)
<1>1. \A d \in Clients : call[d].pc # "waitTerm"
  BY ThreadServes
<1>2. rec = None \/ (rec = c /\ call[c].pc = "closing")
  BY DEF CloseInv, RecOwned
<1>3. QED
  BY <1>1, <1>2, SourcesAssumption DEF CloseInv, RecOwned, Blocked, Waits

Started(c) == StartMessage(c, session[Group(c)].dests \cup {call[c].dest})
\* A recording that is entered queues its start and waits for it.
LEMMA RecordPushes ==
    ASSUME TypeInv, CloseInv, NEW c \in Clients, RecordEnter(c)
    PROVE  /\ Pushes(c, Started(c))
           /\ Started(c).type = "recordStart" /\ GroupOf(Started(c).src) = Group(c)
           /\ Started(c).sem = IF call[c].sync THEN c ELSE None
           /\ Started(c).dests # {} /\ Started(c).dests \subseteq Dests
<1>1. call \in [Clients -> CallType] /\ NoCall.pc = "out" /\ Group(c) \in Groups
  BY GroupOfType DEF TypeInv, TypeOK, ClientTypeOK, NoCall, Group
<1>2. /\ call[c].src \in Sources /\ call[c].dest \in Dests
      /\ call[c].until \in Untils \cup {"none"} /\ call[c].sync \in BOOLEAN
      /\ session[Group(c)].dests \cup {call[c].dest} \subseteq Dests
  <2>1. call[c].src \in Sources
    BY DEF RecordEnter, RecordAllowed, SourceAllowed, Devices, Sources, Local
  <2>2. call[c].dest \in Dests
    BY DEF RecordEnter, Enters, TypeInv, RecordNamesDest
  <2>3. QED
    BY <1>1, <2>1, <2>2 DEF TypeInv, TypeOK, ClientTypeOK, CallType
<1>3. /\ Started(c) \in Msg /\ Started(c).type = "recordStart"
      /\ Started(c).src = call[c].src /\ Started(c).sem = IF call[c].sync THEN c ELSE None
      /\ Started(c).dests = session[Group(c)].dests \cup {call[c].dest}
  BY <1>2 DEF Started, StartMessage, Message, Msg, MsgTypes, Indexes
<1>4. Push(Started(c)) /\ UNCHANGED <<inst, posted>>
  BY DEF RecordEnter, Started, InputUnchanged, threadVars
<1>5. \A d \in Clients : ~Blocked(d)
  BY <1>1, PusherAlone DEF RecordEnter, RecordAllowed, Enters, TypeInv
<1>6. /\ \A d \in Clients \ {c} : call'[d] = call[d]
      /\ call'[c].pc = IF call[c].sync THEN "waitRecord" ELSE "out"
  BY <1>1 DEF RecordEnter, Goto, Return, CallType
<1>7. \A g \in Groups : IF g = Group(c) THEN ~Busy(g) /\ Busy(g)'
                                        ELSE Busy(g)' = Busy(g)
  BY <1>1 DEF RecordEnter, RecordAllowed, StartedState, Busy, TypeInv, TypeOK, ClientTypeOK
<1>8. Pushes(c, Started(c))
  BY <1>2, <1>3, <1>4, <1>5, <1>6, <1>7, SourcesAssumption
  DEF Pushes, HalTypes, Asks, Blocked, Waits, Group
<1>9. QED
  BY <1>2, <1>3, <1>8 DEF Group

\* A detect call queues its message and waits for it.
LEMMA DetectPushes ==
    ASSUME TypeOK, CloseInv, NEW c \in Clients, Detect(c), ~Return(c)
    PROVE  /\ Pushes(c, Message("detect", None, c))
           /\ call'[c].pc = "waitDetect" /\ call'[c].op = call[c].op
           /\ session["default"].state = "idling"
           /\ session' = [session EXCEPT !["default"].state = "pending"]
<1>1. /\ call \in [Clients -> CallType] /\ "default" \in Groups
      /\ session["default"].state = "idling"
      /\ session' = [session EXCEPT !["default"].state = "pending"]
      /\ Push(Message("detect", None, c)) /\ Goto(c, "waitDetect")
      /\ UNCHANGED <<inst, posted>> /\ rec = None
  BY DEF TypeOK, ClientTypeOK, Groups, Detect, Enters, InputUnchanged, threadVars
<1>2. /\ Message("detect", None, c) \in Msg
      /\ Message("detect", None, c).type = "detect" /\ Message("detect", None, c).sem = c
  BY MessageType DEF Message, MsgTypes
<1>3. \A d \in Clients : ~Blocked(d)
  BY <1>1, PusherAlone
<1>4. /\ \A d \in Clients \ {c} : call'[d] = call[d]
      /\ call'[c].pc = "waitDetect" /\ call'[c].op = call[c].op
  BY <1>1 DEF Goto, CallType
<1>5. \A g \in Groups : Busy(g)' = Busy(g)
  BY <1>1 DEF Busy, TypeOK, ClientTypeOK
<1>6. QED
  BY <1>1, <1>2, <1>3, <1>4, <1>5 DEF Pushes, HalTypes, Asks, Blocked, Waits

\* A stop queues its message and waits for it.
LEMMA StopPushes ==
    ASSUME TypeOK, CloseInv, NEW c \in Clients, Stop(c), ~Return(c)
    PROVE  /\ \E m : Pushes(c, m) /\ m.type = "recordStop"
           /\ call'[c].pc = "waitStop" /\ call'[c].op = "stop" /\ Group(c)' = Group(c)
           /\ session[Group(c)].state \in {"recording", "streaming", "pending"}
           /\ session' = session
<1> DEFINE m == [Message("recordStop", call[c].src, c) EXCEPT !.index = call[c].index]
<1>1. /\ call \in [Clients -> CallType] /\ Group(c) \in Groups
      /\ session[Group(c)].state \in {"recording", "streaming", "pending"}
      /\ session' = session /\ Push(m) /\ Goto(c, "waitStop") /\ call[c].op = "stop"
      /\ UNCHANGED <<inst, posted>> /\ rec = None
  BY GroupOfType
  DEF TypeOK, ClientTypeOK, Group, Stop, Enters, InputUnchanged, threadVars
<1>2. m \in Msg /\ m.type = "recordStop" /\ m.sem = c /\ m.src = call[c].src
  BY <1>1 DEF Message, Msg, MsgTypes, CallType, Dests, Untils
<1>3. \A d \in Clients : ~Blocked(d)
  BY <1>1, PusherAlone
<1>4. /\ \A d \in Clients \ {c} : call'[d] = call[d]
      /\ call'[c].pc = "waitStop" /\ call'[c].op = "stop" /\ call'[c].src = call[c].src
  BY <1>1 DEF Goto, CallType
<1>5. Pushes(c, m)
  BY <1>1, <1>2, <1>3, <1>4 DEF Pushes, HalTypes, Asks, Blocked, Waits, Busy
<1>6. QED
  BY <1>1, <1>2, <1>4, <1>5 DEF Group

\* A step of a close queues a stop and waits for it.
LEMMA CloseStepPushes ==
    ASSUME TypeOK, CloseInv, NEW c \in Clients, CloseStep(c)
    PROVE  /\ \E m : Pushes(c, m) /\ m.type \in {"recordStop", "idleStop"}
           /\ call[c].pc = "closing" /\ call[c].op = "close" /\ call'[c].op = "close"
           /\ session' = session
           /\ \/ call'[c].pc = "waitStop" /\ Busy(Group(c)') /\ Group(c)' \in Groups
              \/ call'[c].pc = "waitIdle" /\ \A g \in Groups : ~Busy(g)
<1> DEFINE active == {g \in Groups : Active(g)}
           src == IF "default" \in active THEN Mic ELSE CHOOSE t \in Taps : TRUE
           stop == Message("recordStop", src, c)
           idle == Message("idleStop", None, c)
<1>1. /\ call \in [Clients -> CallType] /\ call[c].pc = "closing" /\ call[c].op = "close"
      /\ session' = session /\ UNCHANGED <<inst, posted>>
      /\ \A g \in Groups : Active(g) <=> Busy(g)
  BY DEF TypeOK, ClientTypeOK, CloseStep, At, InputUnchanged, threadVars, CloseInv,
     CloseOwnsApi, Active, Busy, States
<1>2. \A d \in Clients : ~Blocked(d)
  BY <1>1, PusherAlone
<1>3. CASE active # {}
  <2>1. src \in Sources /\ GroupOf(src) \in active
    <3>1. CASE "default" \in active
      BY <3>1, SourcesAssumption DEF GroupOf, Sources, Local
    <3>2. CASE "default" \notin active
      BY <1>3, <3>2 DEF GroupOf, Sources, Local, Groups
    <3>3. QED
      BY <3>1, <3>2
  <2>2. /\ Push(stop)
        /\ call' = [call EXCEPT ![c].pc = "waitStop", ![c].src = src]
    BY <1>3 DEF CloseStep
  <2>3. stop \in Msg /\ stop.type = "recordStop" /\ stop.sem = c /\ stop.src = src
    BY <2>1, MessageType DEF Message, MsgTypes
  <2> HIDE DEF src, stop
  <2>4. /\ \A d \in Clients \ {c} : call'[d] = call[d]
        /\ call'[c].pc = "waitStop" /\ call'[c].op = "close" /\ call'[c].src = src
    BY <1>1, <2>1, <2>2 DEF CallType
  <2>5. Pushes(c, stop)
    BY <1>1, <1>2, <2>2, <2>3, <2>4 DEF Pushes, HalTypes, Asks, Blocked, Waits, Busy
  <2>6. QED
    BY <1>1, <2>1, <2>3, <2>4, <2>5 DEF Group
<1>4. CASE active = {}
  <2>1. Push(idle) /\ Goto(c, "waitIdle")
    BY <1>4 DEF CloseStep
  <2>2. idle \in Msg /\ idle.type = "idleStop" /\ idle.sem = c
    BY MessageType DEF Message, MsgTypes
  <2>3. /\ \A d \in Clients \ {c} : call'[d] = call[d]
        /\ call'[c].pc = "waitIdle" /\ call'[c].op = "close"
    BY <1>1, <2>1 DEF Goto, CallType
  <2>4. \A g \in Groups : ~Busy(g)
    BY <1>1, <1>4
  <2> HIDE DEF idle
  <2>5. Pushes(c, idle)
    BY <1>1, <1>2, <2>1, <2>2, <2>3, <2>4
    DEF Pushes, HalTypes, Asks, Blocked, Waits, Busy
  <2>6. QED
    BY <1>1, <2>2, <2>3, <2>4, <2>5
<1>5. QED
  BY <1>3, <1>4

\* The returns of the dispatch, of a stop and of the end of the thread.
LEMMA ReturnSteps ==
    ASSUME TypeOK, NEW c \in Clients, DispatchReturn(c) \/ StopReturn(c) \/ TermReturn(c)
    PROVE  /\ Returns(c) /\ ~Blocked(c)'
           /\ UNCHANGED q \/ q' = <<>>
<1>1. call \in [Clients -> CallType]
  BY DEF TypeOK, ClientTypeOK
<1>2. /\ UNCHANGED inst /\ c \in posted /\ posted' = posted \ {c}
      /\ UNCHANGED q \/ q' = <<>>
  BY DEF DispatchReturn, StopReturn, TermReturn, Woken, InputUnchanged, threadVars
<1>3. /\ \A d \in Clients \ {c} : call'[d] = call[d]
      /\ call'[c].pc \in {"out", "closing"}
  BY <1>1 DEF DispatchReturn, StopReturn, TermReturn, Return, NoCall, Goto, CallType
<1>4. /\ \A g \in Groups : Busy(g)' => Busy(g)
      /\ \A g \in Groups : Busy(g) /\ ~Busy(g)' => call[c].pc = "waitStop" /\ g = Group(c)
  <2>1. CASE StopReturn(c)
    BY <2>1 DEF StopReturn, Woken, At, Busy, TypeOK, ClientTypeOK
  <2>2. CASE ~StopReturn(c)
    BY <2>2 DEF DispatchReturn, TermReturn, Busy
  <2>3. QED
    BY <2>1, <2>2
<1>5. QED
  BY <1>2, <1>3, <1>4 DEF Returns, Blocked, Waits

\* Every step of a client keeps the invariant.
LEMMA ClientKeeps ==
    ASSUME TypeInv, CloseInv, SemInv, NEW c \in Clients, Invoke(c) \/ ClientStep(c)
    PROVE  SemInv'
<1> USE DEF TypeInv
<1>1. CASE \/ Invoke(c) \/ ApiRefuse(c) \/ ApiEnter(c) \/ RecordRefuse(c)
           \/ StreamSetFails(c) \/ DetectStop(c) \/ Close(c)
           \/ (Detect(c) \/ Stop(c)) /\ Return(c)
  BY <1>1, QuietSteps, QuietKeeps
<1>2. CASE \/ RecordEnter(c) \/ CloseStep(c)
           \/ (Detect(c) \/ Stop(c)) /\ ~Return(c)
  BY <1>2, RecordPushes, DetectPushes, StopPushes, CloseStepPushes, PushKeeps
<1>3. CASE DispatchReturn(c) \/ StopReturn(c) \/ TermReturn(c)
  BY <1>3, ReturnSteps, ReturnKeeps
<1>4. CASE Open(c) \/ IdleReturn(c)
  BY <1>4, OpenKeeps, IdleReturnKeeps
<1>5. QED
  BY <1>1, <1>2, <1>3, <1>4 DEF ClientStep

-----------------------------------------------------------------------------
(* The steps of the main thread and the HAL.                               *)

\* A group's recording instance has nothing more of the client than before.
Shrinks(g) == inst'[g].dests \subseteq inst[g].dests /\ (inst'[g].cb => inst[g].cb)

\* Work on the instances, a message that nobody waits for, or one of the HAL.
Serves(who) ==
    /\ posted' = posted \cup (who \ {None})
    /\ \A c \in who \ {None} : \E g \in Groups : inst[g].sem = c
    /\ \A g \in Groups :
          /\ Shrinks(g)
          /\ inst'[g].sem = IF inst[g].sem \in who THEN None ELSE inst[g].sem
          /\ inst'[g].sem # None => inst'[g].sync = inst[g].sync
    /\ \/ UNCHANGED q
       \/ q # <<>> /\ Pop /\ Head(q).sem = None /\ Head(q).type # "recordStart"
       \/ \E m \in Msg : Push(m) /\ m.type \in HalTypes /\ m.sem = None /\ HalMayPush

\* The answer to a message that somebody waits for.
Answers ==
    /\ q # <<>> /\ Pop /\ Head(q).sem # None /\ Head(q).type # "recordStart"
    /\ posted' = posted \cup {Head(q).sem}
    /\ \A g \in Groups : Shrinks(g) /\ inst'[g].sem = inst[g].sem
    /\ \A g \in Groups :
          \/ Head(q).type = "recordStop" /\ GroupOf(Head(q).src) = g
          \/ Head(q).type = "detect" /\ g = "default"
          => Held0(g)'

\* Filling, ending, failing, stopping or disarming a recording takes from it, and
\* its semaphore only when it is posted.
LEMMA DoneTakes ==
    ASSUME NEW i \in InstType
    PROVE  /\ Done(i).dests \subseteq i.dests /\ Done(i).cb = i.cb
           /\ Done(i).sem = i.sem /\ Done(i).sync = i.sync
BY DEF Done, MemoryFull, KeywordPassed, InstType

\* A source that ends takes the semaphore of a synchronous recording.
LEMMA EndedTakes ==
    ASSUME NEW i \in InstType
    PROVE  /\ Ended(i).dests \subseteq i.dests /\ Ended(i).cb = i.cb
           /\ Ended(i).sem = (IF i.sync THEN None ELSE i.sem) /\ Ended(i).sync = i.sync
BY DEF Ended, InstType

\* A read error that is told takes nothing but the semaphore.
LEMMA ToldTakes ==
    ASSUME NEW i \in InstType
    PROVE  /\ MicErrorTold(i).dests = i.dests /\ MicErrorTold(i).cb = i.cb
           /\ MicErrorTold(i).sem = (IF i.sync THEN None ELSE i.sem)
           /\ MicErrorTold(i).sync = i.sync
BY DEF MicErrorTold, InstType

\* A stop takes everything but the semaphore.
LEMMA StopTakes ==
    ASSUME NEW i \in InstType
    PROVE  /\ Released(i).dests = {} /\ Released(i).cb = FALSE /\ Released(i).sem = i.sem
           /\ Listening(i).dests = {} /\ Listening(i).cb = FALSE /\ Listening(i).sem = i.sem
BY DEF Released, Listening, InstType

\* A microphone error posts the semaphores of the synchronous recordings.
LEMMA MicErrorServes ==
    ASSUME TypeOK, SemInv, MicError,
           UNCHANGED q \/ (q # <<>> /\ Pop /\ Head(q).type \in HalTypes)
    PROVE  \E who : Serves(who)
<1> DEFINE who == {inst[g].sem : g \in {x \in Groups : inst[x].sync}}
<1>1. posted' = posted \cup (who \ {None})
  BY DEF MicError, Post
<1>2. \A g \in Groups : inst[g] \in InstType /\ inst'[g] = MicErrorTold(inst[g])
  BY DEF MicError, TypeOK, ThreadTypeOK
<1>3. \A g \in Groups : inst[g].sem \in who => inst[g].sync \/ inst[g].sem = None
  BY DEF SemInv, InstanceOwned
<1>4. \A g \in Groups : inst[g].sync => inst[g].sem \in who
  OBVIOUS
<1>5. \A c \in who \ {None} : \E g \in Groups : inst[g].sem = c
  OBVIOUS
<1>6. q # <<>> /\ Head(q).type \in HalTypes
         => Head(q).sem = None /\ Head(q).type # "recordStart"
  BY DEF SemInv, QueueShape, HalTypes, TypeOK, QueueTypeOK
<1> HIDE DEF who
<1>7. \A g \in Groups :
         /\ Shrinks(g)
         /\ inst'[g].sem = IF inst[g].sem \in who THEN None ELSE inst[g].sem
         /\ inst'[g].sync = inst[g].sync
  BY <1>2, <1>3, <1>4, ToldTakes DEF Shrinks
<1>8. QED
  BY <1>1, <1>5, <1>6, <1>7 DEF Serves

\* No handler does anything else.
LEMMA HandlerKinds ==
    ASSUME TypeOK, SemInv, HandleMessage
    PROVE  (\E who : Serves(who)) \/ Answers \/ RecordStart
<1>0. /\ "default" \in Groups /\ \A g \in Groups : inst[g] \in InstType
      /\ inst \in [Groups -> InstType]
      /\ q # <<>> /\ Pop /\ 1 \in DOMAIN q /\ q[1] = Head(q) /\ Head(q) \in Msg
  <2>1. q # <<>> /\ Pop
    BY DEF HandleMessage, Handles, IdleStart, IdleStop, RecordStart, RecordStop,
       DetectStart, SessionBegin, SessionEnd, InputError, Terminate
  <2>2. 1 \in DOMAIN q /\ q[1] = Head(q) /\ Head(q) \in Msg
    BY <2>1, PopIndexes, MessageInQueue DEF TypeOK
  <2>3. QED
    BY <2>1, <2>2 DEF TypeOK, ThreadTypeOK, Groups
<1>1. CASE IdleStart
  <2>1. /\ Head(q).type = "idleStart" /\ Head(q).sem = None /\ UNCHANGED posted
        /\ inst' = [inst EXCEPT !["default"] = NewInst]
    <3>1. /\ Head(q).type = "idleStart" /\ UNCHANGED posted
          /\ inst' = [inst EXCEPT !["default"] = NewInst]
      BY <1>1 DEF IdleStart, Handles
    <3>2. Head(q).sem = None
      BY <1>0, <3>1 DEF SemInv, QueueShape
    <3>3. QED
      BY <3>1, <3>2
  <2>2. inst["default"].sem = None
    BY <1>0, <2>1 DEF SemInv, InstanceOwned, OnlyHal, HalTypes
  <2>3. Serves({})
    BY <1>0, <2>1, <2>2 DEF Serves, Shrinks, NewInst
  <2>4. QED
    BY <2>3
<1>2. CASE SessionBegin \/ SessionEnd
  <2>1. Head(q).type \in HalTypes /\ UNCHANGED <<posted, inst>>
    BY <1>2 DEF SessionBegin, SessionEnd, Handles, HalTypes, threadVars
  <2>2. Head(q).sem = None /\ Head(q).type # "recordStart"
    BY <1>0, <2>1 DEF SemInv, QueueShape, HalTypes
  <2>3. Serves({})
    BY <1>0, <2>1, <2>2 DEF Serves, Shrinks
  <2>4. QED
    BY <2>3
<1>3. CASE InputError
  <2>1. Head(q).type \in HalTypes
    BY <1>3 DEF InputError, Handles, HalTypes
  <2>2. CASE MicError
    BY <1>0, <2>1, <2>2, MicErrorServes
  <2>3. CASE ~MicError
    <3>1. UNCHANGED <<posted, inst>>
      BY <1>3, <2>3 DEF InputError
    <3>2. Head(q).sem = None /\ Head(q).type # "recordStart"
      BY <1>0, <2>1 DEF SemInv, QueueShape, HalTypes
    <3>3. Serves({})
      BY <1>0, <3>1, <3>2 DEF Serves, Shrinks
    <3>4. QED
      BY <3>3
  <2>4. QED
    BY <2>2, <2>3
<1>4. CASE IdleStop \/ RecordStop \/ DetectStart \/ Terminate
  <2>1. /\ Head(q).type \in {"idleStop", "recordStop", "detect", "terminate"}
        /\ Head(q).sem # None /\ posted' = posted \cup {Head(q).sem}
    <3>1. /\ Head(q).type \in {"idleStop", "recordStop", "detect", "terminate"}
          /\ Post({Head(q).sem})
      BY <1>4 DEF IdleStop, RecordStop, DetectStart, Terminate, Handles
    <3>2. Head(q).sem # None
      BY <1>0, <3>1 DEF SemInv, QueueShape
    <3>3. QED
      BY <3>1, <3>2 DEF Post
  <2>2. CASE IdleStop \/ Terminate
    <3>1. UNCHANGED inst /\ Head(q).type \in {"idleStop", "terminate"}
      BY <2>2 DEF IdleStop, Terminate, Handles
    <3>2. QED
      BY <1>0, <2>1, <3>1 DEF Answers, Shrinks
  <2>3. CASE RecordStop
    <3> DEFINE g == GroupOf(Head(q).src)
    <3>1. /\ Head(q).type = "recordStop"
          /\ inst' = [inst EXCEPT ![g] = Released(inst[g])] /\ g \in Groups
      BY <2>3, GroupOfType DEF RecordStop, Handles
    <3>2. \A h \in Groups : inst'[h] = IF h = g THEN Released(inst[h]) ELSE inst[h]
      BY <1>0, <3>1
    <3> HIDE DEF g
    <3>3. \A h \in Groups : Shrinks(h) /\ inst'[h].sem = inst[h].sem
      BY <1>0, <3>2, StopTakes DEF Shrinks
    <3>4. \A h \in Groups : h = g => Held0(h)'
      BY <1>0, <3>2, StopTakes DEF Held0
    <3>5. QED
      BY <1>0, <2>1, <3>1, <3>3, <3>4 DEF Answers, g
  <2>4. CASE DetectStart
    <3>1. /\ Head(q).type = "detect"
          /\ inst' = [inst EXCEPT !["default"] = Listening(inst["default"])]
      BY <2>4 DEF DetectStart, Handles
    <3>2. \A h \in Groups :
             inst'[h] = IF h = "default" THEN Listening(inst[h]) ELSE inst[h]
      BY <1>0, <3>1
    <3>3. \A h \in Groups : Shrinks(h) /\ inst'[h].sem = inst[h].sem
      BY <1>0, <3>2, StopTakes DEF Shrinks
    <3>4. Held0("default")'
      BY <1>0, <3>2, StopTakes DEF Held0
    <3>5. QED
      BY <1>0, <2>1, <3>1, <3>3, <3>4 DEF Answers
  <2>5. QED
    BY <1>4, <2>2, <2>3, <2>4
<1>5. QED
  BY <1>1, <1>2, <1>3, <1>4 DEF HandleMessage

\* Nor does a step with audio or of the HAL.
LEMMA AudioKinds ==
    ASSUME TypeOK, SemInv,
           (MainThread /\ ~HandleMessage) \/ \E s \in HalSources : Hal(s)
    PROVE  \E who : Serves(who)
<1>0. /\ "default" \in Groups /\ \A g \in Groups : inst[g] \in InstType
      /\ inst \in [Groups -> InstType]
  BY DEF TypeOK, ThreadTypeOK, Groups
<1>1. CASE RecordStopTail
  <2>1. /\ UNCHANGED <<posted, q>>
        /\ \A g \in Groups : /\ inst'[g].dests = inst[g].dests /\ inst'[g].cb = inst[g].cb
                             /\ inst'[g].sem = inst[g].sem /\ inst'[g].sync = inst[g].sync
    BY <1>0, <1>1 DEF RecordStopTail, InstType
  <2>2. Serves({})
    BY <2>1 DEF Serves, Shrinks
  <2>3. QED
    BY <2>2
<1>2. CASE MicReadFails
  BY <1>2, MicErrorServes DEF MicReadFails, FrameUnchanged
<1>3. CASE MicFrame
  <2>1. PICK done \in SUBSET Groups, ends \in BOOLEAN :
           /\ \A g \in Groups :
                 LET i == IF g \in done THEN Done(inst[g]) ELSE inst[g]
                 IN  inst'[g] = IF ends /\ g = "default" THEN Ended(i) ELSE i
           /\ Post(IF ends /\ inst["default"].sync THEN {inst["default"].sem} ELSE {})
    <3>1. PICK done \in SUBSET Groups, ends \in BOOLEAN :
             LET written == [g \in Groups |->
                                IF g \in done THEN Done(inst[g]) ELSE inst[g]]
             IN  /\ inst' = IF ends
                            THEN [written EXCEPT !["default"] = Ended(written["default"])]
                            ELSE written
                 /\ Post(IF ends /\ inst["default"].sync
                         THEN {inst["default"].sem} ELSE {})
      BY <1>3 DEF MicFrame
    <3>2. \A g \in Groups :
             LET i == IF g \in done THEN Done(inst[g]) ELSE inst[g]
             IN  inst'[g] = IF ends /\ g = "default" THEN Ended(i) ELSE i
      BY <1>0, <3>1
    <3>3. QED
      BY <3>1, <3>2
  <2> DEFINE who == IF ends /\ inst["default"].sync THEN {inst["default"].sem} ELSE {}
             i(g) == IF g \in done THEN Done(inst[g]) ELSE inst[g]
  <2>2. \A g \in Groups :
           /\ i(g) \in InstType
           /\ i(g).dests \subseteq inst[g].dests /\ i(g).cb = inst[g].cb
           /\ i(g).sem = inst[g].sem /\ i(g).sync = inst[g].sync
    BY <1>0, DoneTakes, InstanceType
  <2>3. \A g \in Groups : inst'[g] = IF ends /\ g = "default" THEN Ended(i(g)) ELSE i(g)
    BY <2>1
  <2>4. \A g, h \in Groups : inst[g].sem = inst[h].sem => inst[g].sem = None \/ g = h
    BY DEF SemInv, InstanceOwned
  <2> HIDE DEF i
  <2>5. \A g \in Groups :
           /\ Shrinks(g) /\ inst'[g].sync = inst[g].sync
           /\ inst'[g].sem = IF ends /\ g = "default" /\ inst[g].sync
                             THEN None ELSE inst[g].sem
    BY <2>2, <2>3, EndedTakes DEF Shrinks
  <2>6. \A g \in Groups : inst[g].sem \in who <=>
           ends /\ inst["default"].sync /\ inst[g].sem = inst["default"].sem
    OBVIOUS
  <2>7. \A g \in Groups :
           inst'[g].sem = IF inst[g].sem \in who THEN None ELSE inst[g].sem
    BY <1>0, <2>4, <2>5, <2>6
  <2>8. posted' = posted \cup (who \ {None}) /\ UNCHANGED q
    BY <1>3, <2>1 DEF Post, MicFrame, FrameUnchanged
  <2>9. \A c \in who \ {None} : \E g \in Groups : inst[g].sem = c
    BY <1>0
  <2> HIDE DEF who
  <2>10. Serves(who)
    BY <2>5, <2>7, <2>8, <2>9 DEF Serves
  <2>11. QED
    BY <2>10
<1>4. CASE MicKeyword \/ TimerIdle
  <2>1. UNCHANGED <<posted, q, inst>>
    BY <1>4 DEF MicKeyword, TimerIdle, FrameUnchanged
  <2>2. Serves({})
    BY <2>1 DEF Serves, Shrinks
  <2>3. QED
    BY <2>2
<1>5. CASE ExternalFrame
  <2>1. /\ UNCHANGED <<posted, q>>
        /\ \A g \in Groups : inst'[g] = IF g = "default" THEN Done(inst[g]) ELSE inst[g]
    BY <1>0, <1>5 DEF ExternalFrame, FrameUnchanged
  <2>2. Serves({})
    BY <1>0, <2>1, DoneTakes DEF Serves, Shrinks
  <2>3. QED
    BY <2>2
<1>6. CASE ExternalEnd
  <2> DEFINE who == IF inst["default"].sync THEN {inst["default"].sem} ELSE {}
             d == inst["default"]
  <2>1. PICK u : inst' = [inst EXCEPT !["default"] = [Ended(d) EXCEPT !.until = u]]
    BY <1>6 DEF ExternalEnd
  <2>2. Ended(d) \in InstType
    BY <1>0, InstanceType
  <2>3. LET e == [Ended(d) EXCEPT !.until = u]
        IN  /\ e.dests = Ended(d).dests /\ e.cb = Ended(d).cb
            /\ e.sem = Ended(d).sem /\ e.sync = Ended(d).sync
    BY <2>2 DEF InstType
  <2>4. /\ inst'["default"].dests \subseteq d.dests /\ inst'["default"].cb = d.cb
        /\ inst'["default"].sem = (IF d.sync THEN None ELSE d.sem)
        /\ inst'["default"].sync = d.sync
        /\ \A g \in Groups \ {"default"} : inst'[g] = inst[g]
    BY <1>0, <2>1, <2>3, EndedTakes
  <2>5. \A g, h \in Groups : inst[g].sem = inst[h].sem => inst[g].sem = None \/ g = h
    BY DEF SemInv, InstanceOwned
  <2>6. \A g \in Groups :
           /\ Shrinks(g) /\ inst'[g].sync = inst[g].sync
           /\ inst'[g].sem = IF inst[g].sem \in who THEN None ELSE inst[g].sem
    BY <1>0, <2>4, <2>5 DEF Shrinks
  <2>7. posted' = posted \cup (who \ {None}) /\ UNCHANGED q
    BY <1>6 DEF Post, ExternalEnd, FrameUnchanged
  <2>8. \A c \in who \ {None} : \E g \in Groups : inst[g].sem = c
    BY <1>0
  <2> HIDE DEF who
  <2>9. Serves(who)
    BY <2>6, <2>7, <2>8 DEF Serves
  <2>10. QED
    BY <2>9
<1>7. ASSUME NEW s \in HalSources, Hal(s)
      PROVE  Serves({})
  <2>1. UNCHANGED <<posted, inst>>
    BY <1>7 DEF Hal, HalRequest, HalBegin, HalEnd, HalError, HalUnchanged,
       clientVars, threadVars
  <2>2. \/ UNCHANGED q
        \/ \E t \in HalTypes : Push(Message(t, s, None)) /\ HalMayPush
    BY <1>7 DEF Hal, HalRequest, HalBegin, HalEnd, HalError, HalTypes, PushVoice
  <2>3. \A t \in HalTypes : /\ Message(t, s, None) \in Msg
                            /\ Message(t, s, None).type = t
                            /\ Message(t, s, None).sem = None
    BY MessageType, SourcesAssumption DEF Message, MsgTypes
  <2>4. QED
    BY <2>1, <2>2, <2>3 DEF Serves, Shrinks
<1>8. QED
  BY <1>1, <1>2, <1>3, <1>4, <1>5, <1>6, <1>7 DEF MainThread

\* What a pop leaves: the queue keeps its shape, and nothing new is in it.
LEMMA PoppedQueue ==
    ASSUME QueueTypeOK, QueueShape, q # <<>>, Pop
    PROVE  /\ QueueShape'
           /\ OnlyHal => OnlyHal'
           /\ \A i \in DOMAIN q' : \E j \in DOMAIN q : q[j] = q'[i]
           /\ \A j \in DOMAIN q : q[j] = Head(q) \/ \E i \in DOMAIN q' : q'[i] = q[j]
           /\ Head(q).sem # None => OnlyHal'
           /\ Head(q).sem = None \/ Head(q).type \notin HalTypes
           /\ \A g \in Groups : \A i \in DOMAIN q' :
                 IsStart(1, g) => ~(q'[i].type = "recordStart" /\ GroupOf(q'[i].src) = g)
<1>1. /\ \A i \in DOMAIN q' : /\ i + 1 \in DOMAIN q /\ q'[i] = q[i + 1]
                              /\ i \in Nat \ {0}
      /\ \A i \in DOMAIN q : i # 1 => i - 1 \in DOMAIN q' /\ q'[i - 1] = q[i]
      /\ 1 \in DOMAIN q /\ q[1] = Head(q)
  BY PopIndexes
<1>2. ASSUME NEW i \in DOMAIN q', NEW j \in DOMAIN q', q'[i].sem # None, i < j
      PROVE  q'[j].type \in HalTypes
  <2>1. /\ i + 1 \in DOMAIN q /\ j + 1 \in DOMAIN q /\ i + 1 < j + 1
        /\ q'[i] = q[i + 1] /\ q'[j] = q[j + 1]
    BY <1>1, <1>2
  <2>2. QED
    BY <1>2, <2>1 DEF QueueShape
<1>3. ASSUME NEW i \in DOMAIN q'
      PROVE  /\ q'[i].type \in HalTypes => q'[i].sem = None
             /\ q'[i].type = "idleStart" => i = 1 /\ q'[i].sem = None
             /\ q'[i].type \in {"recordStop", "detect", "idleStop", "terminate"}
                   => q'[i].sem # None
  <2>1. i + 1 \in DOMAIN q /\ i + 1 # 1 /\ q'[i] = q[i + 1]
    BY <1>1
  <2>2. QED
    BY <2>1 DEF QueueShape
<1>4. ASSUME NEW i \in DOMAIN q', NEW j \in DOMAIN q', NEW g \in Groups,
             IsStart(i, g)', IsStart(j, g)'
      PROVE  i = j
  <2>1. IsStart(i + 1, g) /\ IsStart(j + 1, g) /\ i + 1 \in DOMAIN q /\ j + 1 \in DOMAIN q
    BY <1>1, <1>4 DEF IsStart
  <2>2. i + 1 = j + 1
    BY <2>1 DEF QueueShape
  <2>3. QED
    BY <1>1, <2>2
<1>5. QueueShape'
  BY <1>2, <1>3, <1>4 DEF QueueShape, IsStart
<1>6. ASSUME Head(q).sem # None, NEW i \in DOMAIN q'
      PROVE  q'[i].type \in HalTypes
  <2>1. 1 \in DOMAIN q /\ q[1].sem # None /\ 1 < i + 1 /\ i + 1 \in DOMAIN q
    BY <1>1, <1>6
  <2>2. q[i + 1].type \in HalTypes
    BY <2>1 DEF QueueShape
  <2>3. QED
    BY <1>1, <2>2
<1>7. ASSUME NEW g \in Groups, NEW i \in DOMAIN q', IsStart(1, g),
             q'[i].type = "recordStart", GroupOf(q'[i].src) = g
      PROVE  FALSE
  <2>1. IsStart(i + 1, g) /\ i + 1 \in DOMAIN q /\ i + 1 # 1
    BY <1>1, <1>7 DEF IsStart
  <2>2. QED
    BY <1>1, <1>7, <2>1 DEF QueueShape
<1>8. Head(q).sem = None \/ Head(q).type \notin HalTypes
  BY <1>1 DEF QueueShape
<1>9. /\ OnlyHal => OnlyHal'
      /\ \A i \in DOMAIN q' : \E j \in DOMAIN q : q[j] = q'[i]
      /\ \A j \in DOMAIN q : q[j] = Head(q) \/ \E i \in DOMAIN q' : q'[i] = q[j]
  BY <1>1 DEF OnlyHal
<1>10. Head(q).sem # None => OnlyHal'
  BY <1>6 DEF OnlyHal
<1>11. QED
  BY <1>5, <1>7, <1>8, <1>9, <1>10

\* Somebody's message: one that carries a semaphore or starts a session.
Ours(m) == m.sem # None \/ m.type = "recordStart"

\* Serving neither adds nor takes one.
LEMMA ServedQueue ==
    ASSUME TypeOK, QueueShape, NEW who, Serves(who)
    PROVE  /\ QueueShape'
           /\ OnlyHal => OnlyHal'
           /\ \A i \in DOMAIN q' : Ours(q'[i]) => \E j \in DOMAIN q : q[j] = q'[i]
           /\ \A j \in DOMAIN q : Ours(q[j]) => \E i \in DOMAIN q' : q'[i] = q[j]
<1>1. CASE UNCHANGED q
  <2>1. QueueShape'
    BY <1>1 DEF QueueShape, IsStart
  <2>2. QED
    BY <1>1, <2>1 DEF OnlyHal
<1>2. CASE q # <<>> /\ Pop /\ Head(q).sem = None /\ Head(q).type # "recordStart"
  BY <1>2, PoppedQueue DEF Ours, TypeOK
<1>3. ASSUME NEW m \in Msg, Push(m), m.type \in HalTypes, m.sem = None
      PROVE  /\ QueueShape'
             /\ OnlyHal => OnlyHal'
             /\ \A i \in DOMAIN q' : Ours(q'[i]) => i \in DOMAIN q /\ q[i] = q'[i]
             /\ \A j \in DOMAIN q : j \in DOMAIN q' /\ q'[j] = q[j]
  <2>1. /\ \A i \in DOMAIN q : i \in DOMAIN q' /\ q'[i] = q[i]
        /\ \A i \in DOMAIN q' : i \in DOMAIN q \/ (i = Len(q) + 1 /\ q'[i] = m)
        /\ DOMAIN q = 1 .. Len(q) /\ Len(q) \in Nat
    BY <1>3, PushIndexes DEF TypeOK
  <2>2. QueueShape'
    BY <1>3, <2>1 DEF QueueShape, IsStart, HalTypes
  <2>3. QED
    BY <1>3, <2>1, <2>2 DEF OnlyHal, Ours, HalTypes
<1>4. QED
  BY <1>1, <1>2, <1>3 DEF Serves

\* A handler that serves some of those who wait.
LEMMA ServesKeeps ==
    ASSUME TypeOK, SemInv, UNCHANGED <<call, session>>, NEW who, Serves(who)
    PROVE  SemInv'
<1>1. /\ QueueShape'
      /\ OnlyHal => OnlyHal'
      /\ \A i \in DOMAIN q' : Ours(q'[i]) => \E j \in DOMAIN q : q[j] = q'[i]
  BY ServedQueue DEF SemInv
<1>2. NoSems => NoSems' /\ posted' = posted
  <2>1. ASSUME NoSems PROVE who \ {None} = {}
    BY <2>1 DEF Serves, NoSems
  <2>2. QED
    BY <2>1 DEF Serves, NoSems
<1>3. QueueOwned'
  BY <1>1, <1>2 DEF SemInv, QueueOwned, Ours, Asks
<1>4. StartsBusy'
  BY <1>1 DEF SemInv, StartsBusy, IsStart, Ours, Busy
<1>5. ASSUME NEW g \in Groups, inst'[g].sem # None
      PROVE  inst'[g].sem = inst[g].sem /\ inst[g].sem \notin who /\ inst'[g].sync = inst[g].sync
  BY <1>5 DEF Serves
<1>6. InstanceOwned'
  BY <1>1, <1>5 DEF SemInv, InstanceOwned, Serves
<1>7. PostedOwned'
  <2>1. ASSUME NEW c \in posted'
        PROVE  /\ Blocked(c)' /\ OnlyHal' /\ NoSems'
               /\ call'[c].pc = "waitStop" => Held0(Group(c))'
    <3>1. CASE c \in posted
      <4>1. /\ Blocked(c) /\ OnlyHal /\ NoSems
            /\ call[c].pc = "waitStop" => Held0(Group(c))
        BY <3>1 DEF SemInv, PostedOwned
      <4>2. \A g \in Groups : Held0(g) => Held0(g)'
        BY DEF Serves, Shrinks, Held0
      <4>3. QED
        BY <1>1, <1>2, <4>1, <4>2, GroupOfType DEF Blocked, Group
    <3>2. CASE c \in who \ {None}
      <4>1. PICK g \in Groups : inst[g].sem = c
        BY <3>2 DEF Serves
      <4>2. /\ call[c].pc = "waitRecord" /\ OnlyHal
            /\ \A h \in Groups : inst[h].sem # None => h = g
        BY <3>2, <4>1 DEF SemInv, InstanceOwned
      <4>3. NoSems'
        BY <3>2, <4>1, <4>2 DEF NoSems, Serves
      <4>4. QED
        BY <1>1, <4>2, <4>3 DEF Blocked, Waits
    <3>3. QED
      BY <3>1, <3>2 DEF Serves
  <2>2. QED
    BY <2>1 DEF PostedOwned
<1>8. HeldWhileBusy' /\ IdleQuiet'
  BY DEF SemInv, HeldWhileBusy, IdleQuiet, Held0, Busy, Serves, Shrinks
<1>9. QED
  BY <1>1, <1>3, <1>4, <1>6, <1>7, <1>8 DEF SemInv

\* A handler that takes one message and posts its semaphore.
LEMMA AnswersKeeps ==
    ASSUME TypeOK, SemInv, UNCHANGED <<call, session>>, Answers
    PROVE  /\ SemInv' /\ OnlyHal'
           /\ Head(q).sem \in Clients /\ Head(q).sem \notin posted
           /\ posted' = {Head(q).sem} /\ Asks(Head(q), call[Head(q).sem])
<1>0. PICK c \in Clients : c = Head(q).sem
  BY PopIndexes, MessageInQueue DEF Answers, TypeOK
<1>1. q # <<>> /\ Pop /\ 1 \in DOMAIN q /\ q[1] = Head(q) /\ Head(q).sem = c /\ c # None
  BY <1>0, PopIndexes DEF Answers, TypeOK
<1>2. QueueShape' /\ OnlyHal' /\ ~OnlyHal
  BY <1>1, PoppedQueue DEF SemInv, TypeOK, OnlyHal, QueueShape
<1>3. Asks(Head(q), call[c]) /\ c \notin posted /\ NoSems
  BY <1>1 DEF SemInv, QueueOwned
<1>4. posted = {} /\ posted' = {c}
  BY <1>0, <1>2 DEF SemInv, PostedOwned, Answers
<1>5. NoSems'
  BY <1>3 DEF Answers, NoSems
<1>6. \A i \in DOMAIN q' : q'[i].sem = None
  BY <1>2 DEF OnlyHal, QueueShape
<1>7. QueueOwned' /\ StartsBusy' /\ InstanceOwned'
  BY <1>2, <1>5, <1>6
  DEF QueueOwned, StartsBusy, InstanceOwned, NoSems, OnlyHal, IsStart, HalTypes
<1>8. PostedOwned'
  <2>1. Blocked(c)'
    BY <1>3 DEF Asks, Blocked, Waits
  <2>2. call[c].pc = "waitStop" => Held0(Group(c))'
    <3>1. call[c].pc = "waitStop" =>
             /\ Head(q).type = "recordStop" /\ GroupOf(Head(q).src) = Group(c)
      BY <1>3 DEF Asks, Group
    <3>2. PICK g \in Groups : g = Group(c) /\ Group(c)' = g
      BY GroupOfType DEF Group
    <3>3. Head(q).type = "recordStop" /\ GroupOf(Head(q).src) = g => Held0(g)'
      BY DEF Answers
    <3>4. QED
      BY <3>1, <3>2, <3>3 DEF Held0
  <2>3. QED
    BY <1>2, <1>4, <1>5, <2>1, <2>2 DEF PostedOwned
<1>9. HeldWhileBusy' /\ IdleQuiet'
  BY DEF SemInv, HeldWhileBusy, IdleQuiet, Held0, Busy, Answers, Shrinks
<1>10. QED
  BY <1>0, <1>1, <1>2, <1>3, <1>4, <1>7, <1>8, <1>9 DEF SemInv

\* The start of a recording hands its semaphore to the instance.
LEMMA StartKeeps ==
    ASSUME TypeOK, SemInv, UNCHANGED <<call, session>>, RecordStart
    PROVE  /\ SemInv'
           /\ posted' = posted /\ NoSems /\ Head(q).sem \in Clients \cup {None}
           /\ q # <<>> /\ Pop /\ 1 \in DOMAIN q /\ q[1] = Head(q)
           /\ LET g == GroupOf(Head(q).src)
              IN  /\ IsStart(1, g)
                  /\ \A h \in Groups :
                        IF h = g THEN /\ inst'[h].dests = Head(q).dests
                                      /\ inst'[h].cb = (Head(q).sem = None)
                                      /\ inst'[h].sync = (Head(q).sem # None)
                                      /\ inst'[h].sem = Head(q).sem
                                 ELSE inst'[h] = inst[h]
<1> DEFINE m == Head(q)
           s == GroupOf(m.src)
<1>1. /\ q # <<>> /\ Pop /\ m.type = "recordStart" /\ UNCHANGED posted
      /\ inst' = [inst EXCEPT ![s] =
             [src |-> m.src, dests |-> m.dests, writer |-> Writer(m.dests),
              cb |-> m.sem = None, sync |-> m.sem # None, sem |-> m.sem,
              until |-> m.until]]
  BY DEF RecordStart, Handles
<1>2. 1 \in DOMAIN q /\ q[1] = m /\ m.sem \in Clients \cup {None} /\ s \in Groups
  BY <1>1, PopIndexes, MessageInQueue, GroupOfType DEF TypeOK
<1>3. IsStart(1, s) /\ ~OnlyHal
  BY <1>1, <1>2 DEF IsStart, OnlyHal, HalTypes
<1>4. \A h \in Groups :
         IF h = s THEN /\ inst'[h].dests = m.dests /\ inst'[h].cb = (m.sem = None)
                       /\ inst'[h].sync = (m.sem # None) /\ inst'[h].sem = m.sem
                  ELSE inst'[h] = inst[h]
  BY <1>1, <1>2 DEF TypeOK, ThreadTypeOK
<1>5. NoSems /\ posted = {}
  BY <1>3 DEF SemInv, InstanceOwned, PostedOwned, NoSems
<1>6. /\ QueueShape'
      /\ \A i \in DOMAIN q' : \E j \in DOMAIN q : q[j] = q'[i]
      /\ m.sem # None => OnlyHal'
  BY <1>1, PoppedQueue DEF SemInv, TypeOK
<1>7. m.sem # None => call[m.sem].pc = "waitRecord" /\ m.sem \notin posted
  BY <1>1, <1>2 DEF SemInv, QueueOwned, Asks
<1> HIDE DEF m, s
<1>8. QueueOwned'
  <2>1. CASE m.sem = None
    <3>1. NoSems'
      BY <1>4, <1>5, <2>1 DEF NoSems
    <3>2. QED
      BY <1>1, <1>6, <3>1 DEF SemInv, QueueOwned, Asks
  <2>2. CASE m.sem # None
    <3>1. \A i \in DOMAIN q' : q'[i].sem = None
      BY <1>6, <2>2 DEF OnlyHal, QueueShape
    <3>2. QED
      BY <3>1 DEF QueueOwned
  <2>3. QED
    BY <2>1, <2>2
<1>9. StartsBusy'
  BY <1>6 DEF SemInv, StartsBusy, IsStart, Busy
<1>10. InstanceOwned'
  <2>1. \A h \in Groups : inst'[h].sem # None =>
           /\ h = s /\ inst'[h].sem = m.sem /\ m.sem # None /\ inst'[h].sync
    BY <1>2, <1>4, <1>5 DEF NoSems
  <2>2. QED
    BY <1>1, <1>6, <1>7, <2>1 DEF InstanceOwned
<1>11. PostedOwned'
  BY <1>1, <1>5 DEF PostedOwned
<1>12. HeldWhileBusy' /\ IdleQuiet'
  <2>1. Busy(s)
    BY <1>2, <1>3 DEF SemInv, StartsBusy
  <2>2. QED
    BY <1>4, <2>1 DEF SemInv, HeldWhileBusy, IdleQuiet, Held0, Busy
<1>13. QED
  BY <1>1, <1>2, <1>3, <1>4, <1>5, <1>6, <1>8, <1>9, <1>10, <1>11, <1>12
  DEF SemInv, m, s

-----------------------------------------------------------------------------
(* The invariant, and what the clients may have in the queue.              *)

\* The initial state satisfies the invariant.
LEMMA SemInit == Init => SemInv
BY DEF Init, SemInv, QueueShape, QueueOwned, StartsBusy, InstanceOwned, PostedOwned,
   HeldWhileBusy, IdleQuiet, Held0, NewInst, NoCall

\* Every step of the system keeps it.
LEMMA SemStep ==
    ASSUME TypeInv, CloseInv, SemInv, [Next]_vars
    PROVE  SemInv'
<1>1. ASSUME NEW c \in Clients, Invoke(c) \/ ClientStep(c) PROVE SemInv'
  BY <1>1, ClientKeeps
<1>2. ASSUME MainThread \/ \E s \in HalSources : Hal(s) PROVE SemInv'
  <2>1. UNCHANGED <<call, session>>
    BY <1>2, SystemFrame
  <2>2. (\E who : Serves(who)) \/ Answers \/ RecordStart
    BY <1>2, HandlerKinds, AudioKinds DEF TypeInv
  <2>3. QED
    BY <2>1, <2>2, ServesKeeps, AnswersKeeps, StartKeeps DEF TypeInv
<1>3. ASSUME UNCHANGED vars PROVE SemInv'
  <2>1. UNCHANGED <<call, posted, session, q, inst>>
    BY <1>3 DEF vars, clientVars, threadVars
  <2>2. QueueShape' /\ QueueOwned' /\ StartsBusy'
    BY <2>1
    DEF SemInv, QueueShape, QueueOwned, StartsBusy, IsStart, Asks, NoSems, Busy
  <2>3. InstanceOwned' /\ PostedOwned' /\ HeldWhileBusy' /\ IdleQuiet'
    BY <2>1
    DEF SemInv, InstanceOwned, PostedOwned, HeldWhileBusy, IdleQuiet, OnlyHal, NoSems,
        Held0, Blocked, Group, Busy
  <2>4. QED
    BY <2>2, <2>3 DEF SemInv
<1>4. QED
  BY <1>1, <1>2, <1>3 DEF Next

\* What holds of every reachable state, whatever the size of the queue.
Inv == TypeInv /\ CloseInv /\ SemInv
\* The invariant holds of every reachable state.
LEMMA InvCorrect == Spec => []Inv
<1>1. Init => Inv
  BY TypeInvInit, CloseInit, SemInit DEF Inv
<1>2. Inv /\ [Next]_vars => Inv'
  BY TypeStep, CloseStepInv, SemStep DEF Inv
<1>3. QED
  BY <1>1, <1>2, PTL DEF Spec

\* A set that maps into another without collision is no larger.
LEMMA NoLarger ==
    ASSUME NEW S, NEW T, IsFiniteSet(S), IsFiniteSet(T), NEW f \in [S -> T],
           \A x, y \in S : f[x] = f[y] => x = y
    PROVE  Cardinality(S) <= Cardinality(T)
<1>1. ~(Cardinality(T) < Cardinality(S))
  BY FS_PigeonHole
<1>2. Cardinality(S) \in Nat /\ Cardinality(T) \in Nat
  BY FS_CardinalityType
<1>3. QED
  BY <1>1, <1>2

\* The groups are few, and the positions of the queue as many as its length.
LEMMA FiniteParts ==
    ASSUME NEW s \in Seq(Msg)
    PROVE  /\ IsFiniteSet(Groups) /\ Cardinality(Groups) \in Nat
           /\ \A S : S \subseteq DOMAIN s =>
                 IsFiniteSet(S) /\ Cardinality(S) \in Nat
           /\ IsFiniteSet(DOMAIN s) /\ Cardinality(DOMAIN s) = Len(s)
<1>1. IsFiniteSet(Groups)
  <2>1. IsFiniteSet({"default", "tap"})
    <3>1. IsFiniteSet({"default"}) /\ {"default", "tap"} = {"default"} \cup {"tap"}
      BY FS_Singleton
    <3>2. QED
      BY <3>1, FS_AddElement
  <2>2. Groups \in SUBSET {"default", "tap"}
    BY DEF Groups
  <2>3. QED
    BY <2>1, <2>2, FS_Subset
<1>2. DOMAIN s = 1 .. Len(s) /\ Len(s) \in Nat
  OBVIOUS
<1>3. IsFiniteSet(1 .. Len(s)) /\ Cardinality(1 .. Len(s)) = Len(s)
  <2>1. 1 \in Int /\ Len(s) \in Int
    BY <1>2
  <2>2. /\ IsFiniteSet(1 .. Len(s))
        /\ Cardinality(1 .. Len(s)) = IF 1 > Len(s) THEN 0 ELSE Len(s) - 1 + 1
    BY <2>1, FS_Interval
  <2>3. QED
    BY <1>2, <2>2
<1>4. ASSUME NEW S, S \subseteq DOMAIN s PROVE IsFiniteSet(S)
  BY <1>2, <1>3, <1>4, FS_Subset
<1>5. QED
  BY <1>1, <1>2, <1>3, <1>4, FS_CardinalityType

\* The clients have at most one start per group in the queue, one message that
\* somebody waits for, and the idle start.
LEMMA BacklogBounded ==
    ASSUME QueueTypeOK, QueueShape
    PROVE  ClientBacklog
<1> DEFINE S == {i \in DOMAIN q : q[i].type \notin HalTypes}
           T == (Groups \cup {"idleStart"}) \cup {"sem"}
           f == [i \in S |-> IF q[i].sem # None THEN "sem"
                             ELSE IF q[i].type = "idleStart" THEN "idleStart"
                             ELSE GroupOf(q[i].src)]
<1>1. IsFiniteSet(S) /\ IsFiniteSet(Groups) /\ Cardinality(Groups) \in Nat
  BY FiniteParts DEF QueueTypeOK
<1>2. IsFiniteSet(T) /\ Cardinality(T) = Cardinality(Groups) + 2
  <2>1. "idleStart" \notin Groups /\ "sem" \notin Groups \cup {"idleStart"}
    BY DEF Groups
  <2>2. /\ IsFiniteSet(Groups \cup {"idleStart"})
        /\ Cardinality(Groups \cup {"idleStart"}) = Cardinality(Groups) + 1
    BY <1>1, <2>1, FS_AddElement
  <2>3. IsFiniteSet(T) /\ Cardinality(T) = Cardinality(Groups \cup {"idleStart"}) + 1
    BY <2>1, <2>2, FS_AddElement
  <2>4. QED
    BY <1>1, <2>2, <2>3
<1>3. f \in [S -> T]
  BY GroupOfType
<1>4. ASSUME NEW i \in S, NEW j \in S, f[i] = f[j]
      PROVE  i = j
  <2>1. i \in Nat /\ j \in Nat /\ i \in DOMAIN q /\ j \in DOMAIN q
    BY MessageInQueue
  <2>2. CASE q[i].sem # None \/ q[j].sem # None
    <3>1. q[i].sem # None /\ q[j].sem # None
      BY <1>4, <2>2, GroupOfType DEF Groups
    <3>2. ~(i < j) /\ ~(j < i)
      BY <2>1, <3>1 DEF QueueShape
    <3>3. QED
      BY <2>1, <3>2
  <2>3. CASE q[i].sem = None /\ q[j].sem = None
    <3>1. CASE q[i].type = "idleStart" \/ q[j].type = "idleStart"
      <4>1. q[i].type = "idleStart" /\ q[j].type = "idleStart"
        BY <1>4, <2>3, <3>1, GroupOfType DEF Groups
      <4>2. QED
        BY <2>1, <4>1 DEF QueueShape
    <3>2. CASE q[i].type # "idleStart" /\ q[j].type # "idleStart"
      <4>1. q[i].type = "recordStart" /\ q[j].type = "recordStart"
        BY <2>1, <2>3, <3>2, MessageInQueue DEF QueueShape, MsgTypes
      <4>2. GroupOf(q[i].src) = GroupOf(q[j].src)
        BY <1>4, <2>3, <3>2
      <4>3. PICK g \in Groups : IsStart(i, g) /\ IsStart(j, g)
        BY <4>1, <4>2, GroupOfType DEF IsStart
      <4>4. QED
        BY <2>1, <4>3 DEF QueueShape
    <3>3. QED
      BY <3>1, <3>2
  <2>4. QED
    BY <2>2, <2>3
<1> HIDE DEF S, T, f
<1>5. Cardinality(S) <= Cardinality(T)
  BY <1>1, <1>2, <1>3, <1>4, NoLarger
<1>6. QED
  BY <1>2, <1>5 DEF ClientBacklog, S

\* The clients, however many and whatever they ask for, never fill the message
\* queue of the main thread (xr_mq_push, whose failure is only logged).
THEOREM BacklogOfClients == Spec => []ClientBacklog
<1>1. Inv => ClientBacklog
  BY BacklogBounded DEF Inv, SemInv, TypeInv, TypeOK
<1>2. QED
  BY <1>1, InvCorrect, PTL

-----------------------------------------------------------------------------
(* Nobody's semaphore is lost, when the queue has room for the clients and *)
(* for what the HAL leaves in it.                                          *)

Room == QMax > HalBacklog + Cardinality(Groups) + 2
RoomInv == HalBounded /\ NoneLost

\* Then a push does not fail.
LEMMA RoomToPush ==
    ASSUME Room, QueueTypeOK, QueueShape, HalBounded
    PROVE  Len(q) < QMax
<1> DEFINE O == {i \in DOMAIN q : q[i].type \notin HalTypes}
<1>1. /\ IsFiniteSet(HalIndexes) /\ IsFiniteSet(O) /\ IsFiniteSet(DOMAIN q)
      /\ Cardinality(HalIndexes) \in Nat /\ Cardinality(O) \in Nat
      /\ Cardinality(Groups) \in Nat /\ Cardinality(DOMAIN q) = Len(q)
  BY FiniteParts DEF HalIndexes, QueueTypeOK
<1>2. HalIndexes \cap O = {} /\ HalIndexes \cup O = DOMAIN q
  BY DEF HalIndexes
<1>3. Cardinality(O) <= Cardinality(Groups) + 2
  BY BacklogBounded DEF ClientBacklog
<1>4. Cardinality(DOMAIN q) = Cardinality(HalIndexes) + Cardinality(O)
  <2> HIDE DEF O
  <2>1. /\ Cardinality(HalIndexes \cup O) =
              Cardinality(HalIndexes) + Cardinality(O) - Cardinality(HalIndexes \cap O)
    BY <1>1, FS_Union
  <2>2. /\ Cardinality(HalIndexes \cap O) = 0
        /\ Cardinality(HalIndexes \cup O) = Cardinality(DOMAIN q)
    BY <1>2, FS_EmptySet, Zenon
  <2>3. QED
    BY <1>1, <2>1, <2>2
<1> HIDE DEF O
<1>5. Cardinality(HalIndexes) <= HalBacklog
  BY DEF HalBounded
<1>6. HalBacklog \in Nat /\ QMax \in Nat
  BY QueueAssumption
<1>7. QED
  BY <1>1, <1>3, <1>4, <1>5, <1>6 DEF Room

\* What of the HAL is queued after a step, by what the step does to the queue.
LEMMA HalStays ==
    ASSUME QueueTypeOK, QueueTypeOK', HalBounded,
           \/ UNCHANGED q
           \/ q' = <<>>
           \/ q' = <<Message("idleStart", None, None)>>
           \/ q # <<>> /\ Pop
           \/ \E m \in Msg : Push(m) /\ m.type \notin HalTypes
           \/ \E m \in Msg : Push(m) /\ HalMayPush
    PROVE  HalBounded'
<1>0. HalBacklog \in Nat
  BY QueueAssumption
<1>1. /\ IsFiniteSet(HalIndexes) /\ Cardinality(HalIndexes) \in Nat
      /\ IsFiniteSet(HalIndexes')
  <2>1. /\ HalIndexes \subseteq DOMAIN q /\ HalIndexes' \subseteq DOMAIN q'
        /\ q \in Seq(Msg) /\ q' \in Seq(Msg)
    BY DEF HalIndexes, QueueTypeOK
  <2>2. QED
    BY <2>1, FiniteParts
<1>2. CASE UNCHANGED q
  BY <1>2 DEF HalBounded, HalIndexes
<1>3. CASE q' = <<>> \/ q' = <<Message("idleStart", None, None)>>
  <2>1. HalIndexes' = {}
    BY <1>3 DEF HalIndexes, HalTypes, Message
  <2>2. QED
    BY <1>0, <2>1, FS_EmptySet DEF HalBounded
<1>4. CASE q # <<>> /\ Pop
  <2> DEFINE f == [i \in HalIndexes' |-> i + 1]
  <2>1. f \in [HalIndexes' -> HalIndexes]
    BY <1>4, PopIndexes DEF HalIndexes
  <2>2. \A x, y \in HalIndexes' : f[x] = f[y] => x = y
    BY <1>4, PopIndexes DEF HalIndexes
  <2> HIDE DEF f
  <2>3. Cardinality(HalIndexes') <= Cardinality(HalIndexes)
    BY <1>1, <2>1, <2>2, NoLarger
  <2>4. Cardinality(HalIndexes') \in Nat
    BY <1>1, FS_CardinalityType
  <2>5. QED
    BY <1>0, <1>1, <2>3, <2>4 DEF HalBounded
<1>5. ASSUME NEW m \in Msg, Push(m)
      PROVE  /\ HalIndexes' \subseteq HalIndexes \cup {Len(q) + 1}
             /\ m.type \notin HalTypes => HalIndexes' \subseteq HalIndexes
  BY <1>5, PushIndexes DEF HalIndexes
<1>6. ASSUME NEW m \in Msg, Push(m), m.type \notin HalTypes
      PROVE  HalBounded'
  <2>1. HalIndexes' \in SUBSET HalIndexes
    BY <1>5, <1>6
  <2>2. Cardinality(HalIndexes') <= Cardinality(HalIndexes)
    BY <1>1, <2>1, FS_Subset
  <2>3. Cardinality(HalIndexes') \in Nat
    BY <1>1, FS_CardinalityType
  <2>4. QED
    BY <1>0, <1>1, <2>2, <2>3 DEF HalBounded
<1>7. ASSUME NEW m \in Msg, Push(m), HalMayPush
      PROVE  HalBounded'
  <2>1. HalIndexes' \in SUBSET (HalIndexes \cup {Len(q) + 1})
    BY <1>5, <1>7
  <2>2. /\ IsFiniteSet(HalIndexes \cup {Len(q) + 1})
        /\ Cardinality(HalIndexes \cup {Len(q) + 1}) <= Cardinality(HalIndexes) + 1
    <3> DEFINE x == Len(q) + 1
    <3> HIDE DEF x
    <3>1. /\ IsFiniteSet(HalIndexes \cup {x})
          /\ Cardinality(HalIndexes \cup {x}) =
                IF x \in HalIndexes THEN Cardinality(HalIndexes)
                                    ELSE Cardinality(HalIndexes) + 1
      BY <1>1, FS_AddElement
    <3>2. QED
      BY <1>1, <3>1 DEF x
  <2>3. Cardinality(HalIndexes') <= Cardinality(HalIndexes \cup {Len(q) + 1})
    BY <2>1, <2>2, FS_Subset
  <2>4. Cardinality(HalIndexes) < HalBacklog
    BY <1>7 DEF HalMayPush, HalIndexes
  <2>5. /\ Cardinality(HalIndexes') \in Nat
        /\ Cardinality(HalIndexes \cup {Len(q) + 1}) \in Nat
    BY <1>1, <2>2, FS_CardinalityType
  <2>6. QED
    BY <1>0, <1>1, <2>2, <2>3, <2>4, <2>5 DEF HalBounded
<1>8. QED
  BY <1>2, <1>3, <1>4, <1>6, <1>7

\* Every step of a client keeps the semaphores known.
LEMMA ClientRoom ==
    ASSUME Room, Inv, Inv', RoomInv, NEW c \in Clients, Invoke(c) \/ ClientStep(c)
    PROVE  RoomInv'
<1>0. /\ TypeInv /\ TypeOK /\ CloseInv /\ SemInv /\ QueueTypeOK /\ QueueTypeOK'
      /\ QueueShape /\ HalBounded /\ NoneLost
  BY DEF Inv, TypeInv, TypeOK, SemInv, RoomInv
<1>1. CASE Quietly(c)
  <2>1. HalBounded'
    BY <1>0, <1>1, HalStays DEF Quietly
  <2>2. NoneLost'
    BY <1>0, <1>1 DEF Quietly, NoneLost, Blocked
  <2>3. QED
    BY <2>1, <2>2 DEF RoomInv
<1>2. ASSUME NEW m, Pushes(c, m) PROVE RoomInv'
  <2>1. HalBounded'
    BY <1>0, <1>2, HalStays DEF Pushes
  <2>2. Len(q) + 1 \in DOMAIN q' /\ q'[Len(q) + 1] = m
    BY <1>0, <1>2, RoomToPush, PushIndexes DEF Pushes
  <2>3. \A d \in Clients : Blocked(d)' => d = c /\ m.sem = c
    BY <1>2 DEF Pushes, Blocked
  <2>4. NoneLost'
    BY <2>2, <2>3 DEF NoneLost
  <2>5. QED
    BY <2>1, <2>4 DEF RoomInv
<1>3. CASE DispatchReturn(c) \/ StopReturn(c) \/ TermReturn(c)
  <2>1. Returns(c) /\ ~Blocked(c)' /\ (UNCHANGED q \/ q' = <<>>)
    BY <1>0, <1>3, ReturnSteps
  <2>2. HalBounded'
    BY <1>0, <2>1, HalStays
  <2>3. Blocked(c)
    BY <1>0, <2>1 DEF Returns, SemInv, PostedOwned
  <2>4. \A d \in Clients : ~Blocked(d)'
    BY <1>0, <2>1, <2>3, OneBlocked DEF Returns, Blocked
  <2>5. QED
    BY <2>2, <2>4 DEF RoomInv, NoneLost
<1>4. CASE IdleReturn(c)
  <2> DEFINE m == Message("terminate", None, c)
  <2>1. m \in Msg /\ m.type \notin HalTypes /\ m.sem = c
    BY MessageType DEF Message, MsgTypes, HalTypes
  <2> HIDE DEF m
  <2>2. Push(m) /\ \A d \in Clients \ {c} : call'[d] = call[d]
    BY <1>0, <1>4 DEF IdleReturn, Goto, m, TypeOK, ClientTypeOK
  <2>3. HalBounded'
    BY <1>0, <2>1, <2>2, HalStays
  <2>4. Len(q) + 1 \in DOMAIN q' /\ q'[Len(q) + 1] = m
    BY <1>0, <2>1, <2>2, RoomToPush, PushIndexes
  <2>5. \A d \in Clients : Blocked(d)' => d = c
    <3>1. Blocked(c)
      BY <1>4 DEF IdleReturn, Woken, At, Blocked, Waits
    <3>2. QED
      BY <1>0, <2>2, <3>1, OneBlocked DEF Blocked
  <2>6. NoneLost'
    BY <2>1, <2>4, <2>5 DEF NoneLost
  <2>7. QED
    BY <2>3, <2>6 DEF RoomInv
<1>5. CASE Open(c)
  <2>1. q' = <<Message("idleStart", None, None)>>
    BY <1>5 DEF Open
  <2>2. HalBounded'
    BY <1>0, <2>1, HalStays
  <2>3. \A d \in Clients : ~Blocked(d)'
    BY <1>0, <1>5, OpenKeeps
    DEF Open, Return, NoCall, Blocked, Waits, TypeOK, ClientTypeOK
  <2>4. QED
    BY <2>2, <2>3 DEF RoomInv, NoneLost
<1>6. CASE \/ Invoke(c) \/ ApiRefuse(c) \/ ApiEnter(c) \/ RecordRefuse(c)
           \/ StreamSetFails(c) \/ DetectStop(c) \/ Close(c)
           \/ (Detect(c) \/ Stop(c)) /\ Return(c)
  BY <1>0, <1>1, <1>6, QuietSteps
<1>7. CASE \/ RecordEnter(c) \/ CloseStep(c)
           \/ (Detect(c) \/ Stop(c)) /\ ~Return(c)
  BY <1>0, <1>2, <1>7, RecordPushes, DetectPushes, StopPushes, CloseStepPushes
<1>8. QED
  BY <1>3, <1>4, <1>5, <1>6, <1>7 DEF ClientStep

\* So does every step of the main thread and the HAL.
LEMMA SystemRoom ==
    ASSUME Inv, Inv', RoomInv, MainThread \/ \E s \in HalSources : Hal(s)
    PROVE  RoomInv'
<1>0. /\ TypeOK /\ SemInv /\ QueueTypeOK /\ QueueTypeOK'
      /\ QueueShape /\ HalBounded /\ NoneLost /\ UNCHANGED <<call, session>>
  BY SystemFrame DEF Inv, TypeInv, TypeOK, SemInv, RoomInv
<1>1. ASSUME NEW who, Serves(who) PROVE RoomInv'
  <2>1. HalBounded'
    BY <1>0, <1>1, HalStays DEF Serves
  <2>2. \A j \in DOMAIN q : q[j].sem # None => \E i \in DOMAIN q' : q'[i] = q[j]
    BY <1>0, <1>1, ServedQueue DEF Ours
  <2>3. ASSUME NEW d \in Clients, Blocked(d)
        PROVE  \/ d \in posted'
               \/ \E i \in DOMAIN q' : q'[i].sem = d
               \/ \E g \in Groups : inst'[g].sem = d
    <3>1. d # None
      BY SourcesAssumption
    <3>2. CASE d \in posted
      BY <1>1, <3>2 DEF Serves
    <3>3. CASE \E i \in DOMAIN q : q[i].sem = d
      BY <2>2, <3>1, <3>3
    <3>4. ASSUME NEW g \in Groups, inst[g].sem = d
          PROVE  d \in posted' \/ inst'[g].sem = d
      BY <1>1, <3>1, <3>4 DEF Serves
    <3>5. QED
      BY <1>0, <2>3, <3>2, <3>3, <3>4 DEF NoneLost
  <2>4. NoneLost'
    BY <1>0, <2>3 DEF NoneLost, Blocked
  <2>5. QED
    BY <2>1, <2>4 DEF RoomInv
<1>2. CASE Answers
  <2>1. q # <<>> /\ Pop
    BY <1>2 DEF Answers
  <2>2. HalBounded'
    BY <1>0, <2>1, HalStays
  <2>3. \A j \in DOMAIN q : q[j].sem # None => q[j] = Head(q)
    BY <1>0, <1>2, <2>1, PoppedQueue, AnswersKeeps DEF OnlyHal, QueueShape
  <2>4. NoneLost'
    BY <1>0, <1>2, <2>3, SourcesAssumption DEF NoneLost, Blocked, Answers
  <2>5. QED
    BY <2>2, <2>4 DEF RoomInv
<1>3. CASE RecordStart
  <2>1. /\ q # <<>> /\ Pop /\ NoSems /\ posted' = posted
        /\ \E g \in Groups : inst'[g].sem = Head(q).sem
    BY <1>0, <1>3, StartKeeps, GroupOfType
  <2>2. HalBounded'
    BY <1>0, <2>1, HalStays
  <2>3. \A j \in DOMAIN q : q[j] = Head(q) \/ \E i \in DOMAIN q' : q'[i] = q[j]
    BY <1>0, <2>1, PoppedQueue
  <2>4. NoneLost'
    BY <1>0, <2>1, <2>3, SourcesAssumption DEF NoneLost, NoSems, Blocked
  <2>5. QED
    BY <2>2, <2>4 DEF RoomInv
<1>4. QED
  BY <1>0, <1>1, <1>2, <1>3, HandlerKinds, AudioKinds

\* With room in the queue nobody's semaphore is ever lost.
LEMMA RoomCorrect ==
    ASSUME Room
    PROVE  Spec => []RoomInv
<1>1. Init => RoomInv
  <2>1. Init => HalIndexes = {}
    BY DEF Init, HalIndexes
  <2>2. Init => HalBounded
    BY <2>1, FS_EmptySet, QueueAssumption DEF HalBounded
  <2>3. QED
    BY <2>2 DEF Init, RoomInv, NoneLost, Blocked, NoCall, Waits
<1>2. ASSUME Inv, Inv', RoomInv, [Next]_vars PROVE RoomInv'
  <2>1. CASE UNCHANGED vars
    BY <1>2, <2>1
    DEF vars, clientVars, threadVars, RoomInv, HalBounded, HalIndexes, NoneLost, Blocked
  <2>2. QED
    BY <1>2, <2>1, ClientRoom, SystemRoom DEF Next
<1>3. QED
  BY <1>1, <1>2, InvCorrect, PTL DEF Spec

\* The places where the semaphore of a client can be: a queued message, a recording
\* instance, the posted ones.
Places(c) ==
    Cardinality({i \in DOMAIN q : q[i].sem = c})
    + Cardinality({g \in Groups : inst[g].sem = c})
    + (IF c \in posted THEN 1 ELSE 0)
AtMostOneWakeup ==
    \A c \in Clients : Places(c) <= (IF call[c].pc \in Waits THEN 1 ELSE 0)

\* They exclude each other, and only a client that waits has one.
LEMMA OnePlace ==
    ASSUME Inv, NEW c \in Clients
    PROVE  /\ Places(c) \in {0, 1}
           /\ Places(c) = 1 => Blocked(c)
           /\ \/ c \in posted
              \/ \E i \in DOMAIN q : q[i].sem = c
              \/ \E g \in Groups : inst[g].sem = c
              => Places(c) = 1
<1>0. TypeOK /\ QueueTypeOK /\ SemInv
  BY DEF Inv, TypeInv, TypeOK
<1> DEFINE Q == {i \in DOMAIN q : q[i].sem = c}
           I == {g \in Groups : inst[g].sem = c}
<1>1. c # None
  BY SourcesAssumption
<1>2. Q = {} \/ \E i \in DOMAIN q : Q = {i}
  <2>1. \A i, j \in DOMAIN q : q[i].sem = c /\ q[j].sem = c => i = j
    <3>1. \A i, j \in DOMAIN q : q[i].sem # None /\ q[j].sem # None => ~(i < j)
      BY <1>0 DEF SemInv, QueueShape
    <3>2. \A i \in DOMAIN q : i \in Nat
      BY <1>0, MessageInQueue
    <3>3. QED
      BY <1>1, <3>1, <3>2
  <2>2. QED
    BY <2>1
<1>3. I = {} \/ \E g \in Groups : I = {g}
  <2>1. \A g, h \in Groups : inst[g].sem = c /\ inst[h].sem = c => g = h
    BY <1>0, <1>1 DEF SemInv, InstanceOwned
  <2>2. QED
    BY <2>1
<1>4. Q # {} => Blocked(c) /\ I = {} /\ c \notin posted
  BY <1>0, <1>1 DEF SemInv, QueueOwned, NoSems, Asks, Blocked, Waits
<1>5. I # {} => Blocked(c) /\ c \notin posted
  BY <1>0, <1>1 DEF SemInv, InstanceOwned, Blocked, Waits
<1>6. c \in posted => Blocked(c)
  BY <1>0 DEF SemInv, PostedOwned
<1>7. Q # {} <=> \E i \in DOMAIN q : q[i].sem = c
  OBVIOUS
<1>8. I # {} <=> \E g \in Groups : inst[g].sem = c
  OBVIOUS
<1> HIDE DEF Q, I
<1>9. Cardinality(Q) = (IF Q = {} THEN 0 ELSE 1) /\ Cardinality(I) = (IF I = {} THEN 0 ELSE 1)
  BY <1>2, <1>3, FS_EmptySet, FS_Singleton
<1>10. Places(c) = Cardinality(Q) + Cardinality(I) + (IF c \in posted THEN 1 ELSE 0)
  BY DEF Places, Q, I
<1>11. QED
  BY <1>4, <1>5, <1>6, <1>7, <1>8, <1>9, <1>10

\* No post goes to a semaphore on a stack that is gone, nor a second one to a
\* client that waits, whatever the clients call and even when the queue is full.
THEOREM NoStaleWakeup == Spec => []AtMostOneWakeup
<1>1. Inv => AtMostOneWakeup
  BY OnePlace DEF AtMostOneWakeup, Blocked
<1>2. QED
  BY <1>1, InvCorrect, PTL

\* A call that waits has exactly one post coming, and nobody else has one, as long
\* as the queue has room for the clients and for what the HAL leaves in it.
THEOREM OneWakeupAlways ==
    ASSUME Room
    PROVE  Spec => []OneWakeup
<1>1. Inv /\ RoomInv => OneWakeup
  BY OnePlace DEF OneWakeup, Places, Blocked, RoomInv, NoneLost
<1>2. QED
  BY <1>1, InvCorrect, RoomCorrect, PTL

-----------------------------------------------------------------------------
(* The refinement.                                                         *)

\* What a client is doing depends on its call.
LEMMA DoingByCall ==
    ASSUME NEW c \in Clients
    PROVE  /\ call[c].pc \notin Waits \cup {"closing"} => DoingOf(c) = Waiting("none", None)
           /\ call[c].pc = "waitRecord" => DoingOf(c) = Waiting("record", None)
           /\ call[c].pc = "waitDetect" => DoingOf(c) = Waiting("listen", "default")
           /\ call[c].pc = "waitStop" =>
                 DoingOf(c) = Waiting(IF call[c].op = "stop" THEN "stop" ELSE "closeStop",
                                      Group(c))
           /\ call[c].pc = "closing" => DoingOf(c) = Waiting("closing", None)
           /\ call[c].pc = "waitIdle" => DoingOf(c) = Waiting("closeIdle", None)
           /\ call[c].pc = "waitTerm" => DoingOf(c) = Waiting("ending", None)
           /\ call'[c] = call[c] => DoingOf(c)' = DoingOf(c)
BY DEF DoingOf, Waits, Group

\* The initial states are initial states of the service.
LEMMA InitRefines == Init => Recording!Init
<1> SUFFICES ASSUME Init PROVE Recording!Init
  OBVIOUS
<1>1. \A g \in Groups : Phase(g) = "closed" /\ HeldBy(g) = {}
  BY DEF Init, Phase, HeldBy, Starts, Lent, NewSession, NewInst
<1>2. \A c \in Clients : DoingOf(c) = Waiting("none", None)
  BY DoingByCall DEF Init, NoCall, Waits
<1>3. posted = {}
  BY DEF Init
<1>4. QED
  BY <1>1, <1>2, <1>3 DEF Recording!Init, Recording!Nothing, Recording!Doing, Waiting

\* What is held of a group is a destination or the callback, in the next state too.
LEMMA HeldType ==
    ASSUME TypeOK', NEW g \in Groups
    PROVE  HeldBy(g)' \subseteq Dests \cup {"callback"}
<1>1. inst'[g].dests \subseteq Dests
  BY DEF TypeOK, ThreadTypeOK, InstType
<1>2. \A i \in DOMAIN q' : q'[i].dests \subseteq Dests
  <2>1. \A m \in Msg : m.dests \subseteq Dests
    BY DEF Msg
  <2>2. QED
    BY <2>1 DEF TypeOK, QueueTypeOK
<1>3. \A m \in Starts(g)' : m.dests \subseteq Dests
  BY <1>2 DEF Starts
<1>4. QED
  BY <1>1, <1>3 DEF HeldBy, Lent

\* The three mapped variables, and how they change.
Phases  == [g \in Groups |-> Phase(g)]
HeldOf  == [g \in Groups |-> HeldBy(g)]
DoingBy == [c \in Clients |-> DoingOf(c)]

\* A step that changes the phase of at most one group.
LEMMA PhaseChanges ==
    /\ (\A g \in Groups : Phase(g)' = Phase(g)) => Phases' = Phases
    /\ \A g \in Groups : (\A h \in Groups \ {g} : Phase(h)' = Phase(h))
                        => Phases' = [Phases EXCEPT ![g] = Phase(g)']
BY DEF Phases

\* A step that changes what at most one group holds.
LEMMA HeldChanges ==
    /\ (\A g \in Groups : HeldBy(g)' = HeldBy(g)) => HeldOf' = HeldOf
    /\ \A g \in Groups : (\A h \in Groups \ {g} : HeldBy(h)' = HeldBy(h))
                        => HeldOf' = [HeldOf EXCEPT ![g] = HeldBy(g)']
BY DEF HeldOf

\* A step that changes what at most one client does.
LEMMA DoingChanges ==
    /\ (\A c \in Clients : DoingOf(c)' = DoingOf(c)) => DoingBy' = DoingBy
    /\ \A c \in Clients : (\A d \in Clients \ {c} : DoingOf(d)' = DoingOf(d))
                        => DoingBy' = [DoingBy EXCEPT ![c] = DoingOf(c)']
BY DEF DoingBy

\* It changes only with the recording instance and the queued starts.
LEMMA HeldFrame ==
    ASSUME NEW g \in Groups,
           inst'[g].dests = inst[g].dests, inst'[g].cb = inst[g].cb,
           \A i \in DOMAIN q' : q'[i].type = "recordStart" =>
              \E j \in DOMAIN q : q[j] = q'[i],
           \A j \in DOMAIN q : q[j].type = "recordStart" =>
              \E i \in DOMAIN q' : q'[i] = q[j]
    PROVE  HeldBy(g)' = HeldBy(g)
<1>1. Starts(g)' = Starts(g)
  BY DEF Starts
<1>2. QED
  BY <1>1 DEF HeldBy, Lent

\* A group that takes no new thing holds no more than before.
LEMMA HeldShrinks ==
    ASSUME NEW g \in Groups, Shrinks(g),
           \A i \in DOMAIN q' : q'[i].type = "recordStart" =>
              \E j \in DOMAIN q : q[j] = q'[i]
    PROVE  HeldBy(g)' \subseteq HeldBy(g)
<1>1. Starts(g)' \subseteq Starts(g)
  BY DEF Starts
<1>2. QED
  BY <1>1 DEF HeldBy, Lent, Shrinks

\* Nothing is held of a group that is not busy.
LEMMA NoneHeld ==
    ASSUME Inv, NEW g \in Groups, ~Busy(g)
    PROVE  HeldBy(g) = {}
<1>1. Held0(g) /\ Starts(g) = {}
  BY DEF Inv, SemInv, HeldWhileBusy, StartsBusy, IsStart, Starts
<1>2. QED
  BY <1>1 DEF HeldBy, Lent, Held0

\* The phases, by the state of the sessions.
LEMMA PhaseOf ==
    ASSUME NEW g \in Groups
    PROVE  /\ Phase(g) = "closed" <=> session[g].state = "created"
           /\ Phase(g) = "idle" <=> session[g].state = "idling"
           /\ Phase(g) = "listening" <=> session[g].state = "pending"
           /\ Phase(g) = "busy" <=> Busy(g)
           /\ session'[g].state = session[g].state => Phase(g)' = Phase(g)
           /\ Busy(g) /\ Busy(g)' => Phase(g)' = Phase(g)
BY DEF Phase, Busy

\* The steps in which a client does not change what it is doing.
LEMMA QuietRefines ==
    ASSUME Inv, NEW c \in Clients,
           \/ Invoke(c) \/ ApiRefuse(c) \/ ApiEnter(c) \/ RecordRefuse(c)
           \/ StreamSetFails(c) \/ DetectStop(c)
           \/ (Detect(c) \/ Stop(c)) /\ Return(c)
    PROVE  UNCHANGED Recording!recVars
<1>0. TypeOK /\ call \in [Clients -> CallType]
  BY DEF Inv, TypeInv, TypeOK, ClientTypeOK
<1>1. Quietly(c)
  BY <1>0, QuietSteps
<1>2. /\ call[c].pc \notin Waits \cup {"closing"}
      /\ call'[c].pc \notin Waits \cup {"closing"}
  <2>1. call[c].pc \notin Waits \cup {"closing"}
    BY DEF Invoke, ApiRefuse, ApiEnter, RecordRefuse, StreamSetFails, DetectStop, Detect,
       Stop, Enters, At, Waits
  <2>2. call'[c].pc # "closing"
    <3>1. CASE Invoke(c)
      <4>1. /\ \A o : PlainCall(o).pc = "api"
            /\ \A r : RecordCall(r).pc = "api"
            /\ \A s, i : StopCall(s, i).pc = "api"
        BY DEF PlainCall, RecordCall, StopCall, NoCall
      <4>2. \A r \in Calls : r.pc = "api"
        BY <4>1 DEF Calls
      <4>3. QED
        BY <1>0, <3>1, <4>2 DEF Invoke
    <3>2. CASE ~Invoke(c)
      BY <1>0, <3>2
      DEF ApiRefuse, ApiEnter, RecordRefuse, StreamSetFails, DetectStop, Return, Goto,
          NoCall, CallType
    <3>3. QED
      BY <3>1, <3>2
  <2>3. QED
    BY <1>1, <2>1, <2>2 DEF Quietly, Blocked
<1>3. \A d \in Clients : DoingOf(d)' = DoingOf(d)
  <2>1. DoingOf(c)' = Waiting("none", None) /\ DoingOf(c) = Waiting("none", None)
    BY <1>2, DoingByCall DEF DoingOf, Waits
  <2>2. QED
    BY <1>1, <2>1, DoingByCall DEF Quietly
<1>4. \A g \in Groups : session'[g].state = session[g].state
  <2>1. CASE StreamSetFails(c)
    BY <1>0, <2>1 DEF StreamSetFails, TypeOK, ClientTypeOK
  <2>2. CASE (Detect(c) \/ Stop(c)) /\ Return(c)
    BY <1>0, <2>2 DEF Detect, Stop, Goto, Return, NoCall, CallType
  <2>3. QED
    BY <2>1, <2>2 DEF Invoke, ApiRefuse, ApiEnter, RecordRefuse, DetectStop
<1>5. \A g \in Groups : HeldBy(g)' = HeldBy(g) /\ Phase(g)' = Phase(g)
  BY <1>1, <1>4, HeldFrame, PhaseOf DEF Quietly
<1>6. posted' = posted
  BY <1>1 DEF Quietly
<1>7. QED
  BY <1>3, <1>5, <1>6 DEF Recording!recVars

\* Open is the open of the service.
LEMMA OpenRefines ==
    ASSUME Inv, Inv', NEW c \in Clients, Open(c)
    PROVE  Recording!Open
<1>0. TypeOK /\ CloseInv /\ SemInv
  BY DEF Inv, TypeInv
<1>1. /\ \A d \in Clients : ~Blocked(d) /\ call[d].pc # "closing"
      /\ \A g \in Groups : session[g].state = "created" /\ ~Busy(g)
      /\ \A g \in Groups : session'[g].state = "idling" /\ ~Busy(g)'
  BY <1>0, OpenKeeps DEF Open, CloseInv, ClosedQuiet, AllCreated, NewSession, Busy
<1>2. \A d \in Clients : ~Blocked(d)' /\ call'[d].pc # "closing"
  BY <1>0, <1>1 DEF Open, Return, NoCall, Blocked, Waits, TypeOK, ClientTypeOK
<1>3. \A d \in Clients : /\ DoingOf(d) = Waiting("none", None)
                         /\ DoingOf(d)' = Waiting("none", None)
  BY <1>1, <1>2 DEF DoingOf, Blocked, Waits
<1>4. \A g \in Groups : HeldBy(g) = {} /\ HeldBy(g)' = {}
  <2>1. \A g \in Groups : HeldBy(g) = {}
    BY <1>1, NoneHeld
  <2>2. \A g \in Groups : Held0(g)' /\ Starts(g)' = {}
    BY <1>1 DEF Inv, SemInv, HeldWhileBusy, StartsBusy, IsStart, Starts
  <2>3. \A g \in Groups : HeldBy(g)' = {}
    BY <2>2 DEF HeldBy, Lent, Held0
  <2>4. QED
    BY <2>1, <2>3
<1>5. \A g \in Groups : Phase(g) = "closed" /\ Phase(g)' = "idle"
  BY <1>1 DEF Phase
<1>6. posted' = posted
  BY DEF Open
<1>7. QED
  BY <1>3, <1>4, <1>5, <1>6 DEF Recording!Open, Recording!Is, Waiting

\* A client that enters a call is the only one in it.
LEMMA QuietInside ==
    ASSUME Inv, rec = None, \A d \in Clients : ~Blocked(d)
    PROVE  /\ \A d \in Clients : DoingOf(d) = Waiting("none", None)
           /\ Recording!Quiet
<1>1. \A d \in Clients : call[d].pc \notin Waits \cup {"closing"}
  BY SourcesAssumption DEF Inv, CloseInv, RecOwned, Blocked
<1>2. \A d \in Clients : DoingOf(d) = Waiting("none", None)
  BY <1>1, DoingByCall
<1>3. QED
  BY <1>2 DEF Recording!Quiet, Recording!Inside, Recording!Is, Waiting

\* A message that starts no session changes nothing of what is held, and one client.
LEMMA PushRefines ==
    ASSUME Inv, NEW c \in Clients, NEW m, Pushes(c, m), m.type # "recordStart"
    PROVE  /\ \A d \in Clients \ {c} : DoingOf(d)' = DoingOf(d)
           /\ \A g \in Groups : HeldBy(g)' = HeldBy(g)
           /\ posted' = posted
<1>1. \A d \in Clients \ {c} : DoingOf(d)' = DoingOf(d)
  BY DoingByCall DEF Pushes
<1>2. /\ \A i \in DOMAIN q : i \in DOMAIN q' /\ q'[i] = q[i]
      /\ \A i \in DOMAIN q' : i \in DOMAIN q \/ q'[i] = m
  BY PushIndexes DEF Pushes, Inv, TypeInv, TypeOK
<1>3. \A g \in Groups : HeldBy(g)' = HeldBy(g)
  BY <1>2, HeldFrame DEF Pushes
<1>4. QED
  BY <1>1, <1>3 DEF Pushes

\* Recording: the start that is queued brings everything that is held.
LEMMA RecordRefines ==
    ASSUME Room, Inv, Inv', RoomInv, NEW c \in Clients, RecordEnter(c)
    PROVE  Recording!Start(c, Group(c)) /\ Group(c) \in Groups
<1>0. /\ TypeInv /\ TypeOK /\ TypeOK' /\ CloseInv /\ SemInv /\ QueueTypeOK
      /\ call \in [Clients -> CallType]
  BY DEF Inv, TypeInv, TypeOK, ClientTypeOK
<1>1. PICK g \in Groups : g = Group(c)
  BY <1>0, GroupOfType DEF Group, TypeOK
<1>2. PICK m \in Msg :
         /\ Pushes(c, m) /\ m.type = "recordStart" /\ GroupOf(m.src) = g
         /\ m.sem = (IF call[c].sync THEN c ELSE None) /\ m.dests # {}
  BY <1>0, <1>1, RecordPushes DEF Pushes
<1>3. Len(q) < QMax
  BY <1>0, RoomToPush DEF RoomInv, SemInv
<1>4. /\ \A i \in DOMAIN q : i \in DOMAIN q' /\ q'[i] = q[i]
      /\ \A i \in DOMAIN q' : i \in DOMAIN q \/ q'[i] = m
      /\ Len(q) + 1 \in DOMAIN q' /\ q'[Len(q) + 1] = m
  BY <1>0, <1>2, <1>3, PushIndexes DEF Pushes
<1>5. /\ session[g].state \in {"idling", "pending"} /\ ~Busy(g)
      /\ session'[g].state \in {"recording", "streaming"}
      /\ \A h \in Groups \ {g} : session'[h].state = session[h].state
  BY <1>0, <1>1
  DEF RecordEnter, RecordAllowed, StartedState, TypeOK, ClientTypeOK, Busy
<1>6. /\ Phase(g) \in {"idle", "listening"} /\ Phase(g)' = "busy"
      /\ \A h \in Groups \ {g} : Phase(h)' = Phase(h)
  <2>1. Phase(g) \in {"idle", "listening"}
    BY <1>5 DEF Phase
  <2>2. Phase(g)' = "busy"
    BY <1>5 DEF Phase
  <2>3. QED
    BY <1>5, <2>1, <2>2, PhaseOf
<1>7. \A h \in Groups \ {g} : HeldBy(h)' = HeldBy(h)
  <2>1. ASSUME NEW h \in Groups \ {g} PROVE HeldBy(h)' = HeldBy(h)
    <3>1. Starts(h)' = Starts(h)
      BY <1>2, <1>4 DEF Starts
    <3>2. QED
      BY <1>2, <3>1 DEF HeldBy, Lent, Pushes
  <2>2. QED
    BY <2>1
<1>8. HeldBy(g) = {}
  BY <1>5, NoneHeld
<1>9. HeldBy(g)' \in (SUBSET (Dests \cup {"callback"})) \ {{}}
  <2>1. m \in Starts(g)'
    BY <1>2, <1>4 DEF Starts
  <2>2. m.dests \subseteq HeldBy(g)'
    BY <2>1 DEF HeldBy, Lent
  <2>3. HeldBy(g)' \subseteq Dests \cup {"callback"}
    BY <1>0, HeldType
  <2>4. QED
    BY <1>2, <2>2, <2>3
<1>10. /\ \A d \in Clients : DoingOf(d) = Waiting("none", None)
       /\ Recording!Quiet
  BY <1>2, QuietInside DEF RecordEnter, Enters, Pushes
<1>11. /\ \A d \in Clients \ {c} : DoingOf(d)' = DoingOf(d)
       /\ DoingOf(c)' = IF call[c].sync THEN Waiting("record", None)
                                        ELSE Waiting("none", None)
  <2>1. call'[c].pc = IF call[c].sync THEN "waitRecord" ELSE "out"
    BY <1>0 DEF RecordEnter, Goto, Return, NoCall, CallType
  <2>2. DoingOf(c)' = IF call[c].sync THEN Waiting("record", None)
                                      ELSE Waiting("none", None)
    BY <2>1 DEF DoingOf
  <2>3. QED
    BY <1>2, <2>2, DoingByCall DEF Pushes
<1>12. posted' = posted
  BY <1>2 DEF Pushes
<1>13. Phases' = [Phases EXCEPT ![g] = "busy"]
  BY <1>6, PhaseChanges
<1>14. \E t \in (SUBSET (Dests \cup {"callback"})) \ {{}} :
          HeldOf' = [HeldOf EXCEPT ![g] = t]
  BY <1>7, <1>9, HeldChanges
<1>15. \/ DoingBy' = [DoingBy EXCEPT ![c] = Waiting("record", None)]
       \/ DoingBy' = DoingBy
  BY <1>10, <1>11, DoingChanges
<1>16. /\ Phases[g] \in {"idle", "listening"} /\ HeldOf[g] = {}
       /\ DoingBy[c].call = "none"
  BY <1>6, <1>8, <1>10 DEF Phases, HeldOf, DoingBy, Waiting
<1>17. /\ Recording!Enter(c, "record", None) \/ UNCHANGED DoingBy
       /\ Recording!Quiet
  BY <1>10, <1>15, <1>16
  DEF Recording!Enter, Recording!Is, Recording!Doing, Waiting, DoingBy
<1>18. Recording!Start(c, g)
  BY <1>12, <1>13, <1>14, <1>16, <1>17 DEF Recording!Start, Phases, HeldOf, DoingBy
<1>19. QED
  BY <1>1, <1>18

\* Arming the detector, and stopping.
LEMMA DetectRefines ==
    ASSUME Inv, NEW c \in Clients, Detect(c), ~Return(c)
    PROVE  Recording!Listen(c, "default") /\ "default" \in Groups
<1>0. TypeOK /\ CloseInv /\ "default" \in Groups /\ session \in [Groups -> [state : States, dests : SUBSET Dests]]
  BY DEF Inv, TypeInv, TypeOK, ClientTypeOK, Groups
<1>1. PICK m : /\ Pushes(c, m) /\ m.type = "detect"
               /\ call'[c].pc = "waitDetect"
               /\ session["default"].state = "idling"
               /\ session' = [session EXCEPT !["default"].state = "pending"]
  <2>1. Message("detect", None, c).type = "detect"
    BY DEF Message
  <2>2. QED
    BY <1>0, <2>1, DetectPushes
<1>2. /\ \A d \in Clients \ {c} : DoingOf(d)' = DoingOf(d)
      /\ \A g \in Groups : HeldBy(g)' = HeldBy(g)
      /\ posted' = posted
  BY <1>1, PushRefines
<1>3. DoingOf(c)' = Waiting("listen", "default")
  BY <1>1 DEF DoingOf
<1>4. /\ Phase("default") = "idle" /\ Phase("default")' = "listening"
      /\ \A g \in Groups \ {"default"} : Phase(g)' = Phase(g)
  <2>1. Phase("default") = "idle"
    BY <1>1 DEF Phase
  <2>2. Phase("default")' = "listening"
    BY <1>0, <1>1 DEF Phase
  <2>3. QED
    BY <1>0, <1>1, <2>1, <2>2, PhaseOf
<1>5. /\ \A d \in Clients : DoingOf(d) = Waiting("none", None)
      /\ Recording!Quiet
  BY <1>1, QuietInside DEF Detect, Enters, Pushes
<1>6. /\ Phases' = [Phases EXCEPT !["default"] = "listening"] /\ HeldOf' = HeldOf
      /\ DoingBy' = [DoingBy EXCEPT ![c] = Waiting("listen", "default")]
  BY <1>0, <1>2, <1>3, <1>4, PhaseChanges, HeldChanges, DoingChanges
<1>7. QED
  BY <1>0, <1>2, <1>4, <1>5, <1>6
  DEF Recording!Listen, Recording!Enter, Recording!Is, Recording!Doing, Waiting,
      Phases, HeldOf, DoingBy

\* Stop is a stop of the service.
LEMMA StopRefines ==
    ASSUME Inv, NEW c \in Clients, Stop(c), ~Return(c)
    PROVE  Recording!Stop(c, Group(c)) /\ Group(c) \in Groups
<1>0. TypeOK /\ CloseInv
  BY DEF Inv, TypeInv
<1>1. PICK g \in Groups : g = Group(c)
  BY <1>0, GroupOfType DEF Group, TypeOK
<1>2. PICK m : /\ Pushes(c, m) /\ m.type = "recordStop"
               /\ call'[c].pc = "waitStop" /\ call'[c].op = "stop" /\ Group(c)' = g
               /\ session[g].state \in {"recording", "streaming", "pending"}
               /\ session' = session
  BY <1>0, <1>1, StopPushes
<1>3. /\ \A d \in Clients \ {c} : DoingOf(d)' = DoingOf(d)
      /\ \A h \in Groups : HeldBy(h)' = HeldBy(h)
      /\ posted' = posted
  BY <1>2, PushRefines
<1>4. DoingOf(c)' = Waiting("stop", g)
  BY <1>2 DEF DoingOf
<1>5. Phase(g) \in {"listening", "busy"} /\ \A h \in Groups : Phase(h)' = Phase(h)
  BY <1>2, PhaseOf DEF Phase
<1>6. /\ \A d \in Clients : DoingOf(d) = Waiting("none", None)
      /\ Recording!Quiet
  BY <1>2, QuietInside DEF Stop, Enters, Pushes
<1>7. /\ Phases' = Phases /\ HeldOf' = HeldOf
      /\ DoingBy' = [DoingBy EXCEPT ![c] = Waiting("stop", g)]
  BY <1>3, <1>4, <1>5, PhaseChanges, HeldChanges, DoingChanges
<1>8. Recording!Stop(c, g)
  BY <1>3, <1>5, <1>6, <1>7
  DEF Recording!Stop, Recording!Enter, Recording!Is, Recording!Doing, Waiting,
      Phases, HeldOf, DoingBy
<1>9. QED
  BY <1>1, <1>8

\* Closing: the call, the stop of a busy group, and the stop of the microphone.
LEMMA CloseRefines ==
    ASSUME Inv, NEW c \in Clients, Close(c)
    PROVE  Recording!Close(c)
<1>0. /\ TypeOK /\ CloseInv /\ call \in [Clients -> CallType]
      /\ rec = None /\ call[c].op = "close" /\ call[c].pc = "rec"
  BY DEF Inv, TypeInv, TypeOK, ClientTypeOK, Close, Enters, At
<1>1. Quietly(c)
  BY <1>0, QuietSteps
<1>2. \A d \in Clients : ~Blocked(d)
  BY <1>0, ThreadServes, SourcesAssumption DEF CloseInv, RecOwned, Blocked, Waits
<1>3. /\ \A d \in Clients : DoingOf(d) = Waiting("none", None)
      /\ Recording!Quiet
  BY <1>0, <1>2, QuietInside
<1>4. /\ \A d \in Clients \ {c} : DoingOf(d)' = DoingOf(d)
      /\ DoingOf(c)' = Waiting("closing", None)
  <2>1. call'[c].pc = "closing"
    BY <1>0 DEF Close, Goto, CallType
  <2>2. DoingOf(c)' = Waiting("closing", None)
    BY <2>1 DEF DoingOf
  <2>3. QED
    BY <1>1, <2>2, DoingByCall DEF Quietly
<1>5. \A g \in Groups : HeldBy(g)' = HeldBy(g) /\ Phase(g)' = Phase(g)
  BY <1>1, HeldFrame, PhaseOf DEF Quietly, Close
<1>6. /\ Phases' = Phases /\ HeldOf' = HeldOf
      /\ DoingBy' = [DoingBy EXCEPT ![c] = Waiting("closing", None)]
  BY <1>4, <1>5, PhaseChanges, HeldChanges, DoingChanges
<1>7. posted' = posted
  BY <1>1 DEF Quietly
<1>8. QED
  BY <1>3, <1>6, <1>7
  DEF Recording!Close, Recording!Enter, Recording!Is, Recording!Doing, Waiting,
      Phases, HeldOf, DoingBy

\* A step of a close is one of the service.
LEMMA CloseStepRefines ==
    ASSUME Inv, NEW c \in Clients, CloseStep(c)
    PROVE  Recording!CloseIdle(c) \/ \E g \in Groups : Recording!CloseStop(c, g)
<1>0. TypeOK /\ CloseInv
  BY DEF Inv, TypeInv
<1>1. /\ call[c].pc = "closing" /\ call'[c].op = "close" /\ session' = session
      /\ \/ call'[c].pc = "waitStop" /\ Busy(Group(c)') /\ Group(c)' \in Groups
         \/ call'[c].pc = "waitIdle" /\ \A g \in Groups : ~Busy(g)
  BY <1>0, CloseStepPushes
<1>2. PICK m : Pushes(c, m) /\ m.type \in {"recordStop", "idleStop"}
  BY <1>0, CloseStepPushes
<1>3. /\ \A d \in Clients \ {c} : DoingOf(d)' = DoingOf(d)
      /\ \A h \in Groups : HeldBy(h)' = HeldBy(h)
      /\ posted' = posted
  BY <1>2, PushRefines
<1>4. \A h \in Groups : Phase(h)' = Phase(h)
  BY <1>1, PhaseOf
<1>5. Phases' = Phases /\ HeldOf' = HeldOf /\ DoingOf(c) = Waiting("closing", None)
  BY <1>1, <1>3, <1>4, PhaseChanges, HeldChanges, DoingByCall
<1>6. CASE call'[c].pc = "waitStop"
  <2>1. PICK g \in Groups : g = Group(c)' /\ Busy(g)
    BY <1>1, <1>6
  <2>2. DoingOf(c)' = Waiting("closeStop", g)
    BY <1>1, <1>6, <2>1 DEF DoingOf
  <2>3. DoingBy' = [DoingBy EXCEPT ![c] = Waiting("closeStop", g)]
    BY <1>3, <2>2, DoingChanges
  <2>4. Phase(g) = "busy"
    BY <2>1, PhaseOf
  <2>5. Recording!CloseStop(c, g)
    BY <1>3, <1>5, <2>3, <2>4
    DEF Recording!CloseStop, Recording!Is, Recording!Doing, Waiting, Phases, HeldOf,
        DoingBy
  <2>6. QED
    BY <2>5
<1>7. CASE call'[c].pc = "waitIdle"
  <2>1. DoingOf(c)' = Waiting("closeIdle", None)
    BY <1>7 DEF DoingOf
  <2>2. DoingBy' = [DoingBy EXCEPT ![c] = Waiting("closeIdle", None)]
    BY <1>3, <2>1, DoingChanges
  <2>3. \A g \in Groups : Phase(g) # "busy"
    BY <1>1, <1>7, PhaseOf
  <2>4. QED
    BY <1>3, <1>5, <2>2, <2>3
    DEF Recording!CloseIdle, Recording!Is, Recording!Doing, Waiting, Phases, HeldOf,
        DoingBy
<1>8. QED
  BY <1>1, <1>6, <1>7

\* A client that returns finds no start in the queue, before and after.
LEMMA ReturnHolds ==
    ASSUME Inv, NEW c \in Clients, Returns(c) \/ IdleReturn(c), OnlyHal,
           \A i \in DOMAIN q' : q'[i].type # "recordStart" \/ (i \in DOMAIN q /\ q[i] = q'[i])
    PROVE  HeldOf' = HeldOf
<1>1. UNCHANGED inst
  BY DEF Returns, IdleReturn, InputUnchanged, threadVars
<1>2. /\ \A i \in DOMAIN q : q[i].type # "recordStart"
      /\ \A i \in DOMAIN q' : q'[i].type # "recordStart"
  BY DEF OnlyHal, HalTypes
<1>3. \A g \in Groups : HeldBy(g)' = HeldBy(g)
  BY <1>1, <1>2, HeldFrame
<1>4. QED
  BY <1>3, HeldChanges

\* The return of a dispatch or of the end of the thread is that of a call.
LEMMA CallReturnRefines ==
    ASSUME Inv, NEW c \in Clients, DispatchReturn(c) \/ TermReturn(c)
    PROVE  Recording!CallReturn(c)
<1>0. TypeOK /\ CloseInv /\ SemInv /\ call \in [Clients -> CallType]
  BY DEF Inv, TypeInv, TypeOK, ClientTypeOK
<1>1. /\ Returns(c) /\ ~Blocked(c)' /\ (UNCHANGED q \/ q' = <<>>)
      /\ call[c].pc \in {"waitRecord", "waitDetect", "waitTerm"}
      /\ session' = session /\ call'[c].pc = "out"
  <2>1. Returns(c) /\ ~Blocked(c)' /\ (UNCHANGED q \/ q' = <<>>)
    BY <1>0, ReturnSteps
  <2>2. /\ call[c].pc \in {"waitRecord", "waitDetect", "waitTerm"}
        /\ session' = session /\ call'[c].pc = "out"
    BY <1>0 DEF DispatchReturn, TermReturn, Woken, At, Return, NoCall
  <2>3. QED
    BY <2>1, <2>2
<1>2. OnlyHal
  BY <1>0, <1>1, ReturnKeeps
<1>3. HeldOf' = HeldOf
  BY <1>1, <1>2, ReturnHolds
<1>4. Phases' = Phases
  BY <1>1, PhaseOf, PhaseChanges
<1>5. DoingBy' = [DoingBy EXCEPT ![c] = Waiting("none", None)]
  <2>1. DoingOf(c)' = Waiting("none", None)
    BY <1>1 DEF DoingOf
  <2>2. QED
    BY <1>1, <2>1, DoingByCall, DoingChanges DEF Returns
<1>6. DoingBy[c].call \in {"record", "listen", "ending"}
  BY <1>1, DoingByCall DEF Waiting, DoingBy
<1>7. Recording!Is(c, {"record", "listen", "ending"})
  BY <1>6 DEF Recording!Is, DoingBy
<1>8. Recording!Returns(c, Waiting("none", None))
  BY <1>1, <1>3, <1>5 DEF Recording!Returns, Returns, HeldOf, DoingBy
<1>9. QED
  BY <1>4, <1>7, <1>8
  DEF Recording!CallReturn, Recording!Nothing, Recording!Doing, Waiting, Phases

\* The return of a stop is one of the service.
LEMMA StopReturnRefines ==
    ASSUME Inv, NEW c \in Clients, StopReturn(c)
    PROVE  Recording!StopReturn(c)
<1>0. TypeOK /\ CloseInv /\ SemInv /\ call \in [Clients -> CallType]
  BY DEF Inv, TypeInv, TypeOK, ClientTypeOK
<1>1. /\ Returns(c) /\ ~Blocked(c)' /\ UNCHANGED q
      /\ call[c].pc = "waitStop"
      /\ call'[c].pc = IF call[c].op = "stop" THEN "out" ELSE "closing"
  <2>1. Returns(c) /\ ~Blocked(c)'
    BY <1>0, ReturnSteps
  <2>2. /\ UNCHANGED q /\ call[c].pc = "waitStop"
        /\ call'[c].pc = IF call[c].op = "stop" THEN "out" ELSE "closing"
    BY <1>0 DEF StopReturn, Woken, At, Return, Goto, NoCall, CallType
  <2>3. QED
    BY <2>1, <2>2
<1>2. PICK g \in Groups : g = Group(c)
  BY <1>0, GroupOfType DEF Group, TypeOK
<1>3. /\ session'[g].state = "idling"
      /\ \A h \in Groups \ {g} : session'[h].state = session[h].state
  BY <1>0, <1>2 DEF StopReturn, TypeOK, ClientTypeOK
<1>4. HeldOf' = HeldOf
  <2>1. OnlyHal
    BY <1>0, <1>1, ReturnKeeps
  <2>2. QED
    BY <1>1, <2>1, ReturnHolds
<1>5. Phases' = [Phases EXCEPT ![g] = "idle"]
  <2>1. Phase(g)' = "idle"
    BY <1>3 DEF Phase
  <2>2. QED
    BY <1>3, <2>1, PhaseOf, PhaseChanges
<1>6. /\ DoingBy[c] = Waiting(IF call[c].op = "stop" THEN "stop" ELSE "closeStop", g)
      /\ DoingBy' = [DoingBy EXCEPT ![c] =
             Waiting(IF call[c].op = "stop" THEN "none" ELSE "closing", None)]
  <2>1. DoingOf(c)' = Waiting(IF call[c].op = "stop" THEN "none" ELSE "closing", None)
    BY <1>1 DEF DoingOf
  <2>2. DoingBy[c] = DoingOf(c)
    BY DEF DoingBy
  <2>3. QED
    BY <1>1, <1>2, <2>1, <2>2, DoingByCall, DoingChanges DEF Returns
<1>7. /\ Recording!Is(c, {"stop", "closeStop"})
      /\ Recording!Is(c, {"stop"}) <=> call[c].op = "stop"
  BY <1>6 DEF Recording!Is, DoingBy, Waiting
<1>8. Recording!Returns(c, IF Recording!Is(c, {"stop"}) THEN Waiting("none", None)
                                                       ELSE Waiting("closing", None))
  BY <1>1, <1>4, <1>6, <1>7 DEF Recording!Returns, Returns, Waiting, HeldOf, DoingBy
<1>9. DoingBy[c].on = g
  BY <1>6 DEF Waiting
<1>10. QED
  BY <1>5, <1>7, <1>8, <1>9
  DEF Recording!StopReturn, Recording!Nothing, Recording!Doing, Waiting, Phases, DoingBy

\* The return of the idle stop is one of the service.
LEMMA IdleReturnRefines ==
    ASSUME Inv, NEW c \in Clients, IdleReturn(c)
    PROVE  Recording!IdleReturn(c)
<1>0. TypeOK /\ CloseInv /\ SemInv /\ call \in [Clients -> CallType] /\ QueueTypeOK
  BY DEF Inv, TypeInv, TypeOK, ClientTypeOK
<1>1. /\ call[c].pc = "waitIdle" /\ c \in posted /\ posted' = posted \ {c}
      /\ call'[c].pc = "waitTerm" /\ \A d \in Clients \ {c} : call'[d] = call[d]
      /\ \A g \in Groups : session'[g].state = "created"
      /\ Push(Message("terminate", None, c))
  BY <1>0
  DEF IdleReturn, Woken, At, Goto, Closed, TypeOK, ClientTypeOK, CallType
<1>2. \A i \in DOMAIN q' :
         q'[i].type # "recordStart" \/ (i \in DOMAIN q /\ q[i] = q'[i])
  <2>1. /\ Message("terminate", None, c) \in Msg
        /\ Message("terminate", None, c).type = "terminate"
    BY MessageType DEF Message, MsgTypes
  <2>2. PICK m \in Msg : Push(m) /\ m.type = "terminate"
    BY <1>1, <2>1
  <2>3. /\ \A i \in DOMAIN q : q'[i] = q[i]
        /\ \A i \in DOMAIN q' : i \in DOMAIN q \/ q'[i] = m
    <3>1. QueueTypeOK /\ Push(m)
      BY <1>0, <2>2
    <3>2. QED
      BY <3>1, PushIndexes
  <2>4. QED
    BY <2>2, <2>3
<1>3. HeldOf' = HeldOf
  BY <1>0, <1>2, IdleReturnKeeps, ReturnHolds
<1>4. Phases' = [g \in Groups |-> "closed"]
  BY <1>1 DEF Phases, Phase
<1>5. /\ DoingOf(c) = Waiting("closeIdle", None)
      /\ DoingBy' = [DoingBy EXCEPT ![c] = Waiting("ending", None)]
  <2>1. DoingOf(c)' = Waiting("ending", None)
    BY <1>1 DEF DoingOf
  <2>2. QED
    BY <1>1, <2>1, DoingByCall, DoingChanges
<1>6. QED
  BY <1>1, <1>3, <1>4, <1>5
  DEF Recording!IdleReturn, Recording!Returns, Recording!Is, Recording!Doing, Waiting,
      Phases, HeldOf, DoingBy

\* The main thread and the HAL only take from what is held, and tell clients that
\* wait, whose groups are then released.
LEMMA ProgressRefines ==
    ASSUME Inv, TypeOK', UNCHANGED <<call, session>>, NEW who \in SUBSET Clients,
           posted' = posted \cup who,
           \A c \in who : Blocked(c) /\ c \notin posted,
           \A g \in Groups : HeldBy(g)' \subseteq HeldBy(g),
           \A c \in who : \A g \in Groups :
              \/ call[c].pc = "waitStop" /\ g = Group(c)
              \/ call[c].pc = "waitDetect" /\ g = "default"
              \/ call[c].pc \in {"waitIdle", "waitTerm"}
              => HeldBy(g)' = {}
    PROVE  Recording!Progress(who)
<1>0. TypeOK /\ "default" \in Groups /\ \A c \in Clients : Group(c) \in Groups
  BY GroupOfType DEF Inv, TypeInv, TypeOK, ClientTypeOK, CallType, Group, Groups
<1>1. Phases' = Phases /\ DoingBy' = DoingBy
  <2>1. \A g \in Groups : Phase(g)' = Phase(g)
    BY DEF Phase
  <2>2. \A c \in Clients : DoingOf(c)' = DoingOf(c)
    BY DoingByCall
  <2>3. QED
    BY <2>1, <2>2, PhaseChanges, DoingChanges
<1>2. HeldOf' \in [Groups -> SUBSET (Dests \cup {"callback"})]
  BY HeldType DEF HeldOf
<1>3. \A g \in Groups : HeldOf'[g] \subseteq HeldOf[g]
  BY DEF HeldOf
<1>4. ASSUME NEW c \in who
      PROVE  /\ DoingBy[c].call \notin {"none", "closing"} /\ c \notin posted
             /\ DoingBy[c].call \in {"stop", "closeStop", "listen"}
                   => HeldOf'[DoingBy[c].on] = {}
             /\ DoingBy[c].call \in {"closeIdle", "ending"}
                   => \A g \in Groups : HeldOf'[g] = {}
  <2>0. DoingBy[c] = DoingOf(c) /\ c \in Clients /\ Blocked(c) /\ c \notin posted
    BY DEF DoingBy
  <2>1. CASE call[c].pc = "waitRecord"
    BY <2>0, <2>1, DoingByCall DEF Waiting
  <2>2. CASE call[c].pc = "waitDetect"
    <3>1. DoingBy[c] = Waiting("listen", "default") /\ HeldBy("default")' = {}
      BY <1>0, <2>0, <2>2, DoingByCall
    <3>2. HeldOf'["default"] = {}
      BY <1>0, <3>1 DEF HeldOf
    <3>3. QED
      BY <2>0, <3>1, <3>2 DEF Waiting
  <2>3. CASE call[c].pc = "waitStop"
    <3>1. PICK g \in Groups : g = Group(c)
      BY <1>0, <2>0
    <3>2. /\ DoingBy[c] = Waiting(IF call[c].op = "stop" THEN "stop" ELSE "closeStop", g)
          /\ HeldBy(g)' = {}
      BY <2>0, <2>3, <3>1, DoingByCall
    <3>3. HeldOf'[g] = {}
      BY <3>2 DEF HeldOf
    <3>4. QED
      BY <2>0, <3>2, <3>3 DEF Waiting
  <2>4. CASE call[c].pc \in {"waitIdle", "waitTerm"}
    <3>1. DoingBy[c].call \in {"closeIdle", "ending"}
      BY <2>0, <2>4, DoingByCall DEF Waiting
    <3>2. \A g \in Groups : HeldBy(g)' = {}
      BY <2>4
    <3>3. \A g \in Groups : HeldOf'[g] = {}
      BY <3>2 DEF HeldOf
    <3>4. QED
      BY <2>0, <3>1, <3>3
  <2>5. QED
    BY <2>0, <2>1, <2>2, <2>3, <2>4 DEF Blocked, Waits
<1>5. QED
  BY <1>1, <1>2, <1>3, <1>4
  DEF Recording!Progress, Recording!Is, Recording!ReleasesGroup, Recording!ReleasesAll,
      Phases, HeldOf, DoingBy

\* A handler that serves some of those who wait is progress of the service.
LEMMA ServesRefines ==
    ASSUME Inv, TypeOK', UNCHANGED <<call, session>>, NEW who, Serves(who)
    PROVE  Recording!Progress(who \ {None}) /\ who \ {None} \subseteq Clients
<1>0. TypeOK /\ SemInv
  BY DEF Inv, TypeInv
<1>1. \A c \in who \ {None} :
         /\ c \in Clients /\ c \notin posted /\ call[c].pc = "waitRecord"
  BY <1>0 DEF Serves, SemInv, InstanceOwned, TypeOK, ThreadTypeOK, InstType
<1>2. \A g \in Groups : HeldBy(g)' \subseteq HeldBy(g)
  <2>1. \A i \in DOMAIN q' : q'[i].type = "recordStart" => \E j \in DOMAIN q : q[j] = q'[i]
    BY <1>0, ServedQueue DEF SemInv, Ours
  <2>2. QED
    BY <2>1, HeldShrinks DEF Serves
<1>3. PICK them \in SUBSET Clients : them = who \ {None}
  BY <1>1
<1>4. Recording!Progress(them)
  BY <1>1, <1>2, <1>3, ProgressRefines DEF Serves, Blocked, Waits
<1>5. QED
  BY <1>3, <1>4

\* A handler that answers one message is progress of the service.
LEMMA AnswersRefines ==
    ASSUME Inv, TypeOK', UNCHANGED <<call, session>>, Answers
    PROVE  \E who \in SUBSET Clients : Recording!Progress(who)
<1>0. TypeOK /\ CloseInv /\ SemInv
  BY DEF Inv, TypeInv
<1>1. PICK c \in Clients, m \in Msg : m = Head(q) /\ m.sem = c
  <2>1. Head(q).sem \in Clients /\ Head(q) \in Msg
    BY <1>0, AnswersKeeps, PopIndexes, MessageInQueue DEF Answers, TypeOK
  <2>2. QED
    BY <2>1
<1>2. /\ SemInv' /\ OnlyHal' /\ c \notin posted /\ posted' = posted \cup {c}
      /\ Asks(m, call[c])
      /\ \A g \in Groups : \/ m.type = "recordStop" /\ GroupOf(m.src) = g
                           \/ m.type = "detect" /\ g = "default"
                           => Held0(g)'
  BY <1>0, <1>1, AnswersKeeps DEF Answers
<1>3. \A g \in Groups : Held0(g)' => HeldBy(g)' = {}
  <2>1. \A g \in Groups : Starts(g)' = {}
    BY <1>2 DEF OnlyHal, Starts, HalTypes
  <2>2. QED
    BY <2>1 DEF HeldBy, Held0, Lent
<1>4. \A g \in Groups : HeldBy(g)' \subseteq HeldBy(g)
  <2>1. \A i \in DOMAIN q' : q'[i].type # "recordStart"
    BY <1>2 DEF OnlyHal, HalTypes
  <2>2. QED
    BY <2>1, HeldShrinks DEF Answers
<1>5. (Blocked(c) /\ call[c].pc # "waitRecord") \/ m.type = "recordStart"
  BY <1>2 DEF Asks, Blocked, Waits
<1>6. m.type # "recordStart"
  BY <1>1 DEF Answers
<1>7. ASSUME NEW g \in Groups,
             \/ call[c].pc = "waitStop" /\ g = Group(c)
             \/ call[c].pc = "waitDetect" /\ g = "default"
             \/ call[c].pc \in {"waitIdle", "waitTerm"}
      PROVE  HeldBy(g)' = {}
  <2>1. CASE call[c].pc = "waitStop" /\ g = Group(c)
    BY <1>2, <1>3, <1>6, <2>1 DEF Asks, Group
  <2>2. CASE call[c].pc = "waitDetect" /\ g = "default"
    BY <1>2, <1>3, <1>6, <2>2 DEF Asks
  <2>3. CASE call[c].pc \in {"waitIdle", "waitTerm"}
    <3>1. ~Busy(g)'
      BY <1>0, <2>3 DEF SemInv, IdleQuiet, CloseInv, TermQuiet, AllCreated, Busy
    <3>2. Held0(g)'
      BY <1>2, <3>1 DEF SemInv, HeldWhileBusy
    <3>3. QED
      BY <1>3, <3>2
  <2>4. QED
    BY <1>7, <2>1, <2>2, <2>3
<1>8. PICK who \in SUBSET Clients : who = {c}
  OBVIOUS
<1>9. Recording!Progress(who)
  BY <1>2, <1>4, <1>5, <1>6, <1>7, <1>8, ProgressRefines
<1>10. QED
  BY <1>9

\* The start of a recording is progress of the service.
LEMMA StartRefines ==
    ASSUME Inv, TypeOK', UNCHANGED <<call, session>>, RecordStart
    PROVE  \E who \in SUBSET Clients : Recording!Progress(who)
<1>0. TypeOK /\ SemInv
  BY DEF Inv, TypeInv
<1>1. PICK m \in Msg, s \in Groups : m = Head(q) /\ s = GroupOf(m.src)
  <2>1. Head(q) \in Msg /\ GroupOf(Head(q).src) \in Groups
    BY <1>0, StartKeeps, MessageInQueue, GroupOfType DEF TypeOK
  <2>2. QED
    BY <2>1
<1>2. /\ posted' = posted /\ q # <<>> /\ Pop /\ 1 \in DOMAIN q /\ q[1] = m
      /\ q[1].type = "recordStart"
      /\ \A h \in Groups :
            IF h = s THEN inst'[h].dests = m.dests /\ inst'[h].cb = (m.sem = None)
                     ELSE inst'[h] = inst[h]
  BY <1>0, <1>1, StartKeeps DEF IsStart
<1>3. \A i \in DOMAIN q' : \E j \in DOMAIN q : q[j] = q'[i]
  BY <1>0, <1>2, PoppedQueue DEF TypeOK, SemInv
<1>4. ASSUME NEW g \in Groups PROVE HeldBy(g)' \subseteq HeldBy(g)
  <2>1. Starts(g)' \subseteq Starts(g)
    BY <1>3 DEF Starts
  <2>2. CASE g = s
    <3>1. m \in Starts(g)
      BY <1>1, <1>2, <2>2 DEF Starts
    <3>2. Lent(inst[g].dests, inst[g].cb)' = Lent(m.dests, m.sem = None)
      BY <1>2, <2>2 DEF Lent
    <3>3. QED
      BY <2>1, <3>1, <3>2 DEF HeldBy, Lent
  <2>3. CASE g # s
    BY <1>2, <2>1, <2>3 DEF HeldBy, Lent
  <2>4. QED
    BY <2>2, <2>3
<1>5. PICK who \in SUBSET Clients : who = {}
  OBVIOUS
<1>6. Recording!Progress(who)
  BY <1>2, <1>4, <1>5, ProgressRefines
<1>7. QED
  BY <1>6

-----------------------------------------------------------------------------
(* The main result.                                                        *)

\* Every step is one of the service, or none.
LEMMA StepRefines ==
    ASSUME Room, Inv, Inv', RoomInv, [Next]_vars
    PROVE  [Recording!Next]_(Recording!recVars)
<1>1. ASSUME NEW c \in Clients, Invoke(c) \/ ClientStep(c)
      PROVE  Recording!Next \/ UNCHANGED Recording!recVars
  <2>1. CASE \/ Invoke(c) \/ ApiRefuse(c) \/ ApiEnter(c) \/ RecordRefuse(c)
             \/ StreamSetFails(c) \/ DetectStop(c)
             \/ (Detect(c) \/ Stop(c)) /\ Return(c)
    BY <2>1, QuietRefines
  <2>2. CASE Open(c)
    BY <2>2, OpenRefines DEF Recording!Next
  <2>3. CASE \/ RecordEnter(c) \/ Close(c) \/ CloseStep(c)
             \/ (Detect(c) \/ Stop(c)) /\ ~Return(c)
             \/ DispatchReturn(c) \/ TermReturn(c) \/ StopReturn(c) \/ IdleReturn(c)
    <3>1. Recording!ClientStep(c)
      BY <2>3, RecordRefines, CloseRefines, CloseStepRefines, DetectRefines, StopRefines,
         CallReturnRefines, StopReturnRefines, IdleReturnRefines
      DEF Recording!ClientStep
    <3>2. QED
      BY <3>1 DEF Recording!Next
  <2>4. QED
    BY <1>1, <2>1, <2>2, <2>3 DEF ClientStep
<1>2. ASSUME MainThread \/ \E s \in HalSources : Hal(s)
      PROVE  Recording!Next
  <2>1. UNCHANGED <<call, session>> /\ TypeOK /\ SemInv /\ TypeOK'
    BY <1>2, SystemFrame DEF Inv, TypeInv
  <2>2. (\E who : Serves(who)) \/ Answers \/ RecordStart
    BY <1>2, <2>1, HandlerKinds, AudioKinds
  <2>3. \E who \in SUBSET Clients : Recording!Progress(who)
    BY <2>1, <2>2, ServesRefines, AnswersRefines, StartRefines
  <2>4. QED
    BY <2>3 DEF Recording!Next
<1>3. ASSUME UNCHANGED vars PROVE UNCHANGED Recording!recVars
  <2>1. UNCHANGED <<call, posted, session, q, inst>>
    BY <1>3 DEF vars, clientVars, threadVars
  <2>2. /\ \A g \in Groups : Phase(g)' = Phase(g) /\ HeldBy(g)' = HeldBy(g)
        /\ \A c \in Clients : DoingOf(c)' = DoingOf(c)
    BY <2>1, PhaseOf, HeldFrame, DoingByCall
  <2>3. Phases' = Phases /\ HeldOf' = HeldOf /\ DoingBy' = DoingBy
    BY <2>2, PhaseChanges, HeldChanges, DoingChanges
  <2>4. QED
    BY <2>1, <2>3 DEF Recording!recVars, Phases, HeldOf, DoingBy
<1>4. QED
  BY <1>1, <1>2, <1>3 DEF Next

\* The clients, the queue, the main thread and the HAL together implement the
\* recording service, as long as the queue has room: a session starts with nothing
\* of an earlier one, and a stop is answered when everything is given back.
THEOREM ServiceImplemented ==
    ASSUME Room
    PROVE  Spec => ImplementsRecording
<1>1. Init => Recording!Init
  BY InitRefines
<1>2. Inv /\ Inv' /\ RoomInv /\ [Next]_vars => [Recording!Next]_(Recording!recVars)
  BY StepRefines
<1>3. QED
  BY <1>1, <1>2, InvCorrect, RoomCorrect, PTL
  DEF Spec, ImplementsRecording, Recording!Spec

\* What the groups whose session is not busy have given back.
GivenBack == \A g \in Groups : ~Busy(g) => HeldBy(g) = {}
\* A group whose session is not busy has nothing of a client's, neither in its
\* recording instance nor in a start still queued, whatever the size of the queue.
THEOREM NothingKept == Spec => []GivenBack
<1>1. Inv => GivenBack
  BY NoneHeld DEF GivenBack
<1>2. QED
  BY <1>1, InvCorrect, PTL
=============================================================================
