----------------------- MODULE XraudioLifecycleProofs -----------------------
(***************************************************************************)
(* Proofs about the life cycle, for every number of callers, objects,      *)
(* calls, queues and openings of the HAL.  What a call and a main thread   *)
(* may do is told first (Does, ThreadDoes), for the invariants to be split *)
(* along it.  They build on each other: calls and mutexes; types; who is   *)
(* woken by what; whose queue is whose; how many users the HAL has; which  *)
(* thread serves an open object.  With these come the theorems that hold   *)
(* whatever the constants are, then those that need more: that no client's *)
(* function outlasts a close, that no two clients work on different        *)
(* objects, or that there is one object.                                   *)
(***************************************************************************)
EXTENDS XraudioLifecycle, FiniteSetTheorems, TLAPS

-----------------------------------------------------------------------------
(* Calls and mutexes.                                                      *)

CallRec == [pc : PCs, obj : Objects \cup {None}, op : AllOps \cup {"none"}, in : Inputs,
            out : BOOLEAN, mode : Modes \cup {None}, on : BOOLEAN, n : 0 .. MaxCalls]
OpenPCs == {"hal", "opening", "count", "queue", "input", "launch", "waitLaunch", "waitUndo"}
Asking  == {"power", "privacy", "privacyGet", "limits"}
\* Where a call holds its object's mutex.
Inside  == PCs \ {"out", "enter", "free"}

\* What a call does where it is.
CallShape(r) ==
    /\ r.pc = "out" => r.obj = None /\ r.op = "none"
    /\ r.pc # "out" => r.obj \in Objects /\ r.op # "none"
    /\ r.pc \in OpenPCs => r.op = "open"
    /\ r.pc \in {"waitInput", "waitTerm"} => r.op \in {"close", "destroy"}
    /\ r.pc = "drop" => r.op \in {"open", "close", "destroy"}
    /\ r.pc = "free" => r.op = "destroy"
    /\ r.pc = "wait" => r.op \in Asking
    /\ r.op \in {"open", "power"} => r.mode \in Modes
CallTypes == /\ call \in [Callers -> CallRec]
             /\ \A c \in Callers : CallShape(call[c])
MutexTypes == mutex \in [Objects -> Callers \cup {None}]

\* A mutex is held by the one call that is inside its object.
LockInv ==
    /\ \A c \in Callers : call[c].pc \in Inside => mutex[Obj(c)] = c
    /\ \A o \in Objects : mutex[o] # None => Obj(mutex[o]) = o /\ call[mutex[o]].pc \in Inside
\* Who creates or destroys an object is alone with it.
AloneInv ==
    /\ \A c, d \in Callers :
          c # d /\ call[c].op \in {"create", "destroy"} => Obj(d) # Obj(c)
    /\ \A c \in Callers : call[c].pc # "out" =>
          /\ call[c].op = "create" <=> ~obj[Obj(c)].made
          /\ Obj(c) \in Serves[c]
CallInv == CallTypes /\ MutexTypes /\ LockInv /\ AloneInv

\* What a step of c does to the calls: nothing to the others'; c enters, goes on or leaves.
Others(c) == \A d \in Callers \ {c} : call'[d] = call[d]
Went(c, pc) ==
    /\ call'[c].pc = pc /\ call'[c].obj = call[c].obj /\ call'[c].op = call[c].op
    /\ call'[c].in = call[c].in /\ call'[c].out = call[c].out
    /\ call'[c].mode = call[c].mode /\ call'[c].on = call[c].on /\ call'[c].n = call[c].n
Left(c) == /\ call'[c].pc = "out" /\ call'[c].obj = None /\ call'[c].op = "none"
           /\ call'[c].n = call[c].n

\* Going on within a call.
LEMMA GotoIs ==
    ASSUME call \in [Callers -> CallRec], NEW c \in Callers, NEW pc \in PCs, Goto(c, pc)
    PROVE  call' \in [Callers -> CallRec] /\ Others(c) /\ Went(c, pc)
BY DEF Goto, CallRec, Others, Went

\* Leaving a call.
LEMMA ReturnIs ==
    ASSUME call \in [Callers -> CallRec], NEW c \in Callers, Return(c)
    PROVE  call' \in [Callers -> CallRec] /\ Others(c) /\ Left(c)
<1>1. \A k \in 0 .. MaxCalls : LET r == [NoCall EXCEPT !.n = k]
         IN r \in CallRec /\ r.pc = "out" /\ r.obj = None /\ r.op = "none" /\ r.n = k
  BY DEF NoCall, CallRec, PCs, Inputs
<1>2. call[c].n \in 0 .. MaxCalls
  BY DEF CallRec
<1>3. call' = [call EXCEPT ![c] = [NoCall EXCEPT !.n = call[c].n]]
  BY DEF Return
<1>4. QED
  BY <1>1, <1>2, <1>3 DEF Others, Left

\* The mutex of an object is taken, kept or given back by who works on it.
Takes(c) == mutex[Obj(c)] = None /\ mutex' = [mutex EXCEPT ![Obj(c)] = c]
Gives(c) == mutex' = [o \in Objects |-> IF mutex[o] = c THEN None ELSE mutex[o]]

\* Where each step of a call leads and what it does to the mutex.
Passes(c) ==
    \/ At(c, "hal") /\ \E pc \in {"opening", "count"} : Went(c, pc)
    \/ At(c, "opening") /\ Went(c, "count")
    \/ At(c, "count") /\ Went(c, "queue")
    \/ At(c, "queue") /\ \E pc \in {"input", "drop"} : Went(c, pc)
    \/ At(c, "input") /\ \E pc \in {"launch", "drop"} : Went(c, pc)
    \/ At(c, "launch") /\ \E pc \in {"waitLaunch", "waitUndo", "drop"} : Went(c, pc)
    \/ At(c, "waitUndo") /\ Went(c, "drop")
    \/ At(c, "waitInput") /\ Went(c, "waitTerm")
    \/ At(c, "waitTerm") /\ Went(c, "drop")
Enters(c) ==
    \/ call[c].op = "open" /\ Went(c, "hal")
    \/ call[c].op \in {"close", "destroy"} /\ \E pc \in {"waitInput", "waitTerm"} : Went(c, pc)
    \/ call[c].op \in Asking /\ Went(c, "wait")
Moves(c) ==
    /\ call' \in [Callers -> CallRec] /\ Others(c)
    /\ \/ At(c, "enter") /\ Enters(c) /\ Takes(c)
       \/ Passes(c) /\ UNCHANGED mutex
       \/ ~At(c, "out") /\ ~(At(c, "enter") /\ mutex[Obj(c)] # None) /\ Left(c) /\ Gives(c)
       \/ At(c, "enter") /\ call[c].op = "destroy" /\ Went(c, "free") /\ UNCHANGED mutex
       \/ At(c, "drop") /\ call[c].op = "destroy" /\ Went(c, "free")
          /\ mutex' = [mutex EXCEPT ![Obj(c)] = None]

\* Every step of a call moves it so.
LEMMA CallerMoves ==
    ASSUME CallInv, NEW c \in Callers, CallerStep(c)
    PROVE  Moves(c)
<1> USE DEF CallInv, CallTypes
<1>1. ASSUME Return(c) PROVE call' \in [Callers -> CallRec] /\ Others(c) /\ Left(c) /\ Gives(c)
  BY <1>1, ReturnIs DEF Return, Gives
<1>2. \A pc \in PCs : Goto(c, pc) =>
        call' \in [Callers -> CallRec] /\ Others(c) /\ Went(c, pc)
  BY GotoIs
<1> USE DEF Doing, At, Answered
<1>3. CASE Create(c)
  BY <1>1, <1>3 DEF Create, Moves
<1>4. CASE Free(c)
  BY <1>1, <1>4 DEF Free, Moves
<1>5. CASE OpenRefused(c)
  BY <1>1, <1>5 DEF OpenRefused, Moves
<1>6. CASE OpenBegins(c)
  BY <1>2, <1>6 DEF OpenBegins, Moves, Enters, Takes, PCs
<1>7. CASE CheckHal(c)
  BY <1>2, <1>7 DEF CheckHal, Moves, Passes, PCs
<1>8. CASE OpenHal(c)
  BY <1>2, <1>8 DEF OpenHal, Moves, Passes, PCs
<1>9. CASE HalFails(c)
  BY <1>1, <1>9 DEF HalFails, Moves
<1>10. CASE CountUser(c)
  BY <1>2, <1>10 DEF CountUser, Moves, Passes, PCs
<1>11. CASE OpenQueue(c)
  BY <1>2, <1>11 DEF OpenQueue, Moves, Passes, PCs
<1>12. CASE QueueFails(c)
  BY <1>2, <1>12 DEF QueueFails, Moves, Passes, PCs
<1>13. CASE OpenInput(c)
  BY <1>2, <1>13 DEF OpenInput, Moves, Passes, PCs
<1>14. CASE MicFails(c)
  BY <1>2, <1>14 DEF MicFails, Moves, Passes, PCs
<1>15. CASE Launch(c)
  BY <1>2, <1>15 DEF Launch, Moves, Passes, PCs, Waits
<1>16. CASE LaunchFails(c)
  BY <1>2, <1>16 DEF LaunchFails, Moves, Passes, PCs, Waits, Released
<1>17. CASE Undo(c)
  BY <1>2, <1>17 DEF Undo, Moves, Passes, PCs, Released
<1>18. CASE Launched(c)
  BY <1>1, <1>18 DEF Launched, Moves
<1>19. CASE CloseNot(c)
  BY <1>1, <1>2, <1>19 DEF CloseNot, Closing, Moves, PCs
<1>20. CASE CloseInput(c)
  BY <1>2, <1>20 DEF CloseInput, Closing, Moves, Enters, Takes, PCs, Waits
<1>21. CASE Terminate(c)
  BY <1>2, <1>21 DEF Terminate, Moves, Passes, PCs, Waits
<1>22. CASE Join(c)
  BY <1>2, <1>22 DEF Join, Moves, Passes, PCs, Released
<1>23. CASE Abandon(c)
  BY <1>2, <1>23 DEF Abandon, Moves, Passes, PCs, Released
<1>24. CASE Drop(c)
  BY <1>1, <1>2, <1>24 DEF Drop, Dropped, Moves, PCs
<1>25. CASE Update(c)
  BY <1>1, <1>25 DEF Update, Moves
<1>26. CASE UpdateAsks(c)
  BY <1>2, <1>26 DEF UpdateAsks, Ask, Moves, Enters, Takes, PCs, Waits, Asking
<1>27. CASE Get(c)
  BY <1>2, <1>27 DEF Get, Ask, Moves, Enters, Takes, PCs, Waits, Asking
<1>28. CASE Reply(c)
  BY <1>1, <1>28 DEF Reply, Moves
<1>29. CASE Poll(c)
  BY <1>1, <1>29 DEF Poll, Moves
<1>30. QED
  BY <1>3, <1>4, <1>5, <1>6, <1>7, <1>8, <1>9, <1>10, <1>11, <1>12, <1>13, <1>14, <1>15, <1>16,
     <1>17, <1>18, <1>19, <1>20, <1>21, <1>22, <1>23, <1>24, <1>25, <1>26, <1>27, <1>28, <1>29
     DEF CallerStep, OpenStep, CloseStep

\* The phase of an object: where the call is that holds its mutex.
Phase(o) == IF mutex[o] = None THEN "none" ELSE call[mutex[o]].pc
PhaseAt(c) == IF call[c].pc \in Inside THEN call[c].pc ELSE "none"

\* A step of c changes the phase of its object only, which is where c is.
LEMMA PhaseMoves ==
    ASSUME CallInv, NEW c \in Callers, Moves(c)
    PROVE  /\ call[c].pc # "out" /\ Obj(c) \in Objects
           /\ \A o \in Objects : o = Obj(c) =>
                 Phase(o) = PhaseAt(c) /\ Phase(o)' = PhaseAt(c)'
           /\ \A o \in Objects \ {Obj(c)} : /\ Phase(o)' = Phase(o) /\ mutex'[o] = mutex[o]
                                            /\ mutex[o] # c
           /\ \A o \in Objects : mutex[o] # None => call[mutex[o]].obj = o
           /\ LockInv' /\ MutexTypes'
           /\ call[c].pc \in Inside => mutex[Obj(c)] = c
           /\ call'[c].pc \in Inside => mutex'[Obj(c)] = c
           /\ call'[c].pc \notin Inside => mutex'[Obj(c)] = None
<1> USE DEF CallInv, CallTypes, MutexTypes, Obj
<1>1. call[c].pc # "out" /\ Obj(c) \in Objects
  BY DEF Moves, At, Passes, CallShape
<1>2. c # None /\ \A o \in Objects : mutex[o] = c => Obj(c) = o /\ call[c].pc \in Inside
  BY ObjectsAssumption DEF LockInv
<1>3. call[c].pc \in Inside => mutex[Obj(c)] = c
  BY DEF LockInv
<1>4. /\ mutex[Obj(c)] \in {None, c}
      /\ \A o \in Objects \ {Obj(c)} : mutex'[o] = mutex[o]
      /\ call'[c].pc \in Inside => mutex'[Obj(c)] = c /\ call'[c].obj = Obj(c)
      /\ call'[c].pc \notin Inside => mutex'[Obj(c)] = None
      /\ MutexTypes'
  <2>1. CASE At(c, "enter") /\ Enters(c) /\ Takes(c)
    <3>1. call'[c].pc \in Inside /\ call'[c].obj = call[c].obj
      BY <2>1 DEF Enters, Went, Inside, PCs, Waits
    <3>2. QED
      BY <1>1, <2>1, <3>1 DEF Takes
  <2>2. CASE Passes(c) /\ UNCHANGED mutex
    <3>1. call'[c].pc \in Inside /\ call'[c].obj = call[c].obj /\ call[c].pc \in Inside
      BY <2>2 DEF Passes, Went, Inside, PCs, Waits, At
    <3>2. QED
      BY <1>1, <1>3, <2>2, <3>1
  <2>3. CASE ~(At(c, "enter") /\ mutex[Obj(c)] # None) /\ Left(c) /\ Gives(c)
    <3>1. call'[c].pc \notin Inside
      BY <2>3 DEF Left, Inside
    <3>2. mutex[Obj(c)] \in {None, c}
      <4>1. CASE At(c, "enter")
        BY <2>3, <4>1
      <4>2. CASE At(c, "free")
        <5>1. \A d \in Callers \ {c} : Obj(d) # Obj(c)
          BY <4>2 DEF AloneInv, CallShape, At
        <5>2. QED
          BY <1>1, <5>1 DEF LockInv
      <4>3. QED
        BY <1>1, <1>3, <4>1, <4>2 DEF Inside, At, CallRec
    <3>3. \A o \in Objects \ {Obj(c)} : mutex'[o] = mutex[o]
      BY <1>2, <2>3 DEF Gives
    <3>4. QED
      BY <1>1, <2>3, <3>1, <3>2, <3>3 DEF Gives
  <2>4. CASE At(c, "enter") /\ call[c].op = "destroy" /\ Went(c, "free") /\ UNCHANGED mutex
    <3>1. call'[c].pc \notin Inside /\ call[c].pc \notin Inside
      BY <2>4 DEF Went, Inside, At
    <3>2. \A d \in Callers \ {c} : Obj(d) # Obj(c)
      BY <2>4 DEF AloneInv
    <3>3. mutex[Obj(c)] = None
      BY <1>1, <1>2, <3>1, <3>2 DEF LockInv
    <3>4. QED
      BY <2>4, <3>1, <3>3
  <2>5. CASE /\ At(c, "drop") /\ call[c].op = "destroy" /\ Went(c, "free")
             /\ mutex' = [mutex EXCEPT ![Obj(c)] = None]
    <3>1. call'[c].pc \notin Inside /\ call[c].pc \in Inside
      BY <2>5 DEF Went, Inside, At, PCs
    <3>2. QED
      BY <1>1, <1>3, <2>5, <3>1
  <2>6. QED
    BY <2>1, <2>2, <2>3, <2>4, <2>5 DEF Moves
<1>5. call[c].pc \in Inside <=> mutex[Obj(c)] = c
  BY <1>1, <1>2, <1>3
<1>6. \A o \in Objects : o = Obj(c) => Phase(o) = PhaseAt(c) /\ Phase(o)' = PhaseAt(c)'
  BY <1>2, <1>4, <1>5 DEF Phase, PhaseAt
<1>7. \A o \in Objects \ {Obj(c)} : mutex[o] # c /\ Phase(o)' = Phase(o)
  BY <1>2, <1>4 DEF Phase, Moves, Others
<1>8. LockInv'
  <2>1. ASSUME NEW d \in Callers, call'[d].pc \in Inside PROVE mutex'[call'[d].obj] = d
    <3>1. CASE d = c
      BY <1>4, <2>1, <3>1
    <3>2. CASE d # c
      <4>1. call'[d] = call[d] /\ mutex[call[d].obj] = d /\ call[d].obj # None
        BY <2>1, <3>2, ObjectsAssumption DEF Moves, Others, LockInv, CallShape, Inside
      <4>2. call[d].obj # Obj(c)
        BY <1>4, <3>2, <4>1, ObjectsAssumption
      <4>3. QED
        BY <1>4, <4>1, <4>2 DEF CallRec
    <3>3. QED
      BY <3>1, <3>2
  <2>2. ASSUME NEW o \in Objects, mutex'[o] # None
        PROVE  call'[mutex'[o]].obj = o /\ call'[mutex'[o]].pc \in Inside
    <3>1. CASE o = Obj(c)
      BY <1>4, <2>2, <3>1
    <3>2. CASE o # Obj(c)
      BY <1>2, <1>4, <2>2, <3>2 DEF LockInv, Moves, Others
    <3>3. QED
      BY <3>1, <3>2
  <2>3. QED
    BY <2>1, <2>2 DEF LockInv
<1>9. QED
  BY <1>1, <1>3, <1>4, <1>6, <1>7, <1>8 DEF LockInv

-----------------------------------------------------------------------------
(* Data: objects, process, queues, threads and answers.                    *)

ObjRec  == [made : BOOLEAN, opened : BOOLEAN, running : BOOLEAN, msgq : 0 .. QIds,
            input : {"null", "live", "freed"}, output : BOOLEAN, thread : Nums]
Senders == (Callers \cup {None}) \X Nat
MsgRec  == [type : AllOps \cup {"idleStart", "idleStop", "terminate"}, sem : Senders,
            mode : Modes \cup {None}, on : BOOLEAN]
ThrRec  == [st : {"init", "loop", "poll", "ending", "exited"}, q : 0 .. QIds, hal : Nums,
            sem : Senders]
Answers == {"none", "ok", "error", "on", "off"}

ObjTypes    == obj \in [Objects -> ObjRec]
QueueTypes  == /\ DOMAIN queues \subseteq 1 .. QIds
               /\ \A q \in DOMAIN queues : queues[q] \in Seq(MsgRec) /\ Len(queues[q]) <= QMax
ThrTypes    == thr \in Seq(ThrRec) /\ Len(thr) <= MaxOpens
AnswerTypes == answer \in [Callers -> Answers]

\* The edits of an object's record.
LEMMA ObjEdits ==
    ASSUME NEW p \in ObjRec
    PROVE  /\ NewObj \in ObjRec /\ NoObj \in ObjRec
           /\ \A q \in 0 .. QIds : [p EXCEPT !.msgq = q] \in ObjRec
           /\ \A i \in {"null", "live", "freed"} : [p EXCEPT !.input = i] \in ObjRec
           /\ [p EXCEPT !.msgq = 0, !.input = "null"] \in ObjRec
           /\ \A b \in BOOLEAN : [p EXCEPT !.opened = b] \in ObjRec
           /\ \A b \in BOOLEAN, t \in Nums :
                [p EXCEPT !.output = b, !.running = TRUE, !.thread = t] \in ObjRec
           /\ Emptied(p) \in ObjRec
           /\ [Emptied(p) EXCEPT !.running = FALSE] \in ObjRec
<1>1. 0 \in 0 .. QIds /\ 0 \in Nums
  BY BoundsAssumption DEF Nums
<1>2. /\ NewObj \in ObjRec /\ NoObj \in ObjRec
      /\ [p EXCEPT !.msgq = 0, !.input = "null"] \in ObjRec
      /\ Emptied(p) \in ObjRec
      /\ [Emptied(p) EXCEPT !.running = FALSE] \in ObjRec
  BY <1>1 DEF ObjRec, NewObj, NoObj, Emptied
<1>3. /\ \A q \in 0 .. QIds : [p EXCEPT !.msgq = q] \in ObjRec
      /\ \A i \in {"null", "live", "freed"} : [p EXCEPT !.input = i] \in ObjRec
      /\ \A b \in BOOLEAN : [p EXCEPT !.opened = b] \in ObjRec
      /\ \A b \in BOOLEAN, t \in Nums :
            [p EXCEPT !.output = b, !.running = TRUE, !.thread = t] \in ObjRec
  BY DEF ObjRec
<1>4. QED
  BY <1>2, <1>3

\* Storing a record for the object of a call.
LEMMA SetIs ==
    ASSUME ObjTypes, NEW c \in Callers, Obj(c) \in Objects, NEW r \in ObjRec, Set(c, r)
    PROVE  /\ ObjTypes' /\ obj'[Obj(c)] = r
           /\ \A o \in Objects \ {Obj(c)} : obj'[o] = obj[o]
BY DEF ObjTypes, Set

\* Pushing: the message goes to the end of the queue, or nowhere.
Pushed(q, m) ==
    \/ UNCHANGED queues
    \/ /\ q \in DOMAIN queues /\ DOMAIN queues' = DOMAIN queues
       /\ queues'[q] = Append(queues[q], m)
       /\ \A p \in DOMAIN queues \ {q} : queues'[p] = queues[p]
\* Pushing keeps the queues within their capacity, and changes one at most.
LEMMA PushIs ==
    ASSUME QueueTypes, NEW q, NEW m \in MsgRec, Push(q, m)
    PROVE  QueueTypes' /\ Pushed(q, m)
<1>1. CASE IsOpen(q) /\ Len(queues[q]) < QMax
  <2>1. q \in DOMAIN queues /\ queues' = With(q, Append(queues[q], m))
    BY <1>1 DEF Push, IsOpen
  <2>2. /\ DOMAIN queues' = DOMAIN queues /\ queues'[q] = Append(queues[q], m)
        /\ \A p \in DOMAIN queues \ {q} : queues'[p] = queues[p]
    BY <2>1 DEF With
  <2>3. queues[q] \in Seq(MsgRec) /\ Len(queues[q]) <= QMax /\ QMax \in Nat
    BY <2>1, BoundsAssumption DEF QueueTypes
  <2>4. Append(queues[q], m) \in Seq(MsgRec) /\ Len(Append(queues[q], m)) <= QMax
    BY <1>1, <2>3
  <2>5. QED
    BY <2>1, <2>2, <2>4 DEF QueueTypes, Pushed
<1>2. CASE ~(IsOpen(q) /\ Len(queues[q]) < QMax)
  BY <1>2 DEF Push, QueueTypes, Pushed
<1>3. QED
  BY <1>1, <1>2

\* Destroying a queue, and creating one.
LEMMA WithoutIs ==
    ASSUME QueueTypes, NEW q, queues' = Without(q)
    PROVE  /\ QueueTypes' /\ DOMAIN queues' = DOMAIN queues \ {q}
           /\ \A p \in DOMAIN queues' : queues'[p] = queues[p]
BY DEF QueueTypes, Without
\* A new queue is empty, and the others are not touched.
LEMMA NewQueueIs ==
    ASSUME QueueTypes, NEW q \in 1 .. QIds, queues' = With(q, <<>>)
    PROVE  /\ QueueTypes' /\ DOMAIN queues' = DOMAIN queues \cup {q} /\ queues'[q] = <<>>
           /\ \A p \in DOMAIN queues \ {q} : queues'[p] = queues[p]
<1>1. <<>> \in Seq(MsgRec) /\ Len(<<>>) <= QMax
  BY BoundsAssumption
<1>2. QED
  BY <1>1 DEF QueueTypes, With

\* What a call sends, and what is sent without waiting.
LEMMA MsgIs ==
    ASSUME call \in [Callers -> CallRec], NEW c \in Callers,
           NEW type \in AllOps \cup {"idleStart", "idleStop", "terminate"}
    PROVE  /\ LET m == Msg(type, c) IN
              /\ m \in MsgRec /\ m.type = type /\ m.sem = <<c, call[c].n>>
              /\ m.mode = call[c].mode /\ m.on = call[c].on
           /\ LET m == [Msg(type, c) EXCEPT !.sem = Nobody] IN
              /\ m \in MsgRec /\ m.type = type /\ m.sem = Nobody
<1>1. call[c].n \in Nat /\ call[c].mode \in Modes \cup {None} /\ call[c].on \in BOOLEAN
  BY BoundsAssumption DEF CallRec
<1>2. <<c, call[c].n>> \in Senders /\ Nobody \in Senders
  BY <1>1 DEF Senders, Nobody
<1>3. QED
  BY <1>1, <1>2 DEF Msg, MsgRec

-----------------------------------------------------------------------------
(* What the steps of a call do to the data.                                *)

ProcRec   == [hal : Nums, users : Int, power : Modes, privacy : BOOLEAN]
ProcTypes == proc \in ProcRec
HalTypes  == /\ hals \in [open : SUBSET (Nums \ {0}), opens : Nums]
             /\ device \in [power : Modes, privacy : BOOLEAN]
             /\ voiceQ \in 0 .. QIds
Data == CallInv /\ ObjTypes /\ ProcTypes /\ HalTypes /\ QueueTypes /\ ThrTypes /\ AnswerTypes

Users(k) == proc'.users = proc.users + k
Consumed(c) == /\ answer[c] # "none" /\ answer'[c] = "none"
               /\ \A d \in Callers \ {c} : answer'[d] = answer[d]
\* The object of c keeps all but its flags, its input or its queue and thread.
KeepsFlags(c)  == LET p == obj[Obj(c)] r == obj'[Obj(c)] IN
    r.made = p.made /\ r.opened = p.opened /\ r.running = p.running
KeepsThread(c) == LET p == obj[Obj(c)] r == obj'[Obj(c)] IN
    r.thread = p.thread /\ r.msgq = p.msgq

DoesIdle(c) ==
    /\ UNCHANGED <<obj, queues, thr, answer, voiceQ, stray>>
    /\ \/ At(c, "enter") /\ call[c].op \in {"open", "power", "privacy", "close"} /\ Left(c)
          /\ Users(0)
       \/ At(c, "enter") /\ call[c].op = "open" /\ ~obj[Obj(c)].opened /\ Went(c, "hal")
          /\ Users(0)
       \/ At(c, "enter") /\ call[c].op = "destroy" /\ ~obj[Obj(c)].opened /\ Went(c, "free")
          /\ Users(0)
       \/ At(c, "hal") /\ (Went(c, "opening") \/ Went(c, "count")) /\ Users(0)
       \/ At(c, "opening") /\ (Went(c, "count") \/ Left(c)) /\ Users(0)
       \/ At(c, "count") /\ Went(c, "queue") /\ Users(1)
       \/ At(c, "queue") /\ Went(c, "drop") /\ Users(-1)
DoesMake(c) ==
    /\ UNCHANGED <<queues, thr, answer, voiceQ, stray>> /\ Users(0) /\ Left(c)
    /\ \/ At(c, "enter") /\ call[c].op = "create" /\ obj'[Obj(c)].made
       \/ At(c, "free") /\ ~obj'[Obj(c)].made
    /\ LET r == obj'[Obj(c)] IN ~r.opened /\ ~r.running /\ r.msgq = 0 /\ r.input = "null"
DoesQueue(c) ==
    /\ UNCHANGED <<thr, answer, voiceQ, stray>> /\ Users(0)
    /\ At(c, "queue") /\ Went(c, "input")
    /\ \E q \in (1 .. QIds) \ DOMAIN queues :
          /\ obj'[Obj(c)].msgq = q
          /\ DOMAIN queues' = DOMAIN queues \cup {q} /\ queues'[q] = <<>>
          /\ \A p \in DOMAIN queues \ {q} : queues'[p] = queues[p]
    /\ KeepsFlags(c) /\ obj'[Obj(c)].input = obj[Obj(c)].input
DoesInput(c) ==
    /\ UNCHANGED <<thr, answer, voiceQ, stray>>
    /\ At(c, "input")
    /\ \/ /\ Went(c, "launch") /\ Users(0)
          /\ obj'[Obj(c)].input = "live"
          /\ \E m \in MsgRec : /\ m.type = "idleStart" /\ m.sem = Nobody
                               /\ Pushed(obj[Obj(c)].msgq, m)
       \/ /\ Went(c, "launch") /\ Users(0)
          /\ UNCHANGED queues /\ (obj'[Obj(c)].input = "null" \/ obj' = obj)
       \/ /\ Went(c, "drop") /\ Users(-1) /\ "mic" \in Failures /\ UNCHANGED queues
          /\ obj'[Obj(c)].input = "freed"
    /\ KeepsFlags(c) /\ KeepsThread(c)
DoesLaunch(c) ==
    /\ UNCHANGED <<queues, answer, voiceQ>> /\ Users(0)
    /\ At(c, "launch") /\ Went(c, "waitLaunch")
    /\ Len(thr) < MaxOpens
    /\ thr' = Append(thr, [st |-> "init", q |-> obj[Obj(c)].msgq, hal |-> proc.hal,
                           sem |-> <<c, call[c].n>>])
    /\ LET p == obj[Obj(c)] r == obj'[Obj(c)] IN
          /\ r.made = p.made /\ r.opened = p.opened /\ ~p.running /\ r.running
          /\ r.msgq = p.msgq /\ r.input = p.input /\ r.thread = Len(thr) + 1
    /\ stray \subseteq {"input"} => stray' \subseteq {"input"}
DoesAsk(c) ==
    /\ UNCHANGED <<obj, thr, voiceQ>> /\ Users(0)
    /\ \E m \in MsgRec :
          /\ m.sem = <<c, call[c].n>> /\ m.mode = call[c].mode /\ m.on = call[c].on
          /\ Pushed(obj[Obj(c)].msgq, m)
          /\ \/ /\ At(c, "launch") /\ m.type = "idleStop" /\ Went(c, "waitUndo")
                /\ UNCHANGED answer
             \/ /\ At(c, "enter") /\ call[c].op \in {"close", "destroy"} /\ obj[Obj(c)].opened
                /\ \/ m.type = "idleStop" /\ Went(c, "waitInput")
                   \/ m.type = "terminate" /\ Went(c, "waitTerm")
                /\ UNCHANGED answer
             \/ /\ At(c, "waitInput") /\ m.type = "terminate" /\ Went(c, "waitTerm")
                /\ Consumed(c)
             \/ /\ At(c, "enter") /\ call[c].op \in Asking /\ m.type = call[c].op
                /\ (obj[Obj(c)].opened \/ call[c].op \in {"privacyGet", "limits"})
                /\ Went(c, "wait") /\ UNCHANGED answer
    /\ stray \subseteq {"input"} => stray' \subseteq {"input"}
DoesRelease(c) ==
    /\ UNCHANGED <<thr, voiceQ>> /\ Went(c, "drop") /\ Users(-1)
    /\ DOMAIN queues' = DOMAIN queues \ {obj[Obj(c)].msgq}
    /\ \A p \in DOMAIN queues' : queues'[p] = queues[p]
    /\ LET p == obj[Obj(c)] r == obj'[Obj(c)] IN
          /\ r.made = p.made /\ r.opened = p.opened /\ r.thread = p.thread
          /\ r.msgq = 0 /\ r.input = "null"
          /\ \/ At(c, "launch") /\ r.running = p.running /\ UNCHANGED answer
             \/ At(c, "waitUndo") /\ r.running = p.running /\ Consumed(c)
             \/ At(c, "waitTerm") /\ thr[p.thread].st = "exited" /\ ~r.running /\ Consumed(c)
             \/ At(c, "waitTerm") /\ thr[p.thread].st = "poll" /\ r.running = p.running
                /\ answer[c] = "none" /\ UNCHANGED answer
    /\ stray \subseteq {"input"} => stray' \subseteq {"input"}
DoesPoll(c) ==
    /\ UNCHANGED <<obj, thr, answer, voiceQ, stray>> /\ Users(0)
    /\ At(c, "enter") /\ call[c].op = "poll" /\ Left(c)
    /\ \/ UNCHANGED queues
       \/ \E m \in MsgRec : /\ m.type = "poll" /\ m.sem = Nobody
                            /\ Pushed(obj[Obj(c)].msgq, m)
DoesOpen(c) ==
    /\ UNCHANGED <<queues, thr, voiceQ, stray>> /\ Users(0)
    /\ At(c, "waitLaunch") /\ Consumed(c) /\ Left(c)
    /\ LET p == obj[Obj(c)] r == obj'[Obj(c)] IN
          r.made = p.made /\ r.opened /\ r.running = p.running /\ r.input = p.input
    /\ KeepsThread(c)
DoesReply(c) ==
    /\ UNCHANGED <<obj, queues, thr, voiceQ, stray>> /\ Users(0)
    /\ At(c, "wait") /\ Consumed(c) /\ Left(c)
DoesDrop(c) ==
    /\ UNCHANGED <<queues, thr, answer, voiceQ, stray>> /\ Users(0)
    /\ At(c, "drop")
    /\ LET p == obj[Obj(c)] r == obj'[Obj(c)] IN
          /\ r.made = p.made /\ r.running = p.running /\ r.input = p.input
          /\ r.opened <=> p.opened /\ call[c].op = "open"
    /\ KeepsThread(c)
    /\ \/ call[c].op = "destroy" /\ Went(c, "free")
       \/ call[c].op # "destroy" /\ Left(c)

Does(c) ==
    /\ Moves(c)
    /\ ObjTypes' /\ ProcTypes' /\ HalTypes' /\ QueueTypes' /\ ThrTypes' /\ AnswerTypes'
    /\ \A o \in Objects \ {Obj(c)} : obj'[o] = obj[o]
    /\ \/ DoesIdle(c) \/ DoesMake(c) \/ DoesQueue(c) \/ DoesInput(c) \/ DoesLaunch(c)
       \/ DoesAsk(c) \/ DoesRelease(c) \/ DoesPoll(c) \/ DoesOpen(c) \/ DoesReply(c)
       \/ DoesDrop(c)

\* The edits of the process data.
LEMMA ProcEdits ==
    ASSUME ProcTypes
    PROVE  /\ \A b \in BOOLEAN : LET p == [proc EXCEPT !.privacy = b] IN
                p \in ProcRec /\ p.users = proc.users
           /\ \A h \in Nums : LET p == [proc EXCEPT !.hal = h] IN
                p \in ProcRec /\ p.users = proc.users
           /\ \A m \in Modes : LET p == [proc EXCEPT !.power = m] IN
                p \in ProcRec /\ p.users = proc.users
           /\ \A k \in Int : LET p == [proc EXCEPT !.users = k] IN
                p \in ProcRec /\ p.users = k
           /\ proc.users \in Int
BY DEF ProcTypes, ProcRec

\* Consuming an answer.
LEMMA ConsumeIs ==
    ASSUME AnswerTypes, NEW c \in Callers, answer[c] # "none", Consume(c)
    PROVE  AnswerTypes' /\ Consumed(c)
BY DEF AnswerTypes, Answers, Consume, Consumed

\* Every step of a call does one of these.
LEMMA CallerDoes ==
    ASSUME Data, NEW c \in Callers, CallerStep(c)
    PROVE  Does(c)
<1> DEFINE p == obj[Obj(c)]
<1>1. Moves(c) /\ Obj(c) \in Objects /\ call[c].pc # "out" /\ CallShape(call[c])
  BY CallerMoves, PhaseMoves DEF Data, CallInv, CallTypes
<1>2. /\ call \in [Callers -> CallRec] /\ ObjTypes /\ ProcTypes /\ HalTypes /\ QueueTypes
      /\ ThrTypes /\ AnswerTypes
  BY DEF Data, CallInv, CallTypes
<1>3. p \in ObjRec
  BY <1>1, <1>2 DEF ObjTypes
<1>4. Return(c) => Left(c)
  BY <1>2, ReturnIs
<1>5. \A pc \in PCs : Goto(c, pc) => Went(c, pc)
  BY <1>2, GotoIs
<1>6. ASSUME UNCHANGED obj
      PROVE  ObjTypes' /\ \A o \in Objects \ {Obj(c)} : obj'[o] = obj[o]
  BY <1>2, <1>6 DEF ObjTypes
<1>7. \A r \in ObjRec : Set(c, r) => /\ ObjTypes' /\ obj'[Obj(c)] = r
                                     /\ \A o \in Objects \ {Obj(c)} : obj'[o] = obj[o]
  BY <1>1, <1>2, SetIs
<1>8. (UNCHANGED proc => ProcTypes' /\ Users(0)) /\ (UNCHANGED queues => QueueTypes')
      /\ (UNCHANGED thr => ThrTypes') /\ (UNCHANGED answer => AnswerTypes')
  BY <1>2, ProcEdits DEF Users, ProcTypes, QueueTypes, ThrTypes, AnswerTypes
<1>9. /\ proc' = Uncount => ProcTypes' /\ Users(-1)
      /\ proc' = [proc EXCEPT !.users = @ + 1] => ProcTypes' /\ Users(1)
      /\ \A b \in BOOLEAN : proc' = [proc EXCEPT !.privacy = b] => ProcTypes' /\ Users(0)
      /\ \A m \in Modes : proc' = [proc EXCEPT !.power = m] => ProcTypes' /\ Users(0)
      /\ \A h \in Nums : proc' = [proc EXCEPT !.hal = h] => ProcTypes' /\ Users(0)
  <2>1. proc.users \in Int /\ proc.users - 1 \in Int /\ proc.users + 1 \in Int
    BY <1>2, ProcEdits
  <2>2. \A k \in Int : proc' = [proc EXCEPT !.users = k] => ProcTypes' /\ proc'.users = k
    BY <1>2, ProcEdits DEF ProcTypes
  <2>3. /\ proc' = Uncount => ProcTypes' /\ Users(-1)
        /\ proc' = [proc EXCEPT !.users = @ + 1] => ProcTypes' /\ Users(1)
    BY <2>1, <2>2 DEF Uncount, Users
  <2>4. /\ \A b \in BOOLEAN : proc' = [proc EXCEPT !.privacy = b] => ProcTypes' /\ Users(0)
        /\ \A m \in Modes : proc' = [proc EXCEPT !.power = m] => ProcTypes' /\ Users(0)
        /\ \A h \in Nums : proc' = [proc EXCEPT !.hal = h] => ProcTypes' /\ Users(0)
    <3>1. ASSUME NEW r \in ProcRec, proc' = r, r.users = proc.users PROVE ProcTypes' /\ Users(0)
      BY <2>1, <3>1 DEF Users, ProcTypes
    <3>2. /\ \A b \in BOOLEAN : LET r == [proc EXCEPT !.privacy = b] IN
                r \in ProcRec /\ r.users = proc.users
          /\ \A m \in Modes : LET r == [proc EXCEPT !.power = m] IN
                r \in ProcRec /\ r.users = proc.users
          /\ \A h \in Nums : LET r == [proc EXCEPT !.hal = h] IN
                r \in ProcRec /\ r.users = proc.users
      BY <1>2, ProcEdits
    <3>3. QED
      BY <3>1, <3>2
  <2>5. QED
    BY <2>3, <2>4
<1>10. call[c].on \in BOOLEAN /\ call[c].mode \in Modes \cup {None} /\ call[c].in \in Inputs
       /\ call[c].out \in BOOLEAN /\ call[c].op \in AllOps \cup {"none"}
  BY <1>2 DEF CallRec
<1>11. {"hal", "opening", "count", "queue", "input", "launch", "drop", "free", "waitLaunch",
        "waitUndo", "waitInput", "waitTerm", "wait"} \subseteq PCs
  BY DEF PCs, Waits
<1>12. /\ \A type \in {"idleStop", "terminate"} \cup AllOps : LET m == Msg(type, c) IN
             /\ m \in MsgRec /\ m.type = type /\ m.sem = <<c, call[c].n>>
             /\ m.mode = call[c].mode /\ m.on = call[c].on
       /\ \A type \in {"idleStart", "poll"} : LET m == [Msg(type, c) EXCEPT !.sem = Nobody] IN
             m \in MsgRec /\ m.type = type /\ m.sem = Nobody
  BY <1>2, MsgIs DEF AllOps
<1>13. \A q : \A m \in MsgRec : Push(q, m) => QueueTypes' /\ Pushed(q, m)
  BY <1>2, PushIs
<1>14. Answered(c, call[c].pc) /\ Consume(c) => AnswerTypes' /\ Consumed(c)
  BY <1>2, ConsumeIs DEF Answered
<1>15. Released(c) => /\ QueueTypes' /\ DOMAIN queues' = DOMAIN queues \ {p.msgq}
                      /\ \A q \in DOMAIN queues' : queues'[q] = queues[q]
                      /\ ProcTypes' /\ Users(-1) /\ Went(c, "drop")
  BY <1>2, <1>5, <1>9, <1>11, WithoutIs DEF Released
<1>16. /\ \A q \in 0 .. QIds : [p EXCEPT !.msgq = q] \in ObjRec
       /\ \A i \in {"null", "live", "freed"} : [p EXCEPT !.input = i] \in ObjRec
       /\ [p EXCEPT !.msgq = 0, !.input = "null"] \in ObjRec
       /\ \A b \in BOOLEAN : [p EXCEPT !.opened = b] \in ObjRec
       /\ \A b \in BOOLEAN, t \in Nums :
             [p EXCEPT !.output = b, !.running = TRUE, !.thread = t] \in ObjRec
       /\ Emptied(p) \in ObjRec
       /\ [Emptied(p) EXCEPT !.running = FALSE] \in ObjRec
       /\ NewObj \in ObjRec /\ NoObj \in ObjRec
  BY <1>3, ObjEdits
<1>17. stray \subseteq {"input"} /\ stray' = stray \cup UsesInput(c) =>
                stray' \subseteq {"input"}
  BY DEF UsesInput
<1>18. UNCHANGED <<hals, device, voiceQ>> => HalTypes'
  BY <1>2 DEF HalTypes
<1> HIDE DEF p
<1> USE DEF Doing, At, Answered
<1>20. CASE Create(c)
  <2>1. Set(c, NewObj) /\ Return(c) /\ At(c, "enter") /\ call[c].op = "create"
        /\ UNCHANGED <<proc, hals, device, queues, thr, answer, voiceQ, stray>>
    BY <1>20 DEF Create
  <2>2. ObjTypes' /\ obj'[Obj(c)] = NewObj /\ \A o \in Objects \ {Obj(c)} : obj'[o] = obj[o]
    BY <2>1, <1>7, <1>16
  <2>3. DoesMake(c)
    BY <1>4, <1>8, <2>1, <2>2 DEF DoesMake, NewObj
  <2>4. QED
    BY <1>1, <1>8, <1>18, <2>1, <2>2, <2>3 DEF Does
<1>21. CASE Free(c)
  <2>1. Set(c, NoObj) /\ Return(c) /\ At(c, "free")
        /\ UNCHANGED <<proc, hals, device, queues, thr, answer, voiceQ, stray>>
    BY <1>21 DEF Free
  <2>2. ObjTypes' /\ obj'[Obj(c)] = NoObj /\ \A o \in Objects \ {Obj(c)} : obj'[o] = obj[o]
    BY <2>1, <1>7, <1>16
  <2>3. DoesMake(c)
    BY <1>4, <1>8, <2>1, <2>2 DEF DoesMake, NewObj, NoObj
  <2>4. QED
    BY <1>1, <1>8, <1>18, <2>1, <2>2, <2>3 DEF Does
<1>22. CASE OpenRefused(c) \/ OpenBegins(c) \/ CheckHal(c) \/ HalFails(c) \/ CountUser(c)
            \/ QueueFails(c) \/ CloseNot(c) \/ Update(c)
  <2>1. UNCHANGED <<obj, hals, device, queues, thr, answer, voiceQ, stray>>
    BY <1>22 DEF OpenRefused, OpenBegins, CheckHal, HalFails, CountUser, QueueFails, CloseNot,
                 Update
  <2>2. DoesIdle(c) /\ ProcTypes'
    <3>1. CASE OpenRefused(c)
      BY <3>1, <1>4, <1>8, <2>1 DEF OpenRefused, DoesIdle
    <3>2. CASE OpenBegins(c)
      BY <3>2, <1>5, <1>9, <1>10, <1>11, <2>1 DEF OpenBegins, DoesIdle
    <3>3. CASE CheckHal(c)
      BY <3>3, <1>5, <1>8, <1>11, <2>1 DEF CheckHal, DoesIdle
    <3>4. CASE HalFails(c)
      BY <3>4, <1>4, <1>8, <2>1 DEF HalFails, DoesIdle
    <3>5. CASE CountUser(c)
      BY <3>5, <1>5, <1>9, <1>11, <2>1 DEF CountUser, DoesIdle
    <3>6. CASE QueueFails(c)
      BY <3>6, <1>5, <1>9, <1>11, <2>1 DEF QueueFails, DoesIdle
    <3>7. CASE CloseNot(c)
      BY <3>7, <1>4, <1>5, <1>8, <1>11, <2>1 DEF CloseNot, Closing, DoesIdle
    <3>8. CASE Update(c)
      <4>1. call[c].op = "power" => call[c].mode \in Modes
        BY <1>1 DEF CallShape
      <4>2. ProcTypes' /\ Users(0)
        BY <1>9, <1>10, <3>8, <4>1 DEF Update, Stored
      <4>3. QED
        BY <3>8, <1>4, <2>1, <4>2 DEF Update, DoesIdle
    <3>9. QED
      BY <1>22, <3>1, <3>2, <3>3, <3>4, <3>5, <3>6, <3>7, <3>8
  <2>3. QED
    BY <1>1, <1>6, <1>8, <1>18, <2>1, <2>2 DEF Does
<1>23. CASE OpenHal(c)
  <2>1. /\ UNCHANGED <<obj, queues, thr, answer, voiceQ, stray>> /\ At(c, "opening")
        /\ Goto(c, "count")
    BY <1>23 DEF OpenHal
  <2>2. hals.opens + 1 \in Nums \ {0}
    BY <1>2, <1>23, BoundsAssumption DEF OpenHal, HalTypes, Nums
  <2>3. ProcTypes' /\ Users(0)
    BY <1>9, <1>23, <2>2 DEF OpenHal
  <2>4. HalTypes'
    <3>1. /\ hals' = [open |-> hals.open \cup {hals.opens + 1}, opens |-> hals.opens + 1]
          /\ device' = [power |-> proc.power, privacy |-> proc.privacy]
      BY <1>23 DEF OpenHal
    <3>2. QED
      BY <1>2, <2>1, <2>2, <3>1 DEF HalTypes, ProcTypes, ProcRec
  <2>5. DoesIdle(c)
    BY <1>5, <1>11, <2>1, <2>3 DEF DoesIdle
  <2>6. QED
    BY <1>1, <1>6, <1>8, <2>1, <2>3, <2>4, <2>5 DEF Does
<1>24. CASE OpenQueue(c)
  <2>1. /\ UNCHANGED <<proc, hals, device, thr, answer, voiceQ, stray>> /\ At(c, "queue")
        /\ Goto(c, "input")
    BY <1>24 DEF OpenQueue
  <2>2. PICK q \in (1 .. QIds) \ DOMAIN queues :
            Set(c, [p EXCEPT !.msgq = q]) /\ queues' = With(q, <<>>)
    BY <1>24 DEF OpenQueue, p
  <2>8. q \in 0 .. QIds
    BY BoundsAssumption
  <2>3. /\ ObjTypes' /\ obj'[Obj(c)] = [p EXCEPT !.msgq = q]
        /\ \A o \in Objects \ {Obj(c)} : obj'[o] = obj[o]
    BY <1>7, <1>16, <2>2, <2>8
  <2>4. /\ QueueTypes' /\ DOMAIN queues' = DOMAIN queues \cup {q} /\ queues'[q] = <<>>
        /\ \A i \in DOMAIN queues \ {q} : queues'[i] = queues[i]
    BY <1>2, <2>2, NewQueueIs
  <2>5. /\ KeepsFlags(c) /\ obj'[Obj(c)].msgq = q
        /\ obj'[Obj(c)].input = obj[Obj(c)].input
    BY <1>3, <2>3 DEF KeepsFlags, ObjRec, p
  <2>6. DoesQueue(c)
    BY <1>5, <1>8, <1>11, <2>1, <2>4, <2>5 DEF DoesQueue
  <2>7. QED
    BY <1>1, <1>8, <1>18, <2>1, <2>3, <2>4, <2>6 DEF Does
<1>25. CASE OpenInput(c)
  <2>1. /\ UNCHANGED <<proc, hals, device, thr, answer, voiceQ, stray>> /\ At(c, "input")
        /\ Goto(c, "launch")
    BY <1>25 DEF OpenInput
  <2>2. CASE /\ Set(c, [p EXCEPT !.input = "live"])
             /\ Push(p.msgq, [Msg("idleStart", c) EXCEPT !.sem = Nobody])
    <3>1. /\ ObjTypes' /\ obj'[Obj(c)] = [p EXCEPT !.input = "live"]
          /\ \A o \in Objects \ {Obj(c)} : obj'[o] = obj[o]
      BY <1>7, <1>16, <2>2
    <3>2. KeepsFlags(c) /\ KeepsThread(c) /\ obj'[Obj(c)].input = "live"
      BY <1>3, <3>1 DEF KeepsFlags, KeepsThread, ObjRec, p
    <3>3. /\ QueueTypes'
          /\ \E m \in MsgRec : m.type = "idleStart" /\ m.sem = Nobody /\ Pushed(p.msgq, m)
      BY <1>12, <1>13, <2>2
    <3>4. DoesInput(c)
      BY <1>5, <1>8, <1>11, <2>1, <3>2, <3>3 DEF DoesInput, p
    <3>5. QED
      BY <1>1, <1>8, <1>18, <2>1, <3>1, <3>3, <3>4 DEF Does
  <2>3. CASE Set(c, [p EXCEPT !.input = "null"]) /\ UNCHANGED queues
    <3>1. /\ ObjTypes' /\ obj'[Obj(c)] = [p EXCEPT !.input = "null"]
          /\ \A o \in Objects \ {Obj(c)} : obj'[o] = obj[o]
      BY <1>7, <1>16, <2>3
    <3>2. KeepsFlags(c) /\ KeepsThread(c) /\ obj'[Obj(c)].input = "null"
      BY <1>3, <3>1 DEF KeepsFlags, KeepsThread, ObjRec, p
    <3>3. DoesInput(c)
      BY <1>5, <1>8, <1>11, <2>1, <2>3, <3>2 DEF DoesInput, p
    <3>4. QED
      BY <1>1, <1>8, <1>18, <2>1, <2>3, <3>1, <3>3 DEF Does
  <2>4. CASE UNCHANGED <<obj, queues>>
    <3>1. DoesInput(c)
      BY <1>5, <1>8, <1>11, <2>1, <2>4 DEF DoesInput, KeepsFlags, KeepsThread
    <3>2. QED
      BY <1>1, <1>6, <1>8, <1>18, <2>1, <2>4, <3>1 DEF Does
  <2>5. QED
    BY <1>25, <2>2, <2>3, <2>4 DEF OpenInput, p
<1>26. CASE MicFails(c)
  <2>1. /\ UNCHANGED <<hals, device, queues, thr, answer, voiceQ, stray>> /\ At(c, "input")
        /\ Goto(c, "drop") /\ proc' = Uncount /\ "mic" \in Failures
        /\ Set(c, [p EXCEPT !.input = "freed"])
    BY <1>26 DEF MicFails, p
  <2>2. /\ ObjTypes' /\ obj'[Obj(c)] = [p EXCEPT !.input = "freed"]
        /\ \A o \in Objects \ {Obj(c)} : obj'[o] = obj[o]
    BY <1>7, <1>16, <2>1
  <2>3. KeepsFlags(c) /\ KeepsThread(c) /\ obj'[Obj(c)].input = "freed"
    BY <1>3, <2>2 DEF KeepsFlags, KeepsThread, ObjRec, p
  <2>4. DoesInput(c)
    BY <1>5, <1>9, <1>11, <2>1, <2>3 DEF DoesInput, p
  <2>5. QED
    BY <1>1, <1>8, <1>9, <1>18, <2>1, <2>2, <2>4 DEF Does
<1>27. CASE Launch(c)
  <2> DEFINE t == [st |-> "init", q |-> p.msgq, hal |-> proc.hal, sem |-> <<c, call[c].n>>]
             k == Len(thr) + 1
  <2>1. /\ UNCHANGED <<proc, hals, device, queues, answer, voiceQ>> /\ At(c, "launch")
        /\ Goto(c, "waitLaunch") /\ Len(thr) < MaxOpens /\ thr' = Append(thr, t) /\ ~p.running
        /\ Set(c, [p EXCEPT !.output = call[c].out, !.running = TRUE, !.thread = k])
        /\ stray' = stray \cup UsesInput(c)
    BY <1>27 DEF Launch, p
  <2>2. t \in ThrRec
    <3>1. <<c, call[c].n>> \in Senders
      BY <1>2, BoundsAssumption DEF CallRec, Senders
    <3>2. proc.hal \in Nums /\ p.msgq \in 0 .. QIds
      BY <1>2, <1>3 DEF ProcTypes, ProcRec, ObjRec
    <3>3. QED
      BY <3>1, <3>2 DEF ThrRec
  <2> HIDE DEF t
  <2>3. ThrTypes' /\ k \in Nums
    BY <1>2, <2>1, <2>2, BoundsAssumption DEF ThrTypes, Nums
  <2>4. /\ ObjTypes'
        /\ obj'[Obj(c)] = [p EXCEPT !.output = call[c].out, !.running = TRUE, !.thread = k]
        /\ \A o \in Objects \ {Obj(c)} : obj'[o] = obj[o]
    BY <1>7, <1>10, <1>16, <2>1, <2>3
  <2>5. LET r == obj'[Obj(c)] IN
          /\ r.made = p.made /\ r.opened = p.opened /\ r.running
          /\ r.msgq = p.msgq /\ r.input = p.input /\ r.thread = k
    BY <1>3, <2>4 DEF ObjRec
  <2>6. DoesLaunch(c)
    BY <1>5, <1>8, <1>11, <1>17, <2>1, <2>5 DEF DoesLaunch, p, t
  <2>7. QED
    BY <1>1, <1>8, <1>18, <2>1, <2>3, <2>4, <2>6 DEF Does
<1>28. CASE LaunchFails(c)
  <2>1. /\ UNCHANGED <<hals, device, thr, answer, voiceQ>> /\ At(c, "launch")
        /\ stray' = stray \cup UsesInput(c)
    BY <1>28 DEF LaunchFails
  <2>2. CASE Push(p.msgq, Msg("idleStop", c)) /\ Goto(c, "waitUndo") /\ UNCHANGED <<obj, proc>>
    <3>1. QueueTypes' /\ Pushed(p.msgq, Msg("idleStop", c))
      BY <1>12, <1>13, <2>2
    <3>2. DoesAsk(c)
      BY <1>5, <1>8, <1>11, <1>12, <1>17, <2>1, <2>2, <3>1 DEF DoesAsk, p
    <3>3. QED
      BY <1>1, <1>6, <1>8, <1>18, <2>1, <2>2, <3>1, <3>2 DEF Does
  <2>3. CASE Released(c) /\ Set(c, [p EXCEPT !.msgq = 0, !.input = "null"])
    <3>1. /\ ObjTypes' /\ obj'[Obj(c)] = [p EXCEPT !.msgq = 0, !.input = "null"]
          /\ \A o \in Objects \ {Obj(c)} : obj'[o] = obj[o]
      BY <1>7, <1>16, <2>3
    <3>2. LET r == obj'[Obj(c)] IN
          /\ r.made = p.made /\ r.opened = p.opened /\ r.thread = p.thread
          /\ r.msgq = 0 /\ r.input = "null" /\ r.running = p.running
      BY <1>3, <3>1 DEF ObjRec
    <3>3. DoesRelease(c)
      BY <1>15, <1>17, <2>1, <2>3, <3>2 DEF DoesRelease, p
    <3>4. QED
      BY <1>1, <1>8, <1>15, <1>18, <2>1, <2>3, <3>1, <3>3 DEF Does
  <2>4. QED
    BY <1>28, <2>2, <2>3 DEF LaunchFails, p
<1>29. CASE Undo(c)
  <2>1. /\ UNCHANGED <<hals, device, thr, voiceQ, stray>> /\ At(c, "waitUndo")
        /\ Answered(c, call[c].pc) /\ Consume(c) /\ Released(c)
        /\ Set(c, [p EXCEPT !.msgq = 0, !.input = "null"])
    BY <1>29 DEF Undo, p
  <2>2. /\ ObjTypes' /\ obj'[Obj(c)] = [p EXCEPT !.msgq = 0, !.input = "null"]
        /\ \A o \in Objects \ {Obj(c)} : obj'[o] = obj[o]
    BY <1>7, <1>16, <2>1
  <2>3. LET r == obj'[Obj(c)] IN
          /\ r.made = p.made /\ r.opened = p.opened /\ r.thread = p.thread
          /\ r.msgq = 0 /\ r.input = "null" /\ r.running = p.running
    BY <1>3, <2>2 DEF ObjRec
  <2>4. DoesRelease(c)
    BY <1>14, <1>15, <2>1, <2>3 DEF DoesRelease, p
  <2>5. QED
    BY <1>1, <1>8, <1>14, <1>15, <1>18, <2>1, <2>2, <2>4 DEF Does
<1>30. CASE Launched(c)
  <2>1. /\ UNCHANGED <<hals, device, queues, thr, voiceQ, stray>> /\ At(c, "waitLaunch")
        /\ Answered(c, call[c].pc) /\ Consume(c) /\ Return(c)
        /\ Set(c, [p EXCEPT !.opened = TRUE])
        /\ proc' = [proc EXCEPT !.power = call[c].mode]
    BY <1>30 DEF Launched, p
  <2>2. /\ ObjTypes' /\ obj'[Obj(c)] = [p EXCEPT !.opened = TRUE]
        /\ \A o \in Objects \ {Obj(c)} : obj'[o] = obj[o]
    BY <1>7, <1>16, <2>1
  <2>3. LET r == obj'[Obj(c)] IN
          /\ r.made = p.made /\ r.opened /\ r.running = p.running /\ r.input = p.input
          /\ r.thread = p.thread /\ r.msgq = p.msgq
    BY <1>3, <2>2 DEF ObjRec
  <2>4. call[c].mode \in Modes
    BY <1>1, <2>1 DEF CallShape, OpenPCs
  <2>5. DoesOpen(c)
    BY <1>4, <1>9, <1>14, <2>1, <2>3, <2>4 DEF DoesOpen, KeepsThread, p
  <2>6. QED
    BY <1>1, <1>8, <1>9, <1>14, <1>18, <2>1, <2>2, <2>4, <2>5 DEF Does
<1>31. CASE CloseInput(c)
  <2>1. /\ UNCHANGED <<obj, proc, hals, device, thr, answer, voiceQ>> /\ At(c, "enter")
        /\ call[c].op \in {"close", "destroy"} /\ p.opened
        /\ stray' = stray \cup UsesInput(c)
        /\ \/ Push(p.msgq, Msg("idleStop", c)) /\ Goto(c, "waitInput")
           \/ Push(p.msgq, Msg("terminate", c)) /\ Goto(c, "waitTerm")
    BY <1>31 DEF CloseInput, Closing, p
  <2>2. /\ QueueTypes'
        /\ \/ Pushed(p.msgq, Msg("idleStop", c)) /\ Went(c, "waitInput")
           \/ Pushed(p.msgq, Msg("terminate", c)) /\ Went(c, "waitTerm")
    BY <1>5, <1>11, <1>12, <1>13, <2>1
  <2>3. DoesAsk(c)
    BY <1>8, <1>12, <1>17, <2>1, <2>2 DEF DoesAsk, p
  <2>4. QED
    BY <1>1, <1>6, <1>8, <1>18, <2>1, <2>2, <2>3 DEF Does
<1>32. CASE Terminate(c)
  <2>1. /\ UNCHANGED <<obj, proc, hals, device, thr, voiceQ, stray>> /\ At(c, "waitInput")
        /\ Answered(c, call[c].pc) /\ Consume(c)
        /\ Push(p.msgq, Msg("terminate", c)) /\ Goto(c, "waitTerm")
    BY <1>32 DEF Terminate, p
  <2>2. QueueTypes' /\ Pushed(p.msgq, Msg("terminate", c)) /\ Went(c, "waitTerm")
    BY <1>5, <1>11, <1>12, <1>13, <2>1
  <2>3. DoesAsk(c)
    BY <1>8, <1>12, <1>14, <2>1, <2>2 DEF DoesAsk, p
  <2>4. QED
    BY <1>1, <1>6, <1>8, <1>14, <1>18, <2>1, <2>2, <2>3 DEF Does
<1>33. CASE Join(c)
  <2>1. /\ UNCHANGED <<hals, device, thr, voiceQ, stray>> /\ At(c, "waitTerm")
        /\ Answered(c, call[c].pc) /\ Consume(c) /\ Released(c)
        /\ thr[p.thread].st = "exited"
        /\ Set(c, [Emptied(p) EXCEPT !.running = FALSE])
    BY <1>33 DEF Join, p
  <2>2. /\ ObjTypes' /\ obj'[Obj(c)] = [Emptied(p) EXCEPT !.running = FALSE]
        /\ \A o \in Objects \ {Obj(c)} : obj'[o] = obj[o]
    BY <1>7, <1>16, <2>1
  <2>3. LET r == obj'[Obj(c)] IN
          /\ r.made = p.made /\ r.opened = p.opened /\ r.thread = p.thread
          /\ r.msgq = 0 /\ r.input = "null" /\ ~r.running
    BY <1>3, <2>2 DEF ObjRec, Emptied
  <2>4. DoesRelease(c)
    BY <1>14, <1>15, <2>1, <2>3 DEF DoesRelease, p
  <2>5. QED
    BY <1>1, <1>8, <1>14, <1>15, <1>18, <2>1, <2>2, <2>4 DEF Does
<1>34. CASE Abandon(c)
  <2>1. /\ UNCHANGED <<hals, device, thr, answer, voiceQ, stray>> /\ At(c, "waitTerm")
        /\ answer[c] = "none" /\ Released(c) /\ thr[p.thread].st = "poll" /\ Set(c, Emptied(p))
    BY <1>34 DEF Abandon, p
  <2>2. /\ ObjTypes' /\ obj'[Obj(c)] = Emptied(p)
        /\ \A o \in Objects \ {Obj(c)} : obj'[o] = obj[o]
    BY <1>7, <1>16, <2>1
  <2>3. LET r == obj'[Obj(c)] IN
          /\ r.made = p.made /\ r.opened = p.opened /\ r.thread = p.thread
          /\ r.msgq = 0 /\ r.input = "null" /\ r.running = p.running
    BY <1>3, <2>2 DEF ObjRec, Emptied
  <2>4. DoesRelease(c)
    BY <1>15, <2>1, <2>3 DEF DoesRelease, p
  <2>5. QED
    BY <1>1, <1>8, <1>15, <1>18, <2>1, <2>2, <2>4 DEF Does
<1>35. CASE Drop(c)
  <2>1. /\ UNCHANGED <<device, queues, thr, answer, voiceQ, stray>> /\ At(c, "drop")
        /\ Set(c, IF call[c].op = "open" THEN p ELSE [p EXCEPT !.opened = FALSE])
        /\ IF call[c].op = "destroy" THEN Goto(c, "free") ELSE Return(c)
    BY <1>35 DEF Drop, Dropped, p
  <2>2. /\ ObjTypes' /\ \A o \in Objects \ {Obj(c)} : obj'[o] = obj[o]
        /\ obj'[Obj(c)] = IF call[c].op = "open" THEN p ELSE [p EXCEPT !.opened = FALSE]
    BY <1>3, <1>7, <1>16, <2>1
  <2>3. LET r == obj'[Obj(c)] IN
          /\ r.made = p.made /\ r.running = p.running /\ r.input = p.input
          /\ r.thread = p.thread /\ r.msgq = p.msgq
          /\ r.opened <=> p.opened /\ call[c].op = "open"
    BY <1>3, <2>2 DEF ObjRec
  <2>4. ProcTypes' /\ Users(0) /\ HalTypes'
    <3>1. CASE UNCHANGED <<hals, proc>>
      BY <1>8, <1>18, <2>1, <3>1
    <3>2. CASE /\ hals' = [hals EXCEPT !.open = @ \ {proc.hal}]
               /\ proc' = [proc EXCEPT !.hal = 0]
      <4>1. ProcTypes' /\ Users(0)
        BY <1>9, <3>2, BoundsAssumption DEF Nums
      <4>2. QED
        BY <1>2, <2>1, <3>2, <4>1 DEF HalTypes
    <3>3. QED
      BY <1>35, <3>1, <3>2 DEF Drop
  <2>5. DoesDrop(c)
    BY <1>4, <1>5, <1>11, <2>1, <2>3, <2>4 DEF DoesDrop, KeepsThread, p
  <2>6. QED
    BY <1>1, <1>8, <2>1, <2>2, <2>4, <2>5 DEF Does
<1>36. CASE UpdateAsks(c) \/ Get(c)
  <2>1. /\ UNCHANGED <<obj, proc, hals, device, thr, answer, voiceQ, stray>> /\ At(c, "enter")
        /\ call[c].op \in Asking /\ (p.opened \/ call[c].op \in {"privacyGet", "limits"})
        /\ Push(p.msgq, Msg(call[c].op, c)) /\ Goto(c, "wait")
    BY <1>36 DEF UpdateAsks, Get, Ask, Asking, p
  <2>2. call[c].op \in AllOps
    BY <2>1 DEF Asking, AllOps
  <2>3. QueueTypes' /\ Pushed(p.msgq, Msg(call[c].op, c)) /\ Went(c, "wait")
    BY <1>5, <1>11, <1>12, <1>13, <2>1, <2>2
  <2>4. DoesAsk(c)
    BY <1>8, <1>12, <2>1, <2>2, <2>3 DEF DoesAsk, p
  <2>5. QED
    BY <1>1, <1>6, <1>8, <1>18, <2>1, <2>3, <2>4 DEF Does
<1>37. CASE Reply(c)
  <2>1. /\ UNCHANGED <<obj, hals, device, queues, thr, voiceQ, stray>> /\ At(c, "wait")
        /\ Answered(c, call[c].pc) /\ Consume(c) /\ Return(c)
    BY <1>37 DEF Reply
  <2>2. ProcTypes' /\ Users(0)
    <3>1. call[c].op = "power" => call[c].mode \in Modes
      BY <1>1 DEF CallShape
    <3>2. CASE answer[c] \in {"on", "off"}
      <4>1. proc' = [proc EXCEPT !.privacy = (answer[c] = "on")]
        BY <1>37, <3>2 DEF Reply
      <4>2. QED
        BY <1>9, <4>1
    <3>3. CASE answer[c] \notin {"on", "off"}
      BY <1>8, <1>9, <1>10, <1>37, <3>1, <3>3 DEF Reply, Stored
    <3>4. QED
      BY <3>2, <3>3
  <2>3. DoesReply(c)
    BY <1>4, <1>14, <2>1, <2>2 DEF DoesReply
  <2>4. QED
    BY <1>1, <1>6, <1>8, <1>14, <1>18, <2>1, <2>2, <2>3 DEF Does
<1>38. CASE Poll(c)
  <2>1. /\ UNCHANGED <<obj, proc, hals, device, thr, answer, voiceQ, stray>> /\ At(c, "enter")
        /\ call[c].op = "poll" /\ Return(c)
        /\ \/ Push(p.msgq, [Msg("poll", c) EXCEPT !.sem = Nobody])
           \/ UNCHANGED queues
    BY <1>38 DEF Poll, p
  <2>2. /\ QueueTypes'
        /\ \/ UNCHANGED queues
           \/ \E m \in MsgRec : m.type = "poll" /\ m.sem = Nobody /\ Pushed(p.msgq, m)
    BY <1>8, <1>12, <1>13, <2>1
  <2>3. DoesPoll(c)
    BY <1>4, <1>8, <2>1, <2>2 DEF DoesPoll, p
  <2>4. QED
    BY <1>1, <1>6, <1>8, <1>18, <2>1, <2>2, <2>3 DEF Does
<1>39. QED
  BY <1>20, <1>21, <1>22, <1>23, <1>24, <1>25, <1>26, <1>27, <1>28, <1>29, <1>30, <1>31, <1>32,
     <1>33, <1>34, <1>35, <1>36, <1>37, <1>38 DEF CallerStep, OpenStep, CloseStep

-----------------------------------------------------------------------------
(* What the steps of a main thread do to the data.                         *)

Popped(q) == /\ DOMAIN queues' = DOMAIN queues /\ queues'[q] = Tail(queues[q])
             /\ \A p \in DOMAIN queues \ {q} : queues'[p] = queues[p]
Turned(t, st) ==
    /\ Len(thr') = Len(thr)
    /\ thr'[t].st = st /\ thr'[t].q = thr[t].q /\ thr'[t].hal = thr[t].hal
    /\ thr'[t].sem = thr[t].sem
    /\ \A i \in DOMAIN thr \ {t} : thr'[i] = thr[i]

DoesStart(t) ==
    /\ thr[t].st = "init" /\ Turned(t, "loop") /\ UNCHANGED <<device, queues>>
    /\ Post(thr[t].sem, "ok")
    /\ voiceQ' = IF voiceQ = 0 THEN thr[t].q ELSE voiceQ
DoesTurn(t) ==
    /\ UNCHANGED <<device, queues, answer, voiceQ, stray>>
    /\ \/ thr[t].st = "init" /\ Turned(t, "exited")
       \/ thr[t].st = "loop" /\ thr[t].q \notin DOMAIN queues /\ Turned(t, "exited")
       \/ thr[t].st = "ending" /\ Turned(t, "exited")
       \/ thr[t].st = "poll" /\ Turned(t, "loop")
DoesTake(t) ==
    LET q == thr[t].q
        m == queues[q][1]
    IN  /\ thr[t].st = "loop" /\ q \in DOMAIN queues /\ Len(queues[q]) > 0 /\ Popped(q)
        /\ \/ /\ m.type = "idleStart" /\ voiceQ' = q
              /\ UNCHANGED <<device, thr, answer, stray>>
           \/ /\ m.type = "idleStop" /\ Post(m.sem, "ok")
              /\ UNCHANGED <<device, thr, voiceQ>>
           \/ /\ m.type = "terminate" /\ Post(m.sem, "ok") /\ Turned(t, "ending")
              /\ UNCHANGED <<device, voiceQ>>
           \/ /\ m.type \in {"power", "privacy"} /\ UNCHANGED <<thr, voiceQ>>
              /\ \/ Post(m.sem, "error") /\ UNCHANGED device
                 \/ /\ Post(m.sem, "ok")
                    /\ m.type = "power" => device'.privacy = device.privacy
                    /\ m.type = "privacy" => device'.privacy = m.on
           \/ /\ m.type \in {"privacyGet", "limits"} /\ UNCHANGED <<device, thr, voiceQ>>
              /\ \/ Post(m.sem, "error") \/ (m.type = "limits" /\ Post(m.sem, "ok"))
                 \/ /\ m.type = "privacyGet"
                    /\ Post(m.sem, IF device.privacy THEN "on" ELSE "off")
                 \/ m.type = "limits" /\ UNCHANGED <<answer, stray>>
           \/ /\ m.type = "poll" /\ UNCHANGED <<device, answer, voiceQ, stray>>
              /\ (SlowPolls /\ Turned(t, "poll")) \/ UNCHANGED thr

ThreadDoes(t) ==
    /\ UNCHANGED <<call, mutex, obj, proc, hals>>
    /\ HalTypes' /\ QueueTypes' /\ ThrTypes' /\ AnswerTypes'
    /\ DoesStart(t) \/ DoesTurn(t) \/ DoesTake(t)

\* What the messages carry when they are answered: a mode that is one, a sender that exists.
ModesSent == \A q \in DOMAIN queues : \A i \in 1 .. Len(queues[q]) :
                 queues[q][i].type = "power" => queues[q][i].mode \in Modes

\* Posting a semaphore.
LEMMA PostIs ==
    ASSUME AnswerTypes, NEW s \in Senders, NEW a \in Answers, Post(s, a)
    PROVE  AnswerTypes'
<1>1. CASE Waiting(s)
  <2>1. s[1] \in Callers
    BY <1>1 DEF Waiting, Senders
  <2>2. QED
    BY <1>1, <2>1 DEF Post, AnswerTypes
<1>2. CASE ~Waiting(s)
  BY <1>2 DEF Post, AnswerTypes
<1>3. QED
  BY <1>1, <1>2

\* A thread that changes its state.
LEMMA BecomesIs ==
    ASSUME ThrTypes, NEW t \in DOMAIN thr,
           NEW st \in {"init", "loop", "poll", "ending", "exited"}, Becomes(t, st)
    PROVE  ThrTypes' /\ Turned(t, st)
<1>1. /\ thr \in [1 .. Len(thr) -> ThrRec] /\ DOMAIN thr = 1 .. Len(thr) /\ Len(thr) \in Nat
      /\ thr' = [thr EXCEPT ![t].st = st]
  BY DEF ThrTypes, Becomes
<1>2. [thr[t] EXCEPT !.st = st] \in ThrRec
  BY <1>1 DEF ThrRec
<1>3. thr' = [thr EXCEPT ![t] = [thr[t] EXCEPT !.st = st]]
  BY <1>1
<1>4. thr' \in [1 .. Len(thr) -> ThrRec] /\ \A i \in DOMAIN thr \ {t} : thr'[i] = thr[i]
  BY <1>1, <1>2, <1>3
<1>5. thr' \in Seq(ThrRec) /\ Len(thr') = Len(thr)
  BY <1>1, <1>4
<1>6. thr'[t] = [thr[t] EXCEPT !.st = st]
  BY <1>1, <1>3
<1>7. QED
  BY <1>1, <1>4, <1>5, <1>6 DEF ThrTypes, Turned, ThrRec

\* Taking the message at the head of a queue.
LEMMA ReceivesIs ==
    ASSUME ThrTypes, QueueTypes, NEW t \in DOMAIN thr, NEW types, Receives(t, types)
    PROVE  LET q == thr[t].q IN
           /\ thr[t].st = "loop" /\ q \in DOMAIN queues /\ Len(queues[q]) > 0 /\ Popped(q)
           /\ Received(t) = queues[q][1] /\ queues[q][1] \in MsgRec /\ queues[q][1].type \in types
           /\ QueueTypes'
           /\ UNCHANGED <<call, mutex, obj, proc, hals>>
<1> DEFINE q == thr[t].q
<1>1. /\ thr[t].st = "loop" /\ q \in DOMAIN queues /\ queues[q] # <<>>
      /\ Head(queues[q]).type \in types /\ queues' = With(q, Tail(queues[q]))
      /\ UNCHANGED <<call, mutex, obj, proc, hals>>
  BY DEF Receives, Loops, IsOpen
<1>2. queues[q] \in Seq(MsgRec) /\ Len(queues[q]) <= QMax
  BY <1>1 DEF QueueTypes
<1> HIDE DEF q
<1>3. /\ Len(queues[q]) > 0 /\ Head(queues[q]) = queues[q][1] /\ queues[q][1] \in MsgRec
      /\ Tail(queues[q]) \in Seq(MsgRec) /\ Len(Tail(queues[q])) <= QMax
  BY <1>1, <1>2, BoundsAssumption
<1>4. Popped(q)
  BY <1>1 DEF With, Popped
<1>5. QueueTypes'
  BY <1>1, <1>3, <1>4 DEF QueueTypes, Popped
<1>6. QED
  BY <1>1, <1>3, <1>4, <1>5 DEF q, Received

\* Every step of a main thread does one of these.
LEMMA ThreadDoesIt ==
    ASSUME Data, ModesSent, NEW t \in DOMAIN thr, ThreadStep(t)
    PROVE  ThreadDoes(t)
<1>1. HalTypes /\ QueueTypes /\ ThrTypes /\ AnswerTypes
  BY DEF Data
<1>2. \A st \in {"init", "loop", "poll", "ending", "exited"} :
          Becomes(t, st) => ThrTypes' /\ Turned(t, st)
  BY <1>1, BecomesIs
<1>3. \A s \in Senders, a \in Answers : Post(s, a) => AnswerTypes'
  BY <1>1, PostIs
<1>4. /\ UNCHANGED <<device, voiceQ, hals>> => HalTypes'
      /\ (UNCHANGED queues => QueueTypes') /\ (UNCHANGED thr => ThrTypes')
      /\ (UNCHANGED answer => AnswerTypes')
  BY <1>1 DEF HalTypes, QueueTypes, ThrTypes, AnswerTypes
<1>5. thr[t] \in ThrRec
  BY <1>1 DEF ThrTypes
<1>6. thr[t].sem \in Senders /\ thr[t].q \in 0 .. QIds
  BY <1>5 DEF ThrRec
<1>7. {"ok", "error", "on", "off"} \subseteq Answers
  BY DEF Answers
<1>8. \A types : Receives(t, types) =>
          LET q == thr[t].q IN
           /\ thr[t].st = "loop" /\ q \in DOMAIN queues /\ Len(queues[q]) > 0 /\ Popped(q)
           /\ Received(t) = queues[q][1] /\ queues[q][1] \in MsgRec /\ queues[q][1].type \in types
           /\ QueueTypes'
           /\ UNCHANGED <<call, mutex, obj, proc, hals>>
  BY <1>1, ReceivesIs
<1>9. \A m \in MsgRec : m.sem \in Senders /\ m.on \in BOOLEAN
  BY DEF MsgRec
<1>10. CASE Starts(t)
  <2>1. DoesStart(t) /\ ThrTypes' /\ AnswerTypes'
    BY <1>2, <1>3, <1>6, <1>7, <1>10 DEF Starts, DoesStart
  <2>2. HalTypes'
    BY <1>1, <1>6, <1>10 DEF Starts, HalTypes
  <2>3. QED
    BY <1>4, <1>10, <2>1, <2>2 DEF Starts, ThreadDoes
<1>11. CASE TooManyChannels(t)
  BY <1>2, <1>4, <1>11 DEF TooManyChannels, ThreadDoes, DoesTurn
<1>12. CASE QueueGone(t)
  BY <1>2, <1>4, <1>12 DEF QueueGone, IsOpen, ThreadDoes, DoesTurn
<1>13. CASE Exits(t)
  BY <1>2, <1>4, <1>13 DEF Exits, ThreadDoes, DoesTurn
<1>14. CASE PollEnds(t)
  BY <1>2, <1>4, <1>14 DEF PollEnds, ThreadDoes, DoesTurn
<1>15. CASE IdleStart(t)
  <2>1. Receives(t, {"idleStart"}) /\ voiceQ' = thr[t].q /\ UNCHANGED <<device, thr, answer, stray>>
    BY <1>15 DEF IdleStart
  <2>2. DoesTake(t) /\ QueueTypes' /\ UNCHANGED <<call, mutex, obj, proc, hals>>
    BY <1>8, <2>1 DEF DoesTake
  <2>3. HalTypes'
    BY <1>1, <1>6, <2>1, <2>2 DEF HalTypes
  <2>4. QED
    BY <1>4, <2>1, <2>2, <2>3 DEF ThreadDoes
<1>16. CASE IdleStop(t)
  <2>1. Receives(t, {"idleStop"}) /\ Post(Received(t).sem, "ok") /\ UNCHANGED <<device, thr, voiceQ>>
    BY <1>16 DEF IdleStop
  <2>2. DoesTake(t) /\ QueueTypes' /\ UNCHANGED <<call, mutex, obj, proc, hals>>
    BY <1>8, <2>1 DEF DoesTake
  <2>3. AnswerTypes'
    BY <1>3, <1>7, <1>8, <1>9, <2>1
  <2>4. QED
    BY <1>4, <2>1, <2>2, <2>3 DEF ThreadDoes
<1>17. CASE Terminated(t)
  <2>1. /\ Receives(t, {"terminate"}) /\ Post(Received(t).sem, "ok") /\ Becomes(t, "ending")
        /\ UNCHANGED <<device, voiceQ>>
    BY <1>17 DEF Terminated
  <2>2. ThrTypes' /\ Turned(t, "ending")
    BY <1>2, <2>1
  <2>3. DoesTake(t) /\ QueueTypes' /\ UNCHANGED <<call, mutex, obj, proc, hals>>
    BY <1>8, <2>1, <2>2 DEF DoesTake
  <2>4. AnswerTypes'
    BY <1>3, <1>7, <1>8, <1>9, <2>1
  <2>5. QED
    BY <1>4, <2>1, <2>2, <2>3, <2>4 DEF ThreadDoes
<1>18. CASE SetMode(t)
  <2> DEFINE m == queues[thr[t].q][1]
  <2>1. Receives(t, {"power", "privacy"}) /\ UNCHANGED <<thr, voiceQ>>
    BY <1>18 DEF SetMode
  <2>2. /\ Received(t) = m /\ m \in MsgRec /\ m.type \in {"power", "privacy"}
        /\ thr[t].q \in DOMAIN queues /\ Len(queues[thr[t].q]) > 0
        /\ QueueTypes' /\ UNCHANGED <<call, mutex, obj, proc, hals>>
    BY <1>8, <2>1
  <2>3. m.type = "power" => m.mode \in Modes
    BY <1>1, <2>2 DEF ModesSent, QueueTypes
  <2> HIDE DEF m
  <2>4. CASE Post(m.sem, "error") /\ UNCHANGED device
    <3>1. DoesTake(t) /\ AnswerTypes'
      BY <1>3, <1>7, <1>8, <1>9, <2>1, <2>2, <2>4 DEF DoesTake, m
    <3>2. QED
      BY <1>4, <2>1, <2>2, <2>4, <3>1 DEF ThreadDoes
  <2>5. CASE /\ Post(m.sem, "ok")
             /\ device' = IF m.type = "power" THEN [device EXCEPT !.power = m.mode]
                          ELSE [device EXCEPT !.privacy = m.on]
    <3>1. /\ HalTypes'
          /\ m.type = "power" => device'.privacy = device.privacy
          /\ m.type = "privacy" => device'.privacy = m.on
      BY <1>1, <1>9, <2>1, <2>2, <2>3, <2>5 DEF HalTypes
    <3>2. DoesTake(t) /\ AnswerTypes'
      BY <1>3, <1>7, <1>8, <1>9, <2>1, <2>2, <2>5, <3>1 DEF DoesTake, m
    <3>3. QED
      BY <1>4, <2>1, <2>2, <2>5, <3>1, <3>2 DEF ThreadDoes
  <2>6. QED
    BY <1>18, <2>2, <2>4, <2>5 DEF SetMode
<1>19. CASE GetMode(t)
  <2> DEFINE m == queues[thr[t].q][1]
  <2>1. /\ Receives(t, {"privacyGet", "limits"}) /\ UNCHANGED <<device, thr, voiceQ>>
        /\ \/ Post(Received(t).sem, "error")
           \/ /\ Received(t).type = "privacyGet"
              /\ Post(Received(t).sem, IF device.privacy THEN "on" ELSE "off")
           \/ Received(t).type = "limits" /\ Post(Received(t).sem, "ok")
           \/ Received(t).type = "limits" /\ UNCHANGED <<answer, stray>>
    BY <1>19 DEF GetMode
  <2>2. /\ Received(t) = m /\ m \in MsgRec
        /\ QueueTypes' /\ UNCHANGED <<call, mutex, obj, proc, hals>>
    BY <1>8, <2>1
  <2> HIDE DEF m
  <2>3. DoesTake(t)
    BY <1>8, <2>1, <2>2 DEF DoesTake, m
  <2>4. AnswerTypes'
    BY <1>3, <1>4, <1>7, <1>9, <2>1, <2>2
  <2>5. QED
    BY <1>4, <2>1, <2>2, <2>3, <2>4 DEF ThreadDoes
<1>20. CASE Polled(t)
  <2>1. /\ Receives(t, {"poll"}) /\ UNCHANGED <<device, answer, voiceQ, stray>>
        /\ (SlowPolls /\ Becomes(t, "poll")) \/ UNCHANGED thr
    BY <1>20 DEF Polled, Becomes
  <2>2. ThrTypes' /\ ((SlowPolls /\ Turned(t, "poll")) \/ UNCHANGED thr)
    BY <1>2, <1>4, <2>1
  <2>3. DoesTake(t) /\ QueueTypes' /\ UNCHANGED <<call, mutex, obj, proc, hals>>
    BY <1>8, <2>1, <2>2 DEF DoesTake
  <2>4. QED
    BY <1>4, <2>1, <2>2, <2>3 DEF ThreadDoes
<1>21. QED
  BY <1>10, <1>11, <1>12, <1>13, <1>14, <1>15, <1>16, <1>17, <1>18, <1>19, <1>20 DEF ThreadStep

-----------------------------------------------------------------------------
(* Calls, mutexes and types are kept.                                      *)

\* A call begins.
Begun(c) ==
    /\ call' \in [Callers -> CallRec] /\ Others(c) /\ At(c, "out")
    /\ call'[c].pc = "enter" /\ call'[c].n = call[c].n + 1
    /\ call'[c].obj \in Serves[c] /\ call'[c].op # "none"
    /\ Permitted(c, call'[c].obj, call'[c].op)
    /\ call'[c].op \in {"open", "power"} => call'[c].mode \in Modes
    /\ UNCHANGED <<mutex, obj, proc, hals, device, queues, thr, answer, voiceQ, stray>>

\* Every API call begins so, with an operation that the object permits.
LEMMA CallIs ==
    ASSUME call \in [Callers -> CallRec], NEW c \in Callers, Call(c)
    PROVE  Begun(c)
<1>1. PICK o \in Serves[c], op \in Ops :
         /\ Permitted(c, o, op)
         /\ \E d \in IF op = "open" THEN Devices ELSE {[in |-> "none", out |-> FALSE]},
               m \in IF op \in {"open", "power"} THEN Modes ELSE {None},
               b \in IF op \in {"open", "privacy"} /\ "privacy" \in Ops THEN BOOLEAN
                     ELSE {FALSE} :
             call' = [call EXCEPT ![c] = [pc |-> "enter", obj |-> o, op |-> op, in |-> d.in,
                                          out |-> d.out, mode |-> m, on |-> b, n |-> @.n + 1]]
  BY DEF Call
<1>2. PICK d \in [in : Inputs, out : BOOLEAN], m \in Modes \cup {None}, b \in BOOLEAN :
         /\ op \in {"open", "power"} => m \in Modes
         /\ call' = [call EXCEPT ![c] = [pc |-> "enter", obj |-> o, op |-> op, in |-> d.in,
                                         out |-> d.out, mode |-> m, on |-> b, n |-> @.n + 1]]
  <2>1. \A d \in IF op = "open" THEN Devices ELSE {[in |-> "none", out |-> FALSE]} :
            d \in [in : Inputs, out : BOOLEAN]
    <3>1. Devices \subseteq [in : Inputs, out : BOOLEAN]
      BY OpsAssumption
    <3>2. [in |-> "none", out |-> FALSE] \in [in : Inputs, out : BOOLEAN]
      BY DEF Inputs
    <3>3. QED
      BY <3>1, <3>2
  <2>2. \A m \in IF op \in {"open", "power"} THEN Modes ELSE {None} :
            m \in Modes \cup {None} /\ (op \in {"open", "power"} => m \in Modes)
    OBVIOUS
  <2>3. QED
    BY <1>1, <2>1, <2>2
<1>3. call[c].n + 1 \in 0 .. MaxCalls /\ call[c].n < MaxCalls /\ At(c, "out")
  BY BoundsAssumption DEF Call, CallRec
<1>4. o \in Objects /\ op \in AllOps /\ op # "none"
  BY ObjectsAssumption, OpsAssumption DEF AllOps
<1> DEFINE r == [pc |-> "enter", obj |-> o, op |-> op, in |-> d.in, out |-> d.out,
                 mode |-> m, on |-> b, n |-> call[c].n + 1]
<1>5. r \in CallRec
  BY <1>2, <1>3, <1>4 DEF CallRec, PCs
<1>6. call' = [call EXCEPT ![c] = r]
  BY <1>2
<1>7. call' \in [Callers -> CallRec] /\ Others(c) /\ call'[c] = r
  BY <1>5, <1>6 DEF Others
<1>8. UNCHANGED <<mutex, obj, proc, hals, device, queues, thr, answer, voiceQ, stray>>
  BY DEF Call
<1>9. QED
  BY <1>1, <1>2, <1>3, <1>4, <1>7, <1>8 DEF Begun

\* Beginning a call keeps the calls and the mutexes sound.
LEMMA BegunCalls ==
    ASSUME CallInv, NEW c \in Callers, Begun(c)
    PROVE  CallInv'
<1> USE DEF CallInv, CallTypes, MutexTypes, Obj
<1>1. CallTypes' /\ MutexTypes'
  <2>1. CallShape(call'[c])
    BY ObjectsAssumption DEF Begun, CallShape, OpenPCs
  <2>2. \A d \in Callers \ {c} : CallShape(call'[d])
    BY DEF Begun, Others
  <2>3. QED
    BY <2>1, <2>2 DEF Begun
<1>2. LockInv'
  <2>1. \A d \in Callers : call'[d].pc \in Inside => d # c /\ call'[d] = call[d]
    BY DEF Begun, Others, Inside
  <2>2. \A o \in Objects : mutex[o] # None => mutex[o] # c /\ mutex[o] \in Callers
    BY DEF Begun, LockInv, Inside, At
  <2>3. QED
    BY <2>1, <2>2 DEF Begun, Others, LockInv
<1>3. AloneInv'
  <2>1. ASSUME NEW d \in Callers, NEW e \in Callers, d # e, call'[d].op \in {"create", "destroy"}
        PROVE  call'[e].obj # call'[d].obj
    <3>1. CASE d = c
      BY <2>1, <3>1 DEF Begun, Permitted, Others
    <3>2. CASE e = c
      BY <2>1, <3>2 DEF Begun, Permitted, Others
    <3>3. CASE d # c /\ e # c
      BY <2>1, <3>3 DEF Begun, Others, AloneInv
    <3>4. QED
      BY <3>1, <3>2, <3>3
  <2>2. ASSUME NEW d \in Callers, call'[d].pc # "out"
        PROVE  (call'[d].op = "create" <=> ~obj'[call'[d].obj].made) /\ call'[d].obj \in Serves[d]
    <3>1. CASE d = c
      BY <3>1 DEF Begun, Permitted
    <3>2. CASE d # c
      BY <2>2, <3>2 DEF Begun, Others, AloneInv
    <3>3. QED
      BY <3>1, <3>2
  <2>3. QED
    BY <2>1, <2>2 DEF AloneInv
<1>4. QED
  BY <1>1, <1>2, <1>3

\* What a step does to the calls of others: nothing, nor to their objects while they hold the
\* mutex.
LEMMA Apart ==
    ASSUME Data, NEW c \in Callers, Does(c), NEW d \in Callers \ {c}
    PROVE  /\ call'[d] = call[d]
           /\ call[d].pc # "out" => Obj(d) \in Objects
           /\ call[d].pc \in Inside => obj'[Obj(d)] = obj[Obj(d)]
<1>1. call'[d] = call[d]
  BY DEF Does, Moves, Others
<1>2. call[d].pc # "out" => Obj(d) \in Objects
  BY DEF Data, CallInv, CallTypes, CallShape, Obj
<1>3. ASSUME call[d].pc \in Inside, Obj(d) = Obj(c)
      PROVE  obj' = obj
  <2>1. mutex[Obj(c)] = d /\ call[c].pc # "out" /\ call[c].pc \notin Inside
    <3>1. mutex[Obj(c)] = d
      BY <1>3 DEF Data, CallInv, LockInv
    <3>2. call[c].pc # "out" /\ (call[c].pc \in Inside => mutex[Obj(c)] = c)
      BY PhaseMoves DEF Data, Does
    <3>3. QED
      BY <3>1, <3>2
  <2>2. call[c].pc \in {"enter", "free"}
    BY <2>1 DEF Data, CallInv, CallTypes, CallRec, Inside
  <2>3. call[c].op \notin {"create", "destroy"}
    BY <1>3 DEF Data, CallInv, AloneInv
  <2>4. call[c].pc = "enter"
    BY <2>2, <2>3 DEF Data, CallInv, CallTypes, CallShape
  <2>5. QED
    BY <2>3, <2>4 DEF Does, DoesIdle, DoesMake, DoesQueue, DoesInput, DoesLaunch, DoesAsk,
          DoesRelease, DoesPoll, DoesOpen, DoesReply, DoesDrop, At
<1>4. QED
  BY <1>1, <1>2, <1>3 DEF Does, Inside

\* Only creation and destruction make and unmake an object.
LEMMA MadeIs ==
    ASSUME Data, NEW c \in Callers, Does(c)
    PROVE  \/ obj'[Obj(c)].made = obj[Obj(c)].made
           \/ Left(c) /\ call[c].op \in {"create", "destroy"}
<1>1. call[c].pc = "free" => call[c].op = "destroy"
  BY DEF Data, CallInv, CallTypes, CallShape
<1>2. CASE DoesIdle(c) \/ DoesAsk(c) \/ DoesPoll(c) \/ DoesReply(c)
  BY <1>2 DEF DoesIdle, DoesAsk, DoesPoll, DoesReply
<1>3. CASE DoesMake(c)
  BY <1>1, <1>3 DEF DoesMake, At
<1>4. CASE DoesQueue(c) \/ DoesInput(c)
  BY <1>4 DEF DoesQueue, DoesInput, KeepsFlags
<1>5. CASE DoesLaunch(c) \/ DoesRelease(c) \/ DoesOpen(c) \/ DoesDrop(c)
  BY <1>5 DEF DoesLaunch, DoesRelease, DoesOpen, DoesDrop
<1>6. QED
  BY <1>2, <1>3, <1>4, <1>5 DEF Does

\* A step of a call keeps the calls and the mutexes sound.
LEMMA CallerCalls ==
    ASSUME Data, NEW c \in Callers, Does(c)
    PROVE  CallInv'
<1> USE DEF Data, CallInv
<1>1. Moves(c) /\ LockInv' /\ MutexTypes' /\ call[c].pc # "out" /\ Obj(c) \in Objects
  BY PhaseMoves DEF Does
<1>2. CallTypes'
  <2>1. CallShape(call'[c])
    <3>1. CallShape(call[c])
      BY DEF CallTypes
    <3>2. CASE At(c, "enter") /\ Enters(c)
      BY <3>1, <3>2 DEF Enters, Went, CallShape, At, OpenPCs
    <3>3. CASE Passes(c)
      BY <3>1, <3>3 DEF Passes, Went, CallShape, At, OpenPCs
    <3>4. CASE Left(c)
      BY <3>4 DEF Left, CallShape, OpenPCs
    <3>5. CASE ~At(c, "out") /\ call[c].op = "destroy" /\ Went(c, "free")
      BY <3>1, <3>5 DEF Went, CallShape, OpenPCs, At
    <3>6. QED
      BY <1>1, <3>2, <3>3, <3>4, <3>5 DEF Moves, At
  <2>2. QED
    BY <1>1, <2>1 DEF CallTypes, Moves, Others
<1>3. \/ Left(c)
      \/ call'[c].obj = call[c].obj /\ call'[c].op = call[c].op
  BY <1>1 DEF Moves, Enters, Passes, Went
<1>4. ASSUME NEW d \in Callers, NEW e \in Callers, d # e, call'[d].op \in {"create", "destroy"}
      PROVE  call'[e].obj # call'[d].obj
  <2>1. call[d].op = call'[d].op /\ call[d].obj = call'[d].obj
    BY <1>1, <1>3, <1>4 DEF Left, Moves, Others
  <2>2. call[d].obj \in Objects /\ call[e].obj # call[d].obj
    BY <1>4, <2>1 DEF AloneInv, CallTypes, CallShape, Obj, CallRec
  <2>3. call'[e].obj \in {call[e].obj, None}
    BY <1>1, <1>3 DEF Left, Moves, Others
  <2>4. QED
    BY <2>1, <2>2, <2>3, ObjectsAssumption
<1>5. ASSUME NEW d \in Callers, call'[d].pc # "out"
      PROVE  (call'[d].op = "create" <=> ~obj'[call'[d].obj].made) /\ call'[d].obj \in Serves[d]
  <2>1. \/ obj'[Obj(c)].made = obj[Obj(c)].made
        \/ Left(c) /\ call[c].op \in {"create", "destroy"}
    BY MadeIs
  <2>2. CASE d = c
    BY <1>1, <1>3, <1>5, <2>1, <2>2 DEF Left, AloneInv, Obj
  <2>3. CASE d # c
    <3>1. call'[d] = call[d] /\ Obj(d) \in Objects
      BY <1>5, <2>3, Apart
    <3>2. obj'[Obj(d)].made = obj[Obj(d)].made
      <4>1. CASE Obj(d) = Obj(c)
        BY <2>1, <2>3, <4>1 DEF AloneInv
      <4>2. CASE Obj(d) # Obj(c)
        BY <3>1, <4>2 DEF Does
      <4>3. QED
        BY <4>1, <4>2
    <3>3. QED
      BY <1>5, <3>1, <3>2 DEF AloneInv, Obj
  <2>4. QED
    BY <2>2, <2>3
<1>6. QED
  BY <1>1, <1>2, <1>4, <1>5 DEF AloneInv, Obj

\* A step of a main thread does not touch them.
LEMMA ThreadCalls ==
    ASSUME CallInv, NEW t, ThreadDoes(t)
    PROVE  CallInv' /\ ObjTypes' = ObjTypes /\ ProcTypes' = ProcTypes
BY DEF ThreadDoes, CallInv, CallTypes, MutexTypes, LockInv, AloneInv, Obj, ObjTypes, ProcTypes

-----------------------------------------------------------------------------
(* Semaphores: who will be woken is waiting for it, and is woken once.     *)

Awaits(r, type) ==
    \/ r.pc \in {"waitUndo", "waitInput"} /\ type = "idleStop"
    \/ r.pc = "waitTerm" /\ type = "terminate"
    \/ r.pc = "wait" /\ type = r.op
\* The call of c waits for the answer to m, which is in queue q.
SentBy(c, m, q) ==
    /\ m.sem = <<c, call[c].n>> /\ Awaits(call[c], m.type)
    /\ m.mode = call[c].mode /\ m.on = call[c].on
    /\ answer[c] = "none" /\ obj[Obj(c)].msgq = q
Sent(m, q) ==
    \/ m.sem = Nobody /\ m.type \in {"idleStart", "poll"}
    \/ \E c \in Callers : SentBy(c, m, q)
LaunchedBy(c, t) ==
    /\ thr[t].sem = <<c, call[c].n>> /\ call[c].pc = "waitLaunch" /\ answer[c] = "none"
    /\ obj[Obj(c)].thread = t

QueuedInv == \A q \in DOMAIN queues : \A i \in 1 .. Len(queues[q]) : Sent(queues[q][i], q)
OnceInv   == \A q \in DOMAIN queues : \A i, j \in 1 .. Len(queues[q]) :
                 queues[q][i].sem = queues[q][j].sem /\ queues[q][i].sem # Nobody => i = j
AnswerInv == \A c \in Callers : answer[c] # "none" => call[c].pc \in Waits
InitInv   == \A t \in DOMAIN thr : thr[t].st = "init" => \E c \in Callers : LaunchedBy(c, t)
SemInv    == QueuedInv /\ OnceInv /\ AnswerInv /\ InitInv /\ stray \subseteq {"input"}

\* A caller that is not waiting, or has its answer, has nothing in a queue; and a step of a
\* call leaves none of its own behind but what it sends.
LEMMA CallerSends ==
    ASSUME Data, SemInv, NEW c \in Callers, Does(c)
    PROVE  /\ answer'[c] = "none" /\ \A d \in Callers \ {c} : answer'[d] = answer[d]
           /\ \A q \in DOMAIN queues \cap DOMAIN queues', m \in MsgRec : ~SentBy(c, m, q)
           /\ \A q \in DOMAIN queues' :
                \/ q \in DOMAIN queues /\ queues'[q] = queues[q]
                \/ queues'[q] = <<>>
                \/ /\ q \in DOMAIN queues
                   /\ \E m \in MsgRec :
                        /\ queues'[q] = Append(queues[q], m)
                        /\ \/ m.sem = Nobody /\ m.type \in {"idleStart", "poll"}
                           \/ SentBy(c, m, q)'
<1>1. call[c].pc \notin Waits => answer[c] = "none"
  BY DEF SemInv, AnswerInv
<1>2. \A q : \A m \in MsgRec : SentBy(c, m, q) =>
          /\ call[c].pc \in {"waitUndo", "waitInput", "waitTerm", "wait"}
          /\ answer[c] = "none" /\ obj[Obj(c)].msgq = q
  BY DEF SentBy, Awaits
<1> DEFINE Frame == \A q \in DOMAIN queues' :
                \/ q \in DOMAIN queues /\ queues'[q] = queues[q]
                \/ queues'[q] = <<>>
                \/ /\ q \in DOMAIN queues
                   /\ \E m \in MsgRec :
                        /\ queues'[q] = Append(queues[q], m)
                        /\ \/ m.sem = Nobody /\ m.type \in {"idleStart", "poll"}
                           \/ SentBy(c, m, q)'
           NotMine == \A q \in DOMAIN queues \cap DOMAIN queues', m \in MsgRec : ~SentBy(c, m, q)
           Now == answer'[c] = "none" /\ \A d \in Callers \ {c} : answer'[d] = answer[d]
<1>3. UNCHANGED queues => Frame
  OBVIOUS
<1>4. \A q : \A m \in MsgRec : /\ Pushed(q, m)
                           /\ \/ m.sem = Nobody /\ m.type \in {"idleStart", "poll"}
                              \/ SentBy(c, m, q)'
                           => Frame
  BY DEF Pushed
<1>5. call[c].pc \notin {"waitUndo", "waitInput", "waitTerm", "wait"} \/ answer[c] # "none"
      => NotMine
  BY <1>2
<1>6. call[c].pc \notin Waits /\ UNCHANGED answer => Now
  BY <1>1
<1>7. Consumed(c) => Now
  BY DEF Consumed
<1> HIDE DEF Frame, NotMine, Now
<1>8. CASE DoesIdle(c) \/ DoesMake(c)
  <2>1. call[c].pc \notin Waits /\ UNCHANGED <<queues, answer>>
    BY <1>8 DEF DoesIdle, DoesMake, At, Waits
  <2>2. Now /\ Frame /\ NotMine
    BY <1>3, <1>5, <1>6, <2>1 DEF Waits
  <2>3. QED
    BY <2>2 DEF Now, Frame, NotMine
<1>9. CASE DoesQueue(c)
  <2>1. call[c].pc \notin Waits /\ UNCHANGED answer
    BY <1>9 DEF DoesQueue, At, Waits
  <2>2. Frame
    BY <1>9 DEF DoesQueue, Frame
  <2>3. Now /\ NotMine
    BY <1>5, <1>6, <2>1 DEF Waits
  <2>4. QED
    BY <2>2, <2>3 DEF Now, Frame, NotMine
<1>10. CASE DoesInput(c) \/ DoesLaunch(c) \/ DoesPoll(c)
  <2>1. call[c].pc \notin Waits /\ UNCHANGED answer
    BY <1>10 DEF DoesInput, DoesLaunch, DoesPoll, At, Waits
  <2>2. Frame
    BY <1>3, <1>4, <1>10 DEF DoesInput, DoesLaunch, DoesPoll
  <2>3. Now /\ NotMine
    BY <1>5, <1>6, <2>1 DEF Waits
  <2>4. QED
    BY <2>2, <2>3 DEF Now, Frame, NotMine
<1>11. CASE DoesAsk(c)
  <2>1. \/ call[c].pc \notin Waits /\ UNCHANGED answer
        \/ call[c].pc = "waitInput" /\ Consumed(c)
    BY <1>11 DEF DoesAsk, At, Waits
  <2>2. Now /\ NotMine
    <3>1. Consumed(c) => answer[c] # "none"
      BY DEF Consumed
    <3>2. QED
      BY <1>5, <1>6, <1>7, <2>1, <3>1 DEF Waits
  <2>3. PICK m \in MsgRec :
          /\ m.sem = <<c, call[c].n>> /\ m.mode = call[c].mode /\ m.on = call[c].on
          /\ Pushed(obj[Obj(c)].msgq, m)
          /\ \/ m.type = "idleStop" /\ (Went(c, "waitUndo") \/ Went(c, "waitInput"))
             \/ m.type = "terminate" /\ Went(c, "waitTerm")
             \/ m.type = call[c].op /\ Went(c, "wait")
    BY <1>11 DEF DoesAsk
  <2>4. \A q : q = obj[Obj(c)].msgq => SentBy(c, m, q)'
    <3>1. /\ call'[c].n = call[c].n /\ call'[c].mode = call[c].mode /\ call'[c].on = call[c].on
          /\ call'[c].obj = call[c].obj /\ Awaits(call'[c], m.type)
      BY <2>3 DEF Went, Awaits
    <3>2. obj' = obj /\ answer'[c] = "none"
      BY <1>11, <2>2 DEF DoesAsk, Now
    <3>3. QED
      BY <2>3, <3>1, <3>2 DEF SentBy, Obj
  <2>5. Frame
    BY <1>4, <2>3, <2>4
  <2>6. QED
    BY <2>2, <2>5 DEF Now, Frame, NotMine
<1>12. CASE DoesRelease(c)
  <2>1. Frame
    BY <1>12 DEF DoesRelease, Frame
  <2>2. NotMine
    BY <1>2, <1>12 DEF DoesRelease, NotMine
  <2>3. Now
    <3>1. CASE UNCHANGED answer /\ answer[c] = "none"
      BY <3>1 DEF Now
    <3>2. CASE UNCHANGED answer /\ At(c, "launch")
      BY <1>6, <3>2 DEF At, Waits
    <3>3. QED
      BY <1>7, <1>12, <3>1, <3>2 DEF DoesRelease
  <2>4. QED
    BY <2>1, <2>2, <2>3 DEF Now, Frame, NotMine
<1>13. CASE DoesOpen(c) \/ DoesReply(c)
  <2>1. Consumed(c) /\ UNCHANGED queues
    BY <1>13 DEF DoesOpen, DoesReply
  <2>2. Now /\ Frame /\ NotMine
    BY <1>3, <1>5, <1>7, <2>1 DEF Consumed
  <2>3. QED
    BY <2>2 DEF Now, Frame, NotMine
<1>14. CASE DoesDrop(c)
  <2>1. call[c].pc \notin Waits /\ UNCHANGED <<queues, answer>>
    BY <1>14 DEF DoesDrop, At, Waits
  <2>2. Now /\ Frame /\ NotMine
    BY <1>3, <1>5, <1>6, <2>1 DEF Waits
  <2>3. QED
    BY <2>2 DEF Now, Frame, NotMine
<1>15. QED
  BY <1>8, <1>9, <1>10, <1>11, <1>12, <1>13, <1>14 DEF Does

\* Who is told to wake whom stays true when a call goes on: a caller leaves a wait only with
\* its answer, and nothing in a queue names it any more.
LEMMA CallerSem ==
    ASSUME Data, SemInv, NEW c \in Callers, Does(c)
    PROVE  SemInv'
<1>1. /\ answer'[c] = "none" /\ \A d \in Callers \ {c} : answer'[d] = answer[d]
      /\ \A q \in DOMAIN queues \cap DOMAIN queues', m \in MsgRec : ~SentBy(c, m, q)
      /\ \A q \in DOMAIN queues' :
            \/ q \in DOMAIN queues /\ queues'[q] = queues[q]
            \/ queues'[q] = <<>>
            \/ /\ q \in DOMAIN queues
               /\ \E m \in MsgRec :
                    /\ queues'[q] = Append(queues[q], m)
                    /\ \/ m.sem = Nobody /\ m.type \in {"idleStart", "poll"}
                       \/ SentBy(c, m, q)'
  BY CallerSends
<1>2. \A d \in Callers \ {c} : /\ call'[d] = call[d]
                               /\ call[d].pc \in Inside => obj'[Obj(d)] = obj[Obj(d)]
  BY Apart
<1>3. ASSUME NEW d \in Callers \ {c}, NEW m \in MsgRec, NEW q, SentBy(d, m, q)
      PROVE  SentBy(d, m, q)'
  <2>1. call[d].pc \in Inside
    BY <1>3 DEF SentBy, Awaits, Inside, PCs, Waits
  <2>2. QED
    BY <1>1, <1>2, <1>3, <2>1 DEF SentBy, Obj
<1>4. \A q \in DOMAIN queues : queues[q] \in Seq(MsgRec)
  BY DEF Data, QueueTypes
<1>5. ASSUME NEW q \in DOMAIN queues \cap DOMAIN queues', NEW i \in 1 .. Len(queues[q]),
             NEW m, m = queues[q][i]
      PROVE  /\ Sent(m, q)'
             /\ m.sem = Nobody \/ \E d \in Callers \ {c} : SentBy(d, m, q)
  <2>1. m \in MsgRec /\ Sent(m, q)
    BY <1>4, <1>5 DEF SemInv, QueuedInv
  <2>2. ~SentBy(c, m, q)
    BY <1>1, <2>1
  <2>3. CASE m.sem = Nobody /\ m.type \in {"idleStart", "poll"}
    BY <2>3 DEF Sent, Nobody
  <2>4. CASE \E d \in Callers \ {c} : SentBy(d, m, q)
    BY <1>3, <2>1, <2>4 DEF Sent
  <2>5. QED
    BY <2>1, <2>2, <2>3, <2>4 DEF Sent
<1>6. QueuedInv' /\ OnceInv'
  <2>1. ASSUME NEW q \in DOMAIN queues'
        PROVE  /\ \A m : \A i \in 1 .. Len(queues'[q]) : m = queues'[q][i] => Sent(m, q)'
               /\ \A i, j \in 1 .. Len(queues'[q]) :
                    queues'[q][i].sem = queues'[q][j].sem /\ queues'[q][i].sem # Nobody => i = j
    <3>1. CASE q \in DOMAIN queues /\ queues'[q] = queues[q]
      BY <1>5, <3>1 DEF SemInv, OnceInv
    <3>2. CASE queues'[q] = <<>>
      BY <3>2
    <3>3. CASE /\ q \in DOMAIN queues
               /\ \E m \in MsgRec :
                    /\ queues'[q] = Append(queues[q], m)
                    /\ \/ m.sem = Nobody /\ m.type \in {"idleStart", "poll"}
                       \/ SentBy(c, m, q)'
      <4>1. PICK m \in MsgRec :
                    /\ queues'[q] = Append(queues[q], m)
                    /\ \/ m.sem = Nobody /\ m.type \in {"idleStart", "poll"}
                       \/ SentBy(c, m, q)'
        BY <3>3
      <4>2. queues[q] \in Seq(MsgRec) /\ Len(queues[q]) \in Nat
        BY <1>4, <3>3
      <4>3. /\ Len(queues'[q]) = Len(queues[q]) + 1 /\ queues'[q][Len(queues[q]) + 1] = m
            /\ \A i \in 1 .. Len(queues[q]) : queues'[q][i] = queues[q][i]
        BY <4>1, <4>2
      <4>4. Sent(m, q)'
        BY <4>1 DEF Sent, Nobody
      <4>5. \A i \in 1 .. Len(queues[q]) : queues[q][i].sem # Nobody => queues[q][i].sem # m.sem
        <5>1. CASE m.sem = Nobody
          BY <5>1
        <5>2. CASE SentBy(c, m, q)'
          <6>1. m.sem[1] = c
            BY <5>2 DEF SentBy
          <6>2. \A i \in 1 .. Len(queues[q]) : queues[q][i].sem # Nobody =>
                    \E d \in Callers \ {c} : queues[q][i].sem[1] = d
            <7>1. ASSUME NEW i \in 1 .. Len(queues[q]), queues[q][i].sem # Nobody
                  PROVE  \E d \in Callers \ {c} : queues[q][i].sem[1] = d
              <8>1. \E d \in Callers \ {c} : SentBy(d, queues[q][i], q)
                BY <1>5, <3>3, <7>1
              <8>2. \A d \in Callers : SentBy(d, queues[q][i], q) => queues[q][i].sem[1] = d
                BY DEF SentBy
              <8>3. QED
                BY <8>1, <8>2
            <7>2. QED
              BY <7>1
          <6>3. QED
            BY <6>1, <6>2
        <5>3. QED
          BY <4>1, <5>1, <5>2
      <4>6. \A k : \A i \in 1 .. Len(queues'[q]) : k = queues'[q][i] => Sent(k, q)'
        <5>1. ASSUME NEW i \in 1 .. Len(queues'[q]), NEW k, k = queues'[q][i] PROVE Sent(k, q)'
          <6>1. CASE i = Len(queues[q]) + 1
            BY <4>3, <4>4, <5>1, <6>1
          <6>2. CASE i \in 1 .. Len(queues[q])
            BY <1>5, <3>3, <4>3, <5>1, <6>2
          <6>3. QED
            BY <4>2, <4>3, <6>1, <6>2
        <5>2. QED
          BY <5>1
      <4>7. \A i, j \in 1 .. Len(queues'[q]) :
                    queues'[q][i].sem = queues'[q][j].sem /\ queues'[q][i].sem # Nobody => i = j
        <5>1. \A i, j \in 1 .. Len(queues[q]) :
                queues[q][i].sem = queues[q][j].sem /\ queues[q][i].sem # Nobody => i = j
          BY <3>3 DEF SemInv, OnceInv
        <5>2. \A i \in 1 .. Len(queues'[q]) : i \in 1 .. Len(queues[q]) \/ i = Len(queues[q]) + 1
          BY <4>2, <4>3
        <5>3. QED
          BY <4>3, <4>5, <5>1, <5>2
      <4>8. QED
        BY <4>6, <4>7
    <3>4. QED
      BY <1>1, <3>1, <3>2, <3>3
  <2>2. QED
    BY <2>1 DEF QueuedInv, OnceInv
<1>7. AnswerInv'
  BY <1>1, <1>2 DEF SemInv, AnswerInv
<1>8. InitInv'
  <2>1. ASSUME NEW d \in Callers, NEW t \in DOMAIN thr, LaunchedBy(d, t) PROVE d # c
    <3>1. ASSUME d = c PROVE FALSE
      <4>1. call[c].pc = "waitLaunch" /\ answer[c] = "none"
        BY <2>1, <3>1 DEF LaunchedBy
      <4>2. QED
        BY <4>1 DEF Does, DoesIdle, DoesMake, DoesQueue, DoesInput, DoesLaunch, DoesAsk,
          DoesRelease, DoesPoll, DoesOpen, DoesReply, DoesDrop, At, Consumed
    <3>2. QED
      BY <3>1
  <2>2. ASSUME NEW t \in DOMAIN thr, thr[t].st = "init", t \in DOMAIN thr', thr'[t] = thr[t]
        PROVE  \E d \in Callers : LaunchedBy(d, t)'
    <3>1. PICK d \in Callers : LaunchedBy(d, t)
      BY <2>2 DEF SemInv, InitInv
    <3>2. d # c /\ call[d].pc \in Inside
      BY <2>1, <3>1 DEF LaunchedBy, Inside, PCs, Waits
    <3>3. LaunchedBy(d, t)'
      BY <1>1, <1>2, <2>2, <3>1, <3>2 DEF LaunchedBy, Obj
    <3>4. QED
      BY <3>3
  <2>3. CASE UNCHANGED thr
    BY <2>2, <2>3 DEF InitInv
  <2>4. CASE DoesLaunch(c)
    <3> DEFINE r == [st |-> "init", q |-> obj[Obj(c)].msgq, hal |-> proc.hal,
                     sem |-> <<c, call[c].n>>]
    <3>1. thr' = Append(thr, r) /\ thr \in Seq(ThrRec)
      BY <2>4 DEF DoesLaunch, Data, ThrTypes
    <3>2. /\ \A t \in DOMAIN thr' : t \in DOMAIN thr \/ t = Len(thr) + 1
          /\ \A t \in DOMAIN thr : t \in DOMAIN thr' /\ thr'[t] = thr[t]
          /\ thr'[Len(thr) + 1] = r
      BY <3>1
    <3>3. \A t : t = Len(thr) + 1 => LaunchedBy(c, t)'
      BY <1>1, <2>4, <3>2 DEF DoesLaunch, LaunchedBy, Went, Obj
    <3>4. QED
      BY <2>2, <3>2, <3>3 DEF InitInv
  <2>5. QED
    BY <2>3, <2>4 DEF Does, DoesIdle, DoesMake, DoesQueue, DoesInput, DoesAsk,
          DoesRelease, DoesPoll, DoesOpen, DoesReply, DoesDrop
<1>9. stray' \subseteq {"input"}
  BY DEF SemInv, Does, DoesIdle, DoesMake, DoesQueue, DoesInput, DoesLaunch, DoesAsk,
          DoesRelease, DoesPoll, DoesOpen, DoesReply, DoesDrop
<1>10. QED
  BY <1>6, <1>7, <1>8, <1>9 DEF SemInv

\* Posting wakes the caller the semaphore belongs to.
LEMMA PostWakes ==
    ASSUME NEW c \in Callers, call[c].pc \in Waits, NEW s, s = <<c, call[c].n>>, NEW a, Post(s, a)
    PROVE  answer' = [answer EXCEPT ![c] = a] /\ UNCHANGED stray
<1>1. s[1] = c /\ s[2] = call[c].n /\ c # None
  BY ObjectsAssumption
<1>2. Waiting(s)
  BY <1>1 DEF Waiting
<1>3. QED
  BY <1>1, <1>2 DEF Post

\* Taking a message wakes the caller that sent it, if any.
LEMMA TakeWakes ==
    ASSUME Data, SemInv, NEW t \in DOMAIN thr, DoesTake(t)
    PROVE  LET q == thr[t].q
               m == queues[q][1]
           IN  /\ q \in DOMAIN queues /\ Len(queues[q]) \in Nat /\ Len(queues[q]) > 0
               /\ m \in MsgRec /\ Popped(q) /\ UNCHANGED stray
               /\ \/ UNCHANGED answer
                  \/ \E c \in Callers, a \in Answers :
                        SentBy(c, m, q) /\ a # "none" /\ answer' = [answer EXCEPT ![c] = a]
<1> DEFINE q == thr[t].q
           m == queues[q][1]
<1>1. q \in DOMAIN queues /\ Len(queues[q]) > 0 /\ Popped(q)
  BY DEF DoesTake
<1>2. queues[q] \in Seq(MsgRec)
  BY <1>1 DEF Data, QueueTypes
<1>3. m \in MsgRec /\ Len(queues[q]) \in Nat /\ Sent(m, q)
  BY <1>1, <1>2 DEF SemInv, QueuedInv
<1>4. \/ UNCHANGED <<answer, stray>>
      \/ /\ m.type \notin {"idleStart", "poll"}
         /\ \E a \in Answers : a # "none" /\ Post(m.sem, a)
  BY DEF DoesTake, Answers
<1> HIDE DEF m, q
<1>5. CASE UNCHANGED <<answer, stray>>
  BY <1>1, <1>3, <1>5 DEF m, q
<1>6. CASE m.type \notin {"idleStart", "poll"} /\ \E a \in Answers : a # "none" /\ Post(m.sem, a)
  <2>1. PICK a \in Answers : a # "none" /\ Post(m.sem, a)
    BY <1>6
  <2>2. PICK c \in Callers : SentBy(c, m, q)
    BY <1>3, <1>6 DEF Sent
  <2>3. call[c].pc \in Waits /\ m.sem = <<c, call[c].n>>
    BY <2>2 DEF SentBy, Awaits, Waits
  <2>4. answer' = [answer EXCEPT ![c] = a] /\ UNCHANGED stray
    BY <2>1, <2>3, PostWakes
  <2>5. QED
    BY <1>1, <1>3, <2>1, <2>2, <2>4 DEF m, q
<1>7. QED
  BY <1>4, <1>5, <1>6

\* It stays true when a main thread goes on: it answers a message it takes out of its queue, and
\* its launcher when it leaves its start.
LEMMA ThreadSem ==
    ASSUME Data, SemInv, NEW t \in DOMAIN thr, ThreadDoes(t)
    PROVE  SemInv'
<1>1. UNCHANGED <<call, obj>> /\ answer \in [Callers -> Answers]
  BY DEF ThreadDoes, Data, AnswerTypes
<1>2. DOMAIN thr = 1 .. Len(thr) /\ Len(thr) \in Nat /\ (DOMAIN thr' = 1 .. Len(thr'))
  BY DEF ThreadDoes, Data, ThrTypes
<1>3. \A st : Turned(t, st) =>
        /\ \A i \in DOMAIN thr' : i \in DOMAIN thr /\ (i # t => thr'[i] = thr[i])
        /\ thr'[t].st = st
  BY <1>2 DEF Turned
<1>4. \A m, q : \A d \in Callers : SentBy(d, m, q) /\ answer'[d] = answer[d] => SentBy(d, m, q)'
  BY <1>1 DEF SentBy, Obj
<1>5. \A i : \A d \in Callers : LaunchedBy(d, i) /\ answer'[d] = answer[d] /\ thr'[i] = thr[i]
        => LaunchedBy(d, i)'
  BY <1>1 DEF LaunchedBy, Obj
<1>6. \A m, q : (m.sem = Nobody /\ m.type \in {"idleStart", "poll"})
                \/ (\E d \in Callers : SentBy(d, m, q)') => Sent(m, q)'
  BY DEF Sent, Nobody
<1>7. CASE DoesStart(t)
  <2>1. PICK c \in Callers : LaunchedBy(c, t)
    BY <1>7 DEF DoesStart, SemInv, InitInv
  <2>2. answer' = [answer EXCEPT ![c] = "ok"] /\ UNCHANGED stray
    <3>1. call[c].pc \in Waits /\ thr[t].sem = <<c, call[c].n>> /\ Post(thr[t].sem, "ok")
      BY <1>7, <2>1 DEF LaunchedBy, Waits, DoesStart
    <3>2. QED
      BY <3>1, PostWakes
  <2>3. \A d \in Callers \ {c} : answer'[d] = answer[d]
    BY <1>1, <2>2
  <2>4. \A m, q : Sent(m, q) => Sent(m, q)'
    <3>1. \A m, q : ~SentBy(c, m, q)
      BY <2>1 DEF LaunchedBy, SentBy, Awaits
    <3>2. QED
      BY <1>4, <1>6, <2>3, <3>1 DEF Sent
  <2>5. QueuedInv' /\ OnceInv'
    <3>1. UNCHANGED queues
      BY <1>7 DEF DoesStart
    <3>2. \A q \in DOMAIN queues : \A i \in 1 .. Len(queues[q]) : \A m : m = queues[q][i] =>
            Sent(m, q)'
      BY <2>4 DEF SemInv, QueuedInv
    <3>3. QED
      BY <3>1, <3>2 DEF SemInv, QueuedInv, OnceInv
  <2>6. AnswerInv'
    BY <1>1, <2>1, <2>3 DEF SemInv, AnswerInv, LaunchedBy, Waits
  <2>7. InitInv'
    <3>1. Turned(t, "loop")
      BY <1>7 DEF DoesStart
    <3>2. ASSUME NEW i \in DOMAIN thr', thr'[i].st = "init" PROVE \E d \in Callers : LaunchedBy(d, i)'
      <4>1. i \in DOMAIN thr /\ i # t /\ thr'[i] = thr[i]
        BY <1>3, <3>1, <3>2
      <4>2. PICK d \in Callers : LaunchedBy(d, i)
        BY <3>2, <4>1 DEF SemInv, InitInv
      <4>3. d # c
        BY <2>1, <4>1, <4>2 DEF LaunchedBy
      <4>4. QED
        BY <1>5, <2>3, <4>1, <4>2, <4>3
    <3>3. QED
      BY <3>2 DEF InitInv
  <2>8. QED
    BY <2>2, <2>5, <2>6, <2>7 DEF SemInv
<1>8. CASE DoesTurn(t)
  <2>1. UNCHANGED <<queues, answer, stray>> /\ \E st \in {"exited", "loop"} : Turned(t, st)
    BY <1>8 DEF DoesTurn
  <2>2. \A m, q : Sent(m, q) => Sent(m, q)'
    BY <1>4, <1>6, <2>1 DEF Sent
  <2>3. QueuedInv' /\ OnceInv'
    <3>1. \A q \in DOMAIN queues : \A i \in 1 .. Len(queues[q]) : \A m : m = queues[q][i] =>
            Sent(m, q)'
      BY <2>2 DEF SemInv, QueuedInv
    <3>2. QED
      BY <2>1, <3>1 DEF SemInv, QueuedInv, OnceInv
  <2>4. AnswerInv'
    BY <1>1, <2>1 DEF SemInv, AnswerInv
  <2>5. InitInv'
    <3>1. ASSUME NEW i \in DOMAIN thr', thr'[i].st = "init" PROVE \E d \in Callers : LaunchedBy(d, i)'
      <4>1. i \in DOMAIN thr /\ thr'[i] = thr[i]
        BY <1>3, <2>1, <3>1
      <4>2. PICK d \in Callers : LaunchedBy(d, i)
        BY <3>1, <4>1 DEF SemInv, InitInv
      <4>3. QED
        BY <1>5, <2>1, <4>1, <4>2
    <3>2. QED
      BY <3>1 DEF InitInv
  <2>6. QED
    BY <2>1, <2>3, <2>4, <2>5 DEF SemInv
<1>9. CASE DoesTake(t)
  <2> DEFINE q == thr[t].q
             m == queues[q][1]
  <2>1. /\ q \in DOMAIN queues /\ Len(queues[q]) \in Nat /\ Len(queues[q]) > 0
        /\ m \in MsgRec /\ Popped(q) /\ UNCHANGED stray
        /\ \/ UNCHANGED answer
           \/ \E c \in Callers, a \in Answers :
                SentBy(c, m, q) /\ a # "none" /\ answer' = [answer EXCEPT ![c] = a]
    BY <1>9, TakeWakes
  <2>2. thr[t].st = "loop" /\ (UNCHANGED thr \/ \E st \in {"ending", "poll"} : Turned(t, st))
    BY <1>9 DEF DoesTake
  <2>3. /\ DOMAIN queues' = DOMAIN queues
        /\ \A p \in DOMAIN queues \ {q} : queues'[p] = queues[p]
        /\ Len(queues'[q]) = Len(queues[q]) - 1
        /\ \A i \in 1 .. Len(queues'[q]) : /\ i + 1 \in 1 .. Len(queues[q]) /\ i + 1 # 1
                                           /\ queues'[q][i] = queues[q][i + 1]
    <3>1. queues[q] \in Seq(MsgRec) /\ queues'[q] = Tail(queues[q])
      BY <2>1 DEF Popped, Data, QueueTypes
    <3> HIDE DEF q
    <3>2. QED
      BY <2>1, <3>1 DEF Popped
  <2> HIDE DEF m, q
  <2>4. \A d \in Callers : answer'[d] = answer[d] \/ SentBy(d, m, q)
    BY <1>1, <2>1
  <2>5. ASSUME NEW p \in DOMAIN queues', NEW i \in 1 .. Len(queues'[p]), NEW k, k = queues'[p][i]
        PROVE  Sent(k, p)'
    <3>1. Sent(k, p) /\ (p = q => k.sem # m.sem \/ k.sem = Nobody)
      <4>1. CASE p = q
        BY <2>1, <2>3, <2>5, <4>1 DEF m, SemInv, QueuedInv, OnceInv
      <4>2. CASE p # q
        BY <2>3, <2>5, <4>2 DEF SemInv, QueuedInv
      <4>3. QED
        BY <4>1, <4>2
    <3>2. CASE k.sem = Nobody /\ k.type \in {"idleStart", "poll"}
      BY <1>6, <3>2
    <3>3. CASE \E d \in Callers : SentBy(d, k, p)
      <4>1. PICK d \in Callers : SentBy(d, k, p)
        BY <3>3
      <4>2. k.sem # Nobody
        BY <4>1, ObjectsAssumption DEF SentBy, Nobody
      <4>3. answer'[d] = answer[d]
        BY <2>4, <3>1, <4>1, <4>2 DEF SentBy
      <4>4. QED
        BY <1>4, <1>6, <4>1, <4>3
    <3>4. QED
      BY <3>1, <3>2, <3>3 DEF Sent
  <2>6. QueuedInv'
    BY <2>5 DEF QueuedInv
  <2>7. OnceInv'
    <3>1. ASSUME NEW p \in DOMAIN queues', NEW i \in 1 .. Len(queues'[p]),
                 NEW j \in 1 .. Len(queues'[p]), queues'[p][i].sem = queues'[p][j].sem,
                 queues'[p][i].sem # Nobody
          PROVE  i = j
      <4>1. CASE p = q
        <5>1. i + 1 = j + 1
          <6>1. /\ i + 1 \in 1 .. Len(queues[q]) /\ j + 1 \in 1 .. Len(queues[q])
                /\ queues[q][i + 1].sem = queues[q][j + 1].sem
                /\ queues[q][i + 1].sem # Nobody
            BY <2>3, <3>1, <4>1
          <6>2. QED
            BY <2>1, <6>1 DEF SemInv, OnceInv
        <5>2. QED
          BY <5>1
      <4>2. CASE p # q
        BY <2>3, <3>1, <4>2 DEF SemInv, OnceInv
      <4>3. QED
        BY <4>1, <4>2
    <3>2. QED
      BY <3>1 DEF OnceInv
  <2>8. AnswerInv'
    <3>1. \A d \in Callers : SentBy(d, m, q) => call[d].pc \in Waits
      BY DEF SentBy, Awaits, Waits
    <3>2. QED
      BY <1>1, <2>4, <3>1 DEF SemInv, AnswerInv
  <2>9. InitInv'
    <3>1. ASSUME NEW i \in DOMAIN thr', thr'[i].st = "init" PROVE \E d \in Callers : LaunchedBy(d, i)'
      <4>1. i \in DOMAIN thr /\ thr'[i] = thr[i]
        BY <1>3, <2>2, <3>1
      <4>2. PICK d \in Callers : LaunchedBy(d, i)
        BY <3>1, <4>1 DEF SemInv, InitInv
      <4>3. ~SentBy(d, m, q)
        BY <4>2 DEF LaunchedBy, SentBy, Awaits
      <4>4. QED
        BY <1>5, <2>4, <4>1, <4>2, <4>3
    <3>2. QED
      BY <3>1 DEF InitInv
  <2>10. QED
    BY <2>1, <2>6, <2>7, <2>8, <2>9 DEF SemInv
<1>10. QED
  BY <1>7, <1>8, <1>9 DEF ThreadDoes

\* It stays true when a call begins, for a caller outside of a call waits for nothing.
LEMMA BegunSem ==
    ASSUME SemInv, NEW c \in Callers, Begun(c)
    PROVE  SemInv'
<1>1. /\ UNCHANGED <<mutex, obj, proc, hals, device, queues, thr, answer, voiceQ, stray>>
      /\ call[c].pc = "out" /\ \A d \in Callers \ {c} : call'[d] = call[d]
  BY DEF Begun, Others, At
<1>2. \A m, q : \A d \in Callers : SentBy(d, m, q) => SentBy(d, m, q)'
  BY <1>1 DEF SentBy, Awaits, Obj
<1>3. \A i : \A d \in Callers : LaunchedBy(d, i) => LaunchedBy(d, i)'
  BY <1>1 DEF LaunchedBy, Obj
<1>4. \A m, q : Sent(m, q) => Sent(m, q)'
  BY <1>2 DEF Sent, Nobody
<1>5. QueuedInv'
  <2>1. \A q \in DOMAIN queues : \A i \in 1 .. Len(queues[q]) : \A m : m = queues[q][i] =>
            Sent(m, q)'
    BY <1>4 DEF SemInv, QueuedInv
  <2>2. QED
    BY <1>1, <2>1 DEF QueuedInv
<1>6. OnceInv' /\ InitInv'
  BY <1>1, <1>3 DEF SemInv, OnceInv, InitInv
<1>7. AnswerInv'
  BY <1>1 DEF SemInv, AnswerInv, Waits
<1>8. QED
  BY <1>1, <1>5, <1>6, <1>7 DEF SemInv

\* A power mode that is sent is one.
LEMMA SentModes ==
    ASSUME CallTypes, SemInv PROVE ModesSent
<1>1. ASSUME NEW q \in DOMAIN queues, NEW i \in 1 .. Len(queues[q]), queues[q][i].type = "power"
      PROVE  queues[q][i].mode \in Modes
  <2>1. PICK c \in Callers : SentBy(c, queues[q][i], q)
    BY <1>1 DEF SemInv, QueuedInv, Sent
  <2>2. call[c].op = "power" /\ queues[q][i].mode = call[c].mode
    BY <1>1, <2>1 DEF SentBy, Awaits
  <2>3. QED
    BY <2>2 DEF CallTypes, CallShape
<1>2. QED
  BY <1>1 DEF ModesSent

-----------------------------------------------------------------------------
(* The base of all that follows.                                           *)

BaseInv == Data /\ SemInv

\* It holds in the beginning.
LEMMA BaseInit ==
    ASSUME Init PROVE BaseInv
<1> USE DEF Init
<1>1. NoCall \in CallRec /\ CallShape(NoCall) /\ NoCall.pc = "out" /\ NoCall.op = "none"
      /\ NoCall.obj = None
  BY BoundsAssumption DEF NoCall, CallRec, PCs, Inputs, CallShape, OpenPCs
<1>2. CallInv
  BY <1>1 DEF CallInv, CallTypes, MutexTypes, LockInv, AloneInv, Obj, Inside
<1>3. ObjTypes
  <2>1. NoObj \in ObjRec
    <3>1. 0 \in 0 .. QIds /\ 0 \in Nums
      BY BoundsAssumption DEF Nums
    <3>2. NewObj \in ObjRec
      BY <3>1 DEF NewObj, ObjRec
    <3>3. QED
      BY <3>2, ObjEdits
  <2>2. QED
    BY <2>1 DEF ObjTypes
<1>4. ProcTypes /\ HalTypes
  BY BoundsAssumption DEF ProcTypes, HalTypes, ProcRec, Nums
<1>5. DOMAIN queues = {} /\ DOMAIN thr = {} /\ thr \in Seq(ThrRec) /\ Len(thr) = 0
  OBVIOUS
<1>6. QueueTypes /\ ThrTypes /\ AnswerTypes
  BY <1>5, BoundsAssumption DEF QueueTypes, ThrTypes, AnswerTypes, Answers
<1>7. SemInv
  BY <1>5 DEF SemInv, QueuedInv, OnceInv, AnswerInv, InitInv
<1>8. QED
  BY <1>2, <1>3, <1>4, <1>6, <1>7 DEF BaseInv, Data

\* What a step is: the beginning of a call, a step of one, or a step of a main thread.
Step == \/ \E c \in Callers : Begun(c) \/ (CallerStep(c) /\ Does(c))
        \/ \E t \in DOMAIN thr : ThreadStep(t) /\ ThreadDoes(t)
\* Every step of the specification is one of these.
LEMMA StepIs ==
    ASSUME BaseInv, Next PROVE Step
<1>1. ModesSent
  BY SentModes DEF BaseInv, Data, CallInv
<1>2. \A c \in Callers : Call(c) => Begun(c)
  BY CallIs DEF BaseInv, Data, CallInv, CallTypes
<1>3. \A c \in Callers : CallerStep(c) => Does(c)
  BY CallerDoes DEF BaseInv
<1>4. \A t \in DOMAIN thr : ThreadStep(t) => ThreadDoes(t)
  BY <1>1, ThreadDoesIt DEF BaseInv
<1>5. QED
  BY <1>2, <1>3, <1>4 DEF Next, Step

\* The base is inductive.
LEMMA BaseStep ==
    ASSUME BaseInv, Step PROVE BaseInv'
<1> USE DEF BaseInv
<1>1. ASSUME NEW c \in Callers, Begun(c) PROVE BaseInv'
  <2>1. UNCHANGED <<mutex, obj, proc, hals, device, queues, thr, answer, voiceQ, stray>>
    BY <1>1 DEF Begun
  <2>2. CallInv'
    BY <1>1, BegunCalls DEF Data
  <2>3. Data'
    BY <2>1, <2>2 DEF Data, ObjTypes, ProcTypes, HalTypes, QueueTypes, ThrTypes, AnswerTypes
  <2>4. QED
    BY <1>1, <2>3, BegunSem
<1>2. ASSUME NEW c \in Callers, Does(c) PROVE BaseInv'
  <2>1. CallInv' /\ SemInv'
    BY <1>2, CallerCalls, CallerSem
  <2>2. QED
    BY <1>2, <2>1 DEF Data, Does
<1>3. ASSUME NEW t \in DOMAIN thr, ThreadDoes(t) PROVE BaseInv'
  <2>1. CallInv' /\ SemInv'
    BY <1>3, ThreadCalls, ThreadSem DEF Data
  <2>2. ObjTypes' /\ ProcTypes'
    BY <1>3 DEF Data, ObjTypes, ProcTypes, ThreadDoes
  <2>3. QED
    BY <1>3, <2>1, <2>2 DEF Data, ThreadDoes
<1>4. QED
  BY <1>1, <1>2, <1>3 DEF Step

\* A step that changes nothing keeps the base.
LEMMA BaseStutter ==
    ASSUME BaseInv, UNCHANGED vars PROVE BaseInv'
<1>1. UNCHANGED <<call, mutex, obj, proc, hals, device, queues, thr, answer, voiceQ, stray>>
  BY DEF vars
<1>2. CallInv'
  BY <1>1 DEF BaseInv, Data, CallInv, CallTypes, MutexTypes, LockInv, AloneInv, Obj
<1>3. Data'
  BY <1>1, <1>2 DEF BaseInv, Data, ObjTypes, ProcTypes, HalTypes, QueueTypes, ThrTypes, AnswerTypes
<1>4. \A m, q : Sent(m, q) => Sent(m, q)'
  BY <1>1 DEF Sent, SentBy, Obj
<1>5. QueuedInv'
  <2>1. \A q \in DOMAIN queues : \A i \in 1 .. Len(queues[q]) : \A m : m = queues[q][i] =>
            Sent(m, q)'
    BY <1>4 DEF BaseInv, SemInv, QueuedInv
  <2>2. QED
    BY <1>1, <2>1 DEF QueuedInv
<1>6. SemInv'
  BY <1>1, <1>5 DEF BaseInv, SemInv, OnceInv, AnswerInv, InitInv, LaunchedBy, Obj
<1>7. QED
  BY <1>3, <1>6 DEF BaseInv

\* What the messages and the starting threads refer to is alive.
LEMMA SemImplies ==
    ASSUME BaseInv PROVE SemaphoresLive
<1>1. ASSUME NEW c \in Callers, NEW s, s = <<c, call[c].n>>, call[c].pc \in Waits
      PROVE  Waiting(s)
  BY <1>1, ObjectsAssumption DEF Waiting
<1>2. ASSUME NEW q \in DOMAIN queues, NEW i \in DOMAIN queues[q], queues[q][i].sem # Nobody
      PROVE  Waiting(queues[q][i].sem)
  <2>1. i \in 1 .. Len(queues[q])
    BY DEF BaseInv, Data, QueueTypes
  <2>2. PICK c \in Callers : SentBy(c, queues[q][i], q)
    BY <1>2, <2>1 DEF BaseInv, SemInv, QueuedInv, Sent
  <2>3. QED
    BY <1>1, <2>2 DEF SentBy, Awaits, Waits
<1>3. ASSUME NEW t \in DOMAIN thr, thr[t].st = "init" PROVE Waiting(thr[t].sem)
  BY <1>1, <1>3 DEF BaseInv, SemInv, InitInv, LaunchedBy, Waits
<1>4. QED
  BY <1>2, <1>3 DEF SemaphoresLive, BaseInv, SemInv

\* Whoever will be woken is waiting for it: no message in a queue and no starting thread refers
\* to the stack of a call that has gone on, whatever fails and however long a client's function
\* takes, with as many callers and objects as there are.
THEOREM LifeSemaphores == Spec => []SemaphoresLive
<1>1. Init => BaseInv
  BY BaseInit
<1>2. BaseInv /\ [Next]_vars => BaseInv'
  BY StepIs, BaseStep, BaseStutter
<1>3. BaseInv => SemaphoresLive
  BY SemImplies
<1>4. QED
  BY <1>1, <1>2, <1>3, PTL DEF Spec

-----------------------------------------------------------------------------
(* Objects: what is open, and whose queue is whose.                        *)

\* The object is open and not yet given up by its close.
Open(o) == obj[o].opened /\ Phase(o) # "drop"
\* It is being opened, and has its queue.
Building(o) == Phase(o) \in {"input", "launch", "waitLaunch", "waitUndo"}

Shape(o) ==
    /\ Phase(o) \in OpenPCs => ~obj[o].opened
    /\ Phase(o) \in {"waitInput", "waitTerm"} => obj[o].opened
    /\ Phase(o) = "drop" => (obj[o].opened <=> call[mutex[o]].op # "open")
    /\ Open(o) \/ Building(o) => obj[o].msgq # 0
    /\ obj[o].msgq # 0 => obj[o].msgq \in DOMAIN queues
    /\ ~obj[o].made => ~obj[o].opened /\ ~obj[o].running /\ obj[o].msgq = 0
QueuesApart == \A o, p \in Objects : o # p /\ obj[o].msgq # 0 => obj[o].msgq # obj[p].msgq
FreeInv  == \A c \in Callers : call[c].pc = "free" => ~obj[Obj(c)].opened
ShapeInv == (\A o \in Objects : Shape(o)) /\ QueuesApart /\ FreeInv

\* Where a call is, before and after its step, seen from its object.
LEMMA OwnPhase ==
    ASSUME Data, NEW c \in Callers, Does(c), NEW o \in Objects, o = Obj(c)
    PROVE  /\ call[c].pc \in PCs /\ call'[c].pc \in PCs /\ CallShape(call[c])
           /\ Phase(o) = IF call[c].pc \in Inside THEN call[c].pc ELSE "none"
           /\ Phase(o)' = IF call'[c].pc \in Inside THEN call'[c].pc ELSE "none"
           /\ call[c].pc \in Inside => mutex[o] = c
           /\ call'[c].pc \in Inside => mutex'[o] = c
<1>1. CallInv /\ Moves(c)
  BY DEF Data, Does
<1>2. call[c].pc \in PCs /\ call'[c].pc \in PCs /\ CallShape(call[c])
  BY <1>1 DEF CallInv, CallTypes, CallRec, Moves
<1>3. QED
  BY <1>1, <1>2, PhaseMoves DEF PhaseAt

\* What the steps of a call do to the descriptors of the queues: they open one, or destroy
\* that of the object.
LEMMA QueuesKept ==
    ASSUME Data, NEW c \in Callers, Does(c)
    PROVE  \/ DOMAIN queues' = DOMAIN queues
           \/ DoesQueue(c) /\ DOMAIN queues \subseteq DOMAIN queues'
           \/ DoesRelease(c) /\ DOMAIN queues' = DOMAIN queues \ {obj[Obj(c)].msgq}
BY DEF Does, DoesIdle, DoesMake, DoesQueue, DoesInput, DoesLaunch, DoesAsk, DoesRelease, DoesPoll,
       DoesOpen, DoesReply, DoesDrop, Pushed

\* A step of a call keeps the shape of its object, and gives it no queue that another one has.
LEMMA OwnShape ==
    ASSUME Data, ShapeInv, NEW c \in Callers, Does(c), NEW o \in Objects, o = Obj(c)
    PROVE  /\ Shape(o)'
           /\ call'[c].pc = "free" => ~obj'[o].opened
           /\ obj'[o].msgq \in {0, obj[o].msgq} \/ obj'[o].msgq \notin DOMAIN queues
<1> DEFINE p == obj[o]
           r == obj'[o]
           pc == call[c].pc
           nx == call'[c].pc
<1>1. /\ pc \in PCs /\ nx \in PCs /\ CallShape(call[c])
      /\ Phase(o) = IF pc \in Inside THEN pc ELSE "none"
      /\ Phase(o)' = IF nx \in Inside THEN nx ELSE "none"
      /\ pc \in Inside => mutex[o] = c
      /\ nx \in Inside => mutex'[o] = c
  BY OwnPhase
<1>2. Shape(o) /\ (pc = "free" => ~p.opened)
  BY DEF ShapeInv, FreeInv
<1>3. /\ pc = "drop" => call[c].op \in {"open", "close", "destroy"}
      /\ pc \in {"waitInput", "waitTerm"} => call[c].op \in {"close", "destroy"}
      /\ pc \in OpenPCs => call[c].op = "open"
  BY <1>1 DEF CallShape
<1>4. pc # "out" /\ (call[c].op = "create" <=> ~p.made)
  BY PhaseMoves DEF Data, Does, CallInv, AloneInv
<1>5. /\ Phase(o)' \in OpenPCs => ~r.opened
      /\ Phase(o)' \in {"waitInput", "waitTerm"} => r.opened
      /\ Phase(o)' = "drop" => nx = "drop"
      /\ nx = "drop" => (r.opened <=> call'[c].op # "open")
      /\ (r.opened /\ Phase(o)' # "drop") \/ Phase(o)' \in {"input", "launch", "waitLaunch", "waitUndo"}
            => r.msgq # 0
      /\ r.msgq # 0 => r.msgq \in DOMAIN queues'
      /\ nx = "free" => ~r.opened
      /\ r.msgq \in {0, p.msgq} \/ r.msgq \notin DOMAIN queues
  <2> HIDE DEF nx, pc
  <2>1. CASE DoesIdle(c)
    BY <1>1, <1>2, <1>3, <1>4, <2>1 DEF DoesIdle, Shape, Open, Building, At, Went, Left, Inside,
       OpenPCs, pc, nx
  <2>2. CASE DoesMake(c)
    BY <1>1, <1>2, <2>2 DEF DoesMake, At, Left, Inside, OpenPCs, pc, nx
  <2>3. CASE DoesQueue(c)
    BY <1>1, <1>2, <2>3 DEF DoesQueue, Shape, Open, Building, At, Went, Inside, OpenPCs,
       KeepsFlags, pc, nx, PCs, Waits
  <2>4. CASE DoesInput(c)
    BY <1>1, <1>2, <1>3, <2>4 DEF DoesInput, Shape, Open, Building, At, Went, Inside, OpenPCs,
       KeepsFlags, KeepsThread, pc, nx, Pushed
  <2>5. CASE DoesLaunch(c)
    BY <1>1, <1>2, <2>5 DEF DoesLaunch, Shape, Open, Building, At, Went, Inside, OpenPCs, pc, nx
  <2>6. CASE DoesAsk(c)
    BY <1>1, <1>2, <1>3, <2>6 DEF DoesAsk, Shape, Open, Building, At, Went, Inside, OpenPCs, pc,
       nx, Pushed
  <2>7. CASE DoesRelease(c)
    BY <1>1, <1>2, <1>3, <2>7 DEF DoesRelease, Shape, Open, Building, At, Went, Inside, OpenPCs,
       pc, nx
  <2>8. CASE DoesPoll(c)
    BY <1>1, <1>2, <2>8 DEF DoesPoll, Shape, Open, Building, At, Left, Inside, OpenPCs, pc, nx,
       Pushed
  <2>9. CASE DoesOpen(c)
    BY <1>1, <1>2, <2>9 DEF DoesOpen, Shape, Open, Building, At, Left, Inside, OpenPCs,
       KeepsThread, pc, nx
  <2>10. CASE DoesReply(c)
    BY <1>1, <1>2, <2>10 DEF DoesReply, Shape, Open, Building, At, Left, Inside, OpenPCs, pc, nx
  <2>11. CASE DoesDrop(c)
    BY <1>1, <1>2, <1>3, <2>11 DEF DoesDrop, Shape, Open, Building, At, Left, Went, Inside,
       OpenPCs, KeepsThread, pc, nx
  <2>12. QED
    BY <2>1, <2>2, <2>3, <2>4, <2>5, <2>6, <2>7, <2>8, <2>9, <2>10, <2>11 DEF Does
<1>6. ~r.made => ~r.opened /\ ~r.running /\ r.msgq = 0
  <2>1. CASE DoesMake(c)
    BY <2>1 DEF DoesMake
  <2>2. CASE ~DoesMake(c)
    <3>1. r.made = p.made
      BY <2>2 DEF Does, DoesIdle, DoesQueue, DoesInput, DoesLaunch, DoesAsk, DoesRelease,
            DoesPoll, DoesOpen, DoesReply, DoesDrop, KeepsFlags
    <3>2. CASE p.made
      BY <3>1, <3>2
    <3>3. CASE ~p.made
      <4>1. call[c].op = "create" /\ ~p.opened /\ ~p.running /\ p.msgq = 0 /\ pc = "enter"
        BY <1>1, <1>2, <1>3, <1>4, <3>3 DEF Shape, CallShape, PCs, Waits, OpenPCs, Asking
      <4>2. obj' = obj
        BY <2>2, <4>1 DEF Does, DoesIdle, DoesQueue, DoesInput, DoesLaunch, DoesAsk, DoesRelease,
            DoesPoll, DoesOpen, DoesReply, DoesDrop, At
      <4>3. QED
        BY <4>1, <4>2
    <3>4. QED
      BY <3>2, <3>3
  <2>3. QED
    BY <2>1, <2>2
<1>7. Shape(o)'
  BY <1>1, <1>5, <1>6 DEF Shape, Open, Building
<1>8. QED
  BY <1>5, <1>7

\* What is not the object of the call stays as it is.
LEMMA Bystander ==
    ASSUME Data, NEW c \in Callers, Does(c), NEW o \in Objects, o # Obj(c)
    PROVE  /\ obj'[o] = obj[o] /\ Phase(o)' = Phase(o) /\ mutex'[o] = mutex[o]
           /\ mutex[o] # None => mutex[o] \in Callers /\ mutex[o] # c
                                 /\ call'[mutex[o]] = call[mutex[o]]
<1>1. CallInv /\ Moves(c) /\ obj'[o] = obj[o]
  BY DEF Data, Does
<1>2. Phase(o)' = Phase(o) /\ mutex'[o] = mutex[o] /\ mutex[o] # c
  BY <1>1, PhaseMoves
<1>3. mutex[o] # None => mutex[o] \in Callers /\ call'[mutex[o]] = call[mutex[o]]
  BY <1>1, <1>2 DEF CallInv, MutexTypes, Moves, Others
<1>4. QED
  BY <1>1, <1>2, <1>3

\* A step of a call keeps the shape of all objects.
LEMMA CallerShape ==
    ASSUME Data, ShapeInv, NEW c \in Callers, Does(c)
    PROVE  ShapeInv'
<1>1. Obj(c) \in Objects
  BY PhaseMoves DEF Data, Does
<1>2. \A o \in Objects : o = Obj(c) =>
        /\ Shape(o)'
        /\ call'[c].pc = "free" => ~obj'[o].opened
        /\ obj'[o].msgq \in {0, obj[o].msgq} \/ obj'[o].msgq \notin DOMAIN queues
  BY OwnShape
<1>3. \A o \in Objects : o # Obj(c) =>
        /\ obj'[o] = obj[o] /\ Phase(o)' = Phase(o) /\ mutex'[o] = mutex[o]
        /\ mutex[o] # None => mutex[o] \in Callers /\ call'[mutex[o]] = call[mutex[o]]
  BY Bystander
<1>4. \/ DOMAIN queues' = DOMAIN queues
      \/ DOMAIN queues \subseteq DOMAIN queues'
      \/ DOMAIN queues' = DOMAIN queues \ {obj[Obj(c)].msgq}
  BY QueuesKept
<1>5. \A o \in Objects : o # Obj(c) => Shape(o)'
  <2>1. ASSUME NEW o \in Objects, o # Obj(c) PROVE Shape(o)'
    <3>1. Shape(o) /\ (obj[o].msgq # 0 => obj[o].msgq # obj[Obj(c)].msgq)
      BY <1>1, <2>1 DEF ShapeInv, QueuesApart
    <3>2. obj[o].msgq # 0 => obj[o].msgq \in DOMAIN queues'
      BY <1>4, <3>1 DEF Shape
    <3>3. Phase(o) = "drop" => mutex[o] # None
      BY DEF Phase
    <3>4. QED
      BY <1>3, <2>1, <3>1, <3>2, <3>3 DEF Shape, Open, Building
  <2>2. QED
    BY <2>1
<1>6. QueuesApart'
  <2>1. ASSUME NEW o \in Objects, NEW p \in Objects, o # p, obj'[o].msgq # 0
        PROVE  obj'[o].msgq # obj'[p].msgq
    <3>1. \A x \in Objects : obj[x].msgq # 0 => obj[x].msgq \in DOMAIN queues
      BY DEF ShapeInv, Shape
    <3>2. obj[o].msgq # 0 => obj[o].msgq # obj[p].msgq
      BY <2>1 DEF ShapeInv, QueuesApart
    <3>3. obj[p].msgq # 0 => obj[p].msgq # obj[o].msgq
      BY <2>1 DEF ShapeInv, QueuesApart
    <3>4. CASE o = Obj(c)
      <4>1. obj'[p].msgq = obj[p].msgq
        BY <1>3, <2>1, <3>4
      <4>2. QED
        BY <1>2, <2>1, <3>1, <3>2, <3>3, <3>4, <4>1
    <3>5. CASE p = Obj(c)
      <4>1. obj'[o].msgq = obj[o].msgq
        BY <1>3, <2>1, <3>5
      <4>2. QED
        BY <1>2, <2>1, <3>1, <3>2, <3>3, <3>5, <4>1
    <3>6. CASE o # Obj(c) /\ p # Obj(c)
      BY <1>3, <2>1, <3>2, <3>6
    <3>7. QED
      BY <3>4, <3>5, <3>6
  <2>2. QED
    BY <2>1 DEF QueuesApart
<1>7. FreeInv'
  <2>1. ASSUME NEW d \in Callers, call'[d].pc = "free" PROVE ~obj'[call'[d].obj].opened
    <3>1. CASE d = c
      <4>1. Went(c, "free")
        BY <2>1, <3>1 DEF Does, Moves, Enters, Passes, Went, Left, Obj
      <4>2. QED
        BY <1>1, <1>2, <2>1, <3>1, <4>1 DEF Went, Obj
    <3>2. CASE d # c
      <4>1. call'[d] = call[d] /\ Obj(d) \in Objects /\ call[d].op = "destroy"
        <5>1. call'[d] = call[d]
          BY <3>2, Apart
        <5>2. QED
          BY <2>1, <3>2, <5>1, Apart DEF Data, CallInv, CallTypes, CallShape
      <4>2. Obj(d) # Obj(c)
        BY <3>2, <4>1 DEF Data, CallInv, AloneInv
      <4>3. QED
        BY <1>3, <2>1, <4>1, <4>2 DEF ShapeInv, FreeInv, Obj
    <3>3. QED
      BY <3>1, <3>2
  <2>2. QED
    BY <2>1 DEF FreeInv, Obj
<1>8. QED
  BY <1>2, <1>5, <1>6, <1>7 DEF ShapeInv

\* The phase of an object when a call begins or a main thread moves.
LEMMA QuietPhase ==
    ASSUME Data, UNCHANGED mutex, NEW c \in Callers, UNCHANGED call \/ Begun(c)
    PROVE  \A o \in Objects : /\ Phase(o)' = Phase(o)
                              /\ mutex[o] # None => call'[mutex[o]] = call[mutex[o]]
<1>1. ASSUME NEW o \in Objects, mutex[o] # None PROVE call'[mutex[o]] = call[mutex[o]]
  <2>1. mutex[o] \in Callers /\ call[mutex[o]].pc # "out"
    BY <1>1 DEF Data, CallInv, MutexTypes, LockInv, Inside
  <2>2. QED
    BY <2>1 DEF Begun, Others, At
<1>2. QED
  BY <1>1 DEF Phase

\* So does a step that neither opens nor destroys a queue.
LEMMA QuietShape ==
    ASSUME Data, ShapeInv, UNCHANGED <<mutex, obj>>, DOMAIN queues' = DOMAIN queues,
           UNCHANGED call \/ \E c \in Callers : Begun(c)
    PROVE  ShapeInv'
<1>1. \A o \in Objects : /\ Phase(o)' = Phase(o)
                         /\ mutex[o] # None => call'[mutex[o]] = call[mutex[o]]
  <2>1. CASE UNCHANGED call
    BY <2>1 DEF Phase
  <2>2. CASE \E c \in Callers : Begun(c)
    BY <2>2, QuietPhase
  <2>3. QED
    BY <2>1, <2>2
<1>2. \A o \in Objects : Shape(o)'
  <2>1. \A o \in Objects : Phase(o) = "drop" => mutex[o] # None
    BY DEF Phase
  <2>2. QED
    BY <1>1, <2>1 DEF ShapeInv, Shape, Open, Building
<1>3. QueuesApart'
  BY DEF ShapeInv, QueuesApart
<1>4. FreeInv'
  BY DEF ShapeInv, FreeInv, Begun, Others, Obj
<1>5. QED
  BY <1>2, <1>3, <1>4 DEF ShapeInv

\* In the beginning no object exists.
LEMMA ShapeInit ==
    ASSUME Init PROVE ShapeInv
BY DEF Init, NoObj, NewObj, NoCall, ShapeInv, Shape, Open, Building, Phase, QueuesApart, FreeInv,
       OpenPCs

\* The shape of the objects is inductive on the base.
LEMMA ShapeStep ==
    ASSUME BaseInv, ShapeInv, Step \/ UNCHANGED vars PROVE ShapeInv'
<1>1. ASSUME NEW c \in Callers, Begun(c) PROVE ShapeInv'
  BY <1>1, QuietShape DEF Begun, BaseInv
<1>2. ASSUME NEW c \in Callers, Does(c) PROVE ShapeInv'
  BY <1>2, CallerShape DEF BaseInv
<1>3. ASSUME NEW t, ThreadDoes(t) PROVE ShapeInv'
  BY <1>3, QuietShape DEF ThreadDoes, DoesStart, DoesTurn, DoesTake, Popped, BaseInv
<1>4. ASSUME UNCHANGED vars PROVE ShapeInv'
  BY <1>4, QuietShape DEF vars, BaseInv
<1>5. QED
  BY <1>1, <1>2, <1>3, <1>4 DEF Step

-----------------------------------------------------------------------------
(* The HAL's users are the objects that count as such.                     *)

Counts(o) == Open(o) \/ Phase(o) \in {"queue", "input", "launch", "waitLaunch", "waitUndo"}
Counted   == {o \in Objects : Counts(o)}
UserInv   == proc.users = Cardinality(Counted)

\* A step of a call counts its object in, out or not at all.
LEMMA OwnCount ==
    ASSUME Data, ShapeInv, NEW c \in Callers, Does(c), NEW o \in Objects, o = Obj(c)
    PROVE  \/ Users(0) /\ Counts(o)' = Counts(o)
           \/ Users(1) /\ ~Counts(o) /\ Counts(o)'
           \/ Users(-1) /\ Counts(o) /\ ~Counts(o)'
<1> DEFINE p == obj[o]
           r == obj'[o]
           pc == call[c].pc
           nx == call'[c].pc
<1>1. /\ pc \in PCs /\ nx \in PCs /\ CallShape(call[c])
      /\ Phase(o) = IF pc \in Inside THEN pc ELSE "none"
      /\ Phase(o)' = IF nx \in Inside THEN nx ELSE "none"
      /\ pc \in Inside => mutex[o] = c
  BY OwnPhase
<1>2. Shape(o) /\ (pc = "free" => ~p.opened)
  BY DEF ShapeInv, FreeInv
<1>3. p.opened \in BOOLEAN /\ r.opened \in BOOLEAN
  BY DEF Data, Does, ObjTypes, ObjRec
<1>4. call[c].op = "create" <=> ~p.made
  BY PhaseMoves DEF Data, Does, CallInv, AloneInv
<1>5. /\ Counts(o) = ((p.opened /\ Phase(o) # "drop")
                      \/ Phase(o) \in {"queue", "input", "launch", "waitLaunch", "waitUndo"})
      /\ Counts(o)' = ((r.opened /\ Phase(o)' # "drop")
                       \/ Phase(o)' \in {"queue", "input", "launch", "waitLaunch", "waitUndo"})
  BY DEF Counts, Open
<1> DEFINE a == Phase(o)
           b == Phase(o)'
           old == ((p.opened /\ a # "drop")
                   \/ a \in {"queue", "input", "launch", "waitLaunch", "waitUndo"})
           new == ((r.opened /\ b # "drop")
                   \/ b \in {"queue", "input", "launch", "waitLaunch", "waitUndo"})
<1>6. \/ Users(0) /\ (new <=> old)
      \/ Users(1) /\ ~old /\ new
      \/ Users(-1) /\ old /\ ~new
  <2> HIDE DEF nx, pc
  <2>1. CASE DoesIdle(c)
    BY <1>1, <1>2, <2>1 DEF DoesIdle, Shape, At, Went, Left, Inside, OpenPCs, pc, nx
  <2>2. CASE DoesMake(c)
    BY <1>1, <1>2, <1>4, <2>2 DEF DoesMake, Shape, At, Left, Inside, OpenPCs, pc, nx
  <2>3. CASE DoesQueue(c)
    BY <1>1, <2>3 DEF DoesQueue, At, Went, Inside, KeepsFlags, pc, nx, PCs, Waits
  <2>4. CASE DoesInput(c)
    BY <1>1, <1>2, <2>4 DEF DoesInput, Shape, At, Went, Inside, OpenPCs, KeepsFlags, pc, nx
  <2>5. CASE DoesLaunch(c)
    BY <1>1, <2>5 DEF DoesLaunch, At, Went, Inside, pc, nx, PCs, Waits
  <2>6. CASE DoesAsk(c)
    BY <1>1, <1>2, <2>6 DEF DoesAsk, Shape, At, Went, Inside, OpenPCs, pc, nx, PCs, Waits
  <2>7. CASE DoesRelease(c)
    BY <1>1, <1>2, <2>7 DEF DoesRelease, Shape, At, Went, Inside, OpenPCs, pc, nx, PCs, Waits
  <2>8. CASE DoesPoll(c)
    BY <1>1, <2>8 DEF DoesPoll, At, Left, Inside, pc, nx
  <2>9. CASE DoesOpen(c)
    BY <1>1, <2>9 DEF DoesOpen, At, Left, Inside, pc, nx
  <2>10. CASE DoesReply(c)
    BY <1>1, <2>10 DEF DoesReply, At, Left, Inside, pc, nx
  <2>11. CASE DoesDrop(c)
    BY <1>1, <1>2, <2>11 DEF DoesDrop, Shape, CallShape, At, Left, Went, Inside, OpenPCs, pc, nx
  <2>12. QED
    BY <2>1, <2>2, <2>3, <2>4, <2>5, <2>6, <2>7, <2>8, <2>9, <2>10, <2>11 DEF Does
<1>7. QED
  BY <1>5, <1>6

\* A step of a call counts the users as it counts its object.
LEMMA CallerUsers ==
    ASSUME Data, ShapeInv, UserInv, NEW c \in Callers, Does(c)
    PROVE  UserInv'
<1>1. Obj(c) \in Objects
  BY PhaseMoves DEF Data, Does
<1>2. PICK x \in Objects : x = Obj(c)
  BY <1>1
<1>3. \A o \in Objects \ {x} : Counts(o)' = Counts(o)
  BY <1>2, Bystander DEF Counts, Open
<1>4. \/ Users(0) /\ Counts(x)' = Counts(x)
      \/ Users(1) /\ ~Counts(x) /\ Counts(x)'
      \/ Users(-1) /\ Counts(x) /\ ~Counts(x)'
  BY <1>2, OwnCount
<1>5. IsFiniteSet(Counted) /\ Cardinality(Counted) \in Nat
  BY ObjectsAssumption, FS_Subset, FS_CardinalityType DEF Counted
<1>6. CASE Users(0) /\ Counts(x)' = Counts(x)
  <2>1. Counted' = Counted
    BY <1>3, <1>6 DEF Counted
  <2>2. QED
    BY <1>5, <1>6, <2>1 DEF UserInv, Users
<1>7. CASE Users(1) /\ ~Counts(x) /\ Counts(x)'
  <2>1. Counted' = Counted \cup {x} /\ x \notin Counted
    BY <1>3, <1>7 DEF Counted
  <2>2. Cardinality(Counted') = Cardinality(Counted) + 1
    BY <1>5, <2>1, FS_AddElement
  <2>3. QED
    BY <1>7, <2>2 DEF UserInv, Users
<1>8. CASE Users(-1) /\ Counts(x) /\ ~Counts(x)'
  <2>1. Counted' = Counted \ {x} /\ x \in Counted
    BY <1>3, <1>8 DEF Counted
  <2>2. Cardinality(Counted') = Cardinality(Counted) - 1
    BY <1>5, <2>1, FS_RemoveElement
  <2>3. QED
    BY <1>5, <1>8, <2>2 DEF UserInv, Users
<1>9. QED
  BY <1>4, <1>6, <1>7, <1>8

\* Other steps count nobody in or out.
LEMMA QuietUsers ==
    ASSUME UserInv, UNCHANGED <<obj, proc>>, \A o \in Objects : Phase(o)' = Phase(o)
    PROVE  UserInv'
<1>1. \A o \in Objects : Counts(o)' = Counts(o)
  BY DEF Counts, Open
<1>2. Counted' = Counted
  BY <1>1 DEF Counted
<1>3. QED
  BY <1>2 DEF UserInv

\* In the beginning the HAL has no user.
LEMMA UserInit ==
    ASSUME Init PROVE UserInv
<1>1. Counted = {}
  BY DEF Init, NoObj, NewObj, NoCall, Counted, Counts, Open, Phase
<1>2. QED
  BY <1>1, FS_EmptySet DEF Init, UserInv

\* What is neither a step of a call nor seen by the objects.
LEMMA QuietStep ==
    ASSUME BaseInv, Step \/ UNCHANGED vars,
           ~\E c \in Callers : CallerStep(c) /\ Does(c)
    PROVE  UNCHANGED <<mutex, obj, proc, hals>> /\ \A o \in Objects : Phase(o)' = Phase(o)
<1>1. ASSUME NEW c \in Callers, Begun(c) PROVE \A o \in Objects : Phase(o)' = Phase(o)
  BY <1>1, QuietPhase DEF Begun, BaseInv
<1>2. ASSUME UNCHANGED <<call, mutex>> PROVE \A o \in Objects : Phase(o)' = Phase(o)
  BY <1>2 DEF Phase
<1>3. QED
  BY <1>1, <1>2 DEF Step, Begun, ThreadDoes, vars

\* The count of users is inductive on the base and the shape of the objects.
LEMMA UserStep ==
    ASSUME BaseInv, ShapeInv, UserInv, Step \/ UNCHANGED vars PROVE UserInv'
<1>1. CASE \E c \in Callers : Does(c)
  BY <1>1, CallerUsers DEF BaseInv
<1>2. CASE ~\E c \in Callers : Does(c)
  BY <1>2, QuietStep, QuietUsers
<1>3. QED
  BY <1>1, <1>2

\* Every variable has its type; in particular no more users of the HAL are counted than there
\* are objects, and never less than none.
LEMMA TypesHold ==
    ASSUME BaseInv, UserInv PROVE TypeOK
<1>1. proc.users \in 0 .. Cardinality(Objects)
  <2>1. Counted \subseteq Objects /\ IsFiniteSet(Objects)
    BY ObjectsAssumption DEF Counted
  <2>2. Cardinality(Counted) \in Nat /\ Cardinality(Counted) <= Cardinality(Objects)
        /\ Cardinality(Objects) \in Nat
    BY <2>1, FS_Subset, FS_CardinalityType
  <2>3. QED
    BY <2>2 DEF UserInv
<1>2. proc \in [hal : Nums, users : 0 .. Cardinality(Objects), power : Modes, privacy : BOOLEAN]
  BY <1>1 DEF BaseInv, Data, ProcTypes, ProcRec
<1>3. stray \subseteq {"input", "semaphore"}
  BY DEF BaseInv, SemInv
<1>4. call \in [Callers -> [pc : PCs, obj : Objects \cup {None}, op : AllOps \cup {"none"},
                           in : Inputs, out : BOOLEAN, mode : Modes \cup {None},
                           on : BOOLEAN, n : 0 .. MaxCalls]]
  BY DEF BaseInv, Data, CallInv, CallTypes, CallRec
<1>5. /\ mutex \in [Objects -> Callers \cup {None}]
      /\ obj \in [Objects -> [made : BOOLEAN, opened : BOOLEAN, running : BOOLEAN,
                              msgq : 0 .. QIds, input : {"null", "live", "freed"},
                              output : BOOLEAN, thread : Nums]]
      /\ answer \in [Callers -> {"none", "ok", "error", "on", "off"}]
  BY DEF BaseInv, Data, CallInv, MutexTypes, ObjTypes, ObjRec, AnswerTypes, Answers
<1>6. /\ hals \in [open : SUBSET (Nums \ {0}), opens : Nums]
      /\ device \in [power : Modes, privacy : BOOLEAN] /\ voiceQ \in 0 .. QIds
  BY DEF BaseInv, Data, HalTypes
<1>7. /\ DOMAIN queues \subseteq 1 .. QIds
      /\ \A q \in DOMAIN queues : Len(queues[q]) <= QMax
      /\ \A t \in DOMAIN thr : thr[t].st \in {"init", "loop", "poll", "ending", "exited"}
  <2>1. \A t \in DOMAIN thr : thr[t] \in ThrRec
    BY DEF BaseInv, Data, ThrTypes
  <2>2. QED
    BY <2>1 DEF BaseInv, Data, QueueTypes, ThrRec
<1>8. QED
  BY <1>2, <1>3, <1>4, <1>5, <1>6, <1>7 DEF TypeOK

-----------------------------------------------------------------------------
(* An open object has its main thread.                                     *)

Attached(o) == obj[o].thread \in DOMAIN thr /\ thr[obj[o].thread].q = obj[o].msgq
Running(o)  == thr[obj[o].thread].st \in {"loop", "poll"}
\* Its thread is in the loop from the answer to the launch to the answer to the terminate.
Looping(o)  == \/ Open(o) /\ Phase(o) # "waitTerm"
               \/ Phase(o) = "waitLaunch" /\ answer[mutex[o]] # "none"
Serving(o)  == /\ Open(o) \/ Phase(o) = "waitLaunch" => Attached(o)
               /\ Looping(o) => Running(o)
ServedInv   == \A o \in Objects : Serving(o)

\* A step of a call leaves the threads that exist alone.
LEMMA ThrKept ==
    ASSUME Data, NEW c \in Callers, Does(c)
    PROVE  /\ \A t \in DOMAIN thr : t \in DOMAIN thr' /\ thr'[t] = thr[t]
           /\ DoesLaunch(c) \/ UNCHANGED thr
<1>1. CASE DoesLaunch(c)
  <2>1. thr \in Seq(ThrRec) /\ \E r : thr' = Append(thr, r)
    BY <1>1 DEF DoesLaunch, Data, ThrTypes
  <2>2. QED
    BY <1>1, <2>1
<1>2. CASE ~DoesLaunch(c)
  BY <1>2 DEF Does, DoesIdle, DoesMake, DoesQueue, DoesInput, DoesAsk, DoesRelease, DoesPoll,
       DoesOpen, DoesReply, DoesDrop
<1>3. QED
  BY <1>1, <1>2

\* A step of a call keeps its object served: it is open only from the answer to the launch to
\* the terminate, and the launch gives it a thread that reads its queue.
LEMMA OwnServed ==
    ASSUME BaseInv, ShapeInv, ServedInv, NEW c \in Callers, Does(c), NEW o \in Objects, o = Obj(c)
    PROVE  Serving(o)'
<1> DEFINE p == obj[o]
           r == obj'[o]
           pc == call[c].pc
           nx == call'[c].pc
<1> USE DEF BaseInv
<1>1. /\ pc \in PCs /\ nx \in PCs /\ CallShape(call[c])
      /\ Phase(o) = IF pc \in Inside THEN pc ELSE "none"
      /\ Phase(o)' = IF nx \in Inside THEN nx ELSE "none"
      /\ pc \in Inside => mutex[o] = c
      /\ nx \in Inside => mutex'[o] = c
  BY OwnPhase
<1>2. Shape(o) /\ Serving(o) /\ (pc = "free" => ~p.opened)
  BY DEF ShapeInv, FreeInv, ServedInv
<1>3. answer'[c] = "none"
  BY CallerSends
<1>4. /\ \A t \in DOMAIN thr : t \in DOMAIN thr' /\ thr'[t] = thr[t]
      /\ DoesLaunch(c) \/ UNCHANGED thr
  BY ThrKept
<1>5. Phase(o)' = "waitLaunch" => answer'[mutex'[o]] = "none"
  BY <1>1, <1>3 DEF Inside
<1>7. CASE DoesLaunch(c)
  <2>1. Phase(o)' = "waitLaunch" /\ Phase(o) = "launch"
    BY <1>1, <1>7 DEF DoesLaunch, At, Went, Inside, PCs, Waits
  <2>2. ~r.opened
    BY <1>2, <1>7, <2>1 DEF DoesLaunch, Shape, OpenPCs
  <2>3. r.thread \in DOMAIN thr' /\ thr'[r.thread].q = r.msgq
    <3>1. PICK x : /\ x.q = p.msgq /\ thr' = Append(thr, x)
                   /\ r.thread = Len(thr) + 1 /\ r.msgq = p.msgq
      BY <1>7 DEF DoesLaunch
    <3>2. thr \in Seq(ThrRec)
      BY DEF Data, ThrTypes
    <3>3. QED
      BY <3>1, <3>2
  <2>4. QED
    BY <1>5, <2>1, <2>2, <2>3 DEF Serving, Open, Attached, Looping, Running
<1>8. CASE ~DoesLaunch(c)
  <2>1. /\ (r.opened /\ Phase(o)' # "drop") => /\ p.thread = r.thread /\ p.msgq = r.msgq
                                               /\ Open(o) \/ Phase(o) = "waitLaunch"
                                               /\ Phase(o)' # "waitTerm" => Looping(o)
        /\ Phase(o)' # "waitLaunch"
    <3> HIDE DEF pc, nx
    <3>1. CASE DoesIdle(c)
      BY <1>1, <1>2, <3>1 DEF DoesIdle, Shape, Open, Looping, At, Went, Left, Inside, OpenPCs, pc,
         nx
    <3>2. CASE DoesMake(c)
      BY <1>1, <3>2 DEF DoesMake, At, Left, Inside, pc, nx
    <3>3. CASE DoesQueue(c) \/ DoesInput(c)
      BY <1>1, <1>2, <3>3 DEF DoesQueue, DoesInput, Shape, At, Went, Inside, OpenPCs, KeepsFlags,
         pc, nx, PCs, Waits
    <3>4. CASE DoesAsk(c)
      BY <1>1, <1>2, <3>4 DEF DoesAsk, Shape, Open, Looping, At, Went, Inside, OpenPCs, pc, nx,
         PCs, Waits
    <3>5. CASE DoesRelease(c)
      BY <1>1, <1>2, <3>5 DEF DoesRelease, At, Went, Inside, pc, nx, PCs, Waits
    <3>6. CASE DoesPoll(c)
      BY <1>1, <1>2, <3>6 DEF DoesPoll, Open, Looping, At, Left, Inside, pc, nx
    <3>7. CASE DoesOpen(c)
      BY <1>1, <1>2, <3>7 DEF DoesOpen, Open, Looping, Consumed, At, Left, Inside, KeepsThread,
         pc, nx, PCs, Waits
    <3>8. CASE DoesReply(c)
      BY <1>1, <1>2, <3>8 DEF DoesReply, Open, Looping, At, Left, Inside, pc, nx, PCs, Waits
    <3>9. CASE DoesDrop(c)
      BY <1>1, <1>2, <3>9 DEF DoesDrop, Shape, At, Left, Went, Inside, pc, nx, PCs
    <3>10. QED
      BY <1>8, <3>1, <3>2, <3>3, <3>4, <3>5, <3>6, <3>7, <3>8, <3>9 DEF Does
  <2>2. QED
    BY <1>2, <1>4, <2>1 DEF Serving, Open, Attached, Looping, Running
<1>9. QED
  BY <1>7, <1>8

\* A step of a call keeps the other objects served too.
LEMMA CallerServed ==
    ASSUME BaseInv, ShapeInv, ServedInv, NEW c \in Callers, Does(c)
    PROVE  ServedInv'
<1> USE DEF BaseInv
<1>1. \A o \in Objects : o = Obj(c) => Serving(o)'
  BY OwnServed
<1>2. ASSUME NEW o \in Objects, o # Obj(c) PROVE Serving(o)'
  <2>1. /\ obj'[o] = obj[o] /\ Phase(o)' = Phase(o) /\ mutex'[o] = mutex[o]
        /\ mutex[o] # None => mutex[o] \in Callers \ {c}
    BY <1>2, Bystander
  <2>2. \A t \in DOMAIN thr : t \in DOMAIN thr' /\ thr'[t] = thr[t]
    BY ThrKept
  <2>3. \A d \in Callers \ {c} : answer'[d] = answer[d]
    BY CallerSends
  <2>4. Phase(o) = "waitLaunch" => mutex[o] # None
    BY DEF Phase
  <2>5. QED
    BY <2>1, <2>2, <2>3, <2>4 DEF ServedInv, Serving, Open, Attached, Looping, Running
<1>3. QED
  BY <1>1, <1>2 DEF ServedInv

\* The caller that waits in an object is the holder of its mutex.
LEMMA Holder ==
    ASSUME Data, NEW o \in Objects, Phase(o) # "none"
    PROVE  mutex[o] \in Callers /\ Obj(mutex[o]) = o /\ call[mutex[o]].pc = Phase(o)
BY DEF Data, CallInv, MutexTypes, LockInv, Phase

\* Two objects never have the same queue, so the sender of what a queue holds is at work in
\* the object whose queue it is.
LEMMA SenderAt ==
    ASSUME Data, ShapeInv, NEW o \in Objects, obj[o].msgq # 0, NEW c \in Callers,
           NEW m, SentBy(c, m, obj[o].msgq)
    PROVE  Obj(c) = o /\ mutex[o] = c /\ Phase(o) = call[c].pc
<1>1. call[c].pc \in Inside /\ Obj(c) \in Objects
  BY DEF SentBy, Awaits, Inside, PCs, Waits, Data, CallInv, CallTypes, CallShape, Obj
<1>2. Obj(c) = o
  BY <1>1 DEF SentBy, ShapeInv, QueuesApart
<1>3. QED
  BY <1>1, <1>2, ObjectsAssumption DEF Data, CallInv, LockInv, Phase

\* A step of a main thread keeps the objects served: it leaves its loop when its queue is gone or
\* at a terminate, which only the call that closes the object has sent.
LEMMA ThreadServed ==
    ASSUME BaseInv, ShapeInv, ServedInv, NEW t \in DOMAIN thr, ThreadDoes(t)
    PROVE  ServedInv'
<1> USE DEF BaseInv
<1>1. UNCHANGED <<call, mutex, obj>> /\ answer \in [Callers -> Answers]
  BY DEF ThreadDoes, Data, AnswerTypes
<1>2. DOMAIN thr = 1 .. Len(thr) /\ DOMAIN thr' = 1 .. Len(thr')
  BY DEF ThreadDoes, Data, ThrTypes
<1>3. \A st : Turned(t, st) =>
        /\ DOMAIN thr' = DOMAIN thr
        /\ \A i \in DOMAIN thr : thr'[i].q = thr[i].q /\ (i # t => thr'[i] = thr[i])
        /\ thr'[t].st = st
  BY <1>2 DEF Turned
<1>4. ASSUME NEW o \in Objects PROVE Serving(o)'
  <2>1. Serving(o) /\ Phase(o)' = Phase(o) /\ (Open(o)' <=> Open(o))
    BY <1>1 DEF ServedInv, Phase, Open
  <2>2. Looping(o) => obj[o].msgq # 0 /\ obj[o].msgq \in DOMAIN queues
    BY DEF ShapeInv, Shape, Looping, Building
  <2>3. Phase(o) = "waitLaunch" => /\ mutex[o] \in Callers /\ call[mutex[o]].pc = "waitLaunch"
                                   /\ Obj(mutex[o]) = o
    BY Holder
  <2>4. \A i \in DOMAIN thr : i \in DOMAIN thr' /\ thr'[i].q = thr[i].q
    BY <1>3 DEF ThreadDoes, DoesStart, DoesTurn, DoesTake
  <2>5. Open(o) \/ Phase(o) = "waitLaunch" => Attached(o)'
    BY <1>1, <2>1, <2>4 DEF Serving, Attached
  <2>6. Looping(o)' => Running(o)'
    <3>1. CASE DoesStart(t)
      <4>1. PICK c \in Callers : LaunchedBy(c, t)
        BY <3>1 DEF DoesStart, SemInv, InitInv
      <4>2. answer' = [answer EXCEPT ![c] = "ok"]
        <5>1. call[c].pc \in Waits /\ thr[t].sem = <<c, call[c].n>> /\ Post(thr[t].sem, "ok")
          BY <3>1, <4>1 DEF LaunchedBy, Waits, DoesStart
        <5>2. QED
          BY <5>1, PostWakes
      <4>3. thr[t].st = "init" /\ Turned(t, "loop")
        BY <3>1 DEF DoesStart
      <4>4. CASE Looping(o)
        BY <1>1, <1>3, <2>1, <4>3, <4>4 DEF Looping, Serving, Running, Attached
      <4>5. CASE ~Looping(o)
        <5>1. Looping(o)' => Phase(o) = "waitLaunch" /\ mutex[o] = c
          BY <1>1, <2>1, <2>3, <4>2, <4>5 DEF Looping
        <5>2. Looping(o)' => obj[o].thread = t
          BY <2>3, <4>1, <5>1 DEF LaunchedBy
        <5>3. QED
          BY <1>1, <1>3, <4>3, <5>2 DEF Running
      <4>6. QED
        BY <4>4, <4>5
    <3>2. CASE DoesTurn(t)
      <4>1. Looping(o)' <=> Looping(o)
        BY <1>1, <2>1, <3>2 DEF DoesTurn, Looping
      <4>2. ASSUME Looping(o) PROVE Running(o)'
        <5>1. Running(o) /\ Attached(o)
          BY <2>1, <4>2 DEF Serving, Looping
        <5>2. CASE obj[o].thread # t
          BY <1>1, <1>3, <3>2, <5>1, <5>2 DEF DoesTurn, Running, Attached
        <5>3. CASE obj[o].thread = t
          <6>1. thr[t].st \in {"loop", "poll"} /\ thr[t].q \in DOMAIN queues
            BY <2>2, <4>2, <5>1, <5>3 DEF Running, Attached
          <6>2. Turned(t, "loop")
            BY <3>2, <6>1 DEF DoesTurn
          <6>3. QED
            BY <1>1, <1>3, <5>3, <6>2 DEF Running
        <5>4. QED
          BY <5>2, <5>3
      <4>3. QED
        BY <4>1, <4>2
    <3>3. CASE DoesTake(t)
      <4> DEFINE q == thr[t].q
                 m == queues[q][1]
      <4>1. /\ q \in DOMAIN queues /\ Len(queues[q]) \in Nat /\ Len(queues[q]) > 0 /\ m \in MsgRec
            /\ \/ UNCHANGED answer
               \/ \E c \in Callers, a \in Answers :
                    SentBy(c, m, q) /\ a # "none" /\ answer' = [answer EXCEPT ![c] = a]
        BY <3>3, TakeWakes
      <4>2. Phase(o) = "waitLaunch" => answer'[mutex[o]] = answer[mutex[o]]
        BY <1>1, <2>3, <4>1 DEF SentBy, Awaits
      <4>3. Looping(o)' <=> Looping(o)
        BY <1>1, <2>1, <4>2 DEF Looping
      <4>4. ASSUME Looping(o), obj[o].thread = t PROVE m.type # "terminate"
        <5>1. ASSUME m.type = "terminate" PROVE FALSE
          <6>1. PICK c \in Callers : SentBy(c, m, q)
            BY <4>1, <5>1 DEF SemInv, QueuedInv, Sent
          <6>2. q = obj[o].msgq
            BY <2>1, <4>4 DEF Serving, Looping, Attached
          <6>3. Phase(o) = call[c].pc
            BY <2>2, <4>4, <6>1, <6>2, SenderAt
          <6>4. Phase(o) = "waitTerm"
            BY <5>1, <6>1, <6>3 DEF SentBy, Awaits, Data, CallInv, CallTypes, CallShape, Asking
          <6>5. QED
            BY <4>4, <6>4 DEF Looping
        <5>2. QED
          BY <5>1
      <4>5. ASSUME Looping(o) PROVE Running(o)'
        <5>1. Running(o) /\ Attached(o)
          BY <2>1, <4>5 DEF Serving, Looping
        <5>2. CASE obj[o].thread # t
          BY <1>1, <1>3, <3>3, <5>1, <5>2 DEF DoesTake, Running, Attached
        <5>3. CASE obj[o].thread = t
          <6>1. UNCHANGED thr \/ Turned(t, "poll")
            BY <3>3, <4>4, <4>5, <5>3 DEF DoesTake
          <6>2. QED
            BY <1>1, <1>3, <5>1, <5>3, <6>1 DEF Running
        <5>4. QED
          BY <5>2, <5>3
      <4>6. QED
        BY <4>3, <4>5
    <3>4. QED
      BY <3>1, <3>2, <3>3 DEF ThreadDoes
  <2>7. QED
    BY <2>1, <2>5, <2>6 DEF Serving
<1>5. QED
  BY <1>4 DEF ServedInv

\* In the beginning no object is open.
LEMMA ServedInit ==
    ASSUME Init PROVE ServedInv
BY DEF Init, NoObj, NewObj, ServedInv, Serving, Open, Looping, Phase

\* The service is inductive on the base and the shape of the objects.
LEMMA ServedStep ==
    ASSUME BaseInv, ShapeInv, ServedInv, Step \/ UNCHANGED vars PROVE ServedInv'
<1>1. ASSUME NEW c \in Callers, Does(c) PROVE ServedInv'
  BY <1>1, CallerServed
<1>2. ASSUME NEW t \in DOMAIN thr, ThreadDoes(t) PROVE ServedInv'
  BY <1>2, ThreadServed
<1>3. CASE UNCHANGED vars \/ \E c \in Callers : Begun(c)
  <2>1. UNCHANGED <<obj, thr, answer, mutex>>
    BY <1>3 DEF vars, Begun
  <2>2. \A o \in Objects : Phase(o)' = Phase(o)
    <3>1. CASE UNCHANGED vars
      BY <3>1 DEF vars, Phase
    <3>2. CASE \E c \in Callers : Begun(c)
      BY <2>1, <3>2, QuietPhase DEF BaseInv
    <3>3. QED
      BY <1>3, <3>1, <3>2
  <2>3. QED
    BY <2>1, <2>2 DEF ServedInv, Serving, Open, Attached, Looping, Running
<1>4. QED
  BY <1>1, <1>2, <1>3 DEF Step

\* An open object that no call is closing has a main thread that reads its queue.
LEMMA ServedHolds ==
    ASSUME BaseInv, ShapeInv, ServedInv PROVE Served
<1>1. ASSUME NEW o \in Objects, obj[o].opened, ~Leaving(o)
      PROVE  /\ IsOpen(obj[o].msgq) /\ thr[obj[o].thread].q = obj[o].msgq
             /\ thr[obj[o].thread].st \in {"loop", "poll"}
  <2>1. Phase(o) \notin {"drop", "waitTerm"}
    <3>1. CASE mutex[o] = None
      BY <3>1 DEF Phase
    <3>2. CASE mutex[o] # None
      BY <1>1, <3>2 DEF Leaving, Phase, BaseInv, Data, CallInv, CallTypes, CallShape, MutexTypes,
         ShapeInv, Shape
    <3>3. QED
      BY <3>1, <3>2
  <2>2. Looping(o) /\ Open(o)
    BY <1>1, <2>1 DEF Looping, Open
  <2>3. QED
    BY <2>2 DEF ServedInv, Serving, Attached, Running, ShapeInv, Shape, IsOpen
<1>2. QED
  BY <1>1 DEF Served

-----------------------------------------------------------------------------
(* The theorems that hold whatever the constants are.                      *)

LifeInv == BaseInv /\ ShapeInv /\ UserInv /\ ServedInv

\* The invariant of the life cycle holds in the beginning.
LEMMA LifeInit ==
    ASSUME Init PROVE LifeInv
BY BaseInit, ShapeInit, UserInit, ServedInit DEF LifeInv

\* It is inductive, and every step that it allows is one of those above.
LEMMA LifeStep ==
    ASSUME LifeInv, [Next]_vars PROVE LifeInv' /\ (Step \/ UNCHANGED vars)
<1>1. Step \/ UNCHANGED vars
  BY StepIs DEF LifeInv
<1>2. BaseInv'
  BY <1>1, BaseStep, BaseStutter DEF LifeInv
<1>3. ShapeInv' /\ UserInv' /\ ServedInv'
  BY <1>1, ShapeStep, UserStep, ServedStep DEF LifeInv
<1>4. QED
  BY <1>1, <1>2, <1>3 DEF LifeInv

\* Every variable always has its type: the objects and the HAL of xraudio.c, its user count
\* between nobody and all the objects, whatever fails and however the opens of several
\* objects race.
THEOREM LifeTypes == Spec => []TypeOK
<1>1. Init => LifeInv
  BY LifeInit
<1>2. LifeInv /\ [Next]_vars => LifeInv'
  BY LifeStep
<1>3. LifeInv => TypeOK
  BY TypesHold DEF LifeInv
<1>4. QED
  BY <1>1, <1>2, <1>3, PTL DEF Spec

\* An open object that no call is closing has a main thread in its loop on the queue that the
\* object sends to, even when descriptors are given out again and abandoned threads read them.
THEOREM LifeServed == Spec => []Served
<1>1. Init => LifeInv
  BY LifeInit
<1>2. LifeInv /\ [Next]_vars => LifeInv'
  BY LifeStep
<1>3. LifeInv => Served
  BY ServedHolds DEF LifeInv
<1>4. QED
  BY <1>1, <1>2, <1>3, PTL DEF Spec

-----------------------------------------------------------------------------
(* Objects can be opened again, if no client's function outlasts a close.  *)

RunInv ==
    /\ \A t \in DOMAIN thr : thr[t].st # "poll"
    /\ \A o \in Objects : obj[o].running => Open(o) \/ Phase(o) = "waitLaunch"

\* A step of a call leaves the flag of a closed object down: the close that gives up on the
\* thread needs a thread in a client's function.
LEMMA OwnRun ==
    ASSUME BaseInv, ShapeInv, ServedInv, RunInv, NEW c \in Callers, Does(c),
           NEW o \in Objects, o = Obj(c)
    PROVE  obj'[o].running => Open(o)' \/ Phase(o)' = "waitLaunch"
<1> DEFINE p == obj[o]
           r == obj'[o]
           pc == call[c].pc
           nx == call'[c].pc
<1> USE DEF BaseInv
<1>1. /\ pc \in PCs /\ nx \in PCs /\ CallShape(call[c])
      /\ Phase(o) = IF pc \in Inside THEN pc ELSE "none"
      /\ Phase(o)' = IF nx \in Inside THEN nx ELSE "none"
  BY OwnPhase
<1>2. Shape(o) /\ Serving(o)
  BY DEF ShapeInv, ServedInv
<1>3. p.running => (p.opened /\ Phase(o) # "drop") \/ Phase(o) = "waitLaunch"
  BY DEF RunInv, Open
<1>4. r.running => (r.opened /\ Phase(o)' # "drop") \/ Phase(o)' = "waitLaunch"
  <2> HIDE DEF pc, nx
  <2>1. CASE DoesIdle(c)
    BY <1>1, <1>2, <1>3, <2>1 DEF DoesIdle, Shape, At, Went, Left, Inside, OpenPCs, pc, nx
  <2>2. CASE DoesMake(c)
    BY <2>2 DEF DoesMake
  <2>3. CASE DoesQueue(c) \/ DoesInput(c)
    BY <1>1, <1>2, <1>3, <2>3 DEF DoesQueue, DoesInput, Shape, At, Inside, OpenPCs, KeepsFlags,
       pc, PCs, Waits
  <2>4. CASE DoesLaunch(c)
    BY <1>1, <2>4 DEF DoesLaunch, Went, Inside, nx
  <2>5. CASE DoesAsk(c)
    BY <1>1, <1>2, <1>3, <2>5 DEF DoesAsk, Shape, At, Went, Inside, OpenPCs, pc, nx, PCs, Waits
  <2>6. CASE DoesRelease(c)
    <3>1. CASE At(c, "launch") \/ At(c, "waitUndo")
      BY <1>1, <1>2, <1>3, <2>6, <3>1 DEF DoesRelease, Shape, At, Inside, OpenPCs, pc, PCs, Waits
    <3>2. CASE At(c, "waitTerm")
      <4>1. Phase(o) = "waitTerm" /\ p.opened
        BY <1>1, <1>2, <3>2 DEF Shape, At, Inside, pc
      <4>2. p.thread \in DOMAIN thr
        BY <1>2, <4>1 DEF Serving, Open, Attached
      <4>3. QED
        BY <2>6, <3>2, <4>2 DEF DoesRelease, RunInv, At
    <3>3. QED
      BY <2>6, <3>1, <3>2 DEF DoesRelease
  <2>7. CASE DoesPoll(c)
    BY <1>1, <1>3, <2>7 DEF DoesPoll, At, Left, Inside, pc, nx
  <2>8. CASE DoesOpen(c)
    BY <1>1, <2>8 DEF DoesOpen, Left, Inside, nx
  <2>9. CASE DoesReply(c)
    BY <1>1, <1>3, <2>9 DEF DoesReply, At, Left, Inside, pc, nx
  <2>10. CASE DoesDrop(c)
    BY <1>1, <1>3, <2>10 DEF DoesDrop, At, Inside, pc
  <2>11. QED
    BY <2>1, <2>2, <2>3, <2>4, <2>5, <2>6, <2>7, <2>8, <2>9, <2>10 DEF Does
<1>5. QED
  BY <1>4 DEF Open

\* Who runs is inductive, where no function of a poll takes its time.
LEMMA RunStep ==
    ASSUME ~SlowPolls, LifeInv, RunInv, Step \/ UNCHANGED vars PROVE RunInv'
<1> USE DEF LifeInv
<1>1. ASSUME NEW c \in Callers, Does(c) PROVE RunInv'
  <2>1. \A o \in Objects : o = Obj(c) =>
            (obj'[o].running => Open(o)' \/ Phase(o)' = "waitLaunch")
    BY <1>1, OwnRun
  <2>2. \A o \in Objects : o # Obj(c) =>
            (obj'[o].running => Open(o)' \/ Phase(o)' = "waitLaunch")
    BY <1>1, Bystander DEF RunInv, Open, BaseInv
  <2>3. \A t \in DOMAIN thr' : thr'[t].st # "poll"
    <3>1. CASE DoesLaunch(c)
      <4>1. thr \in Seq(ThrRec) /\ \E x : x.st = "init" /\ thr' = Append(thr, x)
        BY <3>1 DEF DoesLaunch, BaseInv, Data, ThrTypes
      <4>2. QED
        BY <4>1 DEF RunInv
    <3>2. CASE UNCHANGED thr
      BY <3>2 DEF RunInv
    <3>3. QED
      BY <1>1, <3>1, <3>2, ThrKept DEF BaseInv
  <2>4. QED
    BY <2>1, <2>2, <2>3 DEF RunInv
<1>2. CASE ~\E c \in Callers : Does(c)
  <2>1. UNCHANGED obj /\ \A o \in Objects : Phase(o)' = Phase(o)
    BY <1>2, QuietStep
  <2>2. \A t \in DOMAIN thr' : thr'[t].st # "poll"
    <3>1. CASE UNCHANGED thr
      BY <3>1 DEF RunInv
    <3>2. CASE \E t \in DOMAIN thr, st \in {"loop", "exited", "ending"} : Turned(t, st)
      <4>1. PICK t \in DOMAIN thr, st \in {"loop", "exited", "ending"} : Turned(t, st)
        BY <3>2
      <4>2. DOMAIN thr = 1 .. Len(thr)
        BY DEF BaseInv, Data, ThrTypes
      <4>3. DOMAIN thr' = DOMAIN thr
        <5>1. BaseInv'
          BY BaseStep, BaseStutter
        <5>2. DOMAIN thr' = 1 .. Len(thr')
          BY <5>1 DEF BaseInv, Data, ThrTypes
        <5>3. QED
          BY <4>1, <4>2, <5>2 DEF Turned
      <4>4. QED
        BY <4>1, <4>3 DEF Turned, RunInv
    <3>3. QED
      <4>1. \A t \in DOMAIN thr : ThreadDoes(t) =>
              UNCHANGED thr \/ \E st \in {"loop", "exited", "ending"} : Turned(t, st)
        BY DEF ThreadDoes, DoesStart, DoesTurn, DoesTake
      <4>2. \A c \in Callers : Begun(c) => UNCHANGED thr
        BY DEF Begun
      <4>3. UNCHANGED vars => UNCHANGED thr
        BY DEF vars
      <4>4. QED
        BY <1>2, <3>1, <3>2, <4>1, <4>2, <4>3 DEF Step
  <2>3. QED
    BY <2>1, <2>2 DEF RunInv, Open
<1>3. QED
  BY <1>1, <1>2

\* A closed object can be opened again as long as no function of a thread poll takes its time:
\* the flag main_thread.running, at which main_thread_launch gives up, is down whenever no call
\* works on a closed object.
THEOREM LifeReopens == ASSUME ~SlowPolls PROVE Spec => []Reopens
<1>1. Init => LifeInv /\ RunInv
  <2>1. ASSUME Init PROVE RunInv
    BY <2>1 DEF Init, NoObj, NewObj, RunInv
  <2>2. QED
    BY <2>1, LifeInit
<1>2. LifeInv /\ RunInv /\ [Next]_vars => LifeInv' /\ RunInv'
  BY LifeStep, RunStep
<1>3. LifeInv /\ RunInv => Reopens
  <2>1. \A o \in Objects : mutex[o] = None => Phase(o) = "none"
    BY DEF Phase
  <2>2. QED
    BY <2>1 DEF RunInv, Open, Reopens
<1>4. QED
  BY <1>1, <1>2, <1>3, PTL DEF Spec

-----------------------------------------------------------------------------
(* The HAL and the queues are given back.                                  *)

\* No two callers have two objects to work on: nothing in the code keeps the opens and closes
\* of different objects apart, which share the process data without a lock.
OneAtATime == \A c, d \in Callers : c # d =>
                  \A o \in Serves[c], p \in Serves[d] : o = p

\* A queue belongs to an object that is open or being opened.
OwnedInv ==
    /\ \A q \in DOMAIN queues : \E o \in Objects : obj[o].msgq = q
    /\ \A o \in Objects : obj[o].msgq # 0 => Open(o) \/ Building(o)

\* A step of a call gives a queue to its object and takes none away without destroying it.
LEMMA OwnOwned ==
    ASSUME "mic" \notin Failures, BaseInv, ShapeInv, OwnedInv, NEW c \in Callers, Does(c),
           NEW o \in Objects, o = Obj(c)
    PROVE  /\ obj'[o].msgq # 0 => Open(o)' \/ Building(o)'
           /\ \A q \in DOMAIN queues' : q \in DOMAIN queues \/ obj'[o].msgq = q
           /\ obj[o].msgq \in DOMAIN queues' => obj'[o].msgq = obj[o].msgq
<1> DEFINE p == obj[o]
           r == obj'[o]
           pc == call[c].pc
           nx == call'[c].pc
<1> USE DEF BaseInv
<1>1. /\ pc \in PCs /\ nx \in PCs /\ CallShape(call[c])
      /\ Phase(o) = IF pc \in Inside THEN pc ELSE "none"
      /\ Phase(o)' = IF nx \in Inside THEN nx ELSE "none"
  BY OwnPhase
<1>2. Shape(o) /\ (pc = "free" => ~p.opened)
  BY DEF ShapeInv, FreeInv
<1>3. p.msgq # 0 => \/ p.opened /\ Phase(o) # "drop"
                    \/ Phase(o) \in {"input", "launch", "waitLaunch", "waitUndo"}
  BY DEF OwnedInv, Open, Building
<1>4. 0 \notin DOMAIN queues /\ 0 \notin DOMAIN queues'
  BY DEF Data, Does, QueueTypes
<1>5. call[c].op = "create" <=> ~p.made
  BY PhaseMoves DEF Data, Does, CallInv, AloneInv
<1>6. /\ r.msgq # 0 => \/ r.opened /\ Phase(o)' # "drop"
                       \/ Phase(o)' \in {"input", "launch", "waitLaunch", "waitUndo"}
      /\ \A q \in DOMAIN queues' : q \in DOMAIN queues \/ r.msgq = q
      /\ p.msgq \in DOMAIN queues' => r.msgq = p.msgq
  <2> HIDE DEF pc, nx
  <2>1. CASE DoesIdle(c)
    <3>1. UNCHANGED <<obj, queues>>
      BY <2>1 DEF DoesIdle
    <3>2. CASE pc = "enter"
      <4>1. Phase(o) = "none" /\ (p.msgq # 0 => p.opened)
        BY <1>1, <1>3, <3>2 DEF Inside
      <4>2. Phase(o)' # "drop"
        BY <1>1, <2>1, <3>2 DEF DoesIdle, At, Went, Left, Inside, pc, nx
      <4>3. QED
        BY <3>1, <4>1, <4>2
    <3>3. CASE pc # "enter"
      <4>1. pc \in {"hal", "opening", "count", "queue"}
        BY <2>1, <3>3 DEF DoesIdle, At, pc
      <4>2. p.msgq = 0
        BY <1>1, <1>2, <1>3, <4>1 DEF Shape, OpenPCs, Inside, PCs
      <4>3. QED
        BY <3>1, <4>2
    <3>4. QED
      BY <3>2, <3>3
  <2>2. CASE DoesMake(c)
    BY <1>1, <1>2, <1>3, <1>4, <1>5, <2>2 DEF DoesMake, Shape, At, Inside, pc
  <2>3. CASE DoesQueue(c)
    <3>1. p.msgq = 0
      BY <1>1, <1>2, <1>3, <2>3 DEF DoesQueue, Shape, At, Inside, OpenPCs, pc, PCs
    <3>2. QED
      BY <1>1, <1>4, <2>3, <3>1 DEF DoesQueue, Went, Inside, nx, PCs
  <2>4. CASE DoesInput(c)
    BY <1>1, <2>4 DEF DoesInput, Went, Inside, KeepsThread, nx, PCs, Pushed
  <2>5. CASE DoesLaunch(c)
    BY <1>1, <2>5 DEF DoesLaunch, Went, Inside, nx, PCs, Waits
  <2>6. CASE DoesAsk(c)
    BY <1>1, <1>2, <1>3, <2>6 DEF DoesAsk, Shape, At, Went, Inside, OpenPCs, pc, nx, PCs, Waits,
       Pushed
  <2>7. CASE DoesRelease(c)
    BY <1>1, <2>7 DEF DoesRelease
  <2>8. CASE DoesPoll(c)
    BY <1>1, <1>3, <2>8 DEF DoesPoll, At, Left, Inside, pc, nx, Pushed
  <2>9. CASE DoesOpen(c)
    BY <1>1, <2>9 DEF DoesOpen, Left, Inside, KeepsThread, nx
  <2>10. CASE DoesReply(c)
    BY <1>1, <1>3, <2>10 DEF DoesReply, At, Left, Inside, pc, nx, PCs, Waits
  <2>11. CASE DoesDrop(c)
    BY <1>1, <1>3, <2>11 DEF DoesDrop, KeepsThread, At, Inside, pc
  <2>12. QED
    BY <2>1, <2>2, <2>3, <2>4, <2>5, <2>6, <2>7, <2>8, <2>9, <2>10, <2>11 DEF Does
<1>7. QED
  BY <1>6 DEF Open, Building

\* The ownership of the queues is inductive, where the HAL opens every microphone.
LEMMA OwnedStep ==
    ASSUME "mic" \notin Failures, LifeInv, OwnedInv, Step \/ UNCHANGED vars PROVE OwnedInv'
<1> USE DEF LifeInv
<1>1. ASSUME NEW c \in Callers, Does(c) PROVE OwnedInv'
  <2>1. PICK x \in Objects : x = Obj(c)
    BY <1>1, PhaseMoves DEF BaseInv, Data, Does
  <2>2. /\ obj'[x].msgq # 0 => Open(x)' \/ Building(x)'
        /\ \A q \in DOMAIN queues' : q \in DOMAIN queues \/ obj'[x].msgq = q
        /\ obj[x].msgq \in DOMAIN queues' => obj'[x].msgq = obj[x].msgq
    BY <1>1, <2>1, OwnOwned
  <2>3. \A o \in Objects \ {x} : obj'[o] = obj[o] /\ Phase(o)' = Phase(o)
    BY <1>1, <2>1, Bystander DEF BaseInv
  <2>4. \A q \in DOMAIN queues' : \E o \in Objects : obj'[o].msgq = q
    BY <2>2, <2>3 DEF OwnedInv
  <2>5. \A o \in Objects : obj'[o].msgq # 0 => Open(o)' \/ Building(o)'
    BY <2>2, <2>3 DEF OwnedInv, Open, Building
  <2>6. QED
    BY <2>4, <2>5 DEF OwnedInv
<1>2. CASE ~\E c \in Callers : Does(c)
  <2>1. UNCHANGED obj /\ \A o \in Objects : Phase(o)' = Phase(o)
    BY <1>2, QuietStep
  <2>2. DOMAIN queues' = DOMAIN queues
    BY <1>2 DEF Step, Begun, ThreadDoes, DoesStart, DoesTurn, DoesTake, Popped, vars
  <2>3. QED
    BY <2>1, <2>2 DEF OwnedInv, Open, Building
<1>3. QED
  BY <1>1, <1>2

\* What the steps of a call do to the HAL.
LEMMA HalMoves ==
    ASSUME Data, NEW c \in Callers, CallerStep(c)
    PROVE  \/ /\ proc'.hal = proc.hal /\ UNCHANGED hals
              /\ ~At(c, "opening") \/ Left(c)
              /\ At(c, "hal") => \/ proc.hal = 0 /\ Went(c, "opening")
                                 \/ proc.hal # 0 /\ Went(c, "count")
              /\ At(c, "drop") => proc.users # 0 \/ proc.hal = 0
           \/ /\ At(c, "opening") /\ Went(c, "count") /\ proc'.hal # 0
              /\ hals'.open = hals.open \cup {proc'.hal}
           \/ /\ At(c, "drop") /\ proc.users = 0 /\ proc.hal # 0 /\ proc'.hal = 0
              /\ hals'.open = hals.open \ {proc.hal}
<1>1. /\ proc \in ProcRec /\ hals \in [open : SUBSET (Nums \ {0}), opens : Nums]
      /\ call \in [Callers -> CallRec] /\ CallShape(call[c])
  BY DEF Data, ProcTypes, HalTypes, CallInv, CallTypes
<1>2. \A pc \in PCs : Goto(c, pc) => Went(c, pc)
  BY <1>1, GotoIs
<1>3. CASE CheckHal(c)
  BY <1>2, <1>3 DEF CheckHal, At, PCs
<1>4. CASE OpenHal(c)
  <2>1. hals.opens + 1 # 0 /\ hals.opens + 1 \in Nums
    BY <1>1, <1>4, BoundsAssumption DEF OpenHal, Nums
  <2>2. /\ proc' = [proc EXCEPT !.hal = hals.opens + 1] /\ At(c, "opening") /\ Goto(c, "count")
        /\ hals' = [open |-> hals.open \cup {hals.opens + 1}, opens |-> hals.opens + 1]
    BY <1>4 DEF OpenHal
  <2>3. proc'.hal = hals.opens + 1 /\ hals'.open = hals.open \cup {hals.opens + 1}
    BY <1>1, <2>2 DEF ProcRec
  <2>4. QED
    BY <1>2, <2>1, <2>2, <2>3 DEF PCs
<1>5. CASE Drop(c)
  <2>1. CASE proc.users = 0 /\ proc.hal # 0
    <3>1. /\ hals' = [hals EXCEPT !.open = @ \ {proc.hal}] /\ proc' = [proc EXCEPT !.hal = 0]
          /\ At(c, "drop")
      BY <1>5, <2>1 DEF Drop, Dropped
    <3>2. proc'.hal = 0 /\ hals'.open = hals.open \ {proc.hal}
      BY <1>1, <3>1 DEF ProcRec
    <3>3. QED
      BY <2>1, <3>1, <3>2
  <2>2. CASE ~(proc.users = 0 /\ proc.hal # 0)
    BY <1>5, <2>2 DEF Drop, Dropped, At
  <2>3. QED
    BY <2>1, <2>2
<1>6. CASE HalFails(c)
  BY <1>1, <1>6, ReturnIs DEF HalFails, At
<1>7. CASE ~(CheckHal(c) \/ OpenHal(c) \/ Drop(c) \/ HalFails(c))
  <2>1. call[c].pc \notin {"hal", "opening", "drop"}
    BY <1>7 DEF CallerStep, OpenStep, CloseStep, Create, Free, OpenRefused, OpenBegins, CountUser,
       OpenQueue, QueueFails, OpenInput, MicFails, Launch, LaunchFails, Undo, Launched, CloseNot,
       CloseInput, Terminate, Join, Abandon, Update, UpdateAsks, Get, Reply, Poll, Doing, Closing,
       At, Answered
  <2>2. UNCHANGED hals
    BY <1>7 DEF CallerStep, OpenStep, CloseStep, Create, Free, OpenRefused, OpenBegins, CountUser,
       OpenQueue, QueueFails, OpenInput, MicFails, Launch, LaunchFails, Undo, Launched, CloseNot,
       CloseInput, Terminate, Join, Abandon, Update, UpdateAsks, Get, Ask, Reply, Poll
  <2>3. \/ UNCHANGED proc
        \/ \E k : proc' = [proc EXCEPT !.users = k]
        \/ \E b : proc' = [proc EXCEPT !.privacy = b]
        \/ \E m : proc' = [proc EXCEPT !.power = m]
    BY <1>7 DEF CallerStep, OpenStep, CloseStep, Create, Free, OpenRefused, OpenBegins, CountUser,
       OpenQueue, QueueFails, OpenInput, MicFails, Launch, LaunchFails, Undo, Launched, CloseNot,
       CloseInput, Terminate, Join, Abandon, Update, UpdateAsks, Get, Ask, Reply, Poll, Uncount,
       Released, Stored
  <2>4. proc'.hal = proc.hal
    BY <1>1, <2>3 DEF ProcRec
  <2>5. QED
    BY <2>1, <2>2, <2>4 DEF At
<1>8. QED
  BY <1>3, <1>4, <1>5, <1>6, <1>7

HalInv ==
    /\ hals.open = {proc.hal} \ {0}
    /\ proc.users > 0 => proc.hal # 0
    /\ proc.hal # 0 /\ proc.users = 0 => \E o \in Objects : Phase(o) \in {"count", "drop"}
    /\ \A o \in Objects :
          /\ Phase(o) = "count" => proc.hal # 0
          /\ Phase(o) = "opening" => proc.hal = 0
          /\ Open(o) \/ Phase(o) = "waitLaunch" => thr[obj[o].thread].hal = proc.hal

\* While a call works on an object, nobody is inside another.
LEMMA Solo ==
    ASSUME OneAtATime, CallInv, NEW c \in Callers, call[c].pc # "out",
           NEW o \in Objects, o # Obj(c)
    PROVE  Phase(o) = "none"
<1>1. ASSUME mutex[o] # None PROVE FALSE
  <2>1. PICK d \in Callers : d = mutex[o]
    BY <1>1 DEF CallInv, MutexTypes
  <2>2. Obj(d) = o /\ call[d].pc \in Inside /\ c # d
    BY <1>1, <2>1 DEF CallInv, LockInv
  <2>3. Obj(d) \in Serves[d] /\ Obj(c) \in Serves[c]
    BY <2>2 DEF CallInv, AloneInv, Inside
  <2>4. QED
    BY <2>2, <2>3 DEF OneAtATime
<1>2. QED
  BY <1>1 DEF Phase

\* A set of objects with no member.
LEMMA NoMember ==
    ASSUME NEW S \in SUBSET Objects
    PROVE  Cardinality(S) \in Nat /\ (Cardinality(S) = 0 <=> S = {})
BY ObjectsAssumption, FS_Subset, FS_CardinalityType, FS_EmptySet

\* An object gets its thread at the launch and keeps it while it is open.
LEMMA OwnThread ==
    ASSUME BaseInv, ShapeInv, NEW c \in Callers, Does(c), NEW o \in Objects, o = Obj(c),
           Open(o)' \/ Phase(o)' = "waitLaunch"
    PROVE  \/ DoesLaunch(c)
           \/ (Open(o) \/ Phase(o) = "waitLaunch") /\ obj'[o].thread = obj[o].thread
<1> DEFINE p == obj[o]
           r == obj'[o]
           pc == call[c].pc
           nx == call'[c].pc
<1> USE DEF BaseInv
<1>1. /\ pc \in PCs /\ nx \in PCs /\ CallShape(call[c])
      /\ Phase(o) = IF pc \in Inside THEN pc ELSE "none"
      /\ Phase(o)' = IF nx \in Inside THEN nx ELSE "none"
      /\ pc \in Inside => mutex[o] = c
  BY OwnPhase
<1>2. Shape(o)
  BY DEF ShapeInv
<1>3. (r.opened /\ Phase(o)' # "drop") \/ Phase(o)' = "waitLaunch"
  BY DEF Open
<1>4. \/ DoesLaunch(c)
      \/ /\ (p.opened /\ Phase(o) # "drop") \/ Phase(o) = "waitLaunch"
         /\ r.thread = p.thread
  <2> HIDE DEF pc, nx
  <2>1. CASE DoesIdle(c)
    <3>1. UNCHANGED obj /\ (pc = "queue" => nx = "drop") /\ pc # "drop" /\ nx # "waitLaunch"
      BY <2>1 DEF DoesIdle, At, Went, Left, pc, nx
    <3>2. QED
      BY <1>1, <1>3, <3>1
  <2>2. CASE DoesMake(c)
    BY <1>1, <1>3, <2>2 DEF DoesMake, Left, Inside, nx
  <2>3. CASE DoesQueue(c)
    BY <1>1, <1>2, <1>3, <2>3 DEF DoesQueue, Shape, At, Went, Inside, OpenPCs, KeepsFlags, pc, nx,
       PCs
  <2>4. CASE DoesInput(c)
    BY <1>1, <1>2, <1>3, <2>4 DEF DoesInput, Shape, At, Went, Inside, OpenPCs, KeepsFlags, pc, nx,
       PCs
  <2>5. CASE DoesAsk(c)
    BY <1>1, <1>2, <1>3, <2>5 DEF DoesAsk, Shape, At, Went, Inside, OpenPCs, pc, nx, PCs, Waits
  <2>6. CASE DoesRelease(c)
    BY <1>1, <1>3, <2>6 DEF DoesRelease, Went, Inside, nx, PCs
  <2>7. CASE DoesPoll(c)
    BY <1>1, <1>3, <2>7 DEF DoesPoll, At, Left, Inside, pc, nx
  <2>8. CASE DoesOpen(c)
    BY <1>1, <2>8 DEF DoesOpen, At, Inside, KeepsThread, pc, PCs, Waits
  <2>9. CASE DoesReply(c)
    BY <1>1, <1>3, <2>9 DEF DoesReply, At, Left, Inside, pc, nx
  <2>10. CASE DoesDrop(c)
    BY <1>1, <1>2, <1>3, <2>10 DEF DoesDrop, Shape, CallShape, At, Went, Left, Inside, pc, nx
  <2>11. QED
    BY <2>1, <2>2, <2>3, <2>4, <2>5, <2>6, <2>7, <2>8, <2>9, <2>10 DEF Does
<1>5. QED
  BY <1>4 DEF Open

\* What a step of a call does to the users, told by where the call is.
LEMMA UserMoves ==
    ASSUME BaseInv, NEW c \in Callers, Does(c)
    PROVE  \/ Users(0) /\ ~At(c, "count")
           \/ Users(1) /\ At(c, "count") /\ Went(c, "queue")
           \/ Users(-1) /\ Went(c, "drop")
BY DEF Does, DoesIdle, DoesMake, DoesQueue, DoesInput, DoesLaunch, DoesAsk, DoesRelease, DoesPoll,
       DoesOpen, DoesReply, DoesDrop, At

\* A step of a call keeps the HAL with its users, while no other call is inside another object.
LEMMA CallerHal ==
    ASSUME OneAtATime, LifeInv, UserInv', HalInv, NEW c \in Callers, CallerStep(c), Does(c)
    PROVE  HalInv'
<1> USE DEF LifeInv, BaseInv
<1>1. PICK x \in Objects : x = Obj(c)
  BY PhaseMoves DEF Data, Does
<1>2. /\ call[c].pc \in PCs /\ call'[c].pc \in PCs /\ call[c].pc # "out"
      /\ Phase(x) = IF call[c].pc \in Inside THEN call[c].pc ELSE "none"
      /\ Phase(x)' = IF call'[c].pc \in Inside THEN call'[c].pc ELSE "none"
  BY <1>1, OwnPhase, PhaseMoves DEF Data, Does
<1>3. \A o \in Objects \ {x} : /\ Phase(o) = "none" /\ Phase(o)' = "none" /\ obj'[o] = obj[o]
  BY <1>1, <1>2, Solo, Bystander DEF Data
<1>4. /\ proc.users = Cardinality(Counted) /\ proc'.users = Cardinality(Counted')
      /\ proc.users \in Nat /\ proc'.users \in Nat
      /\ proc.users = 0 => \A o \in Objects : ~Counts(o)
      /\ proc'.users = 0 => \A o \in Objects : ~Counts(o)'
  <2>1. Counted \in SUBSET Objects /\ Counted' \in SUBSET Objects
    BY DEF Counted
  <2>2. /\ Cardinality(Counted) \in Nat /\ (Cardinality(Counted) = 0 <=> Counted = {})
        /\ Cardinality(Counted') \in Nat /\ (Cardinality(Counted') = 0 <=> Counted' = {})
    BY <2>1, NoMember
  <2>3. QED
    BY <2>2 DEF UserInv, Counted
<1>5. \/ Users(0) /\ ~At(c, "count")
      \/ Users(1) /\ At(c, "count") /\ Went(c, "queue")
      \/ Users(-1) /\ Went(c, "drop")
  BY UserMoves
<1>6. CASE /\ proc'.hal = proc.hal /\ UNCHANGED hals
           /\ ~At(c, "opening") \/ Left(c)
           /\ At(c, "hal") => \/ proc.hal = 0 /\ Went(c, "opening")
                              \/ proc.hal # 0 /\ Went(c, "count")
           /\ At(c, "drop") => proc.users # 0 \/ proc.hal = 0
  <2>1. proc'.users > 0 => proc'.hal # 0
    <3>1. CASE At(c, "count")
      BY <1>1, <1>2, <1>6, <3>1 DEF HalInv, At, Inside, PCs
    <3>2. CASE ~At(c, "count")
      BY <1>4, <1>5, <1>6, <3>2 DEF HalInv, Users
    <3>3. QED
      BY <3>1, <3>2
  <2>2. ASSUME proc'.hal # 0, proc'.users = 0
        PROVE  \E o \in Objects : Phase(o)' \in {"count", "drop"}
    <3>1. CASE Users(-1) /\ Went(c, "drop")
      BY <1>2, <3>1 DEF Went, Inside, PCs
    <3>2. CASE Users(1)
      BY <1>4, <2>2, <3>2 DEF Users
    <3>3. CASE Users(0) /\ ~At(c, "count")
      <4>1. proc.users = 0 /\ proc.hal # 0
        BY <1>4, <1>6, <2>2, <3>3 DEF Users
      <4>2. PICK o \in Objects : Phase(o) \in {"count", "drop"}
        BY <4>1 DEF HalInv
      <4>3. o = x
        BY <1>3, <4>2
      <4>4. At(c, "drop")
        BY <1>2, <3>3, <4>2, <4>3 DEF At
      <4>5. QED
        BY <1>6, <4>1, <4>4
    <3>4. QED
      BY <1>5, <3>1, <3>2, <3>3
  <2>3. \/ Phase(x)' \notin {"count", "opening"}
        \/ At(c, "hal")
    <3>1. Moves(c)
      BY DEF Does
    <3>2. QED
      BY <1>2, <1>6, <3>1 DEF Moves, Passes, Enters, Went, Left, At
  <2>4. /\ Phase(x)' = "count" => proc'.hal # 0
        /\ Phase(x)' = "opening" => proc'.hal = 0
    BY <1>2, <1>6, <2>3 DEF Went
  <2>5. ASSUME NEW o \in Objects, Open(o)' \/ Phase(o)' = "waitLaunch"
        PROVE  thr'[obj'[o].thread].hal = proc'.hal
    <3>1. CASE DoesLaunch(c) /\ o = x
      <4>1. thr \in Seq(ThrRec)
        BY DEF Data, ThrTypes
      <4>2. PICK t : thr' = Append(thr, t) /\ t.hal = proc.hal
        BY <3>1 DEF DoesLaunch
      <4>3. obj'[x].thread = Len(thr) + 1
        BY <1>1, <3>1 DEF DoesLaunch
      <4>4. QED
        BY <1>6, <3>1, <4>1, <4>2, <4>3
    <3>2. CASE ~(DoesLaunch(c) /\ o = x)
      <4>1. (Open(o) \/ Phase(o) = "waitLaunch") /\ obj'[o].thread = obj[o].thread
        <5>1. CASE o = x
          BY <1>1, <2>5, <3>2, <5>1, OwnThread
        <5>2. CASE o # x
          BY <1>3, <2>5, <5>2 DEF Open
        <5>3. QED
          BY <5>1, <5>2
      <4>2. obj[o].thread \in DOMAIN thr
        BY <4>1 DEF ServedInv, Serving, Attached
      <4>3. thr'[obj[o].thread] = thr[obj[o].thread]
        BY <4>2, ThrKept
      <4>4. QED
        BY <1>6, <4>1, <4>3 DEF HalInv
    <3>3. QED
      BY <3>1, <3>2
  <2>6. QED
    BY <1>3, <1>6, <2>1, <2>2, <2>4, <2>5 DEF HalInv
<1>7. CASE /\ At(c, "opening") /\ Went(c, "count") /\ proc'.hal # 0
           /\ hals'.open = hals.open \cup {proc'.hal}
  <2>1. Phase(x) = "opening" /\ Phase(x)' = "count"
    BY <1>2, <1>7 DEF At, Went, Inside, PCs
  <2>2. proc.hal = 0 /\ proc.users = 0 /\ Users(0)
    BY <1>4, <1>5, <1>7, <2>1 DEF HalInv, At, Went
  <2>3. \A o \in Objects : ~Counts(o)'
    BY <1>4, <2>2 DEF Users
  <2>4. hals'.open = {proc'.hal} \ {0}
    BY <1>7, <2>2 DEF HalInv
  <2>5. QED
    BY <1>3, <1>7, <2>1, <2>3, <2>4 DEF HalInv, Counts
<1>8. CASE /\ At(c, "drop") /\ proc.users = 0 /\ proc.hal # 0 /\ proc'.hal = 0
           /\ hals'.open = hals.open \ {proc.hal}
  <2>1. Users(0) /\ Phase(x)' = "none"
    <3>1. DoesDrop(c)
      BY <1>8 DEF Does, DoesIdle, DoesMake, DoesQueue, DoesInput, DoesLaunch, DoesAsk,
         DoesRelease, DoesPoll, DoesOpen, DoesReply, At
    <3>2. QED
      BY <1>2, <3>1 DEF DoesDrop, Went, Left, Inside
  <2>2. proc'.users = 0 /\ \A o \in Objects : ~Counts(o)'
    BY <1>4, <1>8, <2>1 DEF Users
  <2>3. hals'.open = {proc'.hal} \ {0}
    BY <1>8 DEF HalInv
  <2>4. QED
    BY <1>3, <1>8, <2>1, <2>2, <2>3 DEF HalInv, Counts
<1>9. QED
  BY <1>6, <1>7, <1>8, HalMoves

\* The HAL and its users are inductive, where one object is worked on at a time.
LEMMA HalStep ==
    ASSUME OneAtATime, LifeInv, LifeInv', HalInv, Step \/ UNCHANGED vars PROVE HalInv'
<1> USE DEF LifeInv
<1>1. ASSUME NEW c \in Callers, CallerStep(c), Does(c) PROVE HalInv'
  BY <1>1, CallerHal
<1>2. CASE ~\E c \in Callers : CallerStep(c) /\ Does(c)
  <2>1. UNCHANGED <<obj, proc, hals>> /\ \A o \in Objects : Phase(o)' = Phase(o)
    BY <1>2, QuietStep
  <2>2. \A t \in DOMAIN thr : thr'[t].hal = thr[t].hal
    BY <1>2 DEF Step, Begun, ThreadDoes, DoesStart, DoesTurn, DoesTake, Turned, vars
  <2>3. \A o \in Objects : Open(o) \/ Phase(o) = "waitLaunch" => obj[o].thread \in DOMAIN thr
    BY DEF ServedInv, Serving, Attached
  <2>4. QED
    BY <2>1, <2>2, <2>3 DEF HalInv, Open
<1>3. QED
  BY <1>1, <1>2

\* Nothing leaks, by what is kept of owners and users.
LEMMA LeaksNothing ==
    ASSUME LifeInv, OwnedInv, HalInv PROVE NothingLeaks
<1> USE DEF LifeInv, BaseInv
<1>1. QueuesOwned
  <2>1. ASSUME NEW q \in DOMAIN queues
        PROVE  \E o \in Objects : obj[o].msgq = q /\ (obj[o].opened \/ mutex[o] # None)
    <3>1. PICK o \in Objects : obj[o].msgq = q
      BY DEF OwnedInv
    <3>2. Open(o) \/ Building(o)
      BY <3>1 DEF OwnedInv, Data, QueueTypes
    <3>3. QED
      BY <3>1, <3>2 DEF Open, Building, Phase
  <2>2. QED
    BY <2>1 DEF QueuesOwned
<1>2. /\ proc.users = Cardinality(Counted) /\ Cardinality(Counted) \in Nat
      /\ \A o \in Counted : proc.users # 0
  <2>1. Counted \in SUBSET Objects
    BY DEF Counted
  <2>2. QED
    BY <2>1, NoMember DEF UserInv
<1>3. ASSUME \A c \in Callers : At(c, "out")
      PROVE  /\ proc.users = Cardinality({o \in Objects : obj[o].opened})
             /\ proc.hal # 0 <=> proc.users > 0
             /\ hals.open = {proc.hal} \ {0}
  <2>1. \A o \in Objects : Phase(o) = "none"
    BY <1>3 DEF Phase, Data, CallInv, MutexTypes, LockInv, At, Inside
  <2>2. Counted = {o \in Objects : obj[o].opened}
    BY <2>1 DEF Counted, Counts, Open
  <2>3. QED
    BY <1>2, <2>1, <2>2 DEF HalInv
<1>4. ASSUME NEW o \in Objects, obj[o].opened, ~Leaving(o)
      PROVE  thr[obj[o].thread].hal \in hals.open
  <2>1. Phase(o) # "drop"
    BY <1>4 DEF Leaving, Phase, Data, CallInv, CallTypes, CallShape, MutexTypes, ShapeInv, Shape
  <2>2. Open(o) /\ o \in Counted
    BY <1>4, <2>1 DEF Open, Counted, Counts
  <2>3. proc.hal # 0
    BY <1>2, <2>2 DEF HalInv
  <2>4. QED
    BY <2>2, <2>3 DEF HalInv
<1>5. HalCounted
  BY <1>3, <1>4 DEF HalCounted
<1>6. QED
  BY <1>1, <1>5 DEF NothingLeaks

\* Nothing of the process is left open without an owner, nor closed under one, when no two
\* clients open and close different objects at the same time and the HAL never fails to open a
\* microphone: after every call the count of xraudio_audio_hal_open and _close is the number of
\* open objects, the HAL is open just when one is, and every queue is an open object's.
THEOREM LifeLeaksNothing ==
    ASSUME "mic" \notin Failures, OneAtATime PROVE Spec => []NothingLeaks
<1> DEFINE Inv == LifeInv /\ OwnedInv /\ HalInv
<1>1. Init => Inv
  <2>1. ASSUME Init PROVE OwnedInv
    BY <2>1 DEF Init, NoObj, NewObj, OwnedInv
  <2>2. ASSUME Init PROVE HalInv
    BY <2>2 DEF Init, NoObj, NewObj, HalInv, Open, Phase
  <2>3. QED
    BY <2>1, <2>2, LifeInit
<1>2. Inv /\ [Next]_vars => Inv'
  <2>1. ASSUME LifeInv, OwnedInv, HalInv, [Next]_vars PROVE LifeInv' /\ OwnedInv' /\ HalInv'
    <3>1. LifeInv' /\ (Step \/ UNCHANGED vars)
      BY <2>1, LifeStep
    <3>2. OwnedInv'
      BY <2>1, <3>1, OwnedStep
    <3>3. HalInv'
      BY <2>1, <3>1, HalStep
    <3>4. QED
      BY <3>1, <3>2, <3>3
  <2>2. QED
    BY <2>1
<1>3. Inv => NothingLeaks
  BY LeaksNothing
<1>4. QED
  BY <1>1, <1>2, <1>3, PTL DEF Spec

-----------------------------------------------------------------------------
(* The privacy mode of the HAL, for a process with one object.             *)

OneObject == \A o, p \in Objects : o = p

\* The update of c was accepted by the HAL, and c has not stored it yet.
Accepted(c) == call[c].pc = "wait" /\ call[c].op = "privacy" /\ answer[c] = "ok"
PrivInv ==
    /\ \A c \in Callers : call[c].pc = "wait" =>
          /\ answer[c] \in {"on", "off"} => device.privacy = (answer[c] = "on")
          /\ call[c].op = "privacy" /\ answer[c] = "ok" => device.privacy = call[c].on
    /\ proc.hal # 0 => device.privacy = proc.privacy \/ \E c \in Callers : Accepted(c)

\* With one object, a step of a call is taken while nobody else is inside.
LEMMA Only ==
    ASSUME OneObject, CallInv, NEW c \in Callers, Moves(c), NEW d \in Callers \ {c}
    PROVE  call[d].pc \notin Inside /\ call'[d].pc \notin Inside
<1>1. call'[d] = call[d]
  BY DEF Moves, Others
<1>2. CallShape(call[c]) /\ CallShape(call[d]) /\ Obj(c) \in Objects
  BY PhaseMoves DEF CallInv, CallTypes
<1>3. ASSUME call[d].pc \in Inside PROVE FALSE
  <2>1. Obj(d) = Obj(c) /\ mutex[Obj(c)] = d
    BY <1>2, <1>3 DEF OneObject, CallInv, LockInv, CallShape, Inside, Obj
  <2>2. call[c].pc \notin Inside /\ mutex[Obj(c)] # None
    BY <2>1, ObjectsAssumption DEF CallInv, LockInv
  <2>3. call[c].op # "destroy"
    BY <2>1 DEF CallInv, AloneInv
  <2>4. ~At(c, "free") /\ ~Passes(c) /\ ~At(c, "drop")
    BY <1>2, <2>2, <2>3 DEF CallShape, Passes, At, Inside, PCs, Waits
  <2>5. call[c].pc = "enter"
    BY <1>2, <2>2, <2>4, PhaseMoves DEF At, Inside, CallInv, CallTypes, CallRec
  <2>6. QED
    BY <2>2, <2>3, <2>4, <2>5 DEF Moves, Takes, At
<1>4. QED
  BY <1>1, <1>3

\* What the steps of a call do to the privacy mode, the process's and the HAL's.
LEMMA PrivacyMoves ==
    ASSUME Data, NEW c \in Callers, CallerStep(c)
    PROVE  \/ At(c, "opening") /\ Went(c, "count") /\ device'.privacy = proc'.privacy
           \/ UNCHANGED device /\ At(c, "enter") /\ ~obj[Obj(c)].opened /\ mutex[Obj(c)] = None
           \/ /\ UNCHANGED device /\ At(c, "wait")
              /\ proc'.privacy = IF answer[c] \in {"on", "off"} THEN (answer[c] = "on")
                                 ELSE IF call[c].op = "privacy" /\ answer[c] = "ok"
                                      THEN call[c].on ELSE proc.privacy
           \/ /\ UNCHANGED device /\ proc'.privacy = proc.privacy
              /\ ~At(c, "wait") /\ (~At(c, "opening") \/ Left(c))
<1>1. /\ proc \in ProcRec /\ call \in [Callers -> CallRec]
      /\ device \in [power : Modes, privacy : BOOLEAN]
  BY DEF Data, ProcTypes, HalTypes, CallInv, CallTypes
<1>2. /\ \A b : LET p == [proc EXCEPT !.privacy = b] IN p.privacy = b
      /\ \A m : LET p == [proc EXCEPT !.power = m] IN p.privacy = proc.privacy
      /\ \A h : LET p == [proc EXCEPT !.hal = h] IN p.privacy = proc.privacy
      /\ \A k : LET p == [proc EXCEPT !.users = k] IN p.privacy = proc.privacy
  BY <1>1 DEF ProcRec
<1>3. CASE OpenHal(c)
  <2>1. Went(c, "count") /\ At(c, "opening")
    BY <1>1, <1>3, GotoIs DEF OpenHal, PCs
  <2>2. /\ device' = [power |-> proc.power, privacy |-> proc.privacy]
        /\ \E h : proc' = [proc EXCEPT !.hal = h]
    BY <1>3 DEF OpenHal
  <2>3. QED
    BY <1>2, <2>1, <2>2
<1>4. CASE OpenBegins(c)
  BY <1>4 DEF OpenBegins, Doing
<1>5. CASE Update(c)
  <2>1. /\ UNCHANGED device /\ At(c, "enter") /\ mutex[Obj(c)] = None /\ proc' = Stored(c)
        /\ Same(c) \/ ~obj[Obj(c)].opened
    BY <1>5 DEF Update, Doing
  <2>2. CASE Same(c)
    BY <1>2, <2>1, <2>2 DEF Same, Stored, At
  <2>3. CASE ~obj[Obj(c)].opened
    BY <2>1, <2>3
  <2>4. QED
    BY <2>1, <2>2, <2>3
<1>6. CASE Reply(c)
  <2>1. /\ UNCHANGED device /\ At(c, "wait")
        /\ proc' = CASE answer[c] \in {"on", "off"} -> [proc EXCEPT !.privacy = (answer[c] = "on")]
                     [] call[c].op \in {"power", "privacy"} /\ answer[c] = "ok" -> Stored(c)
                     [] OTHER -> proc
    BY <1>6 DEF Reply, Answered
  <2>2. CASE answer[c] \in {"on", "off"}
    BY <1>2, <2>1, <2>2
  <2>3. CASE answer[c] \notin {"on", "off"} /\ call[c].op = "privacy" /\ answer[c] = "ok"
    <3>1. proc' = [proc EXCEPT !.privacy = call[c].on]
      BY <2>1, <2>3 DEF Stored
    <3>2. QED
      BY <1>2, <2>1, <2>3, <3>1
  <2>4. CASE answer[c] \notin {"on", "off"} /\ ~(call[c].op = "privacy" /\ answer[c] = "ok")
    <3>1. proc' = proc \/ \E m : proc' = [proc EXCEPT !.power = m]
      BY <2>1, <2>4 DEF Stored
    <3>2. QED
      BY <1>2, <2>1, <2>4, <3>1
  <2>5. QED
    BY <2>2, <2>3, <2>4
<1>7. CASE HalFails(c)
  BY <1>1, <1>7, ReturnIs DEF HalFails, At
<1>8. CASE ~(OpenHal(c) \/ OpenBegins(c) \/ Update(c) \/ Reply(c) \/ HalFails(c))
  <2>1. call[c].pc \notin {"opening", "wait"} /\ UNCHANGED device
    BY <1>8 DEF CallerStep, OpenStep, CloseStep, Create, Free, OpenRefused, CheckHal, CountUser,
       OpenQueue, QueueFails, OpenInput, MicFails, Launch, LaunchFails, Undo, Launched, CloseNot,
       CloseInput, Terminate, Join, Abandon, Drop, Dropped, UpdateAsks, Get, Ask, Poll, Doing,
       Closing, At, Answered
  <2>2. \/ UNCHANGED proc
        \/ \E k : proc' = [proc EXCEPT !.users = k]
        \/ \E h : proc' = [proc EXCEPT !.hal = h]
        \/ \E m : proc' = [proc EXCEPT !.power = m]
    BY <1>8 DEF CallerStep, OpenStep, CloseStep, Create, Free, OpenRefused, CheckHal, CountUser,
       OpenQueue, QueueFails, OpenInput, MicFails, Launch, LaunchFails, Undo, Launched, CloseNot,
       CloseInput, Terminate, Join, Abandon, Drop, UpdateAsks, Get, Ask, Poll, Uncount, Released
  <2>3. QED
    BY <1>2, <2>1, <2>2 DEF At
<1>9. QED
  BY <1>3, <1>4, <1>5, <1>6, <1>7, <1>8

\* A step of a call keeps the HAL and the process of one mind: the mode changes while the HAL is
\* closed, with the answer of the HAL, or when the HAL is opened with it.
LEMMA CallerPriv ==
    ASSUME OneObject, LifeInv, HalInv, PrivInv, NEW c \in Callers, CallerStep(c), Does(c)
    PROVE  PrivInv'
<1> USE DEF LifeInv, BaseInv
<1>1. PICK x \in Objects : x = Obj(c)
  BY PhaseMoves DEF Data, Does
<1>2. \A d \in Callers \ {c} : call[d].pc # "wait" /\ call'[d].pc # "wait"
  BY Only DEF Data, Does, Inside, PCs, Waits
<1>3. answer'[c] = "none"
  BY CallerSends
<1>4. proc'.hal # 0 => device'.privacy = proc'.privacy
  <2>1. \/ proc'.hal = proc.hal
        \/ At(c, "opening") /\ Went(c, "count")
        \/ proc'.hal = 0
    BY HalMoves
  <2>2. CASE At(c, "opening") /\ Went(c, "count") /\ device'.privacy = proc'.privacy
    BY <2>2
  <2>3. CASE UNCHANGED device /\ At(c, "enter") /\ ~obj[Obj(c)].opened /\ mutex[Obj(c)] = None
    <3>1. \A o \in Objects : Phase(o) = "none" /\ ~Counts(o)
      BY <1>1, <2>3 DEF OneObject, Phase, Counts, Open
    <3>2. proc.users = 0
      BY <3>1, NoMember DEF UserInv, Counted
    <3>3. proc.hal = 0
      BY <3>1, <3>2 DEF HalInv
    <3>4. QED
      BY <2>1, <2>3, <3>3 DEF At
  <2>4. CASE /\ UNCHANGED device /\ At(c, "wait")
             /\ proc'.privacy = IF answer[c] \in {"on", "off"} THEN (answer[c] = "on")
                                ELSE IF call[c].op = "privacy" /\ answer[c] = "ok"
                                     THEN call[c].on ELSE proc.privacy
    <3>1. CASE answer[c] \in {"on", "off"}
      BY <2>4, <3>1 DEF PrivInv, At
    <3>2. CASE answer[c] \notin {"on", "off"} /\ call[c].op = "privacy" /\ answer[c] = "ok"
      BY <2>4, <3>2 DEF PrivInv, At
    <3>3. CASE answer[c] \notin {"on", "off"} /\ ~(call[c].op = "privacy" /\ answer[c] = "ok")
      <4>1. proc'.privacy = proc.privacy
        BY <2>4, <3>3
      <4>2. \A d \in Callers : ~Accepted(d)
        BY <1>2, <3>3 DEF Accepted
      <4>3. QED
        BY <2>1, <2>4, <4>1, <4>2 DEF PrivInv, At
    <3>4. QED
      BY <3>1, <3>2, <3>3
  <2>5. CASE /\ UNCHANGED device /\ proc'.privacy = proc.privacy
             /\ ~At(c, "wait") /\ (~At(c, "opening") \/ Left(c))
    <3>1. \A d \in Callers : ~Accepted(d)
      BY <1>2, <2>5 DEF Accepted, At
    <3>2. ~(At(c, "opening") /\ Went(c, "count"))
      BY <2>5 DEF Left, Went
    <3>3. QED
      BY <2>1, <2>5, <3>1, <3>2 DEF PrivInv
  <2>6. QED
    BY <2>2, <2>3, <2>4, <2>5, PrivacyMoves
<1>5. QED
  BY <1>2, <1>3, <1>4 DEF PrivInv

\* A step of a main thread keeps it: the HAL changes its mode for the one call that waits, which
\* is told so.
LEMMA ThreadPriv ==
    ASSUME OneObject, LifeInv, PrivInv, NEW t \in DOMAIN thr, ThreadDoes(t)
    PROVE  PrivInv'
<1> USE DEF LifeInv, BaseInv
<1>1. UNCHANGED <<call, proc>> /\ answer \in [Callers -> Answers]
  BY DEF ThreadDoes, Data, AnswerTypes
<1>2. \A c, d \in Callers : call[c].pc = "wait" /\ call[d].pc = "wait" => c = d
  <2>1. ASSUME NEW c \in Callers, call[c].pc = "wait" PROVE Obj(c) \in Objects /\ mutex[Obj(c)] = c
    BY <2>1 DEF Data, CallInv, CallTypes, CallShape, LockInv, Inside, PCs, Waits, Obj
  <2>2. QED
    BY <2>1 DEF OneObject
<1>3. CASE DoesTurn(t)
  BY <1>1, <1>3 DEF DoesTurn, PrivInv, Accepted
<1>4. CASE DoesStart(t)
  <2>1. PICK c \in Callers : LaunchedBy(c, t)
    BY <1>4 DEF DoesStart, SemInv, InitInv
  <2>2. call[c].pc = "waitLaunch" /\ thr[t].sem = <<c, call[c].n>> /\ Post(thr[t].sem, "ok")
    BY <1>4, <2>1 DEF LaunchedBy, DoesStart
  <2>3. answer' = [answer EXCEPT ![c] = "ok"]
    BY <2>2, PostWakes DEF Waits
  <2>4. \A d \in Callers : call[d].pc = "wait" => answer'[d] = answer[d]
    BY <1>1, <2>2, <2>3
  <2>5. QED
    BY <1>1, <1>4, <2>4 DEF DoesStart, PrivInv, Accepted
<1>5. CASE DoesTake(t)
  <2> DEFINE q == thr[t].q
             m == queues[q][1]
  <2>1. /\ q \in DOMAIN queues /\ Len(queues[q]) \in Nat /\ Len(queues[q]) > 0 /\ m \in MsgRec
        /\ Sent(m, q)
    BY <1>5, TakeWakes DEF SemInv, QueuedInv
  <2>2. \/ /\ UNCHANGED answer /\ UNCHANGED device
        \/ /\ m.type \notin {"idleStart", "poll"}
           /\ \E a \in Answers :
                /\ Post(m.sem, a) /\ a # "none"
                /\ a \in {"on", "off"} => device.privacy = (a = "on") /\ m.type = "privacyGet"
                /\ m.type = "privacy" /\ a = "ok" => device'.privacy = m.on
                /\ ~(m.type = "privacy" /\ a = "ok") => device'.privacy = device.privacy
    <3>1. CASE m.type \in {"idleStart", "poll"}
      BY <1>5, <3>1 DEF DoesTake
    <3>2. CASE m.type \in {"idleStop", "terminate"}
      BY <1>5, <3>2 DEF DoesTake, Answers
    <3>3. CASE m.type \in {"power", "privacy"}
      BY <1>5, <3>3 DEF DoesTake, Answers
    <3>4. CASE m.type \in {"privacyGet", "limits"}
      <4>1. UNCHANGED device /\ device.privacy \in BOOLEAN
        BY <1>5, <3>4 DEF DoesTake, Data, HalTypes
      <4>2. CASE device.privacy = TRUE
        BY <1>5, <3>4, <4>1, <4>2 DEF DoesTake, Answers
      <4>3. CASE device.privacy = FALSE
        BY <1>5, <3>4, <4>1, <4>3 DEF DoesTake, Answers
      <4>4. QED
        BY <4>1, <4>2, <4>3
    <3>5. QED
      BY <1>5, <3>1, <3>2, <3>3, <3>4 DEF DoesTake
  <2> HIDE DEF m, q
  <2>3. CASE UNCHANGED answer /\ UNCHANGED device
    BY <1>1, <2>3 DEF PrivInv, Accepted
  <2>4. CASE /\ m.type \notin {"idleStart", "poll"}
             /\ \E a \in Answers :
                  /\ Post(m.sem, a) /\ a # "none"
                  /\ a \in {"on", "off"} => device.privacy = (a = "on") /\ m.type = "privacyGet"
                  /\ m.type = "privacy" /\ a = "ok" => device'.privacy = m.on
                  /\ ~(m.type = "privacy" /\ a = "ok") => device'.privacy = device.privacy
    <3>1. PICK c \in Callers : SentBy(c, m, q)
      BY <2>1, <2>4 DEF Sent
    <3>2. PICK a \in Answers :
                  /\ Post(m.sem, a) /\ a # "none"
                  /\ a \in {"on", "off"} => device.privacy = (a = "on") /\ m.type = "privacyGet"
                  /\ m.type = "privacy" /\ a = "ok" => device'.privacy = m.on
                  /\ ~(m.type = "privacy" /\ a = "ok") => device'.privacy = device.privacy
      BY <2>4
    <3>3. /\ call[c].pc \in Waits /\ m.sem = <<c, call[c].n>> /\ m.on = call[c].on
          /\ answer[c] = "none" /\ Awaits(call[c], m.type)
      BY <3>1 DEF SentBy, Awaits, Waits
    <3>4. answer' = [answer EXCEPT ![c] = a]
      BY <3>2, <3>3, PostWakes
    <3>5. answer'[c] = a /\ \A d \in Callers \ {c} : answer'[d] = answer[d]
      BY <1>1, <3>4
    <3>6. CASE call[c].pc = "wait"
      <4>1. m.type = call[c].op
        BY <3>3, <3>6 DEF Awaits
      <4>2. \A d \in Callers \ {c} : call[d].pc # "wait"
        BY <1>2, <3>6
      <4>3. \A d \in Callers : ~Accepted(d)
        BY <3>3, <4>2 DEF Accepted
      <4>4. a \in {"on", "off"} => device'.privacy = (a = "on")
        BY <3>2
      <4>5. m.type = "privacy" /\ a = "ok" => device'.privacy = call[c].on
        BY <3>2, <3>3
      <4>6. proc'.hal # 0 => \/ device'.privacy = proc'.privacy
                             \/ call[c].op = "privacy" /\ a = "ok"
        BY <1>1, <3>2, <4>1, <4>3 DEF PrivInv
      <4>7. QED
        BY <1>1, <3>5, <3>6, <4>1, <4>2, <4>4, <4>5, <4>6 DEF PrivInv, Accepted
    <3>7. CASE call[c].pc # "wait"
      <4>1. m.type # "privacy"
        BY <3>3, <3>7 DEF Awaits
      <4>2. device'.privacy = device.privacy
        BY <3>2, <4>1
      <4>3. \A d \in Callers : call[d].pc = "wait" => answer'[d] = answer[d]
        BY <3>5, <3>7
      <4>4. QED
        BY <1>1, <4>2, <4>3 DEF PrivInv, Accepted
    <3>8. QED
      BY <3>6, <3>7
  <2>5. QED
    BY <2>2, <2>3, <2>4
<1>6. QED
  BY <1>3, <1>4, <1>5 DEF ThreadDoes

\* The agreement on the privacy mode is inductive, with one object.
LEMMA PrivStep ==
    ASSUME OneObject, LifeInv, HalInv, PrivInv, Step \/ UNCHANGED vars PROVE PrivInv'
<1>1. ASSUME NEW c \in Callers, Begun(c) PROVE PrivInv'
  <2>1. \A d \in Callers : call[d].pc = "wait" \/ call'[d].pc = "wait" => call'[d] = call[d]
    BY <1>1 DEF Begun, Others, At
  <2>2. UNCHANGED <<device, proc, answer>>
    BY <1>1 DEF Begun
  <2>3. QED
    BY <2>1, <2>2 DEF PrivInv, Accepted
<1>2. CASE UNCHANGED vars
  BY <1>2 DEF vars, PrivInv, Accepted
<1>3. QED
  BY <1>1, <1>2, CallerPriv, ThreadPriv DEF Step

\* In a process with one object the HAL is, between calls, in the privacy mode the process
\* believes it is in: a mode is stored only when the HAL has taken it over, or while the HAL is
\* closed, and what the process reads from the HAL is what it is told at the next opening. Two
\* objects may disagree: an open of the second stores its mode without telling the open HAL.
THEOREM LifePrivacy == ASSUME OneObject PROVE Spec => []PrivacyTold
<1> DEFINE Inv == LifeInv /\ HalInv /\ PrivInv
<1>1. Init => Inv
  <2>1. ASSUME Init PROVE HalInv
    BY <2>1 DEF Init, NoObj, NewObj, HalInv, Open, Phase
  <2>2. ASSUME Init PROVE PrivInv
    BY <2>2 DEF Init, NoCall, PrivInv
  <2>3. QED
    BY <2>1, <2>2, LifeInit
<1>2. Inv /\ [Next]_vars => Inv'
  <2>1. ASSUME LifeInv, HalInv, PrivInv, [Next]_vars PROVE LifeInv' /\ HalInv' /\ PrivInv'
    <3>1. LifeInv' /\ (Step \/ UNCHANGED vars)
      BY <2>1, LifeStep
    <3>2. OneAtATime
      BY ObjectsAssumption DEF OneObject, OneAtATime
    <3>3. HalInv'
      BY <2>1, <3>1, <3>2, HalStep
    <3>4. PrivInv'
      BY <2>1, <3>1, PrivStep
    <3>5. QED
      BY <3>1, <3>3, <3>4
  <2>2. QED
    BY <2>1
<1>3. Inv => PrivacyTold
  BY DEF PrivInv, Accepted, PrivacyTold, At
<1>4. QED
  BY <1>1, <1>2, <1>3, PTL DEF Spec

-----------------------------------------------------------------------------
(* The queue of the voice session, for a process with one object.          *)

\* An idle start waits in the queue.
Idle(q) == \E i \in 1 .. Len(queues[q]) : queues[q][i].type = "idleStart"

VoiceInv ==
    /\ \A o \in Objects : obj[o].input = "live" =>
          /\ Open(o) \/ Phase(o) \in {"launch", "waitLaunch", "waitUndo"}
          /\ voiceQ = obj[o].msgq \/ Idle(obj[o].msgq)
    /\ \A q \in DOMAIN queues : Idle(q) =>
          \E o \in Objects : obj[o].msgq = q /\ obj[o].input = "live"
    /\ \A o \in Objects : Phase(o) = "input" => queues[obj[o].msgq] = <<>>

\* Any other message leaves it so.
LEMMA IdlePush ==
    ASSUME Data, NEW p, NEW m \in MsgRec, m.type # "idleStart", Pushed(p, m), NEW q \in DOMAIN queues
    PROVE  DOMAIN queues' = DOMAIN queues /\ (Idle(q)' <=> Idle(q))
<1>1. CASE queues'[q] = queues[q] /\ DOMAIN queues' = DOMAIN queues
  BY <1>1 DEF Idle
<1>2. CASE queues'[q] = Append(queues[q], m) /\ DOMAIN queues' = DOMAIN queues
  <2>1. queues[q] \in Seq(MsgRec)
    BY DEF Data, QueueTypes
  <2>2. /\ Len(queues'[q]) = Len(queues[q]) + 1
        /\ \A i \in 1 .. Len(queues[q]) : queues'[q][i] = queues[q][i]
        /\ queues'[q][Len(queues[q]) + 1] = m
    BY <1>2, <2>1
  <2>3. \A i \in 1 .. Len(queues'[q]) : queues'[q][i].type = "idleStart" =>
            i \in 1 .. Len(queues[q]) /\ queues[q][i].type = "idleStart"
    BY <2>1, <2>2
  <2>4. \A i \in 1 .. Len(queues[q]) : i \in 1 .. Len(queues'[q])
    BY <2>1, <2>2
  <2>5. QED
    BY <1>2, <2>2, <2>3, <2>4 DEF Idle
<1>3. QED
  BY <1>1, <1>2 DEF Pushed

\* The input object that is opened has its idle start in the queue, which was empty.
LEMMA IdleQueued ==
    ASSUME Data, NEW c \in Callers, CallerStep(c), NEW o \in Objects, o = Obj(c), At(c, "input"),
           obj[o].msgq \in DOMAIN queues, queues[obj[o].msgq] = <<>>, obj[o].input # "live",
           obj'[o].input = "live"
    PROVE  \A q : q = obj[o].msgq => Idle(q)'
<1> SUFFICES ASSUME NEW q, q = obj[o].msgq PROVE Idle(q)'
  OBVIOUS
<1> DEFINE m == [Msg("idleStart", c) EXCEPT !.sem = Nobody]
<1>1. obj \in [Objects -> ObjRec] /\ call \in [Callers -> CallRec]
  BY DEF Data, ObjTypes, CallInv, CallTypes
<1>2. ~MicFails(c)
  BY <1>1 DEF MicFails, Set, ObjRec
<1>3. OpenInput(c)
  BY <1>2 DEF CallerStep, OpenStep, CloseStep, Create, Free, OpenRefused, OpenBegins, CheckHal,
     OpenHal, HalFails, CountUser, OpenQueue, QueueFails, Launch, LaunchFails, Undo, Launched,
     CloseNot, CloseInput, Terminate, Join, Abandon, Drop, Dropped, Update, UpdateAsks, Get, Reply,
     Poll, Doing, Closing, At, Answered
<1>4. m.type = "idleStart"
  BY <1>1, MsgIs
<1>5. Push(q, m)
  <2>1. obj'[o].input # "live" \/ Push(q, m)
    BY <1>1, <1>3 DEF OpenInput, Set, ObjRec
  <2>2. QED
    BY <2>1
<1>6. queues' = With(q, Append(queues[q], m))
  BY <1>5, BoundsAssumption DEF Push, IsOpen
<1>7. queues'[q] = Append(<<>>, m)
  BY <1>6 DEF With
<1>8. Len(queues'[q]) = 1 /\ queues'[q][1] = m
  BY <1>7
<1> HIDE DEF m
<1>9. QED
  BY <1>4, <1>8 DEF Idle

\* What a step of c does to the idle starts of its object, the only one.
LEMMA OwnVoice ==
    ASSUME OneObject, LifeInv, VoiceInv, NEW c \in Callers, CallerStep(c), Does(c),
           NEW x \in Objects, x = Obj(c)
    PROVE  /\ obj'[x].input = "live" =>
                 /\ Open(x)' \/ Phase(x)' \in {"launch", "waitLaunch", "waitUndo"}
                 /\ \A q : q = obj'[x].msgq => voiceQ = q \/ Idle(q)'
           /\ \A q \in DOMAIN queues' : Idle(q)' => obj'[x].msgq = q /\ obj'[x].input = "live"
           /\ Phase(x)' = "input" => queues'[obj'[x].msgq] = <<>>
<1> DEFINE p == obj[x]
           r == obj'[x]
           pc == call[c].pc
           nx == call'[c].pc
<1> USE DEF LifeInv, BaseInv
<1>1. /\ pc \in PCs /\ nx \in PCs /\ CallShape(call[c])
      /\ Phase(x) = IF pc \in Inside THEN pc ELSE "none"
      /\ Phase(x)' = IF nx \in Inside THEN nx ELSE "none"
  BY OwnPhase
<1>2. Shape(x) /\ (pc = "free" => ~p.opened)
  BY DEF ShapeInv, FreeInv
<1>3. p.input = "live" =>
        /\ (p.opened /\ Phase(x) # "drop") \/ Phase(x) \in {"launch", "waitLaunch", "waitUndo"}
        /\ p.msgq \in DOMAIN queues
        /\ voiceQ = p.msgq \/ Idle(p.msgq)
  <2>1. p.input = "live" => Open(x) \/ Building(x)
    BY DEF VoiceInv, Building
  <2>2. QED
    BY <1>2, <2>1 DEF VoiceInv, Shape, Open
<1>4. \A q \in DOMAIN queues : Idle(q) => p.msgq = q /\ p.input = "live"
  BY DEF VoiceInv, OneObject
<1>5. Phase(x) = "input" => queues[p.msgq] = <<>> /\ p.msgq \in DOMAIN queues
  BY <1>2 DEF VoiceInv, Shape, Building
<1>6. (Open(x)' <=> (r.opened /\ Phase(x)' # "drop"))
  BY DEF Open
<1> DEFINE Kept == r.input = "live" =>
              (r.opened /\ Phase(x)' # "drop") \/ Phase(x)' \in {"launch", "waitLaunch", "waitUndo"}
           Told == r.input = "live" => \A q : q = r.msgq => voiceQ = q \/ Idle(q)'
           Fits == \A q \in DOMAIN queues' : Idle(q)' => r.msgq = q /\ r.input = "live"
           Bare == Phase(x)' = "input" => queues'[r.msgq] = <<>>
\* The queues as they were.
<1>7. ASSUME UNCHANGED queues, r.input = p.input, r.msgq = p.msgq
      PROVE  Told /\ Fits
  <2>1. \A q : Idle(q)' <=> Idle(q)
    BY <1>7 DEF Idle
  <2>2. QED
    BY <1>3, <1>4, <1>7, <2>1
\* Another message than an idle start, perhaps.
<1>8. ASSUME r.input = p.input, r.msgq = p.msgq,
             \E m \in MsgRec : m.type # "idleStart" /\ Pushed(p.msgq, m)
      PROVE  Told /\ Fits
  <2>1. \A q \in DOMAIN queues : DOMAIN queues' = DOMAIN queues /\ (Idle(q)' <=> Idle(q))
    BY <1>8, IdlePush
  <2>2. DOMAIN queues' = DOMAIN queues
    BY <1>8 DEF Pushed
  <2>3. QED
    BY <1>3, <1>4, <1>8, <2>1, <2>2
<1>9. Kept /\ Told /\ Fits /\ Bare
  <2> HIDE DEF pc, nx
  <2>1. CASE DoesIdle(c)
    <3>1. UNCHANGED <<obj, queues>> /\ nx # "input"
      BY <2>1 DEF DoesIdle, Went, Left, nx
    <3>2. Told /\ Fits
      BY <1>7, <3>1
    <3>3. Bare
      BY <1>1, <3>1
    <3>4. Kept
      <4>1. CASE pc = "enter"
        BY <1>1, <1>3, <2>1, <3>1, <4>1 DEF DoesIdle, At, Went, Left, Inside, pc, nx
      <4>2. CASE pc # "enter"
        <5>1. pc \in {"hal", "opening", "count", "queue"}
          BY <2>1, <4>2 DEF DoesIdle, At, pc
        <5>2. p.input # "live"
          BY <1>1, <1>2, <1>3, <5>1 DEF Shape, OpenPCs, Inside, PCs
        <5>3. QED
          BY <3>1, <5>2
      <4>3. QED
        BY <4>1, <4>2
    <3>5. QED
      BY <3>2, <3>3, <3>4
  <2>2. CASE DoesMake(c)
    <3>1. /\ UNCHANGED queues /\ r.input = "null" /\ nx = "out" /\ pc \in {"enter", "free"}
          /\ pc = "enter" => call[c].op = "create"
      BY <2>2 DEF DoesMake, At, Left, pc, nx
    <3>2. pc = "enter" => ~p.made
      BY <3>1, <1>1 DEF Data, CallInv, AloneInv, pc
    <3>3. p.input # "live"
      BY <1>1, <1>2, <1>3, <3>1, <3>2 DEF Shape, Inside
    <3>4. \A q : Idle(q)' <=> Idle(q)
      BY <3>1 DEF Idle
    <3>5. QED
      BY <1>1, <1>4, <3>1, <3>3, <3>4 DEF Inside
  <2>3. CASE DoesQueue(c)
    <3>1. p.input # "live" /\ r.input = p.input
      BY <1>1, <1>2, <1>3, <2>3 DEF DoesQueue, Shape, At, Inside, OpenPCs, pc, PCs
    <3>2. PICK n \in (1 .. QIds) \ DOMAIN queues :
              /\ r.msgq = n
              /\ DOMAIN queues' = DOMAIN queues \cup {n} /\ queues'[n] = <<>>
              /\ \A q \in DOMAIN queues \ {n} : queues'[q] = queues[q]
      BY <2>3 DEF DoesQueue
    <3>3. \A q \in DOMAIN queues : ~Idle(q)'
      BY <1>4, <3>1, <3>2 DEF Idle
    <3>4. ~Idle(n)'
      BY <3>2 DEF Idle
    <3>5. QED
      BY <3>1, <3>2, <3>3, <3>4
  <2>4. CASE DoesInput(c)
    <3>1. /\ Phase(x) = "input" /\ p.input # "live" /\ r.msgq = p.msgq
          /\ queues[p.msgq] = <<>> /\ p.msgq \in DOMAIN queues
      BY <1>1, <1>2, <1>3, <1>5, <2>4 DEF DoesInput, Shape, At, Inside, OpenPCs, KeepsThread, pc,
         PCs
    <3>2. \A q \in DOMAIN queues : ~Idle(q)
      BY <1>4, <3>1
    <3>3. /\ Phase(x)' # "input"
          /\ r.input = "live" => Phase(x)' = "launch"
      BY <1>1, <2>4, <3>1 DEF DoesInput, Went, Inside, nx, PCs
    <3>4. CASE r.input = "live"
      <4>1. \A q : q = p.msgq => Idle(q)'
        BY <2>4, <3>1, <3>4, IdleQueued DEF DoesInput
      <4>2. \E m : Pushed(p.msgq, m)
        BY <2>4, <3>1, <3>4 DEF DoesInput
      <4>3. DOMAIN queues' = DOMAIN queues
            /\ \A q \in DOMAIN queues \ {p.msgq} : queues'[q] = queues[q]
        BY <4>2 DEF Pushed
      <4>4. \A q \in DOMAIN queues' : Idle(q)' => q = p.msgq
        BY <3>2, <4>3 DEF Idle
      <4>5. QED
        BY <3>1, <3>3, <3>4, <4>1, <4>4
    <3>5. CASE r.input # "live"
      <4>1. UNCHANGED queues
        BY <2>4, <3>5 DEF DoesInput
      <4>2. \A q \in DOMAIN queues' : ~Idle(q)'
        BY <3>2, <4>1 DEF Idle
      <4>3. QED
        BY <3>3, <3>5, <4>2
    <3>6. QED
      BY <3>4, <3>5
  <2>5. CASE DoesLaunch(c)
    <3>1. UNCHANGED queues /\ r.input = p.input /\ r.msgq = p.msgq /\ Phase(x)' = "waitLaunch"
      BY <1>1, <2>5 DEF DoesLaunch, Went, Inside, nx, PCs, Waits
    <3>2. QED
      BY <1>7, <3>1
  <2>6. CASE DoesAsk(c)
    <3>1. UNCHANGED obj /\ \E m \in MsgRec : m.type # "idleStart" /\ Pushed(p.msgq, m)
      BY <2>6 DEF DoesAsk, Asking
    <3>2. Phase(x)' \in {"waitUndo", "waitInput", "waitTerm", "wait"}
      BY <1>1, <2>6 DEF DoesAsk, Went, Inside, nx, PCs, Waits
    <3>3. Kept
      BY <1>1, <1>2, <1>3, <2>6, <3>1, <3>2 DEF DoesAsk, Shape, At, Went, Inside, OpenPCs, pc, nx,
         PCs, Waits
    <3>4. QED
      BY <1>8, <3>1, <3>2, <3>3
  <2>7. CASE DoesRelease(c)
    <3>1. /\ r.input = "null" /\ Phase(x)' = "drop"
          /\ DOMAIN queues' = DOMAIN queues \ {p.msgq}
          /\ \A q \in DOMAIN queues' : queues'[q] = queues[q]
      BY <1>1, <2>7 DEF DoesRelease, Went, Inside, nx, PCs
    <3>2. \A q \in DOMAIN queues' : ~Idle(q)'
      BY <1>4, <3>1 DEF Idle
    <3>3. QED
      BY <3>1, <3>2
  <2>8. CASE DoesPoll(c)
    <3>1. /\ UNCHANGED obj /\ Phase(x) = "none" /\ Phase(x)' = "none"
          /\ UNCHANGED queues \/ \E m \in MsgRec : m.type # "idleStart" /\ Pushed(p.msgq, m)
      BY <1>1, <2>8 DEF DoesPoll, At, Left, Inside, pc, nx
    <3>2. QED
      BY <1>3, <1>7, <1>8, <3>1
  <2>9. CASE DoesOpen(c)
    <3>1. /\ UNCHANGED queues /\ r.input = p.input /\ r.msgq = p.msgq /\ Phase(x)' = "none"
          /\ r.opened
      BY <1>1, <2>9 DEF DoesOpen, Left, Inside, KeepsThread, nx
    <3>2. QED
      BY <1>7, <3>1
  <2>10. CASE DoesReply(c)
    <3>1. UNCHANGED <<obj, queues>> /\ Phase(x) = "wait" /\ Phase(x)' = "none"
      BY <1>1, <2>10 DEF DoesReply, At, Left, Inside, pc, nx, PCs, Waits
    <3>2. QED
      BY <1>3, <1>7, <3>1
  <2>11. CASE DoesDrop(c)
    <3>1. /\ UNCHANGED queues /\ r.input = p.input /\ r.msgq = p.msgq
          /\ Phase(x) = "drop" /\ Phase(x)' = "none"
      BY <1>1, <2>11 DEF DoesDrop, KeepsThread, At, Went, Left, Inside, pc, nx, PCs
    <3>2. QED
      BY <1>3, <1>7, <3>1
  <2>12. QED
    BY <2>1, <2>2, <2>3, <2>4, <2>5, <2>6, <2>7, <2>8, <2>9, <2>10, <2>11 DEF Does
<1>10. QED
  BY <1>6, <1>9

\* A step of a call keeps the voice session with the object's queue.
LEMMA CallerVoice ==
    ASSUME OneObject, LifeInv, VoiceInv, NEW c \in Callers, CallerStep(c), Does(c)
    PROVE  VoiceInv'
<1> USE DEF LifeInv, BaseInv
<1>1. PICK x \in Objects : x = Obj(c)
  BY PhaseMoves DEF Data, Does
<1>2. \A o \in Objects : o = x
  BY DEF OneObject
<1>3. UNCHANGED voiceQ
  BY DEF Does, DoesIdle, DoesMake, DoesQueue, DoesInput, DoesLaunch, DoesAsk, DoesRelease, DoesPoll,
     DoesOpen, DoesReply, DoesDrop
<1>4. /\ obj'[x].input = "live" =>
            /\ Open(x)' \/ Phase(x)' \in {"launch", "waitLaunch", "waitUndo"}
            /\ \A q : q = obj'[x].msgq => voiceQ = q \/ Idle(q)'
      /\ \A q \in DOMAIN queues' : Idle(q)' => obj'[x].msgq = q /\ obj'[x].input = "live"
      /\ Phase(x)' = "input" => queues'[obj'[x].msgq] = <<>>
  BY <1>1, OwnVoice
<1>5. obj'[x].input = "live" => (voiceQ = obj[x].msgq \/ Idle(obj[x].msgq))'
  BY <1>3, <1>4 DEF Idle
<1>6. QED
  BY <1>2, <1>4, <1>5 DEF VoiceInv

\* A step of a main thread keeps it: the thread that takes the idle start renews the session.
LEMMA ThreadVoice ==
    ASSUME OneObject, LifeInv, VoiceInv, NEW t \in DOMAIN thr, ThreadDoes(t)
    PROVE  VoiceInv'
<1> USE DEF LifeInv, BaseInv
<1>1. UNCHANGED <<call, mutex, obj>>
  BY DEF ThreadDoes
<1>2. \A o \in Objects : Phase(o)' = Phase(o) /\ (Open(o)' <=> Open(o))
  BY <1>1 DEF Phase, Open
<1>3. \A o \in Objects : obj[o].input = "live" \/ Phase(o) = "input" =>
          obj[o].msgq # 0 /\ obj[o].msgq \in DOMAIN queues
  BY DEF VoiceInv, ShapeInv, Shape, Building
<1>4. CASE UNCHANGED queues /\ (voiceQ # 0 => voiceQ' = voiceQ)
  <2>1. \A q : Idle(q)' <=> Idle(q)
    BY <1>4 DEF Idle
  <2>2. \A o \in Objects : obj[o].input = "live" => voiceQ' = obj[o].msgq \/ Idle(obj[o].msgq)
    BY <1>3, <1>4 DEF VoiceInv
  <2>3. \A o \in Objects : \A q : q = obj[o].msgq /\ obj[o].input = "live" =>
            voiceQ' = q \/ Idle(q)'
    BY <2>1, <2>2
  <2>4. \A o \in Objects : obj'[o].input = "live" => (voiceQ = obj[o].msgq \/ Idle(obj[o].msgq))'
    BY <1>1, <2>3 DEF Idle
  <2>5. QED
    BY <1>1, <1>2, <1>4, <2>1, <2>4 DEF VoiceInv
<1>5. CASE DoesTake(t)
  <2> DEFINE k == thr[t].q
             m == queues[k][1]
  <2>1. /\ k \in DOMAIN queues /\ Len(queues[k]) \in Nat /\ Len(queues[k]) > 0 /\ Popped(k)
        /\ queues[k] \in Seq(MsgRec)
    BY <1>5, TakeWakes DEF Data, QueueTypes
  <2>2. \/ m.type = "idleStart" /\ voiceQ' = k
        \/ m.type # "idleStart" /\ UNCHANGED voiceQ
    BY <1>5 DEF DoesTake
  <2> HIDE DEF k, m
  <2>3. /\ \A i \in 1 .. Len(queues'[k]) :
              i + 1 \in 1 .. Len(queues[k]) /\ queues'[k][i] = queues[k][i + 1]
        /\ \A i \in 1 .. Len(queues[k]) : i # 1 =>
              i - 1 \in 1 .. Len(queues'[k]) /\ queues'[k][i - 1] = queues[k][i]
    BY <2>1 DEF Popped
  <2>4. \A q \in DOMAIN queues' : Idle(q)' => Idle(q)
    <3>1. \A q \in DOMAIN queues' \ {k} : Idle(q)' => Idle(q)
      BY <2>1 DEF Popped, Idle
    <3>2. ASSUME \E i \in 1 .. Len(queues'[k]) : queues'[k][i].type = "idleStart" PROVE Idle(k)
      BY <2>3, <3>2 DEF Idle
    <3>3. \A q : q = k /\ Idle(q)' => Idle(q)
      BY <3>2 DEF Idle
    <3>4. QED
      BY <3>1, <3>3
  <2>5. \A q \in DOMAIN queues : Idle(q) => Idle(q)' \/ (q = k /\ m.type = "idleStart")
    <3>1. \A q \in DOMAIN queues \ {k} : Idle(q) => Idle(q)'
      BY <2>1 DEF Popped, Idle
    <3>2. ASSUME NEW i \in 1 .. Len(queues[k]), queues[k][i].type = "idleStart",
                 m.type # "idleStart"
          PROVE  \E j \in 1 .. Len(queues'[k]) : queues'[k][j].type = "idleStart"
      <4>1. i # 1
        BY <3>2 DEF m
      <4>2. QED
        BY <2>3, <3>2, <4>1
    <3>3. \A q : q = k /\ Idle(q) => (Idle(q)' \/ m.type = "idleStart")
      BY <3>2 DEF Idle
    <3>4. QED
      BY <3>1, <3>3
  <2>6. m.type = "idleStart" => Idle(k)
    BY <2>1 DEF Idle, m
  <2>7. \A o \in Objects : \A q : q = obj[o].msgq /\ obj[o].input = "live" =>
            voiceQ' = q \/ Idle(q)'
    <3>1. ASSUME NEW o \in Objects, NEW q, q = obj[o].msgq, obj[o].input = "live"
          PROVE  voiceQ' = q \/ Idle(q)'
      <4>1. q \in DOMAIN queues /\ (voiceQ = q \/ Idle(q))
        BY <1>3, <3>1 DEF VoiceInv
      <4>2. CASE m.type = "idleStart"
        BY <2>1, <2>2, <2>6, <3>1, <4>2 DEF VoiceInv, OneObject
      <4>3. CASE m.type # "idleStart"
        BY <2>2, <2>5, <4>1, <4>3
      <4>4. QED
        BY <4>2, <4>3
    <3>2. QED
      BY <3>1
  <2>8. \A o \in Objects : obj'[o].input = "live" => (voiceQ = obj[o].msgq \/ Idle(obj[o].msgq))'
    BY <1>1, <2>7 DEF Idle
  <2>9. \A o \in Objects : Phase(o) = "input" => queues'[obj[o].msgq] = <<>>
    BY <1>3, <2>1 DEF VoiceInv, Popped
  <2>10. \A q \in DOMAIN queues' : Idle(q)' =>
             \E o \in Objects : obj'[o].msgq = q /\ obj'[o].input = "live"
    BY <1>1, <2>1, <2>4 DEF VoiceInv, Popped
  <2>11. QED
    BY <1>1, <1>2, <2>8, <2>9, <2>10 DEF VoiceInv
<1>6. QED
  BY <1>4, <1>5 DEF ThreadDoes, DoesStart, DoesTurn

\* The voice session's queue is inductive, with one object.
LEMMA VoiceStep ==
    ASSUME OneObject, LifeInv, VoiceInv, Step \/ UNCHANGED vars PROVE VoiceInv'
<1>1. ASSUME UNCHANGED <<obj, queues, voiceQ>>, \A o \in Objects : Phase(o)' = Phase(o)
      PROVE  VoiceInv'
  BY <1>1 DEF VoiceInv, Open, Idle
<1>2. ASSUME NEW c \in Callers, Begun(c) PROVE VoiceInv'
  BY <1>1, <1>2, QuietPhase DEF Begun, LifeInv, BaseInv
<1>3. CASE UNCHANGED vars
  BY <1>1, <1>3 DEF vars, Phase
<1>4. QED
  BY <1>2, <1>3, CallerVoice, ThreadVoice DEF Step

\* In a process with one object the messages of the HAL's voice session go to the object's
\* queue once its idle start is handled: an idle start is queued by every open of an input
\* object, in a queue that is empty then, and the thread that takes it, an abandoned one on a
\* descriptor given out again included, renews g_voice_session.msgq. With a second object the
\* session may stay with a queue that its close has destroyed.
THEOREM LifeVoice == ASSUME OneObject PROVE Spec => []VoiceFollows
<1> DEFINE Inv == LifeInv /\ VoiceInv
<1>1. Init => Inv
  <2>1. ASSUME Init PROVE VoiceInv
    BY <2>1 DEF Init, NoObj, NewObj, VoiceInv, Idle, Phase
  <2>2. QED
    BY <2>1, LifeInit
<1>2. Inv /\ [Next]_vars => Inv'
  BY LifeStep, VoiceStep
<1>3. Inv => VoiceFollows
  <2>1. ASSUME LifeInv, VoiceInv, NEW o \in Objects, obj[o].opened, ~Leaving(o),
               obj[o].input = "live",
               \A i \in DOMAIN queues[obj[o].msgq] : queues[obj[o].msgq][i].type # "idleStart"
        PROVE  IsOpen(voiceQ) /\ \E p \in Objects : obj[p].opened /\ obj[p].msgq = voiceQ
    <3>1. obj[o].msgq # 0 /\ obj[o].msgq \in DOMAIN queues
      BY <2>1 DEF LifeInv, VoiceInv, ShapeInv, Shape, Building
    <3>2. DOMAIN queues[obj[o].msgq] = 1 .. Len(queues[obj[o].msgq])
      BY <2>1, <3>1 DEF LifeInv, BaseInv, Data, QueueTypes
    <3>3. voiceQ = obj[o].msgq
      BY <2>1, <3>2 DEF VoiceInv, Idle
    <3>4. QED
      BY <2>1, <3>1, <3>3 DEF IsOpen
  <2>2. QED
    BY <2>1 DEF VoiceFollows
<1>4. QED
  BY <1>1, <1>2, <1>3, PTL DEF Spec
=============================================================================
