----------------------- MODULE XraudioResourceProofs -----------------------
(***************************************************************************)
(* Proofs about XraudioResource for every number of processes, users,      *)
(* entries and devices: its variables keep their types; however the        *)
(* sections of two handlers interleave and wherever in a handler processes *)
(* die, no two entries share a device and none is lost, but by a death     *)
(* between a mark and its id in a free or in a grant.  Of a system whose   *)
(* clients wait for each other: the list is sound, events are handled one  *)
(* at a time, clients have what they were told of, and the dead leave      *)
(* nothing behind.                                                         *)
(***************************************************************************)
EXTENDS XraudioResource, TLAPS, FiniteSetTheorems, SequenceTheorems,
        WellFoundedInduction

-----------------------------------------------------------------------------
(* What a thread has still to do.                                          *)

\* The sections left of a handler that use the entry of the request.
EntryShapes == {
    <<"fill", "add", "update">>, <<"add", "update">>,
    <<"scrub", "remove", "fill", "add", "update">>,
    <<"remove", "fill", "add", "update">>,
    <<"scrub", "remove", "free", "update">>, <<"remove", "free", "update">>,
    <<"free", "update">>, <<"grant", "set">>, <<"set">>}
PlainShapes == {
    <<>>, <<"scrub", "alloc", "fill", "add", "update">>,
    <<"alloc", "fill", "add", "update">>, <<"scrub", "update">>, <<"update">>,
    <<"callback">>, <<"stuck">>}
Shapes  == EntryShapes \cup PlainShapes
OnEntry == {"fill", "add", "remove", "free", "grant", "set"}

\* What follows a section: the rest is of a known shape, and only the search for
\* an entry leads from sections that need none to sections that do.
Proper(t) ==
    /\ t \in Seq(Sections)
    /\ t # <<>> =>
         /\ Head(t) \in Sections
         /\ Tail(t) \in Shapes
         /\ Tail(t) \in EntryShapes => t \in EntryShapes \/ Head(t) = "alloc"
         /\ Head(t) \in OnEntry => t \in EntryShapes
         /\ Head(t) = "free" => Tail(t) \notin EntryShapes

\* Every shape a handler can have left is proper.
LEMMA ShapeFacts == \A t \in Shapes : Proper(t)
<1>1. /\ Proper(<<"fill", "add", "update">>)
      /\ Proper(<<"add", "update">>)
      /\ Proper(<<"scrub", "remove", "fill", "add", "update">>)
  BY DEF Proper, Shapes, EntryShapes, PlainShapes, OnEntry, Sections
<1>2. /\ Proper(<<"remove", "fill", "add", "update">>)
      /\ Proper(<<"scrub", "remove", "free", "update">>)
      /\ Proper(<<"remove", "free", "update">>)
  BY DEF Proper, Shapes, EntryShapes, PlainShapes, OnEntry, Sections
<1>3. /\ Proper(<<"free", "update">>)
      /\ Proper(<<"grant", "set">>)
      /\ Proper(<<"set">>)
      /\ Proper(<<>>)
  BY DEF Proper, Shapes, EntryShapes, PlainShapes, OnEntry, Sections
<1>4. /\ Proper(<<"scrub", "alloc", "fill", "add", "update">>)
      /\ Proper(<<"alloc", "fill", "add", "update">>)
      /\ Proper(<<"scrub", "update">>)
  BY DEF Proper, Shapes, EntryShapes, PlainShapes, OnEntry, Sections
<1>5. /\ Proper(<<"update">>)
      /\ Proper(<<"callback">>)
      /\ Proper(<<"stuck">>)
  BY DEF Proper, Shapes, EntryShapes, PlainShapes, OnEntry, Sections
<1>6. QED
  BY <1>1, <1>2, <1>3, <1>4, <1>5, Zenon DEF Shapes, EntryShapes, PlainShapes

-----------------------------------------------------------------------------
(* The inductive invariant.                                                *)

ThreadShape == [on : BOOLEAN, todo : Shapes, also : BOOLEAN,
                entry : Slots \cup {Nil}, timer : BOOLEAN, running : BOOLEAN,
                fds : BOOLEAN, uid : UserIds \cup {NoUid}]
\* Every thread has a known rest of a handler, and the entry that rest uses.
ThreadsOK ==
    /\ thr \in [Users -> ThreadShape]
    /\ \A u \in Users : thr[u].todo \in EntryShapes => thr[u].entry \in Slots

MemoryOK ==
    /\ head \in Slots \cup {Nil} /\ next \in [Slots -> Slots \cup {Nil}]
    /\ slot \in [Slots -> SlotType]
    /\ busyIn \in [InIds -> BOOLEAN] /\ busyOut \in [OutIds -> BOOLEAN]

\* A loop belongs to the thread that has the lock, which is in the section of
\* that loop; the search of an insertion is always at an entry.
LoopOK ==
    /\ lock \in Users \cup {None} /\ scan \in ScanType
    /\ lock = None => scan.job = "none"
    /\ scan.job # "none" => /\ thr[lock].todo # <<>>
                            /\ Head(thr[lock].todo) \in {"scrub", "add", "update"}
    /\ scan.job = "add" => scan.at \in Slots

InputsOK ==
    /\ mq \in [Users -> Seq(FromClient \cup Events)]
    /\ fifo \in [Users -> Seq(Events)]
ClientsOK ==
    /\ obj \in [Users -> ObjectType]
    /\ call \in [Users -> {"out", "client", "callback"}]
    /\ told \in [Users -> {"none", "granted", "revoked"}]
    /\ req \in [Users -> Requests]
WorldOK ==
    /\ ids \in [UserIds -> Users \cup {None}]
    /\ alive \subseteq Procs /\ deaths \in Nat

\* What the marks of the devices and the ids of the entries have to do with each
\* other depends on where the processes die.  A step that allocates or frees works
\* on an entry: that the scan of a loop and the entry of a section are one is what
\* the other parts are for.
MarksOK ==
    /\ "unmarked" \notin Deaths => NoDeviceShared
    /\ "marked" \notin Deaths => NoDeviceLost
TypesInv == MemoryOK /\ ThreadsOK /\ LoopOK /\ InputsOK /\ ClientsOK /\ WorldOK
ResourceInv == TypesInv /\ MarksOK

\* The invariant implies the types of XraudioResource.
LEMMA InvGivesTypes == TypesInv => TypeOK
BY ShapeFacts DEF TypesInv, MemoryOK, ThreadsOK, LoopOK, InputsOK, ClientsOK, WorldOK,
   TypeOK, ThreadShape, ThreadType, Proper

\* At the start the memory is empty and no thread runs.
LEMMA ResourceInit == Init => ResourceInv
<1> SUFFICES ASSUME Init PROVE ResourceInv
  OBVIOUS
<1> USE UsersAssumption, DevicesAssumption, ClientsAssumption DEF Init
<1>1. MemoryOK
  BY DEF MemoryOK, SlotType, EmptySlot, Free, NoUid, Nil, Outs
<1>2. ThreadsOK
  BY DEF ThreadsOK, ThreadShape, NoThread, Shapes, PlainShapes, EntryShapes, NoUid, Nil
<1>3. LoopOK
  BY DEF LoopOK, NoScan, ScanType, Jobs, Nil
<1>4. InputsOK
  BY DEF InputsOK
<1>5. ClientsOK
  BY DEF ClientsOK, ObjectType, NewObject, NoUid
<1>6. WorldOK
  BY DEF WorldOK
<1>7. MarksOK
  BY DEF MarksOK, NoDeviceShared, NoDeviceLost, EmptySlot
<1>8. QED
  BY <1>1, <1>2, <1>3, <1>4, <1>5, <1>6, <1>7 DEF ResourceInv, TypesInv

-----------------------------------------------------------------------------
(* The devices.                                                            *)

\* Nothing that leaves the devices of the entries and their marks alone can
\* disturb them.
LEMMA DevicesKept ==
    ASSUME ResourceInv, UNCHANGED <<busyIn, busyOut>>,
           \A s \in Slots : slot'[s].rec = slot[s].rec /\ slot'[s].play = slot[s].play
    PROVE  MarksOK'
BY DEF ResourceInv, MarksOK, NoDeviceShared, NoDeviceLost

\* An entry that is freed up to the n-th store loses no device: its mark is cleared
\* before its id; with neither or both it shares none.
LEMMA FreedKeeps ==
    ASSUME TypesInv, NEW s \in Slots, NEW n \in 0 .. FreeStores, Freed(s, n)
    PROVE  /\ slot' \in [Slots -> SlotType]
           /\ busyIn' \in [InIds -> BOOLEAN] /\ busyOut' \in [OutIds -> BOOLEAN]
           /\ NoDeviceLost => NoDeviceLost'
           /\ FreeMoment(n) # "unmarked" /\ NoDeviceShared => NoDeviceShared'
<1> USE UsersAssumption, DevicesAssumption DEF TypesInv, MemoryOK
<1> DEFINE old == slot[s]
           e == [prio |-> IF 1 <= n THEN Free ELSE old.prio,
                 owner |-> IF 2 <= n THEN None ELSE old.owner,
                 uid |-> IF 3 <= n THEN NoUid ELSE old.uid,
                 notified |-> IF 4 <= n THEN FALSE ELSE old.notified,
                 in |-> IF 5 <= n THEN FALSE ELSE old.in,
                 out |-> IF 6 <= n THEN "none" ELSE old.out,
                 rec |-> IF 9 <= n THEN None ELSE old.rec,
                 play |-> IF 10 <= n THEN None ELSE old.play]
<1>1. /\ slot' = [slot EXCEPT ![s] = e]
      /\ busyIn' = [d \in InIds |-> busyIn[d] /\ ~(7 <= n /\ d = old.rec)]
      /\ busyOut' = [d \in OutIds |-> busyOut[d] /\ ~(8 <= n /\ d = old.play)]
  BY DEF Freed
<1>2. old \in SlotType
  OBVIOUS
<1>3. e \in SlotType
  <2>1. /\ (IF 1 <= n THEN Free ELSE old.prio) \in 0 .. 3
        /\ (IF 2 <= n THEN None ELSE old.owner) \in Users \cup {None}
        /\ (IF 3 <= n THEN NoUid ELSE old.uid) \in UserIds \cup {NoUid}
    BY <1>2 DEF SlotType, Free
  <2>2. /\ (IF 4 <= n THEN FALSE ELSE old.notified) \in BOOLEAN
        /\ (IF 5 <= n THEN FALSE ELSE old.in) \in BOOLEAN
        /\ (IF 6 <= n THEN "none" ELSE old.out) \in Outs
    BY <1>2 DEF SlotType, Outs
  <2>3. /\ (IF 9 <= n THEN None ELSE old.rec) \in InIds \cup {None}
        /\ (IF 10 <= n THEN None ELSE old.play) \in OutIds \cup {None}
    BY <1>2 DEF SlotType
  <2> QED
    BY <2>1, <2>2, <2>3 DEF SlotType
<1>4. slot' \in [Slots -> SlotType]
  BY <1>1, <1>3
<1>5. /\ busyIn' \in [InIds -> BOOLEAN] /\ busyOut' \in [OutIds -> BOOLEAN]
      /\ \A d \in InIds : busyIn'[d] <=> busyIn[d] /\ ~(7 <= n /\ d = old.rec)
      /\ \A d \in OutIds : busyOut'[d] <=> busyOut[d] /\ ~(8 <= n /\ d = old.play)
  BY <1>1
<1>6. /\ n \in Nat /\ n <= 10
      /\ e.rec = IF 9 <= n THEN None ELSE old.rec
      /\ e.play = IF 10 <= n THEN None ELSE old.play
  BY DEF FreeStores
<1>7. \A t \in Slots : slot'[t] = IF t = s THEN e ELSE slot[t]
  BY <1>1
<1> HIDE DEF e
<1>8. ASSUME NoDeviceLost PROVE NoDeviceLost'
  <2>1. ASSUME NEW d \in InIds, busyIn'[d] PROVE \E t \in Slots : slot'[t].rec = d
    <3>1. busyIn[d] /\ ~(7 <= n /\ d = old.rec)
      BY <1>5, <2>1
    <3>2. PICK t \in Slots : slot[t].rec = d
      BY <1>8, <3>1 DEF NoDeviceLost
    <3>3. slot'[t].rec = d
      BY <1>6, <1>7, <3>1, <3>2
    <3> QED
      BY <3>3
  <2>2. ASSUME NEW d \in OutIds, busyOut'[d] PROVE \E t \in Slots : slot'[t].play = d
    <3>1. busyOut[d] /\ ~(8 <= n /\ d = old.play)
      BY <1>5, <2>2
    <3>2. PICK t \in Slots : slot[t].play = d
      BY <1>8, <3>1 DEF NoDeviceLost
    <3>3. slot'[t].play = d
      BY <1>6, <1>7, <3>1, <3>2
    <3> QED
      BY <3>3
  <2> QED
    BY <2>1, <2>2 DEF NoDeviceLost
<1>9. ASSUME n < 7, NoDeviceShared PROVE NoDeviceShared'
  <2>1. \A t \in Slots : slot'[t].rec = slot[t].rec /\ slot'[t].play = slot[t].play
    BY <1>6, <1>7, <1>9
  <2>2. UNCHANGED <<busyIn, busyOut>>
    BY <1>1, <1>6, <1>9
  <2> QED
    BY <1>9, <2>1, <2>2 DEF NoDeviceShared
<1>10. ASSUME n = FreeStores, NoDeviceShared PROVE NoDeviceShared'
  <2>1. e.rec = None /\ e.play = None
    BY <1>6, <1>10 DEF FreeStores
  <2>2. \A t \in Slots \ {s} :
          /\ slot[t].rec # None => slot[t].rec # old.rec /\ slot[t].rec \in InIds
          /\ slot[t].play # None => slot[t].play # old.play /\ slot[t].play \in OutIds
    BY <1>10 DEF NoDeviceShared, SlotType
  <2>3. \A t \in Slots : /\ slot'[t].rec # None => busyIn'[slot'[t].rec]
                         /\ slot'[t].play # None => busyOut'[slot'[t].play]
    BY <1>5, <1>7, <1>10, <2>1, <2>2 DEF NoDeviceShared
  <2>4. \A r, t \in Slots : r # t =>
          /\ slot'[r].rec # None => slot'[r].rec # slot'[t].rec
          /\ slot'[r].play # None => slot'[r].play # slot'[t].play
    BY <1>7, <1>10, <2>1 DEF NoDeviceShared
  <2> QED
    BY <2>3, <2>4 DEF NoDeviceShared
<1>11. FreeMoment(n) # "unmarked" => n < 7 \/ n = FreeStores
  BY <1>6 DEF FreeMoment, FreeStores
<1> QED
  BY <1>4, <1>5, <1>8, <1>9, <1>10, <1>11

\* An entry that is freed gives back what it held and clears the marks.
LEMMA FreeKeeps ==
    ASSUME ResourceInv, NEW s \in Slots, FreeSlot(s)
    PROVE  /\ slot' \in [Slots -> SlotType]
           /\ busyIn' \in [InIds -> BOOLEAN] /\ busyOut' \in [OutIds -> BOOLEAN]
           /\ MarksOK'
BY FreedKeeps DEF FreeSlot, FreeStores, FreeMoment, ResourceInv, MarksOK

\* All the stores of a free together clear the entry and leave the others alone.
LEMMA FreeWhole ==
    ASSUME slot \in [Slots -> SlotType], NEW s \in Slots, FreeSlot(s)
    PROVE  slot'[s] = EmptySlot /\ \A t \in Slots \ {s} : slot'[t] = slot[t]
BY DEF FreeSlot, FreeStores, Freed, EmptySlot

\* A grant up to the n-th store takes devices that no entry has, for an entry that
\* has none: it shares none, and it loses none when no id is missing for a mark.
LEMMA GrantedKeeps ==
    ASSUME TypesInv, NEW s \in Slots, ~Held(s), NEW n \in 1 .. GrantStores, Granted(s, n)
    PROVE  /\ slot' \in [Slots -> SlotType]
           /\ busyIn' \in [InIds -> BOOLEAN] /\ busyOut' \in [OutIds -> BOOLEAN]
           /\ NoDeviceShared => NoDeviceShared'
           /\ GrantMoment(n) # "marked" /\ NoDeviceLost => NoDeviceLost'
<1> USE UsersAssumption, DevicesAssumption DEF TypesInv, MemoryOK
<1>1. PICK r \in InIds \cup {None}, p \in OutIds \cup {None} :
        /\ IF slot[s].in THEN NewRec(r) ELSE r = None
        /\ IF slot[s].out # "none" THEN NewPlay(p, slot[s].out) ELSE p = None
        /\ slot' = [slot EXCEPT ![s].notified = TRUE,
                                ![s].rec = IF 3 <= n THEN r ELSE @,
                                ![s].play = IF 5 <= n THEN p ELSE @]
        /\ busyIn' = [d \in InIds |-> busyIn[d] \/ (2 <= n /\ d = r)]
        /\ busyOut' = [d \in OutIds |-> busyOut[d] \/ (4 <= n /\ d = p)]
  BY Zenon DEF Granted
<1>2. (r # None => ~busyIn[r]) /\ (p # None => ~busyOut[p])
  BY <1>1 DEF NewRec, NewPlay, Serves
<1>3. slot[s] \in SlotType /\ slot[s].rec = None /\ slot[s].play = None
  BY DEF Held
<1> DEFINE newRec == IF 3 <= n THEN r ELSE None
           newPlay == IF 5 <= n THEN p ELSE None
           e == [slot[s] EXCEPT !.notified = TRUE, !.rec = newRec, !.play = newPlay]
<1>4. slot' = [slot EXCEPT ![s] = e]
  BY <1>1, <1>3
<1>5. e \in SlotType /\ e.rec = newRec /\ e.play = newPlay
  BY <1>3 DEF SlotType
<1>6. \A t \in Slots : /\ slot'[t].rec = IF t = s THEN newRec ELSE slot[t].rec
                       /\ slot'[t].play = IF t = s THEN newPlay ELSE slot[t].play
  BY <1>4, <1>5
<1>7. slot' \in [Slots -> SlotType]
  BY <1>4, <1>5
<1>8. /\ busyIn' \in [InIds -> BOOLEAN] /\ busyOut' \in [OutIds -> BOOLEAN]
      /\ \A d \in InIds : busyIn'[d] <=> busyIn[d] \/ (2 <= n /\ d = r)
      /\ \A d \in OutIds : busyOut'[d] <=> busyOut[d] \/ (4 <= n /\ d = p)
  BY <1>1
<1>9. /\ n \in 1 .. 5
      /\ newRec = (IF 3 <= n THEN r ELSE None) /\ newPlay = (IF 5 <= n THEN p ELSE None)
  BY DEF GrantStores
<1> HIDE DEF e, newRec, newPlay
<1>10. ASSUME NoDeviceShared PROVE NoDeviceShared'
  <2>1. \A t \in Slots : /\ slot[t].rec # None => slot[t].rec \in InIds
                         /\ slot[t].play # None => slot[t].play \in OutIds
    BY DEF SlotType
  <2>2. \A t \in Slots : /\ newRec # None => slot[t].rec # newRec
                         /\ newPlay # None => slot[t].play # newPlay
    BY <1>2, <1>9, <1>10 DEF NoDeviceShared
  <2>3. \A t \in Slots : /\ slot'[t].rec # None => busyIn'[slot'[t].rec]
                         /\ slot'[t].play # None => busyOut'[slot'[t].play]
    <3>1. ASSUME NEW t \in Slots, slot'[t].rec # None PROVE busyIn'[slot'[t].rec]
      <4>1. CASE t = s
        BY <1>1, <1>6, <1>8, <1>9, <3>1, <4>1
      <4>2. CASE t # s
        BY <1>6, <1>8, <1>10, <2>1, <3>1, <4>2 DEF NoDeviceShared
      <4> QED
        BY <4>1, <4>2
    <3>2. ASSUME NEW t \in Slots, slot'[t].play # None PROVE busyOut'[slot'[t].play]
      <4>1. CASE t = s
        BY <1>1, <1>6, <1>8, <1>9, <3>2, <4>1
      <4>2. CASE t # s
        BY <1>6, <1>8, <1>10, <2>1, <3>2, <4>2 DEF NoDeviceShared
      <4> QED
        BY <4>1, <4>2
    <3> QED
      BY <3>1, <3>2
  <2>4. \A q, t \in Slots : q # t =>
          /\ slot'[q].rec # None => slot'[q].rec # slot'[t].rec
          /\ slot'[q].play # None => slot'[q].play # slot'[t].play
    BY <1>6, <1>10, <2>2 DEF NoDeviceShared
  <2> QED
    BY <2>3, <2>4 DEF NoDeviceShared
<1>11. ASSUME GrantMoment(n) # "marked", NoDeviceLost PROVE NoDeviceLost'
  <2>1. (2 <= n => newRec = r) /\ (4 <= n => newPlay = p)
    <3>1. n = 1 \/ n = 3 \/ n = 5
      BY <1>9, <1>11 DEF GrantMoment
    <3>2. CASE n = 1
      BY <3>2
    <3>3. CASE n = 3
      BY <1>9, <3>3
    <3>4. CASE n = 5
      BY <1>9, <3>4
    <3> QED
      BY <3>1, <3>2, <3>3, <3>4
  <2>2. ASSUME NEW d \in InIds, busyIn'[d] PROVE \E t \in Slots : slot'[t].rec = d
    <3>1. CASE busyIn[d]
      <4>1. PICK t \in Slots : slot[t].rec = d
        BY <1>11, <3>1 DEF NoDeviceLost
      <4>2. t # s
        BY <1>3, <4>1
      <4> QED
        BY <1>6, <4>1, <4>2
    <3>2. CASE 2 <= n /\ d = r
      BY <1>6, <2>1, <3>2
    <3> QED
      BY <1>8, <2>2, <3>1, <3>2
  <2>3. ASSUME NEW d \in OutIds, busyOut'[d] PROVE \E t \in Slots : slot'[t].play = d
    <3>1. CASE busyOut[d]
      <4>1. PICK t \in Slots : slot[t].play = d
        BY <1>11, <3>1 DEF NoDeviceLost
      <4>2. t # s
        BY <1>3, <4>1
      <4> QED
        BY <1>6, <4>1, <4>2
    <3>2. CASE 4 <= n /\ d = p
      BY <1>6, <2>1, <3>2
    <3> QED
      BY <1>8, <2>3, <3>1, <3>2
  <2> QED
    BY <2>2, <2>3 DEF NoDeviceLost
<1> QED
  BY <1>7, <1>8, <1>10, <1>11

\* A grant that is stored to the end.
LEMMA AllocateKeeps ==
    ASSUME ResourceInv, NEW s \in Slots, ~Held(s), Allocate(s)
    PROVE  /\ slot' \in [Slots -> SlotType]
           /\ busyIn' \in [InIds -> BOOLEAN] /\ busyOut' \in [OutIds -> BOOLEAN]
           /\ MarksOK'
BY GrantedKeeps DEF Allocate, GrantStores, GrantMoment, ResourceInv, MarksOK

\* All the stores of a grant together give the entry what was found for it.
LEMMA AllocateWhole ==
    ASSUME slot \in [Slots -> SlotType], NEW s \in Slots, Allocate(s)
    PROVE  \E r \in InIds \cup {None}, p \in OutIds \cup {None} :
             /\ IF slot[s].in THEN NewRec(r) ELSE r = None
             /\ IF slot[s].out # "none" THEN NewPlay(p, slot[s].out) ELSE p = None
             /\ slot' = [slot EXCEPT ![s].notified = TRUE, ![s].rec = r, ![s].play = p]
<1>1. Granted(s, 5)
  BY DEF Allocate, GrantStores
<1>2. PICK r \in InIds \cup {None}, p \in OutIds \cup {None} :
        /\ IF slot[s].in THEN NewRec(r) ELSE r = None
        /\ IF slot[s].out # "none" THEN NewPlay(p, slot[s].out) ELSE p = None
        /\ slot' = [slot EXCEPT ![s].notified = TRUE,
                                ![s].rec = IF 3 <= 5 THEN r ELSE @,
                                ![s].play = IF 5 <= 5 THEN p ELSE @]
  BY <1>1, Zenon DEF Granted
<1>3. slot' = [slot EXCEPT ![s].notified = TRUE, ![s].rec = r, ![s].play = p]
  BY <1>2
<1> QED
  BY <1>2, <1>3, Zenon

\* The first user of the shared memory finds it empty.
LEMMA EmptyKeeps == EmptyMemory => MemoryOK' /\ MarksOK'
BY UsersAssumption, DevicesAssumption
   DEF EmptyMemory, MemoryOK, MarksOK, NoDeviceShared, NoDeviceLost, SlotType, EmptySlot,
       Free, NoUid, Nil, Outs

-----------------------------------------------------------------------------
(* Threads and loops.                                                      *)

ThreadPart == MemoryOK /\ ThreadsOK /\ LoopOK /\ MarksOK

\* A step of one thread on its own state: the loop it may be in goes on.
LEMMA OwnThread ==
    ASSUME ResourceInv, NEW u \in Users, NEW t \in ThreadShape,
           thr' = [thr EXCEPT ![u] = t],
           t.todo \in EntryShapes => t.entry \in Slots,
           lock = u => scan.job = "none" \/ t.todo = thr[u].todo,
           UNCHANGED <<memory, lock, scan>>
    PROVE  ThreadPart'
<1> USE UsersAssumption DEF ResourceInv, TypesInv
<1>1. MemoryOK' /\ MarksOK'
  BY DEF memory, MemoryOK, MarksOK, NoDeviceShared, NoDeviceLost
<1>2. \A v \in Users : thr'[v] = IF v = u THEN t ELSE thr[v]
  BY DEF ThreadsOK
<1>3. ThreadsOK'
  BY <1>2 DEF ThreadsOK
<1>4. LoopOK'
  BY <1>2 DEF LoopOK
<1>5. QED
  BY <1>1, <1>3, <1>4 DEF ThreadPart

\* What a thread inside a section knows: the rest of its handler and, in a
\* section on the entry, the entry.
LEMMA InSection ==
    ASSUME ResourceInv, NEW u \in Users, NEW name, In(u, name)
    PROVE  /\ thr[u] \in ThreadShape /\ thr[u].todo # <<>>
           /\ Tail(thr[u].todo) \in Shapes
           /\ name \in OnEntry => thr[u].entry \in Slots
           /\ name # "alloc" /\ Tail(thr[u].todo) \in EntryShapes
                 => thr[u].entry \in Slots
           /\ name = "free" => Tail(thr[u].todo) \notin EntryShapes
           /\ name \notin {"scrub", "add", "update"} /\ lock = u => scan.job = "none"
<1>1. thr[u] \in ThreadShape /\ thr[u].todo # <<>> /\ Head(thr[u].todo) = name
  BY DEF In, Idle, ResourceInv, TypesInv, ThreadsOK
<1>2. thr[u].todo \in Shapes
  BY <1>1 DEF ThreadShape
<1>3. Proper(thr[u].todo)
  BY <1>2, ShapeFacts
<1>4. QED
  BY <1>1, <1>3 DEF Proper, ResourceInv, TypesInv, ThreadsOK, LoopOK

\* A section that is done leaves the rest, under the lock or not.
LEMMA DoneKeeps ==
    ASSUME ResourceInv, NEW u \in Users, thr[u].todo # <<>>,
           Head(thr[u].todo) # "alloc", Done(u)
    PROVE  ThreadsOK'
<1> DEFINE t == [thr[u] EXCEPT !.todo = Tail(thr[u].todo)]
<1> USE DEF ResourceInv, TypesInv
<1>1. thr[u] \in ThreadShape /\ thr[u].todo \in Shapes
  BY DEF ThreadsOK, ThreadShape
<1>2. Proper(thr[u].todo)
  BY <1>1, ShapeFacts
<1>3. t \in ThreadShape /\ t.todo = Tail(thr[u].todo) /\ t.entry = thr[u].entry
  BY <1>1, <1>2 DEF Proper, ThreadShape
<1>4. t.todo \in EntryShapes => t.entry \in Slots
  BY <1>2, <1>3 DEF Proper, ThreadsOK
<1>5. thr' = [thr EXCEPT ![u] = t]
  BY DEF Done
<1>6. QED
  BY <1>3, <1>4, <1>5 DEF ThreadsOK

\* A loop that ends leaves the lock.
LEMMA UnlockKeeps == Unlock => LoopOK'
BY DEF Unlock, LoopOK, NoScan, ScanType, Jobs, Nil

\* The thread of a loop is in the section of the loop.
LEMMA InLoop ==
    ASSUME ResourceInv, NEW u \in Users, NEW job, job # "none", Scanning(u, job)
    PROVE  /\ thr[u].todo # <<>> /\ Head(thr[u].todo) # "alloc"
           /\ Head(thr[u].todo) \in {"scrub", "add", "update"}
           /\ scan.at \in Slots \cup {Nil}
           /\ job = "add" => scan.at \in Slots
BY DEF ResourceInv, TypesInv, LoopOK, Scanning, ScanType

\* A loop that goes on to another entry stays with its thread.
LEMMA LoopGoesOn ==
    ASSUME ResourceInv, scan.job # "none", UNCHANGED <<lock, thr>>,
           scan' \in ScanType, scan'.job = "add" => scan'.at \in Slots
    PROVE  LoopOK' /\ ThreadsOK'
BY DEF ResourceInv, TypesInv, LoopOK, ThreadsOK

\* Removing an entry leaves the list within the entries.
LEMMA UnlinkKeeps ==
    ASSUME ResourceInv, NEW s \in Slots, Unlink(s)
    PROVE  head' \in Slots \cup {Nil} /\ next' \in [Slots -> Slots \cup {Nil}]
BY DEF ResourceInv, TypesInv, MemoryOK, Unlink

\* An entry that is filled, to the end or not, keeps its devices.
LEMMA FilledKeeps ==
    ASSUME TypesInv, NEW u \in Users, thr[u].entry \in Slots, NEW n \in Nat, Filled(u, n)
    PROVE  /\ slot' \in [Slots -> SlotType]
           /\ \A x \in Slots : slot'[x].rec = slot[x].rec /\ slot'[x].play = slot[x].play
<1> USE UsersAssumption, ClientsAssumption DEF TypesInv
<1> DEFINE old == slot[thr[u].entry]
           prio == IF 1 <= n THEN req[u].prio ELSE old.prio
           owner == IF 2 <= n THEN u ELSE old.owner
           uid == IF 3 <= n THEN thr[u].uid ELSE old.uid
           in == IF 4 <= n THEN req[u].in ELSE old.in
           out == IF 5 <= n THEN req[u].out ELSE old.out
           e == [old EXCEPT !.prio = prio, !.owner = owner, !.uid = uid, !.in = in,
                            !.out = out]
<1>1. old \in SlotType
  BY DEF MemoryOK
<1>2. slot' = [slot EXCEPT ![thr[u].entry] = e]
  BY DEF Filled, MemoryOK
<1>3. req[u] \in [in : BOOLEAN, out : Outs, prio : 0 .. 2]
  BY DEF ClientsOK, AllRequests
<1>4. /\ req[u].prio \in 0 .. 3 /\ req[u].in \in BOOLEAN /\ req[u].out \in Outs
      /\ thr[u].uid \in UserIds \cup {NoUid}
  BY <1>3 DEF ThreadsOK, ThreadShape
<1>5. /\ prio \in 0 .. 3 /\ owner \in Users \cup {None} /\ uid \in UserIds \cup {NoUid}
      /\ in \in BOOLEAN /\ out \in Outs
  BY <1>1, <1>4 DEF SlotType
<1> HIDE DEF prio, owner, uid, in, out
<1>6. e \in SlotType /\ e.rec = old.rec /\ e.play = old.play
  BY <1>1, <1>5 DEF SlotType
<1> QED
  BY <1>2, <1>6 DEF MemoryOK

\* An entry that is half inserted or half removed is in the types of the list.
LEMMA UnlinkingKeeps ==
    ASSUME TypesInv, NEW s \in Slots, Unlinking(s)
    PROVE  head' \in Slots \cup {Nil} /\ next' \in [Slots -> Slots \cup {Nil}]
BY DEF TypesInv, MemoryOK, Unlinking

\* What a thread leaves half stored keeps its types, and the devices as far as the
\* place where it stops allows.
LEMMA StoresLeftKeeps ==
    ASSUME ResourceInv, NEW u \in Users, StoresLeft(u)
    PROVE  MemoryOK' /\ MarksOK'
<1> USE DEF ResourceInv, TypesInv
<1>1. ASSUME NEW n \in 0 .. FreeStores, FreeMoment(n) \in Deaths, NEW s \in Slots, Freed(s, n),
             head' \in Slots \cup {Nil} /\ next' \in [Slots -> Slots \cup {Nil}]
      PROVE  MemoryOK' /\ MarksOK'
  BY <1>1, FreedKeeps DEF MemoryOK, MarksOK
<1>2. ASSUME NEW n \in 0 .. FreeStores - 1,
             Scanning(u, "scrub"), scan.at # Nil, Unlink(scan.at), Freed(scan.at, n),
             FreeMoment(n) \in Deaths
      PROVE  MemoryOK' /\ MarksOK'
  <2>1. scan.at \in Slots
    BY <1>2 DEF LoopOK, ScanType
  <2>2. n \in 0 .. FreeStores
    BY <1>2 DEF FreeStores
  <2> QED
    BY <1>1, <1>2, <2>1, <2>2, UnlinkKeeps
<1>3. ASSUME NEW n \in 0 .. FreeStores - 1,
             CanLock(u, "free"), Freed(thr[u].entry, n), UNCHANGED <<head, next>>,
             FreeMoment(n) \in Deaths
      PROVE  MemoryOK' /\ MarksOK'
  <2>1. thr[u].entry \in Slots
    BY <1>3, InSection DEF CanLock, OnEntry
  <2>2. n \in 0 .. FreeStores
    BY <1>3 DEF FreeStores
  <2>3. head' \in Slots \cup {Nil} /\ next' \in [Slots -> Slots \cup {Nil}]
    BY <1>3 DEF MemoryOK
  <2> QED
    BY <1>1, <1>3, <2>1, <2>2, <2>3
<1>4. ASSUME NEW n \in 1 .. GrantStores, GrantMoment(n) \in Deaths,
             Scanning(u, "grant"), scan.at # Nil, Grants(scan.at), Granted(scan.at, n),
             UNCHANGED <<head, next>>
      PROVE  MemoryOK' /\ MarksOK'
  <2>1. scan.at \in Slots /\ ~Held(scan.at)
    BY <1>4 DEF LoopOK, ScanType, Grants
  <2> QED
    BY <1>4, <2>1, GrantedKeeps DEF MemoryOK, MarksOK
<1>5. ASSUME Scanning(u, "revoke"), scan.at # Nil,
             slot' = [slot EXCEPT ![scan.at].notified = TRUE],
             UNCHANGED <<head, next, busyIn, busyOut>>
      PROVE  MemoryOK' /\ MarksOK'
  <2> DEFINE e == [slot[scan.at] EXCEPT !.notified = TRUE]
  <2>1. scan.at \in Slots
    BY <1>5 DEF LoopOK, ScanType
  <2>2. slot' = [slot EXCEPT ![scan.at] = e] /\ slot[scan.at] \in SlotType
    BY <1>5, <2>1 DEF MemoryOK
  <2>3. /\ slot' \in [Slots -> SlotType]
        /\ \A x \in Slots : slot'[x].rec = slot[x].rec /\ slot'[x].play = slot[x].play
    BY <2>1, <2>2 DEF MemoryOK, SlotType
  <2> QED
    BY <1>5, <2>3, DevicesKept DEF MemoryOK
<1>6. ASSUME In(u, "fill"), UNCHANGED <<head, next, busyIn, busyOut>>,
             NEW n \in 1 .. FillStores - 1, Filled(u, n)
      PROVE  MemoryOK' /\ MarksOK'
  <2>1. thr[u].entry \in Slots /\ n \in Nat
    BY <1>6, InSection DEF OnEntry, FillStores
  <2> QED
    BY <1>6, <2>1, FilledKeeps, DevicesKept DEF MemoryOK
<1>7. ASSUME head' \in Slots \cup {Nil}, next' \in [Slots -> Slots \cup {Nil}],
             UNCHANGED <<slot, busyIn, busyOut>>
      PROVE  MemoryOK' /\ MarksOK'
  BY <1>7, DevicesKept DEF MemoryOK
<1>8. ASSUME NEW s \in Slots \cup {Nil}, UNCHANGED <<head, slot, busyIn, busyOut>>,
             next' = [next EXCEPT ![thr[u].entry] = s]
      PROVE  MemoryOK' /\ MarksOK'
  BY <1>7, <1>8 DEF MemoryOK
<1>9. ASSUME Scanning(u, "scrub"), scan.at # Nil, Unlinking(scan.at),
             UNCHANGED <<slot, busyIn, busyOut>>
      PROVE  MemoryOK' /\ MarksOK'
  <2>1. scan.at \in Slots
    BY <1>9 DEF LoopOK, ScanType
  <2> QED
    BY <1>7, <1>9, <2>1, UnlinkingKeeps
<1>10. ASSUME CanLock(u, "remove"), Unlinking(thr[u].entry),
              UNCHANGED <<slot, busyIn, busyOut>>
      PROVE  MemoryOK' /\ MarksOK'
  <2>1. thr[u].entry \in Slots
    BY <1>10, InSection DEF CanLock, OnEntry
  <2> QED
    BY <1>7, <1>10, <2>1, UnlinkingKeeps
<1> QED
  BY <1>2, <1>3, <1>4, <1>5, <1>6, <1>8, <1>9, <1>10 DEF StoresLeft

\* A process that ends leaves its threads without a handler.
LEMMA DieKeeps ==
    ASSUME ResourceInv, NEW p, Die(p), deaths' \in Nat
    PROVE  ResourceInv'
<1> USE UsersAssumption DEF ResourceInv, TypesInv, Die
<1>1. MemoryOK' /\ MarksOK'
  <2>1. CASE UNCHANGED memory
    BY <2>1 DEF memory, MemoryOK, MarksOK, NoDeviceShared, NoDeviceLost
  <2>2. CASE \E u \in OfProcess(p) : StoresLeft(u)
    BY <2>2, StoresLeftKeeps DEF OfProcess
  <2> QED
    BY <2>1, <2>2
<1>2. NoThread \in ThreadShape /\ NoThread.todo \notin EntryShapes
  BY DEF NoThread, ThreadShape, Shapes, PlainShapes, EntryShapes, NoUid, Nil
<1>3. ThreadsOK'
  BY <1>2 DEF ThreadsOK
<1>4. LoopOK'
  <2>1. CASE lock \in OfProcess(p)
    BY <2>1, UnlockKeeps DEF Unlock
  <2>2. CASE lock \notin OfProcess(p)
    <3>1. lock \in Users => thr'[lock] = thr[lock]
      BY <2>2 DEF OfProcess
    <3>2. QED
      BY <2>2, <3>1 DEF LoopOK
  <2>3. QED
    BY <2>1, <2>2
<1>5. InputsOK'
  BY DEF InputsOK
<1>6. NewObject \in ObjectType
  BY DEF NewObject, ObjectType, NoUid
<1>7. ClientsOK'
  BY <1>6 DEF ClientsOK
<1>8. WorldOK'
  BY DEF WorldOK
<1>9. QED
  BY <1>1, <1>3, <1>4, <1>5, <1>7, <1>8

-----------------------------------------------------------------------------
(* The steps of a resource thread.                                         *)

\* What a handler sets up is of a known shape, and its entry is there: a message
\* that needs it is handled only with it.
LEMMA HandleKeeps ==
    ASSUME ResourceInv, NEW u \in Users, Ready(u), NEW m \in FromClient \cup Events,
           NEW also \in BOOLEAN, Handle(u, m, also), InputsOK' \/ UNCHANGED inputs,
           ~(NeedsEntry(m) /\ thr[u].entry = Nil)
    PROVE  ResourceInv'
<1> USE UsersAssumption DEF ResourceInv, TypesInv
<1>1. Handler(u, m, also) /\ UNCHANGED <<memory, ids, lock, scan, client, world>>
  BY DEF Handle
<1>2. thr[u] \in ThreadShape /\ thr[u].todo = <<>>
  BY DEF ThreadsOK, Ready, Idle
<1>3. lock = u => scan.job = "none"
  BY <1>2 DEF LoopOK
<1>4. PICK t \in ThreadShape : /\ thr' = [thr EXCEPT ![u] = t]
                               /\ t.todo \in EntryShapes => t.entry \in Slots
  <2>1. CASE m = "request"
    <3> DEFINE t == [thr[u] EXCEPT !.also = also,
                                   !.todo = RequestSections(thr[u].entry)]
    <3>1. thr' = [thr EXCEPT ![u] = t]
      BY <1>1, <1>2, <2>1 DEF Handler, ThreadShape
    <3>2. RequestSections(thr[u].entry) \in
             IF thr[u].entry = Nil THEN PlainShapes ELSE EntryShapes
      BY DEF RequestSections, PlainShapes, EntryShapes
    <3>3. PlainShapes \cap EntryShapes = {}
      BY DEF PlainShapes, EntryShapes
    <3>4. t \in ThreadShape
      BY <1>2, <3>2 DEF ThreadShape, Shapes
    <3>5. t.todo \in EntryShapes => t.entry \in Slots
      BY <1>2, <3>2, <3>3 DEF ThreadShape
    <3>6. QED
      BY <3>1, <3>4, <3>5
  <2>2. CASE m = "release"
    <3> DEFINE t == [thr[u] EXCEPT !.also = also, !.todo = ReleaseSections,
                                   !.timer = FALSE]
    <3>1. thr' = [thr EXCEPT ![u] = t]
      BY <1>1, <1>2, <2>2 DEF Handler, ThreadShape
    <3>2. t \in ThreadShape
      BY <1>2 DEF ThreadShape, Shapes, EntryShapes, ReleaseSections
    <3>3. t.entry \in Slots
      BY <1>2, <2>2 DEF ThreadShape, NeedsEntry
    <3>4. QED
      BY <3>1, <3>2, <3>3
  <2>3. CASE m = "GRANTED"
    <3> DEFINE t == [thr[u] EXCEPT !.also = also, !.todo = <<"grant", "set">>,
                                   !.timer = FALSE]
    <3>1. thr' = [thr EXCEPT ![u] = t]
      BY <1>1, <1>2, <2>3 DEF Handler, ThreadShape
    <3>2. t \in ThreadShape
      BY <1>2 DEF ThreadShape, Shapes, EntryShapes
    <3>3. t.entry \in Slots
      BY <1>2, <2>3 DEF ThreadShape, NeedsEntry
    <3>4. QED
      BY <3>1, <3>2, <3>3
  <2>4. CASE m = "REVOKED"
    <3> DEFINE t == [thr[u] EXCEPT !.also = also, !.todo = <<"callback">>]
    <3>1. thr' = [thr EXCEPT ![u] = t]
      BY <1>1, <1>2, <2>4 DEF Handler, ThreadShape
    <3>2. t \in ThreadShape
      BY <1>2 DEF ThreadShape, Shapes, PlainShapes
    <3>3. t.todo \notin EntryShapes
      BY <1>2 DEF ThreadShape, EntryShapes
    <3>4. QED
      BY <3>1, <3>2, <3>3
  <2>5. CASE m = "terminate"
    <3> DEFINE t == [thr[u] EXCEPT !.also = also, !.running = FALSE]
    <3>1. thr' = [thr EXCEPT ![u] = t]
      BY <1>1, <1>2, <2>5 DEF Handler, ThreadShape
    <3>2. t \in ThreadShape
      BY <1>2 DEF ThreadShape
    <3>3. t.todo = <<>> /\ <<>> \notin EntryShapes
      BY <1>2 DEF ThreadShape, EntryShapes
    <3>4. QED
      BY <3>1, <3>2, <3>3
  <2>6. QED
    BY <2>1, <2>2, <2>3, <2>4, <2>5 DEF FromClient, Events
<1>5. ThreadPart'
  BY <1>1, <1>3, <1>4, OwnThread
<1>6. InputsOK' /\ ClientsOK' /\ WorldOK'
  BY <1>1 DEF inputs, client, world, InputsOK, ClientsOK, WorldOK
<1>7. QED
  BY <1>5, <1>6 DEF ThreadPart

\* What is read is a message of its queue; one that needs a missing entry is the
\* end of the process.
LEMMA ReadKeeps ==
    ASSUME ResourceInv, NEW u \in Users, ReadQueue(u) \/ ReadFifo(u)
    PROVE  ResourceInv'
<1> USE DEF ResourceInv, TypesInv
<1>1. CASE ReadQueue(u)
  <2>1. /\ Ready(u) /\ Head(mq[u]) \in FromClient \cup Events
        /\ mq[u] \in Seq(FromClient \cup Events) /\ mq[u] # <<>>
    BY <1>1 DEF ReadQueue, QueueNext, InputsOK
  <2>2. Handle(u, Head(mq[u]), fifo[u] # <<>>)
    BY <1>1 DEF ReadQueue
  <2>3. CASE NeedsEntry(Head(mq[u])) /\ thr[u].entry = Nil
    BY <2>2, <2>3, DieKeeps DEF Handle, WorldOK
  <2>4. CASE ~(NeedsEntry(Head(mq[u])) /\ thr[u].entry = Nil)
    <3>1. mq' = [mq EXCEPT ![u] = Tail(@)] /\ UNCHANGED fifo
      BY <1>1, <2>4 DEF ReadQueue
    <3>2. Tail(mq[u]) \in Seq(FromClient \cup Events)
      BY <2>1
    <3>3. InputsOK'
      BY <3>1, <3>2 DEF InputsOK
    <3>4. QED
      BY <2>1, <2>2, <2>4, <3>3, HandleKeeps
  <2>5. QED
    BY <2>3, <2>4
<1>2. CASE ReadFifo(u)
  <2>1. /\ Ready(u) /\ Head(fifo[u]) \in Events
        /\ fifo[u] \in Seq(Events) /\ fifo[u] # <<>>
    BY <1>2 DEF ReadFifo, FifoNext, InputsOK
  <2>2. Handle(u, Head(fifo[u]), FALSE)
    BY <1>2 DEF ReadFifo
  <2>3. CASE NeedsEntry(Head(fifo[u])) /\ thr[u].entry = Nil
    BY <2>2, <2>3, DieKeeps DEF Handle, WorldOK
  <2>4. CASE ~(NeedsEntry(Head(fifo[u])) /\ thr[u].entry = Nil)
    <3>1. fifo' = [fifo EXCEPT ![u] = Tail(@)] /\ UNCHANGED mq
      BY <1>2, <2>4 DEF ReadFifo
    <3>2. Tail(fifo[u]) \in Seq(Events)
      BY <2>1
    <3>3. InputsOK'
      BY <3>1, <3>2 DEF InputsOK
    <3>4. QED
      BY <2>1, <2>2, <2>4, <3>3, HandleKeeps
  <2>5. QED
    BY <2>3, <2>4
<1>3. QED
  BY <1>1, <1>2

\* Steps of a thread that change only what it has to do: the timer, the end of
\* the loop, the search for an entry and the callback.
LEMMA OwnKeeps ==
    ASSUME ResourceInv, NEW u \in Users,
           Timer(u) \/ Exit(u) \/ Alloc(u) \/ Revoked(u) \/ CallbackReturns(u)
    PROVE  ResourceInv'
<1> USE UsersAssumption DEF ResourceInv, TypesInv
<1>1. thr[u] \in ThreadShape
  BY DEF ThreadsOK
<1>2. CASE Timer(u)
  <2> DEFINE t == [thr[u] EXCEPT !.todo = <<"scrub", "update">>]
  <2>1. thr' = [thr EXCEPT ![u] = t] /\ t \in ThreadShape /\ t.todo \notin EntryShapes
    BY <1>1, <1>2 DEF Timer, Todo, ThreadShape, Shapes, PlainShapes, EntryShapes
  <2>2. lock = u => scan.job = "none"
    BY <1>2 DEF Timer, Ready, Idle, LoopOK
  <2>3. ThreadPart'
    BY <1>2, <2>1, <2>2, OwnThread DEF Timer
  <2>4. QED
    BY <1>2, <2>3 DEF Timer, ThreadPart, inputs, client, world, InputsOK, ClientsOK, WorldOK
<1>3. CASE Exit(u)
  <2> DEFINE t == [thr[u] EXCEPT !.on = FALSE]
  <2>1. thr' = [thr EXCEPT ![u] = t] /\ t \in ThreadShape /\ t.todo = thr[u].todo
    BY <1>1, <1>3 DEF Exit, ThreadShape
  <2>2. t.todo \in EntryShapes => t.entry \in Slots
    BY <1>1, <2>1 DEF ThreadsOK, ThreadShape
  <2>3. ThreadPart'
    BY <1>3, <2>1, <2>2, OwnThread DEF Exit
  <2>4. QED
    BY <1>3, <2>3 DEF Exit, ThreadPart, inputs, client, world, InputsOK, ClientsOK, WorldOK
<1>4. CASE Alloc(u)
  <2>1. In(u, "alloc")
    BY <1>4 DEF Alloc, CanLock
  <2>2. /\ Tail(thr[u].todo) \in Shapes
        /\ lock = u => scan.job = "none"
    BY <2>1, InSection
  <2>3. PICK t \in ThreadShape : /\ thr' = [thr EXCEPT ![u] = t]
                                 /\ t.todo \in EntryShapes => t.entry \in Slots
    <3>1. CASE \E s \in Slots :
                  thr' = [thr EXCEPT ![u].entry = s, ![u].todo = Tail(@)]
      <4>1. PICK s \in Slots : thr' = [thr EXCEPT ![u].entry = s, ![u].todo = Tail(@)]
        BY <3>1
      <4> DEFINE t == [thr[u] EXCEPT !.entry = s, !.todo = Tail(@)]
      <4>2. thr' = [thr EXCEPT ![u] = t] /\ t \in ThreadShape /\ t.entry = s
        BY <1>1, <2>2, <4>1 DEF ThreadShape
      <4>3. QED
        BY <4>2
    <3>2. CASE thr' = Todo(u, <<>>)
      <4> DEFINE t == [thr[u] EXCEPT !.todo = <<>>]
      <4>1. thr' = [thr EXCEPT ![u] = t] /\ t \in ThreadShape /\ t.todo \notin EntryShapes
        BY <1>1, <3>2 DEF Todo, ThreadShape, Shapes, PlainShapes, EntryShapes
      <4>2. QED
        BY <4>1
    <3>3. QED
      BY <1>4, <3>1, <3>2 DEF Alloc
  <2>4. ThreadPart'
    BY <1>4, <2>2, <2>3, OwnThread DEF Alloc
  <2>5. QED
    BY <1>4, <2>4 DEF Alloc, ThreadPart, inputs, client, world, InputsOK, ClientsOK, WorldOK
<1>5. CASE Revoked(u) \/ CallbackReturns(u)
  <2>1. In(u, "callback") /\ (Done(u) \/ UNCHANGED thr)
    BY <1>5 DEF Revoked, CallbackReturns
  <2>2. /\ thr[u].todo # <<>> /\ Head(thr[u].todo) # "alloc"
        /\ lock = u => scan.job = "none"
    BY <2>1, InSection DEF In
  <2>3. ThreadsOK'
    BY <2>1, <2>2, DoneKeeps DEF ThreadsOK
  <2>4. \A v \in Users \ {u} : thr'[v] = thr[v]
    BY <2>1 DEF Done, ThreadsOK
  <2>5. UNCHANGED <<memory, ids, lock, scan, inputs, obj, call, req, world>>
    BY <1>5 DEF Revoked, CallbackReturns, client
  <2>6. LoopOK'
    BY <2>2, <2>4, <2>5 DEF LoopOK
  <2>7. told' = told \/ told' = [told EXCEPT ![u] = "revoked"]
    BY <1>5 DEF Revoked, CallbackReturns, client
  <2>8. ClientsOK'
    BY <2>5, <2>7 DEF ClientsOK
  <2>9. QED
    BY <2>3, <2>5, <2>6, <2>8
       DEF memory, inputs, world, MemoryOK, InputsOK, WorldOK, MarksOK, NoDeviceShared, NoDeviceLost
<1>6. QED
  BY <1>2, <1>3, <1>4, <1>5

\* Filling the entry, clearing its mark and handing its devices to the object
\* leave the devices where they are.
LEMMA EntryKeeps ==
    ASSUME ResourceInv, NEW u \in Users, Fill(u) \/ Grant(u) \/ SetGranted(u)
    PROVE  ResourceInv'
<1> USE UsersAssumption, ClientsAssumption DEF ResourceInv, TypesInv
<1>1. PICK name \in {"fill", "grant", "set"} : In(u, name)
  BY DEF Fill, Grant, SetGranted
<1>2. /\ thr[u] \in ThreadShape /\ thr[u].todo # <<>>
      /\ Tail(thr[u].todo) \in Shapes /\ thr[u].entry \in Slots
      /\ lock = u => scan.job = "none"
  BY <1>1, InSection DEF OnEntry
<1> DEFINE s == thr[u].entry
<1>3. UNCHANGED <<head, next, busyIn, busyOut, ids, lock, scan, inputs, call, req, world>>
  BY DEF Fill, Grant, SetGranted, memory, client
<1>4. /\ slot' \in [Slots -> SlotType]
      /\ \A x \in Slots : slot'[x].rec = slot[x].rec /\ slot'[x].play = slot[x].play
  <2>1. CASE Fill(u)
    BY <1>2, <2>1, FilledKeeps DEF Fill, FillStores
  <2>2. CASE Grant(u)
    <3> DEFINE e == [slot[s] EXCEPT !.notified = FALSE]
    <3>1. slot' = [slot EXCEPT ![s] = e] /\ slot[s] \in SlotType
      BY <1>2, <2>2 DEF Grant, MemoryOK
    <3>2. e \in SlotType /\ e.rec = slot[s].rec /\ e.play = slot[s].play
      BY <3>1 DEF SlotType
    <3>3. QED
      BY <1>2, <3>1, <3>2 DEF MemoryOK
  <2>3. CASE SetGranted(u)
    BY <2>3 DEF SetGranted, memory, MemoryOK
  <2>4. QED
    BY <2>1, <2>2, <2>3
<1>5. MarksOK'
  BY <1>3, <1>4, DevicesKept
<1>6. MemoryOK'
  BY <1>3, <1>4 DEF MemoryOK
<1>7. PICK t \in ThreadShape : thr' = [thr EXCEPT ![u] = t]
                               /\ (t.todo \in EntryShapes => t.entry \in Slots)
  <2>1. CASE Fill(u)
    <3> DEFINE t == [thr[u] EXCEPT !.todo = Tail(@), !.timer = TRUE]
    <3>1. thr' = [thr EXCEPT ![u] = t] /\ t \in ThreadShape /\ t.entry = s
      BY <1>2, <2>1 DEF Fill, ThreadShape
    <3>2. QED
      BY <1>2, <3>1
  <2>2. CASE thr' = Todo(u, <<>>)
    <3> DEFINE t == [thr[u] EXCEPT !.todo = <<>>]
    <3>1. thr' = [thr EXCEPT ![u] = t] /\ t \in ThreadShape /\ t.entry = s
      BY <1>2, <2>2 DEF Todo, ThreadShape, Shapes, PlainShapes
    <3>2. QED
      BY <1>2, <3>1
  <2>3. CASE Done(u)
    <3> DEFINE t == [thr[u] EXCEPT !.todo = Tail(@)]
    <3>1. thr' = [thr EXCEPT ![u] = t] /\ t \in ThreadShape /\ t.entry = s
      BY <1>2, <2>3 DEF Done, ThreadShape
    <3>2. QED
      BY <1>2, <3>1
  <2>4. QED
    BY <2>1, <2>2, <2>3 DEF Grant, SetGranted
<1>8. ThreadsOK' /\ LoopOK'
  BY <1>2, <1>3, <1>7 DEF ThreadsOK, LoopOK
<1>9. ClientsOK'
  <2>1. CASE SetGranted(u)
    <3>1. slot[s].rec \in InIds \cup {None} /\ slot[s].play \in OutIds \cup {None}
      BY <1>2 DEF MemoryOK, SlotType
    <3> DEFINE o == [obj[u] EXCEPT !.rec = slot[s].rec, !.play = slot[s].play]
    <3>2. obj[u] \in ObjectType /\ obj' = [obj EXCEPT ![u] = o]
      BY <2>1 DEF SetGranted, ClientsOK
    <3>3. o \in ObjectType
      BY <3>1, <3>2 DEF ObjectType
    <3>4. obj' \in [Users -> ObjectType]
      BY <3>2, <3>3 DEF ClientsOK
    <3>5. told' = [told EXCEPT ![u] = "granted"]
      BY <2>1 DEF SetGranted
    <3>6. QED
      BY <1>3, <3>4, <3>5 DEF ClientsOK
  <2>2. CASE Fill(u) \/ Grant(u)
    BY <1>3, <2>2 DEF Fill, Grant, client, ClientsOK
  <2>3. QED
    BY <2>1, <2>2
<1>10. InputsOK' /\ WorldOK'
  BY <1>3 DEF inputs, world, InputsOK, WorldOK
<1>11. QED
  BY <1>5, <1>6, <1>8, <1>9, <1>10

-----------------------------------------------------------------------------
(* The sections under the lock.                                            *)

\* The loop that removes what dead processes have left.
LEMMA ScrubKeeps ==
    ASSUME ResourceInv, NEW u \in Users,
           ScrubBegin(u) \/ ScrubStep(u) \/ ScrubEnd(u)
    PROVE  ResourceInv'
<1> USE UsersAssumption DEF ResourceInv, TypesInv
<1>1. InputsOK' /\ ClientsOK' /\ WorldOK'
  BY DEF ScrubBegin, ScrubStep, ScrubEnd, inputs, client, world, InputsOK, ClientsOK,
         WorldOK
<1>2. CASE ScrubBegin(u)
  <2>1. MemoryOK' /\ MarksOK' /\ ThreadsOK'
    BY <1>2 DEF ScrubBegin, memory, MemoryOK, MarksOK, NoDeviceShared, NoDeviceLost, ThreadsOK
  <2>2. LoopOK'
    BY <1>2 DEF ScrubBegin, CanLock, In, Idle, LoopOK, Scan, NoScan, ScanType, Jobs,
                MemoryOK, Nil
  <2>3. QED
    BY <1>1, <2>1, <2>2
<1>3. CASE ScrubStep(u)
  <2>1. scan.at \in Slots /\ scan.job = "scrub" /\ UNCHANGED <<lock, thr>>
    BY <1>3 DEF ScrubStep, Scanning, LoopOK, ScanType
  <2>2. CASE Stale(scan.at)
    <3>1. Unlink(scan.at) /\ FreeSlot(scan.at) /\ scan' = [scan EXCEPT !.at = Nil]
      BY <1>3, <2>2 DEF ScrubStep, RemoveStale
    <3>2. MemoryOK' /\ MarksOK'
      BY <2>1, <3>1, UnlinkKeeps, FreeKeeps DEF MemoryOK
    <3>3. scan' \in ScanType /\ scan'.job = "scrub"
      BY <2>1, <3>1 DEF LoopOK, ScanType
    <3>4. QED
      BY <1>1, <2>1, <3>2, <3>3, LoopGoesOn
  <2>3. CASE ~Stale(scan.at)
    <3>1. scan' = [scan EXCEPT !.at = next[scan.at]] /\ UNCHANGED memory
      BY <1>3, <2>3 DEF ScrubStep
    <3>2. scan' \in ScanType /\ scan'.job = "scrub"
      BY <2>1, <3>1 DEF LoopOK, ScanType, MemoryOK
    <3>3. MemoryOK' /\ MarksOK'
      BY <3>1 DEF memory, MemoryOK, MarksOK, NoDeviceShared, NoDeviceLost
    <3>4. QED
      BY <1>1, <2>1, <3>2, <3>3, LoopGoesOn
  <2>4. QED
    BY <2>2, <2>3
<1>4. CASE ScrubEnd(u)
  <2>1. ThreadsOK'
    BY <1>4, InLoop, DoneKeeps DEF ScrubEnd
  <2>2. QED
    BY <1>1, <1>4, <2>1, UnlockKeeps
       DEF ScrubEnd, memory, MemoryOK, MarksOK, NoDeviceShared, NoDeviceLost
<1>5. QED
  BY <1>2, <1>3, <1>4

\* The insertion of an entry.
LEMMA AddKeeps ==
    ASSUME ResourceInv, NEW u \in Users, AddBegin(u) \/ AddStep(u)
    PROVE  ResourceInv'
<1> USE UsersAssumption DEF ResourceInv, TypesInv
<1>1. InputsOK' /\ ClientsOK' /\ WorldOK' /\ UNCHANGED <<slot, busyIn, busyOut>>
  BY DEF AddBegin, AddStep, inputs, client, world, InputsOK, ClientsOK, WorldOK
<1>2. MarksOK'
  BY <1>1 DEF MarksOK, NoDeviceShared, NoDeviceLost
<1>3. CASE AddBegin(u)
  <2>1. In(u, "add") /\ lock = None
    BY <1>3 DEF AddBegin, CanLock
  <2>2. thr[u].entry \in Slots /\ thr[u].todo # <<>> /\ Head(thr[u].todo) = "add"
    BY <2>1, InSection DEF OnEntry, In
  <2>3. CASE head = Nil
    <3>1. /\ head' = thr[u].entry /\ next' = [next EXCEPT ![thr[u].entry] = Nil]
          /\ Done(u) /\ UNCHANGED <<lock, scan>>
      BY <1>3, <2>3 DEF AddBegin
    <3>2. ThreadsOK'
      BY <2>2, <3>1, DoneKeeps
    <3>3. LoopOK'
      BY <2>1, <3>1 DEF LoopOK
    <3>4. MemoryOK'
      BY <1>1, <2>2, <3>1 DEF MemoryOK
    <3>5. QED
      BY <1>1, <1>2, <3>2, <3>3, <3>4
  <2>4. CASE head # Nil
    <3>1. lock' = u /\ scan' = Scan("add", head) /\ UNCHANGED <<head, next, thr>>
      BY <1>3, <2>4 DEF AddBegin
    <3>2. LoopOK'
      BY <2>2, <2>4, <3>1 DEF LoopOK, Scan, NoScan, ScanType, Jobs, MemoryOK
    <3>3. QED
      BY <1>1, <1>2, <3>1, <3>2 DEF MemoryOK, ThreadsOK
  <2>5. QED
    BY <2>3, <2>4
<1>4. CASE AddStep(u)
  <2>1. scan.at \in Slots /\ scan.job = "add" /\ Scanning(u, "add")
    BY <1>4, InLoop DEF AddStep, Scanning
  <2>2. thr[u].entry \in Slots \cup {Nil}
    BY DEF ThreadsOK, ThreadShape
  <2>3. MemoryOK'
    BY <1>1, <1>4, <2>1, <2>2 DEF AddStep, InsertAfter, MemoryOK
  <2>4. CASE Done(u) /\ Unlock
    BY <1>1, <1>2, <2>1, <2>3, <2>4, InLoop, DoneKeeps, UnlockKeeps
  <2>5. CASE /\ next[scan.at] # Nil /\ scan' = [scan EXCEPT !.at = next[scan.at]]
             /\ UNCHANGED <<thr, lock>>
    <3>1. scan' \in ScanType /\ scan'.at \in Slots
      BY <2>1, <2>5 DEF LoopOK, ScanType, MemoryOK
    <3>2. QED
      BY <1>1, <1>2, <2>1, <2>3, <2>5, <3>1, LoopGoesOn
  <2>6. QED
    BY <1>4, <2>4, <2>5 DEF AddStep
<1>5. QED
  BY <1>3, <1>4

\* Removing and freeing the entry of a request: two sections.
LEMMA ReleaseEntryKeeps ==
    ASSUME ResourceInv, NEW u \in Users, Remove(u) \/ FreeEntry(u)
    PROVE  ResourceInv'
<1> USE UsersAssumption DEF ResourceInv, TypesInv
<1>1. InputsOK' /\ ClientsOK' /\ WorldOK'
  BY DEF Remove, FreeEntry, inputs, client, world, InputsOK, ClientsOK, WorldOK
<1>2. CASE Remove(u)
  <2>1. In(u, "remove") /\ lock = None
    BY <1>2 DEF Remove, CanLock
  <2>2. thr[u].entry \in Slots /\ thr[u].todo # <<>> /\ Head(thr[u].todo) = "remove"
    BY <2>1, InSection DEF OnEntry, In
  <2>3. UNCHANGED <<slot, busyIn, busyOut, scan>> /\ scan.job = "none"
    BY <1>2, <2>1 DEF Remove, LoopOK
  <2>4. MemoryOK' /\ MarksOK'
    BY <1>2, <2>2, <2>3, UnlinkKeeps DEF Remove, MemoryOK, MarksOK, NoDeviceShared, NoDeviceLost
  <2>5. ThreadsOK'
    BY <1>2, <2>2, DoneKeeps DEF Remove, ThreadsOK
  <2>6. LoopOK'
    BY <1>2, <2>3 DEF Remove, LoopOK
  <2>7. QED
    BY <1>1, <2>4, <2>5, <2>6
<1>3. CASE FreeEntry(u)
  <2>1. In(u, "free") /\ lock = None
    BY <1>3 DEF FreeEntry, CanLock
  <2>2. /\ thr[u] \in ThreadShape /\ thr[u].entry \in Slots
        /\ Tail(thr[u].todo) \in Shapes \ EntryShapes
    BY <2>1, InSection DEF OnEntry
  <2>3. FreeSlot(thr[u].entry) /\ UNCHANGED <<head, next, lock, scan>>
    BY <1>3 DEF FreeEntry
  <2>4. MemoryOK' /\ MarksOK'
    BY <2>2, <2>3, FreeKeeps DEF MemoryOK
  <2> DEFINE t == [thr[u] EXCEPT !.entry = Nil, !.todo = Tail(@)]
  <2>5. thr' = [thr EXCEPT ![u] = t] /\ t \in ThreadShape /\ t.todo \notin EntryShapes
    BY <1>3, <2>2 DEF FreeEntry, ThreadShape
  <2>6. ThreadsOK'
    BY <2>5 DEF ThreadsOK
  <2>7. LoopOK'
    BY <2>1, <2>3 DEF LoopOK
  <2>8. QED
    BY <1>1, <2>4, <2>6, <2>7
<1>4. QED
  BY <1>2, <1>3

\* An event is appended to a queue or a fifo, or goes nowhere.
LEMMA InformKeeps ==
    ASSUME ResourceInv, NEW u, NEW s, NEW event \in Events, Inform(u, s, event)
    PROVE  InputsOK'
<1>1. \A v \in Users : /\ Append(mq[v], event) \in Seq(FromClient \cup Events)
                       /\ Append(fifo[v], event) \in Seq(Events)
  BY DEF ResourceInv, TypesInv, InputsOK
<1>2. QED
  BY <1>1 DEF Inform, ResourceInv, TypesInv, InputsOK

\* A loop that counts one more device, and goes on to the next entry.
LEMMA CountKeeps ==
    ASSUME scan \in ScanType, NEW a \in Slots \cup {Nil}, NEW b, NEW c,
           NEW r \in BOOLEAN,
           scan' = [scan EXCEPT !.at = a, !.rec = @ + One(b), !.play = @ + One(c),
                                !.revoked = r]
    PROVE  scan' \in ScanType /\ scan'.job = scan.job
<1>1. scan.rec + One(b) \in Nat /\ scan.play + One(c) \in Nat
  BY DEF ScanType, One
<1>2. QED
  BY <1>1 DEF ScanType

\* The loops that revoke and grant: only a grant touches the devices, and only
\* those of an entry that has none.
LEMMA UpdateKeeps ==
    ASSUME ResourceInv, NEW u \in Users,
           \/ UpdateBegin(u) \/ RevokeStep(u) \/ RevokeEnd(u)
           \/ GrantStep(u) \/ UpdateEnd(u)
    PROVE  ResourceInv'
<1> USE UsersAssumption DEF ResourceInv, TypesInv
<1>1. ClientsOK' /\ WorldOK'
  BY DEF UpdateBegin, RevokeStep, RevokeEnd, GrantStep, UpdateEnd, client, world,
         ClientsOK, WorldOK
<1>2. CASE UpdateBegin(u)
  <2>1. UNCHANGED <<memory, inputs>>
    BY <1>2 DEF UpdateBegin
  <2>2. In(u, "update") /\ lock = None /\ thr[u].todo # <<>>
        /\ Head(thr[u].todo) = "update"
    BY <1>2 DEF UpdateBegin, CanLock, In, Idle
  <2>3. ThreadsOK' /\ LoopOK'
    <3>1. CASE head = Nil
      BY <1>2, <2>2, <3>1, DoneKeeps DEF UpdateBegin, LoopOK
    <3>2. CASE head # Nil
      <4>1. /\ lock' = u /\ UNCHANGED thr
            /\ scan' = [Scan("revoke", next[head]) EXCEPT
                            !.rec = One(slot[head].in),
                            !.play = One(slot[head].out # "none")]
        BY <1>2, <3>2 DEF UpdateBegin
      <4>2. scan' \in ScanType /\ scan'.job = "revoke"
        BY <3>2, <4>1 DEF Scan, NoScan, ScanType, Jobs, One, MemoryOK
      <4>3. QED
        BY <2>2, <4>1, <4>2 DEF LoopOK, ThreadsOK
    <3>3. QED
      BY <3>1, <3>2
  <2>4. QED
    BY <1>1, <2>1, <2>3 DEF memory, inputs, MemoryOK, MarksOK, NoDeviceShared, NoDeviceLost,
       InputsOK
<1>3. CASE RevokeStep(u)
  <2>1. scan.at \in Slots /\ scan.job = "revoke" /\ UNCHANGED <<lock, thr>>
    BY <1>3 DEF RevokeStep, Scanning, LoopOK, ScanType
  <2>2. scan' \in ScanType /\ scan'.job = "revoke"
    <3> DEFINE s == scan.at
               r == scan.revoked \/ Revokes(s)
    <3>1. scan' = [scan EXCEPT !.at = next[s],
                               !.rec = @ + One(slot[s].rec # None /\ ~OverRec(s)),
                               !.play = @ + One(slot[s].play # None /\ ~Revokes(s)),
                               !.revoked = r]
      BY <1>3 DEF RevokeStep
    <3>2. next[s] \in Slots \cup {Nil} /\ scan \in ScanType /\ r \in BOOLEAN
      BY <2>1 DEF MemoryOK, LoopOK
    <3> HIDE DEF s, r
    <3>3. QED
      BY <2>1, <3>1, <3>2, CountKeeps
  <2>3. LoopOK' /\ ThreadsOK'
    BY <2>1, <2>2, LoopGoesOn
  <2>4. UNCHANGED <<head, next, busyIn, busyOut>>
    BY <1>3 DEF RevokeStep
  <2>5. CASE /\ slot' = [slot EXCEPT ![scan.at].notified = TRUE]
             /\ Inform(u, scan.at, "REVOKED")
    <3> DEFINE e == [slot[scan.at] EXCEPT !.notified = TRUE]
    <3>0. slot' = [slot EXCEPT ![scan.at] = e] /\ slot[scan.at] \in SlotType
      BY <2>1, <2>5 DEF MemoryOK
    <3>1. /\ slot' \in [Slots -> SlotType]
          /\ \A x \in Slots : slot'[x].rec = slot[x].rec /\ slot'[x].play = slot[x].play
      BY <2>1, <3>0 DEF MemoryOK, SlotType
    <3>2. MemoryOK' /\ MarksOK'
      BY <2>4, <3>1, DevicesKept DEF MemoryOK
    <3>3. InputsOK'
      BY <2>5, InformKeeps DEF Events
    <3>4. QED
      BY <1>1, <2>3, <3>2, <3>3
  <2>6. CASE UNCHANGED <<slot, inputs>>
    BY <1>1, <2>3, <2>4, <2>6 DEF inputs, MemoryOK, MarksOK, NoDeviceShared, NoDeviceLost, InputsOK
  <2>7. QED
    BY <1>3, <2>5, <2>6 DEF RevokeStep
<1>4. CASE RevokeEnd(u) \/ UpdateEnd(u)
  <2>1. UNCHANGED <<memory, inputs>>
    BY <1>4 DEF RevokeEnd, UpdateEnd
  <2>2. scan.job # "none" /\ Scanning(u, scan.job)
    BY <1>4 DEF RevokeEnd, UpdateEnd, Scanning
  <2>3. CASE Done(u) /\ Unlock
    <3>1. ThreadsOK' /\ LoopOK'
      BY <2>2, <2>3, InLoop, DoneKeeps, UnlockKeeps
    <3>2. QED
      BY <1>1, <2>1, <3>1 DEF memory, inputs, MemoryOK, MarksOK, NoDeviceShared, NoDeviceLost,
         InputsOK
  <2>4. CASE scan' = Scan("grant", head) /\ UNCHANGED <<lock, thr>>
    <3>1. scan' \in ScanType /\ scan'.job = "grant"
      BY <2>4 DEF Scan, NoScan, ScanType, Jobs, MemoryOK
    <3>2. LoopOK' /\ ThreadsOK'
      BY <2>2, <2>4, <3>1, LoopGoesOn
    <3>3. QED
      BY <1>1, <2>1, <3>2 DEF memory, inputs, MemoryOK, MarksOK, NoDeviceShared, NoDeviceLost,
         InputsOK
  <2>5. QED
    BY <1>4, <2>3, <2>4 DEF RevokeEnd, UpdateEnd
<1>5. CASE GrantStep(u)
  <2>1. scan.at \in Slots /\ scan.job = "grant" /\ UNCHANGED <<lock, thr, head, next>>
    BY <1>5 DEF GrantStep, Scanning, LoopOK, ScanType
  <2>2. scan' \in ScanType /\ scan'.job = "grant"
    <3> DEFINE s == scan.at
               b == slot[s].rec # None \/ (Grants(s) /\ slot[s].in)
               c == slot[s].play # None \/ (Grants(s) /\ slot[s].out # "none")
    <3>1. scan' = [scan EXCEPT !.at = next[s], !.rec = @ + One(b), !.play = @ + One(c)]
      BY <1>5 DEF GrantStep
    <3>2. next[s] \in Slots \cup {Nil} /\ scan \in ScanType
      BY <2>1 DEF MemoryOK, LoopOK
    <3>3. scan.revoked \in BOOLEAN
      BY <3>2 DEF ScanType
    <3> HIDE DEF s, b, c
    <3>4. scan' = [scan EXCEPT !.at = next[s], !.rec = @ + One(b), !.play = @ + One(c),
                               !.revoked = scan.revoked]
      BY <3>1, <3>2 DEF ScanType
    <3>5. QED
      BY <2>1, <3>2, <3>3, <3>4, CountKeeps
  <2>3. LoopOK' /\ ThreadsOK'
    BY <2>1, <2>2, LoopGoesOn
  <2>4. CASE Grants(scan.at) /\ Allocate(scan.at) /\ Inform(u, scan.at, "GRANTED")
    <3>1. MemoryOK' /\ MarksOK'
      BY <2>1, <2>4, AllocateKeeps DEF Grants, MemoryOK
    <3>2. InputsOK'
      BY <2>4, InformKeeps DEF Events
    <3>3. QED
      BY <1>1, <2>3, <3>1, <3>2
  <2>5. CASE UNCHANGED <<slot, busyIn, busyOut, inputs>>
    BY <1>1, <2>1, <2>3, <2>5 DEF inputs, MemoryOK, MarksOK, NoDeviceShared, NoDeviceLost, InputsOK
  <2>6. QED
    BY <1>5, <2>4, <2>5 DEF GrantStep
<1>6. QED
  BY <1>2, <1>3, <1>4, <1>5

-----------------------------------------------------------------------------
(* The steps of a client.                                                  *)

\* A request starts a thread for it, or adds nothing to the one that runs.
LEMMA RequestKeeps ==
    ASSUME ResourceInv, NEW u \in Users, NEW r \in Requests, Request(u, r)
    PROVE  ResourceInv'
<1> USE UsersAssumption DEF ResourceInv, TypesInv
<1>1. /\ lock = None /\ OpenMemory /\ UNCHANGED <<lock, scan, call, world>>
      /\ scan.job = "none"
  BY DEF Request, LoopOK
<1>2. MemoryOK' /\ MarksOK'
  BY <1>1, EmptyKeeps DEF OpenMemory, memory, MemoryOK, MarksOK, NoDeviceShared, NoDeviceLost
<1>3. LoopOK'
  BY <1>1 DEF LoopOK
<1>4. Cleaned \in [UserIds -> Users \cup {None}]
  BY DEF Cleaned, WorldOK
<1>5. CASE \A i \in UserIds : Cleaned[i] # None
  <2>1. ids' = Cleaned /\ UNCHANGED <<obj, req, told, thr, inputs>>
    BY <1>5 DEF Request, IsNextId
  <2>2. QED
    BY <1>1, <1>2, <1>3, <1>4, <2>1
       DEF ThreadsOK, inputs, world, InputsOK, ClientsOK, WorldOK
<1>6. CASE \E i \in UserIds : IsNextId(i) /\ ids' = [Cleaned EXCEPT ![i] = u]
  <2>1. PICK i \in UserIds :
           /\ ids' = [Cleaned EXCEPT ![i] = u]
           /\ obj' = [obj EXCEPT ![u].requested = TRUE, ![u].running = TRUE,
                                 ![u].fresh = ~obj[u].running, ![u].fd = TRUE,
                                 ![u].uid = i]
           /\ req' = [req EXCEPT ![u] = r]
           /\ told' = [told EXCEPT ![u] = "none"]
           /\ IF obj[u].running THEN UNCHANGED <<thr, mq, fifo>>
              ELSE /\ thr' = [thr EXCEPT ![u] = NewThread(i)]
                   /\ mq' = [mq EXCEPT ![u] = <<"request">>]
                   /\ fifo' = [fifo EXCEPT ![u] = <<>>]
    BY <1>6 DEF Request, IsNextId
  <2>2. NewThread(i) \in ThreadShape /\ NewThread(i).todo \notin EntryShapes
    BY DEF NewThread, NoThread, ThreadShape, Shapes, PlainShapes, EntryShapes, NoUid, Nil
  <2>3. ThreadsOK'
    BY <2>1, <2>2 DEF ThreadsOK
  <2>4. <<"request">> \in Seq(FromClient \cup Events)
    BY DEF FromClient
  <2>5. InputsOK'
    <3>1. CASE obj[u].running
      BY <2>1, <3>1 DEF InputsOK
    <3>2. CASE ~obj[u].running
      <4>1. /\ mq' = [mq EXCEPT ![u] = <<"request">>]
            /\ fifo' = [fifo EXCEPT ![u] = <<>>]
        BY <2>1, <3>2
      <4>2. <<>> \in Seq(Events)
        OBVIOUS
      <4>3. mq' \in [Users -> Seq(FromClient \cup Events)]
        BY <2>4, <4>1 DEF InputsOK
      <4>4. fifo' \in [Users -> Seq(Events)]
        BY <4>1, <4>2 DEF InputsOK
      <4>5. QED
        BY <4>3, <4>4 DEF InputsOK
    <3>3. QED
      BY <3>1, <3>2
  <2> DEFINE o == [obj[u] EXCEPT !.requested = TRUE, !.running = TRUE,
                                 !.fresh = ~obj[u].running, !.fd = TRUE, !.uid = i]
  <2>6. obj' = [obj EXCEPT ![u] = o] /\ o \in ObjectType
    <3>1. obj \in [Users -> ObjectType] /\ i \in UserIds
      BY <2>1 DEF ClientsOK
    <3>2. obj' = [obj EXCEPT ![u] = o]
      BY <2>1, <3>1
    <3>3. obj[u] \in ObjectType
      BY <3>1
    <3>4. o \in ObjectType
      BY <3>1, <3>3 DEF ObjectType
    <3>5. QED
      BY <3>2, <3>4
  <2>7. obj' \in [Users -> ObjectType]
    BY <2>6 DEF ClientsOK
  <2>8. ClientsOK'
    BY <1>1, <2>1, <2>7 DEF ClientsOK
  <2>9. WorldOK'
    BY <1>1, <1>4, <2>1 DEF world, WorldOK
  <2>10. QED
    BY <1>2, <1>3, <2>3, <2>5, <2>8, <2>9
<1>7. QED
  BY <1>5, <1>6 DEF Request

\* The first half of a release only sends messages and clears the object.
LEMMA ReleaseKeeps ==
    ASSUME ResourceInv, NEW u \in Users, NEW by \in {"client", "callback"},
           BeginRelease(u, by)
    PROVE  ResourceInv'
<1> USE UsersAssumption DEF ResourceInv, TypesInv
<1>1. /\ UNCHANGED <<memory, ids, lock, scan, thr, fifo, told, req, world>>
      /\ call' = [call EXCEPT ![u] = by]
      /\ obj' = [obj EXCEPT ![u].rec = None, ![u].play = None]
  BY DEF BeginRelease
<1>2. mq[u] \o ReleaseMessages \in Seq(FromClient \cup Events)
  BY DEF InputsOK, ReleaseMessages, FromClient
<1>3. InputsOK'
  BY <1>1, <1>2 DEF BeginRelease, InputsOK
<1> DEFINE o == [obj[u] EXCEPT !.rec = None, !.play = None]
<1>4. obj' = [obj EXCEPT ![u] = o] /\ o \in ObjectType
  <2>1. obj[u] \in ObjectType /\ obj' = [obj EXCEPT ![u] = o]
    BY <1>1 DEF ClientsOK
  <2>2. QED
    BY <2>1 DEF ObjectType
<1>5. ClientsOK'
  BY <1>1, <1>4 DEF ClientsOK
<1>6. QED
  BY <1>1, <1>3, <1>5
     DEF memory, world, MemoryOK, MarksOK, NoDeviceShared, NoDeviceLost, ThreadsOK, LoopOK, WorldOK

\* The second half takes the thread, the lock and the queues with it.
LEMMA AnswerKeeps ==
    ASSUME ResourceInv, NEW u \in Users, Answer(u)
    PROVE  ResourceInv'
<1> USE UsersAssumption DEF ResourceInv, TypesInv
<1>1. PICK running \in BOOLEAN : Close(u, running)
  BY DEF Answer, ReleaseJoins, ReleaseTimesOut
<1>2. MemoryOK' /\ MarksOK'
  <2>1. CASE InOpen(u) /\ Allocate(scan.at) /\ UNCHANGED <<head, next>>
    <3>1. scan.at \in Slots /\ ~Held(scan.at)
      BY <2>1 DEF InOpen, Grants, LoopOK, ScanType
    <3> QED
      BY <2>1, <3>1, AllocateKeeps DEF MemoryOK
  <2>2. CASE UNCHANGED memory
    BY <2>2 DEF memory, MemoryOK, MarksOK, NoDeviceShared, NoDeviceLost
  <2> QED
    BY <2>1, <2>2 DEF Answer, ReleaseJoins, ReleaseTimesOut
<1>3. LoopOK'
  BY <1>1, UnlockKeeps DEF Close
<1> DEFINE o == [obj[u] EXCEPT !.requested = FALSE, !.running = running, !.fd = FALSE,
                               !.uid = NoUid]
<1>4. obj' = [obj EXCEPT ![u] = o] /\ o \in ObjectType
  <2>1. obj[u] \in ObjectType /\ obj' = [obj EXCEPT ![u] = o]
    BY <1>1 DEF Close, ClientsOK
  <2>2. QED
    BY <2>1 DEF ObjectType, NoUid
<1>5. ClientsOK'
  BY <1>1, <1>4 DEF Close, ClientsOK
<1>6. WorldOK'
  BY <1>1 DEF Close, world, WorldOK
<1>7. InputsOK'
  <2>1. \/ UNCHANGED <<mq, fifo>>
        \/ mq' = [mq EXCEPT ![u] = <<>>] /\ fifo' = [fifo EXCEPT ![u] = <<>>]
    BY DEF Answer, ReleaseJoins, ReleaseTimesOut
  <2>2. <<>> \in Seq(FromClient \cup Events) /\ <<>> \in Seq(Events)
    OBVIOUS
  <2>3. CASE mq' = [mq EXCEPT ![u] = <<>>] /\ fifo' = [fifo EXCEPT ![u] = <<>>]
    <3>1. mq' \in [Users -> Seq(FromClient \cup Events)]
      BY <2>2, <2>3 DEF InputsOK
    <3>2. fifo' \in [Users -> Seq(Events)]
      BY <2>2, <2>3 DEF InputsOK
    <3>3. QED
      BY <3>1, <3>2 DEF InputsOK
  <2>4. QED
    BY <2>1, <2>3 DEF InputsOK
<1>8. ThreadsOK'
  <2>1. thr[u] \in ThreadShape
    BY DEF ThreadsOK
  <2>2. CASE UNCHANGED thr
    BY <2>2 DEF ThreadsOK
  <2>3. CASE thr' = [thr EXCEPT ![u] = NoThread]
    <3>1. NoThread \in ThreadShape /\ NoThread.todo \notin EntryShapes
      BY DEF NoThread, ThreadShape, Shapes, PlainShapes, EntryShapes, NoUid, Nil
    <3>2. QED
      BY <2>3, <3>1 DEF ThreadsOK
  <2>4. CASE \E todo \in {<<>>, <<"stuck">>, thr[u].todo} :
                thr' = [thr EXCEPT ![u].fds = FALSE, ![u].also = FALSE, ![u].todo = todo]
    <3>1. PICK todo \in {<<>>, <<"stuck">>, thr[u].todo} :
                thr' = [thr EXCEPT ![u].fds = FALSE, ![u].also = FALSE, ![u].todo = todo]
      BY <2>4
    <3> DEFINE t == [thr[u] EXCEPT !.fds = FALSE, !.also = FALSE, !.todo = todo]
    <3>2. /\ todo \in Shapes
          /\ todo \in EntryShapes => todo = thr[u].todo
      BY <2>1 DEF ThreadShape, Shapes, PlainShapes, EntryShapes
    <3>3. thr' = [thr EXCEPT ![u] = t] /\ t \in ThreadShape
          /\ t.todo = todo /\ t.entry = thr[u].entry
      BY <2>1, <3>1, <3>2 DEF ThreadShape
    <3>4. QED
      BY <3>2, <3>3 DEF ThreadsOK
  <2>5. QED
    BY <2>2, <2>3, <2>4 DEF Answer, ReleaseJoins, ReleaseTimesOut
<1>9. QED
  BY <1>2, <1>3, <1>5, <1>6, <1>7, <1>8

-----------------------------------------------------------------------------
(* The theorems.                                                           *)

\* Every step keeps the invariant.
LEMMA ResourceStep == ResourceInv /\ [Next]_vars => ResourceInv'
<1> SUFFICES ASSUME ResourceInv, [Next]_vars PROVE ResourceInv'
  OBVIOUS
<1>1. CASE UNCHANGED vars
  BY <1>1 DEF vars, memory, inputs, client, world, ResourceInv, TypesInv, MemoryOK,
              ThreadsOK, LoopOK, InputsOK, ClientsOK, WorldOK, MarksOK, NoDeviceShared, NoDeviceLost
<1>2. ASSUME NEW u \in Users, ThreadStep(u) \/ LockStep(u) \/ Timer(u)
                              \/ ClientStep(u) \/ Answer(u)
      PROVE  ResourceInv'
  <2>1. CASE LockFails(u)
    <3>1. Die(Proc[u]) /\ deaths' \in Nat
      BY <2>1 DEF LockFails, ResourceInv, TypesInv, WorldOK
    <3>2. QED
      BY <3>1, DieKeeps
  <2>2. CASE ClientStep(u)
    BY <2>2, RequestKeeps, ReleaseKeeps DEF ClientStep, Release, ReleaseInCallback
  <2>3. QED
    BY <1>2, <2>1, <2>2, ReadKeeps, OwnKeeps, EntryKeeps, ScrubKeeps, AddKeeps,
       ReleaseEntryKeeps, UpdateKeeps, AnswerKeeps DEF ThreadStep, LockStep
<1>3. ASSUME NEW p \in Procs, Killed(p) PROVE ResourceInv'
  <2>1. Die(p) /\ deaths' \in Nat
    BY <1>3 DEF Killed, ResourceInv, TypesInv, WorldOK
  <2>2. QED
    BY <2>1, DieKeeps
<1>4. QED
  BY <1>1, <1>2, <1>3 DEF Next

\* The invariant holds in every state of the resource manager.
LEMMA ResourceAlways == Spec => []ResourceInv
BY ResourceInit, ResourceStep, PTL DEF Spec

\* Every variable of the resource manager has its type, for any number of users,
\* entries and devices (xraudio_resource.c, xraudio.c).
THEOREM ResourceTypes == Spec => []TypeOK
<1>1. ResourceInv => TypeOK
  BY InvGivesTypes DEF ResourceInv
<1>2. QED
  BY <1>1, ResourceAlways, PTL

\* No two entries have the same device, and the device of an entry is marked as used
\* (resource_allocate_*, resource_free_*): whenever calls overlap and requests are
\* repeated, and between whichever stores of a handler processes die, but those of a
\* mark and its id in resource_entry_free.
THEOREM ResourceUnshared ==
    ASSUME "unmarked" \notin Deaths
    PROVE  Spec => []NoDeviceShared
<1>1. ResourceInv => NoDeviceShared
  BY DEF ResourceInv, MarksOK
<1>2. QED
  BY <1>1, ResourceAlways, PTL

\* A device that is marked as used is the device of an entry, which gives it back:
\* between whichever stores of a handler processes die, but those of a mark and its id
\* in a grant; also in the middle of resource_entry_free, after which entries may
\* share a device.
THEOREM ResourceUnlost ==
    ASSUME "marked" \notin Deaths
    PROVE  Spec => []NoDeviceLost
<1>1. ResourceInv => NoDeviceLost
  BY DEF ResourceInv, MarksOK
<1>2. QED
  BY <1>1, ResourceAlways, PTL

\* A device is marked as used if, and only if, it is the device of one entry, between
\* whichever stores of a handler processes die, but those of a mark and its id.
THEOREM ResourceExclusive ==
    ASSUME {"unmarked", "marked"} \cap Deaths = {}
    PROVE  Spec => []DeviceExclusive
<1>1. ResourceInv => DeviceExclusive
  BY DEF ResourceInv, MarksOK, DeviceExclusive
<1>2. QED
  BY <1>1, ResourceAlways, PTL

-----------------------------------------------------------------------------
(* The list as a chain of entries.                                       *)

\* The list is a chain of n different entries, in the order of q.
Chain(n, q) ==
    /\ n \in Nat /\ q \in [1 .. n -> Slots]
    /\ \A i, j \in 1 .. n : q[i] = q[j] => i = j
    /\ head = IF n = 0 THEN Nil ELSE q[1]
    /\ \A i \in 1 .. n : next[q[i]] = IF i < n THEN q[i + 1] ELSE Nil
ListOK == \E n, q : Chain(n, q)

\* s is met when the list is read from entry a on.
From(a, s) == \E i, j \in 0 .. SlotQty : /\ i <= j /\ a # Nil /\ s # Nil
                                         /\ Walk[i] = a /\ Walk[j] = s

\* A set of naturals that is not empty has a least member.
LEMMA FirstNumber ==
    ASSUME NEW xs \in SUBSET Nat, xs # {}
    PROVE  \E c \in xs : \A e \in xs : c <= e
<1>1. PICK c \in xs : \A e \in xs : <<e, c>> \notin OpToRel(<, Nat)
  BY NatLessThanWellFounded, WFMin
<1>2. OpToRel(<, Nat) = {ss \in Nat \X Nat : ss[1] < ss[2]}
  BY DEF OpToRel
<1>3. ASSUME NEW e \in xs, e < c PROVE FALSE
  <2>1. <<e, c>> \in {ss \in Nat \X Nat : ss[1] < ss[2]}
    BY <1>3
  <2>2. QED
    BY <1>1, <1>2, <2>1
<1>4. \A e \in xs : c <= e
  BY <1>3
<1>5. QED
  BY <1>4

\* A chain is no longer than there are entries, and shorter while one is missing.
LEMMA ChainFits ==
    ASSUME NEW n \in Nat, NEW q \in [1 .. n -> Slots],
           \A i, j \in 1 .. n : q[i] = q[j] => i = j
    PROVE  /\ n <= SlotQty
           /\ (\E s \in Slots : \A i \in 1 .. n : q[i] # s) => n < SlotQty
<1>1. /\ IsFiniteSet(Slots) /\ Cardinality(Slots) = SlotQty
      /\ IsFiniteSet(1 .. n) /\ Cardinality(1 .. n) = n
  <2>1. 1 \in Int /\ SlotQty \in Int /\ n \in Int /\ SlotQty \in Nat
    BY UsersAssumption
  <2>2. /\ IsFiniteSet(1 .. SlotQty)
        /\ Cardinality(1 .. SlotQty) = IF 1 > SlotQty THEN 0 ELSE SlotQty - 1 + 1
    BY <2>1, FS_Interval
  <2>3. /\ IsFiniteSet(1 .. n)
        /\ Cardinality(1 .. n) = IF 1 > n THEN 0 ELSE n - 1 + 1
    BY <2>1, FS_Interval
  <2>4. QED
    BY <2>1, <2>2, <2>3 DEF Slots
<1>2. q \in Injection(1 .. n, Slots)
  BY DEF Injection, IsInjective
<1>3. n <= SlotQty
  BY <1>1, <1>2, FS_Injection
<1>4. ASSUME NEW s \in Slots, \A i \in 1 .. n : q[i] # s PROVE n < SlotQty
  <2>1. q \notin Surjection(1 .. n, Slots)
    BY <1>4 DEF Surjection
  <2>2. n # SlotQty
    BY <1>1, <1>2, <2>1, FS_Injection
  <2>3. QED
    BY <1>3, <2>2, UsersAssumption
<1>5. QED
  BY <1>3, <1>4

\* The walk along a chain.
WalkOf(n, q) == [i \in 0 .. SlotQty |-> IF i < n THEN q[i + 1] ELSE Nil]

\* The walk from the head goes through the chain and stays at its end.
LEMMA ChainWalk ==
    ASSUME NEW n, NEW q, Chain(n, q)
    PROVE  Walk = WalkOf(n, q)
<1> DEFINE W == WalkOf(n, q)
           Def(w) == [i \in 0 .. SlotQty |->
                         IF i = 0 THEN head
                         ELSE IF w[i - 1] = Nil THEN Nil ELSE next[w[i - 1]]]
<1>1. SlotQty \in Nat /\ n \in Nat /\ Nil \notin Slots
  BY UsersAssumption DEF Chain, Nil, Slots
<1>2. W = Def(W)
  BY <1>1 DEF Chain, WalkOf
<1>3. Walk = CHOOSE w : w = Def(w)
  BY DEF Walk
<1>4. Walk = Def(Walk)
  BY <1>2, <1>3
<1> DEFINE Bad == {i \in 0 .. SlotQty : Walk[i] # W[i]}
<1>5. Bad = {}
  <2>1. SUFFICES ASSUME Bad # {} PROVE FALSE
    OBVIOUS
  <2>2. PICK c \in Bad : \A e \in Bad : c <= e
    <3>1. Bad \in SUBSET Nat
      BY <1>1
    <3> HIDE DEF Bad
    <3>2. QED
      BY <2>1, <3>1, FirstNumber
  <2>3. c # 0
    BY <1>1, <1>2, <1>4
  <2>4. c - 1 \in 0 .. SlotQty /\ c \in 0 .. SlotQty /\ c - 1 \notin Bad
    BY <1>1, <2>2, <2>3
  <2>5. Walk[c - 1] = W[c - 1]
    BY <2>4
  <2>6. Walk[c] = IF Walk[c - 1] = Nil THEN Nil ELSE next[Walk[c - 1]]
    BY <1>4, <2>3, <2>4
  <2>7. W[c] = IF W[c - 1] = Nil THEN Nil ELSE next[W[c - 1]]
    BY <1>2, <2>3, <2>4
  <2>8. QED
    BY <2>2, <2>5, <2>6, <2>7
<1>6. QED
  BY <1>4, <1>5 DEF WalkOf

\* What the walk along a chain meets, and in which order.
LEMMA ChainFacts ==
    ASSUME NEW n, NEW q, Chain(n, q)
    PROVE  /\ n <= SlotQty
           /\ ~Cyclic
           /\ Listed = {q[i] : i \in 1 .. n}
           /\ \A a, s : From(a, s) <=> \E i, j \in 1 .. n : i <= j /\ q[i] = a /\ q[j] = s
<1>1. SlotQty \in Nat /\ Nil \notin Slots
  BY UsersAssumption DEF Nil, Slots
<1>2. /\ n \in Nat /\ q \in [1 .. n -> Slots]
      /\ \A i, j \in 1 .. n : q[i] = q[j] => i = j
  BY DEF Chain
<1>3. n <= SlotQty
  BY <1>2, ChainFits
<1>4. /\ \A i \in 0 .. n - 1 : i \in 0 .. SlotQty /\ i + 1 \in 1 .. n /\ Walk[i] = q[i + 1]
      /\ \A i \in 0 .. SlotQty : i \notin 0 .. n - 1 => Walk[i] = Nil
  BY <1>1, <1>2, <1>3, ChainWalk DEF WalkOf
<1>5. ~Cyclic
  BY <1>1, <1>2, <1>3, <1>4 DEF Cyclic
<1>6. \A i \in 1 .. n : q[i] \in Slots /\ q[i] # Nil /\ i - 1 \in 0 .. n - 1
                        /\ Walk[i - 1] = q[i] /\ i - 1 \in 0 .. SlotQty
  <2>1. TAKE i \in 1 .. n
  <2>2. i - 1 \in 0 .. n - 1 /\ (i - 1) + 1 = i
    BY <1>2
  <2>3. QED
    BY <1>1, <1>2, <1>4, <2>2
<1>7. Listed = {q[i] : i \in 1 .. n}
  <2>1. ASSUME NEW i \in 0 .. SlotQty, Walk[i] # Nil PROVE Walk[i] \in {q[j] : j \in 1 .. n}
    BY <1>4, <2>1
  <2>2. ASSUME NEW i \in 1 .. n PROVE q[i] \in Listed
    BY <1>6 DEF Listed
  <2>3. QED
    BY <2>1, <2>2 DEF Listed
<1>8. ASSUME NEW a, NEW s, From(a, s)
      PROVE  \E i, j \in 1 .. n : i <= j /\ q[i] = a /\ q[j] = s
  <2>1. PICK i, j \in 0 .. SlotQty : /\ i <= j /\ a # Nil /\ s # Nil
                                     /\ Walk[i] = a /\ Walk[j] = s
    BY <1>8 DEF From
  <2>2. i \in 0 .. n - 1 /\ j \in 0 .. n - 1
    BY <1>4, <2>1
  <2>3. i + 1 \in 1 .. n /\ j + 1 \in 1 .. n /\ i + 1 <= j + 1
    BY <1>2, <2>1, <2>2
  <2>4. QED
    BY <1>4, <2>1, <2>2, <2>3
<1>9. ASSUME NEW i \in 1 .. n, NEW j \in 1 .. n, i <= j PROVE From(q[i], q[j])
  <2>1. i - 1 <= j - 1
    BY <1>2, <1>9
  <2>2. QED
    BY <1>6, <2>1 DEF From
<1>10. QED
  BY <1>3, <1>5, <1>7, <1>8, <1>9

\* The same of the state after a step.
ChainLists == \A n, q : Chain(n, q) => Listed = {q[i] : i \in 1 .. n}

\* The entries of a chain are the list, in this state and in the next.
LEMMA ChainListsNext == ChainLists /\ ChainLists'
<1>1. ChainLists
  BY ChainFacts DEF ChainLists
<1>2. QED
  BY <1>1, PTL

\* What the sections of the code need to know of the list.
Lined == /\ ~Cyclic /\ Listed \subseteq Slots
         /\ head \in Listed \cup {Nil} /\ (head = Nil => Listed = {})
         /\ \A s \in Listed : From(head, s)
         /\ \A a, s : From(a, s) => a \in Listed /\ s \in Listed
         /\ \A a, s : From(a, s) /\ s # a => From(next[a], s)
         /\ \A s \in Listed : s # head => From(next[head], s)
         /\ \A s \in Listed : next[s] \in Listed \cup {Nil}

\* A chain gives all of this: no section has to know that there is one.
LEMMA ListLined == ListOK => Lined
<1>1. SUFFICES ASSUME NEW n, NEW q, Chain(n, q) PROVE Lined
  BY DEF ListOK
<1>2. /\ n \in Nat /\ q \in [1 .. n -> Slots]
      /\ \A i, j \in 1 .. n : q[i] = q[j] => i = j
      /\ head = IF n = 0 THEN Nil ELSE q[1]
      /\ \A i \in 1 .. n : next[q[i]] = IF i < n THEN q[i + 1] ELSE Nil
  BY <1>1 DEF Chain
<1>3. /\ ~Cyclic
      /\ Listed = {q[i] : i \in 1 .. n}
      /\ \A a, s : From(a, s) <=> \E i, j \in 1 .. n : i <= j /\ q[i] = a /\ q[j] = s
  BY <1>1, ChainFacts
<1>4. /\ Listed \subseteq Slots
      /\ \A a, s : From(a, s) => a \in Listed /\ s \in Listed
  BY <1>2, <1>3
<1>5. /\ head \in Listed \cup {Nil} /\ (head = Nil => Listed = {})
  <2>1. Nil \notin Slots
    BY DEF Nil, Slots
  <2>2. CASE n = 0
    BY <1>2, <1>3, <2>2
  <2>3. CASE n # 0
    <3>1. 1 \in 1 .. n
      BY <1>2, <2>3
    <3>2. QED
      BY <1>2, <1>3, <2>1, <2>3, <3>1
  <2>4. QED
    BY <2>2, <2>3
<1>6. ASSUME NEW s \in Listed PROVE From(head, s)
  <2>1. PICK j \in 1 .. n : q[j] = s
    BY <1>3, <1>6
  <2>2. 1 \in 1 .. n /\ 1 <= j /\ n # 0
    BY <1>2
  <2>3. QED
    BY <1>2, <1>3, <2>1, <2>2
<1>7. ASSUME NEW a, NEW s, From(a, s), s # a PROVE From(next[a], s)
  <2>1. PICK i, j \in 1 .. n : i <= j /\ q[i] = a /\ q[j] = s
    BY <1>3, <1>7
  <2>2. i < n /\ i + 1 \in 1 .. n /\ i + 1 <= j
    BY <1>2, <1>7, <2>1
  <2>3. next[a] = q[i + 1]
    BY <1>2, <2>1, <2>2
  <2>4. QED
    BY <1>3, <2>1, <2>2, <2>3
<1>8. ASSUME NEW s \in Listed PROVE next[s] \in Listed \cup {Nil}
  <2>1. PICK i \in 1 .. n : q[i] = s
    BY <1>3, <1>8
  <2>2. i < n => i + 1 \in 1 .. n
    BY <1>2
  <2>3. QED
    BY <1>2, <1>3, <2>1, <2>2
<1>9. QED
  BY <1>3, <1>4, <1>5, <1>6, <1>7, <1>8 DEF Lined

\* An entry that is unlinked leaves the others in the list.
LEMMA UnlinkList ==
    ASSUME MemoryOK, ListOK, NEW s \in Slots, Unlink(s)
    PROVE  ListOK' /\ Listed' = Listed \ {s}
<1>1. PICK n, q : Chain(n, q)
  BY DEF ListOK
<1>2. /\ n \in Nat /\ q \in [1 .. n -> Slots]
      /\ \A i, j \in 1 .. n : q[i] = q[j] => i = j
      /\ head = IF n = 0 THEN Nil ELSE q[1]
      /\ \A i \in 1 .. n : next[q[i]] = IF i < n THEN q[i + 1] ELSE Nil
      /\ next \in [Slots -> Slots \cup {Nil}] /\ Nil \notin Slots
  BY <1>1 DEF Chain, MemoryOK, Nil, Slots
<1>3. Listed = {q[i] : i \in 1 .. n} /\ ~Cyclic
  BY <1>1, ChainFacts
<1>4. CASE s \notin Listed
  <2>1. ~\E p \in Slots : IsPrevious(p, s)
    <3>1. SUFFICES ASSUME NEW p \in Slots, NEW i \in 0 .. SlotQty, Walk[i] = p, p # Nil,
                          next[p] = s
                   PROVE  FALSE
      BY DEF IsPrevious
    <3>2. p \in Listed
      BY <3>1 DEF Listed
    <3>3. PICK k \in 1 .. n : q[k] = p
      BY <1>3, <3>2
    <3>4. k < n => k + 1 \in 1 .. n
      BY <1>2
    <3>5. QED
      BY <1>2, <1>3, <1>4, <3>1, <3>3, <3>4
  <2>2. head # s
    <3>1. n # 0 => 1 \in 1 .. n
      BY <1>2
    <3>2. QED
      BY <1>2, <1>3, <1>4, <3>1
  <2>3. UNCHANGED head /\ next' = [next EXCEPT ![s] = Nil]
    BY <2>1, <2>2 DEF Unlink
  <2>4. \A i \in 1 .. n : q[i] # s
    BY <1>3, <1>4
  <2>5. Chain(n, q)'
    BY <1>2, <2>3, <2>4 DEF Chain
  <2>6. Listed' = {q[i] : i \in 1 .. n}
    BY <2>5, ChainListsNext DEF ChainLists
  <2>7. QED
    BY <1>3, <1>4, <2>5, <2>6 DEF ListOK
<1>5. CASE s \in Listed
  <2>1. PICK k \in 1 .. n : q[k] = s
    BY <1>3, <1>5
  <2> DEFINE r == [i \in 1 .. n - 1 |-> IF i < k THEN q[i] ELSE q[i + 1]]
  <2>2. \A i \in 1 .. n - 1 : i \in 1 .. n /\ i + 1 \in 1 .. n /\ i < n
    BY <1>2
  <2>3. /\ n - 1 \in Nat /\ r \in [1 .. n - 1 -> Slots]
        /\ \A i, j \in 1 .. n - 1 : r[i] = r[j] => i = j
        /\ \A i \in 1 .. n - 1 : r[i] # s
    BY <1>2, <2>1, <2>2
  <2>4. {r[i] : i \in 1 .. n - 1} = {q[i] : i \in 1 .. n} \ {s}
    <3>1. ASSUME NEW i \in 1 .. n, q[i] # s PROVE \E j \in 1 .. n - 1 : r[j] = q[i]
      <4>1. CASE i < k
        <5>1. i \in 1 .. n - 1 /\ r[i] = q[i]
          BY <1>2, <2>1, <4>1
        <5>2. QED
          BY <5>1
      <4>2. CASE i > k
        <5>1. i - 1 \in 1 .. n - 1 /\ ~(i - 1 < k) /\ (i - 1) + 1 = i
          BY <1>2, <2>1, <4>2
        <5>2. r[i - 1] = q[i]
          BY <5>1
        <5>3. QED
          BY <5>1, <5>2
      <4>3. QED
        BY <1>2, <2>1, <3>1, <4>1, <4>2
    <3>2. \A i \in 1 .. n - 1 : \E j \in 1 .. n : r[i] = q[j]
      BY <2>2
    <3>3. QED
      BY <2>3, <3>1, <3>2
  <2>5. /\ head' = IF k = 1 THEN next[s] ELSE head
        /\ k = 1 => next' = [next EXCEPT ![s] = Nil]
        /\ k > 1 => next' = [next EXCEPT ![q[k - 1]] = next[s], ![s] = Nil]
    <3>1. CASE k = 1
      <4>1. head = s
        BY <1>2, <2>1, <3>1
      <4>2. QED
        BY <1>5, <3>1, <4>1 DEF Unlink
    <3>2. CASE k > 1
      <4>1. head # s /\ 1 \in 1 .. n
        BY <1>2, <2>1, <3>2
      <4>2. PICK p \in Slots : /\ IsPrevious(p, s)
                               /\ next' = [next EXCEPT ![p] = next[s], ![s] = Nil]
        BY <1>5, <4>1 DEF Unlink
      <4>3. head' = head
        BY <1>5, <4>1 DEF Unlink
      <4>4. p \in Listed /\ next[p] = s
        BY <4>2 DEF IsPrevious, Listed
      <4>5. PICK i \in 1 .. n : q[i] = p
        BY <1>3, <4>4
      <4>6. i < n /\ i + 1 \in 1 .. n /\ q[i + 1] = s
        BY <1>2, <2>1, <4>4, <4>5
      <4>7. i = k - 1
        BY <1>2, <2>1, <4>6
      <4>8. next' = [next EXCEPT ![q[k - 1]] = next[s], ![s] = Nil]
        BY <4>2, <4>5, <4>7
      <4>9. k # 1
        BY <3>2
      <4>10. QED
        BY <4>3, <4>8, <4>9
    <3>3. QED
      BY <1>2, <3>1, <3>2
  <2>6. head' = IF n - 1 = 0 THEN Nil ELSE r[1]
    <3>1. CASE k = 1
      BY <1>2, <2>1, <2>5, <3>1
    <3>2. CASE k > 1
      <4>1. n > 1 /\ 1 \in 1 .. n - 1
        BY <1>2, <3>2
      <4>2. r[1] = q[1]
        BY <3>2, <4>1
      <4>3. QED
        BY <1>2, <2>5, <3>2, <4>1, <4>2
    <3>3. QED
      BY <1>2, <3>1, <3>2
  <2>7. ASSUME NEW i \in 1 .. n - 1
        PROVE  next'[r[i]] = IF i < n - 1 THEN r[i + 1] ELSE Nil
    <3>1. i \in 1 .. n /\ i + 1 \in 1 .. n /\ (i < n - 1 => i + 1 \in 1 .. n - 1)
      BY <1>2
    <3>2. CASE i < k - 1
      <4>1. r[i] = q[i] /\ q[i] # q[k - 1] /\ q[i] # s /\ i < n - 1 /\ i + 1 < k
        BY <1>2, <2>1, <3>1, <3>2
      <4>2. next'[q[i]] = next[q[i]]
        BY <1>2, <2>1, <2>5, <3>1, <3>2, <4>1
      <4>3. QED
        BY <1>2, <3>1, <4>1, <4>2
    <3>3. CASE i = k - 1
      <4>1. r[i] = q[k - 1] /\ k > 1 /\ q[k - 1] # s /\ q[k - 1] \in Slots
        BY <1>2, <2>1, <3>1, <3>3
      <4>2. next'[r[i]] = next[s]
        BY <1>2, <2>5, <4>1
      <4>3. next[s] = IF k < n THEN q[k + 1] ELSE Nil
        BY <1>2, <2>1
      <4>4. i < n - 1 => r[i + 1] = q[k + 1]
        BY <1>2, <3>1, <3>3
      <4>5. QED
        BY <1>2, <3>3, <4>2, <4>3, <4>4
    <3>4. CASE i > k - 1
      <4>1. r[i] = q[i + 1] /\ q[i + 1] # s /\ q[i + 1] \in Slots
        BY <1>2, <2>1, <3>1, <3>4
      <4>2. k > 1 => q[i + 1] # q[k - 1]
        BY <1>2, <2>1, <3>1, <3>4
      <4>3. next'[q[i + 1]] = next[q[i + 1]]
        BY <1>2, <2>1, <2>5, <4>1, <4>2
      <4>4. next[q[i + 1]] = IF i + 1 < n THEN q[i + 2] ELSE Nil
        BY <1>2, <3>1
      <4>5. i < n - 1 => r[i + 1] = q[i + 2]
        BY <1>2, <3>1, <3>4
      <4>6. QED
        BY <1>2, <4>1, <4>3, <4>4, <4>5
    <3>5. QED
      BY <1>2, <2>1, <3>2, <3>3, <3>4
  <2>8. Chain(n - 1, r)'
    <3> HIDE DEF r
    <3>1. QED
      BY <2>3, <2>6, <2>7 DEF Chain
  <2>9. Listed' = {r[i] : i \in 1 .. n - 1}
    <3> HIDE DEF r
    <3>1. QED
      BY <2>8, ChainListsNext DEF ChainLists
  <2>10. QED
    BY <1>3, <2>4, <2>8, <2>9 DEF ListOK
<1>6. QED
  BY <1>4, <1>5

\* An entry that is put before all the others.
LEMMA InsertFirst ==
    ASSUME MemoryOK, ListOK, NEW e \in Slots, e \notin Listed,
           head' = e, next' = [next EXCEPT ![e] = head]
    PROVE  ListOK' /\ Listed' = Listed \cup {e}
<1>1. PICK n, q : Chain(n, q)
  BY DEF ListOK
<1>2. /\ n \in Nat /\ q \in [1 .. n -> Slots]
      /\ \A i, j \in 1 .. n : q[i] = q[j] => i = j
      /\ head = IF n = 0 THEN Nil ELSE q[1]
      /\ \A i \in 1 .. n : next[q[i]] = IF i < n THEN q[i + 1] ELSE Nil
      /\ next \in [Slots -> Slots \cup {Nil}]
  BY <1>1 DEF Chain, MemoryOK
<1>3. Listed = {q[i] : i \in 1 .. n}
  BY <1>1, ChainFacts
<1>4. \A i \in 1 .. n : q[i] # e
  BY <1>3
<1> DEFINE r == [i \in 1 .. n + 1 |-> IF i = 1 THEN e ELSE q[i - 1]]
<1>5. \A i \in 1 .. n + 1 : i = 1 \/ (i - 1 \in 1 .. n /\ (i - 1) + 1 = i)
  BY <1>2
<1>6. /\ n + 1 \in Nat /\ r \in [1 .. n + 1 -> Slots]
      /\ \A i, j \in 1 .. n + 1 : r[i] = r[j] => i = j
  BY <1>2, <1>4, <1>5
<1>7. ASSUME NEW i \in 1 .. n + 1
      PROVE  next'[r[i]] = IF i < n + 1 THEN r[i + 1] ELSE Nil
  <2>1. CASE i = 1
    <3>1. next'[r[i]] = head
      BY <1>2, <2>1
    <3>2. n # 0 => r[i + 1] = q[1]
      BY <1>2, <2>1
    <3>3. QED
      BY <1>2, <2>1, <3>1, <3>2
  <2>2. CASE i # 1
    <3>1. i - 1 \in 1 .. n /\ r[i] = q[i - 1] /\ q[i - 1] # e /\ q[i - 1] \in Slots
      BY <1>2, <1>4, <1>5, <2>2
    <3>2. next'[r[i]] = next[q[i - 1]]
      BY <1>2, <3>1
    <3>3. next[q[i - 1]] = IF i - 1 < n THEN q[(i - 1) + 1] ELSE Nil
      BY <1>2, <3>1
    <3>4. i < n + 1 => r[i + 1] = q[i] /\ i \in 1 .. n
      BY <1>2, <2>2
    <3>5. QED
      BY <1>2, <2>2, <3>2, <3>3, <3>4
  <2>3. QED
    BY <2>1, <2>2
<1>8. r[1] = e /\ n + 1 # 0
  BY <1>2
<1>9. {r[i] : i \in 1 .. n + 1} = {q[i] : i \in 1 .. n} \cup {e}
  <2>1. ASSUME NEW i \in 1 .. n PROVE \E j \in 1 .. n + 1 : r[j] = q[i]
    <3>1. i + 1 \in 1 .. n + 1 /\ i + 1 # 1 /\ (i + 1) - 1 = i
      BY <1>2
    <3>2. QED
      BY <3>1
  <2>2. 1 \in 1 .. n + 1
    BY <1>2
  <2>3. QED
    BY <1>5, <1>8, <2>1, <2>2
<1>10. Chain(n + 1, r)'
  <2> HIDE DEF r
  <2>1. QED
    BY <1>6, <1>7, <1>8 DEF Chain
<1>11. Listed' = {r[i] : i \in 1 .. n + 1}
  <2> HIDE DEF r
  <2>1. QED
    BY <1>10, ChainListsNext DEF ChainLists
<1>12. QED
  BY <1>3, <1>9, <1>10, <1>11 DEF ListOK

\* An entry that is put after another.
LEMMA InsertNext ==
    ASSUME MemoryOK, ListOK, NEW e \in Slots, e \notin Listed, NEW s \in Listed,
           InsertAfter(s, e), head' = head
    PROVE  ListOK' /\ Listed' = Listed \cup {e}
<1>1. PICK n, q : Chain(n, q)
  BY DEF ListOK
<1>2. /\ n \in Nat /\ q \in [1 .. n -> Slots]
      /\ \A i, j \in 1 .. n : q[i] = q[j] => i = j
      /\ head = IF n = 0 THEN Nil ELSE q[1]
      /\ \A i \in 1 .. n : next[q[i]] = IF i < n THEN q[i + 1] ELSE Nil
      /\ next \in [Slots -> Slots \cup {Nil}]
  BY <1>1 DEF Chain, MemoryOK
<1>3. Listed = {q[i] : i \in 1 .. n}
  BY <1>1, ChainFacts
<1>4. \A i \in 1 .. n : q[i] # e
  BY <1>3
<1>5. PICK k \in 1 .. n : q[k] = s
  BY <1>3
<1>6. \A x \in Slots : next'[x] = IF x = s THEN e ELSE IF x = e THEN next[s] ELSE next[x]
  <2>1. s \in Slots /\ s # e
    BY <1>2, <1>4, <1>5
  <2>2. QED
    BY <1>2, <2>1 DEF InsertAfter
<1> DEFINE r == [i \in 1 .. n + 1 |-> IF i <= k THEN q[i]
                                      ELSE IF i = k + 1 THEN e ELSE q[i - 1]]
<1>7. \A i \in 1 .. n + 1 :
          /\ i <= k => i \in 1 .. n
          /\ i > k + 1 => i - 1 \in 1 .. n /\ i - 1 > k
  BY <1>2
<1>8. /\ n + 1 \in Nat /\ r \in [1 .. n + 1 -> Slots]
      /\ \A i, j \in 1 .. n + 1 : r[i] = r[j] => i = j
  <2>1. r \in [1 .. n + 1 -> Slots]
    BY <1>2, <1>7
  <2>2. ASSUME NEW i \in 1 .. n + 1, NEW j \in 1 .. n + 1, r[i] = r[j] PROVE i = j
    <3>1. (i <= k \/ i = k + 1 \/ i > k + 1) /\ (j <= k \/ j = k + 1 \/ j > k + 1)
      BY <1>2
    <3>2. QED
      BY <1>2, <1>4, <1>7, <2>2, <3>1
  <2>3. QED
    BY <1>2, <2>1, <2>2
<1>9. ASSUME NEW i \in 1 .. n + 1
      PROVE  next'[r[i]] = IF i < n + 1 THEN r[i + 1] ELSE Nil
  <2>1. CASE i < k
    <3>1. i \in 1 .. n /\ i + 1 <= k /\ r[i] = q[i] /\ r[i + 1] = q[i + 1] /\ i < n
      BY <1>2, <2>1
    <3>2. q[i] # s /\ q[i] # e /\ q[i] \in Slots
      BY <1>2, <1>4, <1>5, <2>1, <3>1
    <3>3. next'[r[i]] = next[q[i]]
      BY <1>6, <3>1, <3>2
    <3>4. QED
      BY <1>2, <3>1, <3>3
  <2>2. CASE i = k
    <3>1. r[i] = s /\ s \in Slots /\ k + 1 \in 1 .. n + 1 /\ r[k + 1] = e
      BY <1>2, <1>5, <2>2
    <3>2. QED
      BY <1>2, <1>6, <2>2, <3>1
  <2>3. CASE i = k + 1
    <3>1. r[i] = e /\ e # s
      BY <1>2, <1>4, <1>5, <2>3
    <3>2. next'[r[i]] = next[s]
      BY <1>6, <3>1
    <3>3. next[s] = IF k < n THEN q[k + 1] ELSE Nil
      BY <1>2, <1>5
    <3>4. i < n + 1 => r[i + 1] = q[k + 1]
      BY <1>2, <2>3
    <3>5. QED
      BY <1>2, <2>3, <3>2, <3>3, <3>4
  <2>4. CASE i > k + 1
    <3>1. i - 1 \in 1 .. n /\ r[i] = q[i - 1] /\ i - 1 # k
      BY <1>2, <1>7, <2>4
    <3>2. q[i - 1] # s /\ q[i - 1] # e /\ q[i - 1] \in Slots
      BY <1>2, <1>4, <1>5, <3>1
    <3>3. next'[r[i]] = next[q[i - 1]]
      BY <1>6, <3>1, <3>2
    <3>4. next[q[i - 1]] = IF i - 1 < n THEN q[(i - 1) + 1] ELSE Nil
      BY <1>2, <3>1
    <3>5. i < n + 1 => r[i + 1] = q[i] /\ (i - 1) + 1 = i
      BY <1>2, <2>4
    <3>6. QED
      BY <1>2, <2>4, <3>3, <3>4, <3>5
  <2>5. QED
    BY <1>2, <2>1, <2>2, <2>3, <2>4
<1>10. head' = IF n + 1 = 0 THEN Nil ELSE r[1]
  <2>1. 1 \in 1 .. n + 1 /\ 1 <= k /\ n # 0
    BY <1>2
  <2>2. QED
    BY <1>2, <2>1
<1>11. {r[i] : i \in 1 .. n + 1} = {q[i] : i \in 1 .. n} \cup {e}
  <2>1. ASSUME NEW i \in 1 .. n PROVE \E j \in 1 .. n + 1 : r[j] = q[i]
    <3>1. CASE i <= k
      <4>1. i \in 1 .. n + 1 /\ r[i] = q[i]
        BY <1>2, <3>1
      <4>2. QED
        BY <4>1
    <3>2. CASE i > k
      <4>1. i + 1 \in 1 .. n + 1 /\ i + 1 > k + 1 /\ (i + 1) - 1 = i
        BY <1>2, <3>2
      <4>2. r[i + 1] = q[i]
        BY <1>2, <4>1
      <4>3. QED
        BY <4>1, <4>2
    <3>3. QED
      BY <1>2, <3>1, <3>2
  <2>2. k + 1 \in 1 .. n + 1 /\ r[k + 1] = e
    BY <1>2
  <2>3. \A i \in 1 .. n + 1 : r[i] = e \/ \E j \in 1 .. n : r[i] = q[j]
    BY <1>2, <1>7
  <2>4. \A i \in 1 .. n + 1 : r[i] \in {q[j] : j \in 1 .. n} \cup {e}
    BY <2>3
  <2>5. \A x \in {q[i] : i \in 1 .. n} \cup {e} : \E j \in 1 .. n + 1 : r[j] = x
    BY <2>1, <2>2
  <2> HIDE DEF r
  <2>6. QED
    BY <2>4, <2>5
<1>12. Chain(n + 1, r)'
  <2> HIDE DEF r
  <2>1. QED
    BY <1>8, <1>9, <1>10 DEF Chain
<1>13. Listed' = {r[i] : i \in 1 .. n + 1}
  <2> HIDE DEF r
  <2>1. QED
    BY <1>12, ChainListsNext DEF ChainLists
<1>14. QED
  BY <1>3, <1>11, <1>12, <1>13 DEF ListOK

\* A step that leaves the links alone leaves the list as it is.
LEMMA ListKept ==
    ASSUME UNCHANGED <<head, next>>
    PROVE  /\ Walk' = Walk /\ (ListOK' <=> ListOK)
           /\ Listed' = Listed /\ (Cyclic' <=> Cyclic)
           /\ \A a, s : From(a, s)' <=> From(a, s)
<1>1. Walk' = Walk
  BY DEF Walk
<1>2. \A n, q : Chain(n, q)' <=> Chain(n, q)
  BY DEF Chain
<1>3. QED
  BY <1>1, <1>2 DEF ListOK, Listed, Cyclic, From

\* The empty memory holds the empty list.
EmptyLists == head = Nil => ListOK /\ Listed = {}

\* Without a head the list is empty, in this state and in the next.
LEMMA ListEmpty == EmptyLists /\ EmptyLists'
<1>1. ASSUME head = Nil PROVE ListOK /\ Listed = {}
  <2> DEFINE q == [i \in 1 .. 0 |-> 1]
  <2>1. Chain(0, q)
    BY <1>1 DEF Chain
  <2>2. Listed = {q[k] : k \in 1 .. 0}
    BY <2>1, ChainFacts
  <2>3. QED
    BY <2>1, <2>2 DEF ListOK
<1>2. EmptyLists
  BY <1>1 DEF EmptyLists
<1>3. QED
  BY <1>2, PTL

\* Concatenations of three messages, element by element.
LEMMA OneAndTwo ==
    ASSUME NEW n, NEW m, NEW f, NEW s, NEW t, n = 1, m = 2,
           \A i \in 1 .. n + m : f[i] = IF i <= n THEN s[i] ELSE t[i - n]
    PROVE  f[1] = s[1] /\ f[2] = t[1] /\ f[3] = t[2]
OBVIOUS

\* The same of two and one.
LEMMA TwoAndOne ==
    ASSUME NEW n, NEW m, NEW f, NEW s, NEW t, n = 2, m = 1,
           \A i \in 1 .. n + m : f[i] = IF i <= n THEN s[i] ELSE t[i - n]
    PROVE  f[1] = s[1] /\ f[2] = s[2] /\ f[3] = t[1]
OBVIOUS

\* Three elements that are equal one by one.
LEMMA ThreeSame ==
    ASSUME NEW n, n = 3, NEW f, NEW c, f[1] = c[1] /\ f[2] = c[2] /\ f[3] = c[3]
    PROVE  \A i \in 1 .. n : f[i] = c[i]
OBVIOUS

\* Two sequences of three messages with the same messages are equal.
LEMMA ThreeEqual ==
    ASSUME NEW S, NEW f \in Seq(S), NEW c \in Seq(S), Len(f) = 3, Len(c) = 3,
           f[1] = c[1] /\ f[2] = c[2] /\ f[3] = c[3]
    PROVE  f = c
<1>1. \A i \in 1 .. Len(f) : f[i] = c[i]
  BY ThreeSame
<1>2. QED
  BY <1>1, SeqEqual

\* A concatenation of one and two messages, or of two and one.
LEMMA ConcatThree ==
    ASSUME NEW S, NEW s \in Seq(S), NEW t \in Seq(S), NEW c \in Seq(S), Len(c) = 3,
           \/ Len(s) = 1 /\ Len(t) = 2 /\ c[1] = s[1] /\ c[2] = t[1] /\ c[3] = t[2]
           \/ Len(s) = 2 /\ Len(t) = 1 /\ c[1] = s[1] /\ c[2] = s[2] /\ c[3] = t[1]
    PROVE  s \o t = c
<1>1. s \o t \in Seq(S) /\ Len(s \o t) = Len(s) + Len(t)
  BY ConcatProperties
<1>2. \A i \in 1 .. Len(s) + Len(t) :
        (s \o t)[i] = IF i <= Len(s) THEN s[i] ELSE t[i - Len(s)]
  BY ConcatProperties
<1>3. /\ (s \o t)[1] = c[1] /\ (s \o t)[2] = c[2] /\ (s \o t)[3] = c[3]
      /\ Len(s \o t) = 3
  <2>1. CASE Len(s) = 1 /\ Len(t) = 2 /\ c[1] = s[1] /\ c[2] = t[1] /\ c[3] = t[2]
    <3>1. (s \o t)[1] = s[1] /\ (s \o t)[2] = t[1] /\ (s \o t)[3] = t[2]
      BY <1>2, <2>1, OneAndTwo
    <3>2. QED
      BY <1>1, <2>1, <3>1
  <2>2. CASE Len(s) = 2 /\ Len(t) = 1 /\ c[1] = s[1] /\ c[2] = s[2] /\ c[3] = t[1]
    <3>1. (s \o t)[1] = s[1] /\ (s \o t)[2] = s[2] /\ (s \o t)[3] = t[1]
      BY <1>2, <2>2, TwoAndOne
    <3>2. QED
      BY <1>1, <2>2, <3>1
  <2>3. QED
    BY <2>1, <2>2
<1>4. QED
  BY <1>1, <1>3, ThreeEqual

\* What is appended to the queues of a user.
LEMMA Appended ==
    /\ Append(<<>>, "GRANTED") = <<"GRANTED">> /\ Append(<<>>, "REVOKED") = <<"REVOKED">>
    /\ <<"REVOKED">> \o <<"release", "terminate">> = <<"REVOKED", "release", "terminate">>
    /\ Append(<<"release", "terminate">>, "REVOKED") = <<"release", "terminate", "REVOKED">>
<1> DEFINE M == {"GRANTED", "REVOKED", "release", "terminate"}
           b == <<"release", "terminate">>
           c == <<"REVOKED", "release", "terminate">>
           d == <<"release", "terminate", "REVOKED">>
<1>1. /\ <<"REVOKED">> \in Seq(M) /\ b \in Seq(M) /\ c \in Seq(M) /\ d \in Seq(M)
      /\ <<>> \in Seq(M) /\ "GRANTED" \in M /\ "REVOKED" \in M
      /\ Len(<<"REVOKED">>) = 1 /\ Len(b) = 2 /\ Len(c) = 3 /\ Len(d) = 3
  OBVIOUS
<1>2. /\ <<"REVOKED">>[1] = "REVOKED" /\ b[1] = "release" /\ b[2] = "terminate"
      /\ c[1] = "REVOKED" /\ c[2] = "release" /\ c[3] = "terminate"
      /\ d[1] = "release" /\ d[2] = "terminate" /\ d[3] = "REVOKED"
  OBVIOUS
<1> HIDE DEF M, b, c, d
<1>3. <<"REVOKED">> \o b = c /\ b \o <<"REVOKED">> = d
  BY <1>1, <1>2, ConcatThree
<1>4. Append(b, "REVOKED") = d
  BY <1>1, <1>3, AppendIsConcat
<1>5. /\ Append(<<>>, "GRANTED") = <<>> \o <<"GRANTED">>
      /\ Append(<<>>, "REVOKED") = <<>> \o <<"REVOKED">>
  BY <1>1, AppendIsConcat
<1>6. QED
  BY <1>3, <1>4, <1>5 DEF b, c, d

-----------------------------------------------------------------------------
(* The orderly system: what its users, its entries and its loops are.    *)

\* The clients wait for each other and for an event before they release, and a
\* process dies only while it holds devices and does nothing else.
Orderly ==
    /\ ~Overlap /\ Patient /\ ~Repeat /\ ~InCallback
    /\ Deaths \subseteq {"holding"}
\* There is one microphone, every request is for it, and an output that can serve the
\* request, if it is for one, is there.
OneInput ==
    /\ InQty = 1 /\ InIds # {}
    /\ \A r \in Requests :
          r.in /\ (r.out # "none" => \E d \in OutIds : r.out \in OutCaps[d])

\* What is left of a handler.
ScrubAsk   == <<"scrub", "alloc", "fill", "add", "update">>
AllocRest  == <<"alloc", "fill", "add", "update">>
FillRest   == <<"fill", "add", "update">>
AddRest    == <<"add", "update">>
ScrubFree  == <<"scrub", "remove", "free", "update">>
RemoveRest == <<"remove", "free", "update">>
FreeRest   == <<"free", "update">>
ScrubTimer == <<"scrub", "update">>
UpdateRest == <<"update">>
GrantRest  == <<"grant", "set">>
SetRest    == <<"set">>
CallRest   == <<"callback">>
ListRest   == {ScrubAsk, AllocRest, FillRest, AddRest, ScrubFree, RemoveRest, FreeRest,
               ScrubTimer, UpdateRest}

\* Message queues: of a client that has not released, of a thread that has freed its
\* entry, and of a client that releases, before and after the release is read.
Calm    == {<<>>, <<"GRANTED">>, <<"REVOKED">>}
After   == {<<>>, <<"REVOKED">>}
Parting == {<<"release", "terminate">>, <<"REVOKED", "release", "terminate">>,
            <<"release", "terminate", "REVOKED">>}
Last    == {<<"terminate">>, <<"terminate", "REVOKED">>}

\* A user out of service, and one that is registered in the shared memory.
Out(u) ==
    /\ thr[u] = NoThread /\ mq[u] = <<>> /\ fifo[u] = <<>>
    /\ ~obj[u].requested /\ ~obj[u].running
    /\ obj[u].rec = None /\ obj[u].play = None
    /\ call[u] = "out" /\ told[u] = "none"
Registered(u) ==
    /\ Alive(u)
    /\ obj[u].requested /\ obj[u].running /\ obj[u].fresh /\ obj[u].fd
    /\ obj[u].uid \in UserIds /\ ids[obj[u].uid] = u
    /\ thr[u].uid = obj[u].uid /\ thr[u].fds
Untold(u) == call[u] = "out" /\ told[u] = "none"
Runs(u)   == thr[u].on /\ thr[u].running

\* The phases of a user in service: its request is to be read; it gets its entry; the
\* entry is in the list; the entry is on its way out; there is no entry any more.
Asks(u) ==
    /\ Runs(u) /\ Untold(u) /\ fifo[u] = <<>> /\ mq[u] = <<"request">>
    /\ thr[u].todo = <<>> /\ thr[u].entry = Nil /\ ~thr[u].timer
Enters(u) ==
    /\ Runs(u) /\ Untold(u) /\ fifo[u] = <<>> /\ mq[u] = <<>>
    /\ \/ thr[u].todo \in {ScrubAsk, AllocRest, <<>>} /\ thr[u].entry = Nil /\ ~thr[u].timer
       \/ thr[u].todo \in {FillRest, AddRest} /\ thr[u].entry \in Slots
Queued(u) ==
    /\ Runs(u) /\ fifo[u] \in Calm
    /\ \/ call[u] = "out" /\ mq[u] \in Calm
       \/ call[u] = "client" /\ mq[u] \in Parting /\ told[u] # "none"
    /\ thr[u].todo \in {ScrubTimer, UpdateRest, GrantRest, SetRest, CallRest, <<>>}
    /\ thr[u].entry \in Slots
Leaves(u) ==
    /\ Runs(u) /\ call[u] = "client" /\ fifo[u] \in After /\ mq[u] \in Last
    /\ thr[u].todo \in {ScrubFree, RemoveRest, FreeRest} /\ thr[u].entry \in Slots /\ ~thr[u].timer
Gone(u) ==
    /\ call[u] = "client" /\ fifo[u] \in After
    /\ thr[u].todo \in {<<>>, UpdateRest, CallRest}
    /\ thr[u].entry = Nil /\ ~thr[u].timer
    /\ \/ Runs(u) /\ mq[u] \in Last
       \/ /\ ~thr[u].running /\ mq[u] \in After /\ thr[u].todo # UpdateRest
          /\ thr[u].on \/ thr[u].todo = <<>>
UserOK(u) ==
    \/ Out(u)
    \/ Registered(u) /\ (Asks(u) \/ Enters(u) \/ Queued(u) \/ Leaves(u) \/ Gone(u))

\* An event for u is in its queue, in its fifo, or at hand.
Mailed == {<<"GRANTED">>, <<"REVOKED">>, <<"REVOKED", "release", "terminate">>,
           <<"release", "terminate", "REVOKED">>, <<"terminate", "REVOKED">>}
InMail(u)  == mq[u] \in Mailed
AtEvent(u) == thr[u].todo \in {GrantRest, CallRest}
Due(u)     == InMail(u) \/ fifo[u] # <<>> \/ AtEvent(u)
\* There is one at a time, and no second grant before the first is taken.
OneEvent(u) ==
    /\ ~(InMail(u) /\ fifo[u] # <<>>)
    /\ ~(InMail(u) /\ AtEvent(u)) /\ ~(fifo[u] # <<>> /\ AtEvent(u))
    /\ thr[u].todo = SetRest => mq[u] # <<"GRANTED">> /\ fifo[u] # <<"GRANTED">>
\* A grant is under way to the client.
GrantDue(u) == \/ mq[u] = <<"GRANTED">> \/ fifo[u] = <<"GRANTED">>
               \/ thr[u].todo \in {GrantRest, SetRest}
\* An event under way keeps the entry marked, a grant comes before all else, a revoke
\* is the last, and what the client was told of is held by its entry.
EventsOK(u) ==
    /\ OneEvent(u)
    /\ thr[u].entry # Nil /\ (Due(u) \/ told[u] = "revoked") =>
           slot[thr[u].entry].notified
    /\ GrantDue(u) => Untold(u)
    /\ told[u] = "revoked" => ~Due(u)
    /\ thr[u].entry # Nil /\ (Due(u) \/ GrantDue(u) \/ told[u] # "none") =>
           Held(thr[u].entry)
    /\ told[u] = "granted" /\ call[u] = "out" =>
           /\ obj[u].rec = slot[thr[u].entry].rec
           /\ obj[u].play = slot[thr[u].entry].play
    /\ call[u] = "client" => obj[u].rec = None /\ obj[u].play = None

\* The entry of a user carries its request and is in the list but at both ends.
MineOK(u) == thr[u].entry # Nil =>
    LET s == thr[u].entry IN
    IF thr[u].todo = FillRest THEN slot[s].prio = Free
    ELSE /\ slot[s].prio # Free /\ slot[s].owner = u /\ slot[s].uid = thr[u].uid
         /\ slot[s].in = req[u].in /\ slot[s].out = req[u].out
         /\ (s \in Listed <=> thr[u].todo \notin {AddRest, FreeRest})

\* An entry in use can be served, holds all it asks for or nothing, and is the entry of
\* its owner; if the owner is dead, it holds devices and is in the list.
UsedOK(s) ==
    /\ slot[s].owner \in Users /\ slot[s].uid \in UserIds /\ slot[s].in
    /\ slot[s].out # "none" => \E d \in OutIds : slot[s].out \in OutCaps[d]
    /\ Held(s) => slot[s].rec # None /\ (slot[s].out # "none" => slot[s].play # None)
    /\ IF Alive(slot[s].owner) THEN thr[slot[s].owner].entry = s
       ELSE Held(s) /\ s \in Listed
EntryOK(s) ==
    IF slot[s].prio = Free THEN slot[s] = EmptySlot /\ s \notin Listed ELSE UsedOK(s)

\* One user at a time works on the list, and one entry holds devices.
Lister(u) == mq[u] = <<"request">> \/ call[u] # "out" \/ thr[u].todo \in ListRest
OneLister == \A u, v \in Users : Lister(u) /\ Lister(v) => u = v
OneHolder == \A s, t \in Slots : Held(s) /\ Held(t) => s = t

\* The section of a loop.
Section == CASE scan.job = "scrub" -> "scrub" [] scan.job = "add" -> "add"
             [] OTHER -> "update"
\* A loop goes along the list. Behind the revokes there is no owner but the head or one
\* that was revoked; the grants have counted an owner or have none before them.
ScanOK ==
    /\ lock # None => /\ scan.job # "none" /\ thr[lock].todo # <<>>
                      /\ Head(thr[lock].todo) = Section
    /\ scan.job # "none" => lock # None
    /\ lock = None => scan.at = Nil
    /\ scan.at \in Listed \cup {Nil}
    /\ scan.job = "add" => scan.at # Nil
    /\ scan.job = "revoke" =>
          /\ scan.rec >= 1
          /\ ~scan.revoked => \A s \in Slots : Held(s) => s = head \/ From(scan.at, s)
    /\ scan.job = "grant" /\ scan.rec = 0 => \A s \in Slots : Held(s) => s = scan.at

\* v has not scrubbed the list since it registered.
Unscrubbed(v) == mq[v] = <<"request">>
                 \/ thr[v].todo = ScrubAsk
\* The user id of a stale entry may be registered again, by a user that has still to
\* scrub, and whose scrub has that entry ahead.
IdsOK == \A s \in Slots : Stale(s) /\ Addressee(s) # None /\ Alive(Addressee(s)) =>
            /\ Unscrubbed(Addressee(s))
            /\ scan.job = "scrub" => From(scan.at, s)

\* The invariant of an orderly system.
PerUser(u) == UserOK(u) /\ EventsOK(u) /\ MineOK(u)
OrderInv ==
    /\ \A u \in Users : PerUser(u)
    /\ \A s \in Slots : EntryOK(s)
    /\ ListOK /\ OneLister /\ OneHolder /\ ScanOK /\ IdsOK

-----------------------------------------------------------------------------
(* The sections of a handler, and what a step leaves alone.              *)

\* What is left of a handler after each section.
Rests == {ScrubAsk, AllocRest, FillRest, AddRest, ScrubFree, RemoveRest, FreeRest,
          ScrubTimer, UpdateRest, GrantRest, SetRest, CallRest}
RestFactsHold ==
    /\ Head(ScrubAsk) = "scrub" /\ Tail(ScrubAsk) = AllocRest /\ Len(ScrubAsk) = 5
    /\ Head(AllocRest) = "alloc" /\ Tail(AllocRest) = FillRest /\ Len(AllocRest) = 4
    /\ Head(FillRest) = "fill" /\ Tail(FillRest) = AddRest /\ Len(FillRest) = 3
    /\ Head(AddRest) = "add" /\ Tail(AddRest) = UpdateRest /\ Len(AddRest) = 2
    /\ Head(ScrubFree) = "scrub" /\ Tail(ScrubFree) = RemoveRest /\ Len(ScrubFree) = 4
    /\ Head(RemoveRest) = "remove" /\ Tail(RemoveRest) = FreeRest /\ Len(RemoveRest) = 3
    /\ Head(FreeRest) = "free" /\ Tail(FreeRest) = UpdateRest /\ Len(FreeRest) = 2
    /\ Head(ScrubTimer) = "scrub" /\ Tail(ScrubTimer) = UpdateRest /\ Len(ScrubTimer) = 2
    /\ Head(UpdateRest) = "update" /\ Tail(UpdateRest) = <<>> /\ Len(UpdateRest) = 1
    /\ Head(GrantRest) = "grant" /\ Tail(GrantRest) = SetRest /\ Len(GrantRest) = 2
    /\ Head(SetRest) = "set" /\ Tail(SetRest) = <<>> /\ Len(SetRest) = 1
    /\ Head(CallRest) = "callback" /\ Tail(CallRest) = <<>> /\ Len(CallRest) = 1
    /\ \A t \in Rests : t # <<>>

\* The first section of each rest, and what is left after it.
LEMMA RestFacts == RestFactsHold
<1>1. /\ Head(ScrubAsk) = "scrub" /\ Tail(ScrubAsk) = AllocRest /\ Len(ScrubAsk) = 5
      /\ Head(AllocRest) = "alloc" /\ Tail(AllocRest) = FillRest /\ Len(AllocRest) = 4
      /\ Head(FillRest) = "fill" /\ Tail(FillRest) = AddRest /\ Len(FillRest) = 3
      /\ Head(AddRest) = "add" /\ Tail(AddRest) = UpdateRest /\ Len(AddRest) = 2
  BY DEF ScrubAsk, AllocRest, FillRest, AddRest, UpdateRest
<1>2. /\ Head(ScrubFree) = "scrub" /\ Tail(ScrubFree) = RemoveRest /\ Len(ScrubFree) = 4
      /\ Head(RemoveRest) = "remove" /\ Tail(RemoveRest) = FreeRest /\ Len(RemoveRest) = 3
      /\ Head(FreeRest) = "free" /\ Tail(FreeRest) = UpdateRest /\ Len(FreeRest) = 2
      /\ Head(ScrubTimer) = "scrub" /\ Tail(ScrubTimer) = UpdateRest /\ Len(ScrubTimer) = 2
  BY DEF ScrubFree, RemoveRest, FreeRest, ScrubTimer, UpdateRest
<1>3. /\ Head(UpdateRest) = "update" /\ Tail(UpdateRest) = <<>> /\ Len(UpdateRest) = 1
      /\ Head(GrantRest) = "grant" /\ Tail(GrantRest) = SetRest /\ Len(GrantRest) = 2
      /\ Head(SetRest) = "set" /\ Tail(SetRest) = <<>> /\ Len(SetRest) = 1
      /\ Head(CallRest) = "callback" /\ Tail(CallRest) = <<>> /\ Len(CallRest) = 1
  BY DEF UpdateRest, GrantRest, SetRest, CallRest
<1>4. \A t \in Rests : t # <<>>
  BY DEF Rests, ScrubAsk, AllocRest, FillRest, AddRest, ScrubFree, RemoveRest, FreeRest,
         ScrubTimer, UpdateRest, GrantRest, SetRest, CallRest
<1>5. QED
  BY <1>1, <1>2, <1>3, <1>4 DEF RestFactsHold

\* The rests that work on the list, those between Alloc and the entry's place in the
\* list, and the others.
RestKindsHold ==
    /\ \A t \in {<<>>, GrantRest, SetRest, CallRest} :
          t \notin ListRest /\ t \notin {FillRest, AddRest, FreeRest}
    /\ \A t \in {ScrubAsk, AllocRest, ScrubFree, RemoveRest, ScrubTimer, UpdateRest} :
          t \notin {FillRest, AddRest, FreeRest}
    /\ ScrubAsk \notin {<<>>, GrantRest, SetRest, CallRest, AllocRest, FillRest, AddRest,
                        ScrubFree, RemoveRest, FreeRest, ScrubTimer, UpdateRest}
    /\ GrantRest \notin {<<>>, SetRest, CallRest, ScrubTimer, UpdateRest}
    /\ SetRest \notin {<<>>, CallRest, ScrubTimer, UpdateRest}
    /\ CallRest \notin {<<>>, ScrubTimer, UpdateRest}

\* The rests differ as their first sections and their lengths do.
LEMMA RestKinds == RestKindsHold
<1>1. \A t \in {<<>>, GrantRest, SetRest, CallRest} :
        t \notin ListRest /\ t \notin {FillRest, AddRest, FreeRest}
  BY RestFacts DEF RestFactsHold, Rests, ListRest
<1>2. \A t \in {ScrubAsk, AllocRest, ScrubFree, RemoveRest, ScrubTimer, UpdateRest} :
        t \notin {FillRest, AddRest, FreeRest}
  BY RestFacts DEF RestFactsHold
<1>3. ScrubAsk \notin {<<>>, GrantRest, SetRest, CallRest, AllocRest, FillRest, AddRest,
                      ScrubFree, RemoveRest, FreeRest, ScrubTimer, UpdateRest}
  BY RestFacts DEF RestFactsHold, Rests
<1>4. /\ GrantRest \notin {<<>>, SetRest, CallRest, ScrubTimer, UpdateRest}
      /\ SetRest \notin {<<>>, CallRest, ScrubTimer, UpdateRest}
      /\ CallRest \notin {<<>>, ScrubTimer, UpdateRest}
  BY RestFacts DEF RestFactsHold, Rests
<1>5. QED
  BY <1>1, <1>2, <1>3, <1>4 DEF RestKindsHold

\* Every user is out of service or has one of these left.
LEMMA UserRests ==
    ASSUME NEW u \in Users, UserOK(u)
    PROVE  /\ thr[u].todo \in Rests \cup {<<>>}
           /\ thr[u].todo # <<>> => Registered(u) /\ ~Out(u) /\ ~Asks(u)
<1>1. CASE Out(u)
  BY <1>1 DEF Out, NoThread
<1>2. CASE Registered(u) /\ (Asks(u) \/ Enters(u) \/ Queued(u) \/ Leaves(u) \/ Gone(u))
  BY <1>2 DEF Registered, Asks, Enters, Queued, Leaves, Gone, Rests, Out
<1>3. QED
  BY <1>1, <1>2 DEF UserOK

\* The section a thread is in tells what its handler has left, and its phase.
LEMMA InRest ==
    ASSUME NEW u \in Users, UserOK(u), NEW name, In(u, name)
    PROVE  /\ Registered(u)
           /\ name = "scrub" => thr[u].todo \in {ScrubAsk, ScrubFree, ScrubTimer}
           /\ name = "alloc" => thr[u].todo = AllocRest /\ Enters(u)
           /\ name = "fill" => thr[u].todo = FillRest /\ Enters(u)
           /\ name = "add" => thr[u].todo = AddRest /\ Enters(u)
           /\ name = "remove" => thr[u].todo = RemoveRest /\ Leaves(u)
           /\ name = "free" => thr[u].todo = FreeRest /\ Leaves(u)
           /\ name = "update" => thr[u].todo = UpdateRest /\ (Queued(u) \/ Gone(u))
           /\ name = "grant" => thr[u].todo = GrantRest /\ Queued(u)
           /\ name = "set" => thr[u].todo = SetRest /\ Queued(u)
           /\ name = "callback" => thr[u].todo = CallRest /\ (Queued(u) \/ Gone(u))
           /\ name # "stuck"
<1>1. thr[u].todo \in Rests /\ Registered(u) /\ Head(thr[u].todo) = name
      /\ (Enters(u) \/ Queued(u) \/ Leaves(u) \/ Gone(u))
  BY UserRests DEF In, Idle, UserOK
<1>2. /\ name = "scrub" => thr[u].todo \in {ScrubAsk, ScrubFree, ScrubTimer}
      /\ name = "alloc" => thr[u].todo = AllocRest
      /\ name = "fill" => thr[u].todo = FillRest
      /\ name = "add" => thr[u].todo = AddRest
      /\ name = "remove" => thr[u].todo = RemoveRest
      /\ name = "free" => thr[u].todo = FreeRest
      /\ name = "update" => thr[u].todo = UpdateRest
      /\ name = "grant" => thr[u].todo = GrantRest
      /\ name = "set" => thr[u].todo = SetRest
      /\ name = "callback" => thr[u].todo = CallRest
      /\ name # "stuck"
  BY <1>1, RestFacts DEF Rests, RestFactsHold
<1>3. QED
  BY <1>1, <1>2, RestFacts DEF RestFactsHold, Enters, Queued, Leaves, Gone

-----------------------------------------------------------------------------
(* What a step leaves alone.                                               *)

\* What is kept of the state of a user.
SameState(v) ==
    /\ thr'[v] = thr[v] /\ mq'[v] = mq[v] /\ fifo'[v] = fifo[v] /\ obj'[v] = obj[v]
    /\ call'[v] = call[v] /\ told'[v] = told[v] /\ req'[v] = req[v]
\* A user whose state and entry a step leaves alone stays as it is.
LEMMA SameUserStays ==
    ASSUME NEW v \in Users, PerUser(v), SameState(v), Alive(v)' <=> Alive(v),
           obj[v].requested => ids'[obj[v].uid] = ids[obj[v].uid],
           thr[v].entry # Nil => /\ slot'[thr[v].entry] = slot[thr[v].entry]
                                 /\ thr[v].entry \in Listed' <=> thr[v].entry \in Listed
    PROVE  PerUser(v)'
<1>1. UserOK(v)'
  BY DEF PerUser, SameState, UserOK, Out, Registered, Asks, Enters, Queued, Leaves, Gone,
         Untold, Runs
<1>2. EventsOK(v)'
  <2>1. (Due(v)' <=> Due(v)) /\ (GrantDue(v)' <=> GrantDue(v)) /\ (OneEvent(v)' <=> OneEvent(v))
    BY DEF SameState, Due, GrantDue, OneEvent, InMail, AtEvent, Mailed
  <2>2. thr[v].entry # Nil => (Held(thr[v].entry)' <=> Held(thr[v].entry))
    BY DEF Held, SameState
  <2>3. (Untold(v)' <=> Untold(v))
    BY DEF SameState, Untold
  <2>4. told[v] = "granted" /\ call[v] = "out" => thr[v].entry # Nil
    BY DEF PerUser, UserOK, Out, Asks, Enters, Queued, Leaves, Gone, Untold, Nil, Slots
  <2>5. QED
    BY <2>1, <2>2, <2>3, <2>4 DEF PerUser, EventsOK, SameState
<1>3. MineOK(v)'
  BY DEF PerUser, MineOK, SameState
<1>4. QED
  BY <1>1, <1>2, <1>3 DEF PerUser

\* The same in a step that ends no process.
LEMMA SameUser ==
    ASSUME NEW v \in Users, PerUser(v), SameState(v), UNCHANGED alive,
           obj[v].requested => ids'[obj[v].uid] = ids[obj[v].uid],
           thr[v].entry # Nil => /\ slot'[thr[v].entry] = slot[thr[v].entry]
                                 /\ thr[v].entry \in Listed' <=> thr[v].entry \in Listed
    PROVE  PerUser(v)'
BY SameUserStays DEF Alive

\* No two users have the same entry.
LEMMA EntriesDiffer ==
    ASSUME OrderInv, NEW u \in Users, NEW v \in Users, u # v, thr[u].entry # Nil
    PROVE  thr[u].entry # thr[v].entry
BY DEF OrderInv, PerUser, MineOK, OneLister, Lister, ListRest

\* A step of user u that leaves the memory alone, and the other users.
OwnFrame(u) ==
    /\ UNCHANGED <<memory, ids, req, alive>>
    /\ \A v \in Users \ {u} : SameState(v)
    /\ thr'[u].entry = thr[u].entry /\ thr'[u].uid = thr[u].uid
    /\ thr'[u].todo = FillRest <=> thr[u].todo = FillRest
    /\ thr'[u].todo \in {AddRest, FreeRest} <=> thr[u].todo \in {AddRest, FreeRest}

\* Such a step keeps the invariant when the user itself stays in order.
LEMMA OwnStep ==
    ASSUME OrderInv, NEW u \in Users, OwnFrame(u),
           UserOK(u)', EventsOK(u)', ScanOK', IdsOK',
           Lister(u)' => Lister(u) \/ \A v \in Users \ {u} : ~Lister(v)
    PROVE  OrderInv'
<1>1. UNCHANGED <<head, next, slot, ids, req, alive>> /\ \A v \in Users \ {u} : SameState(v)
  BY DEF OwnFrame, memory
<1>2. ListOK' /\ Listed' = Listed
  BY <1>1, ListKept DEF OrderInv
<1>3. \A v \in Users : thr'[v].entry = thr[v].entry
  BY <1>1 DEF OwnFrame, SameState
<1>4. ASSUME NEW v \in Users PROVE PerUser(v)'
  <2>1. CASE v = u
    <3>1. MineOK(u)'
      BY <1>1, <1>2 DEF OwnFrame, OrderInv, PerUser, MineOK
    <3>2. QED
      BY <2>1, <3>1 DEF PerUser
  <2>2. CASE v # u
    BY <1>1, <1>2, <2>2, SameUser DEF OrderInv
  <2>3. QED
    BY <2>1, <2>2
<1>5. ASSUME NEW s \in Slots PROVE EntryOK(s)'
  <2>1. slot'[s] = slot[s] /\ (s \in Listed' <=> s \in Listed) /\ (Held(s)' <=> Held(s))
    BY <1>1, <1>2 DEF Held
  <2>2. EntryOK(s)
    BY DEF OrderInv
  <2>3. slot[s].prio # Free => slot[s].owner \in Users /\ (Alive(slot[s].owner)' <=> Alive(slot[s].owner))
    BY <1>1, <2>2 DEF EntryOK, UsedOK, Alive
  <2>4. QED
    BY <1>1, <1>3, <2>1, <2>2, <2>3 DEF EntryOK, UsedOK, Alive
<1>6. OneLister'
  <2>1. \A v \in Users \ {u} : Lister(v)' <=> Lister(v)
    BY <1>1 DEF SameState, Lister
  <2>2. QED
    BY <2>1 DEF OrderInv, OneLister
<1>7. OneHolder'
  BY <1>1 DEF OrderInv, OneHolder, Held
<1>8. QED
  BY <1>2, <1>4, <1>5, <1>6, <1>7 DEF OrderInv

\* The memory and the loop stay as they are.
LEMMA ScanKept ==
    ASSUME OrderInv, UNCHANGED <<memory, lock, scan>>,
           lock # None => thr'[lock].todo = thr[lock].todo
    PROVE  ScanOK'
<1>1. UNCHANGED <<head, next, slot>>
  BY DEF memory
<1>2. /\ Listed' = Listed /\ \A a, s : From(a, s)' <=> From(a, s)
  BY <1>1, ListKept
<1>3. \A s : Held(s)' <=> Held(s)
  BY <1>1 DEF Held
<1>4. Section' = Section
  BY DEF Section
<1>5. QED
  BY <1>1, <1>2, <1>3, <1>4 DEF OrderInv, ScanOK

\* A stale entry is in use, in the list, and has a user id.
LEMMA StaleEntry ==
    ASSUME ResourceInv, OrderInv, NEW s \in Slots, Stale(s)
    PROVE  /\ slot[s].prio # Free /\ Held(s) /\ s \in Listed
           /\ slot[s].uid \in UserIds /\ slot[s].owner \in Users
           /\ Addressee(s) \in Users \cup {None}
<1>1. EntryOK(s)
  BY DEF OrderInv
<1>2. slot[s].prio # Free
  BY <1>1 DEF EntryOK, EmptySlot, Stale
<1>3. QED
  BY <1>1, <1>2 DEF EntryOK, UsedOK, Stale, Addressee, ResourceInv, TypesInv, WorldOK, MemoryOK

\* No entry becomes stale, and no scrub goes on.
LEMMA IdsKept ==
    ASSUME ResourceInv, OrderInv, UNCHANGED <<memory, ids, alive>>,
           \A v \in Users : Unscrubbed(v) => Unscrubbed(v)',
           scan'.job = "scrub" => scan' = scan
    PROVE  IdsOK'
<1>1. UNCHANGED <<head, next, slot, ids, alive>>
  BY DEF memory
<1>2. Walk' = Walk
  BY <1>1, ListKept
<1>3. ASSUME NEW s \in Slots, Stale(s)', Addressee(s)' # None, Alive(Addressee(s))'
      PROVE  /\ Unscrubbed(Addressee(s))'
             /\ scan'.job = "scrub" => From(scan.at, s)'
  <2>1. Stale(s) /\ Addressee(s)' = Addressee(s) /\ Addressee(s) # None /\ Alive(Addressee(s))
    BY <1>1, <1>3 DEF Stale, Addressee, Alive
  <2>2. Addressee(s) \in Users
    BY <2>1, StaleEntry
  <2>3. Unscrubbed(Addressee(s)) /\ (scan.job = "scrub" => From(scan.at, s))
    BY <2>1 DEF OrderInv, IdsOK
  <2>4. PICK a \in Users : a = Addressee(s) /\ Unscrubbed(a)
    BY <2>1, <2>2, <2>3
  <2>5. Unscrubbed(a)' /\ Addressee(s)' = a
    BY <2>1, <2>4
  <2>6. Unscrubbed(Addressee(s))'
    BY <2>5 DEF Unscrubbed
  <2>7. scan'.job = "scrub" => From(scan.at, s)'
    BY <1>2, <2>3 DEF From
  <2>8. QED
    BY <2>6, <2>7
<1>4. QED
  BY <1>3 DEF IdsOK

-----------------------------------------------------------------------------
(* The messages: what a thread reads, and what it does next.             *)

\* The variables are functions of the users.
PerUserTypes ==
    /\ thr \in [Users -> ThreadShape] /\ mq \in [Users -> Seq(FromClient \cup Events)]
    /\ fifo \in [Users -> Seq(Events)] /\ obj \in [Users -> ObjectType]
    /\ call \in [Users -> {"out", "client", "callback"}]
    /\ told \in [Users -> {"none", "granted", "revoked"}]
    /\ req \in [Users -> Requests]
    /\ slot \in [Slots -> SlotType]
    /\ lock \in Users \cup {None}

\* These types are part of the invariant of TypeOK.
LEMMA UserTypes == ResourceInv => PerUserTypes
BY DEF ResourceInv, TypesInv, ThreadsOK, InputsOK, ClientsOK, MemoryOK, LoopOK, PerUserTypes

\* What is left of the messages after the first.
MailFactsHold ==
    /\ Head(<<"request">>) = "request" /\ Tail(<<"request">>) = <<>>
    /\ Head(<<"GRANTED">>) = "GRANTED" /\ Tail(<<"GRANTED">>) = <<>>
    /\ Head(<<"REVOKED">>) = "REVOKED" /\ Tail(<<"REVOKED">>) = <<>>
    /\ Head(<<"terminate">>) = "terminate" /\ Tail(<<"terminate">>) = <<>>
    /\ Head(<<"terminate", "REVOKED">>) = "terminate"
    /\ Tail(<<"terminate", "REVOKED">>) = <<"REVOKED">>
    /\ Head(<<"release", "terminate">>) = "release"
    /\ Tail(<<"release", "terminate">>) = <<"terminate">>
    /\ Head(<<"REVOKED", "release", "terminate">>) = "REVOKED"
    /\ Tail(<<"REVOKED", "release", "terminate">>) = <<"release", "terminate">>
    /\ Head(<<"release", "terminate", "REVOKED">>) = "release"
    /\ Tail(<<"release", "terminate", "REVOKED">>) = <<"terminate", "REVOKED">>

\* The first message of each queue, and what is left after it.
LEMMA MailFacts == MailFactsHold
BY DEF MailFactsHold

\* The queues of the phases differ.
MailKindsHold ==
    /\ \A q \in Calm \cup After \cup Parting \cup Last : q # <<"request">>
    /\ \A q \in Calm : q \notin Parting /\ q \notin Last
    /\ \A q \in Parting : q \notin Last
    /\ \A q \in Parting \cup Last \cup {<<"request">>, <<"GRANTED">>, <<"REVOKED">>} : q # <<>>
    /\ <<"GRANTED">> \notin After \cup Parting \cup Last
    /\ \A q \in {<<>>, <<"request">>, <<"terminate">>, <<"release", "terminate">>} :
          q \notin Mailed
    /\ \A q \in {<<"GRANTED">>, <<"REVOKED">>, <<"REVOKED", "release", "terminate">>,
                <<"release", "terminate", "REVOKED">>, <<"terminate", "REVOKED">>} :
          q \in Mailed

\* The queues differ as their messages and their lengths do.
LEMMA MailKinds == MailKindsHold
<1>1. /\ Len(<<>>) = 0 /\ Len(<<"request">>) = 1 /\ Len(<<"GRANTED">>) = 1
      /\ Len(<<"REVOKED">>) = 1 /\ Len(<<"terminate">>) = 1
      /\ Len(<<"terminate", "REVOKED">>) = 2 /\ Len(<<"release", "terminate">>) = 2
      /\ Len(<<"REVOKED", "release", "terminate">>) = 3
      /\ Len(<<"release", "terminate", "REVOKED">>) = 3
  OBVIOUS
<1>2. \A q \in Calm \cup After \cup Parting \cup Last : q # <<"request">>
  BY <1>1, MailFacts DEF MailFactsHold, Calm, After, Parting, Last
<1>3. \A q \in Calm : q \notin Parting /\ q \notin Last
  BY <1>1, MailFacts DEF MailFactsHold, Calm, Parting, Last
<1>4. \A q \in Parting : q \notin Last
  BY <1>1, MailFacts DEF MailFactsHold, Parting, Last
<1>5. \A q \in Parting \cup Last \cup {<<"request">>, <<"GRANTED">>, <<"REVOKED">>} : q # <<>>
  BY <1>1 DEF Parting, Last
<1>6. <<"GRANTED">> \notin After \cup Parting \cup Last
  BY <1>1, MailFacts DEF MailFactsHold, After, Parting, Last
<1>7. \A q \in {<<>>, <<"request">>, <<"terminate">>, <<"release", "terminate">>} :
        q \notin Mailed
  BY <1>1, MailFacts DEF MailFactsHold, Mailed
<1>8. \A q \in {<<"GRANTED">>, <<"REVOKED">>, <<"REVOKED", "release", "terminate">>,
              <<"release", "terminate", "REVOKED">>, <<"terminate", "REVOKED">>} :
        q \in Mailed
  BY DEF Mailed
<1>9. QED
  BY <1>2, <1>3, <1>4, <1>5, <1>6, <1>7, <1>8 DEF MailKindsHold

\* What the handler of a message leaves to do.
HandlerOf(u, m) ==
    /\ m = "request" /\ thr[u].entry = Nil =>
          thr'[u].todo = ScrubAsk /\ thr'[u].timer = thr[u].timer
    /\ m = "release" => thr'[u].todo = ScrubFree /\ ~thr'[u].timer
    /\ m = "GRANTED" => thr'[u].todo = GrantRest /\ ~thr'[u].timer
    /\ m = "REVOKED" => thr'[u].todo = CallRest /\ thr'[u].timer = thr[u].timer
    /\ m = "terminate" => thr'[u].todo = thr[u].todo /\ thr'[u].timer = thr[u].timer
    /\ thr'[u].running = IF m = "terminate" THEN FALSE ELSE thr[u].running
    /\ thr'[u].on = thr[u].on /\ thr'[u].entry = thr[u].entry
    /\ thr'[u].fds = thr[u].fds /\ thr'[u].uid = thr[u].uid
    /\ \A v \in Users \ {u} : thr'[v] = thr[v]

\* A handler sets the sections of its message, and nothing of other users.
LEMMA HandlerLeads ==
    ASSUME PerUserTypes, NEW u \in Users, NEW m \in FromClient \cup Events, NEW also,
           Handler(u, m, also)
    PROVE  HandlerOf(u, m)
<1> DEFINE t == [thr[u] EXCEPT !.also = also]
<1>0. thr[u] \in ThreadShape
  BY DEF PerUserTypes
<1>1. /\ t.todo = thr[u].todo /\ t.timer = thr[u].timer /\ t.running = thr[u].running
      /\ t.on = thr[u].on /\ t.entry = thr[u].entry /\ t.fds = thr[u].fds
      /\ t.uid = thr[u].uid
      /\ t = [on |-> thr[u].on, todo |-> thr[u].todo, also |-> also,
              entry |-> thr[u].entry, timer |-> thr[u].timer, running |-> thr[u].running,
              fds |-> thr[u].fds, uid |-> thr[u].uid]
  BY <1>0 DEF ThreadShape
<1>2. m \in {"request", "release", "GRANTED", "REVOKED", "terminate"}
  BY DEF FromClient, Events
<1>3. thr' = [thr EXCEPT ![u] =
        CASE m = "request" -> [t EXCEPT !.todo = RequestSections(t.entry)]
          [] m = "release" -> [t EXCEPT !.todo = ReleaseSections, !.timer = FALSE]
          [] m = "GRANTED" -> [t EXCEPT !.todo = <<"grant", "set">>, !.timer = FALSE]
          [] m = "REVOKED" -> [t EXCEPT !.todo = <<"callback">>]
          [] m = "terminate" -> [t EXCEPT !.running = FALSE]]
  BY DEF Handler
<1> HIDE DEF t
<1>4. \A v \in Users \ {u} : thr'[v] = thr[v]
  BY <1>3 DEF PerUserTypes
<1>5. CASE m = "request"
  BY <1>1, <1>3, <1>4, <1>5 DEF PerUserTypes, HandlerOf, RequestSections, ScrubAsk
<1>6. CASE m = "release"
  BY <1>1, <1>3, <1>4, <1>6 DEF PerUserTypes, HandlerOf, ReleaseSections, ScrubFree
<1>7. CASE m = "GRANTED"
  BY <1>1, <1>3, <1>4, <1>7 DEF PerUserTypes, HandlerOf, GrantRest
<1>8. CASE m = "REVOKED"
  BY <1>1, <1>3, <1>4, <1>8 DEF PerUserTypes, HandlerOf, CallRest
<1>9. CASE m = "terminate"
  BY <1>1, <1>3, <1>4, <1>9 DEF PerUserTypes, HandlerOf
<1>10. QED
  BY <1>2, <1>5, <1>6, <1>7, <1>8, <1>9

\* A step of a user that has not the lock, outside the memory.
LEMMA FreeStep ==
    ASSUME ResourceInv, OrderInv, NEW u \in Users, OwnFrame(u), UNCHANGED <<lock, scan>>,
           lock = u => thr'[u].todo = thr[u].todo, UserOK(u)', EventsOK(u)', Unscrubbed(u) => Unscrubbed(u)',
           Lister(u)' => Lister(u) \/ \A v \in Users \ {u} : ~Lister(v)
    PROVE  OrderInv'
<1>1. ScanOK'
  <2>1. lock # None => lock \in Users
    BY UserTypes DEF PerUserTypes
  <2>2. QED
    BY <2>1, ScanKept DEF OwnFrame, SameState
<1>2. IdsOK'
  <2>1. \A v \in Users : Unscrubbed(v) => Unscrubbed(v)'
    BY DEF OwnFrame, SameState, Unscrubbed
  <2>2. QED
    BY <2>1, IdsKept DEF OwnFrame
<1>3. QED
  BY <1>1, <1>2, OwnStep

\* A thread that waits for its next message is registered, and has no lock.
LEMMA ReadyUser ==
    ASSUME OrderInv, NEW u \in Users, Ready(u)
    PROVE  /\ Registered(u) /\ lock # u /\ thr[u].todo = <<>> /\ thr[u].on
           /\ Asks(u) \/ Enters(u) \/ Queued(u) \/ Gone(u)
<1>1. UserOK(u) /\ thr[u].on /\ Alive(u) /\ thr[u].todo = <<>>
  BY DEF OrderInv, PerUser, Ready, Live, Idle
<1>2. ~Out(u) /\ ~Leaves(u)
  BY <1>1, RestFacts DEF RestFactsHold, Rests, Leaves, Out, NoThread
<1>3. lock # u
  BY <1>1, UsersAssumption DEF OrderInv, ScanOK
<1>4. QED
  BY <1>1, <1>2, <1>3 DEF UserOK

\* No new event for a user, and no change of what it was told.
LEMMA EventsKept ==
    ASSUME NEW u \in Users, EventsOK(u), OneEvent(u)',
           Due(u)' => Due(u), GrantDue(u)' => GrantDue(u),
           thr'[u].entry = thr[u].entry, slot' = slot,
           obj'[u] = obj[u], told'[u] = told[u], call'[u] = call[u]
    PROVE  EventsOK(u)'
<1>1. Untold(u)' <=> Untold(u)
  BY DEF Untold
<1>2. Held(thr[u].entry)' <=> Held(thr[u].entry)
  BY DEF Held
<1>3. QED
  BY <1>1, <1>2 DEF EventsOK

\* The handler of a message.
LEMMA ReadQueueOrderly ==
    ASSUME ResourceInv, OrderInv, NEW u \in Users, ReadQueue(u)
    PROVE  OrderInv'
<1> DEFINE m == Head(mq[u])
<1>1. /\ Registered(u) /\ lock # u /\ thr[u].todo = <<>> /\ thr[u].on
      /\ Asks(u) \/ Enters(u) \/ Queued(u) \/ Gone(u)
      /\ thr[u].running /\ mq[u] # <<>>
  BY ReadyUser DEF ReadQueue, QueueNext
<1>2. /\ PerUserTypes /\ m \in FromClient \cup Events
  BY <1>1, UserTypes DEF PerUserTypes
<1>3. /\ \/ Asks(u) /\ m = "request" /\ Tail(mq[u]) = <<>>
         \/ Queued(u) /\ m \in {"GRANTED", "REVOKED"} /\ Tail(mq[u]) = <<>> /\ call[u] = "out"
         \/ /\ Queued(u) /\ m = "REVOKED" /\ Tail(mq[u]) = <<"release", "terminate">>
            /\ call[u] = "client"
         \/ Queued(u) /\ m = "release" /\ Tail(mq[u]) \in Last /\ call[u] = "client"
         \/ Gone(u) /\ m = "terminate" /\ Tail(mq[u]) \in After /\ thr[u].running
      /\ mq[u] = <<"request">> => m = "request"
      /\ m = "GRANTED" => mq[u] = <<"GRANTED">>
      /\ m = "REVOKED" => mq[u] \in Mailed
      /\ Tail(mq[u]) \in Mailed => mq[u] \in Mailed
      /\ Tail(mq[u]) # <<"request">>
      /\ fifo[u] \in Calm /\ (call[u] # "out" => fifo[u] \in After)
  <2>1. EventsOK(u)
    BY DEF OrderInv, PerUser
  <2>2. fifo[u] \in Calm /\ (call[u] # "out" => fifo[u] \in After)
    BY <1>1, <2>1 DEF EventsOK, GrantDue, Untold, Asks, Enters, Queued, Gone, Calm, After
  <2>3. mq[u] = <<"request">> => m = "request"
    BY MailFacts DEF MailFactsHold
  <2>4. CASE Asks(u)
    BY <2>2, <2>3, <2>4, MailFacts, MailKinds DEF MailFactsHold, MailKindsHold, Asks
  <2>5. CASE Queued(u) /\ mq[u] \in Calm
    <3>1. call[u] = "out" /\ mq[u] \in {<<"GRANTED">>, <<"REVOKED">>}
      BY <1>1, <2>5, MailKinds DEF MailKindsHold, Queued, Calm
    <3>2. QED
      BY <2>2, <2>3, <2>5, <3>1, MailFacts, MailKinds DEF MailFactsHold, MailKindsHold
  <2>6. CASE Queued(u) /\ mq[u] \in Parting
    <3>1. call[u] = "client"
      BY <2>6, MailKinds DEF MailKindsHold, Queued
    <3>2. QED
      BY <2>2, <2>3, <2>6, <3>1, MailFacts, MailKinds
         DEF MailFactsHold, MailKindsHold, Parting, Last
  <2>7. CASE Gone(u)
    <3>1. mq[u] \in Last
      BY <1>1, <2>7 DEF Gone
    <3>2. QED
      BY <1>1, <2>2, <2>3, <2>7, <3>1, MailFacts, MailKinds
         DEF MailFactsHold, MailKindsHold, Last, After
  <2>8. QED
    BY <1>1, <2>4, <2>5, <2>6, <2>7 DEF Queued, Enters
<1>4. ~(NeedsEntry(m) /\ thr[u].entry = Nil)
  BY <1>1, <1>3 DEF NeedsEntry, Queued, Nil, Slots
<1>5. /\ mq' = [mq EXCEPT ![u] = Tail(mq[u])] /\ UNCHANGED fifo
      /\ HandlerOf(u, m) /\ UNCHANGED <<memory, ids, lock, scan, client, world>>
  <2>1. Handle(u, m, fifo[u] # <<>>) /\ mq' = [mq EXCEPT ![u] = Tail(mq[u])] /\ UNCHANGED fifo
    BY <1>4 DEF ReadQueue
  <2>2. QED
    BY <1>2, <1>4, <2>1, HandlerLeads DEF Handle
<1> HIDE DEF m
<1>6. /\ UNCHANGED <<memory, ids, obj, call, told, req, alive, lock, scan, fifo>>
      /\ \A v \in Users \ {u} : SameState(v)
      /\ mq'[u] = Tail(mq[u])
      /\ obj'[u] = obj[u] /\ call'[u] = call[u] /\ told'[u] = told[u] /\ fifo'[u] = fifo[u]
  BY <1>2, <1>5 DEF client, world, SameState, HandlerOf, PerUserTypes
<1>7. OwnFrame(u)
  <2>1. thr'[u].todo \in {ScrubAsk, ScrubFree, GrantRest, CallRest, <<>>}
    BY <1>1, <1>3, <1>5 DEF HandlerOf, Asks
  <2>2. /\ thr'[u].todo \notin {FillRest, AddRest, FreeRest}
        /\ thr[u].todo \notin {FillRest, AddRest, FreeRest}
    BY <1>1, <2>1, RestKinds DEF RestKindsHold
  <2>3. QED
    BY <1>5, <1>6, <2>2 DEF OwnFrame, HandlerOf
<1>8. Registered(u)'
  BY <1>1, <1>5, <1>6 DEF Registered, Alive, HandlerOf
<1>9. Enters(u)' \/ Queued(u)' \/ Leaves(u)' \/ Gone(u)'
  <2>1. CASE Asks(u) /\ m = "request"
    BY <1>1, <1>3, <1>5, <1>6, <2>1 DEF Asks, Enters, Runs, Untold, HandlerOf
  <2>2. CASE Queued(u) /\ m \in {"GRANTED", "REVOKED"}
    BY <1>1, <1>3, <1>5, <1>6, <2>2 DEF Queued, Runs, HandlerOf, Calm, Parting
  <2>3. CASE Queued(u) /\ m = "release"
    BY <1>1, <1>3, <1>5, <1>6, <2>3 DEF Queued, Leaves, Runs, HandlerOf, Calm, After
  <2>4. CASE Gone(u) /\ m = "terminate"
    <3>1. thr'[u].todo = <<>> /\ ~thr'[u].running /\ thr'[u].on /\ thr'[u].todo # UpdateRest
      BY <1>1, <1>5, <2>4, RestFacts DEF RestFactsHold, Rests, HandlerOf
    <3>2. QED
      BY <1>3, <1>5, <1>6, <2>4, <3>1 DEF Gone, HandlerOf
  <2>5. QED
    BY <1>3, <2>1, <2>2, <2>3, <2>4
<1>10. EventsOK(u)'
  <2>1. EventsOK(u)
    BY DEF OrderInv, PerUser
  <2>2. /\ (InMail(u)' \/ AtEvent(u)') => InMail(u)
        /\ ~(InMail(u)' /\ AtEvent(u)')
        /\ GrantDue(u)' => GrantDue(u)
    <3>1. CASE Asks(u) /\ m = "request"
      <4>1. mq'[u] = <<>> /\ thr'[u].todo = ScrubAsk /\ fifo'[u] = <<>>
        BY <1>3, <1>5, <1>6, <3>1 DEF Asks, HandlerOf
      <4>2. QED
        BY <4>1, RestKinds, MailKinds
           DEF RestKindsHold, MailKindsHold, InMail, AtEvent, GrantDue
    <3>2. CASE Queued(u) /\ m \in {"GRANTED", "REVOKED"} /\ Tail(mq[u]) = <<>>
      <4>1. /\ mq'[u] = <<>> /\ mq[u] \in Mailed
            /\ m = "GRANTED" => mq[u] = <<"GRANTED">>
            /\ thr'[u].todo = IF m = "GRANTED" THEN GrantRest ELSE CallRest
        BY <1>3, <1>5, <1>6, <3>2, MailKinds DEF MailKindsHold, HandlerOf
      <4>2. QED
        BY <1>6, <3>2, <4>1, RestKinds, MailKinds
           DEF RestKindsHold, MailKindsHold, InMail, AtEvent, GrantDue
    <3>3. CASE Queued(u) /\ m = "REVOKED" /\ Tail(mq[u]) = <<"release", "terminate">>
      <4>1. /\ mq'[u] = <<"release", "terminate">> /\ mq[u] \in Mailed
            /\ thr'[u].todo = CallRest
        BY <1>3, <1>5, <1>6, <3>3 DEF HandlerOf
      <4>2. QED
        BY <1>6, <4>1, RestKinds, MailKinds
           DEF RestKindsHold, MailKindsHold, InMail, AtEvent, GrantDue
    <3>4. CASE Queued(u) /\ m = "release"
      <4>1. /\ mq'[u] \in Mailed => mq[u] \in Mailed
            /\ thr'[u].todo = ScrubFree /\ mq'[u] # <<"GRANTED">>
        BY <1>3, <1>5, <1>6, <3>4, MailKinds DEF MailKindsHold, HandlerOf
      <4>2. QED
        BY <1>6, <4>1, RestFacts DEF RestFactsHold, InMail, AtEvent, GrantDue
    <3>5. CASE Gone(u) /\ m = "terminate"
      <4>1. /\ mq'[u] \in Mailed => mq[u] \in Mailed
            /\ thr'[u].todo = <<>> /\ mq'[u] # <<"GRANTED">>
        BY <1>1, <1>3, <1>5, <1>6, <3>5, MailKinds DEF MailKindsHold, HandlerOf
      <4>2. QED
        BY <1>6, <4>1, RestFacts DEF RestFactsHold, Rests, InMail, AtEvent, GrantDue
    <3>6. QED
      BY <1>3, <3>1, <3>2, <3>3, <3>4, <3>5
  <2>0. thr'[u].todo # SetRest
    <3>1. thr'[u].todo \in {ScrubAsk, ScrubFree, GrantRest, CallRest, <<>>}
      BY <1>1, <1>3, <1>5 DEF HandlerOf, Asks
    <3>2. QED
      BY <3>1, RestKinds DEF RestKindsHold, ListRest
  <2>3. OneEvent(u)' /\ (Due(u)' => Due(u))
    BY <1>6, <2>0, <2>1, <2>2 DEF OneEvent, Due, EventsOK
  <2>4. QED
    BY <1>5, <1>6, <2>1, <2>2, <2>3, EventsKept DEF HandlerOf, memory
<1>11. Unscrubbed(u) => Unscrubbed(u)'
  BY <1>1, <1>3, <1>5, RestKinds DEF Unscrubbed, RestKindsHold, HandlerOf, Asks
<1>12. Lister(u)' => Lister(u)
  <2>1. m # "request" /\ thr'[u].todo \in ListRest => m = "release"
    BY <1>1, <1>2, <1>5, RestKinds DEF HandlerOf, RestKindsHold, FromClient, Events
  <2>2. m = "release" => call[u] # "out"
    BY <1>1, <1>3
  <2>3. QED
    BY <1>3, <1>6, <2>1, <2>2 DEF Lister, Asks
<1>13. QED
  BY <1>1, <1>6, <1>7, <1>8, <1>9, <1>10, <1>11, <1>12, FreeStep DEF UserOK

\* An event from another process is taken up (ReadFifo).
LEMMA ReadFifoOrderly ==
    ASSUME ResourceInv, OrderInv, NEW u \in Users, ReadFifo(u)
    PROVE  OrderInv'
<1> DEFINE m == Head(fifo[u])
<1>1. /\ Registered(u) /\ lock # u /\ thr[u].todo = <<>> /\ thr[u].on
      /\ Asks(u) \/ Enters(u) \/ Queued(u) \/ Gone(u)
      /\ fifo[u] # <<>>
  BY ReadyUser DEF ReadFifo, FifoNext
<1>2. PerUserTypes /\ m \in FromClient \cup Events
  BY <1>1, UserTypes DEF PerUserTypes
<1>3. /\ \/ Queued(u) /\ m \in {"GRANTED", "REVOKED"}
         \/ Gone(u) /\ m = "REVOKED"
      /\ Tail(fifo[u]) = <<>>
      /\ m = "GRANTED" => fifo[u] = <<"GRANTED">>
  <2>1. CASE Queued(u)
    BY <1>1, <2>1, MailFacts DEF MailFactsHold, Queued, Calm
  <2>2. CASE Gone(u)
    BY <1>1, <2>2, MailFacts DEF MailFactsHold, Gone, After
  <2>3. QED
    BY <1>1, <2>1, <2>2 DEF Asks, Enters
<1>4. ~(NeedsEntry(m) /\ thr[u].entry = Nil)
  BY <1>1, <1>3 DEF NeedsEntry, Queued, Nil, Slots
<1>5. /\ fifo' = [fifo EXCEPT ![u] = Tail(fifo[u])] /\ UNCHANGED mq
      /\ HandlerOf(u, m) /\ UNCHANGED <<memory, ids, lock, scan, client, world>>
  <2>1. Handle(u, m, FALSE) /\ fifo' = [fifo EXCEPT ![u] = Tail(fifo[u])] /\ UNCHANGED mq
    BY <1>4 DEF ReadFifo
  <2>2. QED
    BY <1>2, <1>4, <2>1, HandlerLeads DEF Handle
<1> HIDE DEF m
<1>6. /\ UNCHANGED <<memory, ids, obj, call, told, req, alive, lock, scan, mq>>
      /\ \A v \in Users \ {u} : SameState(v)
      /\ fifo'[u] = <<>>
      /\ thr'[u].todo = IF m = "GRANTED" THEN GrantRest ELSE CallRest
  BY <1>2, <1>3, <1>5 DEF client, world, SameState, HandlerOf, PerUserTypes
<1>7. OwnFrame(u)
  <2>1. /\ thr'[u].todo \notin {FillRest, AddRest, FreeRest}
        /\ thr[u].todo \notin {FillRest, AddRest, FreeRest}
    BY <1>1, <1>6, RestKinds DEF RestKindsHold
  <2>2. QED
    BY <1>5, <1>6, <2>1 DEF OwnFrame, HandlerOf
<1>8. Registered(u)'
  BY <1>1, <1>5, <1>6 DEF Registered, Alive, HandlerOf
<1>9. Queued(u)' \/ Gone(u)'
  <2>1. CASE Queued(u)
    BY <1>1, <1>3, <1>5, <1>6, <2>1 DEF Queued, Runs, HandlerOf, Calm
  <2>2. CASE Gone(u) /\ m = "REVOKED"
    <3>1. thr'[u].todo = CallRest /\ CallRest # UpdateRest
      BY <1>6, <2>2, RestKinds DEF RestKindsHold
    <3>2. QED
      BY <1>1, <1>3, <1>5, <1>6, <2>2, <3>1 DEF Gone, Runs, HandlerOf, After
  <2>3. QED
    BY <1>3, <2>1, <2>2
<1>10. EventsOK(u)'
  <2>1. EventsOK(u)
    BY DEF OrderInv, PerUser
  <2>2. /\ InMail(u)' <=> InMail(u)
        /\ ~InMail(u) /\ ~AtEvent(u) /\ fifo'[u] = <<>>
        /\ GrantDue(u)' => GrantDue(u)
    BY <1>1, <1>3, <1>6, <2>1, RestKinds
       DEF RestKindsHold, InMail, AtEvent, GrantDue, EventsOK, OneEvent
  <2>3. OneEvent(u)' /\ (Due(u)' => Due(u))
    BY <1>1, <1>6, <2>2, RestKinds DEF RestKindsHold, OneEvent, Due
  <2>4. QED
    BY <1>5, <1>6, <2>1, <2>2, <2>3, EventsKept DEF HandlerOf, memory
<1>11. Unscrubbed(u) => Unscrubbed(u)'
  BY <1>1, <1>6, RestKinds DEF Unscrubbed, RestKindsHold
<1>12. Lister(u)' => Lister(u)
  BY <1>6, RestKinds DEF Lister, RestKindsHold
<1>13. QED
  BY <1>1, <1>6, <1>7, <1>8, <1>9, <1>10, <1>11, <1>12, FreeStep DEF UserOK

\* The timer and the end of the loop of a thread.
LEMMA TimerOrderly ==
    ASSUME ResourceInv, OrderInv, Orderly, NEW u \in Users, Timer(u)
    PROVE  OrderInv'
<1>1. /\ Registered(u) /\ lock # u /\ thr[u].todo = <<>> /\ thr[u].on /\ thr[u].timer
      /\ Queued(u) /\ thr[u].running /\ mq[u] = <<>> /\ fifo[u] = <<>>
  BY ReadyUser, RestKinds DEF RestKindsHold, Timer, Asks, Enters, Gone
<1>2. \A v \in Users \ {u} : Quiet(v)
  BY DEF Timer, MayStart, Orderly
<1>3. /\ PerUserTypes /\ thr' = [thr EXCEPT ![u].todo = ScrubTimer]
      /\ UNCHANGED <<memory, ids, lock, scan, mq, fifo, obj, call, told, req, alive>>
  BY UserTypes DEF Timer, Todo, ScrubTimer, inputs, client, world
<1>4. /\ thr'[u] = [thr[u] EXCEPT !.todo = ScrubTimer]
      /\ \A v \in Users \ {u} : thr'[v] = thr[v]
  BY <1>3 DEF PerUserTypes
<1>5. /\ thr'[u].todo = ScrubTimer /\ thr'[u].entry = thr[u].entry /\ thr'[u].uid = thr[u].uid
      /\ thr'[u].on = thr[u].on /\ thr'[u].fds = thr[u].fds
      /\ thr'[u].running = thr[u].running
  BY <1>3, <1>4 DEF PerUserTypes, ThreadShape
<1>6. OwnFrame(u)
  <2>1. /\ ScrubTimer \notin {FillRest, AddRest, FreeRest}
        /\ <<>> \notin {FillRest, AddRest, FreeRest}
    BY RestKinds DEF RestKindsHold
  <2>2. QED
    BY <1>1, <1>3, <1>4, <1>5, <2>1 DEF OwnFrame, SameState
<1>7. UserOK(u)'
  BY <1>1, <1>3, <1>5 DEF UserOK, Registered, Alive, Queued, Runs, Calm
<1>8. EventsOK(u)'
  <2>1. EventsOK(u)
    BY DEF OrderInv, PerUser
  <2>2. (InMail(u)' <=> InMail(u)) /\ ~AtEvent(u)' /\ (GrantDue(u)' => GrantDue(u))
    BY <1>3, <1>5, RestKinds DEF RestKindsHold, InMail, AtEvent, GrantDue
  <2>3. OneEvent(u)' /\ (Due(u)' => Due(u))
    BY <1>3, <1>5, <2>1, <2>2, RestKinds
       DEF RestKindsHold, ListRest, EventsOK, OneEvent, Due
  <2>4. QED
    BY <1>3, <1>5, <2>1, <2>2, <2>3, EventsKept DEF memory
<1>9. \A v \in Users \ {u} : ~Lister(v)
  BY <1>2, RestKinds, MailKinds DEF Quiet, Lister, Idle, RestKindsHold, MailKindsHold
<1>10. ~Unscrubbed(u)
  BY <1>1, RestKinds, MailKinds DEF Unscrubbed, RestKindsHold, MailKindsHold
<1>11. QED
  BY <1>1, <1>3, <1>6, <1>7, <1>8, <1>9, <1>10, FreeStep

\* A step of user u's thread from one rest to the next: the facts of its new state.
OnlyTodo(u, rest) ==
    /\ thr'[u].todo = rest
    /\ thr'[u].on = thr[u].on /\ thr'[u].entry = thr[u].entry
    /\ thr'[u].timer = thr[u].timer /\ thr'[u].running = thr[u].running
    /\ thr'[u].fds = thr[u].fds /\ thr'[u].uid = thr[u].uid
    /\ \A v \in Users \ {u} : thr'[v] = thr[v]

\* The end of a section leaves the rest of the handler.
LEMMA DoneLeaves ==
    ASSUME PerUserTypes, NEW u \in Users, Done(u)
    PROVE  OnlyTodo(u, Tail(thr[u].todo))
<1>1. thr[u] \in ThreadShape
  BY DEF PerUserTypes
<1>2. thr' = [thr EXCEPT ![u] = [thr[u] EXCEPT !.todo = Tail(thr[u].todo)]]
  BY DEF Done
<1>3. QED
  BY <1>1, <1>2 DEF OnlyTodo, PerUserTypes, ThreadShape

\* The thread ends after the terminate message (Exit).
LEMMA ExitOrderly ==
    ASSUME ResourceInv, OrderInv, NEW u \in Users, Exit(u)
    PROVE  OrderInv'
<1>1. /\ Registered(u) /\ lock # u /\ thr[u].todo = <<>> /\ thr[u].on
      /\ Gone(u) /\ ~thr[u].running
  BY ReadyUser DEF Exit, Registered, Asks, Enters, Queued, Runs
<1>2. /\ PerUserTypes /\ thr' = [thr EXCEPT ![u].on = FALSE]
      /\ UNCHANGED <<memory, ids, lock, scan, mq, fifo, obj, call, told, req, alive>>
  BY UserTypes DEF Exit, inputs, client, world
<1>3. /\ thr'[u].todo = <<>> /\ thr'[u].entry = thr[u].entry /\ thr'[u].uid = thr[u].uid
      /\ thr'[u].fds = thr[u].fds /\ thr'[u].timer = thr[u].timer
      /\ thr'[u].running = thr[u].running
      /\ \A v \in Users \ {u} : thr'[v] = thr[v]
  BY <1>1, <1>2 DEF PerUserTypes, ThreadShape
<1>4. OwnFrame(u)
  BY <1>1, <1>2, <1>3 DEF OwnFrame, SameState
<1>5. UserOK(u)'
  <2>1. Registered(u)'
    BY <1>1, <1>2, <1>3 DEF Registered, Alive
  <2>2. call[u] = "client" /\ fifo[u] \in After /\ thr[u].entry = Nil /\ ~thr[u].timer
        /\ mq[u] \in After /\ thr[u].todo # UpdateRest
    BY <1>1 DEF Gone, Runs
  <2>3. Gone(u)'
    BY <1>1, <1>2, <1>3, <2>2 DEF Gone
  <2>4. QED
    BY <2>1, <2>3 DEF UserOK
<1>6. EventsOK(u)'
  <2>1. EventsOK(u)
    BY DEF OrderInv, PerUser
  <2>2. (InMail(u)' <=> InMail(u)) /\ (AtEvent(u)' <=> AtEvent(u)) /\ (GrantDue(u)' <=> GrantDue(u))
    BY <1>1, <1>2, <1>3 DEF InMail, AtEvent, GrantDue
  <2>3. OneEvent(u)' /\ (Due(u)' => Due(u))
    BY <1>2, <2>1, <2>2 DEF EventsOK, OneEvent, Due
  <2>4. QED
    BY <1>2, <1>3, <2>1, <2>2, <2>3, EventsKept DEF memory
<1>7. Unscrubbed(u)' <=> Unscrubbed(u)
  BY <1>1, <1>2, <1>3 DEF Unscrubbed
<1>8. Lister(u)' <=> Lister(u)
  BY <1>1, <1>2, <1>3 DEF Lister
<1>9. QED
  BY <1>1, <1>2, <1>4, <1>5, <1>6, <1>7, <1>8, FreeStep

\* The sections that a thread enters with the lock free, and the loop it may be in.
LEMMA LoopUser ==
    ASSUME OrderInv, NEW u \in Users, lock = u
    PROVE  /\ Registered(u) /\ thr[u].todo # <<>> /\ UserOK(u) /\ EventsOK(u)
           /\ scan.job # "none"
           /\ scan.job = "scrub" => thr[u].todo \in {ScrubAsk, ScrubFree, ScrubTimer}
           /\ scan.job = "add" => thr[u].todo = AddRest /\ Enters(u)
           /\ scan.job \in {"revoke", "grant"} =>
                 thr[u].todo = UpdateRest /\ (Queued(u) \/ Gone(u))
<1>1. /\ scan.job # "none" /\ thr[u].todo # <<>> /\ Head(thr[u].todo) = Section
      /\ UserOK(u) /\ EventsOK(u)
  BY UsersAssumption DEF OrderInv, ScanOK, PerUser
<1>2. Registered(u) /\ thr[u].todo \in Rests
  BY <1>1, UserRests
<1>3. In(u, Section)
  <2>1. ~Leaves(u) \/ Runs(u)
    BY DEF Leaves
  <2>2. thr[u].on /\ Alive(u)
    BY <1>1, <1>2 DEF UserOK, Out, NoThread, Asks, Enters, Queued, Leaves, Gone, Runs, Registered
  <2>3. QED
    BY <1>1, <2>2 DEF In, Live, Idle
<1>4. QED
  BY <1>1, <1>2, <1>3, InRest DEF Section

-----------------------------------------------------------------------------
(* Grants and revokes in the resource thread, and the release.           *)

\* The object takes the devices of its entry, and the client is told.
LEMMA SetGrantedOrderly ==
    ASSUME ResourceInv, OrderInv, NEW u \in Users, SetGranted(u)
    PROVE  OrderInv'
<1>1. /\ In(u, "set") /\ call[u] = "out" /\ UserOK(u) /\ EventsOK(u) /\ PerUserTypes
  BY UserTypes DEF SetGranted, OrderInv, PerUser
<1>2. Registered(u) /\ Queued(u) /\ thr[u].todo = SetRest
  BY <1>1, InRest
<1>3. /\ obj' = [obj EXCEPT ![u].rec = slot[thr[u].entry].rec,
                            ![u].play = slot[thr[u].entry].play]
      /\ told' = [told EXCEPT ![u] = "granted"]
      /\ OnlyTodo(u, <<>>)
      /\ UNCHANGED <<memory, ids, lock, scan, mq, fifo, call, req, alive>>
  BY <1>1, <1>2, DoneLeaves, RestFacts DEF RestFactsHold, SetGranted, inputs, world
<1>4. /\ obj'[u].requested = obj[u].requested /\ obj'[u].running = obj[u].running
      /\ obj'[u].fresh = obj[u].fresh /\ obj'[u].fd = obj[u].fd /\ obj'[u].uid = obj[u].uid
      /\ obj'[u].rec = slot[thr[u].entry].rec /\ obj'[u].play = slot[thr[u].entry].play
      /\ told'[u] = "granted" /\ thr'[u].todo = <<>>
      /\ \A v \in Users \ {u} : SameState(v)
  BY <1>1, <1>3 DEF PerUserTypes, ObjectType, SameState, OnlyTodo
<1>5. OwnFrame(u)
  BY <1>2, <1>3, <1>4, RestKinds DEF RestKindsHold, OwnFrame, OnlyTodo
<1>6. UserOK(u)'
  <2>1. Registered(u)'
    BY <1>2, <1>3, <1>4 DEF Registered, Alive, OnlyTodo
  <2>2. mq[u] \in Calm
    BY <1>1, <1>2 DEF Queued
  <2>3. Queued(u)'
    BY <1>1, <1>2, <1>3, <1>4, <2>2 DEF Queued, Runs, OnlyTodo
  <2>4. QED
    BY <2>1, <2>3 DEF UserOK
<1>7. EventsOK(u)'
  <2>1. ~GrantDue(u)'
    BY <1>1, <1>2, <1>3, <1>4, RestFacts
       DEF EventsOK, OneEvent, GrantDue, RestFactsHold, Rests
  <2>2. Held(thr[u].entry) /\ thr[u].entry # Nil
    BY <1>1, <1>2 DEF EventsOK, GrantDue, Queued, Nil, Slots
  <2>3. /\ Held(thr[u].entry)' /\ slot' = slot /\ thr'[u].entry = thr[u].entry
    BY <1>3, <2>2 DEF Held, memory, OnlyTodo
  <2>4. Due(u)' => Due(u)
    BY <1>3, <1>4, RestKinds DEF RestKindsHold, Due, InMail, AtEvent
  <2>5. OneEvent(u)'
    BY <1>1, <1>3, <1>4, RestFacts, RestKinds
       DEF RestFactsHold, RestKindsHold, Rests, EventsOK, OneEvent, InMail, AtEvent
  <2>6. told'[u] = "granted" /\ call'[u] = "out"
    BY <1>1, <1>3, <1>4
  <2>7. QED
    BY <1>1, <1>4, <2>1, <2>2, <2>3, <2>4, <2>5, <2>6 DEF EventsOK
<1>8. lock # u
  BY <1>2, LoopUser, RestKinds DEF RestKindsHold, ListRest, ResourceInv, TypesInv, LoopOK,
     ScanType, Jobs
<1>9. ~Unscrubbed(u)
  <2>1. mq[u] \in Calm
    BY <1>1, <1>2 DEF Queued
  <2>2. QED
    BY <1>2, <2>1, RestKinds, MailKinds DEF RestKindsHold, MailKindsHold, Unscrubbed
<1>10. Lister(u)' => Lister(u)
  BY <1>1, <1>3, <1>4, RestKinds DEF RestKindsHold, Lister
<1>11. QED
  BY <1>3, <1>5, <1>6, <1>7, <1>8, <1>9, <1>10, FreeStep

\* The client is told that its devices are to be released.
LEMMA RevokedOrderly ==
    ASSUME ResourceInv, OrderInv, Orderly, NEW u \in Users, Revoked(u)
    PROVE  OrderInv'
<1>1. /\ In(u, "callback") /\ UserOK(u) /\ EventsOK(u) /\ PerUserTypes
      /\ call[u] # "callback" /\ told[u] # "revoked" /\ Done(u)
  BY UserTypes DEF Revoked, OrderInv, PerUser, Orderly
<1>2. Registered(u) /\ (Queued(u) \/ Gone(u)) /\ thr[u].todo = CallRest
  BY <1>1, InRest
<1>3. /\ told' = [told EXCEPT ![u] = "revoked"]
      /\ OnlyTodo(u, <<>>)
      /\ UNCHANGED <<memory, ids, lock, scan, mq, fifo, obj, call, req, alive>>
  BY <1>1, <1>2, DoneLeaves, RestFacts DEF RestFactsHold, Revoked, inputs, world
<1>4. /\ told'[u] = "revoked" /\ thr'[u].todo = <<>>
      /\ \A v \in Users \ {u} : SameState(v)
  BY <1>1, <1>3 DEF PerUserTypes, SameState, OnlyTodo
<1>5. OwnFrame(u)
  BY <1>2, <1>3, <1>4, RestKinds DEF RestKindsHold, OwnFrame, OnlyTodo
<1>6. UserOK(u)'
  <2>1. Registered(u)'
    BY <1>2, <1>3, <1>4 DEF Registered, Alive, OnlyTodo
  <2>2. CASE Queued(u)
    <3>1. Queued(u)'
      BY <1>3, <1>4, <2>2 DEF Queued, Runs, OnlyTodo
    <3>2. QED
      BY <2>1, <3>1 DEF UserOK
  <2>3. CASE Gone(u)
    <3>1. <<>> # UpdateRest
      BY RestFacts DEF RestFactsHold, Rests
    <3>2. Gone(u)'
      BY <1>3, <1>4, <2>3, <3>1 DEF Gone, Runs, OnlyTodo
    <3>3. QED
      BY <2>1, <3>2 DEF UserOK
  <2>4. QED
    BY <1>2, <2>2, <2>3
<1>7. EventsOK(u)'
  <2>1. AtEvent(u) /\ ~InMail(u) /\ fifo[u] = <<>> /\ Due(u)
    BY <1>1, <1>2 DEF EventsOK, OneEvent, AtEvent, Due
  <2>2. ~GrantDue(u)' /\ ~Due(u)' /\ OneEvent(u)'
    BY <1>3, <1>4, <2>1, RestFacts, RestKinds, MailKinds
       DEF RestFactsHold, RestKindsHold, MailKindsHold, Rests, GrantDue, Due, OneEvent,
           InMail, AtEvent
  <2>3. /\ Held(thr[u].entry)' <=> Held(thr[u].entry)
        /\ slot' = slot /\ thr'[u].entry = thr[u].entry
    BY <1>3 DEF Held, memory, OnlyTodo
  <2>4. QED
    BY <1>1, <1>3, <1>4, <2>1, <2>2, <2>3 DEF EventsOK
<1>8. lock # u
  BY <1>2, LoopUser, RestKinds DEF RestKindsHold, ListRest, ResourceInv, TypesInv, LoopOK,
     ScanType, Jobs
<1>9. ~Unscrubbed(u)
  BY <1>2, RestKinds, MailKinds DEF RestKindsHold, MailKindsHold, Unscrubbed, Queued, Gone
<1>10. Lister(u)' => Lister(u)
  BY <1>1, <1>3, <1>4, RestKinds DEF RestKindsHold, Lister
<1>11. QED
  BY <1>3, <1>5, <1>6, <1>7, <1>8, <1>9, <1>10, FreeStep

\* The callback has no more to return than the event it was called with.
LEMMA CallbackReturnsNever ==
    ASSUME OrderInv, NEW u \in Users
    PROVE  ~CallbackReturns(u) /\ ~ReleaseInCallback(u)
<1>1. SUFFICES ASSUME In(u, "callback"), told[u] = "revoked" PROVE FALSE
  BY DEF CallbackReturns, ReleaseInCallback
<1>2. UserOK(u) /\ EventsOK(u)
  BY DEF OrderInv, PerUser
<1>3. thr[u].todo = CallRest
  BY <1>1, <1>2, InRest
<1>4. QED
  BY <1>1, <1>2, <1>3 DEF EventsOK, Due, AtEvent

\* A release begins after a grant or a revoke, with the other users quiet.
LEMMA ReleaseOrderly ==
    ASSUME ResourceInv, OrderInv, Orderly, NEW u \in Users, Release(u)
    PROVE  OrderInv'
<1>1. /\ UserOK(u) /\ EventsOK(u) /\ PerUserTypes
      /\ told[u] # "none" /\ call[u] = "out" /\ obj[u].requested /\ Alive(u)
      /\ \A v \in Users \ {u} : Quiet(v)
  BY UserTypes DEF Release, BeginRelease, MayStart, Orderly, OrderInv, PerUser
<1>2. /\ Registered(u) /\ Queued(u)
  BY <1>1 DEF UserOK, Out, Asks, Enters, Untold, Leaves, Gone
<1>3. /\ call' = [call EXCEPT ![u] = "client"]
      /\ mq' = [mq EXCEPT ![u] = mq[u] \o <<"release", "terminate">>]
      /\ obj' = [obj EXCEPT ![u].rec = None, ![u].play = None]
      /\ UNCHANGED <<memory, ids, lock, scan, thr, fifo, told, req, alive>>
  BY <1>2 DEF Release, BeginRelease, Registered, ReleaseMessages, world
<1>4. /\ obj'[u].requested = obj[u].requested /\ obj'[u].running = obj[u].running
      /\ obj'[u].fresh = obj[u].fresh /\ obj'[u].fd = obj[u].fd /\ obj'[u].uid = obj[u].uid
      /\ obj'[u].rec = None /\ obj'[u].play = None
      /\ call'[u] = "client" /\ mq'[u] = mq[u] \o <<"release", "terminate">>
      /\ \A v \in Users \ {u} : SameState(v)
  <2>1. obj'[u] = [obj[u] EXCEPT !.rec = None, !.play = None] /\ obj[u] \in ObjectType
    BY <1>1, <1>3 DEF PerUserTypes
  <2>2. /\ obj'[u].requested = obj[u].requested /\ obj'[u].running = obj[u].running
        /\ obj'[u].fresh = obj[u].fresh /\ obj'[u].fd = obj[u].fd /\ obj'[u].uid = obj[u].uid
        /\ obj'[u].rec = None /\ obj'[u].play = None
    BY <2>1 DEF ObjectType
  <2>3. call'[u] = "client" /\ mq'[u] = mq[u] \o <<"release", "terminate">>
    BY <1>1, <1>3 DEF PerUserTypes
  <2>4. \A v \in Users \ {u} : SameState(v)
    BY <1>1, <1>3 DEF PerUserTypes, SameState
  <2>5. QED
    BY <2>2, <2>3, <2>4
<1>5. mq[u] \in {<<>>, <<"REVOKED">>} /\ fifo[u] \in {<<>>, <<"REVOKED">>}
      /\ thr[u].todo \notin {GrantRest, SetRest}
  BY <1>1, <1>2, MailKinds DEF Queued, Calm, Parting, EventsOK, GrantDue, Untold, MailKindsHold
<1>6. /\ mq'[u] \in Parting /\ (mq'[u] \in Mailed <=> mq[u] \in Mailed)
      /\ mq'[u] # <<"GRANTED">> /\ mq'[u] # <<"request">>
  <2>1. CASE mq[u] = <<>>
    <3>1. mq'[u] = <<"release", "terminate">>
      BY <1>4, <2>1
    <3>2. QED
      BY <2>1, <3>1, MailKinds DEF MailKindsHold, Parting
  <2>2. CASE mq[u] = <<"REVOKED">>
    <3>1. mq'[u] = <<"REVOKED", "release", "terminate">>
      BY <1>4, <2>2, Appended
    <3>2. QED
      BY <2>2, <3>1, MailKinds DEF MailKindsHold, Parting
  <2>3. QED
    BY <1>5, <2>1, <2>2
<1>7. OwnFrame(u)
  BY <1>3, <1>4 DEF OwnFrame
<1>8. UserOK(u)'
  <2>1. Registered(u)'
    BY <1>2, <1>3, <1>4 DEF Registered, Alive
  <2>2. Queued(u)'
    BY <1>1, <1>2, <1>3, <1>4, <1>6 DEF Queued, Runs
  <2>3. QED
    BY <2>1, <2>2 DEF UserOK
<1>9. EventsOK(u)'
  <2>1. ~GrantDue(u)'
    BY <1>3, <1>5, <1>6, MailKinds DEF MailKindsHold, GrantDue, After
  <2>2. (Due(u)' <=> Due(u)) /\ OneEvent(u)'
    BY <1>1, <1>3, <1>5, <1>6 DEF Due, EventsOK, OneEvent, InMail, AtEvent
  <2>3. /\ Held(thr[u].entry)' <=> Held(thr[u].entry)
        /\ slot' = slot /\ thr'[u].entry = thr[u].entry
    BY <1>3 DEF Held, memory
  <2>4. QED
    BY <1>1, <1>3, <1>4, <2>1, <2>2, <2>3 DEF EventsOK
<1>10. Unscrubbed(u) => Unscrubbed(u)'
  BY <1>2, <1>3, <1>5, MailKinds DEF MailKindsHold, Unscrubbed, Calm
<1>11. \A v \in Users \ {u} : ~Lister(v)
  BY <1>1, RestKinds, MailKinds DEF Quiet, Lister, Idle, RestKindsHold, MailKindsHold
<1>12. QED
  BY <1>3, <1>7, <1>8, <1>9, <1>10, <1>11, FreeStep

\* A user that becomes no lister, and whose entry is another one or changes.
EntryFrame(u) ==
    /\ UNCHANGED <<head, next, ids, lock, scan, mq, fifo, obj, call, told, req, alive>>
    /\ \A v \in Users \ {u} : thr'[v] = thr[v]
    /\ \A s \in Slots : slot'[s].rec = slot[s].rec /\ slot'[s].play = slot[s].play

\* Such a step keeps the invariant when the entry and its user stay in order.
LEMMA EntryStep ==
    ASSUME ResourceInv, OrderInv, NEW u \in Users, EntryFrame(u), lock # u,
           PerUser(u)', \A s \in Slots : EntryOK(s)', ~Unscrubbed(u),
           \A s \in Slots : Stale(s)' => slot'[s] = slot[s],
           \A v \in Users \ {u} : thr[v].entry # Nil =>
                slot'[thr[v].entry] = slot[thr[v].entry],
           Lister(u)' => Lister(u)
    PROVE  OrderInv'
<1>1. ListOK' /\ Listed' = Listed /\ Walk' = Walk
  BY ListKept DEF OrderInv, EntryFrame
<1>2. \A s \in Slots : Held(s)' <=> Held(s)
  BY DEF EntryFrame, Held
<1>3. ASSUME NEW v \in Users PROVE PerUser(v)'
  BY <1>1, SameUser DEF OrderInv, EntryFrame, SameState
<1>4. OneLister'
  <2>1. \A v \in Users \ {u} : Lister(v)' <=> Lister(v)
    BY DEF EntryFrame, Lister
  <2>2. QED
    BY <2>1 DEF OrderInv, OneLister
<1>5. OneHolder'
  BY <1>2 DEF OrderInv, OneHolder
<1>6. ScanOK'
  <2>1. lock # None => lock \in Users \ {u}
    BY UserTypes DEF PerUserTypes
  <2>2. Section' = Section /\ \A a, s : From(a, s)' <=> From(a, s)
    BY <1>1 DEF Section, EntryFrame, From
  <2>3. QED
    BY <1>1, <1>2, <2>1, <2>2 DEF OrderInv, EntryFrame, ScanOK
<1>7. IdsOK'
  <2>1. ASSUME NEW s \in Slots, Stale(s)', Addressee(s)' # None, Alive(Addressee(s))'
        PROVE  /\ Unscrubbed(Addressee(s))'
               /\ scan'.job = "scrub" => From(scan.at, s)'
    <3>1. Stale(s) /\ Addressee(s)' = Addressee(s) /\ Addressee(s) # None /\ Alive(Addressee(s))
      BY <2>1 DEF Stale, Addressee, Alive, EntryFrame
    <3>2. Addressee(s) \in Users
      BY <3>1, StaleEntry
    <3>3. Unscrubbed(Addressee(s)) /\ (scan.job = "scrub" => From(scan.at, s))
      BY <3>1 DEF OrderInv, IdsOK
    <3>4. PICK a \in Users : a = Addressee(s) /\ Unscrubbed(a) /\ a # u
      BY <3>2, <3>3
    <3>5. Unscrubbed(a)' /\ Addressee(s)' = a
      BY <3>1, <3>4 DEF EntryFrame, Unscrubbed
    <3>6. Unscrubbed(Addressee(s))'
      BY <3>5 DEF Unscrubbed
    <3>7. scan'.job = "scrub" => From(scan.at, s)'
      BY <1>1, <3>3 DEF From, EntryFrame
    <3>8. QED
      BY <3>6, <3>7
  <2>2. QED
    BY <2>1 DEF IdsOK
<1>8. QED
  BY <1>1, <1>3, <1>4, <1>5, <1>6, <1>7 DEF OrderInv

-----------------------------------------------------------------------------
(* A new entry.                                                          *)

\* resource_entry_malloc: an entry that is free, or none.
LEMMA AllocOrderly ==
    ASSUME ResourceInv, OrderInv, NEW u \in Users, Alloc(u)
    PROVE  OrderInv'
<1>1. /\ In(u, "alloc") /\ lock = None /\ UserOK(u) /\ EventsOK(u) /\ PerUserTypes
  BY UserTypes DEF Alloc, CanLock, OrderInv, PerUser
<1>2. Registered(u) /\ Enters(u) /\ thr[u].todo = AllocRest
  BY <1>1, InRest
<1>3. /\ Runs(u) /\ Untold(u) /\ fifo[u] = <<>> /\ mq[u] = <<>>
      /\ thr[u].entry = Nil /\ ~thr[u].timer
  BY <1>2, RestKinds, RestFacts DEF Enters, RestFactsHold
<1>4. lock # u /\ ~Unscrubbed(u) /\ Lister(u)
  BY <1>1, <1>2, <1>3, RestKinds, MailKinds, UsersAssumption
     DEF RestKindsHold, MailKindsHold, Unscrubbed, Lister, ListRest
<1>5. UNCHANGED <<head, next, slot, memory, ids, lock, scan, mq, fifo, obj, call, told, req, alive>>
  BY DEF Alloc, memory, inputs, client, world
<1>6. CASE \E s \in Slots :
             /\ slot[s].prio = Free /\ \A r \in 1 .. s - 1 : slot[r].prio # Free
             /\ thr' = [thr EXCEPT ![u].entry = s, ![u].todo = Tail(@)]
  <2>1. PICK e \in Slots : slot[e].prio = Free
                           /\ thr' = [thr EXCEPT ![u].entry = e, ![u].todo = Tail(@)]
    BY <1>6
  <2>2. /\ thr'[u].entry = e /\ thr'[u].todo = FillRest /\ thr'[u].on = thr[u].on
        /\ thr'[u].running = thr[u].running /\ thr'[u].fds = thr[u].fds
        /\ thr'[u].uid = thr[u].uid
        /\ \A v \in Users \ {u} : thr'[v] = thr[v]
    BY <1>1, <1>2, <2>1, RestFacts DEF RestFactsHold, PerUserTypes, ThreadShape
  <2>3. EntryFrame(u)
    BY <1>5, <2>2 DEF EntryFrame
  <2>4. PerUser(u)'
    <3>1. UserOK(u)'
      BY <1>2, <1>3, <1>5, <2>2 DEF UserOK, Registered, Alive, Enters, Runs, Untold
    <3>2. EventsOK(u)'
      BY <1>3, <1>5, <2>2, RestFacts, MailKinds
         DEF RestFactsHold, MailKindsHold, EventsOK, OneEvent, Due, GrantDue, InMail, AtEvent,
             Untold
    <3>3. MineOK(u)'
      BY <1>5, <2>1, <2>2 DEF MineOK
    <3>4. QED
      BY <3>1, <3>2, <3>3 DEF PerUser
  <2>5. ASSUME NEW s \in Slots PROVE EntryOK(s)'
    <3>1. EntryOK(s) /\ slot'[s] = slot[s] /\ Listed' = Listed
      BY <1>5, ListKept DEF OrderInv
    <3>2. CASE slot[s].prio = Free
      BY <3>1, <3>2 DEF EntryOK
    <3>3. CASE slot[s].prio # Free
      <4>1. UsedOK(s)
        BY <3>1, <3>3 DEF EntryOK
      <4>2. Alive(slot[s].owner) => slot[s].owner # u
        BY <1>3, <4>1 DEF UsedOK, Nil, Slots
      <4>3. UsedOK(s)'
        BY <1>5, <2>2, <3>1, <4>1, <4>2 DEF UsedOK, Held, Alive
      <4>4. QED
        BY <3>1, <3>3, <4>3 DEF EntryOK
    <3>4. QED
      BY <3>2, <3>3
  <2>6. QED
    BY <1>4, <1>5, <2>3, <2>4, <2>5, EntryStep
<1>7. CASE thr' = Todo(u, <<>>)
  <2>1. /\ thr'[u].entry = Nil /\ thr'[u].todo = <<>> /\ thr'[u].on = thr[u].on
        /\ thr'[u].running = thr[u].running /\ thr'[u].fds = thr[u].fds
        /\ thr'[u].uid = thr[u].uid /\ thr'[u].timer = thr[u].timer
        /\ \A v \in Users \ {u} : thr'[v] = thr[v]
    BY <1>1, <1>3, <1>7 DEF Todo, PerUserTypes, ThreadShape
  <2>2. OwnFrame(u)
    BY <1>2, <1>3, <1>5, <2>1, RestKinds DEF RestKindsHold, OwnFrame, SameState
  <2>3. UserOK(u)'
    BY <1>2, <1>3, <1>5, <2>1 DEF UserOK, Registered, Alive, Enters, Runs, Untold
  <2>4. EventsOK(u)'
    BY <1>3, <1>5, <2>1, RestFacts, MailKinds
       DEF RestFactsHold, Rests, MailKindsHold, EventsOK, OneEvent, Due, GrantDue, InMail,
           AtEvent, Untold
  <2>5. QED
    BY <1>4, <1>5, <2>2, <2>3, <2>4, FreeStep
<1>8. QED
  BY <1>6, <1>7 DEF Alloc

\* The entry of a request is filled, and not yet in the list.
LEMMA FillOrderly ==
    ASSUME ResourceInv, OrderInv, OneInput, NEW u \in Users, Fill(u)
    PROVE  OrderInv'
<1> DEFINE e == thr[u].entry
<1>1. /\ In(u, "fill") /\ UserOK(u) /\ EventsOK(u) /\ MineOK(u) /\ PerUserTypes
  BY UserTypes DEF Fill, OrderInv, PerUser
<1>2. Registered(u) /\ Enters(u) /\ thr[u].todo = FillRest
  BY <1>1, InRest
<1>3. /\ Runs(u) /\ Untold(u) /\ fifo[u] = <<>> /\ mq[u] = <<>> /\ e \in Slots /\ e # Nil
  BY <1>2, RestFacts, RestKinds DEF RestFactsHold, RestKindsHold, Rests, Enters, Nil, Slots
<1>4. slot[e] = EmptySlot /\ e \notin Listed /\ ~Held(e)
  <2>1. slot[e].prio = Free
    BY <1>1, <1>2, <1>3 DEF MineOK
  <2>2. EntryOK(e)
    BY <1>3 DEF OrderInv
  <2>3. QED
    BY <2>1, <2>2 DEF EntryOK, Held, EmptySlot
<1>5. /\ UNCHANGED <<head, next, ids, lock, scan, mq, fifo, obj, call, told, req, alive>>
      /\ slot' = [slot EXCEPT ![e] =
                     [slot[e] EXCEPT !.prio = req[u].prio, !.owner = u, !.uid = thr[u].uid,
                                     !.in = req[u].in, !.out = req[u].out]]
      /\ thr' = [thr EXCEPT ![u].todo = Tail(@), ![u].timer = TRUE]
  BY DEF Fill, Filled, FillStores, inputs, client, world
<1>6. /\ thr'[u].entry = e /\ thr'[u].todo = AddRest /\ thr'[u].on = thr[u].on
      /\ thr'[u].running = thr[u].running /\ thr'[u].fds = thr[u].fds
      /\ thr'[u].uid = thr[u].uid
      /\ \A v \in Users \ {u} : thr'[v] = thr[v]
  <2>1. /\ thr'[u] = [thr[u] EXCEPT !.todo = Tail(thr[u].todo), !.timer = TRUE]
        /\ thr[u] \in ThreadShape /\ e = thr[u].entry
        /\ \A v \in Users \ {u} : thr'[v] = thr[v]
    BY <1>1, <1>5 DEF PerUserTypes
  <2>2. Tail(thr[u].todo) = AddRest
    BY <1>2, RestFacts DEF RestFactsHold
  <2>3. QED
    BY <2>1, <2>2 DEF ThreadShape
<1>7. /\ slot'[e].prio = req[u].prio /\ slot'[e].owner = u /\ slot'[e].uid = thr[u].uid
      /\ slot'[e].in = req[u].in /\ slot'[e].out = req[u].out
      /\ slot'[e].rec = None /\ slot'[e].play = None
      /\ \A s \in Slots \ {e} : slot'[s] = slot[s]
  <2>1. /\ slot'[e] = [slot[e] EXCEPT !.prio = req[u].prio, !.owner = u, !.uid = thr[u].uid,
                                     !.in = req[u].in, !.out = req[u].out]
        /\ slot[e] \in SlotType
        /\ \A s \in Slots \ {e} : slot'[s] = slot[s]
    BY <1>1, <1>3, <1>5 DEF PerUserTypes
  <2>2. slot[e].rec = None /\ slot[e].play = None
    BY <1>4 DEF EmptySlot
  <2>3. QED
    BY <2>1, <2>2 DEF SlotType
<1>8. /\ req[u].prio # Free /\ req[u].in
      /\ req[u].out # "none" => \E d \in OutIds : req[u].out \in OutCaps[d]
  <2>1. req[u] \in Requests /\ req[u] \in AllRequests
    BY <1>1, ClientsAssumption DEF PerUserTypes
  <2>2. req[u].prio \in 0 .. 2
    BY <2>1 DEF AllRequests
  <2>3. QED
    BY <2>1, <2>2 DEF OneInput, Free
<1> HIDE DEF e
<1>17. alive' = alive /\ Alive(u) /\ Alive(u)' /\ e \in Slots
  BY <1>2, <1>3, <1>5 DEF Registered, Alive
<1>9. EntryFrame(u)
  <2>1. slot[e].rec = None /\ slot[e].play = None
    BY <1>4 DEF EmptySlot
  <2>2. \A s \in Slots : slot'[s].rec = slot[s].rec /\ slot'[s].play = slot[s].play
    BY <1>7, <2>1
  <2>3. QED
    BY <1>5, <1>6, <2>2 DEF EntryFrame
<1>10. lock # u /\ ~Unscrubbed(u) /\ Lister(u)
  <2>1. lock # u
    BY <1>2, LoopUser, RestFacts DEF RestFactsHold, ResourceInv, TypesInv, LoopOK,
       ScanType, Jobs
  <2>2. QED
    BY <1>2, <1>3, <2>1, RestKinds, MailKinds
       DEF RestKindsHold, MailKindsHold, Unscrubbed, Lister, ListRest
<1>11. Listed' = Listed
  BY <1>5, ListKept
<1>12. PerUser(u)'
  <2>1. UserOK(u)'
    BY <1>2, <1>3, <1>5, <1>6 DEF UserOK, Registered, Alive, Enters, Runs, Untold
  <2>2. EventsOK(u)'
    BY <1>3, <1>5, <1>6, RestFacts, MailKinds
       DEF RestFactsHold, MailKindsHold, EventsOK, OneEvent, Due, GrantDue, InMail, AtEvent,
           Untold
  <2>3. MineOK(u)'
    <3>1. AddRest # FillRest
      BY RestFacts DEF RestFactsHold
    <3>2. req' = req /\ e \notin Listed'
      BY <1>4, <1>5, <1>11
    <3>3. QED
      BY <1>6, <1>7, <1>8, <3>1, <3>2 DEF MineOK
  <2>4. QED
    BY <2>1, <2>2, <2>3 DEF PerUser
<1>13. ASSUME NEW s \in Slots PROVE EntryOK(s)'
  <2>1. CASE s = e
    <3>1. Alive(u)' /\ thr[u].uid \in UserIds
      BY <1>2, <1>5 DEF Registered, Alive
    <3>2. UsedOK(s)'
      BY <1>6, <1>7, <1>8, <2>1, <3>1 DEF UsedOK, Held
    <3>3. QED
      BY <1>7, <1>8, <2>1, <3>2 DEF EntryOK
  <2>2. CASE s # e /\ slot[s].prio # Free
    <3>1. UsedOK(s) /\ slot'[s] = slot[s]
      BY <1>7, <2>2 DEF OrderInv, EntryOK
    <3>2. thr'[slot[s].owner].entry = thr[slot[s].owner].entry
      BY <1>5, <1>6, <3>1 DEF UsedOK, e
    <3>3. (Held(s)' <=> Held(s)) /\ (Alive(slot[s].owner)' <=> Alive(slot[s].owner))
      BY <1>17, <3>1 DEF Held, Alive
    <3>4. UsedOK(s)'
      BY <1>11, <3>1, <3>2, <3>3 DEF UsedOK
    <3>5. QED
      BY <2>2, <3>1, <3>4 DEF EntryOK
  <2>3. CASE s # e /\ slot[s].prio = Free
    BY <1>7, <1>11, <2>3 DEF OrderInv, EntryOK
  <2>4. QED
    BY <2>1, <2>2, <2>3
<1>14. \A s \in Slots : Stale(s)' => slot'[s] = slot[s]
  <2>1. \A s \in Slots : s = e => ~Stale(s)'
    BY <1>7, <1>17 DEF Stale, Alive
  <2>2. QED
    BY <1>7, <2>1
<1>15. \A v \in Users \ {u} : thr[v].entry # Nil => slot'[thr[v].entry] = slot[thr[v].entry]
  <2>1. \A v \in Users \ {u} : thr[v].entry # Nil => thr[v].entry \in Slots \ {e}
    BY <1>1, <1>3, EntriesDiffer DEF PerUserTypes, ThreadShape, e
  <2>2. QED
    BY <1>7, <2>1
<1>16. QED
  BY <1>9, <1>10, <1>12, <1>13, <1>14, <1>15, EntryStep

-----------------------------------------------------------------------------
(* The loops, and the scrub.                                             *)

\* Only the loop goes on.
LEMMA LoopMoves ==
    ASSUME ResourceInv, OrderInv,
           UNCHANGED <<memory, ids, thr, mq, fifo, obj, call, told, req, alive>>,
           ScanOK',
           scan'.job = "scrub" =>
              \A s \in Slots : Stale(s) /\ Addressee(s) # None /\ Alive(Addressee(s)) =>
                  From(scan'.at, s)
    PROVE  OrderInv'
<1>1. UNCHANGED <<head, next, slot>> /\ Walk' = Walk /\ Listed' = Listed /\ ListOK'
  BY ListKept DEF memory, OrderInv
<1>2. \A v \in Users : PerUser(v)'
  BY <1>1, SameUser DEF OrderInv, SameState
<1>3. \A s \in Slots : EntryOK(s)'
  BY <1>1 DEF OrderInv, EntryOK, UsedOK, Held, Alive
<1>4. OneLister' /\ OneHolder'
  BY <1>1 DEF OrderInv, OneLister, OneHolder, Lister, Held
<1>5. IdsOK'
  <2>1. ASSUME NEW s \in Slots, Stale(s)', Addressee(s)' # None, Alive(Addressee(s))'
        PROVE  /\ Unscrubbed(Addressee(s))'
               /\ scan'.job = "scrub" => From(scan.at, s)'
    <3>1. Stale(s) /\ Addressee(s)' = Addressee(s) /\ Addressee(s) # None /\ Alive(Addressee(s))
      BY <1>1, <2>1 DEF Stale, Addressee, Alive
    <3>2. Unscrubbed(Addressee(s))'
      BY <1>1, <3>1 DEF OrderInv, IdsOK, Unscrubbed
    <3>3. scan'.job = "scrub" => From(scan.at, s)'
      BY <1>1, <3>1 DEF From
    <3>4. QED
      BY <3>2, <3>3
  <2>2. QED
    BY <2>1 DEF IdsOK
<1>6. QED
  BY <1>1, <1>2, <1>3, <1>4, <1>5 DEF OrderInv

\* The lock is given back by the thread of a section.
LEMMA UnlockStep ==
    ASSUME ResourceInv, OrderInv, NEW u \in Users, OwnFrame(u), Unlock, UserOK(u)', EventsOK(u)',
           IdsOK', Lister(u)' => Lister(u)
    PROVE  OrderInv'
<1>1. ScanOK'
  BY DEF Unlock, NoScan, ScanOK, Nil
<1>2. QED
  BY <1>1, OwnStep

\* The scrub starts at the head: every stale entry is ahead of it (ScrubBegin).
LEMMA ScrubBeginOrderly ==
    ASSUME ResourceInv, OrderInv, NEW u \in Users, ScrubBegin(u)
    PROVE  OrderInv'
<1>1. /\ In(u, "scrub") /\ lock' = u /\ scan' = Scan("scrub", head)
      /\ UNCHANGED <<memory, ids, thr, mq, fifo, obj, call, told, req, alive>>
  BY DEF ScrubBegin, CanLock, inputs, client, world
<1>2. /\ scan'.job = "scrub" /\ scan'.at = head /\ ~scan'.revoked
  BY <1>1 DEF Scan, NoScan
<1>3. Lined /\ Listed' = Listed
  BY <1>1, ListLined, ListKept DEF OrderInv, memory
<1>4. ScanOK'
  <2>1. thr'[u].todo # <<>> /\ Head(thr'[u].todo) = "scrub"
    BY <1>1 DEF In, Idle
  <2>2. QED
    BY <1>1, <1>2, <1>3, <2>1, UsersAssumption DEF ScanOK, Section, Lined
<1>5. \A s \in Slots : Stale(s) => From(head, s)
  BY <1>3, StaleEntry DEF Lined
<1>6. QED
  BY <1>1, <1>2, <1>4, <1>5, LoopMoves

\* No user has an entry that is stale.
LEMMA StaleUnused ==
    ASSUME ResourceInv, OrderInv, NEW s \in Slots, Stale(s), NEW v \in Users
    PROVE  thr[v].entry # s
<1>1. SUFFICES ASSUME thr[v].entry = s PROVE FALSE
  OBVIOUS
<1>2. slot[s].prio # Free /\ PerUser(v) /\ s # Nil
  BY StaleEntry DEF OrderInv, Nil, Slots
<1>3. slot[s].owner = v
  BY <1>1, <1>2 DEF PerUser, MineOK
<1>4. ~Alive(v)
  BY <1>3 DEF Stale
<1>5. Out(v)
  BY <1>2, <1>4 DEF PerUser, UserOK, Registered
<1>6. QED
  BY <1>1, <1>2, <1>5 DEF Out, NoThread

\* The scrub goes to the next entry, or removes and frees a stale one; there is no
\* other stale entry, so that it may end there (ScrubStep).
LEMMA ScrubStepOrderly ==
    ASSUME ResourceInv, OrderInv, NEW u \in Users, ScrubStep(u)
    PROVE  OrderInv'
<1>1. /\ lock = u /\ scan.job = "scrub" /\ scan.at # Nil
      /\ UNCHANGED <<ids, lock, thr, mq, fifo, obj, call, told, req, alive>>
      /\ scan \in ScanType
  BY DEF ScrubStep, Scanning, inputs, client, world, ResourceInv, TypesInv, LoopOK
<1>2. Lined /\ scan.at \in Listed /\ scan.at \in Slots
  BY <1>1, ListLined DEF OrderInv, ScanOK, Lined
<1>3. ScanOK /\ thr[u].todo # <<>> /\ Head(thr[u].todo) = "scrub"
  BY <1>1, UsersAssumption DEF OrderInv, ScanOK, Section
<1>4. CASE ~Stale(scan.at)
  <2>1. UNCHANGED memory /\ scan' = [scan EXCEPT !.at = next[scan.at]]
    BY <1>4 DEF ScrubStep
  <2>2. scan'.at = next[scan.at] /\ scan'.job = "scrub"
    BY <1>1, <2>1 DEF ScanType
  <2>3. Listed' = Listed /\ next[scan.at] \in Listed \cup {Nil}
    BY <1>2, <2>1, ListKept DEF memory, Lined
  <2>4. ScanOK'
    BY <1>1, <1>3, <2>2, <2>3, UsersAssumption DEF ScanOK, Section
  <2>5. \A s \in Slots : Stale(s) /\ Addressee(s) # None /\ Alive(Addressee(s)) =>
            From(next[scan.at], s)
    BY <1>1, <1>2, <1>4 DEF OrderInv, IdsOK, Lined
  <2>6. QED
    BY <1>1, <2>1, <2>2, <2>4, <2>5, LoopMoves
<1>5. CASE Stale(scan.at)
  <2>1. PICK s \in Slots : s = scan.at
    BY <1>2
  <2>2. Stale(s) /\ Unlink(s) /\ FreeSlot(s) /\ scan' = [scan EXCEPT !.at = Nil]
    BY <1>5, <2>1 DEF ScrubStep, RemoveStale
  <2>3. scan'.at = Nil /\ scan'.job = "scrub"
    BY <1>1, <2>2 DEF ScanType
  <2>4. ListOK' /\ Listed' = Listed \ {s}
    BY <2>2, UnlinkList DEF OrderInv, ResourceInv, TypesInv
  <2>5. slot'[s] = EmptySlot /\ \A t \in Slots \ {s} : slot'[t] = slot[t]
    BY <2>2, UserTypes, FreeWhole DEF PerUserTypes
  <2>6. \A v \in Users : thr[v].entry # s
    BY <2>2, StaleUnused
  <2>7. \A v \in Users : PerUser(v)'
    <3>1. \A v \in Users : thr[v].entry \in Slots \cup {Nil}
      BY UserTypes DEF PerUserTypes, ThreadShape
    <3>2. \A v \in Users : SameState(v)
      BY <1>1 DEF SameState
    <3>3. QED
      BY <1>1, <2>4, <2>5, <2>6, <3>1, <3>2, SameUser DEF OrderInv
  <2>8. ASSUME NEW t \in Slots PROVE EntryOK(t)'
    <3>1. CASE t = s
      BY <2>4, <2>5, <3>1 DEF EntryOK, EmptySlot
    <3>2. CASE t # s
      <4>1. slot'[t] = slot[t] /\ (t \in Listed' <=> t \in Listed) /\ EntryOK(t) /\ (Held(t)' <=> Held(t))
        BY <2>4, <2>5, <3>2 DEF Held, OrderInv
      <4>2. Alive(slot[t].owner)' <=> Alive(slot[t].owner)
        BY <1>1, <4>1 DEF Alive
      <4>3. QED
        BY <1>1, <4>1, <4>2 DEF EntryOK, UsedOK
    <3>3. QED
      BY <3>1, <3>2
  <2>9. \A t \in Slots : ~Held(t)'
    <3>1. \A t \in Slots : Held(t) => t = s
      BY <2>2, StaleEntry DEF OrderInv, OneHolder
    <3>2. QED
      BY <2>5, <3>1 DEF Held, EmptySlot
  <2>10. OneLister' /\ OneHolder'
    BY <1>1, <2>9 DEF OrderInv, OneLister, OneHolder, Lister
  <2>11. ScanOK'
    BY <1>1, <1>3, <2>3, UsersAssumption DEF ScanOK, Section
  <2>12. \A t \in Slots : ~Stale(t)'
    <3>1. \A t \in Slots : Stale(t) => t = s
      BY <2>2, StaleEntry DEF OrderInv, OneHolder
    <3>2. QED
      BY <1>1, <2>5, <3>1 DEF Stale, EmptySlot, Alive
  <2>13. QED
    BY <2>4, <2>7, <2>8, <2>10, <2>11, <2>12 DEF OrderInv, IdsOK
<1>6. QED
  BY <1>4, <1>5

\* When the scrub is over no entry is stale (ScrubEnd).
LEMMA ScrubEndOrderly ==
    ASSUME ResourceInv, OrderInv, NEW u \in Users, ScrubEnd(u)
    PROVE  OrderInv'
<1>1. /\ lock = u /\ scan.job = "scrub" /\ scan.at = Nil /\ Done(u) /\ Unlock
      /\ UNCHANGED <<memory, ids, mq, fifo, obj, call, told, req, alive>>
  BY DEF ScrubEnd, Scanning, inputs, client, world
<1>2. /\ Registered(u) /\ UserOK(u) /\ EventsOK(u) /\ PerUserTypes
      /\ thr[u].todo \in {ScrubAsk, ScrubFree, ScrubTimer}
  BY <1>1, LoopUser, UserTypes
<1>3. /\ OnlyTodo(u, Tail(thr[u].todo))
      /\ thr[u].todo = ScrubAsk => thr'[u].todo = AllocRest
      /\ thr[u].todo = ScrubFree => thr'[u].todo = RemoveRest
      /\ thr[u].todo = ScrubTimer => thr'[u].todo = UpdateRest
  BY <1>1, <1>2, DoneLeaves, RestFacts DEF OnlyTodo, RestFactsHold
<1>4. \A v \in Users \ {u} : SameState(v)
  BY <1>1, <1>3 DEF SameState, OnlyTodo
<1>5. OwnFrame(u)
  BY <1>1, <1>2, <1>3, <1>4, RestKinds DEF RestKindsHold, OwnFrame, OnlyTodo
<1>6. UserOK(u)'
  <2>1. Registered(u)'
    BY <1>1, <1>2, <1>3 DEF Registered, Alive, OnlyTodo
  <2>2. CASE thr[u].todo = ScrubAsk
    <3>1. Enters(u) /\ thr[u].entry = Nil /\ ~thr[u].timer
      BY <1>2, <2>2, RestKinds, RestFacts
         DEF RestKindsHold, RestFactsHold, UserOK, Out, NoThread, Asks, Enters, Queued, Leaves, Gone
    <3>2. Enters(u)'
      BY <1>1, <1>3, <2>2, <3>1 DEF Enters, Runs, Untold, OnlyTodo
    <3>3. QED
      BY <2>1, <3>2 DEF UserOK
  <2>3. CASE thr[u].todo = ScrubFree
    <3>1. Leaves(u)
      BY <1>2, <2>3, RestKinds, RestFacts
         DEF RestKindsHold, RestFactsHold, UserOK, Out, NoThread, Asks, Enters, Queued, Leaves, Gone,
             ListRest
    <3>2. Leaves(u)'
      BY <1>1, <1>3, <2>3, <3>1 DEF Leaves, Runs, OnlyTodo
    <3>3. QED
      BY <2>1, <3>2 DEF UserOK
  <2>4. CASE thr[u].todo = ScrubTimer
    <3>1. Queued(u)
      BY <1>2, <2>4, RestKinds, RestFacts
         DEF RestKindsHold, RestFactsHold, UserOK, Out, NoThread, Asks, Enters, Queued, Leaves, Gone,
             ListRest
    <3>2. Queued(u)'
      BY <1>1, <1>3, <2>4, <3>1 DEF Queued, Runs, OnlyTodo
    <3>3. QED
      BY <2>1, <3>2 DEF UserOK
  <2>5. QED
    BY <1>2, <2>2, <2>3, <2>4
<1>7. EventsOK(u)'
  <2>1. /\ thr[u].todo \notin {GrantRest, SetRest, CallRest}
        /\ thr'[u].todo \notin {GrantRest, SetRest, CallRest}
    BY <1>2, <1>3, RestKinds DEF RestKindsHold, ListRest
  <2>2. (InMail(u)' <=> InMail(u)) /\ ~AtEvent(u)' /\ (GrantDue(u)' => GrantDue(u))
    BY <1>1, <2>1 DEF InMail, AtEvent, GrantDue
  <2>3. OneEvent(u)' /\ (Due(u)' => Due(u))
    BY <1>1, <1>2, <2>1, <2>2 DEF EventsOK, OneEvent, Due
  <2>4. QED
    BY <1>1, <1>2, <1>3, <2>2, <2>3, EventsKept DEF memory, OnlyTodo
<1>8. IdsOK'
  <2>1. \A s \in Slots : ~(Stale(s) /\ Addressee(s) # None /\ Alive(Addressee(s)))
    BY <1>1 DEF OrderInv, IdsOK, From
  <2>2. \A s \in Slots : ~(Stale(s)' /\ Addressee(s)' # None /\ Alive(Addressee(s))')
    BY <1>1, <2>1 DEF memory, Stale, Addressee, Alive
  <2>3. QED
    BY <2>2 DEF IdsOK
<1>9. Lister(u)
  BY <1>2 DEF Lister, ListRest
<1>10. QED
  BY <1>1, <1>5, <1>6, <1>7, <1>8, <1>9, UnlockStep

-----------------------------------------------------------------------------
(* The insertion.                                                        *)

\* The entry of a request is in the list.
LEMMA Inserted ==
    ASSUME ResourceInv, OrderInv, NEW u \in Users, Registered(u), Enters(u),
           thr[u].todo = AddRest, ListOK', Listed' = Listed \cup {thr[u].entry},
           OnlyTodo(u, UpdateRest),
           UNCHANGED <<slot, ids, mq, fifo, obj, call, told, req, alive>>,
           lock' = None, scan'.job = "none", scan'.at = Nil
    PROVE  OrderInv'
<1>1. PICK e \in Slots : e = thr[u].entry
  BY RestFacts, RestKinds DEF Enters, RestFactsHold, RestKindsHold, Rests
<1>2. /\ Runs(u) /\ Untold(u) /\ mq[u] = <<>> /\ fifo[u] = <<>> /\ PerUser(u) /\ e # Nil
      /\ PerUserTypes
  BY <1>1, UserTypes DEF Enters, OrderInv, Nil, Slots
<1>3. \A v \in Users \ {u} : SameState(v)
  BY DEF SameState, OnlyTodo
<1>4. \A v \in Users \ {u} : thr[v].entry # e
  BY <1>1, <1>2, EntriesDiffer
<1>5. ASSUME NEW v \in Users PROVE PerUser(v)'
  <2>1. CASE v # u
    BY <1>1, <1>3, <1>4, <2>1, SameUser DEF OrderInv
  <2>2. CASE v = u
    <3>1. UserOK(u)'
      <4>1. Registered(u)'
        BY DEF Registered, Alive, OnlyTodo
      <4>2. Queued(u)'
        BY <1>1, <1>2 DEF Queued, Runs, Untold, OnlyTodo, Calm
      <4>3. QED
        BY <4>1, <4>2 DEF UserOK
    <3>2. EventsOK(u)'
      BY <1>2, RestFacts, RestKinds, MailKinds
         DEF RestFactsHold, RestKindsHold, MailKindsHold, EventsOK, OneEvent, Due, GrantDue, InMail,
             AtEvent, Untold, OnlyTodo
    <3>3. MineOK(u)'
      <4>1. /\ slot[e].prio # Free /\ slot[e].owner = u /\ slot[e].uid = thr[u].uid
            /\ slot[e].in = req[u].in /\ slot[e].out = req[u].out
        BY <1>1, <1>2, RestFacts DEF PerUser, MineOK, RestFactsHold
      <4>2. UpdateRest \notin {FillRest, AddRest, FreeRest}
        BY RestKinds DEF RestKindsHold
      <4>3. QED
        BY <1>1, <1>2, <4>1, <4>2 DEF MineOK, OnlyTodo
    <3>4. QED
      BY <2>2, <3>1, <3>2, <3>3 DEF PerUser
  <2>3. QED
    BY <2>1, <2>2
<1>6. ASSUME NEW s \in Slots PROVE EntryOK(s)'
  <2>1. \A v \in Users : thr'[v].entry = thr[v].entry
    BY DEF OnlyTodo
  <2>2. EntryOK(s) /\ slot'[s] = slot[s] /\ (Held(s)' <=> Held(s))
        /\ (Alive(slot[s].owner)' <=> Alive(slot[s].owner))
    BY DEF OrderInv, Held, Alive
  <2>3. CASE s = e
    <3>1. slot[e].prio # Free
      BY <1>1, <1>2, RestFacts DEF PerUser, MineOK, RestFactsHold
    <3>2. QED
      BY <1>1, <2>1, <2>2, <2>3, <3>1 DEF EntryOK, UsedOK
  <2>4. CASE s # e
    BY <1>1, <2>1, <2>2, <2>4 DEF EntryOK, UsedOK
  <2>5. QED
    BY <2>3, <2>4
<1>7. OneLister'
  <2>1. \A v \in Users \ {u} : Lister(v)' <=> Lister(v)
    BY <1>3 DEF SameState, Lister
  <2>2. Lister(u)
    BY DEF Lister, ListRest
  <2>3. QED
    BY <2>1, <2>2 DEF OrderInv, OneLister
<1>8. OneHolder'
  BY DEF OrderInv, OneHolder, Held
<1>9. ScanOK'
  BY DEF ScanOK
<1>10. IdsOK'
  <2>1. ASSUME NEW s \in Slots, Stale(s)', Addressee(s)' # None, Alive(Addressee(s))'
        PROVE  Unscrubbed(Addressee(s))'
    <3>1. Stale(s) /\ Addressee(s)' = Addressee(s) /\ Addressee(s) # None /\ Alive(Addressee(s))
      BY <2>1 DEF Stale, Addressee, Alive
    <3>2. Addressee(s) \in Users /\ Unscrubbed(Addressee(s))
      BY <3>1, StaleEntry DEF OrderInv, IdsOK
    <3>3. ~Unscrubbed(u)
      BY <1>2, RestFacts, MailKinds DEF Unscrubbed, RestFactsHold, MailKindsHold
    <3>4. PICK a \in Users : a = Addressee(s) /\ Unscrubbed(a) /\ a # u
      BY <3>2, <3>3
    <3>5. Unscrubbed(a)' /\ Addressee(s)' = a
      BY <1>3, <3>1, <3>4 DEF SameState, Unscrubbed
    <3>6. QED
      BY <3>5 DEF Unscrubbed
  <2>2. QED
    BY <2>1 DEF IdsOK
<1>11. QED
  BY <1>5, <1>6, <1>7, <1>8, <1>9, <1>10 DEF OrderInv

\* The entry becomes the head of an empty list, or the search starts (AddBegin).
LEMMA AddBeginOrderly ==
    ASSUME ResourceInv, OrderInv, NEW u \in Users, AddBegin(u)
    PROVE  OrderInv'
<1>1. /\ In(u, "add") /\ lock = None /\ PerUserTypes /\ PerUser(u)
      /\ UNCHANGED <<slot, busyIn, busyOut, ids, mq, fifo, obj, call, told, req, alive>>
  BY UserTypes DEF AddBegin, CanLock, inputs, client, world, OrderInv
<1>2. Registered(u) /\ thr[u].todo = AddRest /\ Enters(u)
  BY <1>1, InRest DEF PerUser
<1>3. thr[u].entry \in Slots /\ thr[u].entry \notin Listed
  BY <1>1, <1>2, RestFacts, RestKinds DEF RestFactsHold, RestKindsHold, Rests, Enters, Nil, Slots,
     PerUser, MineOK
<1>4. Lined /\ scan.job = "none"
  BY <1>1, ListLined DEF OrderInv, ScanOK
<1>5. CASE head = Nil
  <2>1. /\ head' = thr[u].entry /\ next' = [next EXCEPT ![thr[u].entry] = Nil]
        /\ Done(u) /\ UNCHANGED <<lock, scan>>
    BY <1>5 DEF AddBegin
  <2>2. ListOK' /\ Listed' = Listed \cup {thr[u].entry}
    BY <1>3, <1>5, <2>1, InsertFirst DEF OrderInv, ResourceInv, TypesInv
  <2>3. OnlyTodo(u, UpdateRest)
    BY <1>1, <1>2, <2>1, DoneLeaves, RestFacts DEF RestFactsHold
  <2>4. scan.at = Nil
    BY <1>4, <1>5 DEF Lined, OrderInv, ScanOK
  <2>5. QED
    BY <1>1, <1>2, <1>4, <2>1, <2>2, <2>3, <2>4, Inserted
<1>6. CASE head # Nil
  <2>1. /\ lock' = u /\ scan' = Scan("add", head) /\ UNCHANGED <<head, next, thr, memory>>
    BY <1>1, <1>6 DEF AddBegin, memory
  <2>2. /\ scan'.job = "add" /\ scan'.at = head /\ ~scan'.revoked
    BY <2>1 DEF Scan, NoScan
  <2>3. Listed' = Listed
    BY <2>1, ListKept
  <2>4. ScanOK'
    BY <1>2, <1>4, <1>6, <2>1, <2>2, <2>3, RestFacts, UsersAssumption
       DEF RestFactsHold, ScanOK, Section, Lined, Rests
  <2>5. QED
    BY <1>1, <2>1, <2>2, <2>4, LoopMoves
<1>7. QED
  BY <1>5, <1>6

\* The entry is inserted before the head or after the entry of the search, or the
\* search goes on (AddStep).
LEMMA AddStepOrderly ==
    ASSUME ResourceInv, OrderInv, NEW u \in Users, AddStep(u)
    PROVE  OrderInv'
<1>1. /\ lock = u /\ scan.job = "add" /\ scan \in ScanType /\ PerUserTypes /\ PerUser(u)
      /\ UNCHANGED <<slot, busyIn, busyOut, ids, mq, fifo, obj, call, told, req, alive>>
  BY UserTypes DEF AddStep, Scanning, inputs, client, world, OrderInv, ResourceInv, TypesInv, LoopOK
<1>2. Registered(u) /\ thr[u].todo = AddRest /\ Enters(u)
  BY <1>1, LoopUser
<1>3. thr[u].entry \in Slots /\ thr[u].entry \notin Listed
  BY <1>1, <1>2, RestFacts, RestKinds DEF RestFactsHold, RestKindsHold, Rests, Enters, Nil, Slots,
     PerUser, MineOK
<1>4. Lined /\ scan.at \in Listed /\ ScanOK /\ MemoryOK
  BY <1>1, ListLined DEF OrderInv, ScanOK, ResourceInv, TypesInv
<1>5. CASE /\ \/ /\ scan.at = head
                 /\ head' = thr[u].entry /\ next' = [next EXCEPT ![thr[u].entry] = head]
              \/ InsertAfter(scan.at, thr[u].entry) /\ UNCHANGED head
           /\ Done(u) /\ Unlock
  <2>1. ListOK' /\ Listed' = Listed \cup {thr[u].entry}
    BY <1>3, <1>4, <1>5, InsertFirst, InsertNext DEF OrderInv
  <2>2. OnlyTodo(u, UpdateRest)
    BY <1>1, <1>2, <1>5, DoneLeaves, RestFacts DEF RestFactsHold
  <2>3. lock' = None /\ scan'.job = "none" /\ scan'.at = Nil
    BY <1>5 DEF Unlock, NoScan
  <2>4. QED
    BY <1>1, <1>2, <2>1, <2>2, <2>3, Inserted
<1>6. CASE /\ next[scan.at] # Nil /\ scan' = [scan EXCEPT !.at = next[scan.at]]
           /\ UNCHANGED <<head, next, thr, lock>>
  <2>1. scan'.at = next[scan.at] /\ scan'.job = "add"
    BY <1>1, <1>6 DEF ScanType
  <2>2. Listed' = Listed /\ next[scan.at] \in Listed
    BY <1>4, <1>6, ListKept DEF Lined
  <2>3. ScanOK'
    BY <1>1, <1>4, <1>6, <2>1, <2>2, UsersAssumption DEF ScanOK, Section
  <2>4. QED
    BY <1>1, <1>6, <2>1, <2>3, LoopMoves DEF memory
<1>7. QED
  BY <1>5, <1>6 DEF AddStep

-----------------------------------------------------------------------------
(* The removal.                                                          *)

\* The list loses an entry that its owner is about to free.
LEMMA RemoveOrderly ==
    ASSUME ResourceInv, OrderInv, NEW u \in Users, Remove(u)
    PROVE  OrderInv'
<1>1. /\ In(u, "remove") /\ lock = None /\ PerUserTypes /\ PerUser(u)
      /\ UNCHANGED <<slot, busyIn, busyOut, ids, scan, mq, fifo, obj, call, told, req, alive>>
  BY UserTypes DEF Remove, CanLock, inputs, client, world, OrderInv
<1>2. Registered(u) /\ thr[u].todo = RemoveRest /\ Leaves(u)
  BY <1>1, InRest DEF PerUser
<1>3. Lined /\ scan.job = "none" /\ scan.at = Nil
  BY <1>1, ListLined DEF OrderInv, ScanOK
<1>4. PICK e \in Slots : e = thr[u].entry
  BY <1>2 DEF Leaves
<1>5. Unlink(e) /\ Done(u) /\ UNCHANGED lock
  BY <1>3, <1>4 DEF Remove, Endless, Lined
<1>6. ListOK' /\ Listed' = Listed \ {e}
  BY <1>5, UnlinkList DEF OrderInv, ResourceInv, TypesInv
<1>7. OnlyTodo(u, FreeRest)
  BY <1>1, <1>2, <1>5, DoneLeaves, RestFacts DEF RestFactsHold
<1>8. \A v \in Users \ {u} : SameState(v)
  BY <1>1, <1>7 DEF SameState, OnlyTodo
<1>9. \A v \in Users \ {u} : thr[v].entry # e
  BY <1>4, EntriesDiffer DEF Nil, Slots
<1>10. /\ slot[e].prio # Free /\ slot[e].owner = u /\ slot[e].uid = thr[u].uid
       /\ slot[e].in = req[u].in /\ slot[e].out = req[u].out /\ e # Nil
  BY <1>1, <1>2, <1>4, RestFacts DEF PerUser, MineOK, RestFactsHold, Nil, Slots
<1>11. ASSUME NEW v \in Users PROVE PerUser(v)'
  <2>1. CASE v # u
    BY <1>1, <1>6, <1>8, <1>9, <2>1, SameUser DEF OrderInv
  <2>2. CASE v = u
    <3>1. UserOK(u)'
      <4>1. Registered(u)'
        BY <1>1, <1>2, <1>7 DEF Registered, Alive, OnlyTodo
      <4>2. Leaves(u)'
        BY <1>1, <1>2, <1>7 DEF Leaves, Runs, OnlyTodo
      <4>3. QED
        BY <4>1, <4>2 DEF UserOK
    <3>2. EventsOK(u)'
      <4>1. (InMail(u)' <=> InMail(u)) /\ (AtEvent(u)' <=> AtEvent(u))
            /\ (GrantDue(u)' <=> GrantDue(u)) /\ thr'[u].todo # SetRest /\ thr[u].todo # SetRest
        BY <1>1, <1>2, <1>7, RestKinds, RestFacts
           DEF RestFactsHold, RestKindsHold, InMail, AtEvent, GrantDue, OnlyTodo, ListRest
      <4>2. OneEvent(u)' /\ (Due(u)' => Due(u))
        BY <1>1, <4>1 DEF OneEvent, Due, PerUser, EventsOK
      <4>3. QED
        BY <1>1, <1>7, <4>1, <4>2, EventsKept DEF OnlyTodo, PerUser
    <3>3. MineOK(u)'
      <4>1. FreeRest # FillRest
        BY RestFacts DEF RestFactsHold
      <4>2. QED
        BY <1>1, <1>4, <1>6, <1>7, <1>10, <4>1 DEF MineOK, OnlyTodo
    <3>4. QED
      BY <2>2, <3>1, <3>2, <3>3 DEF PerUser
  <2>3. QED
    BY <2>1, <2>2
<1>12. ASSUME NEW s \in Slots PROVE EntryOK(s)'
  <2>1. \A v \in Users : thr'[v].entry = thr[v].entry
    BY <1>7 DEF OnlyTodo
  <2>2. EntryOK(s) /\ slot'[s] = slot[s] /\ (Held(s)' <=> Held(s))
        /\ (Alive(slot[s].owner)' <=> Alive(slot[s].owner))
    BY <1>1 DEF OrderInv, Held, Alive
  <2>3. CASE s = e
    <3>1. Alive(u)
      BY <1>2 DEF Registered
    <3>2. QED
      BY <1>10, <2>1, <2>2, <2>3, <3>1 DEF EntryOK, UsedOK
  <2>4. CASE s # e
    BY <1>6, <2>1, <2>2, <2>4 DEF EntryOK, UsedOK
  <2>5. QED
    BY <2>3, <2>4
<1>13. Lister(u) /\ ~Unscrubbed(u)
  BY <1>2, RestKinds, MailKinds DEF RestKindsHold, MailKindsHold, Lister, ListRest, Unscrubbed, Leaves
<1>14. OneLister'
  <2>1. \A v \in Users \ {u} : Lister(v)' <=> Lister(v)
    BY <1>8 DEF SameState, Lister
  <2>2. QED
    BY <1>13, <2>1 DEF OrderInv, OneLister
<1>15. OneHolder'
  BY <1>1 DEF OrderInv, OneHolder, Held
<1>16. ScanOK'
  BY <1>1, <1>3, <1>5 DEF ScanOK
<1>17. IdsOK'
  <2>1. ASSUME NEW s \in Slots, Stale(s)', Addressee(s)' # None, Alive(Addressee(s))'
        PROVE  Unscrubbed(Addressee(s))'
    <3>1. Stale(s) /\ Addressee(s)' = Addressee(s) /\ Addressee(s) # None /\ Alive(Addressee(s))
      BY <1>1, <2>1 DEF Stale, Addressee, Alive
    <3>2. Addressee(s) \in Users /\ Unscrubbed(Addressee(s))
      BY <3>1, StaleEntry DEF OrderInv, IdsOK
    <3>3. PICK a \in Users : a = Addressee(s) /\ Unscrubbed(a) /\ a # u
      BY <1>13, <3>2
    <3>4. Unscrubbed(a)' /\ Addressee(s)' = a
      BY <1>8, <3>1, <3>3 DEF SameState, Unscrubbed
    <3>5. QED
      BY <3>4 DEF Unscrubbed
  <2>2. QED
    BY <1>1, <1>3, <2>1 DEF IdsOK
<1>18. QED
  BY <1>6, <1>11, <1>12, <1>14, <1>15, <1>16, <1>17 DEF OrderInv

\* The entry of a request that is released is free again.
LEMMA FreeEntryOrderly ==
    ASSUME ResourceInv, OrderInv, NEW u \in Users, FreeEntry(u)
    PROVE  OrderInv'
<1>1. /\ In(u, "free") /\ lock = None /\ PerUserTypes /\ PerUser(u)
      /\ UNCHANGED <<head, next, ids, lock, scan, mq, fifo, obj, call, told, req, alive>>
      /\ FreeSlot(thr[u].entry)
      /\ thr' = [thr EXCEPT ![u].entry = Nil, ![u].todo = Tail(@)]
  BY UserTypes DEF FreeEntry, CanLock, inputs, client, world, OrderInv
<1>2. Registered(u) /\ thr[u].todo = FreeRest /\ Leaves(u)
  BY <1>1, InRest DEF PerUser
<1>3. scan.job = "none"
  BY <1>1 DEF OrderInv, ScanOK
<1>4. PICK e \in Slots : e = thr[u].entry
  BY <1>2 DEF Leaves
<1>5. /\ slot'[e] = EmptySlot /\ \A t \in Slots \ {e} : slot'[t] = slot[t]
  BY <1>1, <1>4, FreeWhole DEF PerUserTypes
<1>6. /\ thr'[u].entry = Nil /\ thr'[u].todo = UpdateRest /\ thr'[u].on = thr[u].on
      /\ thr'[u].running = thr[u].running /\ thr'[u].fds = thr[u].fds
      /\ thr'[u].uid = thr[u].uid /\ thr'[u].timer = thr[u].timer
      /\ \A v \in Users \ {u} : thr'[v] = thr[v]
  BY <1>1, <1>2, RestFacts DEF RestFactsHold, PerUserTypes, ThreadShape
<1>7. ListOK' /\ Listed' = Listed /\ Walk' = Walk
  BY <1>1, ListKept DEF OrderInv
<1>8. \A v \in Users \ {u} : SameState(v)
  BY <1>1, <1>6 DEF SameState
<1>9. \A v \in Users \ {u} : thr[v].entry # e /\ thr[v].entry \in Slots \cup {Nil}
  BY <1>1, <1>4, EntriesDiffer DEF Nil, Slots, PerUserTypes, ThreadShape
<1>10. e \notin Listed /\ slot[e].owner = u /\ e # Nil
  BY <1>1, <1>2, <1>4, RestFacts DEF PerUser, MineOK, RestFactsHold, Nil, Slots
<1>11. ASSUME NEW v \in Users PROVE PerUser(v)'
  <2>1. CASE v # u
    BY <1>1, <1>5, <1>7, <1>8, <1>9, <2>1, SameUser DEF OrderInv
  <2>2. CASE v = u
    <3>1. UserOK(u)'
      <4>1. Registered(u)'
        BY <1>1, <1>2, <1>6 DEF Registered, Alive
      <4>2. Gone(u)'
        BY <1>1, <1>2, <1>6 DEF Leaves, Gone, Runs
      <4>3. QED
        BY <4>1, <4>2 DEF UserOK
    <3>2. EventsOK(u)'
      <4>1. (InMail(u)' <=> InMail(u)) /\ (AtEvent(u)' <=> AtEvent(u))
            /\ (GrantDue(u)' <=> GrantDue(u)) /\ thr'[u].todo # SetRest /\ thr[u].todo # SetRest
        BY <1>1, <1>2, <1>6, RestKinds, RestFacts
           DEF RestFactsHold, RestKindsHold, InMail, AtEvent, GrantDue, ListRest
      <4>2. OneEvent(u)' /\ (Due(u)' => Due(u))
        BY <1>1, <4>1 DEF OneEvent, Due, PerUser, EventsOK
      <4>3. call[u] = "client" /\ (Untold(u)' <=> Untold(u))
        BY <1>1, <1>2 DEF Leaves, Untold
      <4>4. QED
        BY <1>1, <1>6, <4>1, <4>2, <4>3 DEF PerUser, EventsOK
    <3>3. MineOK(u)'
      BY <1>6 DEF MineOK
    <3>4. QED
      BY <2>2, <3>1, <3>2, <3>3 DEF PerUser
  <2>3. QED
    BY <2>1, <2>2
<1>12. ASSUME NEW s \in Slots PROVE EntryOK(s)'
  <2>1. CASE s = e
    BY <1>5, <1>7, <1>10, <2>1 DEF EntryOK, EmptySlot
  <2>2. CASE s # e
    <3>1. EntryOK(s) /\ slot'[s] = slot[s] /\ (Held(s)' <=> Held(s))
          /\ (Alive(slot[s].owner)' <=> Alive(slot[s].owner))
      BY <1>1, <1>5, <2>2 DEF OrderInv, Held, Alive
    <3>2. CASE slot[s].prio # Free
      <4>1. UsedOK(s)
        BY <3>1, <3>2 DEF EntryOK
      <4>2. Alive(slot[s].owner) => slot[s].owner # u
        BY <1>4, <2>2, <4>1 DEF UsedOK
      <4>3. UsedOK(s)'
        BY <1>6, <1>7, <3>1, <4>1, <4>2 DEF UsedOK
      <4>4. QED
        BY <3>1, <3>2, <4>3 DEF EntryOK
    <3>3. CASE slot[s].prio = Free
      BY <1>7, <3>1, <3>3 DEF EntryOK
    <3>4. QED
      BY <3>2, <3>3
  <2>3. QED
    BY <2>1, <2>2
<1>13. Lister(u) /\ ~Unscrubbed(u)
  BY <1>2, RestKinds, MailKinds DEF RestKindsHold, MailKindsHold, Lister, ListRest, Unscrubbed, Leaves
<1>14. OneLister'
  <2>1. \A v \in Users \ {u} : Lister(v)' <=> Lister(v)
    BY <1>8 DEF SameState, Lister
  <2>2. QED
    BY <1>13, <2>1 DEF OrderInv, OneLister
<1>15. OneHolder'
  <2>1. \A s \in Slots : Held(s)' => Held(s)
    BY <1>5 DEF Held, EmptySlot
  <2>2. QED
    BY <2>1 DEF OrderInv, OneHolder
<1>16. ScanOK'
  BY <1>1, <1>3, <1>7 DEF ScanOK, OrderInv
<1>17. IdsOK'
  <2>1. ASSUME NEW s \in Slots, Stale(s)', Addressee(s)' # None, Alive(Addressee(s))'
        PROVE  Unscrubbed(Addressee(s))'
    <3>1. s # e
      BY <1>5, <2>1 DEF Stale, EmptySlot
    <3>2. Stale(s) /\ Addressee(s)' = Addressee(s) /\ Addressee(s) # None /\ Alive(Addressee(s))
      BY <1>1, <1>5, <2>1, <3>1 DEF Stale, Addressee, Alive
    <3>3. Addressee(s) \in Users /\ Unscrubbed(Addressee(s))
      BY <3>2, StaleEntry DEF OrderInv, IdsOK
    <3>4. PICK a \in Users : a = Addressee(s) /\ Unscrubbed(a) /\ a # u
      BY <1>13, <3>3
    <3>5. Unscrubbed(a)' /\ Addressee(s)' = a
      BY <1>8, <3>2, <3>4 DEF SameState, Unscrubbed
    <3>6. QED
      BY <3>5 DEF Unscrubbed
  <2>2. QED
    BY <1>1, <1>3, <2>1 DEF IdsOK
<1>18. QED
  BY <1>7, <1>11, <1>12, <1>14, <1>15, <1>16, <1>17 DEF OrderInv

-----------------------------------------------------------------------------
(* The update.                                                           *)

\* The thread of the update section, and nobody else, works on the list.
Updates(u) == lock = u /\ scan.job \in {"revoke", "grant"}

\* Who updates is the only one that works on the list, has every owner in it, and has
\* scrubbed before.
LEMMA Updater ==
    ASSUME ResourceInv, OrderInv, NEW u \in Users, In(u, "update") \/ Updates(u)
    PROVE  /\ Registered(u) /\ thr[u].todo = UpdateRest /\ (Queued(u) \/ Gone(u))
           /\ Alive(u) /\ ~Unscrubbed(u) /\ Lister(u)
           /\ \A v \in Users \ {u} : ~Lister(v)
           /\ \A s \in Slots : Held(s) => s \in Listed
           /\ \A s \in Slots : Stale(s) /\ Addressee(s) # None => ~Alive(Addressee(s))
<1>1. /\ Registered(u) /\ thr[u].todo = UpdateRest /\ (Queued(u) \/ Gone(u))
  BY InRest, LoopUser DEF OrderInv, PerUser, Updates
<1>2. Alive(u) /\ ~Unscrubbed(u) /\ Lister(u)
  BY <1>1, RestKinds, MailKinds
     DEF RestKindsHold, MailKindsHold, Registered, Unscrubbed, Lister, ListRest, Queued, Gone
<1>3. \A v \in Users \ {u} : ~Lister(v)
  BY <1>2 DEF OrderInv, OneLister
<1>4. ASSUME NEW s \in Slots, Held(s) PROVE s \in Listed
  <2>1. EntryOK(s)
    BY DEF OrderInv
  <2>2. slot[s].prio # Free
    BY <1>4, <2>1 DEF EntryOK, EmptySlot, Held
  <2>3. UsedOK(s)
    BY <2>1, <2>2 DEF EntryOK
  <2>4. CASE Alive(slot[s].owner)
    <3>1. PICK o \in Users : o = slot[s].owner
      BY <2>3 DEF UsedOK
    <3>2. thr[o].entry = s /\ s # Nil /\ MineOK(o)
      BY <2>3, <2>4, <3>1 DEF UsedOK, OrderInv, PerUser, Nil, Slots
    <3>3. thr[o].todo \notin {AddRest, FreeRest}
      BY <1>1, <1>3, RestKinds DEF RestKindsHold, Lister, ListRest
    <3>4. QED
      BY <2>2, <3>2, <3>3 DEF MineOK
  <2>5. CASE ~Alive(slot[s].owner)
    BY <2>3, <2>5 DEF UsedOK
  <2>6. QED
    BY <2>4, <2>5
<1>5. ASSUME NEW s \in Slots, Stale(s), Addressee(s) # None, Alive(Addressee(s)) PROVE FALSE
  <2>1. Unscrubbed(Addressee(s)) /\ Addressee(s) \in Users
    BY <1>5, StaleEntry DEF OrderInv, IdsOK
  <2>2. Lister(Addressee(s))
    BY <2>1 DEF Unscrubbed, Lister, ListRest
  <2>3. QED
    BY <1>2, <1>3, <2>1, <2>2
<1>6. QED
  BY <1>1, <1>2, <1>3, <1>4, <1>5

\* The update has nothing more to do.
LEMMA UpdateDone ==
    ASSUME ResourceInv, OrderInv, NEW u \in Users, In(u, "update") \/ Updates(u), Done(u),
           UNCHANGED <<memory, ids, mq, fifo, obj, call, told, req, alive>>
    PROVE  OwnFrame(u) /\ UserOK(u)' /\ EventsOK(u)' /\ ~Unscrubbed(u) /\ Lister(u)
<1>1. /\ Registered(u) /\ thr[u].todo = UpdateRest /\ (Queued(u) \/ Gone(u))
      /\ ~Unscrubbed(u) /\ Lister(u)
      /\ EventsOK(u)
  BY Updater DEF OrderInv, PerUser
<1>2. OnlyTodo(u, <<>>)
  BY <1>1, DoneLeaves, UserTypes, RestFacts DEF RestFactsHold
<1>3. \A v \in Users \ {u} : SameState(v)
  BY <1>2 DEF SameState, OnlyTodo
<1>4. OwnFrame(u)
  BY <1>1, <1>2, <1>3, RestKinds DEF RestKindsHold, OwnFrame, OnlyTodo
<1>5. UserOK(u)'
  <2>1. Registered(u)'
    BY <1>1, <1>2 DEF Registered, Alive, OnlyTodo
  <2>2. CASE Queued(u)
    <3>1. Queued(u)'
      BY <1>2, <2>2 DEF Queued, Runs, OnlyTodo
    <3>2. QED
      BY <2>1, <3>1 DEF UserOK
  <2>3. CASE Gone(u)
    <3>1. Gone(u)'
      BY <1>1, <1>2, <2>3 DEF Gone, Runs, OnlyTodo
    <3>2. QED
      BY <2>1, <3>1 DEF UserOK
  <2>4. QED
    BY <1>1, <2>2, <2>3
<1>6. EventsOK(u)'
  <2>1. (InMail(u)' <=> InMail(u)) /\ ~AtEvent(u)' /\ (GrantDue(u)' => GrantDue(u))
        /\ thr'[u].todo # SetRest
    BY <1>2, RestKinds DEF RestKindsHold, OnlyTodo, InMail, AtEvent, GrantDue
  <2>2. OneEvent(u)' /\ (Due(u)' => Due(u))
    BY <1>1, <2>1 DEF OneEvent, Due, EventsOK
  <2>3. QED
    BY <1>1, <1>2, <2>1, <2>2, EventsKept DEF OnlyTodo, memory
<1>7. QED
  BY <1>1, <1>4, <1>5, <1>6

\* The revokes start behind the head, whose request counts (UpdateBegin).
LEMMA UpdateBeginOrderly ==
    ASSUME ResourceInv, OrderInv, OneInput, NEW u \in Users, UpdateBegin(u)
    PROVE  OrderInv'
<1>1. /\ In(u, "update") /\ lock = None
      /\ UNCHANGED <<memory, ids, mq, fifo, obj, call, told, req, alive>>
  BY DEF UpdateBegin, CanLock, inputs, client, world
<1>2. /\ thr[u].todo = UpdateRest /\ \A s \in Slots : Held(s) => s \in Listed
  BY <1>1, Updater
<1>3. CASE head = Nil
  <2>1. Done(u) /\ UNCHANGED <<lock, scan>>
    BY <1>3 DEF UpdateBegin
  <2>2. lock # u
    BY <1>1, UsersAssumption
  <2>3. QED
    BY <1>1, <2>1, <2>2, UpdateDone, FreeStep
<1>4. CASE head # Nil
  <2>1. /\ lock' = u /\ UNCHANGED thr
        /\ scan' = [Scan("revoke", next[head]) EXCEPT !.rec = One(slot[head].in),
                                                     !.play = One(slot[head].out # "none")]
    BY <1>4 DEF UpdateBegin
  <2>2. Lined /\ head \in Listed /\ head \in Slots /\ next[head] \in Listed \cup {Nil}
    BY <1>4, ListLined DEF OrderInv, Lined
  <2>3. slot[head].in
    BY <2>2 DEF OrderInv, EntryOK, UsedOK
  <2>4. /\ scan'.job = "revoke" /\ scan'.at = next[head] /\ scan'.rec = 1
    BY <2>1, <2>3 DEF Scan, NoScan, One
  <2>5. Listed' = Listed /\ Walk' = Walk /\ UNCHANGED <<head, slot>>
    BY <1>1, ListKept DEF memory
  <2>6. \A s \in Slots : Held(s) => s = head \/ From(next[head], s)
    BY <1>2, <2>2 DEF Lined
  <2>7. \A a, s : From(a, s)' <=> From(a, s)
    BY <2>5 DEF From
  <2>8. ScanOK'
    BY <1>2, <2>1, <2>2, <2>4, <2>5, <2>6, <2>7, RestFacts, UsersAssumption
       DEF RestFactsHold, Rests, ScanOK, Section, Held
  <2>9. QED
    BY <1>1, <2>1, <2>4, <2>8, LoopMoves
<1>5. QED
  BY <1>3, <1>4

\* The update is over: the lock is given back.
LEMMA UpdateOver ==
    ASSUME ResourceInv, OrderInv, NEW u \in Users, Updates(u), Done(u), Unlock,
           UNCHANGED <<memory, ids, mq, fifo, obj, call, told, req, alive>>
    PROVE  OrderInv'
<1>1. /\ OwnFrame(u) /\ UserOK(u)' /\ EventsOK(u)' /\ ~Unscrubbed(u) /\ Lister(u)
  BY UpdateDone
<1>2. \A v \in Users : Unscrubbed(v) => Unscrubbed(v)'
  BY <1>1 DEF OwnFrame, SameState, Unscrubbed
<1>3. scan'.job = "none"
  BY DEF Unlock, NoScan
<1>4. IdsOK'
  BY <1>2, <1>3, IdsKept
<1>5. QED
  BY <1>1, <1>4, UnlockStep

\* Without a revoke no entry but the head holds devices: the grants start there
\* (RevokeEnd).
LEMMA RevokeEndOrderly ==
    ASSUME ResourceInv, OrderInv, NEW u \in Users, RevokeEnd(u)
    PROVE  OrderInv'
<1>1. /\ Updates(u) /\ lock = u /\ scan.job = "revoke" /\ scan.at = Nil
      /\ UNCHANGED <<memory, ids, mq, fifo, obj, call, told, req, alive>>
  BY DEF RevokeEnd, Updates, Scanning, inputs, client, world
<1>2. CASE scan.revoked
  BY <1>1, <1>2, UpdateOver DEF RevokeEnd
<1>3. CASE ~scan.revoked
  <2>1. /\ UNCHANGED <<lock, thr>> /\ scan' = Scan("grant", head)
    BY <1>3 DEF RevokeEnd
  <2>2. scan'.job = "grant" /\ scan'.at = head
    BY <2>1 DEF Scan, NoScan
  <2>3. \A s \in Slots : Held(s) => s = head
    BY <1>1, <1>3 DEF OrderInv, ScanOK, From
  <2>4. Listed' = Listed /\ UNCHANGED <<head, slot>> /\ Lined
    BY <1>1, ListKept, ListLined DEF memory, OrderInv
  <2>5. ScanOK'
    BY <1>1, <2>1, <2>2, <2>3, <2>4, UsersAssumption DEF ScanOK, Section, OrderInv, Lined, Held
  <2>6. QED
    BY <1>1, <2>1, <2>2, <2>5, LoopMoves
<1>4. QED
  BY <1>2, <1>3

\* The update ends with the grants (UpdateEnd).
LEMMA UpdateEndOrderly ==
    ASSUME ResourceInv, OrderInv, NEW u \in Users, UpdateEnd(u)
    PROVE  OrderInv'
<1>1. Updates(u) /\ Done(u) /\ Unlock
      /\ UNCHANGED <<memory, ids, mq, fifo, obj, call, told, req, alive>>
  BY DEF UpdateEnd, Updates, Scanning, inputs, client, world
<1>2. QED
  BY <1>1, UpdateOver

-----------------------------------------------------------------------------
(* The events of the update.                                             *)

\* An event is for the owner of the entry: it is appended to its queue or to its fifo,
\* and a dead owner is not told.
Mail(o, event) ==
    \/ mq' = [mq EXCEPT ![o] = Append(@, event)] /\ fifo' = fifo
    \/ fifo' = [fifo EXCEPT ![o] = Append(@, event)] /\ mq' = mq

\* The user id of an entry in the list leads to its owner, or to nobody alive.
LEMMA InformReaches ==
    ASSUME ResourceInv, OrderInv, NEW u \in Users, Updates(u), NEW s \in Listed,
           NEW event, Inform(u, s, event)
    PROVE  /\ s \in Slots /\ UsedOK(s) /\ slot[s].prio # Free
           /\ Alive(slot[s].owner) => thr[slot[s].owner].entry = s /\ Mail(slot[s].owner, event)
           /\ ~Alive(slot[s].owner) => UNCHANGED <<mq, fifo>>
<1>1. s \in Slots
  BY ListLined DEF OrderInv, Lined
<1>2. slot[s].prio # Free /\ UsedOK(s)
  BY <1>1 DEF OrderInv, EntryOK
<1>3. PICK o \in Users : o = slot[s].owner
  BY <1>2 DEF UsedOK
<1>4. PerUser(o) /\ PerUserTypes
  BY UserTypes DEF OrderInv
<1>5. CASE Alive(o)
  <2>1. thr[o].entry = s /\ s # Nil
    BY <1>1, <1>2, <1>3, <1>5 DEF UsedOK, Nil, Slots
  <2>2. slot[s].uid = thr[o].uid
    BY <1>2, <1>4, <2>1 DEF PerUser, MineOK
  <2>3. Registered(o)
    BY <1>4, <2>1 DEF PerUser, UserOK, Out, NoThread
  <2>4. thr[o].fds /\ Addressee(s) = o /\ o # None /\ thr[o].uid = slot[s].uid
    BY <2>2, <2>3, UsersAssumption DEF Registered, Addressee
  <2>5. Reads(Addressee(s), slot[s].uid)
    BY <2>4 DEF Reads
  <2>6. Mail(o, event)
    BY <1>3, <2>4, <2>5 DEF Inform, Mail
  <2>7. QED
    BY <1>1, <1>2, <1>3, <1>5, <2>1, <2>6
<1>6. CASE ~Alive(o)
  <2>1. Stale(s)
    BY <1>3, <1>6, UsersAssumption DEF Stale
  <2>2. ~SameProcess(u, s)
    BY <1>3, <1>6, Updater DEF SameProcess, Alive
  <2>3. ~Reads(Addressee(s), slot[s].uid)
    <3>1. SUFFICES ASSUME Addressee(s) # None PROVE ~thr[Addressee(s)].fds
      BY DEF Reads
    <3>2. PICK a \in Users : a = Addressee(s)
      BY <1>1, <2>1, <3>1, StaleEntry
    <3>3. ~Alive(a)
      BY <1>1, <2>1, <3>1, <3>2, Updater
    <3>4. Out(a)
      BY <3>3 DEF OrderInv, PerUser, UserOK, Registered
    <3>5. QED
      BY <3>2, <3>4 DEF Out, NoThread
  <2>4. UNCHANGED <<mq, fifo>>
    BY <2>2, <2>3 DEF Inform
  <2>5. QED
    BY <1>1, <1>2, <1>3, <1>6, <2>4
<1>7. QED
  BY <1>5, <1>6

\* What a user is doing when its entry is not marked and another, or it, updates.
LEMMA Unmarked ==
    ASSUME ResourceInv, OrderInv, NEW u \in Users, Updates(u), NEW o \in Users,
           thr[o].entry \in Listed, ~slot[thr[o].entry].notified
    PROVE  /\ Registered(o) /\ Queued(o) /\ ~Due(o) /\ told[o] # "revoked"
           /\ fifo[o] = <<>> /\ mq[o] \in {<<>>, <<"release", "terminate">>}
           /\ mq[o] = <<"release", "terminate">> => told[o] # "none" /\ call[o] = "client"
           /\ thr[o].todo \notin {GrantRest, CallRest}
<1>1. PICK s \in Slots : s = thr[o].entry /\ s # Nil
  BY ListLined DEF OrderInv, Lined, Nil, Slots
<1>2. PerUser(o) /\ EntryOK(s)
  BY DEF OrderInv
<1>3. slot[s].prio # Free
  BY <1>1, <1>2 DEF EntryOK
<1>4. thr[o].todo \notin {FillRest, AddRest, FreeRest}
  BY <1>1, <1>2, <1>3 DEF PerUser, MineOK
<1>5. Registered(o) /\ (Asks(o) \/ Enters(o) \/ Queued(o) \/ Leaves(o) \/ Gone(o))
  BY <1>1, <1>2 DEF PerUser, UserOK, Out, NoThread
<1>6. Queued(o)
  <2>1. ~Asks(o) /\ ~Enters(o) /\ ~Gone(o)
    BY <1>1, <1>4, RestFacts DEF RestFactsHold, Rests, Asks, Enters, Gone
  <2>2. ~Leaves(o)
    <3>1. CASE o = u
      <4>1. thr[u].todo = UpdateRest
        BY Updater
      <4>2. QED
        BY <3>1, <4>1, RestFacts DEF RestFactsHold, Leaves
    <3>2. CASE o # u
      <4>1. ~Lister(o)
        BY <3>2, Updater
      <4>2. QED
        BY <4>1 DEF Lister, Leaves
    <3>3. QED
      BY <3>1, <3>2
  <2>3. QED
    BY <1>5, <2>1, <2>2
<1>7. ~Due(o) /\ told[o] # "revoked"
  BY <1>1, <1>2 DEF PerUser, EventsOK
<1>8. ~InMail(o) /\ fifo[o] = <<>> /\ ~AtEvent(o)
  BY <1>7 DEF Due
<1>9. mq[o] \in {<<>>, <<"release", "terminate">>}
  BY <1>6, <1>8 DEF Queued, InMail, Mailed, Calm, Parting
<1>10. mq[o] = <<"release", "terminate">> => told[o] # "none" /\ call[o] = "client"
  <2>1. <<"release", "terminate">> \notin Calm
    BY MailKinds DEF MailKindsHold, Parting
  <2>2. QED
    BY <1>6, <2>1 DEF Queued
<1>11. QED
  BY <1>5, <1>6, <1>7, <1>8, <1>9, <1>10 DEF AtEvent

\* The entry s is marked, and granted its devices or left as it is.
Marks(s, event) ==
    /\ event \in {"GRANTED", "REVOKED"}
    /\ ~slot[s].notified /\ slot'[s].notified
    /\ slot'[s].prio = slot[s].prio /\ slot'[s].owner = slot[s].owner
    /\ slot'[s].uid = slot[s].uid
    /\ slot'[s].in = slot[s].in /\ slot'[s].out = slot[s].out
    /\ event = "REVOKED" => /\ Held(s)
                            /\ slot'[s].rec = slot[s].rec /\ slot'[s].play = slot[s].play
    /\ event = "GRANTED" => /\ ~Held(s) /\ slot'[s].rec # None
                            /\ slot[s].out # "none" => slot'[s].play # None
    /\ \A t \in Slots \ {s} : slot'[t] = slot[t]

\* The user that is told has one event more, and nothing before it.
LEMMA Told ==
    ASSUME ResourceInv, OrderInv, NEW u \in Users, Updates(u), NEW o \in Users,
           NEW event, thr[o].entry \in Listed, Marks(thr[o].entry, event), Mail(o, event),
           UNCHANGED <<head, next, ids, thr, obj, call, told, req, alive>>
    PROVE  PerUser(o)' /\ (Lister(o)' => Lister(o))
<1>1. PICK s \in Slots : s = thr[o].entry /\ s # Nil
  BY ListLined DEF OrderInv, Lined, Nil, Slots
<1>2. PerUser(o) /\ PerUserTypes /\ ~slot[s].notified /\ slot'[s].notified
  BY <1>1, UserTypes DEF OrderInv, Marks
<1>3. /\ Registered(o) /\ Queued(o) /\ ~Due(o) /\ told[o] # "revoked"
      /\ fifo[o] = <<>> /\ mq[o] \in {<<>>, <<"release", "terminate">>}
      /\ mq[o] = <<"release", "terminate">> => told[o] # "none" /\ call[o] = "client"
      /\ thr[o].todo \notin {GrantRest, CallRest}
  BY Unmarked DEF Marks
<1>4. Held(s)'
  BY <1>1 DEF Marks, Held
<1>5. CASE event = "GRANTED"
  <2>1. ~Held(s)
    BY <1>1, <1>5 DEF Marks
  <2>2. told[o] = "none" /\ mq[o] = <<>> /\ thr[o].todo # SetRest
    BY <1>1, <1>2, <1>3, <2>1 DEF PerUser, EventsOK, GrantDue, PerUserTypes
  <2>3. call[o] = "out"
    <3>1. <<>> \notin Parting
      BY MailKinds DEF MailKindsHold
    <3>2. QED
      BY <1>3, <2>2, <3>1 DEF Queued
  <2>4. \/ mq'[o] = <<"GRANTED">> /\ fifo'[o] = <<>>
        \/ fifo'[o] = <<"GRANTED">> /\ mq'[o] = <<>>
    BY <1>2, <1>3, <1>5, <2>2, Appended DEF Mail, PerUserTypes
  <2>5. UserOK(o)'
    <3>1. Registered(o)'
      BY <1>3 DEF Registered, Alive
    <3>2. Queued(o)'
      BY <1>3, <2>3, <2>4 DEF Queued, Runs, Calm
    <3>3. QED
      BY <3>1, <3>2 DEF UserOK
  <2>6. EventsOK(o)'
    <3>1. OneEvent(o)'
      BY <1>3, <2>2, <2>4, MailKinds DEF MailKindsHold, OneEvent, AtEvent, InMail
    <3>2. QED
      BY <1>1, <1>2, <1>4, <2>2, <2>3, <3>1 DEF PerUser, EventsOK, Untold
  <2>7. MineOK(o)'
    BY <1>1, <1>2, ListKept DEF PerUser, MineOK, Marks
  <2>8. Lister(o)' => Lister(o)
    BY <1>3, <2>4, MailKinds DEF MailKindsHold, Lister
  <2>9. QED
    BY <2>5, <2>6, <2>7, <2>8 DEF PerUser
<1>6. CASE event = "REVOKED"
  <2>1. slot'[s].rec = slot[s].rec /\ slot'[s].play = slot[s].play
    BY <1>1, <1>6 DEF Marks
  <2>2. \/ mq'[o] = <<"REVOKED">> /\ fifo'[o] = <<>> /\ call[o] = "out"
        \/ /\ mq'[o] = <<"release", "terminate", "REVOKED">> /\ fifo'[o] = <<>>
           /\ call[o] = "client" /\ told[o] # "none"
        \/ fifo'[o] = <<"REVOKED">> /\ mq'[o] = mq[o]
    <3>1. mq[o] = <<>> => call[o] = "out"
      BY <1>3, MailKinds DEF MailKindsHold, Queued
    <3>2. \/ mq'[o] = Append(mq[o], "REVOKED") /\ fifo'[o] = <<>>
          \/ fifo'[o] = Append(<<>>, "REVOKED") /\ mq'[o] = mq[o]
      BY <1>2, <1>3, <1>6 DEF Mail, PerUserTypes
    <3>3. QED
      BY <1>3, <3>1, <3>2, Appended
  <2>3. UserOK(o)'
    <3>1. Registered(o)'
      BY <1>3 DEF Registered, Alive
    <3>2. Queued(o)'
      BY <1>3, <2>2 DEF Queued, Runs, Calm, Parting
    <3>3. QED
      BY <3>1, <3>2 DEF UserOK
  <2>4. EventsOK(o)'
    <3>1. /\ mq'[o] # <<"GRANTED">> /\ fifo'[o] # <<"GRANTED">>
          /\ ~(InMail(o)' /\ fifo'[o] # <<>>)
      BY <1>3, <2>2, MailKinds, MailFacts DEF MailKindsHold, MailFactsHold, InMail, Parting
    <3>2. OneEvent(o)' /\ (GrantDue(o)' => GrantDue(o))
      BY <1>3, <3>1 DEF OneEvent, AtEvent, GrantDue
    <3>3. Untold(o)' <=> Untold(o)
      BY DEF Untold
    <3>4. QED
      BY <1>1, <1>2, <1>3, <1>4, <2>1, <3>2, <3>3 DEF PerUser, EventsOK
  <2>5. MineOK(o)'
    BY <1>1, <1>2, ListKept DEF PerUser, MineOK, Marks
  <2>6. Lister(o)' => Lister(o)
    BY <1>3, <2>2, MailKinds DEF MailKindsHold, Lister, Parting
  <2>7. QED
    BY <2>3, <2>4, <2>5, <2>6 DEF PerUser
<1>7. QED
  BY <1>5, <1>6 DEF Marks

\* A step of the update that informs an owner.
LEMMA Informed ==
    ASSUME ResourceInv, OrderInv, NEW u \in Users, Updates(u), NEW s \in Listed,
           NEW event, Marks(s, event), Inform(u, s, event),
           UNCHANGED <<head, next, ids, lock, thr, obj, call, told, req, alive>>,
           ScanOK', OneHolder', scan'.job # "scrub"
    PROVE  OrderInv'
<1>1. /\ s \in Slots /\ s # Nil /\ UsedOK(s) /\ slot[s].prio # Free
      /\ Alive(slot[s].owner) => thr[slot[s].owner].entry = s /\ Mail(slot[s].owner, event)
      /\ ~Alive(slot[s].owner) => UNCHANGED <<mq, fifo>>
  BY InformReaches DEF Nil, Slots
<1>2. PICK o \in Users : o = slot[s].owner
  BY <1>1 DEF UsedOK
<1>3. Walk' = Walk /\ Listed' = Listed /\ (ListOK' <=> ListOK)
  BY ListKept
<1>4. /\ \A t \in Slots : slot'[t].owner = slot[t].owner /\ slot'[t].uid = slot[t].uid
      /\ \A t \in Slots \ {s} : slot'[t] = slot[t]
  BY DEF Marks
<1>5. PerUserTypes
  BY UserTypes
<1>6. ASSUME NEW v \in Users, v # o \/ ~Alive(o) PROVE PerUser(v)' /\ (Lister(v)' <=> Lister(v))
  <2>1. thr[v].entry # s
    <3>1. CASE Alive(o)
      BY <1>1, <1>2, <1>6, <3>1, EntriesDiffer
    <3>2. CASE ~Alive(o)
      BY <1>1, <1>2, <3>2, StaleUnused, UsersAssumption DEF Stale
    <3>3. QED
      BY <3>1, <3>2
  <2>2. SameState(v)
    BY <1>1, <1>2, <1>5, <1>6 DEF SameState, Mail, PerUserTypes
  <2>3. thr[v].entry \in Slots \cup {Nil}
    BY <1>5 DEF PerUserTypes, ThreadShape
  <2>4. PerUser(v)'
    BY <1>3, <1>4, <2>1, <2>2, <2>3, SameUser DEF OrderInv, Nil
  <2>5. QED
    BY <2>2, <2>4 DEF SameState, Lister
<1>7. Alive(o) => PerUser(o)' /\ (Lister(o)' => Lister(o))
  BY <1>1, <1>2, Told
<1>8. ASSUME NEW t \in Slots PROVE EntryOK(t)'
  <2>1. EntryOK(t) /\ (\A a : Alive(a)' <=> Alive(a))
    BY DEF OrderInv, Alive
  <2>2. CASE t = s
    <3>1. ~Alive(o) => Held(s) /\ event = "REVOKED"
      BY <1>1, <1>2 DEF UsedOK, Marks
    <3>2. Held(s)' /\ slot'[s].rec # None /\ (slot'[s].out # "none" => slot'[s].play # None)
      BY <1>1 DEF UsedOK, Marks, Held
    <3>3. QED
      BY <1>1, <1>2, <1>3, <2>1, <2>2, <3>1, <3>2 DEF EntryOK, UsedOK, Marks
  <2>3. CASE t # s
    <3>1. slot'[t] = slot[t] /\ (Held(t)' <=> Held(t))
      BY <1>4, <2>3 DEF Held
    <3>2. QED
      BY <1>3, <2>1, <3>1 DEF EntryOK, UsedOK
  <2>4. QED
    BY <2>2, <2>3
<1>9. OneLister'
  BY <1>6, <1>7 DEF OrderInv, OneLister
<1>10. IdsOK'
  <2>1. ASSUME NEW t \in Slots, Stale(t)', Addressee(t)' # None, Alive(Addressee(t))'
        PROVE  FALSE
    <3>1. Stale(t) /\ Addressee(t) # None /\ Alive(Addressee(t))
      BY <1>4, <2>1 DEF Stale, Addressee, Alive
    <3>2. QED
      BY <3>1, Updater
  <2>2. QED
    BY <2>1 DEF IdsOK
<1>11. \A v \in Users : PerUser(v)'
  BY <1>6, <1>7
<1>12. QED
  BY <1>3, <1>8, <1>9, <1>10, <1>11 DEF OrderInv

-----------------------------------------------------------------------------
(* The steps of the update.                                              *)

\* A step of the revokes: an entry that holds devices is one too many, for the head
\* counts, and its owner is told once (RevokeStep).
LEMMA RevokeStepOrderly ==
    ASSUME ResourceInv, OrderInv, OneInput, NEW u \in Users, RevokeStep(u)
    PROVE  OrderInv'
<1>1. /\ Updates(u) /\ lock = u /\ scan.job = "revoke" /\ scan.at # Nil
      /\ UNCHANGED <<head, next, busyIn, busyOut, ids, lock, thr, obj, call, told, req, alive>>
      /\ scan \in ScanType /\ PerUserTypes
  BY UserTypes
     DEF RevokeStep, Updates, Scanning, inputs, client, world, ResourceInv, TypesInv, LoopOK
<1>2. PICK s \in Slots : s = scan.at
  BY <1>1 DEF ScanType
<1>3. /\ Lined /\ s \in Listed /\ EntryOK(s) /\ ScanOK /\ scan.rec >= 1
  BY <1>1, <1>2, ListLined DEF OrderInv, ScanOK
<1>4. UsedOK(s)
  BY <1>3 DEF EntryOK
<1> DEFINE over == Revokes(s)
<1>5. over <=> Held(s)
  BY <1>3, <1>4 DEF OneInput, UsedOK, Held, Revokes, OverRec, OverPlay
<1>6. /\ scan'.job = "revoke" /\ scan'.at = next[s] /\ scan'.rec = scan.rec
      /\ scan'.revoked = (scan.revoked \/ over)
  <2>1. /\ scan'.job = scan.job /\ scan'.at = next[s]
        /\ scan'.rec = scan.rec + One(slot[s].rec # None /\ ~OverRec(s))
        /\ scan'.revoked = (scan.revoked \/ over)
    BY <1>1, <1>2 DEF RevokeStep, ScanType
  <2>2. ~(slot[s].rec # None /\ ~OverRec(s))
    BY <1>3 DEF OneInput, OverRec
  <2>3. scan.rec + 0 = scan.rec
    BY <1>1 DEF ScanType
  <2>4. QED
    BY <1>1, <2>1, <2>2, <2>3 DEF One
<1>7. /\ Walk' = Walk /\ Listed' = Listed
  BY <1>1, ListKept
<1>8. ASSUME \A t \in Slots : slot'[t].rec = slot[t].rec /\ slot'[t].play = slot[t].play
      PROVE  ScanOK' /\ OneHolder'
  <2>1. \A t \in Slots : Held(t)' <=> Held(t)
    BY <1>8 DEF Held
  <2>2. OneHolder'
    BY <2>1 DEF OrderInv, OneHolder
  <2>3. next[s] \in Listed \cup {Nil}
    BY <1>3 DEF Lined
  <2>4. ASSUME ~scan'.revoked, NEW t \in Slots, Held(t)
        PROVE  t = head \/ From(next[s], t)
    <3>1. t = head \/ From(s, t)
      BY <1>1, <1>2, <1>3, <1>6, <2>4 DEF ScanOK
    <3>2. t # s
      BY <1>5, <1>6, <2>4
    <3>3. QED
      BY <1>3, <3>1, <3>2 DEF Lined
  <2>5. \A a, t : From(a, t)' <=> From(a, t)
    BY <1>7 DEF From
  <2>6. ScanOK'
    BY <1>1, <1>2, <1>3, <1>6, <1>7, <2>1, <2>3, <2>4, <2>5, UsersAssumption DEF ScanOK, Section
  <2>7. QED
    BY <2>2, <2>6
<1>9. CASE over /\ Notifies(s)
  <2>1. slot' = [slot EXCEPT ![s].notified = TRUE] /\ Inform(u, s, "REVOKED")
    BY <1>2, <1>9 DEF RevokeStep
  <2>2. Marks(s, "REVOKED")
    BY <1>1, <1>5, <1>9, <2>1 DEF Marks, Notifies, PerUserTypes, SlotType
  <2>3. \A t \in Slots : slot'[t].rec = slot[t].rec /\ slot'[t].play = slot[t].play
    BY <2>2 DEF Marks
  <2>4. ScanOK' /\ OneHolder'
    BY <1>8, <2>3
  <2>5. QED
    BY <1>1, <1>3, <1>6, <2>1, <2>2, <2>4, Informed
<1>10. CASE ~(over /\ Notifies(s))
  <2>1. UNCHANGED <<slot, mq, fifo>>
    BY <1>2, <1>10 DEF RevokeStep, inputs
  <2>2. ScanOK'
    BY <1>8, <2>1
  <2>3. QED
    BY <1>1, <1>6, <2>1, <2>2, LoopMoves DEF memory
<1>11. QED
  BY <1>9, <1>10

\* A step of the grants: when no input is counted no entry holds devices, and all of
\* them are free for the entry (GrantStep).
LEMMA GrantStepOrderly ==
    ASSUME ResourceInv, OrderInv, OneInput, NoDeviceLost, NEW u \in Users, GrantStep(u)
    PROVE  OrderInv'
<1>1. /\ Updates(u) /\ lock = u /\ scan.job = "grant" /\ scan.at # Nil
      /\ UNCHANGED <<head, next, ids, lock, thr, obj, call, told, req, alive>>
      /\ scan \in ScanType /\ PerUserTypes
  BY UserTypes
     DEF GrantStep, Updates, Scanning, client, world, ResourceInv, TypesInv, LoopOK
<1>2. PICK s \in Slots : s = scan.at
  BY <1>1 DEF ScanType
<1>3. /\ Lined /\ s \in Listed /\ EntryOK(s) /\ ScanOK
  BY <1>1, <1>2, ListLined DEF OrderInv, ScanOK
<1>4. UsedOK(s)
  BY <1>3 DEF EntryOK
<1>5. next[s] \in Listed \cup {Nil}
  BY <1>3 DEF Lined
<1>6. /\ scan'.job = "grant" /\ scan'.at = next[s]
      /\ scan'.rec = scan.rec + One(slot[s].rec # None \/ (Grants(s) /\ slot[s].in))
  BY <1>1, <1>2 DEF GrantStep, ScanType
<1>7. scan'.rec = 0 => scan.rec = 0 /\ slot[s].rec = None /\ ~Grants(s)
  <2>1. slot[s].in
    BY <1>4 DEF UsedOK
  <2>2. scan.rec \in Nat
    BY <1>1 DEF ScanType
  <2>3. QED
    BY <1>6, <2>1, <2>2 DEF One
<1>8. \A t \in Slots : scan.rec = 0 /\ Held(t) => t = s
  BY <1>1, <1>2, <1>3 DEF ScanOK
<1>9. Listed' = Listed
  BY <1>1, ListKept
<1>10. CASE Grants(s) /\ Notifies(s) /\ Allocate(s) /\ Inform(u, s, "GRANTED")
  <2>1. scan.rec = 0 /\ ~Held(s)
    BY <1>1, <1>4, <1>10 DEF Grants, Fits, UsedOK, OneInput, ScanType
  <2>2. \A t \in Slots : slot[t].rec = None /\ slot[t].play = None
    BY <1>8, <2>1 DEF Held
  <2>3. /\ \A d \in InIds : ~busyIn[d]
        /\ \A d \in OutIds : ~busyOut[d]
    BY <2>2, DevicesAssumption DEF NoDeviceLost
  <2>4. PICK r \in InIds \cup {None}, p \in OutIds \cup {None} :
            /\ IF slot[s].in THEN NewRec(r) ELSE r = None
            /\ IF slot[s].out # "none" THEN NewPlay(p, slot[s].out) ELSE p = None
            /\ slot' = [slot EXCEPT ![s].notified = TRUE, ![s].rec = r, ![s].play = p]
    BY <1>1, <1>10, AllocateWhole, Zenon DEF PerUserTypes
  <2>14. NewRec(r)
    BY <1>4, <2>4 DEF UsedOK
  <2>5. r # None
    BY <2>3, <2>14, DevicesAssumption DEF NewRec, OneInput
  <2>6. slot[s].out # "none" => p # None
    <3>1. SUFFICES ASSUME slot[s].out # "none", p = None PROVE FALSE
      OBVIOUS
    <3>2. \A e \in OutIds : ~Serves(e, slot[s].out)
      BY <2>4, <3>1, DevicesAssumption DEF NewPlay
    <3>3. PICK d \in OutIds : slot[s].out \in OutCaps[d]
      BY <1>4, <3>1 DEF UsedOK
    <3>4. QED
      BY <2>3, <3>2, <3>3 DEF Serves
  <2>7. slot'[s] = [slot[s] EXCEPT !.notified = TRUE, !.rec = r, !.play = p]
        /\ \A t \in Slots \ {s} : slot'[t] = slot[t]
    BY <1>1, <2>4 DEF PerUserTypes, SlotType
  <2>8. Marks(s, "GRANTED")
    BY <1>1, <1>10, <2>1, <2>5, <2>6, <2>7 DEF Marks, Notifies, PerUserTypes, SlotType
  <2>9. \A t \in Slots : Held(t)' => t = s
    BY <2>2, <2>7 DEF Held
  <2>10. OneHolder'
    BY <2>9 DEF OneHolder
  <2>11. scan'.rec # 0
    BY <1>7, <1>10
  <2>12. ScanOK'
    BY <1>1, <1>3, <1>5, <1>6, <1>9, <2>11, UsersAssumption DEF ScanOK, Section
  <2>13. QED
    BY <1>1, <1>3, <1>6, <1>10, <2>8, <2>10, <2>12, Informed
<1>11. CASE UNCHANGED <<slot, busyIn, busyOut, mq, fifo>>
  <2>1. scan'.rec = 0 => \A t \in Slots : ~Held(t)
    <3>1. ASSUME scan'.rec = 0, NEW t \in Slots, Held(t) PROVE FALSE
      BY <1>4, <1>7, <1>8, <3>1 DEF UsedOK
    <3>2. QED
      BY <3>1
  <2>2. ScanOK'
    BY <1>1, <1>3, <1>5, <1>6, <1>9, <1>11, <2>1, UsersAssumption DEF ScanOK, Section, Held
  <2>3. QED
    BY <1>1, <1>6, <1>11, <2>2, LoopMoves DEF memory
<1>12. QED
  BY <1>2, <1>10, <1>11 DEF GrantStep, inputs

-----------------------------------------------------------------------------
(* The grant of the owner.                                               *)

\* The mark of the entry is cleared when its owner takes the grant.
LEMMA GrantOrderly ==
    ASSUME ResourceInv, OrderInv, NEW u \in Users, Grant(u)
    PROVE  OrderInv'
<1>1. /\ In(u, "grant") /\ PerUserTypes /\ PerUser(u)
      /\ slot' = [slot EXCEPT ![thr[u].entry].notified = FALSE]
      /\ UNCHANGED <<head, next, busyIn, busyOut, ids, lock, scan, mq, fifo, obj, call, req, alive>>
  BY UserTypes DEF Grant, inputs, world, OrderInv
<1>2. Registered(u) /\ thr[u].todo = GrantRest /\ Queued(u)
  BY <1>1, InRest DEF PerUser
<1>3. PICK e \in Slots : e = thr[u].entry
  BY <1>2 DEF Queued
<1>4. obj[u].requested
  BY <1>2 DEF Registered
<1>5. Done(u) /\ UNCHANGED told
  BY <1>4 DEF Grant
<1>6. OnlyTodo(u, SetRest)
  BY <1>1, <1>2, <1>5, DoneLeaves, RestFacts DEF RestFactsHold
<1>7. slot'[e] = [slot[e] EXCEPT !.notified = FALSE] /\ \A t \in Slots \ {e} : slot'[t] = slot[t]
  BY <1>1, <1>3 DEF PerUserTypes
<1>8. \A t \in Slots : /\ slot'[t].rec = slot[t].rec /\ slot'[t].play = slot[t].play
                       /\ slot'[t].prio = slot[t].prio /\ slot'[t].owner = slot[t].owner
                       /\ slot'[t].uid = slot[t].uid
                       /\ slot'[t].in = slot[t].in /\ slot'[t].out = slot[t].out
  BY <1>1, <1>7 DEF PerUserTypes, SlotType
<1>9. EntryFrame(u)
  BY <1>1, <1>5, <1>6, <1>8 DEF EntryFrame, OnlyTodo
<1>10. lock # u
  BY <1>2, RestFacts, UsersAssumption DEF RestFactsHold, OrderInv, ScanOK, Section
<1>11. /\ ~InMail(u) /\ fifo[u] = <<>> /\ Untold(u) /\ Held(e)
  BY <1>1, <1>2, <1>3 DEF PerUser, EventsOK, OneEvent, AtEvent, GrantDue, Nil, Slots
<1>12. e # Nil /\ slot[e].prio # Free /\ slot[e].owner = u
  BY <1>1, <1>2, <1>3, RestKinds, RestFacts
     DEF RestFactsHold, Rests, PerUser, MineOK, Nil, Slots
<1>13. PerUser(u)'
  <2>1. UserOK(u)'
    <3>1. Registered(u)'
      BY <1>1, <1>2, <1>6 DEF Registered, Alive, OnlyTodo
    <3>2. Queued(u)'
      BY <1>1, <1>2, <1>5, <1>6 DEF Queued, Runs, OnlyTodo
    <3>3. QED
      BY <3>1, <3>2 DEF UserOK
  <2>2. EventsOK(u)'
    <3>1. ~InMail(u)' /\ fifo'[u] = <<>> /\ ~AtEvent(u)' /\ Untold(u)'
      BY <1>1, <1>5, <1>6, <1>11, RestKinds
         DEF RestKindsHold, OnlyTodo, InMail, AtEvent, Untold
    <3>2. mq'[u] # <<"GRANTED">> /\ fifo'[u] # <<"GRANTED">>
      BY <3>1, MailKinds DEF MailKindsHold, InMail
    <3>3. OneEvent(u)' /\ ~Due(u)'
      BY <3>1, <3>2 DEF OneEvent, Due
    <3>4. Held(e)' /\ thr'[u].entry = e
      BY <1>3, <1>6, <1>8, <1>11 DEF Held, OnlyTodo
    <3>5. QED
      BY <3>1, <3>3, <3>4 DEF EventsOK, Untold
  <2>3. MineOK(u)'
    <3>1. SetRest \notin {FillRest, AddRest, FreeRest} /\ GrantRest \notin {FillRest, AddRest, FreeRest}
      BY RestKinds DEF RestKindsHold
    <3>2. Listed' = Listed
      BY <1>1, ListKept
    <3>3. QED
      BY <1>1, <1>2, <1>3, <1>6, <1>8, <3>1, <3>2 DEF PerUser, MineOK, OnlyTodo
  <2>4. QED
    BY <2>1, <2>2, <2>3 DEF PerUser
<1>14. ASSUME NEW s \in Slots PROVE EntryOK(s)'
  <2>1. EntryOK(s) /\ Listed' = Listed /\ (Held(s)' <=> Held(s))
        /\ (\A a : Alive(a)' <=> Alive(a)) /\ \A v \in Users : thr'[v].entry = thr[v].entry
    BY <1>1, <1>6, <1>8, ListKept DEF OrderInv, Held, Alive, OnlyTodo
  <2>2. CASE s = e
    <3>1. UsedOK(s)
      BY <1>12, <2>1, <2>2 DEF EntryOK
    <3>2. UsedOK(s)'
      BY <1>8, <2>1, <3>1 DEF UsedOK
    <3>3. QED
      BY <1>8, <1>12, <2>2, <3>2 DEF EntryOK
  <2>3. CASE s # e
    BY <1>7, <2>1, <2>3 DEF EntryOK, UsedOK
  <2>4. QED
    BY <2>2, <2>3
<1>15. ~Unscrubbed(u) /\ (Lister(u)' => Lister(u))
  <2>1. mq[u] # <<"request">> /\ thr[u].todo # ScrubAsk
    BY <1>2, MailKinds, RestKinds DEF MailKindsHold, RestKindsHold, Queued
  <2>2. SetRest \notin ListRest
    BY RestKinds DEF RestKindsHold
  <2>3. QED
    BY <1>1, <1>6, <2>1, <2>2 DEF Unscrubbed, Lister, OnlyTodo
<1>16. ASSUME NEW s \in Slots, Stale(s)' PROVE slot'[s] = slot[s]
  <2>1. Stale(s)
    BY <1>1, <1>8, <1>16 DEF Stale, Alive
  <2>2. s # e
    BY <1>3, <2>1, StaleUnused
  <2>3. QED
    BY <1>7, <2>2
<1>17. ASSUME NEW v \in Users \ {u}, thr[v].entry # Nil
       PROVE  slot'[thr[v].entry] = slot[thr[v].entry]
  <2>1. thr[v].entry \in Slots /\ thr[v].entry # e
    BY <1>1, <1>3, <1>17, EntriesDiffer DEF PerUserTypes, ThreadShape
  <2>2. QED
    BY <1>7, <2>1
<1>18. QED
  BY <1>9, <1>10, <1>13, <1>14, <1>15, <1>16, <1>17, EntryStep

-----------------------------------------------------------------------------
(* The end of a release.                                                 *)

\* A user that is out of service has nothing that the memory could disturb.
LEMMA OutUser ==
    ASSUME NEW v \in Users, Out(v)'
    PROVE  PerUser(v)'
<1>1. UserOK(v)'
  BY DEF UserOK
<1>2. /\ thr'[v].entry = Nil /\ thr'[v].todo = <<>> /\ mq'[v] = <<>> /\ fifo'[v] = <<>>
      /\ told'[v] = "none" /\ call'[v] = "out"
  BY DEF Out, NoThread
<1>3. /\ ~InMail(v)' /\ ~AtEvent(v)' /\ thr'[v].todo # SetRest
      /\ mq'[v] # <<"GRANTED">> /\ fifo'[v] # <<"GRANTED">>
  BY <1>2, MailKinds, RestKinds, RestFacts
     DEF MailKindsHold, RestKindsHold, RestFactsHold, Rests, InMail, AtEvent
<1>4. EventsOK(v)'
  BY <1>2, <1>3 DEF EventsOK, OneEvent, Due, GrantDue, Untold, AtEvent
<1>5. MineOK(v)'
  BY <1>2 DEF MineOK
<1>6. QED
  BY <1>1, <1>4, <1>5 DEF PerUser

\* A user that is out of service does not work on the list.
LEMMA OutIdle ==
    ASSUME NEW v \in Users, Out(v)
    PROVE  ~Lister(v) /\ ~Unscrubbed(v) /\ thr[v].entry = Nil /\ thr[v].todo = <<>>
BY MailKinds, RestKinds
   DEF MailKindsHold, RestKindsHold, Out, NoThread, Lister, Unscrubbed

\* A release that has been joined leaves nothing of its user.
LEMMA ReleaseJoinsOrderly ==
    ASSUME ResourceInv, OrderInv, NEW u \in Users, ReleaseJoins(u)
    PROVE  OrderInv'
<1>1. /\ PerUserTypes /\ PerUser(u) /\ call[u] = "client" /\ ~thr[u].on /\ ~thr[u].running
      /\ mq' = [mq EXCEPT ![u] = <<>>] /\ fifo' = [fifo EXCEPT ![u] = <<>>]
      /\ thr' = [thr EXCEPT ![u] = NoThread]
      /\ lock \in {None, u} /\ Unlock
      /\ ids' = [ids EXCEPT ![obj[u].uid] = None]
      /\ obj' = [obj EXCEPT ![u].requested = FALSE, ![u].running = FALSE,
                            ![u].fd = FALSE, ![u].uid = NoUid]
      /\ call' = [call EXCEPT ![u] = "out"]
      /\ told' = [told EXCEPT ![u] = "none"]
      /\ UNCHANGED <<head, next, slot, busyIn, busyOut, req, alive>>
  BY UserTypes DEF ReleaseJoins, Close, memory, world, OrderInv
<1>2. Registered(u) /\ Gone(u) /\ thr[u].todo = <<>> /\ thr[u].entry = Nil
  BY <1>1, RestFacts DEF RestFactsHold, PerUser, UserOK, Out, Asks, Enters, Queued, Leaves, Gone,
     Untold, Runs
<1>3. lock = None /\ scan.job = "none" /\ scan.at = Nil
  <2>1. lock # u
    BY <1>2, UsersAssumption DEF OrderInv, ScanOK
  <2>2. QED
    BY <1>1, <2>1 DEF OrderInv, ScanOK
<1>4. Out(u)'
  <2>1. obj[u].rec = None /\ obj[u].play = None
    BY <1>1 DEF PerUser, EventsOK
  <2>2. obj'[u].rec = None /\ obj'[u].play = None /\ ~obj'[u].requested /\ ~obj'[u].running
    BY <1>1, <2>1 DEF PerUserTypes, ObjectType
  <2>3. QED
    BY <1>1, <2>2 DEF Out, PerUserTypes
<1>5. ASSUME NEW v \in Users \ {u} PROVE SameState(v) /\ PerUser(v)'
  <2>1. SameState(v)
    BY <1>1 DEF SameState, PerUserTypes
  <2>2. PerUser(v)
    BY DEF OrderInv
  <2>3. obj[v].requested => ids'[obj[v].uid] = ids[obj[v].uid]
    <3>1. obj[v].requested => Registered(v)
      BY <2>2 DEF PerUser, UserOK, Out
    <3>2. Registered(v) => obj[v].uid # obj[u].uid
      BY <1>2 DEF Registered
    <3>3. ids \in [UserIds -> Users \cup {None}]
      BY DEF ResourceInv, TypesInv, WorldOK
    <3>4. QED
      BY <1>1, <3>1, <3>2, <3>3 DEF Registered
  <2>4. Listed' = Listed
    BY <1>1, ListKept
  <2>5. QED
    BY <1>1, <2>1, <2>2, <2>3, <2>4, SameUser
<1>6. ASSUME NEW s \in Slots PROVE EntryOK(s)'
  <2>1. EntryOK(s) /\ Listed' = Listed /\ slot'[s] = slot[s] /\ (Held(s)' <=> Held(s))
        /\ (Alive(slot[s].owner)' <=> Alive(slot[s].owner))
    BY <1>1, ListKept DEF OrderInv, Held, Alive
  <2>2. UsedOK(s) /\ Alive(slot[s].owner) => slot[s].owner \in Users \ {u}
    BY <1>2 DEF UsedOK, Nil, Slots
  <2>3. UsedOK(s) /\ Alive(slot[s].owner) => thr'[slot[s].owner] = thr[slot[s].owner]
    BY <1>5, <2>2 DEF SameState
  <2>4. QED
    BY <2>1, <2>3 DEF EntryOK, UsedOK
<1>7. ~Lister(u)' /\ ~Unscrubbed(u)
  <2>1. ~Lister(u)'
    BY <1>4, MailKinds, RestKinds DEF MailKindsHold, RestKindsHold, Out, NoThread, Lister
  <2>2. ~Unscrubbed(u)
    BY <1>2, MailKinds, RestKinds DEF MailKindsHold, RestKindsHold, Gone, Unscrubbed
  <2>3. QED
    BY <2>1, <2>2
<1>8. OneLister'
  <2>1. \A v \in Users \ {u} : Lister(v)' <=> Lister(v)
    BY <1>5 DEF SameState, Lister
  <2>2. QED
    BY <1>7, <2>1 DEF OrderInv, OneLister
<1>9. OneHolder' /\ ListOK'
  BY <1>1, ListKept DEF OrderInv, OneHolder, Held
<1>10. ScanOK' /\ scan'.job = "none"
  BY <1>1 DEF Unlock, NoScan, ScanOK, Nil
<1>11. IdsOK'
  <2>1. ASSUME NEW s \in Slots, Stale(s)', Addressee(s)' # None, Alive(Addressee(s))'
        PROVE  Unscrubbed(Addressee(s))'
    <3>1. Stale(s)
      BY <1>1, <2>1 DEF Stale, Alive
    <3>2. Addressee(s)' = Addressee(s)
      <4>1. ids \in [UserIds -> Users \cup {None}] /\ slot[s].uid \in UserIds
        BY <3>1, StaleEntry DEF ResourceInv, TypesInv, WorldOK
      <4>2. QED
        BY <1>1, <2>1, <4>1 DEF Addressee
    <3>3. Addressee(s) # None /\ Alive(Addressee(s)) /\ Addressee(s) \in Users
      BY <1>1, <2>1, <3>1, <3>2, StaleEntry DEF Alive
    <3>4. PICK a \in Users : a = Addressee(s) /\ Unscrubbed(a) /\ a # u
      BY <1>7, <3>1, <3>3 DEF OrderInv, IdsOK
    <3>5. Unscrubbed(a)' /\ Addressee(s)' = a
      BY <1>5, <3>2, <3>4 DEF SameState, Unscrubbed
    <3>6. QED
      BY <3>5 DEF Unscrubbed
  <2>2. QED
    BY <1>10, <2>1 DEF IdsOK
<1>12. \A v \in Users : PerUser(v)'
  BY <1>4, <1>5, OutUser
<1>13. QED
  BY <1>6, <1>8, <1>9, <1>10, <1>11, <1>12 DEF OrderInv

\* No release waits in vain, and the lock file is open in every section.
LEMMA AnswersCome ==
    ASSUME ResourceInv, OrderInv, NEW u \in Users
    PROVE  ~ReleaseTimesOut(u) /\ ~LockFails(u)
<1>1. PerUser(u) /\ Lined
  BY ListLined DEF OrderInv
<1>2. ~LockFails(u)
  <2>1. SUFFICES ASSUME NEW name, In(u, name) PROVE obj[u].fd
    BY DEF LockFails
  <2>2. QED
    BY <1>1, <2>1, InRest DEF PerUser, Registered
<1>3. ASSUME ReleaseTimesOut(u) PROVE FALSE
  <2>1. call[u] # "out" /\ CannotAnswer(u)
    BY <1>3 DEF ReleaseTimesOut
  <2>2. Registered(u) /\ call[u] = "client"
    BY <1>1, <2>1 DEF PerUser, UserOK, Out, Asks, Enters, Queued, Leaves, Gone, Untold
  <2>3. ~In(u, "set")
    <3>1. SUFFICES ASSUME In(u, "set") PROVE FALSE
      OBVIOUS
    <3>2. GrantDue(u)
      BY <1>1, <3>1, InRest DEF PerUser, GrantDue
    <3>3. QED
      BY <1>1, <2>1, <3>2 DEF PerUser, EventsOK, Untold
  <2>4. Stuck(u) /\ lock = u
    BY <2>1, <2>2, <2>3 DEF CannotAnswer, Registered, Stuck, InOpen, Scanning
  <2>5. /\ scan.job = "grant" /\ scan.at # Nil
        /\ Grants(scan.at) /\ Blocks(u, scan.at)
    BY <1>1, <2>4 DEF Stuck, InOpen, Scanning, Lined
  <2>6. PICK s \in Slots : s = scan.at
    BY <1>1, <2>5 DEF OrderInv, ScanOK, Lined
  <2>7. ~Held(s) /\ s \in Listed /\ EntryOK(s)
    BY <2>5, <2>6 DEF OrderInv, ScanOK, Grants
  <2>8. UsedOK(s) /\ slot[s].prio # Free
    BY <2>7 DEF EntryOK
  <2>9. PICK o \in Users : o = slot[s].owner
    BY <2>8 DEF UsedOK
  <2>10. Alive(o) /\ thr[o].entry = s /\ s # Nil /\ PerUser(o)
    BY <2>7, <2>8, <2>9 DEF UsedOK, OrderInv, Nil, Slots
  <2>11. Registered(o) /\ slot[s].uid = thr[o].uid
    BY <2>8, <2>10 DEF PerUser, UserOK, Out, NoThread, MineOK
  <2>12. Addressee(s) = o
    BY <2>11 DEF Registered, Addressee
  <2>13. QED
    BY <2>5, <2>6, <2>10, <2>12 DEF Blocks
<1>4. QED
  BY <1>2, <1>3

-----------------------------------------------------------------------------
(* The request.                                                          *)

\* A user that requests while the others are quiet: it registers with a free user id
\* and launches its thread, or gets no user id.
Registers(u, i) ==
    /\ IsNextId(i) /\ ids' = [Cleaned EXCEPT ![i] = u]
    /\ obj'[u].requested /\ obj'[u].running /\ obj'[u].fresh /\ obj'[u].fd
    /\ obj'[u].uid = i /\ obj'[u].rec = obj[u].rec /\ obj'[u].play = obj[u].play
    /\ told'[u] = "none" /\ thr'[u] = NewThread(i)
    /\ mq'[u] = <<"request">> /\ fifo'[u] = <<>>

\* A request finds its user out of service and the others quiet.
LEMMA Requesting ==
    ASSUME ResourceInv, OrderInv, Orderly, NEW u \in Users, NEW r \in Requests, Request(u, r)
    PROVE  /\ Alive(u) /\ Out(u) /\ lock = None
           /\ \A v \in Users \ {u} : ~Lister(v) /\ SameState(v)
           /\ OpenMemory /\ UNCHANGED <<lock, scan, call, alive>>
           /\ \/ \E i \in UserIds : Registers(u, i)
              \/ ids' = Cleaned /\ SameState(u)
<1>1. /\ Alive(u) /\ call[u] = "out" /\ lock = None /\ ~obj[u].requested
      /\ MayStart(u) /\ OpenMemory /\ UNCHANGED <<lock, scan, call, alive>>
      /\ PerUser(u) /\ PerUserTypes
  BY UserTypes DEF Request, Orderly, world, OrderInv
<1>2. Out(u)
  BY <1>1 DEF PerUser, UserOK, Registered
<1>3. ~obj[u].running
  BY <1>2 DEF Out
<1>4. ASSUME NEW v \in Users \ {u} PROVE ~Lister(v)
  <2>1. Idle(v) /\ mq[v] = <<>> /\ call[v] = "out"
    BY <1>1 DEF MayStart, Orderly, Quiet
  <2>2. QED
    BY <2>1, MailKinds, RestKinds DEF MailKindsHold, RestKindsHold, Lister, Idle
<1>5. CASE \E i \in UserIds :
            /\ IsNextId(i)
            /\ ids' = [Cleaned EXCEPT ![i] = u]
            /\ obj' = [obj EXCEPT ![u].requested = TRUE, ![u].running = TRUE,
                                  ![u].fresh = ~obj[u].running, ![u].fd = TRUE,
                                  ![u].uid = i]
            /\ req' = [req EXCEPT ![u] = r]
            /\ told' = [told EXCEPT ![u] = "none"]
            /\ thr' = [thr EXCEPT ![u] = NewThread(i)]
            /\ mq' = [mq EXCEPT ![u] = <<"request">>]
            /\ fifo' = [fifo EXCEPT ![u] = <<>>]
  <2>1. PICK i \in UserIds :
            /\ IsNextId(i)
            /\ ids' = [Cleaned EXCEPT ![i] = u]
            /\ obj' = [obj EXCEPT ![u].requested = TRUE, ![u].running = TRUE,
                                  ![u].fresh = ~obj[u].running, ![u].fd = TRUE,
                                  ![u].uid = i]
            /\ req' = [req EXCEPT ![u] = r]
            /\ told' = [told EXCEPT ![u] = "none"]
            /\ thr' = [thr EXCEPT ![u] = NewThread(i)]
            /\ mq' = [mq EXCEPT ![u] = <<"request">>]
            /\ fifo' = [fifo EXCEPT ![u] = <<>>]
    BY <1>5
  <2>2. \A v \in Users \ {u} : SameState(v)
    BY <1>1, <2>1 DEF SameState, PerUserTypes
  <2>3. /\ obj'[u].requested /\ obj'[u].running /\ obj'[u].fresh /\ obj'[u].fd
        /\ obj'[u].uid = i /\ obj'[u].rec = obj[u].rec /\ obj'[u].play = obj[u].play
    <3>1. obj \in [Users -> ObjectType]
      BY <1>1 DEF PerUserTypes
    <3>2. obj'[u] = [obj[u] EXCEPT !.requested = TRUE, !.running = TRUE,
                                  !.fresh = ~obj[u].running, !.fd = TRUE, !.uid = i]
      BY <2>1, <3>1
    <3>3. obj[u] \in ObjectType
      BY <3>1
    <3>4. QED
      BY <1>3, <3>2, <3>3 DEF ObjectType
  <2>4. Registers(u, i)
    BY <1>1, <2>1, <2>3 DEF Registers, PerUserTypes
  <2>5. QED
    BY <1>1, <1>2, <1>4, <2>2, <2>4
<1>6. CASE ids' = Cleaned /\ UNCHANGED <<obj, req, told, thr, inputs>>
  <2>1. \A v \in Users : SameState(v)
    BY <1>1, <1>6 DEF SameState, inputs
  <2>2. QED
    BY <1>1, <1>2, <1>4, <1>6, <2>1
<1>7. QED
  BY <1>3, <1>5, <1>6 DEF Request

\* The memory is emptied only when no user is in service.
LEMMA Opened ==
    ASSUME ResourceInv, OrderInv, OpenMemory
    PROVE  /\ ListOK'
           /\ \/ UNCHANGED <<head, next, slot>>
              \/ /\ \A v \in Users : Out(v)
                 /\ Listed' = {} /\ \A s \in Slots : slot'[s] = EmptySlot
<1>1. CASE UNCHANGED memory
  BY <1>1, ListKept DEF memory, OrderInv
<1>2. CASE EmptyMemory /\ \A i \in UserIds : Cleaned[i] = None
  <2>1. ListOK' /\ Listed' = {} /\ \A s \in Slots : slot'[s] = EmptySlot
    BY <1>2, ListEmpty DEF EmptyMemory, EmptyLists
  <2>2. ASSUME NEW v \in Users PROVE Out(v)
    <3>1. ~Registered(v)
      BY <1>2, UsersAssumption DEF Registered, Cleaned
    <3>2. QED
      BY <3>1 DEF OrderInv, PerUser, UserOK
  <2>3. QED
    BY <2>1, <2>2
<1>3. QED
  BY <1>1, <1>2 DEF OpenMemory

\* A user enters service with a request on its queue, or stays out (Request).
LEMMA RequestOrderly ==
    ASSUME ResourceInv, OrderInv, Orderly, NEW u \in Users, NEW r \in Requests, Request(u, r)
    PROVE  OrderInv'
<1>1. /\ Alive(u) /\ Out(u) /\ lock = None
      /\ \A v \in Users \ {u} : ~Lister(v) /\ SameState(v)
      /\ OpenMemory /\ UNCHANGED <<lock, scan, call, alive>>
      /\ \/ \E i \in UserIds : Registers(u, i)
         \/ ids' = Cleaned /\ SameState(u)
  BY Requesting
<1>2. /\ ListOK'
      /\ \/ UNCHANGED <<head, next, slot>>
         \/ /\ \A v \in Users : Out(v)
            /\ Listed' = {} /\ \A s \in Slots : slot'[s] = EmptySlot
  BY <1>1, Opened
<1>3. ids \in [UserIds -> Users \cup {None}]
  BY DEF ResourceInv, TypesInv, WorldOK
<1>4. /\ scan.job = "none" /\ scan.at = Nil
  BY <1>1 DEF OrderInv, ScanOK
<1>5. \A i \in UserIds : \/ ids'[i] = ids[i]
                         \/ ids'[i] = None /\ ids[i] # None /\ ~Alive(ids[i])
                         \/ /\ ids[i] = None \/ ~Alive(ids[i])
                            /\ ids'[i] = u /\ Registers(u, i)
  BY <1>1, <1>3 DEF Registers, Cleaned, IsNextId
<1>6. PerUser(u)' /\ (Lister(u)' => Unscrubbed(u)')
  <2>1. CASE \E i \in UserIds : Registers(u, i)
    <3>1. PICK i \in UserIds : Registers(u, i)
      BY <2>1
    <3>2. /\ thr'[u].on /\ thr'[u].running /\ thr'[u].fds /\ thr'[u].uid = i
          /\ thr'[u].todo = <<>> /\ thr'[u].entry = Nil /\ ~thr'[u].timer
      BY <3>1 DEF Registers, NewThread, NoThread
    <3>3. call'[u] = "out" /\ told'[u] = "none" /\ mq'[u] = <<"request">> /\ fifo'[u] = <<>>
      BY <1>1, <3>1 DEF Registers, Out
    <3>4. Registered(u)'
      <4>1. ids'[i] = u
        BY <1>3, <3>1 DEF Registers, Cleaned
      <4>2. QED
        BY <1>1, <3>1, <3>2, <4>1 DEF Registered, Registers, Alive
    <3>5. Asks(u)'
      BY <3>2, <3>3 DEF Asks, Runs, Untold
    <3>6. ~InMail(u)' /\ ~AtEvent(u)' /\ thr'[u].todo # SetRest /\ mq'[u] # <<"GRANTED">>
          /\ fifo'[u] # <<"GRANTED">>
      BY <3>2, <3>3, MailKinds, MailFacts, RestKinds, RestFacts
         DEF MailKindsHold, MailFactsHold, RestKindsHold, RestFactsHold, Rests, InMail, AtEvent
    <3>7. EventsOK(u)'
      BY <3>2, <3>3, <3>6 DEF EventsOK, OneEvent, Due, GrantDue, AtEvent
    <3>8. MineOK(u)' /\ UserOK(u)' /\ Unscrubbed(u)'
      BY <3>2, <3>3, <3>4, <3>5 DEF MineOK, UserOK, Unscrubbed
    <3>9. QED
      BY <3>7, <3>8 DEF PerUser
  <2>2. CASE SameState(u)
    <3>1. Out(u)'
      BY <1>1, <2>2 DEF Out, SameState
    <3>2. ~Lister(u)'
      BY <1>1, <2>2, OutIdle DEF SameState, Lister
    <3>3. QED
      BY <3>1, <3>2, OutUser
  <2>3. QED
    BY <1>1, <2>1, <2>2
<1>7. ASSUME NEW v \in Users \ {u} PROVE PerUser(v)' /\ ~Lister(v)'
  <2>1. SameState(v) /\ PerUser(v) /\ ~Lister(v)
    BY <1>1 DEF OrderInv
  <2>2. CASE Out(v)
    <3>1. Out(v)'
      BY <2>1, <2>2 DEF Out, SameState
    <3>2. QED
      BY <2>1, <3>1, OutUser DEF SameState, Lister
  <2>3. CASE ~Out(v)
    <3>1. Registered(v) /\ UNCHANGED <<head, next, slot>>
      BY <1>2, <2>1, <2>3 DEF PerUser, UserOK
    <3>2. ids'[obj[v].uid] = ids[obj[v].uid]
      BY <1>5, <3>1, UsersAssumption DEF Registered
    <3>3. Listed' = Listed
      BY <3>1, ListKept
    <3>4. QED
      BY <1>1, <2>1, <3>1, <3>2, <3>3, SameUser DEF SameState, Lister
  <2>4. QED
    BY <2>2, <2>3
<1>8. ASSUME NEW s \in Slots PROVE EntryOK(s)'
  <2>1. CASE UNCHANGED <<head, next, slot>>
    <3>1. EntryOK(s) /\ Listed' = Listed /\ slot'[s] = slot[s] /\ (Held(s)' <=> Held(s))
          /\ (Alive(slot[s].owner)' <=> Alive(slot[s].owner))
      BY <1>1, <2>1, ListKept DEF OrderInv, Held, Alive
    <3>2. UsedOK(s) /\ Alive(slot[s].owner) => slot[s].owner \in Users \ {u}
      BY <1>1, OutIdle DEF UsedOK, Nil, Slots
    <3>3. UsedOK(s) /\ Alive(slot[s].owner) => thr'[slot[s].owner] = thr[slot[s].owner]
      BY <1>1, <3>2 DEF SameState
    <3>4. QED
      BY <3>1, <3>3 DEF EntryOK, UsedOK
  <2>2. CASE Listed' = {} /\ slot'[s] = EmptySlot
    BY <2>2 DEF EntryOK, EmptySlot
  <2>3. QED
    BY <1>2, <2>1, <2>2
<1>9. OneLister'
  BY <1>7 DEF OneLister
<1>10. OneHolder'
  <2>1. ASSUME NEW s \in Slots, Held(s)' PROVE Held(s)
    BY <1>2, <2>1 DEF Held, EmptySlot
  <2>2. QED
    BY <2>1 DEF OrderInv, OneHolder
<1>11. ScanOK'
  BY <1>1, <1>4 DEF ScanOK, OrderInv
<1>12. IdsOK'
  <2>1. ASSUME NEW s \in Slots, Stale(s)', Addressee(s)' # None, Alive(Addressee(s))'
        PROVE  Unscrubbed(Addressee(s))'
    <3>1. UNCHANGED <<head, next, slot>> /\ Stale(s)
      <4>1. slot'[s] # EmptySlot
        BY <2>1 DEF Stale, EmptySlot
      <4>2. QED
        BY <1>1, <1>2, <2>1, <4>1 DEF Stale, Alive
    <3>2. PICK i \in UserIds : i = slot[s].uid
      BY <3>1, StaleEntry
    <3>3. Addressee(s)' = ids'[i] /\ Addressee(s) = ids[i]
      BY <3>1, <3>2 DEF Addressee
    <3>4. CASE ids'[i] = ids[i]
      <4>1. Addressee(s) # None /\ Alive(Addressee(s)) /\ Addressee(s) \in Users
        BY <1>1, <2>1, <3>1, <3>3, <3>4, StaleEntry DEF Alive
      <4>2. PICK a \in Users : a = Addressee(s) /\ Unscrubbed(a)
        BY <3>1, <4>1 DEF OrderInv, IdsOK
      <4>3. a # u
        BY <1>1, <4>2, OutIdle
      <4>4. Unscrubbed(a)' /\ Addressee(s)' = a
        BY <1>1, <3>3, <3>4, <4>2, <4>3 DEF SameState, Unscrubbed
      <4>5. QED
        BY <4>4 DEF Unscrubbed
    <3>5. CASE ids'[i] = u /\ Registers(u, i)
      BY <3>3, <3>5 DEF Registers, Unscrubbed
    <3>6. QED
      BY <1>5, <2>1, <3>3, <3>4, <3>5
  <2>2. QED
    BY <1>1, <1>4, <2>1 DEF IdsOK
<1>13. \A v \in Users : PerUser(v)'
  BY <1>6, <1>7
<1>14. QED
  BY <1>2, <1>8, <1>9, <1>10, <1>11, <1>12, <1>13 DEF OrderInv

-----------------------------------------------------------------------------
(* Death, and all steps.                                                 *)

\* A process that dies has at most one user in service: one that holds devices, by an
\* entry that is in the list.
LEMMA KilledHolders ==
    ASSUME ResourceInv, OrderInv, Orderly, NEW p \in Procs, Killed(p),
           NEW v \in OfProcess(p)
    PROVE  /\ v \in Users /\ Alive(v) /\ thr[v].todo = <<>> /\ lock # v
           /\ thr[v].entry \in Listed /\ Held(thr[v].entry)
           /\ Registered(v) /\ slot[thr[v].entry].uid = thr[v].uid
<1>1. /\ v \in Users /\ Proc[v] = p /\ p \in alive
      /\ At(v) = "holding"
  BY DEF Killed, OfProcess, Orderly
<1>2. Alive(v) /\ thr[v].todo = <<>> /\ Holds(v)
  BY <1>1 DEF At, Idle, Alive
<1>3. PICK s \in Slots : slot[s].owner = v /\ Held(s)
  BY <1>2 DEF Holds, Held
<1>4. EntryOK(s) /\ PerUser(v) /\ s # Nil
  BY <1>1 DEF OrderInv, Nil, Slots
<1>5. slot[s].prio # Free
  BY <1>3, <1>4 DEF EntryOK, EmptySlot, Held
<1>6. thr[v].entry = s
  BY <1>2, <1>3, <1>4, <1>5 DEF EntryOK, UsedOK
<1>7. s \in Listed /\ slot[s].uid = thr[v].uid
  BY <1>2, <1>4, <1>5, <1>6, RestKinds DEF RestKindsHold, PerUser, MineOK
<1>8. Registered(v)
  BY <1>4, <1>6 DEF PerUser, UserOK, Out, NoThread
<1>9. lock # v
  BY <1>1, <1>2, UsersAssumption DEF OrderInv, ScanOK
<1>10. QED
  BY <1>1, <1>2, <1>3, <1>6, <1>7, <1>8, <1>9

\* The death of a process leaves entries that are stale and in the list.
LEMMA KilledOrderly ==
    ASSUME ResourceInv, OrderInv, Orderly, NEW p \in Procs, Killed(p)
    PROVE  OrderInv'
<1>1. lock \notin OfProcess(p)
  BY KilledHolders
<1>2. /\ p \in alive /\ alive' = alive \ {p} /\ lock' = lock /\ scan' = scan
      /\ thr' = [u \in Users |-> IF Proc[u] = p THEN NoThread ELSE thr[u]]
      /\ mq' = [u \in Users |-> IF Proc[u] = p THEN <<>> ELSE mq[u]]
      /\ fifo' = [u \in Users |-> IF Proc[u] = p THEN <<>> ELSE fifo[u]]
      /\ obj' = [u \in Users |-> IF Proc[u] = p THEN NewObject ELSE obj[u]]
      /\ call' = [u \in Users |-> IF Proc[u] = p THEN "out" ELSE call[u]]
      /\ told' = [u \in Users |-> IF Proc[u] = p THEN "none" ELSE told[u]]
      /\ UNCHANGED <<memory, ids, req>>
  <2>1. \A u \in Users : ~StoresLeft(u)
    BY DEF StoresLeft, Orderly, FreeMoment, GrantMoment
  <2>2. QED
    BY <1>1, <2>1 DEF Killed, Die, OfProcess
<1>3. UNCHANGED <<head, next, slot>> /\ Walk' = Walk /\ Listed' = Listed /\ ListOK'
  BY <1>2, ListKept DEF memory, OrderInv
<1>4. \A v \in Users : Alive(v)' <=> Alive(v) /\ v \notin OfProcess(p)
  BY <1>2 DEF Alive, OfProcess
<1>5. ASSUME NEW v \in OfProcess(p) PROVE Out(v)' /\ v \in Users
  BY <1>2 DEF Out, OfProcess, NewObject
<1>6. ASSUME NEW v \in Users \ OfProcess(p) PROVE SameState(v) /\ PerUser(v)'
  <2>1. SameState(v)
    BY <1>2 DEF SameState, OfProcess
  <2>2. QED
    BY <1>2, <1>3, <1>4, <2>1, SameUserStays DEF OrderInv
<1>7. \A v \in Users : PerUser(v)'
  BY <1>5, <1>6, OutUser
<1>8. ASSUME NEW s \in Slots PROVE EntryOK(s)'
  <2>1. EntryOK(s) /\ slot'[s] = slot[s] /\ (Held(s)' <=> Held(s))
    BY <1>3 DEF OrderInv, Held
  <2>2. CASE slot[s].owner \in OfProcess(p) /\ UsedOK(s)
    <3>1. thr[slot[s].owner].entry = s
      BY <2>2, KilledHolders DEF UsedOK
    <3>2. Held(s) /\ s \in Listed
      BY <2>2, <3>1, KilledHolders
    <3>3. ~Alive(slot[s].owner)'
      BY <1>4, <2>1, <2>2 DEF OfProcess
    <3>4. UsedOK(s)'
      BY <1>3, <2>1, <2>2, <3>2, <3>3 DEF UsedOK
    <3>5. QED
      BY <1>3, <2>1, <3>4 DEF EntryOK
  <2>3. CASE slot[s].owner \notin OfProcess(p) /\ UsedOK(s)
    <3>1. slot[s].owner \in Users \ OfProcess(p)
      BY <2>3 DEF UsedOK
    <3>2. thr'[slot[s].owner] = thr[slot[s].owner]
      BY <1>6, <3>1 DEF SameState
    <3>3. Alive(slot[s].owner)' <=> Alive(slot[s].owner)
      BY <1>4, <2>1, <3>1
    <3>4. UsedOK(s)'
      BY <1>3, <2>1, <2>3, <3>2, <3>3 DEF UsedOK
    <3>5. QED
      BY <1>3, <2>1, <3>4 DEF EntryOK
  <2>4. CASE slot[s].prio = Free
    BY <1>3, <2>1, <2>4 DEF EntryOK
  <2>5. QED
    BY <2>1, <2>2, <2>3, <2>4 DEF EntryOK
<1>9. \A v \in Users : Lister(v)' => Lister(v)
  <2>1. \A v \in OfProcess(p) : ~Lister(v)'
    <3>1. ASSUME NEW v \in OfProcess(p) PROVE ~Lister(v)'
      BY <1>5, MailKinds, RestKinds DEF MailKindsHold, RestKindsHold, Out, NoThread, Lister
    <3>2. QED
      BY <3>1
  <2>2. QED
    BY <1>6, <2>1 DEF SameState, Lister
<1>10. OneLister' /\ OneHolder'
  BY <1>3, <1>9 DEF OrderInv, OneLister, OneHolder, Held
<1>11. ScanOK'
  <2>1. lock # None => thr'[lock].todo = thr[lock].todo
    <3>1. lock # None => lock \in Users \ OfProcess(p)
      BY <1>1, UserTypes DEF PerUserTypes
    <3>2. QED
      BY <1>6, <3>1 DEF SameState
  <2>2. QED
    BY <1>2, <2>1, ScanKept
<1>12. IdsOK'
  <2>1. ASSUME NEW s \in Slots, Stale(s)', Addressee(s)' # None, Alive(Addressee(s))'
        PROVE  /\ Unscrubbed(Addressee(s))'
               /\ scan'.job = "scrub" => From(scan.at, s)'
    <3>1. Addressee(s)' = Addressee(s) /\ Addressee(s) # None
      BY <1>2, <1>3, <2>1 DEF Addressee
    <3>2. slot[s].owner # None /\ EntryOK(s)
      BY <1>3, <2>1 DEF Stale, OrderInv
    <3>3. UsedOK(s)
      BY <3>2 DEF EntryOK, EmptySlot
    <3>4. PICK o \in Users : o = slot[s].owner
      BY <3>3 DEF UsedOK
    <3>5. Addressee(s) \in Users
      BY <3>1, <3>3 DEF UsedOK, Addressee, ResourceInv, TypesInv, WorldOK
    <3>6. PICK a \in Users : a = Addressee(s) /\ Alive(a) /\ a \notin OfProcess(p)
      BY <1>4, <2>1, <3>1, <3>5
    <3>7. ~Alive(o)'
      BY <1>3, <2>1, <3>4 DEF Stale
    <3>8. CASE Alive(o)
      <4>1. o \in OfProcess(p)
        BY <1>4, <3>7, <3>8
      <4>2. thr[o].entry = s
        BY <3>3, <3>4, <3>8 DEF UsedOK
      <4>3. Registered(o) /\ slot[s].uid = thr[o].uid
        BY <4>1, <4>2, KilledHolders
      <4>4. Addressee(s) = o
        BY <4>3 DEF Registered, Addressee
      <4>5. QED
        BY <3>6, <4>1, <4>4
    <3>9. CASE ~Alive(o)
      <4>1. Stale(s)
        BY <3>2, <3>4, <3>9 DEF Stale
      <4>2. Unscrubbed(a) /\ (scan.job = "scrub" => From(scan.at, s))
        BY <3>1, <3>6, <4>1 DEF OrderInv, IdsOK
      <4>3. Unscrubbed(a)' /\ Addressee(s)' = a
        BY <1>6, <3>1, <3>6, <4>2 DEF SameState, Unscrubbed
      <4>4. scan'.job = "scrub" => From(scan.at, s)'
        BY <1>2, <1>3, <4>2 DEF From
      <4>5. QED
        BY <4>3, <4>4 DEF Unscrubbed
    <3>10. QED
      BY <3>8, <3>9
  <2>2. QED
    BY <1>2, <2>1 DEF IdsOK
<1>13. QED
  BY <1>3, <1>7, <1>8, <1>10, <1>11, <1>12 DEF OrderInv

\* At the start nobody is in service and the list is empty.
LEMMA OrderInit == Init => OrderInv
<1> SUFFICES ASSUME Init PROVE OrderInv
  OBVIOUS
<1>1. \A v \in Users : Out(v)
  BY DEF Init, Out, NoThread, NewObject
<1>2. ListOK /\ Listed = {}
  BY ListEmpty DEF Init, EmptyLists
<1>3. ASSUME NEW v \in Users PROVE PerUser(v)
  <2>1. Out(v) /\ ~Lister(v) /\ thr[v].entry = Nil /\ thr[v].todo = <<>>
    BY <1>1, OutIdle
  <2>2. /\ ~InMail(v) /\ ~AtEvent(v) /\ thr[v].todo # SetRest
        /\ mq[v] # <<"GRANTED">> /\ fifo[v] # <<"GRANTED">>
    BY <2>1, MailKinds, RestKinds, RestFacts
       DEF MailKindsHold, RestKindsHold, RestFactsHold, Rests, InMail, AtEvent, Out
  <2>3. EventsOK(v)
    BY <2>1, <2>2 DEF EventsOK, OneEvent, Due, GrantDue, Untold, AtEvent, Out
  <2>4. QED
    BY <2>1, <2>3 DEF PerUser, UserOK, MineOK
<1>4. \A s \in Slots : slot[s] = EmptySlot
  BY DEF Init
<1>5. \A s \in Slots : EntryOK(s) /\ ~Held(s) /\ ~Stale(s)
  <2>1. /\ EmptySlot.prio = Free /\ EmptySlot.owner = None
        /\ EmptySlot.rec = None /\ EmptySlot.play = None
    BY DEF EmptySlot
  <2>2. \A s \in Slots : ~Held(s) /\ ~Stale(s)
    BY <1>4, <2>1 DEF Held, Stale
  <2>3. \A s \in Slots : EntryOK(s)
    BY <1>2, <1>4, <2>1 DEF EntryOK
  <2>4. QED
    BY <2>2, <2>3
<1>6. OneLister
  BY <1>1, OutIdle DEF OneLister
<1>7. ScanOK
  BY DEF Init, ScanOK, NoScan, Nil
<1>8. QED
  BY <1>2, <1>3, <1>5, <1>6, <1>7 DEF OrderInv, OneHolder, IdsOK

\* Every step keeps the invariant.
LEMMA OrderStep ==
    ASSUME Orderly, OneInput, ResourceInv, OrderInv, [Next]_vars
    PROVE  OrderInv'
<1>1. ASSUME NEW u \in Users, ThreadStep(u) PROVE OrderInv'
  <2>1. CASE ReadQueue(u) \/ ReadFifo(u) \/ Exit(u) \/ Fill(u)
    BY <2>1, ReadQueueOrderly, ReadFifoOrderly, ExitOrderly, FillOrderly
  <2>2. CASE ScrubStep(u) \/ ScrubEnd(u) \/ AddStep(u)
    BY <2>2, ScrubStepOrderly, ScrubEndOrderly, AddStepOrderly
  <2>3. CASE RevokeStep(u) \/ RevokeEnd(u) \/ GrantStep(u) \/ UpdateEnd(u)
    <3>1. NoDeviceLost
      BY DEF Orderly, ResourceInv, MarksOK
    <3>2. QED
      BY <2>3, <3>1, RevokeStepOrderly, RevokeEndOrderly, GrantStepOrderly, UpdateEndOrderly
  <2>4. CASE Grant(u) \/ SetGranted(u) \/ Revoked(u)
    BY <2>4, GrantOrderly, SetGrantedOrderly, RevokedOrderly
  <2>5. CASE CallbackReturns(u) \/ LockFails(u)
    BY <2>5, CallbackReturnsNever, AnswersCome
  <2>6. QED
    BY <1>1, <2>1, <2>2, <2>3, <2>4, <2>5 DEF ThreadStep
<1>2. ASSUME NEW u \in Users, LockStep(u) PROVE OrderInv'
  BY <1>2, ScrubBeginOrderly, AllocOrderly, AddBeginOrderly, RemoveOrderly, FreeEntryOrderly,
     UpdateBeginOrderly DEF LockStep
<1>3. ASSUME NEW u \in Users, Timer(u) PROVE OrderInv'
  BY <1>3, TimerOrderly
<1>4. ASSUME NEW u \in Users, ClientStep(u) PROVE OrderInv'
  BY <1>4, RequestOrderly, ReleaseOrderly, CallbackReturnsNever DEF ClientStep
<1>5. ASSUME NEW u \in Users, Answer(u) PROVE OrderInv'
  BY <1>5, ReleaseJoinsOrderly, AnswersCome DEF Answer
<1>6. ASSUME NEW p \in Procs, Killed(p) PROVE OrderInv'
  BY <1>6, KilledOrderly
<1>7. CASE UNCHANGED vars
  <2>1. /\ UNCHANGED <<memory, ids, thr, mq, fifo, obj, call, told, req, alive>>
        /\ UNCHANGED <<lock, scan>>
    BY <1>7 DEF vars, inputs, client, world
  <2>2. ScanOK'
    BY <2>1, ScanKept
  <2>3. scan'.job = "scrub" =>
          \A s \in Slots : Stale(s) /\ Addressee(s) # None /\ Alive(Addressee(s)) =>
              From(scan'.at, s)
    BY <2>1 DEF OrderInv, IdsOK
  <2>4. QED
    BY <2>1, <2>2, <2>3, LoopMoves
<1>8. QED
  BY <1>1, <1>2, <1>3, <1>4, <1>5, <1>6, <1>7 DEF Next

-----------------------------------------------------------------------------
(* The properties of the orderly system.                                 *)

\* The number of events in each message queue a user can have.
LEMMA OneEventIn ==
    ASSUME NEW q, NEW k, DOMAIN q = 1 .. 1 \/ DOMAIN q = 1 .. 2 \/ DOMAIN q = 1 .. 3,
           k \in DOMAIN q, \A i \in DOMAIN q : q[i] \in Events <=> i = k
    PROVE  EventsIn(q) = 1
<1>1. {i \in DOMAIN q : q[i] \in Events} = {k}
  OBVIOUS
<1>2. QED
  BY <1>1, FS_Singleton DEF EventsIn

\* A queue without events.
LEMMA NoEventIn ==
    ASSUME NEW q, \A i \in DOMAIN q : q[i] \notin Events
    PROVE  EventsIn(q) = 0
<1>1. {i \in DOMAIN q : q[i] \in Events} = {}
  OBVIOUS
<1>2. QED
  BY <1>1, FS_EmptySet DEF EventsIn
EventCountsHold ==
    /\ \A q \in {<<>>, <<"request">>, <<"terminate">>, <<"release", "terminate">>} :
          EventsIn(q) = 0
    /\ \A q \in Mailed : EventsIn(q) = 1

\* Each queue that is not without events has one.
LEMMA EventCounts == EventCountsHold
<1>1. EventsIn(<<>>) = 0
  <2>1. \A i \in DOMAIN <<>> : <<>>[i] \notin Events
    OBVIOUS
  <2>2. QED
    BY <2>1, NoEventIn
<1>2. EventsIn(<<"request">>) = 0 /\ EventsIn(<<"terminate">>) = 0
  BY NoEventIn DEF Events
<1>3. EventsIn(<<"release", "terminate">>) = 0
  BY NoEventIn DEF Events
<1>4. EventsIn(<<"GRANTED">>) = 1 /\ EventsIn(<<"REVOKED">>) = 1
  BY OneEventIn DEF Events
<1>5. EventsIn(<<"terminate", "REVOKED">>) = 1
  <2> DEFINE q == <<"terminate", "REVOKED">>
  <2>1. DOMAIN q = 1 .. 2 /\ 2 \in DOMAIN q /\ \A i \in DOMAIN q : q[i] \in Events <=> i = 2
    BY DEF Events
  <2>2. QED
    BY <2>1, OneEventIn
<1>6. EventsIn(<<"REVOKED", "release", "terminate">>) = 1
  <2> DEFINE q == <<"REVOKED", "release", "terminate">>
  <2>1. DOMAIN q = 1 .. 3 /\ 1 \in DOMAIN q /\ \A i \in DOMAIN q : q[i] \in Events <=> i = 1
    BY DEF Events
  <2>2. QED
    BY <2>1, OneEventIn
<1>7. EventsIn(<<"release", "terminate", "REVOKED">>) = 1
  <2> DEFINE q == <<"release", "terminate", "REVOKED">>
  <2>1. DOMAIN q = 1 .. 3 /\ 3 \in DOMAIN q /\ \A i \in DOMAIN q : q[i] \in Events <=> i = 3
    BY DEF Events
  <2>2. QED
    BY <2>1, OneEventIn
<1>8. QED
  BY <1>1, <1>2, <1>3, <1>4, <1>5, <1>6, <1>7 DEF EventCountsHold, Mailed

\* The entry of a user is in the list but while the user adds or frees it.
LEMMA OrderList ==
    ASSUME ResourceInv, OrderInv
    PROVE  ListSound
<1>1. Lined
  BY ListLined DEF OrderInv
<1>2. ASSUME NEW s \in Slots, slot[s].prio # Free PROVE s \in Listed \/ Loose(s)
  <2>1. UsedOK(s)
    BY <1>2 DEF OrderInv, EntryOK
  <2>2. PICK o \in Users : o = slot[s].owner
    BY <2>1 DEF UsedOK
  <2>3. CASE Alive(o)
    <3>1. thr[o].entry = s /\ PerUser(o) /\ s # Nil
      BY <2>1, <2>2, <2>3 DEF UsedOK, OrderInv, Nil, Slots
    <3>2. s \in Listed \/ thr[o].todo \in {AddRest, FreeRest}
      BY <1>2, <3>1 DEF PerUser, MineOK
    <3>3. thr[o].todo \in {AddRest, FreeRest} => Loose(s)
      BY <3>1, RestFacts DEF RestFactsHold, Rests, Loose, Idle
    <3>4. QED
      BY <3>2, <3>3
  <2>4. CASE ~Alive(o)
    BY <2>1, <2>2, <2>4 DEF UsedOK
  <2>5. QED
    BY <2>3, <2>4
<1>3. ASSUME NEW s \in Slots, s \in Listed \/ Loose(s) PROVE slot[s].prio # Free
  <2>1. CASE s \in Listed
    BY <2>1 DEF OrderInv, EntryOK
  <2>2. CASE Loose(s)
    <3>1. PICK u \in Users : thr[u].entry = s /\ ~Idle(u)
                             /\ Head(thr[u].todo) \in {"add", "free"}
      BY <2>2 DEF Loose
    <3>2. PerUser(u) /\ s # Nil
      BY DEF OrderInv, Nil, Slots
    <3>3. thr[u].todo # FillRest
      BY <3>1, RestFacts DEF RestFactsHold
    <3>4. QED
      BY <3>1, <3>2, <3>3 DEF PerUser, MineOK
  <2>3. QED
    BY <1>3, <2>1, <2>2
<1>4. ASSUME NEW s \in Slots, NEW t \in Slots, s # t, slot[s].owner # None,
             slot[s].owner = slot[t].owner
      PROVE  FALSE
  <2>1. UsedOK(s) /\ UsedOK(t)
    BY <1>4 DEF OrderInv, EntryOK, EmptySlot
  <2>2. CASE Alive(slot[s].owner)
    BY <1>4, <2>1, <2>2 DEF UsedOK
  <2>3. CASE ~Alive(slot[s].owner)
    BY <1>4, <2>1, <2>3 DEF UsedOK, OrderInv, OneHolder
  <2>4. QED
    BY <2>2, <2>3
<1>5. QED
  BY <1>1, <1>2, <1>3, <1>4 DEF ListSound, Lined

\* What a thread reads without an entry is no grant and no release, and a user has one
\* event at a time.
LEMMA OrderHandlers ==
    ASSUME ResourceInv, OrderInv
    PROVE  HandlerHasEntry
<1>1. ASSUME NEW u \in Users, thr[u].entry = Nil
      PROVE  /\ QueueNext(u) => ~NeedsEntry(Head(mq[u]))
             /\ FifoNext(u) => ~NeedsEntry(Head(fifo[u]))
  <2>1. UserOK(u)
    BY DEF OrderInv, PerUser
  <2>2. /\ mq[u] \in {<<>>, <<"request">>} \cup Last \cup After
        /\ fifo[u] \in After
    <3>1. <<>> \in After
      BY DEF After
    <3>2. ~Queued(u) /\ ~Leaves(u)
      BY <1>1 DEF Queued, Leaves, Nil, Slots
    <3>3. QED
      BY <2>1, <3>1, <3>2 DEF UserOK, Out, Asks, Enters, Gone
  <2>3. mq[u] # <<>> => Head(mq[u]) \in {"request", "terminate", "REVOKED"}
    BY <2>2, MailFacts DEF MailFactsHold, Last, After
  <2>4. fifo[u] # <<>> => Head(fifo[u]) = "REVOKED"
    BY <2>2, MailFacts DEF MailFactsHold, After
  <2>5. QED
    BY <2>3, <2>4 DEF QueueNext, FifoNext, NeedsEntry
<1>2. ASSUME NEW u \in Users PROVE Pending(u) <= 1
  <2>1. UserOK(u) /\ EventsOK(u)
    BY DEF OrderInv, PerUser
  <2>2. /\ mq[u] \in {<<>>, <<"request">>, <<"terminate">>, <<"release", "terminate">>} \cup Mailed
        /\ fifo[u] \in Calm
    BY <2>1 DEF UserOK, Out, Asks, Enters, Queued, Leaves, Gone, After, Last, Parting, Calm, Mailed
  <2>3. EventsIn(mq[u]) = One(InMail(u))
    BY <2>2, EventCounts DEF EventCountsHold, InMail, One
  <2>4. EventsIn(fifo[u]) = One(fifo[u] # <<>>)
    BY <2>2, EventCounts, MailKinds, MailFacts
       DEF EventCountsHold, MailKindsHold, Calm, Mailed, One
  <2>5. ~Idle(u) /\ Head(thr[u].todo) \in {"grant", "callback"} => AtEvent(u)
    BY <2>1, UserRests, RestFacts DEF RestFactsHold, Rests, Idle, AtEvent
  <2>6. QED
    BY <2>1, <2>3, <2>4, <2>5 DEF EventsOK, OneEvent, Pending, One
<1>3. QED
  BY <1>1, <1>2 DEF HandlerHasEntry

\* A grant was told with the devices of the entry, and without a request there is none.
LEMMA OrderDevices ==
    ASSUME ResourceInv, OrderInv
    PROVE  DevicesAsTold
<1>1. GrantedHasDevices
  <2>1. ASSUME NEW u \in Users, obj[u].requested, call[u] = "out", told[u] = "granted"
        PROVE  /\ req[u].in => obj[u].rec # None
               /\ req[u].out # "none" => obj[u].play # None
    <3>1. PerUser(u)
      BY DEF OrderInv
    <3>2. Queued(u)
      BY <2>1, <3>1 DEF PerUser, UserOK, Out, Asks, Enters, Leaves, Gone, Untold
    <3>3. PICK e \in Slots : e = thr[u].entry /\ e # Nil
      BY <3>2 DEF Queued, Nil, Slots
    <3>4. /\ Held(e) /\ obj[u].rec = slot[e].rec /\ obj[u].play = slot[e].play
      BY <2>1, <3>1, <3>3 DEF PerUser, EventsOK
    <3>5. thr[u].todo # FillRest
      BY <3>2, RestFacts DEF RestFactsHold, Rests, Queued
    <3>6. slot[e].prio # Free /\ slot[e].in = req[u].in /\ slot[e].out = req[u].out
      BY <3>1, <3>3, <3>5 DEF PerUser, MineOK
    <3>7. UsedOK(e)
      BY <3>6 DEF OrderInv, EntryOK
    <3>8. QED
      BY <3>4, <3>6, <3>7 DEF UsedOK
  <2>2. QED
    BY <2>1 DEF GrantedHasDevices
<1>2. ReleasedHoldsNothing
  <2>1. ASSUME NEW u \in Users, Alive(u), ~obj[u].requested
        PROVE  ~Holds(u) /\ obj[u].rec = None /\ obj[u].play = None
    <3>1. Out(u)
      BY <2>1 DEF OrderInv, PerUser, UserOK, Registered
    <3>2. ASSUME NEW s \in Slots, slot[s].owner = u PROVE FALSE
      <4>1. UsedOK(s)
        BY <3>2, UsersAssumption DEF OrderInv, EntryOK, EmptySlot
      <4>2. QED
        BY <2>1, <3>1, <3>2, <4>1 DEF UsedOK, Out, NoThread, Nil, Slots
    <3>3. QED
      BY <3>1, <3>2 DEF Holds, Out
  <2>2. QED
    BY <2>1 DEF ReleasedHoldsNothing
<1>3. QED
  BY <1>1, <1>2 DEF DevicesAsTold

\* The entry of a dead owner is in the list.
LEMMA OrderRecovers ==
    ASSUME OrderInv
    PROVE  DevicesRecoverable
<1>1. ASSUME NEW s \in Slots, Held(s), ~Alive(slot[s].owner) PROVE s \in Listed
  BY <1>1 DEF OrderInv, EntryOK, EmptySlot, Held, UsedOK
<1>2. QED
  BY <1>1 DEF DevicesRecoverable

\* The invariants hold in every state of an orderly system.
LEMMA OrderAlways ==
    ASSUME Orderly, OneInput
    PROVE  Spec => []OrderInv
<1>1. Init => ResourceInv /\ OrderInv
  BY ResourceInit, OrderInit
<1>2. ResourceInv /\ OrderInv /\ [Next]_vars => OrderInv'
  BY OrderStep
<1>3. QED
  BY <1>1, <1>2, ResourceAlways, PTL DEF Spec

\* In an orderly system with one microphone the list ends, holds exactly the entries in
\* use, but for the one that a thread adds or frees, and no user has two of them
\* (resource_entry_add, resource_entry_remove, resource_stale_entries_remove): for any
\* number of users, entries and deaths.
THEOREM OrderlyList ==
    ASSUME Orderly, OneInput
    PROVE  Spec => []ListSound
<1>1. ResourceInv /\ OrderInv => ListSound
  BY OrderList
<1>2. QED
  BY <1>1, ResourceAlways, OrderAlways, PTL

\* In such a system no grant and no release is read without the entry that its handler
\* follows, and no client is sent an event before it has handled the one before
\* (xraudio_rsrc_msg_resource_grant, "notified").
THEOREM OrderlyHandlers ==
    ASSUME Orderly, OneInput
    PROVE  Spec => []HandlerHasEntry
<1>1. ResourceInv /\ OrderInv => HandlerHasEntry
  BY OrderHandlers
<1>2. QED
  BY <1>1, ResourceAlways, OrderAlways, PTL

\* In such a system a client that was told of a grant has every device it asked for, and
\* one that has released holds none (xraudio_resource_grant, xraudio_resource_release).
THEOREM OrderlyDevices ==
    ASSUME Orderly, OneInput
    PROVE  Spec => []DevicesAsTold
<1>1. ResourceInv /\ OrderInv => DevicesAsTold
  BY OrderDevices
<1>2. QED
  BY <1>1, ResourceAlways, OrderAlways, PTL

\* In such a system the devices of a dead process are in the list, where a scrub finds
\* them (resource_stale_entries_remove).
THEOREM OrderlyRecoverable ==
    ASSUME Orderly, OneInput
    PROVE  Spec => []DevicesRecoverable
<1>1. OrderInv => DevicesRecoverable
  BY OrderRecovers
<1>2. QED
  BY <1>1, OrderAlways, PTL
=============================================================================
