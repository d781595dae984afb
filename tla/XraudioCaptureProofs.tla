------------------------ MODULE XraudioCaptureProofs ------------------------
(***************************************************************************)
(* Proofs about the captures for diagnosis: no file of a recording that    *)
(* has ended stays open or without its header, nothing is left when all    *)
(* has stopped, and the rotation of the files keeps its limit and loses    *)
(* the oldest, over restarts, for every limit and every number of seconds. *)
(*                                                                         *)
(* The argument follows the stop of every group from the session of the    *)
(* client to the messages it still has to send and to the queue: a group   *)
(* that uses something has a stop to come.  For the rotation the directory *)
(* is sorted by time from the place where it goes on, around its end; from *)
(* the first turn of the times a restart finds such a place again.         *)
(***************************************************************************)
EXTENDS XraudioCapture, FiniteSetTheorems, WellFoundedInduction, TLAPS

-----------------------------------------------------------------------------
(* The inductive invariant: what is used has a stop to come.               *)

MsgTypes == {"start", "stop", "captureStart", "captureStop", "terminate"}
MsgType == [type : MsgTypes, g : {"default", "tap"}, kind : AllKinds,
            ctype : SUBSET AllFlags, raw : BOOLEAN]
CallType == [todo : Seq(MsgType), waits : BOOLEAN]
SeenType == [most : {0} \cup Qtys, orderly : BOOLEAN, stray : BOOLEAN]

\* The messages in the queue, and those that a call still has to send.
Pending == Range(q) \cup Range(call.todo)
MessagesOK ==
    /\ q \in Seq(MsgType) /\ call \in CallType /\ seen \in SeenType
    /\ \A m \in Pending : m.type \in {"start", "stop"} => m.g \in Groups
    /\ \A m \in Range(call.todo) : m.type \notin {"start", "captureStart"}

\* Only starts are not waited for: another message is the last of the queue.
QueueShape ==
    /\ \A i \in DOMAIN q : q[i].type # "start" => i = Len(q) /\ call.waits
    /\ \A i, j \in DOMAIN q :
          q[i].type = "start" /\ q[j].type = "start" /\ q[i].g = q[j].g => i = j

Due(type) == \E m \in Pending : m.type = type
StopDue(g) == \E m \in Pending : m.type = "stop" /\ m.g = g
Recording(g) == g \in session \/ StopDue(g)
GroupsOwned ==
    /\ \A m \in Range(q) : m.type = "start" => Recording(m.g) /\ ~inst[m.g].active
    /\ \A g \in Groups : inst[g].active \/ inst[g].raw => Recording(g)
Capturing == capt \/ Due("captureStop")
SessionOwned ==
    /\ cs.raw \/ cs.files # {} => Capturing
    /\ \A m \in Range(q) : m.type = "captureStart" => capt /\ ~cs.raw /\ cs.files = {}
    /\ cs.files \subseteq Points(cs.type)
TestOwned ==
    /\ test => rawRec \/ cs.raw
    /\ rawRec => \E g \in Groups : inst[g].raw
ObjectOwned ==
    /\ ~opened => session = {} /\ ~capt
    /\ thr.qty > 0 => opened \/ Due("terminate")
UseInv == MessagesOK /\ QueueShape /\ GroupsOwned /\ SessionOwned /\ TestOwned /\ ObjectOwned

-----------------------------------------------------------------------------
(* The files: an open file is held by the instance of one group.           *)

FilesOf(r) == Handles(r) \cap Indexes
Files(g) == FilesOf(inst[g])
HandleOK(r) ==
    IF r.active
    THEN /\ r.native \in Indexes \cup {Unlinked}
         /\ r.decoded \in IF r.two THEN Indexes \cup {Unlinked} ELSE {Null}
    ELSE r.native \in {Null, Stale} /\ r.decoded = Null
HandlesOK == \A g \in Groups : HandleOK(inst[g])
FilesHeld ==
    /\ \A g \in Groups : inst[g].active => Files(g) \subseteq Open(dir)
    /\ \A g, h \in Groups :
          inst[g].active /\ inst[h].active /\ g # h => Files(g) \cap Files(h) = {}
FileInv == HandlesOK /\ FilesHeld /\ CapturesFinished

-----------------------------------------------------------------------------
(* The rotation.                                                           *)

PresentIn(d) == {i \in Indexes : d[i].st # "none"}
\* All times of the directory are of the past.
Timely(d) == \A i \in Indexes : d[i].time <= clock
LimitOK ==
    /\ params <= seen.most /\ thr.qty <= seen.most
    /\ thr.qty > 0 => thr.index < seen.most
    /\ Present \subseteq 0 .. seen.most - 1
    /\ Timely(dir)

\* The directory holds n files, or is filled up to p, where the rotation goes on.
Filled(d, n, p) ==
    /\ p = 0 \/ p < n
    /\ PresentIn(d) = 0 .. n - 1 \/ (p < n /\ PresentIn(d) = 0 .. p - 1)
\* i comes before j in a rotation that goes on at p.
Earlier(i, j, p) == IF i < p THEN i <= j /\ j < p ELSE i <= j \/ j < p
\* The times are those of a rotation that goes on at p, and the files that are
\* open are its last.
Sorted(d, p) ==
    /\ \A i, j \in PresentIn(d) : Earlier(i, j, p) => d[i].time <= d[j].time
    /\ \A i \in Open(d), j \in PresentIn(d) \ Open(d) : Earlier(j, i, p)
Rotates(d, n, p) == Filled(d, n, p) /\ Sorted(d, p)
OrderInv ==
    seen.orderly =>
       /\ params \in {0, seen.most} /\ thr.qty \in {0, seen.most}
       /\ \A g, h \in Groups : inst[g].active /\ inst[h].active => g = h
       /\ \E p \in Indexes : /\ Rotates(dir, seen.most, p)
                             /\ thr.qty > 0 => p = thr.index
RotationInv == LimitOK /\ OrderInv

CaptureInv == TypeOK /\ UseInv /\ FileInv /\ RotationInv

-----------------------------------------------------------------------------
(* Sequences of messages.                                                  *)

\* Appending adds one element.
LEMMA RangeAppend ==
    ASSUME NEW s \in Seq(MsgType), NEW m \in MsgType
    PROVE  /\ Append(s, m) \in Seq(MsgType)
           /\ Range(Append(s, m)) = Range(s) \cup {m}
<1>1. /\ Append(s, m) \in Seq(MsgType)
      /\ DOMAIN Append(s, m) = 1 .. Len(s) + 1
      /\ DOMAIN s = 1 .. Len(s) /\ Len(s) \in Nat
      /\ \A i \in 1 .. Len(s) : Append(s, m)[i] = s[i]
      /\ Append(s, m)[Len(s) + 1] = m
  OBVIOUS
<1>2. ASSUME NEW x \in Range(Append(s, m)) PROVE x \in Range(s) \cup {m}
  BY <1>1 DEF Range
<1>3. ASSUME NEW x \in Range(s) \cup {m} PROVE x \in Range(Append(s, m))
  <2>1. CASE x = m
    <3>1. Len(s) + 1 \in DOMAIN Append(s, m)
      BY <1>1
    <3>2. QED
      BY <2>1, <3>1, <1>1 DEF Range
  <2>2. CASE x \in Range(s)
    <3>1. PICK i \in 1 .. Len(s) : x = s[i]
      BY <2>2, <1>1 DEF Range
    <3>2. i \in DOMAIN Append(s, m) /\ Append(s, m)[i] = x
      BY <3>1, <1>1
    <3>3. QED
      BY <3>2 DEF Range
  <2>3. QED
    BY <1>3, <2>1, <2>2
<1>4. QED
  BY <1>1, <1>2, <1>3

\* A sequence that is not empty is its head and its tail.
LEMMA RangeTail ==
    ASSUME NEW s \in Seq(MsgType), s # <<>>
    PROVE  /\ Head(s) \in MsgType /\ Tail(s) \in Seq(MsgType)
           /\ Range(s) = {Head(s)} \cup Range(Tail(s))
           /\ Len(Tail(s)) = Len(s) - 1
           /\ \A i \in DOMAIN Tail(s) : i + 1 \in DOMAIN s /\ Tail(s)[i] = s[i + 1]
           /\ 1 \in DOMAIN s /\ s[1] = Head(s)
<1>1. /\ Head(s) \in MsgType /\ Tail(s) \in Seq(MsgType)
      /\ Len(s) \in Nat \ {0} /\ DOMAIN s = 1 .. Len(s)
      /\ Len(Tail(s)) = Len(s) - 1
      /\ DOMAIN Tail(s) = 1 .. Len(s) - 1
      /\ \A i \in 1 .. Len(s) - 1 : Tail(s)[i] = s[i + 1]
      /\ s[1] = Head(s)
  OBVIOUS
<1>2. ASSUME NEW x \in Range(s) PROVE x \in {Head(s)} \cup Range(Tail(s))
  <2>1. PICK i \in 1 .. Len(s) : x = s[i]
    BY <1>1, <1>2 DEF Range
  <2>2. CASE i = 1
    BY <1>1, <2>1, <2>2
  <2>3. CASE i # 1
    <3>1. i - 1 \in DOMAIN Tail(s) /\ Tail(s)[i - 1] = s[i]
      BY <1>1, <2>1, <2>3
    <3>2. QED
      BY <2>1, <3>1 DEF Range
  <2>4. QED
    BY <2>2, <2>3
<1>3. ASSUME NEW x \in {Head(s)} \cup Range(Tail(s)) PROVE x \in Range(s)
  <2>1. CASE x = Head(s)
    <3>1. 1 \in DOMAIN s /\ s[1] = x
      BY <1>1, <2>1
    <3>2. QED
      BY <3>1 DEF Range
  <2>2. CASE x \in Range(Tail(s))
    <3>1. PICK i \in 1 .. Len(s) - 1 : x = Tail(s)[i]
      BY <2>2, <1>1 DEF Range
    <3>2. i + 1 \in DOMAIN s /\ s[i + 1] = x
      BY <3>1, <1>1
    <3>3. QED
      BY <3>2 DEF Range
  <2>3. QED
    BY <1>3, <2>1, <2>2
<1>4. 1 \in DOMAIN s /\ \A i \in DOMAIN Tail(s) : i + 1 \in DOMAIN s /\ Tail(s)[i] = s[i + 1]
  BY <1>1
<1>5. QED
  BY <1>1, <1>2, <1>3, <1>4

\* A message that is pushed is one of the call; the others of it are left.
LEMMA Pushed ==
    ASSUME q \in Seq(MsgType), NEW todo \in Seq(MsgType), todo # <<>>, Push(todo)
    PROVE  /\ Head(todo) \in MsgType
           /\ q' \in Seq(MsgType) /\ call' \in CallType
           /\ Pending' = Range(q) \cup Range(todo)
           /\ Range(q') = Range(q) \cup {Head(todo)}
           /\ Range(call'.todo) = Range(Tail(todo))
           /\ call'.waits <=> Head(todo).type # "start"
           /\ Len(q') = Len(q) + 1 /\ Len(q) \in Nat
           /\ \A i \in 1 .. Len(q) : q'[i] = q[i]
           /\ q'[Len(q) + 1] = Head(todo)
<1>1. /\ Head(todo) \in MsgType /\ Tail(todo) \in Seq(MsgType)
      /\ Range(todo) = {Head(todo)} \cup Range(Tail(todo))
  BY RangeTail
<1>2. Append(q, Head(todo)) \in Seq(MsgType)
      /\ Range(Append(q, Head(todo))) = Range(q) \cup {Head(todo)}
  BY <1>1, RangeAppend
<1>3. /\ q' = Append(q, Head(todo))
      /\ call'.todo = Tail(todo) /\ (call'.waits <=> Head(todo).type # "start")
      /\ call' \in CallType
  BY <1>1 DEF Push, CallType
<1>4. Len(q) \in Nat /\ Len(q') = Len(q) + 1
      /\ (\A i \in 1 .. Len(q) : q'[i] = q[i]) /\ q'[Len(q) + 1] = Head(todo)
  BY <1>1, <1>3
<1>5. QED
  BY <1>1, <1>2, <1>3, <1>4 DEF Pending

\* The main thread takes the message at the head.
LEMMA Taken ==
    ASSUME q \in Seq(MsgType), q # <<>>, Take
    PROVE  /\ Head(q) \in MsgType /\ q' \in Seq(MsgType)
           /\ Head(q) \in Range(q) /\ Range(q) = {Head(q)} \cup Range(q')
           /\ Len(q') = Len(q) - 1 /\ Len(q) \in Nat
           /\ \A i \in DOMAIN q' : i + 1 \in DOMAIN q /\ q'[i] = q[i + 1]
           /\ 1 \in DOMAIN q /\ q[1] = Head(q)
<1>1. Len(q) \in Nat
  OBVIOUS
<1>2. QED
  BY <1>1, RangeTail DEF Take

-----------------------------------------------------------------------------
(* Messages: what is sent is well formed, and the queue keeps its shape.   *)

\* Between two calls the queue holds nothing but starts.
LEMMA Waiting ==
    ASSUME MessagesOK, QueueShape, Idle
    PROVE  /\ Pending = Range(q) /\ \A m \in Pending : m.type = "start"
           /\ call.todo = <<>> /\ ~call.waits
<1>1. call.todo = <<>> /\ ~call.waits
  BY DEF Idle, NoCall
<1>2. Range(call.todo) = {}
  BY <1>1 DEF Range
<1>3. ASSUME NEW m \in Range(q) PROVE m.type = "start"
  <2>1. PICK i \in DOMAIN q : q[i] = m
    BY <1>3 DEF Range
  <2>2. QED
    BY <2>1, <1>1 DEF QueueShape
<1>4. QED
  BY <1>1, <1>2, <1>3 DEF Pending

\* The same while a call has not sent all of its messages.
LEMMA Sending ==
    ASSUME MessagesOK, QueueShape, ~call.waits
    PROVE  \A m \in Range(q) : m.type = "start"
<1>1. TAKE m \in Range(q)
<1>2. PICK i \in DOMAIN q : q[i] = m
  BY DEF Range
<1>3. QED
  BY <1>2 DEF QueueShape

\* A call sends its next message when the one before has been handled.
LEMMA PushMessages ==
    ASSUME MessagesOK, QueueShape, seen' = seen,
           NEW todo \in Seq(MsgType), todo # <<>>, Push(todo),
           \A m \in Range(todo) : m.type \in {"start", "stop"} => m.g \in Groups,
           \A m \in Range(Tail(todo)) : m.type \notin {"start", "captureStart"},
           \A m \in Range(q) : m.type = "start",
           Head(todo).type = "start" => \A m \in Range(q) : m.g # Head(todo).g
    PROVE  MessagesOK' /\ QueueShape'
<1> q \in Seq(MsgType)
  BY DEF MessagesOK
<1> USE Pushed
<1>1. MessagesOK'
  <2>1. q' \in Seq(MsgType) /\ call' \in CallType /\ seen' \in SeenType
    BY DEF MessagesOK, SeenType
  <2>2. \A m \in Pending' : m.type \in {"start", "stop"} => m.g \in Groups
    BY DEF MessagesOK, Pending
  <2>3. \A m \in Range(call'.todo) : m.type \notin {"start", "captureStart"}
    OBVIOUS
  <2>4. QED
    BY <2>1, <2>2, <2>3 DEF MessagesOK
<1>2. DOMAIN q' = 1 .. Len(q) + 1 /\ DOMAIN q = 1 .. Len(q)
  OBVIOUS
<1>3. \A i \in 1 .. Len(q) : q'[i] \in Range(q)
  BY <1>2 DEF Range
<1>4. ASSUME NEW i \in DOMAIN q', q'[i].type # "start"
      PROVE  i = Len(q') /\ call'.waits
  BY <1>2, <1>3, <1>4
<1>5. ASSUME NEW i \in DOMAIN q', NEW j \in DOMAIN q',
             q'[i].type = "start", q'[j].type = "start", q'[i].g = q'[j].g
      PROVE  i = j
  <2>1. CASE i \in 1 .. Len(q) /\ j \in 1 .. Len(q)
    BY <1>2, <1>5, <2>1 DEF QueueShape
  <2>2. CASE i = Len(q) + 1 /\ j \in 1 .. Len(q)
    BY <1>3, <1>5, <2>2
  <2>3. CASE j = Len(q) + 1 /\ i \in 1 .. Len(q)
    BY <1>3, <1>5, <2>3
  <2>4. QED
    BY <1>2, <2>1, <2>2, <2>3
<1>6. QED
  BY <1>1, <1>4, <1>5 DEF QueueShape

\* The main thread handles a message; one that is waited for was the last.
LEMMA TakeMessages ==
    ASSUME MessagesOK, QueueShape, q # <<>>, Take,
           seen' \in SeenType, call' \in CallType, call'.todo = call.todo,
           call' = call \/ Head(q).type # "start"
    PROVE  /\ MessagesOK' /\ QueueShape'
           /\ Pending = {Head(q)} \cup Pending'
           /\ Head(q) \in MsgType /\ Head(q) \in Range(q)
           /\ Head(q).type \in {"start", "stop"} => Head(q).g \in Groups
           /\ Range(q') \subseteq Range(q)
           /\ Head(q).type # "start" => Range(q') = {}
           /\ Head(q).type = "start" =>
                 \A m \in Range(q') : m.type = "start" => m.g # Head(q).g
<1> q \in Seq(MsgType)
  BY DEF MessagesOK
<1> USE Taken
<1>1. Pending = {Head(q)} \cup Pending' /\ Range(q') \subseteq Range(q)
  BY DEF Pending
<1>2. MessagesOK'
  BY <1>1 DEF MessagesOK
<1>3. DOMAIN q' = 1 .. Len(q) - 1 /\ DOMAIN q = 1 .. Len(q)
  OBVIOUS
<1>4. Head(q).type # "start" => Len(q) = 1
  BY DEF QueueShape
<1>5. Head(q).type # "start" => Range(q') = {}
  BY <1>3, <1>4 DEF Range
<1>6. ASSUME NEW i \in DOMAIN q', q'[i].type # "start"
      PROVE  i = Len(q') /\ call'.waits
  <2>1. i + 1 = Len(q) /\ call.waits
    BY <1>6, <1>3 DEF QueueShape
  <2>2. Head(q).type = "start"
    BY <1>3, <1>4
  <2>3. QED
    BY <2>1, <2>2
<1>7. ASSUME NEW i \in DOMAIN q', NEW j \in DOMAIN q',
             q'[i].type = "start", q'[j].type = "start", q'[i].g = q'[j].g
      PROVE  i = j
  <2>1. i + 1 = j + 1
    BY <1>7 DEF QueueShape
  <2>2. QED
    BY <2>1, <1>3
<1>8. ASSUME NEW m \in Range(q'), Head(q).type = "start", m.type = "start", m.g = Head(q).g
      PROVE  FALSE
  <2>1. PICK i \in DOMAIN q' : q'[i] = m
    BY DEF Range
  <2>2. i + 1 = 1
    BY <2>1, <1>8 DEF QueueShape
  <2>3. QED
    BY <2>2, <1>3
<1>9. Head(q).type \in {"start", "stop"} => Head(q).g \in Groups
  BY <1>1 DEF MessagesOK
<1>10. QED
  BY <1>1, <1>2, <1>5, <1>6, <1>7, <1>8, <1>9 DEF QueueShape

-----------------------------------------------------------------------------
(* The passes over the captures of a recording, one file after the other.  *)

FileType == [time : 0 .. MaxClock, wave : BOOLEAN, st : {"none", "open", "closed", "cut"}]
New(wave) == [time |-> clock, wave |-> wave, st |-> "open"]
NewNative(kind) == New(kind = "pcm")
NewWave == New(TRUE)
\* The instance after the file of index i has been deleted.
Bereft(r, i) == [r EXCEPT !.native  = IF @ = i THEN Unlinked ELSE @,
                          !.decoded = IF @ = i THEN Unlinked ELSE @]

\* The largest limit is one, and bounds the others.
LEMMA MostLimit == /\ Most \in Qtys /\ Most \in Nat \ {0} /\ \A n \in Qtys : n <= Most
                   /\ \A n \in Qtys : n \in Nat \ {0}
                   /\ 0 \in Indexes /\ Indexes \subseteq Nat
<1>1. Most \in Qtys /\ \A n \in Qtys : n <= Most
  BY CaptureAssumption DEF Most
<1>2. \A n \in Qtys : n \in Nat \ {0}
  BY CaptureAssumption
<1>3. QED
  BY <1>1, <1>2 DEF Indexes

\* A handle that loses its file is that of a deleted one.
LEMMA BereftType ==
    ASSUME NEW r \in InstType, NEW i \in Indexes
    PROVE  /\ Bereft(r, i) \in InstType
           /\ Bereft(r, i).raw = r.raw /\ Bereft(r, i).active = r.active
           /\ Bereft(r, i).two = r.two
           /\ Bereft(r, i).native = IF r.native = i THEN Unlinked ELSE r.native
           /\ Bereft(r, i).decoded = IF r.decoded = i THEN Unlinked ELSE r.decoded
BY DEF Bereft, InstType, HandleType

\* The instance g whose file of index i has been deleted gets another handle.
SetNative(is, i, g, h) == [Unlink(is, i) EXCEPT ![g].native = h]
SetDecoded(is, i, g, h) == [Unlink(is, i) EXCEPT ![g].decoded = h]
\* The instances after the file of index i has been deleted.
LEMMA UnlinkIs ==
    ASSUME NEW is \in [Groups -> InstType], NEW i \in Indexes
    PROVE  /\ Unlink(is, i) \in [Groups -> InstType]
           /\ \A h \in Groups : Unlink(is, i)[h] = Bereft(is[h], i)
<1>1. Unlink(is, i) = [h \in Groups |-> Bereft(is[h], i)]
  BY DEF Unlink, Bereft
<1>2. QED
  BY <1>1, BereftType
\* An instance gets another native handle; the others lose that of index i.
LEMMA SetNativeIs ==
    ASSUME NEW is \in [Groups -> InstType], NEW i \in Indexes, NEW g \in Groups,
           NEW h0 \in HandleType
    PROVE  LET t == SetNative(is, i, g, h0)
           IN  /\ t \in [Groups -> InstType]
               /\ \A h \in Groups \ {g} : t[h] = Bereft(is[h], i)
               /\ t[g].raw = is[g].raw /\ t[g].active = is[g].active
               /\ t[g].two = is[g].two /\ t[g].native = h0
               /\ t[g].decoded = IF is[g].decoded = i THEN Unlinked ELSE is[g].decoded
<1> DEFINE u == Unlink(is, i)
           v == [u[g] EXCEPT !.native = h0]
           t == SetNative(is, i, g, h0)
<1>1. u \in [Groups -> InstType] /\ \A h \in Groups : u[h] = Bereft(is[h], i)
  BY UnlinkIs
<1>2. t = [u EXCEPT ![g] = v]
  BY DEF SetNative
<1> HIDE DEF u, t
<1>3. u[g] \in InstType /\ u[g] = Bereft(is[g], i) /\ is[g] \in InstType
  BY <1>1
<1>4. /\ v \in InstType
      /\ v.raw = u[g].raw /\ v.active = u[g].active /\ v.two = u[g].two
      /\ v.native = h0 /\ v.decoded = u[g].decoded
  BY <1>3 DEF InstType
<1> HIDE DEF v
<1>5. t \in [Groups -> InstType] /\ t[g] = v /\ \A h \in Groups \ {g} : t[h] = u[h]
  BY <1>1, <1>2, <1>4
<1>6. QED
  BY <1>1, <1>3, <1>4, <1>5, BereftType DEF t
\* And another decoded handle.
LEMMA SetDecodedIs ==
    ASSUME NEW is \in [Groups -> InstType], NEW i \in Indexes, NEW g \in Groups,
           NEW h0 \in HandleType
    PROVE  LET t == SetDecoded(is, i, g, h0)
           IN  /\ t \in [Groups -> InstType]
               /\ \A h \in Groups \ {g} : t[h] = Bereft(is[h], i)
               /\ t[g].raw = is[g].raw /\ t[g].active = is[g].active
               /\ t[g].two = is[g].two /\ t[g].decoded = h0
               /\ t[g].native = IF is[g].native = i THEN Unlinked ELSE is[g].native
<1> DEFINE u == Unlink(is, i)
           v == [u[g] EXCEPT !.decoded = h0]
           t == SetDecoded(is, i, g, h0)
<1>1. u \in [Groups -> InstType] /\ \A h \in Groups : u[h] = Bereft(is[h], i)
  BY UnlinkIs
<1>2. t = [u EXCEPT ![g] = v]
  BY DEF SetDecoded
<1> HIDE DEF u, t
<1>3. u[g] \in InstType /\ u[g] = Bereft(is[g], i) /\ is[g] \in InstType
  BY <1>1
<1>4. /\ v \in InstType
      /\ v.raw = u[g].raw /\ v.active = u[g].active /\ v.two = u[g].two
      /\ v.decoded = h0 /\ v.native = u[g].native
  BY <1>3 DEF InstType
<1> HIDE DEF v
<1>5. t \in [Groups -> InstType] /\ t[g] = v /\ \A h \in Groups \ {g} : t[h] = u[h]
  BY <1>1, <1>2, <1>4
<1>6. QED
  BY <1>1, <1>3, <1>4, <1>5, BereftType DEF t

\* The rotation stays below the largest limit.
LEMMA WrapType ==
    ASSUME TypeOK, thr.qty > 0, NEW i \in 0 .. Most - 1
    PROVE  /\ i \in Indexes /\ Wrap(i + 1) \in 0 .. Most - 1 /\ Wrap(i + 1) \in Indexes
           /\ thr.index \in 0 .. Most - 1 /\ thr.qty \in Qtys /\ thr.qty <= Most
<1>1. thr \in [qty : {0} \cup Qtys, index : 0 .. Most - 1]
  BY DEF TypeOK
<1>2. thr.qty \in Qtys /\ thr.index \in 0 .. Most - 1
  BY <1>1
<1>3. thr.qty <= Most /\ thr.qty \in Nat /\ Most \in Nat
  BY <1>2, MostLimit
<1>4. QED
  BY <1>2, <1>3 DEF Wrap, Indexes

\* The instance of a recording that begins.
Prepared(r, kind, raw, fails) ==
    [[[r EXCEPT !.raw = raw] EXCEPT !.two = kind = "decoded"] EXCEPT !.active = fails = 0]
Prepares(g, kind, raw, fails) ==
    [inst EXCEPT ![g].raw = raw, ![g].two = kind = "decoded", ![g].active = fails = 0]
\* The flags are set, the handles are left.
LEMMA PreparedIs ==
    ASSUME NEW r \in InstType, NEW kind, NEW raw \in BOOLEAN, NEW fails
    PROVE  LET x == Prepared(r, kind, raw, fails)
           IN  /\ x \in InstType /\ x.raw = raw
               /\ (x.two <=> kind = "decoded") /\ (x.active <=> fails = 0)
               /\ x.native = r.native /\ x.decoded = r.decoded
BY DEF Prepared, InstType
\* The same among the instances of all groups.
LEMMA PreparesIs ==
    ASSUME TypeOK, NEW g \in Groups, NEW kind, NEW raw \in BOOLEAN, NEW fails
    PROVE  LET is == Prepares(g, kind, raw, fails)
           IN  /\ is \in [Groups -> InstType]
               /\ \A h \in Groups \ {g} : is[h] = inst[h]
               /\ is[g].raw = raw
               /\ (is[g].two <=> kind = "decoded") /\ (is[g].active <=> fails = 0)
               /\ is[g].native = inst[g].native /\ is[g].decoded = inst[g].decoded
<1> DEFINE r == Prepared(inst[g], kind, raw, fails)
           is == Prepares(g, kind, raw, fails)
<1>1. inst \in [Groups -> InstType] /\ inst[g] \in InstType
  BY DEF TypeOK
<1>2. is = [inst EXCEPT ![g] = r]
  BY <1>1 DEF Prepared, Prepares
<1>3. /\ r \in InstType /\ r.raw = raw
      /\ (r.two <=> kind = "decoded") /\ (r.active <=> fails = 0)
      /\ r.native = inst[g].native /\ r.decoded = inst[g].decoded
  BY <1>1, PreparedIs
<1> HIDE DEF r, is
<1>4. is \in [Groups -> InstType] /\ is[g] = r /\ \A h \in Groups \ {g} : is[h] = inst[h]
  BY <1>1, <1>2, <1>3
<1>5. QED
  BY <1>3, <1>4 DEF is

\* The passes with their outcomes: the first capture is the native one.
State(d, i, is) == [dir |-> d, index |-> i, inst |-> is]
MakeFirst(s, g, kind) == Make(s, g, FALSE, NativeIsWave(kind), TRUE)
MissFirst(s, g, kind) == Make(s, g, FALSE, NativeIsWave(kind), FALSE)
MakeSecond(s, g) == Make(s, g, TRUE, TRUE, TRUE)
MissSecond(s, g) == Make(s, g, TRUE, TRUE, FALSE)
Put(d, i, f) == [d EXCEPT ![i] = f]
\* A file takes one index of a directory.
LEMMA PutIs ==
    ASSUME NEW d \in [Indexes -> FileType], NEW i \in Indexes, NEW f \in FileType
    PROVE  /\ Put(d, i, f) \in [Indexes -> FileType] /\ Put(d, i, f)[i] = f
           /\ \A j \in Indexes \ {i} : Put(d, i, f)[j] = d[j]
BY DEF Put
\* The first pass, with its file and without.
LEMMA FirstsAre ==
    ASSUME NEW d, NEW i, NEW is, NEW g, NEW kind
    PROVE  /\ MakeFirst(State(d, i, is), g, kind)
                = State(Put(d, i, NewNative(kind)), Wrap(i + 1), SetNative(is, i, g, i))
           /\ MissFirst(State(d, i, is), g, kind)
                = State(Put(d, i, NoFile), i, SetNative(is, i, g, Null))
<1>1. MakeFirst(State(d, i, is), g, kind)
         = State(Put(d, i, NewNative(kind)), Wrap(i + 1), SetNative(is, i, g, i))
  BY DEF MakeFirst, Make, State, NewNative, New, NativeIsWave, Set, SetNative, Put
<1>2. MissFirst(State(d, i, is), g, kind)
         = State(Put(d, i, NoFile), i, SetNative(is, i, g, Null))
  BY DEF MissFirst, Make, State, Set, SetNative, Put
<1>3. QED
  BY <1>1, <1>2
\* The second pass, with its file and without.
LEMMA SecondsAre ==
    ASSUME NEW d, NEW i, NEW is, NEW g
    PROVE  /\ MakeSecond(State(d, i, is), g)
                = State(Put(d, i, NewWave), Wrap(i + 1), SetDecoded(is, i, g, i))
           /\ MissSecond(State(d, i, is), g)
                = State(Put(d, i, NoFile), i, SetDecoded(is, i, g, Null))
<1>1. MakeSecond(State(d, i, is), g)
         = State(Put(d, i, NewWave), Wrap(i + 1), SetDecoded(is, i, g, i))
  BY DEF MakeSecond, Make, State, New, NewWave, Set, SetDecoded, Put
<1>2. MissSecond(State(d, i, is), g)
         = State(Put(d, i, NoFile), i, SetDecoded(is, i, g, Null))
  BY DEF MissSecond, Make, State, Set, SetDecoded, Put
<1>3. QED
  BY <1>1, <1>2
\* What the passes carry from one to the next.
LEMMA StateFields ==
    ASSUME NEW d, NEW i, NEW is
    PROVE  State(d, i, is).dir = d /\ State(d, i, is).index = i /\ State(d, i, is).inst = is
BY DEF State

\* The passes of a recording, by the one that fails.
LEMMA PassesCases ==
    ASSUME NEW g, NEW kind, NEW raw, NEW fails \in {0, 1, 2}
    PROVE  LET is == Prepares(g, kind, raw, fails)
               s0 == State(dir, thr.index, is)
               s1 == MakeFirst(s0, g, kind)
           IN  Passes(g, kind, raw, fails) =
                 IF fails = 1 THEN MissFirst(s0, g, kind)
                 ELSE IF kind # "decoded" THEN s1
                 ELSE IF fails = 0 THEN MakeSecond(s1, g)
                 ELSE MissSecond(s1, g)
<1> DEFINE is == Prepares(g, kind, raw, fails)
           s0 == State(dir, thr.index, is)
           n(ok) == Make(s0, g, FALSE, NativeIsWave(kind), ok)
           m(ok) == Make(n(fails # 1), g, TRUE, TRUE, ok)
<1>1. Passes(g, kind, raw, fails) =
         IF kind = "decoded" /\ fails # 1 THEN m(fails # 2) ELSE n(fails # 1)
  BY DEF Passes, Prepares, State
<1>2. /\ MissFirst(s0, g, kind) = n(FALSE) /\ MakeFirst(s0, g, kind) = n(TRUE)
      /\ MakeSecond(n(TRUE), g) = Make(n(TRUE), g, TRUE, TRUE, TRUE)
      /\ MissSecond(n(TRUE), g) = Make(n(TRUE), g, TRUE, TRUE, FALSE)
  BY DEF MissFirst, MakeFirst, MakeSecond, MissSecond
<1>3. CASE fails = 1
  <2>1. (fails # 1) = FALSE
    BY <1>3
  <2>2. Passes(g, kind, raw, fails) = n(fails # 1)
    BY <1>1, <1>3
  <2>3. n(fails # 1) = n(FALSE)
    BY <2>1, Zenon
  <2>4. QED
    BY <1>2, <1>3, <2>2, <2>3
<1>4. CASE fails # 1
  <2>1. (fails # 1) = TRUE
    BY <1>4
  <2>2. n(fails # 1) = n(TRUE)
    BY <2>1, Zenon
  <2>3. CASE kind # "decoded"
    BY <1>1, <1>2, <1>4, <2>2, <2>3
  <2>4. CASE kind = "decoded" /\ fails = 0
    <3>1. (fails # 2) = TRUE
      BY <2>4
    <3>2. m(fails # 2) = Make(n(TRUE), g, TRUE, TRUE, TRUE)
      BY <2>2, <3>1, Zenon
    <3>3. Passes(g, kind, raw, fails) = m(fails # 2)
      BY <1>1, <1>4, <2>4
    <3>4. fails # 1 /\ ~(kind # "decoded")
      BY <2>4
    <3>5. QED
      BY <1>2, <2>4, <3>2, <3>3, <3>4, Zenon
  <2>5. CASE kind = "decoded" /\ fails = 2
    <3>1. (fails # 2) = FALSE
      BY <2>5
    <3>2. m(fails # 2) = Make(n(TRUE), g, TRUE, TRUE, FALSE)
      BY <2>2, <3>1, Zenon
    <3>3. Passes(g, kind, raw, fails) = m(fails # 2)
      BY <1>1, <1>4, <2>5
    <3>4. fails # 1 /\ fails # 0 /\ ~(kind # "decoded")
      BY <2>5
    <3>5. QED
      BY <1>2, <3>2, <3>3, <3>4, Zenon
  <2>6. QED
    BY <1>4, <2>3, <2>4, <2>5
<1>5. QED
  BY <1>3, <1>4

\* The closing of no file changes nothing, and without a header only a wave
\* file is cut.
LEMMA ClosedNone ==
    ASSUME NEW d \in [Indexes -> FileType]
    PROVE  Closed(d, {}, FALSE) = d
BY DEF Closed
CutOff(d, hs) == Closed(d, hs, FALSE)
\* The files of some handles are closed without a header.
LEMMA ClosedCut ==
    ASSUME NEW d \in [Indexes -> FileType], NEW hs, clock \in 0 .. MaxClock
    PROVE  /\ CutOff(d, hs) \in [Indexes -> FileType]
           /\ \A i \in Indexes \ hs : CutOff(d, hs)[i] = d[i]
           /\ \A i \in Indexes \cap hs : CutOff(d, hs)[i] =
                 [time |-> clock, wave |-> FALSE, st |-> IF d[i].wave THEN "cut" ELSE "closed"]
BY DEF Closed, CutOff, FileType

\* With its header every file is whole.
Whole == [time |-> clock, wave |-> FALSE, st |-> "closed"]
Finish(d, hs) == Closed(d, hs, TRUE)
\* The same for the files of some handles.
LEMMA ClosedWhole ==
    ASSUME NEW d \in [Indexes -> FileType], NEW hs, clock \in 0 .. MaxClock
    PROVE  /\ Finish(d, hs) \in [Indexes -> FileType]
           /\ \A i \in Indexes \ hs : Finish(d, hs)[i] = d[i]
           /\ \A i \in Indexes \cap hs : Finish(d, hs)[i] = Whole
BY DEF Closed, Finish, FileType, Whole

\* A file that has just been made.
LEMMA NewIs ==
    ASSUME clock \in 0 .. MaxClock, NEW kind
    PROVE  /\ NewNative(kind) \in FileType /\ NewWave \in FileType /\ NoFile \in FileType
           /\ NewNative(kind).st = "open" /\ NewNative(kind).time = clock
           /\ NewNative(kind).wave <=> kind = "pcm"
           /\ NewWave.st = "open" /\ NewWave.time = clock
<1>1. NoFile \in FileType
  BY CaptureAssumption DEF NoFile, FileType
<1>2. QED
  BY <1>1 DEF NewNative, NewWave, New, FileType
\* An instance that is shut keeps its flags and no open file.
LEMMA ShutIs ==
    ASSUME NEW r \in InstType
    PROVE  /\ Shut(r) \in InstType
           /\ Shut(r).raw = r.raw /\ Shut(r).active = r.active /\ Shut(r).two = r.two
           /\ Shut(r).native = IF r.native = Null THEN Null ELSE Stale
           /\ Shut(r).decoded = IF ~r.two \/ r.decoded = Null THEN r.decoded ELSE Stale
BY DEF Shut, InstType, HandleType

\* What the passes leave, by the one that fails.
PassesLeave(s, g, kind, raw, fails, a, b) ==
    LET two  == kind = "decoded"
        d1   == Put(dir, a, NewNative(kind))
        gone(h) == IF two /\ fails # 1 THEN Bereft(Bereft(inst[h], a), b)
                   ELSE Bereft(inst[h], a)
    IN  /\ s.dir \in [Indexes -> FileType] /\ s.inst \in [Groups -> InstType]
        /\ s.inst[g].raw = raw /\ (s.inst[g].two <=> two)
        /\ (s.inst[g].active <=> fails = 0)
        /\ \A h \in Groups \ {g} : s.inst[h] = gone(h)
        /\ fails = 1 => /\ s.dir = Put(dir, a, NoFile) /\ s.index = a
                        /\ s.inst[g].native = Null /\ s.inst[g].decoded = Null
        /\ fails # 1 /\ ~two => /\ s.dir = d1 /\ s.index = b
                                /\ s.inst[g].native = a /\ s.inst[g].decoded = Null
        /\ fails # 1 /\ two => s.inst[g].native = IF a = b THEN Unlinked ELSE a
        /\ fails = 0 /\ two => /\ s.dir = Put(d1, b, NewWave)
                               /\ s.index = Wrap(b + 1) /\ s.inst[g].decoded = b
        /\ fails = 2 /\ two => /\ s.dir = Put(d1, b, NoFile)
                               /\ s.index = b /\ s.inst[g].decoded = Null
\* Both passes, from the state of the main thread.
LEMMA PassesResult ==
    ASSUME TypeOK, HandlesOK, thr.qty > 0,
           NEW g \in Groups, NEW kind, NEW raw \in BOOLEAN, NEW fails \in {0, 1, 2},
           ~inst[g].active,
           NEW a, a = thr.index, NEW b, b = Wrap(a + 1),
           NEW s, s = Passes(g, kind, raw, fails)
    PROVE  PassesLeave(s, g, kind, raw, fails, a, b)
<1>1. /\ dir \in [Indexes -> FileType] /\ clock \in 0 .. MaxClock
      /\ inst \in [Groups -> InstType]
      /\ a \in Indexes /\ b \in Indexes
      /\ inst[g].native \in {Null, Stale} /\ inst[g].decoded = Null
  <2>1. dir \in [Indexes -> FileType] /\ clock \in 0 .. MaxClock /\ inst \in [Groups -> InstType]
    BY DEF TypeOK, FileType
  <2>2. a \in 0 .. Most - 1
    BY WrapType, MostLimit
  <2>3. a \in Indexes /\ b \in Indexes
    BY <2>2, WrapType
  <2>4. inst[g].native \in {Null, Stale} /\ inst[g].decoded = Null
    BY DEF HandlesOK, HandleOK
  <2>5. QED
    BY <2>1, <2>3, <2>4
<1>2. /\ Null \notin Indexes /\ Null # a /\ Null # b /\ Stale # a /\ Stale # b
      /\ Null \in HandleType /\ a \in HandleType /\ b \in HandleType
  BY <1>1, MostLimit DEF Null, Stale, Unlinked, Indexes, HandleType
<1> DEFINE is == Prepares(g, kind, raw, fails)
           d1 == Put(dir, a, NewNative(kind))
           t0 == SetNative(is, a, g, Null)
           t1 == SetNative(is, a, g, a)
           t2 == SetDecoded(t1, b, g, b)
           t3 == SetDecoded(t1, b, g, Null)
<1>30. /\ is \in [Groups -> InstType]
       /\ \A h \in Groups \ {g} : is[h] = inst[h]
       /\ is[g].raw = raw
       /\ (is[g].two <=> kind = "decoded") /\ (is[g].active <=> fails = 0)
       /\ is[g].native = inst[g].native /\ is[g].decoded = inst[g].decoded
  BY PreparesIs
<1> HIDE DEF is, d1, t0, t1, t2, t3
<1> DEFINE s0 == State(dir, a, is)
<1> DEFINE s1 == MakeFirst(s0, g, kind)
<1>3. /\ is \in [Groups -> InstType] /\ \A h \in Groups \ {g} : is[h] = inst[h]
      /\ is[g].raw = raw
      /\ (is[g].two <=> kind = "decoded") /\ (is[g].active <=> fails = 0)
      /\ is[g].decoded = Null
  BY <1>1, <1>30
<1>31. s = IF fails = 1 THEN MissFirst(s0, g, kind)
           ELSE IF kind # "decoded" THEN s1
           ELSE IF fails = 0 THEN MakeSecond(s1, g)
           ELSE MissSecond(s1, g)
  BY PassesCases DEF is
<1>32. MakeFirst(State(dir, a, is), g, kind) = State(Put(dir, a, NewNative(kind)), Wrap(a + 1), SetNative(is, a, g, a))
  BY FirstsAre
<1>33. MissFirst(s0, g, kind) = State(Put(dir, a, NoFile), a, t0)
  BY FirstsAre DEF t0
<1>34. s1 = State(d1, b, t1)
  BY <1>32 DEF d1, t1
<1> HIDE DEF s0, s1
<1>35. MakeSecond(State(d1, b, t1), g) = State(Put(d1, b, NewWave), Wrap(b + 1), SetDecoded(t1, b, g, b))
  BY SecondsAre
<1>36. MissSecond(State(d1, b, t1), g) = State(Put(d1, b, NoFile), b, SetDecoded(t1, b, g, Null))
  BY SecondsAre
<1>37. /\ MakeSecond(s1, g) = State(Put(d1, b, NewWave), Wrap(b + 1), t2)
       /\ MissSecond(s1, g) = State(Put(d1, b, NoFile), b, t3)
  BY <1>34, <1>35, <1>36 DEF t2, t3
<1>9. /\ t0 \in [Groups -> InstType] /\ \A h \in Groups \ {g} : t0[h] = Bereft(is[h], a)
      /\ t0[g].raw = is[g].raw /\ t0[g].active = is[g].active /\ t0[g].two = is[g].two
      /\ t0[g].native = Null /\ t0[g].decoded = Null
  BY <1>1, <1>2, <1>3, SetNativeIs DEF t0
<1>10. /\ t1 \in [Groups -> InstType] /\ \A h \in Groups \ {g} : t1[h] = Bereft(is[h], a)
       /\ t1[g].raw = is[g].raw /\ t1[g].active = is[g].active /\ t1[g].two = is[g].two
       /\ t1[g].native = a /\ t1[g].decoded = Null
  BY <1>1, <1>2, <1>3, SetNativeIs DEF t1
<1>11. /\ t2 \in [Groups -> InstType] /\ \A h \in Groups \ {g} : t2[h] = Bereft(t1[h], b)
       /\ t2[g].raw = t1[g].raw /\ t2[g].active = t1[g].active /\ t2[g].two = t1[g].two
       /\ t2[g].native = (IF a = b THEN Unlinked ELSE a) /\ t2[g].decoded = b
  BY <1>1, <1>2, <1>10, SetDecodedIs DEF t2
<1>12. /\ t3 \in [Groups -> InstType] /\ \A h \in Groups \ {g} : t3[h] = Bereft(t1[h], b)
       /\ t3[g].raw = t1[g].raw /\ t3[g].active = t1[g].active /\ t3[g].two = t1[g].two
       /\ t3[g].native = (IF a = b THEN Unlinked ELSE a) /\ t3[g].decoded = Null
  BY <1>1, <1>2, <1>10, SetDecodedIs DEF t3
<1>13. /\ d1 \in [Indexes -> FileType] /\ Put(dir, a, NoFile) \in [Indexes -> FileType]
       /\ Put(d1, b, NewWave) \in [Indexes -> FileType]
       /\ Put(d1, b, NoFile) \in [Indexes -> FileType]
  BY <1>1, NewIs, PutIs DEF d1
<1>14. CASE fails = 1
  <2>1. s = State(Put(dir, a, NoFile), a, t0)
    BY <1>31, <1>33, <1>14
  <2>2. s.dir = Put(dir, a, NoFile) /\ s.index = a /\ s.inst = t0
    BY <2>1, StateFields
  <2>3. QED
    BY <1>3, <1>9, <1>13, <1>14, <2>2 DEF PassesLeave
<1>15. CASE fails # 1 /\ kind # "decoded"
  <2>1. s = State(d1, b, t1)
    BY <1>31, <1>34, <1>15
  <2>2. s.dir = d1 /\ s.index = b /\ s.inst = t1
    BY <2>1, StateFields
  <2>3. QED
    BY <1>3, <1>10, <1>13, <1>15, <2>2 DEF d1, PassesLeave
<1>16. CASE fails = 0 /\ kind = "decoded"
  <2>1. s = State(Put(d1, b, NewWave), Wrap(b + 1), t2)
    BY <1>31, <1>37, <1>16
  <2>2. s.dir = Put(d1, b, NewWave) /\ s.index = Wrap(b + 1) /\ s.inst = t2
    BY <2>1, StateFields
  <2>3. QED
    BY <1>3, <1>10, <1>11, <1>13, <1>16, <2>2 DEF d1, PassesLeave
<1>17. CASE fails = 2 /\ kind = "decoded"
  <2>1. s = State(Put(d1, b, NoFile), b, t3)
    BY <1>31, <1>37, <1>17
  <2>2. s.dir = Put(d1, b, NoFile) /\ s.index = b /\ s.inst = t3
    BY <2>1, StateFields
  <2>3. QED
    BY <1>3, <1>10, <1>12, <1>13, <1>17, <2>2 DEF d1, PassesLeave
<1>18. QED
  BY <1>14, <1>15, <1>16, <1>17

\* What xraudio_in_capture_internal_input_begin has done at its end: with the
\* files made; with the first missing; with the first closed again since the
\* second is missing.
BegunInst(g, kind, raw, fails, a, b) ==
    LET two  == kind = "decoded"
        r    == inst'[g]
        gone(h) == IF two /\ fails # 1 THEN Bereft(Bereft(inst[h], a), b)
                   ELSE Bereft(inst[h], a)
    IN  /\ inst' \in [Groups -> InstType]
        /\ \A h \in Groups \ {g} : inst'[h] = gone(h)
        /\ r.raw = raw /\ (r.two <=> two) /\ (r.active <=> fails = 0)
        /\ fails = 0 /\ ~two => r.native = a /\ r.decoded = Null
        /\ fails = 0 /\ two  => r.native = (IF a = b THEN Unlinked ELSE a) /\ r.decoded = b
        /\ fails # 0 => r.native \in {Null, Stale} /\ r.decoded = Null
BegunDir(kind, fails, a, b) ==
    LET two == kind = "decoded"
        d1  == Put(dir, a, NewNative(kind))
    IN  /\ dir' \in [Indexes -> FileType]
        /\ fails = 0 /\ ~two => dir' = d1
        /\ fails = 0 /\ two => dir' = Put(d1, b, NewWave)
        /\ fails = 1 => dir' = Put(dir, a, NoFile)
        /\ fails = 2 => /\ \A i \in Indexes \ {a, b} : dir'[i] = dir[i]
                        /\ a # b => dir'[a] = Whole
                        /\ dir'[b] = NoFile
BegunRest(kind, fails, a, b) ==
    /\ thr' = [thr EXCEPT !.index = IF fails = 1 THEN a
                                    ELSE IF kind = "decoded" /\ fails = 0 THEN Wrap(b + 1)
                                    ELSE b]
    /\ seen' \in SeenType
    /\ seen'.most = seen.most /\ seen'.stray = seen.stray
    /\ seen'.orderly <=> seen.orderly /\ fails = 0 /\ StaysOrderly

\* The beginning of a recording in the instance, the directory and the index.
LEMMA Begun ==
    ASSUME TypeOK, HandlesOK, seen \in SeenType, thr.qty > 0,
           NEW g \in Groups, NEW kind, NEW raw \in BOOLEAN, NEW fails \in {0, 1, 2},
           fails = 2 => kind = "decoded",
           ~inst[g].active, Begin(g, kind, raw, fails),
           NEW a, a = thr.index, NEW b, b = Wrap(a + 1)
    PROVE  /\ BegunInst(g, kind, raw, fails, a, b)
           /\ BegunDir(kind, fails, a, b)
           /\ BegunRest(kind, fails, a, b)
<1> DEFINE s == Passes(g, kind, raw, fails)
           shut == IF fails = 0 THEN {} ELSE Handles(s.inst[g])
           d1 == Put(dir, a, NewNative(kind))
<1>1. /\ inst' = IF fails = 0 THEN s.inst ELSE [s.inst EXCEPT ![g] = Shut(s.inst[g])]
      /\ dir' = CutOff(s.dir, shut)
      /\ thr' = [thr EXCEPT !.index = s.index]
  BY DEF Begin, CutOff
<1>2. seen' = [seen EXCEPT !.orderly = seen.orderly /\ fails = 0 /\ StaysOrderly,
                           !.stray = seen.stray \/ Stale \in shut]
  BY DEF Begin
<1>3. PassesLeave(s, g, kind, raw, fails, a, b)
  BY PassesResult
<1>4. /\ a \in Indexes /\ b \in Indexes /\ clock \in 0 .. MaxClock
      /\ Null \notin Indexes /\ Stale \notin Indexes /\ Unlinked \notin Indexes
      /\ Null # Stale /\ Null # Unlinked /\ Stale # Unlinked
  <2>1. a \in 0 .. Most - 1
    BY WrapType, MostLimit
  <2>2. a \in Indexes /\ b \in Indexes
    BY <2>1, WrapType
  <2>3. clock \in 0 .. MaxClock
    BY DEF TypeOK
  <2>4. QED
    BY <2>2, <2>3, MostLimit DEF Null, Stale, Unlinked
<1> HIDE DEF s
<1>5. s.inst \in [Groups -> InstType] /\ s.dir \in [Indexes -> FileType]
      /\ s.inst[g] \in InstType
  BY <1>3 DEF PassesLeave
<1>6. shut = IF fails = 2 THEN {IF a = b THEN Unlinked ELSE a} ELSE {}
  <2>1. CASE fails = 0
    BY <2>1
  <2>2. CASE fails = 1
    BY <1>3, <2>2 DEF PassesLeave, Handles
  <2>3. CASE fails = 2
    <3>1. s.inst[g].native = (IF a = b THEN Unlinked ELSE a) /\ s.inst[g].decoded = Null
      BY <1>3, <2>3 DEF PassesLeave
    <3>2. Handles(s.inst[g]) = {IF a = b THEN Unlinked ELSE a}
      BY <1>4, <3>1 DEF Handles
    <3>3. QED
      BY <2>3, <3>2
  <2>4. QED
    BY <2>1, <2>2, <2>3
<1>7. Stale \notin shut
  BY <1>4, <1>6
<1> HIDE DEF shut
<1>8. BegunInst(g, kind, raw, fails, a, b)
  <2>1. CASE fails = 0
    BY <1>1, <1>3, <2>1 DEF BegunInst, PassesLeave
  <2>2. CASE fails # 0
    <3> DEFINE r == Shut(s.inst[g])
    <3>1. /\ r \in InstType
          /\ r.raw = s.inst[g].raw /\ r.active = s.inst[g].active /\ r.two = s.inst[g].two
          /\ r.native \in {Null, Stale}
          /\ s.inst[g].decoded = Null => r.decoded = Null
      BY <1>5, ShutIs
    <3>2. inst' = [s.inst EXCEPT ![g] = r]
      BY <1>1, <2>2
    <3> HIDE DEF r
    <3>3. /\ inst' \in [Groups -> InstType] /\ inst'[g] = r
          /\ \A h \in Groups \ {g} : inst'[h] = s.inst[h]
      BY <1>5, <3>1, <3>2
    <3>4. s.inst[g].decoded = Null
      BY <1>3, <2>2 DEF PassesLeave
    <3>5. QED
      BY <1>3, <2>2, <3>1, <3>3, <3>4 DEF BegunInst, PassesLeave
  <2>3. QED
    BY <2>1, <2>2
<1>9. BegunDir(kind, fails, a, b)
  <2>1. /\ dir' \in [Indexes -> FileType]
        /\ \A i \in Indexes \ shut : dir'[i] = s.dir[i]
        /\ \A i \in Indexes \cap shut : dir'[i] =
              [time |-> clock, wave |-> FALSE,
               st |-> IF s.dir[i].wave THEN "cut" ELSE "closed"]
    BY <1>1, <1>4, <1>5, ClosedCut
  <2>2. CASE fails # 2
    <3>1. dir' = s.dir
      BY <1>5, <1>6, <2>1, <2>2
    <3>2. QED
      BY <1>3, <2>1, <2>2, <3>1 DEF BegunDir, PassesLeave
  <2>3. CASE fails = 2
    <3>1. s.dir = Put(d1, b, NoFile)
      BY <1>3, <2>3 DEF PassesLeave
    <3>2. /\ NewNative(kind) \in FileType /\ NoFile \in FileType
          /\ ~NewNative(kind).wave
      BY <1>4, <2>3, NewIs
    <3>3. /\ dir \in [Indexes -> FileType]
          /\ d1 \in [Indexes -> FileType] /\ d1[a] = NewNative(kind)
          /\ \A i \in Indexes \ {a} : d1[i] = dir[i]
      <4>1. dir \in [Indexes -> FileType]
        BY DEF TypeOK, FileType
      <4>2. QED
        BY <1>4, <3>2, <4>1, PutIs
    <3> HIDE DEF d1
    <3>4. s.dir[b] = NoFile /\ \A i \in Indexes \ {b} : s.dir[i] = d1[i]
      BY <1>4, <3>1, <3>2, <3>3, PutIs
    <3>5. \A i \in Indexes \ {a, b} : dir'[i] = dir[i]
      BY <1>4, <1>6, <2>1, <2>3, <3>3, <3>4
    <3>6. ASSUME a # b PROVE dir'[a] = Whole
      <4>1. s.dir[a] = NewNative(kind) /\ ~s.dir[a].wave
        BY <1>4, <3>2, <3>3, <3>4, <3>6
      <4>2. a \in Indexes \cap shut
        BY <1>4, <1>6, <2>3, <3>6
      <4>3. dir'[a] = [time |-> clock, wave |-> FALSE,
                       st |-> IF s.dir[a].wave THEN "cut" ELSE "closed"]
        BY <2>1, <4>2
      <4>4. QED
        BY <4>1, <4>3 DEF Whole
    <3>7. dir'[b] = NoFile
      BY <1>4, <1>6, <2>1, <2>3, <3>4
    <3>8. QED
      BY <2>1, <2>3, <3>5, <3>6, <3>7 DEF BegunDir
  <2>4. QED
    BY <2>2, <2>3
<1>10. BegunRest(kind, fails, a, b)
  <2>1. s.index = IF fails = 1 THEN a
                  ELSE IF kind = "decoded" /\ fails = 0 THEN Wrap(b + 1) ELSE b
    BY <1>3 DEF PassesLeave
  <2>2. StaysOrderly \in BOOLEAN
    BY DEF StaysOrderly
  <2>3. /\ seen' \in SeenType /\ seen'.most = seen.most /\ seen'.stray = seen.stray
        /\ seen'.orderly <=> seen.orderly /\ fails = 0 /\ StaysOrderly
    BY <1>2, <1>7, <2>2 DEF SeenType
  <2>4. QED
    BY <1>1, <2>1, <2>3 DEF BegunRest
<1>11. QED
  BY <1>8, <1>9, <1>10

-----------------------------------------------------------------------------
(* What the steps leave of the handles and the files.                      *)

\* The handles are no indexes.
LEMMA NoIndexes ==
    /\ Null \notin Indexes /\ Stale \notin Indexes /\ Unlinked \notin Indexes
    /\ Null # Stale /\ Null # Unlinked /\ Stale # Unlinked
BY MostLimit DEF Null, Stale, Unlinked

\* An instance whose file is deleted keeps its other one.
LEMMA BereftHandles ==
    ASSUME NEW r \in InstType, NEW i \in Indexes, HandleOK(r)
    PROVE  /\ Bereft(r, i) \in InstType /\ HandleOK(Bereft(r, i))
           /\ Bereft(r, i).raw = r.raw /\ Bereft(r, i).active = r.active
           /\ FilesOf(Bereft(r, i)) = FilesOf(r) \ {i}
<1> DEFINE x == Bereft(r, i)
<1>1. /\ x \in InstType
      /\ x.raw = r.raw /\ x.active = r.active /\ x.two = r.two
      /\ x.native = IF r.native = i THEN Unlinked ELSE r.native
      /\ x.decoded = IF r.decoded = i THEN Unlinked ELSE r.decoded
  BY BereftType
<1> HIDE DEF x
<1>2. HandleOK(x)
  BY <1>1, NoIndexes DEF HandleOK
<1>3. FilesOf(x) = FilesOf(r) \ {i}
  BY <1>1, NoIndexes DEF FilesOf, Handles
<1>4. QED
  BY <1>1, <1>2, <1>3 DEF x

\* A recording begins: the files of the indexes in T are its own, or gone.
BegunFiles(g, raw, fails, T) ==
    /\ T \subseteq Indexes
    /\ inst' \in [Groups -> InstType] /\ dir' \in [Indexes -> FileType]
    /\ \A h \in Groups : HandleOK(inst'[h])
    /\ \A h \in Groups \ {g} : /\ inst'[h].raw = inst[h].raw
                               /\ inst'[h].active = inst[h].active
                               /\ FilesOf(inst'[h]) = FilesOf(inst[h]) \ T
    /\ inst'[g].raw = raw /\ (inst'[g].active <=> fails = 0)
    /\ fails = 0 => FilesOf(inst'[g]) = T
    /\ \A i \in Indexes \ T : dir'[i] = dir[i]
    /\ fails = 0 => \A i \in T : dir'[i].st = "open" /\ dir'[i].time = clock
    /\ fails # 0 => \A i \in T : dir'[i] \in {NoFile, Whole}
Touched(kind, fails, a, b) == IF kind = "decoded" /\ fails # 1 THEN {a, b} ELSE {a}
\* The beginning of a recording touches the files of T and no others.
LEMMA BegunTouches ==
    ASSUME TypeOK, HandlesOK, NEW g \in Groups, NEW kind, NEW raw, NEW fails \in {0, 1, 2},
           fails = 2 => kind = "decoded",
           NEW a \in Indexes, NEW b \in Indexes,
           BegunInst(g, kind, raw, fails, a, b), BegunDir(kind, fails, a, b)
    PROVE  BegunFiles(g, raw, fails, Touched(kind, fails, a, b))
<1> DEFINE T == Touched(kind, fails, a, b)
           two == kind = "decoded"
<1>1. /\ inst \in [Groups -> InstType] /\ dir \in [Indexes -> FileType]
      /\ clock \in 0 .. MaxClock
  BY DEF TypeOK, FileType
<1>2. T \subseteq Indexes /\ inst' \in [Groups -> InstType] /\ dir' \in [Indexes -> FileType]
  BY DEF BegunInst, BegunDir, Touched
<1>3. ASSUME NEW h \in Groups \ {g}
      PROVE  /\ HandleOK(inst'[h]) /\ inst'[h].raw = inst[h].raw
             /\ inst'[h].active = inst[h].active
             /\ FilesOf(inst'[h]) = FilesOf(inst[h]) \ T
  <2> DEFINE x == Bereft(inst[h], a)
             y == Bereft(x, b)
  <2>1. inst[h] \in InstType /\ HandleOK(inst[h])
    BY <1>1 DEF HandlesOK
  <2>2. /\ x \in InstType /\ HandleOK(x) /\ x.raw = inst[h].raw /\ x.active = inst[h].active
        /\ FilesOf(x) = FilesOf(inst[h]) \ {a}
    BY <2>1, BereftHandles
  <2> HIDE DEF x
  <2>3. /\ HandleOK(y) /\ y.raw = x.raw /\ y.active = x.active
        /\ FilesOf(y) = FilesOf(x) \ {b}
    BY <2>2, BereftHandles
  <2> HIDE DEF y
  <2>4. inst'[h] = IF two /\ fails # 1 THEN y ELSE x
    BY DEF BegunInst, x, y
  <2>5. CASE two /\ fails # 1
    BY <2>2, <2>3, <2>4, <2>5 DEF Touched
  <2>6. CASE ~(two /\ fails # 1)
    BY <2>2, <2>4, <2>6 DEF Touched
  <2>7. QED
    BY <2>5, <2>6
<1> DEFINE r == inst'[g]
<1>4. /\ r.raw = raw /\ (r.two <=> two) /\ (r.active <=> fails = 0)
      /\ fails = 0 /\ ~two => r.native = a /\ r.decoded = Null
      /\ fails = 0 /\ two  => r.native = (IF a = b THEN Unlinked ELSE a) /\ r.decoded = b
      /\ fails # 0 => r.native \in {Null, Stale} /\ r.decoded = Null
  BY DEF BegunInst
<1> HIDE DEF r
<1>5. HandleOK(r)
  BY <1>4 DEF HandleOK
<1>6. fails = 0 => FilesOf(r) = T
  BY <1>4, NoIndexes DEF FilesOf, Handles, Touched
<1>7. /\ NewNative(kind) \in FileType /\ NewWave \in FileType /\ NoFile \in FileType
      /\ NewNative(kind).st = "open" /\ NewNative(kind).time = clock
      /\ NewWave.st = "open" /\ NewWave.time = clock
  BY <1>1, NewIs
<1> DEFINE d1 == Put(dir, a, NewNative(kind))
           d2 == Put(d1, b, NewWave)
           d0 == Put(dir, a, NoFile)
<1>8. /\ d1 \in [Indexes -> FileType] /\ d1[a] = NewNative(kind)
      /\ \A i \in Indexes \ {a} : d1[i] = dir[i]
      /\ d0[a] = NoFile /\ \A i \in Indexes \ {a} : d0[i] = dir[i]
  BY <1>1, <1>7, PutIs
<1> HIDE DEF d0, d1
<1>9. d2[b] = NewWave /\ \A i \in Indexes \ {b} : d2[i] = d1[i]
  BY <1>7, <1>8, PutIs
<1> HIDE DEF d2
<1>10. /\ fails = 0 /\ ~two => dir' = d1
       /\ fails = 0 /\ two => dir' = d2
       /\ fails = 1 => dir' = d0
       /\ fails = 2 => /\ \A i \in Indexes \ {a, b} : dir'[i] = dir[i]
                       /\ a # b => dir'[a] = Whole
                       /\ dir'[b] = NoFile
  BY DEF BegunDir, d0, d1, d2
<1>11. /\ \A i \in Indexes \ T : dir'[i] = dir[i]
       /\ fails = 0 => \A i \in T : dir'[i].st = "open" /\ dir'[i].time = clock
       /\ fails # 0 => \A i \in T : dir'[i] \in {NoFile, Whole}
  <2>1. CASE fails = 0 /\ ~two
    BY <1>7, <1>8, <1>10, <2>1 DEF Touched
  <2>2. CASE fails = 0 /\ two
    BY <1>7, <1>8, <1>9, <1>10, <2>2 DEF Touched
  <2>3. CASE fails = 1
    BY <1>8, <1>10, <2>3 DEF Touched
  <2>4. CASE fails = 2
    BY <1>10, <2>4 DEF Touched
  <2>5. QED
    BY <2>1, <2>2, <2>3, <2>4
<1>12. \A h \in Groups : HandleOK(inst'[h])
  BY <1>3, <1>5 DEF r
<1> HIDE DEF T
<1>13. QED
  BY <1>2, <1>3, <1>4, <1>6, <1>11, <1>12 DEF BegunFiles, r, T

\* A recording ends: its files are whole, and nobody else's are touched.
EndedFiles(g, raw) ==
    /\ inst' \in [Groups -> InstType] /\ dir' \in [Indexes -> FileType]
    /\ \A h \in Groups \ {g} : inst'[h] = inst[h]
    /\ inst'[g].raw = raw /\ ~inst'[g].active /\ HandleOK(inst'[g])
    /\ \A i \in Indexes \ Files(g) : dir'[i] = dir[i]
    /\ \A i \in Files(g) : dir'[i] = Whole
    /\ seen' = seen
\* The end of a recording touches its own files and no others.
LEMMA EndTouches ==
    ASSUME TypeOK, HandlesOK, seen \in SeenType, NEW g \in Groups, inst[g].active,
           NEW new \in InstType, new.two = inst[g].two, new.native = inst[g].native,
           new.decoded = inst[g].decoded, End(g, new)
    PROVE  EndedFiles(g, new.raw)
<1> DEFINE x == Ended(new)
           hs == Handles(new)
<1>1. /\ inst \in [Groups -> InstType] /\ dir \in [Indexes -> FileType]
      /\ clock \in 0 .. MaxClock
  BY DEF TypeOK, FileType
<1>2. /\ inst' = [inst EXCEPT ![g] = x] /\ dir' = Finish(dir, hs)
      /\ seen' = [seen EXCEPT !.stray = seen.stray \/ Stale \in hs]
  BY DEF End, Finish
<1>3. HandleOK(inst[g])
  BY DEF HandlesOK
<1>4. hs \cap Indexes = Files(g) /\ Stale \notin hs
  BY <1>3, NoIndexes DEF Handles, HandleOK, Files, FilesOf
<1>5. /\ x \in InstType /\ x.raw = new.raw /\ ~x.active /\ x.native = Null
      /\ x.decoded = IF new.two THEN Null ELSE new.decoded
  BY DEF Ended, InstType, HandleType
<1>6. x.decoded = Null
  BY <1>3, <1>5 DEF HandleOK
<1> HIDE DEF x, hs
<1>7. /\ inst' \in [Groups -> InstType] /\ inst'[g] = x
      /\ \A h \in Groups \ {g} : inst'[h] = inst[h]
  BY <1>1, <1>2, <1>5
<1>8. /\ Finish(dir, hs) \in [Indexes -> FileType]
      /\ \A i \in Indexes \ hs : Finish(dir, hs)[i] = dir[i]
      /\ \A i \in Indexes \cap hs : Finish(dir, hs)[i] = Whole
  BY <1>1, ClosedWhole
<1>9. seen' = seen
  BY <1>2, <1>4 DEF SeenType
<1>10. HandleOK(x)
  BY <1>5, <1>6 DEF HandleOK
<1>11. /\ \A i \in Indexes \ Files(g) : dir'[i] = dir[i]
       /\ \A i \in Files(g) : dir'[i] = Whole
  BY <1>2, <1>4, <1>8
<1>12. QED
  BY <1>2, <1>5, <1>7, <1>8, <1>9, <1>10, <1>11 DEF EndedFiles

\* The files stay in order when a recording begins.
LEMMA FilesBegun ==
    ASSUME TypeOK, FileInv, NEW g \in Groups, ~inst[g].active,
           NEW raw, NEW fails, NEW T, BegunFiles(g, raw, fails, T), seen'.stray = seen.stray
    PROVE  FileInv'
<1> USE DEF BegunFiles
<1>1. HandlesOK'
  BY DEF HandlesOK
<1>2. ASSUME NEW h \in Groups, inst'[h].active
      PROVE  Files(h)' \subseteq Open(dir)'
  <2>1. CASE h = g
    BY <1>2, <2>1 DEF Files, Open
  <2>2. CASE h # g
    <3>1. inst[h].active /\ Files(h)' = Files(h) \ T
      BY <1>2, <2>2 DEF Files
    <3>2. Files(h) \subseteq Open(dir)
      BY <3>1 DEF FileInv, FilesHeld
    <3>3. QED
      BY <3>1, <3>2 DEF Open
  <2>3. QED
    BY <2>1, <2>2
<1>3. ASSUME NEW h \in Groups, NEW k \in Groups, inst'[h].active, inst'[k].active, h # k
      PROVE  Files(h)' \cap Files(k)' = {}
  <2>1. \A m \in {h, k} \ {g} : inst[m].active /\ Files(m)' = Files(m) \ T
    BY <1>3 DEF Files
  <2>2. g \in {h, k} => Files(g)' = T
    BY <1>3 DEF Files
  <2>3. g \notin {h, k} => Files(h) \cap Files(k) = {}
    BY <1>3, <2>1 DEF FileInv, FilesHeld
  <2>4. QED
    BY <1>3, <2>1, <2>2, <2>3
<1>4. ASSUME NEW i \in Open(dir')
      PROVE  \E h \in Groups : inst'[h].active /\ i \in Handles(inst'[h])
  <2>1. CASE i \in T
    <3>1. fails = 0
      BY <1>4, <2>1 DEF Open, NoFile, Whole
    <3>2. inst'[g].active /\ i \in FilesOf(inst'[g])
      BY <2>1, <3>1
    <3>3. QED
      BY <3>2 DEF FilesOf
  <2>2. CASE i \notin T
    <3>1. i \in Open(dir)
      BY <1>4, <2>2 DEF Open
    <3>2. PICK h \in Groups : inst[h].active /\ i \in Handles(inst[h])
      BY <3>1 DEF FileInv, CapturesFinished
    <3>3. h # g /\ i \in FilesOf(inst[h])
      BY <3>1, <3>2 DEF FilesOf, Open
    <3>4. inst'[h].active /\ i \in FilesOf(inst'[h])
      BY <2>2, <3>2, <3>3
    <3>5. QED
      BY <3>4 DEF FilesOf
  <2>3. QED
    BY <2>1, <2>2
<1>5. \A i \in Indexes : dir'[i].st # "cut"
  <2>1. TAKE i \in Indexes
  <2>2. dir[i].st # "cut"
    BY DEF FileInv, CapturesFinished
  <2>3. QED
    BY <2>2 DEF NoFile, Whole
<1>6. ~seen'.stray
  BY DEF FileInv, CapturesFinished
<1>7. QED
  BY <1>1, <1>2, <1>3, <1>4, <1>5, <1>6 DEF FileInv, FilesHeld, CapturesFinished

\* And when one ends.
LEMMA FilesEnded ==
    ASSUME TypeOK, FileInv, NEW g \in Groups, inst[g].active, NEW raw, EndedFiles(g, raw)
    PROVE  FileInv'
<1> USE DEF EndedFiles
<1>1. HandlesOK'
  BY DEF HandlesOK, FileInv
<1>2. \A h \in Groups : inst'[h].active =>
         h # g /\ inst[h].active /\ Files(h)' = Files(h) /\ Files(h) \cap Files(g) = {}
  BY DEF Files, FileInv, FilesHeld
<1>3. ASSUME NEW h \in Groups, inst'[h].active
      PROVE  Files(h)' \subseteq Open(dir)'
  <2>1. Files(h) \subseteq Open(dir)
    BY <1>2, <1>3 DEF FileInv, FilesHeld
  <2>2. QED
    BY <1>2, <1>3, <2>1 DEF Open
<1>4. ASSUME NEW h \in Groups, NEW k \in Groups, inst'[h].active, inst'[k].active, h # k
      PROVE  Files(h)' \cap Files(k)' = {}
  BY <1>2, <1>4 DEF FileInv, FilesHeld
<1>5. ASSUME NEW i \in Open(dir')
      PROVE  \E h \in Groups : inst'[h].active /\ i \in Handles(inst'[h])
  <2>1. i \notin Files(g) /\ i \in Open(dir)
    BY <1>5 DEF Open, Whole
  <2>2. PICK h \in Groups : inst[h].active /\ i \in Handles(inst[h])
    BY <2>1 DEF FileInv, CapturesFinished
  <2>3. h # g
    BY <2>1, <2>2 DEF Files, FilesOf, Open
  <2>4. QED
    BY <2>2, <2>3
<1>6. \A i \in Indexes : dir'[i].st # "cut"
  BY DEF FileInv, CapturesFinished, Whole
<1>7. ~seen'.stray
  BY DEF FileInv, CapturesFinished
<1>8. QED
  BY <1>1, <1>3, <1>4, <1>5, <1>6, <1>7 DEF FileInv, FilesHeld, CapturesFinished

-----------------------------------------------------------------------------
(* The rotation, as a property of a directory alone.                       *)

\* The order from p on is one: two indexes that come before each other are one.
LEMMA EarlierOnce ==
    ASSUME NEW i \in Nat, NEW j \in Nat, NEW p \in Nat, Earlier(i, j, p), Earlier(j, i, p)
    PROVE  i = j
BY DEF Earlier

\* All open files of a rotation are closed now: their times stay the latest.
LEMMA RotationCloses ==
    ASSUME NEW d \in [Indexes -> FileType], NEW e \in [Indexes -> FileType],
           NEW n \in Nat, NEW p \in Indexes, clock \in 0 .. MaxClock,
           Rotates(d, n, p), Timely(d),
           \A i \in Indexes \ Open(d) : e[i] = d[i],
           \A i \in Open(d) : e[i] = Whole
    PROVE  Rotates(e, n, p) /\ PresentIn(e) = PresentIn(d) /\ Timely(e) /\ Open(e) = {}
<1> USE MostLimit
<1>1. clock \in Nat /\ \A i \in Indexes : d[i].time \in Nat /\ d[i].time <= clock
  BY CaptureAssumption DEF FileType, Timely
<1>2. PresentIn(e) = PresentIn(d) /\ Open(e) = {} /\ Timely(e)
  <2>1. ASSUME NEW i \in Indexes
        PROVE  /\ e[i].st # "open" /\ (e[i].st # "none" <=> d[i].st # "none")
               /\ e[i].time <= clock
    <3>1. CASE i \in Open(d)
      BY <1>1, <3>1 DEF Open, Whole
    <3>2. CASE i \notin Open(d)
      BY <1>1, <3>2 DEF Open
    <3>3. QED
      BY <3>1, <3>2
  <2>2. QED
    BY <2>1 DEF PresentIn, Open, Timely
<1>3. ASSUME NEW i \in PresentIn(e), NEW j \in PresentIn(e), Earlier(i, j, p)
      PROVE  e[i].time <= e[j].time
  <2>1. i \in Indexes /\ j \in Indexes /\ i \in PresentIn(d) /\ j \in PresentIn(d)
    BY <1>2 DEF PresentIn
  <2>2. CASE j \in Open(d)
    <3>1. e[j].time = clock
      BY <2>2 DEF Whole
    <3>2. e[i].time <= clock
      BY <1>2, <2>1 DEF Timely
    <3>3. QED
      BY <3>1, <3>2
  <2>3. CASE j \notin Open(d) /\ i \in Open(d)
    <3>1. Earlier(j, i, p)
      BY <2>1, <2>3 DEF Rotates, Sorted
    <3>2. i \in Nat /\ j \in Nat /\ p \in Nat
      BY <2>1
    <3>3. i = j
      BY <1>3, <3>1, <3>2, EarlierOnce
    <3>4. QED
      BY <2>3, <3>3
  <2>4. CASE j \notin Open(d) /\ i \notin Open(d)
    BY <1>3, <2>1, <2>4 DEF Rotates, Sorted
  <2>5. QED
    BY <2>2, <2>3, <2>4
<1>4. Filled(e, n, p)
  BY <1>2 DEF Rotates, Filled
<1>5. QED
  BY <1>2, <1>3, <1>4 DEF Rotates, Sorted

\* A new file where the rotation goes on, and it goes on at the next index.
LEMMA RotationAdvances ==
    ASSUME NEW d \in [Indexes -> FileType], NEW n \in Nat, NEW p \in Indexes, p < n,
           NEW f \in FileType, f.st = "open", f.time = clock, clock \in 0 .. MaxClock,
           Rotates(d, n, p), Timely(d),
           NEW c \in Indexes, c = IF p + 1 >= n THEN 0 ELSE p + 1
    PROVE  /\ Rotates(Put(d, p, f), n, c) /\ Timely(Put(d, p, f))
           /\ Put(d, p, f) \in [Indexes -> FileType]
<1> DEFINE e == Put(d, p, f)
<1> USE MostLimit
<1>1. clock \in Nat /\ \A i \in Indexes : d[i].time \in Nat /\ d[i].time <= clock
  BY CaptureAssumption DEF FileType, Timely
<1>2. /\ e \in [Indexes -> FileType] /\ e[p] = f
      /\ \A i \in Indexes \ {p} : e[i] = d[i]
  BY PutIs
<1> HIDE DEF e
<1>3. PresentIn(e) = PresentIn(d) \cup {p} /\ Open(e) = Open(d) \cup {p}
  BY <1>2 DEF PresentIn, Open
<1>4. Timely(e)
  BY <1>1, <1>2 DEF Timely
<1>5. /\ p \in Nat /\ c \in Nat /\ (p = 0 \/ p < n)
      /\ PresentIn(d) = 0 .. n - 1 \/ PresentIn(d) = 0 .. p - 1
  BY DEF Rotates, Filled
<1>6. Filled(e, n, c)
  <2>1. c = 0 \/ c < n
    BY <1>5
  <2>2. CASE PresentIn(d) = 0 .. n - 1
    <3>1. PresentIn(e) = 0 .. n - 1
      BY <1>3, <1>5, <2>2
    <3>2. QED
      BY <2>1, <3>1 DEF Filled
  <2>3. CASE PresentIn(d) = 0 .. p - 1
    <3>1. PresentIn(e) = 0 .. p
      BY <1>3, <1>5, <2>3
    <3>2. CASE p + 1 >= n
      <4>1. PresentIn(e) = 0 .. n - 1
        BY <1>5, <3>1, <3>2
      <4>2. QED
        BY <2>1, <4>1 DEF Filled
    <3>3. CASE ~(p + 1 >= n)
      <4>1. c = p + 1 /\ c < n /\ 0 .. p = 0 .. c - 1
        BY <1>5, <3>3
      <4>2. QED
        BY <2>1, <3>1, <4>1 DEF Filled
    <3>4. QED
      BY <3>2, <3>3
  <2>4. QED
    BY <1>5, <2>2, <2>3
<1>7. \A i \in PresentIn(e) : i \in Nat /\ i < n /\ i \in Indexes
  BY <1>3, <1>5 DEF PresentIn
<1>8. ASSUME NEW i \in PresentIn(e), NEW j \in PresentIn(e), i # p, j # p
      PROVE  Earlier(i, j, c) <=> Earlier(i, j, p)
  BY <1>5, <1>7, <1>8 DEF Earlier
<1>9. ASSUME NEW j \in PresentIn(e), j # p
      PROVE  Earlier(j, p, c) /\ ~Earlier(p, j, c)
  BY <1>5, <1>7, <1>9 DEF Earlier
<1>10. ASSUME NEW i \in PresentIn(e), NEW j \in PresentIn(e), Earlier(i, j, c)
       PROVE  e[i].time <= e[j].time
  <2>1. CASE j = p
    BY <1>1, <1>2, <1>4, <1>7, <2>1 DEF Timely
  <2>2. CASE j # p
    <3>1. i # p
      BY <1>9, <1>10, <2>2
    <3>2. Earlier(i, j, p) /\ i \in PresentIn(d) /\ j \in PresentIn(d)
      BY <1>3, <1>8, <1>10, <2>2, <3>1
    <3>3. d[i].time <= d[j].time
      BY <3>2 DEF Rotates, Sorted
    <3>4. QED
      BY <1>2, <1>7, <2>2, <3>1, <3>3
  <2>3. QED
    BY <2>1, <2>2
<1>11. ASSUME NEW i \in Open(e), NEW j \in PresentIn(e) \ Open(e)
       PROVE  Earlier(j, i, c)
  <2>1. j # p /\ i \in PresentIn(e) /\ j \in PresentIn(d) \ Open(d)
    BY <1>3 DEF Open, PresentIn
  <2>2. CASE i = p
    BY <1>9, <2>1, <2>2
  <2>3. CASE i # p
    <3>1. Earlier(j, i, p)
      BY <1>3, <2>1, <2>3 DEF Rotates, Sorted
    <3>2. QED
      BY <1>8, <2>1, <2>3, <3>1
  <2>4. QED
    BY <2>2, <2>3
<1>12. Rotates(e, n, c)
  BY <1>6, <1>10, <1>11 DEF Rotates, Sorted
<1>13. QED
  BY <1>2, <1>4, <1>12 DEF e

-----------------------------------------------------------------------------
(* A restart finds the place where the rotation goes on.                   *)

\* A set of indexes that is not empty has a first.
LEMMA FirstOf ==
    ASSUME NEW xs \in SUBSET Nat, xs # {}
    PROVE  \E c \in xs : \A e \in xs : c <= e
<1>1. PICK c \in xs : \A e \in xs : <<e, c>> \notin OpToRel(<, Nat)
  BY NatLessThanWellFounded, WFMin
<1>2. OpToRel(<, Nat) = {ss \in Nat \X Nat : ss[1] < ss[2]}
  BY DEF OpToRel
<1>3. ASSUME NEW e \in xs, e < c PROVE FALSE
  <2>1. <<e, c>> \in {ss \in Nat \X Nat : ss[1] < ss[2]}
    BY <1>3
  <2>2. QED
    BY <1>1, <1>2, <2>1
<1>4. \A e \in xs : c <= e
  BY <1>3
<1>5. QED
  BY <1>4

\* How many entries a directory with no gap has, and how many are before one.
LEMMA Counted ==
    ASSUME NEW k \in Nat
    PROVE  IsFiniteSet(0 .. k - 1) /\ Cardinality(0 .. k - 1) = k
<1>1. 0 \in Int /\ k - 1 \in Int
  OBVIOUS
<1>2. IsFiniteSet(0 .. k - 1) /\ Cardinality(0 .. k - 1) = IF 0 > k - 1 THEN 0 ELSE k - 1 - 0 + 1
  BY <1>1, FS_Interval
<1>3. QED
  BY <1>2

\* What is in a part of the indexes below k is no more than k.
LEMMA CountedBelow ==
    ASSUME NEW k \in Nat, NEW s, s \subseteq 0 .. k - 1
    PROVE  IsFiniteSet(s) /\ Cardinality(s) \in Nat /\ Cardinality(s) <= k
<1>1. IsFiniteSet(0 .. k - 1) /\ Cardinality(0 .. k - 1) = k
  BY Counted
<1>2. IsFiniteSet(s) /\ Cardinality(s) <= Cardinality(0 .. k - 1)
  BY <1>1, FS_Subset
<1>3. Cardinality(s) \in Nat
  BY <1>2, FS_CardinalityType
<1>4. QED
  BY <1>1, <1>2, <1>3

\* The first turn of the times, where there is one.
IsFirstTurn(i) == i \in Present /\ Turns(i) /\ \A j \in Before(i) : ~Turns(j)
FirstTurn == CHOOSE i \in Present : Turns(i) /\ \A j \in Before(i) : ~Turns(j)
\* It is the first, by the order of the indexes.
LEMMA FirstTurnIs ==
    ASSUME NEW x \in Present, Turns(x)
    PROVE  IsFirstTurn(FirstTurn)
<1> DEFINE ts == {i \in Present : Turns(i)}
<1>1. ts \in SUBSET Nat /\ ts # {}
  BY MostLimit DEF Present
<1> HIDE DEF ts
<1>2. PICK c \in ts : \A e \in ts : c <= e
  BY <1>1, FirstOf
<1>3. c \in Present /\ Turns(c) /\ c \in Nat
  BY <1>1, <1>2 DEF ts
<1>4. ASSUME NEW j \in Before(c), Turns(j) PROVE FALSE
  <2>1. j \in Present /\ j < c /\ j \in ts /\ j \in Nat
    BY <1>1, <1>4 DEF Before, ts
  <2>2. QED
    BY <1>2, <1>3, <2>1
<1>5. IsFirstTurn(c)
  BY <1>3, <1>4 DEF IsFirstTurn
<1>6. QED
  BY <1>5 DEF FirstTurn, IsFirstTurn

\* Where the rotation goes on, by the turns.
LEMMA NextIndexIs ==
    ASSUME NEW n
    PROVE  NextIndex(n) = IF Cardinality(Present) < n THEN Cardinality(Present)
                          ELSE IF \E i \in Present : Turns(i)
                          THEN 1 + Cardinality(Before(FirstTurn))
                          ELSE 0
BY DEF NextIndex, FirstTurn

\* It is below the largest limit the directory was given.
LEMMA NextIndexBelow ==
    ASSUME NEW m \in Nat, NEW n \in Nat, 0 < n, n <= m, Present \subseteq 0 .. m - 1
    PROVE  NextIndex(n) \in 0 .. m - 1
<1>1. Cardinality(Present) \in Nat
  BY CountedBelow
<1>2. CASE Cardinality(Present) < n
  BY <1>1, <1>2, NextIndexIs
<1>3. CASE ~(Cardinality(Present) < n) /\ ~\E i \in Present : Turns(i)
  BY <1>3, NextIndexIs
<1>4. CASE ~(Cardinality(Present) < n) /\ \E i \in Present : Turns(i)
  <2> DEFINE i == FirstTurn
  <2>1. NextIndex(n) = 1 + Cardinality(Before(i))
    BY <1>4, NextIndexIs
  <2>2. IsFirstTurn(i)
    BY <1>4, FirstTurnIs
  <2> HIDE DEF i
  <2>3. PICK j \in Present : IsSuccessor(i, j)
    BY <2>2 DEF IsFirstTurn, Turns
  <2>4. /\ i \in Nat /\ j \in Nat /\ j <= m - 1
        /\ Before(j) = Before(i) \cup {i} /\ i \notin Before(i)
    BY <2>2, <2>3 DEF IsFirstTurn, IsSuccessor, Before
  <2>5. Before(i) \subseteq 0 .. i - 1 /\ Before(j) \subseteq 0 .. j - 1
    <3>1. \A l \in Present : l \in Nat
      OBVIOUS
    <3>2. \A k \in {i, j} : \A l \in Before(k) : l \in 0 .. k - 1
      BY <2>4, <3>1 DEF Before
    <3>3. QED
      BY <3>2
  <2>6. /\ IsFiniteSet(Before(i)) /\ Cardinality(Before(i)) \in Nat
        /\ Cardinality(Before(j)) <= j
    BY <2>4, <2>5, CountedBelow
  <2>7. Cardinality(Before(i) \cup {i}) = Cardinality(Before(i)) + 1
    BY <2>4, <2>6, FS_AddElement
  <2>8. QED
    BY <2>1, <2>4, <2>6, <2>7
<1>5. QED
  BY <1>2, <1>3, <1>4

\* In an orderly directory it is a place where the rotation may go on.
LEMMA NextIndexRotates ==
    ASSUME dir \in [Indexes -> FileType], NEW n \in Nat, 0 < n, NEW p \in Indexes,
           Rotates(dir, n, p), Open(dir) = {}
    PROVE  NextIndex(n) \in Indexes /\ Rotates(dir, n, NextIndex(n))
<1>1. /\ Present = PresentIn(dir) /\ p \in Nat /\ p < n
      /\ \A i \in Indexes : i \in Nat /\ dir[i].time \in Nat
  BY MostLimit, CaptureAssumption DEF Present, PresentIn, Rotates, Filled, FileType
<1>2. /\ \A i, j \in Present : Earlier(i, j, p) => Time(i) <= Time(j)
      /\ Present = 0 .. n - 1 \/ Present = 0 .. p - 1
  BY <1>1 DEF Rotates, Filled, Sorted, Time
<1>3. CASE Present # 0 .. n - 1
  <2>1. Cardinality(Present) = p
    BY <1>1, <1>2, <1>3, Counted
  <2>2. NextIndex(n) = p
    BY <1>1, <2>1, NextIndexIs
  <2>3. QED
    BY <2>2
<1>4. CASE Present = 0 .. n - 1
  <2>1. Cardinality(Present) = n /\ Present \subseteq Indexes
    BY <1>4, Counted DEF Present
  <2>2. \A i \in Present : i \in Nat /\ i < n /\ Time(i) \in Nat /\ Before(i) = 0 .. i - 1
    BY <1>1, <1>4, <2>1 DEF Before, Time
  <2>3. ASSUME NEW i \in Present, Turns(i)
        PROVE  i + 1 = p
    <3>1. PICK j \in Present : IsSuccessor(i, j) /\ Time(i) > Time(j)
      BY <2>3 DEF Turns
    <3>2. i \in Nat /\ j \in Nat /\ Time(i) \in Nat /\ Time(j) \in Nat /\ i < j
      BY <2>2, <3>1 DEF IsSuccessor
    <3>3. ~Earlier(i, j, p)
      <4>1. ~(Time(i) <= Time(j))
        BY <3>1, <3>2
      <4>2. QED
        BY <1>2, <4>1
    <3>4. i < p /\ ~(j < p)
      BY <1>1, <3>2, <3>3 DEF Earlier
    <3>5. Before(j) = Before(i) \cup {i} /\ Before(j) = 0 .. j - 1 /\ Before(i) = 0 .. i - 1
      BY <2>2, <3>1 DEF IsSuccessor
    <3>6. j = i + 1
      <4>1. CASE j > i + 1
        <5>1. i + 1 \in 0 .. j - 1
          BY <3>2, <4>1
        <5>2. i + 1 \in 0 .. i - 1 \/ i + 1 = i
          BY <3>5, <5>1
        <5>3. QED
          BY <3>2, <5>2
      <4>2. QED
        BY <3>2, <4>1
    <3>7. QED
      BY <1>1, <3>2, <3>4, <3>6
  <2>4. CASE \E i \in Present : Turns(i)
    <3>1. FirstTurn \in Present /\ FirstTurn + 1 = p
      BY <2>3, <2>4, FirstTurnIs DEF IsFirstTurn
    <3>2. Cardinality(Before(FirstTurn)) = FirstTurn /\ FirstTurn \in Nat
      BY <2>2, <3>1, Counted
    <3>3. NextIndex(n) = 1 + Cardinality(Before(FirstTurn))
      BY <2>1, <2>4, NextIndexIs
    <3>4. NextIndex(n) = p
      BY <3>1, <3>2, <3>3
    <3>5. QED
      BY <3>4
  <2>5. CASE ~\E i \in Present : Turns(i)
    <3>1. NextIndex(n) = 0 /\ 0 \in Indexes
      BY <2>1, <2>5, NextIndexIs, MostLimit
    <3>2. Filled(dir, n, 0)
      BY <1>1, <1>4 DEF Filled
    <3>3. ASSUME p # 0 PROVE Time(p - 1) <= Time(p)
      <4>1. p - 1 \in Present /\ p \in Present
        BY <1>1, <1>4, <3>3
      <4>2. IsSuccessor(p - 1, p)
        <5>1. Before(p) = 0 .. p - 1 /\ Before(p - 1) = 0 .. p - 1 - 1
          BY <2>2, <4>1
        <5>2. Before(p) = Before(p - 1) \cup {p - 1}
          BY <1>1, <3>3, <5>1
        <5>3. QED
          BY <1>1, <4>1, <5>2 DEF IsSuccessor
      <4>3. ~(Time(p - 1) > Time(p))
        BY <2>5, <4>1, <4>2 DEF Turns
      <4>4. Time(p - 1) \in Nat /\ Time(p) \in Nat
        BY <2>2, <4>1
      <4>5. QED
        BY <4>3, <4>4
    <3>4. ASSUME NEW i \in Present, NEW j \in Present, Earlier(i, j, 0)
          PROVE  Time(i) <= Time(j)
      <4>1. i \in Nat /\ j \in Nat /\ i <= j /\ i < n /\ j < n
        BY <2>2, <3>4 DEF Earlier
      <4>2. CASE i < p /\ ~(j < p)
        <5>1. p - 1 \in Present /\ p \in Present /\ p # 0
          BY <1>1, <1>4, <4>1, <4>2
        <5>2. Earlier(i, p - 1, p) /\ Earlier(p, j, p)
          BY <1>1, <4>1, <4>2, <5>1 DEF Earlier
        <5>3. Time(i) <= Time(p - 1) /\ Time(p) <= Time(j) /\ Time(p - 1) <= Time(p)
          BY <1>2, <3>3, <5>1, <5>2
        <5>4. /\ Time(i) \in Nat /\ Time(j) \in Nat
              /\ Time(p - 1) \in Nat /\ Time(p) \in Nat
          BY <2>2, <5>1
        <5>5. QED
          BY <5>3, <5>4
      <4>3. CASE ~(i < p /\ ~(j < p))
        <5>1. Earlier(i, j, p)
          BY <1>1, <4>1, <4>3 DEF Earlier
        <5>2. QED
          BY <1>2, <5>1
      <4>4. QED
        BY <4>2, <4>3
    <3>5. Sorted(dir, 0)
      BY <1>1, <3>4 DEF Sorted, Time
    <3>6. QED
      BY <3>1, <3>2, <3>5 DEF Rotates
  <2>6. QED
    BY <2>4, <2>5
<1>5. QED
  BY <1>3, <1>4

-----------------------------------------------------------------------------
(* The rotation, in the steps that make and close files.                   *)

\* What the types say of numbers.
LEMMA StateTypes ==
    ASSUME TypeOK
    PROVE  /\ dir \in [Indexes -> FileType] /\ inst \in [Groups -> InstType]
           /\ clock \in 0 .. MaxClock /\ clock \in Nat
           /\ thr \in [qty : {0} \cup Qtys, index : 0 .. Most - 1]
           /\ thr.qty \in Nat /\ thr.index \in Nat
           /\ params \in {0} \cup Qtys /\ params \in Nat
<1>1. /\ dir \in [Indexes -> FileType] /\ inst \in [Groups -> InstType]
      /\ clock \in 0 .. MaxClock
      /\ thr \in [qty : {0} \cup Qtys, index : 0 .. Most - 1]
      /\ params \in {0} \cup Qtys
  BY DEF TypeOK, FileType
<1>2. clock \in Nat
  BY <1>1, CaptureAssumption
<1>3. thr.qty \in {0} \cup Qtys /\ thr.index \in 0 .. Most - 1
  BY <1>1
<1>4. \A n \in {0} \cup Qtys : n \in Nat
  <2>1. \A n \in Qtys : n \in Nat
    BY CaptureAssumption
  <2>2. QED
    BY <2>1
<1>5. thr.qty \in Nat /\ params \in Nat
  BY <1>1, <1>3, <1>4
<1>6. thr.index \in Nat
  BY <1>3, MostLimit
<1>7. QED
  BY <1>1, <1>2, <1>5, <1>6

\* The limits that were given are limits.
LEMMA SeenTypes ==
    ASSUME seen \in SeenType
    PROVE  /\ seen.most \in {0} \cup Qtys /\ seen.most \in Nat /\ seen.most <= Most
           /\ seen.orderly \in BOOLEAN
<1>1. seen.most \in {0} \cup Qtys /\ seen.orderly \in BOOLEAN
  BY DEF SeenType
<1>2. \A n \in {0} \cup Qtys : n \in Nat
  <2>1. \A n \in Qtys : n \in Nat
    BY CaptureAssumption
  <2>2. QED
    BY <2>1
<1>3. \A n \in {0} \cup Qtys : n <= Most
  BY MostLimit
<1>4. QED
  BY <1>1, <1>2, <1>3

\* A file that is closed or missing is not of the future.
LEMMA FileTimes ==
    ASSUME clock \in Nat
    PROVE  /\ NoFile.time <= clock /\ NoFile.st = "none"
           /\ Whole.time = clock /\ Whole.st = "closed"
BY DEF NoFile, Whole

\* The limit is kept when a recording begins.
LEMMA LimitBegun ==
    ASSUME TypeOK, LimitOK, seen \in SeenType, thr.qty > 0,
           NEW g \in Groups, NEW kind, NEW raw, NEW fails \in {0, 1, 2},
           NEW a \in Indexes, a = thr.index, NEW b \in Indexes, b = Wrap(a + 1),
           BegunFiles(g, raw, fails, Touched(kind, fails, a, b)),
           BegunRest(kind, fails, a, b), UNCHANGED <<clock, params>>
    PROVE  LimitOK' /\ thr' \in [qty : {0} \cup Qtys, index : 0 .. Most - 1]
<1>1. /\ thr \in [qty : {0} \cup Qtys, index : 0 .. Most - 1]
      /\ dir \in [Indexes -> FileType] /\ clock \in 0 .. MaxClock
      /\ clock \in Nat /\ seen.most \in Nat /\ thr.qty \in Nat
      /\ seen.most <= Most /\ Most \in Nat
      /\ a \in Nat /\ b \in Nat /\ Indexes \subseteq Nat
  BY MostLimit, StateTypes, SeenTypes
<1>2. thr.qty <= seen.most /\ params <= seen.most /\ a < seen.most
  BY DEF LimitOK
<1>3. \A i \in Nat : Wrap(i + 1) \in Nat /\ Wrap(i + 1) < seen.most
  BY <1>1, <1>2 DEF Wrap
<1>4. b < seen.most /\ Wrap(b + 1) < seen.most /\ Wrap(b + 1) \in Nat
  BY <1>1, <1>3
<1> DEFINE T == Touched(kind, fails, a, b)
           x == IF fails = 1 THEN a ELSE IF kind = "decoded" /\ fails = 0 THEN Wrap(b + 1)
                ELSE b
<1>5. T \subseteq 0 .. seen.most - 1
  BY <1>1, <1>2, <1>4 DEF Touched
<1>6. x \in Nat /\ x < seen.most /\ x \in 0 .. Most - 1
  BY <1>1, <1>2, <1>4
<1>7. thr' = [thr EXCEPT !.index = x] /\ seen'.most = seen.most
  BY DEF BegunRest
<1> HIDE DEF x
<1>8. /\ thr' \in [qty : {0} \cup Qtys, index : 0 .. Most - 1]
      /\ thr'.qty = thr.qty /\ thr'.index = x
  BY <1>1, <1>6, <1>7
<1>9. /\ \A i \in Indexes \ T : dir'[i] = dir[i]
      /\ \A i \in T : dir'[i].time <= clock
  <2>1. /\ \A i \in Indexes \ T : dir'[i] = dir[i]
        /\ fails = 0 => \A i \in T : dir'[i].time = clock
        /\ fails # 0 => \A i \in T : dir'[i] \in {NoFile, Whole}
    BY DEF BegunFiles
  <2>2. NoFile.time <= clock /\ Whole.time <= clock
    BY <1>1 DEF NoFile, Whole
  <2> HIDE DEF T
  <2>3. ASSUME NEW i \in T PROVE dir'[i].time <= clock
    <3>1. CASE fails = 0
      BY <1>1, <2>1, <3>1
    <3>2. CASE fails # 0
      BY <2>1, <2>2, <3>2
    <3>3. QED
      BY <3>1, <3>2
  <2>4. QED
    BY <2>1, <2>3
<1> HIDE DEF T
<1>10. \A i \in Indexes : dir'[i].time <= clock'
  BY <1>9 DEF LimitOK, Timely
<1>11. Present' \subseteq 0 .. seen.most - 1
  BY <1>5, <1>9 DEF LimitOK, Present
<1>12. QED
  BY <1>2, <1>6, <1>7, <1>8, <1>10, <1>11 DEF LimitOK, Timely

\* And the order of the times, while the directory is orderly.
LEMMA OrderBegun ==
    ASSUME TypeOK, LimitOK, OrderInv, seen \in SeenType, thr.qty > 0,
           NEW g \in Groups, NEW kind, NEW raw, NEW fails \in {0, 1, 2},
           NEW a \in Indexes, a = thr.index, NEW b \in Indexes, b = Wrap(a + 1),
           BegunDir(kind, fails, a, b),
           BegunFiles(g, raw, fails, Touched(kind, fails, a, b)),
           BegunRest(kind, fails, a, b), UNCHANGED <<clock, params>>
    PROVE  OrderInv'
<1> SUFFICES ASSUME seen'.orderly PROVE OrderInv'
  BY DEF OrderInv
<1>1. /\ seen.orderly /\ fails = 0 /\ \A h \in Groups : ~inst[h].active
      /\ seen'.most = seen.most
      /\ thr' = [thr EXCEPT !.index = IF kind = "decoded" THEN Wrap(b + 1) ELSE b]
  BY DEF BegunRest, StaysOrderly
<1> DEFINE n == seen.most
<1>2. /\ n \in Nat /\ n = thr.qty /\ 0 < n /\ n <= Most
      /\ dir \in [Indexes -> FileType] /\ clock \in 0 .. MaxClock
      /\ thr \in [qty : {0} \cup Qtys, index : 0 .. Most - 1]
      /\ a \in Nat /\ b \in Nat /\ Most \in Nat /\ Indexes = 0 .. Most
      /\ params \in {0, n}
  BY <1>1, MostLimit DEF TypeOK, FileType, SeenType, OrderInv, Indexes
<1> HIDE DEF n
<1>3. Rotates(dir, n, a)
  BY <1>1 DEF OrderInv, n
<1>4. a < n /\ Timely(dir)
  BY DEF LimitOK, n
<1>5. b = (IF a + 1 >= n THEN 0 ELSE a + 1) /\ b < n
  BY <1>2 DEF Wrap
<1>6. \A h, k \in Groups : inst'[h].active /\ inst'[k].active => h = k
  BY <1>1 DEF BegunFiles
<1>7. /\ NewNative(kind) \in FileType /\ NewWave \in FileType
      /\ NewNative(kind).st = "open" /\ NewNative(kind).time = clock
      /\ NewWave.st = "open" /\ NewWave.time = clock
  BY <1>2, NewIs
<1> DEFINE f == NewNative(kind)
           d1 == Put(dir, a, f)
<1> HIDE DEF f
<1>8. f \in FileType /\ f.st = "open" /\ f.time = clock
  BY <1>7 DEF f
<1>9. Rotates(d1, n, b) /\ Timely(d1) /\ d1 \in [Indexes -> FileType]
  BY <1>2, <1>3, <1>4, <1>5, <1>8, RotationAdvances
<1> HIDE DEF d1
<1>10. CASE kind # "decoded"
  <2>1. dir' = d1 /\ thr'.index = b /\ thr'.qty = thr.qty
    BY <1>1, <1>2, <1>10 DEF BegunDir, d1, f
  <2>2. Rotates(dir', n, b)
    BY <1>9, <2>1
  <2>3. QED
    BY <1>1, <1>2, <1>6, <2>1, <2>2 DEF OrderInv, n
<1>11. CASE kind = "decoded"
  <2> DEFINE c == Wrap(b + 1)
  <2>1. c = (IF b + 1 >= n THEN 0 ELSE b + 1) /\ c \in Indexes
    BY <1>2, <1>5 DEF Wrap
  <2>2. dir' = Put(d1, b, NewWave) /\ thr'.index = c /\ thr'.qty = thr.qty
    BY <1>1, <1>2, <1>11 DEF BegunDir, d1, f
  <2> HIDE DEF c
  <2>3. Rotates(Put(d1, b, NewWave), n, c)
    BY <1>2, <1>5, <1>7, <1>9, <2>1, RotationAdvances
  <2>4. Rotates(dir', n, c)
    BY <2>2, <2>3
  <2>5. QED
    BY <1>1, <1>2, <1>6, <2>1, <2>2, <2>4 DEF OrderInv, n
<1>12. QED
  BY <1>10, <1>11

\* The end of a recording leaves the rotation as it is.
LEMMA RotationEnded ==
    ASSUME TypeOK, FileInv, RotationInv, seen \in SeenType, NEW g \in Groups,
           inst[g].active, NEW raw, EndedFiles(g, raw), UNCHANGED <<clock, params, thr>>
    PROVE  RotationInv'
<1> USE DEF EndedFiles
<1>1. /\ dir \in [Indexes -> FileType] /\ clock \in 0 .. MaxClock /\ clock \in Nat
      /\ seen.most \in Nat
  BY StateTypes, SeenTypes
<1>2. Files(g) \subseteq Open(dir)
  BY DEF FileInv, FilesHeld
<1>3. ASSUME NEW i \in Indexes
      PROVE  dir'[i].time <= clock /\ (dir'[i].st # "none" => dir[i].st # "none")
  <2>2. CASE i \in Files(g)
    <3>1. dir[i].st = "open" /\ dir'[i] = Whole
      BY <1>2, <2>2 DEF Open
    <3>2. QED
      BY <1>1, <3>1, FileTimes
  <2>3. CASE i \notin Files(g)
    BY <2>3 DEF RotationInv, LimitOK, Timely
  <2>4. QED
    BY <2>2, <2>3
<1>4. LimitOK'
  BY <1>3 DEF RotationInv, LimitOK, Timely, Present
<1>5. ASSUME seen.orderly PROVE OrderInv'
  <2>1. \A h \in Groups : inst[h].active => h = g
    BY <1>5 DEF RotationInv, OrderInv
  <2>2. ASSUME NEW i \in Open(dir) PROVE i \in Files(g)
    <3>1. PICK h \in Groups : inst[h].active /\ i \in Handles(inst[h])
      BY <2>2 DEF FileInv, CapturesFinished
    <3>2. QED
      BY <2>1, <2>2, <3>1 DEF Open, Files, FilesOf
  <2>3. Files(g) = Open(dir)
    BY <1>2, <2>2
  <2>4. PICK p \in Indexes : Rotates(dir, seen.most, p) /\ (thr.qty > 0 => p = thr.index)
    BY <1>5 DEF RotationInv, OrderInv
  <2>5. Timely(dir)
    BY DEF RotationInv, LimitOK
  <2>6. \A i \in Indexes \ Open(dir) : dir'[i] = dir[i]
    BY <2>3
  <2>7. \A i \in Open(dir) : dir'[i] = Whole
    BY <2>3
  <2>8. Rotates(dir', seen.most, p)
    BY <1>1, <2>4, <2>5, <2>6, <2>7, RotationCloses
  <2>9. \A h, k \in Groups : inst'[h].active /\ inst'[k].active => h = k
    BY <2>1
  <2>10. params \in {0, seen.most} /\ thr.qty \in {0, seen.most}
    BY <1>5 DEF RotationInv, OrderInv
  <2>11. QED
    BY <2>4, <2>8, <2>9, <2>10 DEF OrderInv
<1>6. QED
  BY <1>4, <1>5 DEF RotationInv, OrderInv

\* So do the steps that make and close no file.
LEMMA RotationStays ==
    ASSUME TypeOK, RotationInv, seen \in SeenType, UNCHANGED <<dir, params, seen>>, thr' \in {thr, Off},
           clock' \in {clock, clock + 1},
           \A h \in Groups : inst'[h].active => inst[h].active
    PROVE  RotationInv'
<1>1. /\ clock \in Nat /\ \A i \in Indexes : dir[i].time \in Nat
      /\ thr.qty \in Nat /\ seen.most \in Nat
  BY StateTypes, SeenTypes DEF FileType
<1>2. (thr'.qty = thr.qty /\ thr'.index = thr.index) \/ thr'.qty = 0
  BY DEF Off
<1>3. Timely(dir)'
  BY <1>1 DEF RotationInv, LimitOK, Timely
<1>4. LimitOK'
  <2>1. CASE thr'.qty = thr.qty /\ thr'.index = thr.index
    BY <1>3, <2>1 DEF RotationInv, LimitOK, Present
  <2>2. CASE thr'.qty = 0
    <3>1. 0 <= seen.most
      BY <1>1 DEF RotationInv, LimitOK
    <3>2. QED
      BY <1>3, <2>2, <3>1 DEF RotationInv, LimitOK, Present
  <2>3. QED
    BY <1>2, <2>1, <2>2
<1>5. ASSUME seen.orderly PROVE OrderInv'
  <2>1. PICK p \in Indexes : Rotates(dir, seen.most, p) /\ (thr.qty > 0 => p = thr.index)
    BY <1>5 DEF RotationInv, OrderInv
  <2>2. Rotates(dir', seen'.most, p) /\ (thr'.qty > 0 => p = thr'.index)
    BY <1>2, <2>1
  <2>3. /\ params' \in {0, seen'.most} /\ thr'.qty \in {0, seen'.most}
        /\ \A h, k \in Groups : inst'[h].active /\ inst'[k].active => h = k
    BY <1>2, <1>5 DEF RotationInv, OrderInv
  <2>4. QED
    BY <2>2, <2>3 DEF OrderInv
<1>6. QED
  BY <1>4, <1>5 DEF RotationInv, OrderInv

-----------------------------------------------------------------------------
(* The oldest goes.                                                        *)

Made == {i \in Indexes : dir'[i] # dir[i] /\ dir'[i].st = "open"}
Gone == {i \in Present : dir'[i] # dir[i]}
Stays == {i \in Present : dir'[i] = dir[i]}
OldestStep ==
    seen.orderly' /\ Made # {} =>
      /\ \A i \in Gone, j \in Stays : Time(i) <= Time(j)
      /\ Gone = {} \/ Cardinality(Present) + Cardinality(Made) > thr.qty

\* A recording takes the places of the oldest, and only in a full directory.
LEMMA OldestBegun ==
    ASSUME TypeOK, LimitOK, OrderInv, seen \in SeenType, thr.qty > 0,
           NEW g \in Groups, NEW kind, NEW raw, NEW fails \in {0, 1, 2},
           NEW a \in Indexes, a = thr.index, NEW b \in Indexes, b = Wrap(a + 1),
           BegunFiles(g, raw, fails, Touched(kind, fails, a, b)),
           BegunRest(kind, fails, a, b)
    PROVE  OldestStep
<1> SUFFICES ASSUME seen'.orderly PROVE OldestStep
  BY DEF OldestStep
<1> DEFINE T == Touched(kind, fails, a, b)
           n == thr.qty
<1>1. seen.orderly /\ fails = 0 /\ Open(dir) = {}
  BY DEF BegunRest, StaysOrderly
<1>2. /\ n \in Nat /\ n = seen.most /\ dir \in [Indexes -> FileType]
      /\ a \in Nat /\ b \in Nat
  BY <1>1, StateTypes, MostLimit DEF OrderInv
<1>3. Rotates(dir, n, a) /\ a < n
  BY <1>1, <1>2 DEF OrderInv, LimitOK
<1>4. /\ \A i \in Indexes \ T : dir'[i] = dir[i]
      /\ \A i \in T : i \in Indexes /\ dir'[i].st = "open"
  BY <1>1 DEF BegunFiles
<1>5. T = {a} \/ (T = {a, b} /\ a # b)
  BY DEF Touched
<1>6. b = IF a + 1 >= n THEN 0 ELSE a + 1
  BY DEF Wrap
<1>7. /\ Present \subseteq Indexes /\ Present = PresentIn(dir)
      /\ \A i \in Present : i \in Nat
      /\ Present = 0 .. n - 1 \/ Present = 0 .. a - 1
  BY <1>3, MostLimit DEF Present, PresentIn, Rotates, Filled
<1> HIDE DEF T, n
<1>8. \A i \in T : i \in Indexes /\ dir'[i] # dir[i]
  BY <1>1, <1>4 DEF Open
<1>9. Made = T /\ Gone = Present \cap T /\ Stays = Present \ T
  BY <1>4, <1>7, <1>8 DEF Made, Gone, Stays
<1>10. \A i \in Present : i < n
  BY <1>2, <1>3, <1>7
<1>11. ASSUME NEW i \in Present \cap T, NEW j \in Present \ T
       PROVE  Time(i) <= Time(j)
  <2>1. i \in Nat /\ j \in Nat /\ j < n /\ j # a
    BY <1>5, <1>7, <1>10
  <2>2. Earlier(i, j, a)
    <3>1. CASE i = a
      BY <1>2, <2>1, <3>1 DEF Earlier
    <3>2. CASE i # a
      <4>1. i = b /\ j # b
        BY <1>5, <3>2
      <4>2. QED
        BY <1>2, <1>3, <1>6, <2>1, <4>1 DEF Earlier
    <3>3. QED
      BY <3>1, <3>2
  <2>3. QED
    BY <1>3, <1>7, <2>2 DEF Rotates, Sorted, Time
<1>12. /\ T = {a} => Cardinality(T) = 1
       /\ T = {a, b} /\ a # b => Cardinality(T) = 2
  <2>1. IsFiniteSet({a}) /\ Cardinality({a}) = 1
    BY FS_Singleton
  <2>2. Cardinality({a} \cup {b}) = IF b \in {a} THEN Cardinality({a}) ELSE Cardinality({a}) + 1
    BY <2>1, FS_AddElement
  <2>3. {a, b} = {a} \cup {b}
    OBVIOUS
  <2>4. QED
    BY <2>1, <2>2, <2>3
<1>13. ASSUME Present \cap T # {} PROVE Cardinality(Present) + Cardinality(T) > n
  <2>1. CASE Present = 0 .. n - 1
    <3>1. Cardinality(Present) = n
      BY <1>2, <2>1, Counted
    <3>2. QED
      BY <1>2, <1>5, <1>12, <3>1
  <2>2. CASE Present = 0 .. a - 1
    <3>1. Cardinality(Present) = a
      BY <1>2, <2>2, Counted
    <3>2. b \in Present /\ T = {a, b} /\ a # b
      BY <1>2, <1>5, <1>13, <2>2
    <3>3. b < a
      BY <1>2, <2>2, <3>2
    <3>4. a + 1 = n
      BY <1>2, <1>3, <1>6, <3>3
    <3>5. QED
      BY <1>2, <1>12, <3>1, <3>2, <3>4
  <2>3. QED
    BY <1>7, <2>1, <2>2
<1>14. QED
  BY <1>9, <1>11, <1>13 DEF OldestStep, n

\* A step that makes no file takes no place.
LEMMA OldestElsewhere ==
    ASSUME \A i \in Indexes : dir'[i] = dir[i] \/ dir'[i].st # "open"
    PROVE  OldestStep
BY DEF OldestStep, Made

-----------------------------------------------------------------------------
(* The steps of the client.                                                *)

\* One message, and none.
LEMMA Single ==
    ASSUME NEW m \in MsgType
    PROVE  /\ <<m>> \in Seq(MsgType) /\ <<m>> # <<>> /\ Head(<<m>>) = m
           /\ Tail(<<m>>) = <<>> /\ Range(<<m>>) = {m} /\ Range(<<>>) = {}
<1>1. <<m>> \in Seq(MsgType) /\ <<m>> # <<>> /\ Head(<<m>>) = m /\ Tail(<<m>>) = <<>>
  OBVIOUS
<1>2. Range(<<m>>) = {m} /\ Range(<<>>) = {}
  BY DEF Range
<1>3. QED
  BY <1>1, <1>2
\* One list of messages after the other.
LEMMA RangeConcat ==
    ASSUME NEW s \in Seq(MsgType), NEW t \in Seq(MsgType)
    PROVE  s \o t \in Seq(MsgType) /\ Range(s \o t) = Range(s) \cup Range(t)
<1>1. /\ s \o t \in Seq(MsgType) /\ Len(s \o t) = Len(s) + Len(t)
      /\ Len(s) \in Nat /\ Len(t) \in Nat
      /\ DOMAIN s = 1 .. Len(s) /\ DOMAIN t = 1 .. Len(t)
      /\ DOMAIN (s \o t) = 1 .. Len(s) + Len(t)
      /\ \A i \in 1 .. Len(s) + Len(t) :
            (s \o t)[i] = IF i <= Len(s) THEN s[i] ELSE t[i - Len(s)]
  OBVIOUS
<1> DEFINE u == s \o t
<1> HIDE DEF u
<1>2. /\ DOMAIN u = 1 .. Len(s) + Len(t)
      /\ \A i \in 1 .. Len(s) + Len(t) : u[i] = IF i <= Len(s) THEN s[i] ELSE t[i - Len(s)]
  BY <1>1 DEF u
<1>3. ASSUME NEW x \in Range(u) PROVE x \in Range(s) \cup Range(t)
  <2>1. PICK i \in 1 .. Len(s) + Len(t) : x = u[i]
    BY <1>2, <1>3 DEF Range
  <2>2. CASE i <= Len(s)
    <3>1. i \in DOMAIN s /\ s[i] = x
      BY <1>1, <1>2, <2>1, <2>2
    <3>2. QED
      BY <3>1 DEF Range
  <2>3. CASE ~(i <= Len(s))
    <3>1. i - Len(s) \in DOMAIN t /\ t[i - Len(s)] = x
      BY <1>1, <1>2, <2>1, <2>3
    <3>2. QED
      BY <3>1 DEF Range
  <2>4. QED
    BY <2>2, <2>3
<1>4. ASSUME NEW x \in Range(s) \cup Range(t) PROVE x \in Range(u)
  <2>1. CASE x \in Range(s)
    <3>1. PICK i \in DOMAIN s : x = s[i]
      BY <2>1 DEF Range
    <3>2. i \in DOMAIN u /\ u[i] = x
      BY <1>1, <1>2, <3>1
    <3>3. QED
      BY <3>2 DEF Range
  <2>2. CASE x \in Range(t)
    <3>1. PICK i \in DOMAIN t : x = t[i]
      BY <2>2 DEF Range
    <3>2. i + Len(s) \in DOMAIN u /\ u[i + Len(s)] = x
      BY <1>1, <1>2, <3>1
    <3>3. QED
      BY <3>2 DEF Range
  <2>3. QED
    BY <1>4, <2>1, <2>2
<1>5. QED
  BY <1>1, <1>3, <1>4 DEF u

\* What a step of the client has to keep.
LEMMA ClientStep ==
    ASSUME CaptureInv, UNCHANGED <<dir, clock, params, MainThread, seen>>,
           opened' \in BOOLEAN, session' \subseteq Groups, capt' \in BOOLEAN,
           MessagesOK', QueueShape',
           \A m \in Range(q') : m.type = "start" => Recording(m.g)' /\ ~inst[m.g].active,
           \A g \in Groups : Recording(g) => Recording(g)',
           Capturing => Capturing',
           \A m \in Range(q') : m.type = "captureStart" => capt' /\ ~cs.raw /\ cs.files = {},
           ~opened' => session' = {} /\ ~capt',
           thr.qty > 0 => opened' \/ Due("terminate")'
    PROVE  CaptureInv' /\ OldestStep
<1>1. TypeOK'
  BY DEF CaptureInv, TypeOK, MainThread
<1>2. GroupsOwned'
  BY DEF CaptureInv, UseInv, GroupsOwned, MainThread
<1>3. SessionOwned'
  BY DEF CaptureInv, UseInv, SessionOwned, MainThread
<1>4. TestOwned' /\ ObjectOwned'
  BY DEF CaptureInv, UseInv, TestOwned, ObjectOwned, MainThread
<1>5. FileInv'
  BY DEF CaptureInv, FileInv, HandlesOK, FilesHeld, Files, CapturesFinished, Open, MainThread
<1>6. RotationInv'
  BY RotationStays DEF CaptureInv, UseInv, MessagesOK, MainThread
<1>7. OldestStep
  BY OldestElsewhere
<1>8. QED
  BY <1>1, <1>2, <1>3, <1>4, <1>5, <1>6, <1>7 DEF CaptureInv, UseInv

\* Between two calls a group records only for the client.
LEMMA IdleRecording ==
    ASSUME UseInv, Idle
    PROVE  /\ \A g \in Groups : Recording(g) => g \in session
           /\ \A m \in Range(q) : m.type = "start" /\ m.g \in session
           /\ Capturing => capt
           /\ ~Due("captureStop") /\ ~Due("terminate")
<1>1. Pending = Range(q) /\ \A m \in Pending : m.type = "start"
  BY Waiting DEF UseInv
<1>2. /\ \A g : ~StopDue(g)
      /\ ~Due("captureStop") /\ ~Due("terminate")
  BY <1>1 DEF StopDue, Due
<1>3. QED
  BY <1>1, <1>2 DEF Recording, Capturing, UseInv, GroupsOwned

\* A recording begins: its start is the only one of the group in the queue.
LEMMA StepRecord ==
    ASSUME CaptureInv, Record
    PROVE  CaptureInv' /\ OldestStep
<1>1. PICK g \in Groups \ session, k \in Kinds :
           /\ session' = session \cup {g}
           /\ Push(<<[For("start", g) EXCEPT !.kind = k]>>)
  BY DEF Record
<1> DEFINE m == [For("start", g) EXCEPT !.kind = k]
<1>2. g \in {"default", "tap"} /\ k \in AllKinds
  BY CaptureAssumption
<1>3. m \in MsgType /\ m.type = "start" /\ m.g = g
  BY <1>2 DEF Msg, For, MsgType, MsgTypes, AllKinds
<1>4. Push(<<m>>)
  BY <1>1
<1> HIDE DEF m
<1>5. /\ UseInv /\ Idle /\ opened /\ MessagesOK /\ QueueShape /\ q \in Seq(MsgType)
      /\ UNCHANGED <<dir, clock, params, opened, capt, seen, MainThread>>
  BY DEF CaptureInv, Record, UseInv, MessagesOK
<1>6. /\ <<m>> \in Seq(MsgType) /\ <<m>> # <<>> /\ Head(<<m>>) = m
      /\ Tail(<<m>>) = <<>> /\ Range(<<m>>) = {m} /\ Range(<<>>) = {}
  BY <1>3, Single
<1>7. /\ \A h \in Groups : Recording(h) => h \in session
      /\ \A x \in Range(q) : x.type = "start" /\ x.g \in session
      /\ Capturing => capt
      /\ ~Due("captureStop") /\ ~Due("terminate")
  BY <1>5, IdleRecording
<1>8. MessagesOK' /\ QueueShape'
  BY <1>3, <1>4, <1>5, <1>6, <1>7, PushMessages
<1>9. Range(q') = Range(q) \cup {m}
  BY <1>4, <1>5, <1>6, Pushed
<1>10. ASSUME NEW x \in Range(q')
       PROVE  x.type = "start" /\ Recording(x.g)' /\ ~inst[x.g].active
  <2>1. CASE x \in Range(q)
    <3>1. x.type = "start" /\ x.g \in session' /\ ~inst[x.g].active
      BY <1>1, <1>5, <1>7, <2>1 DEF UseInv, GroupsOwned
    <3>2. QED
      BY <3>1 DEF Recording
  <2>2. CASE x = m
    <3>1. ~inst[g].active
      BY <1>1, <1>5, <1>7 DEF UseInv, GroupsOwned
    <3>2. QED
      BY <1>1, <1>3, <2>2, <3>1 DEF Recording
  <2>3. QED
    BY <1>9, <2>1, <2>2
<1>11. \A h \in Groups : Recording(h) => Recording(h)'
  BY <1>1, <1>7 DEF Recording
<1>12. Capturing => Capturing'
  BY <1>5, <1>7 DEF Capturing
<1>13. session' \subseteq Groups /\ capt' \in BOOLEAN /\ opened' \in BOOLEAN /\ opened'
  BY <1>1, <1>5 DEF CaptureInv, TypeOK
<1>14. QED
  BY <1>5, <1>8, <1>10, <1>11, <1>12, <1>13, ClientStep

\* A recording is stopped: from here on its stop is due.
LEMMA StepStop ==
    ASSUME CaptureInv, Stop
    PROVE  CaptureInv' /\ OldestStep
<1>1. PICK g \in session : session' = session \ {g} /\ Push(<<For("stop", g)>>)
  BY DEF Stop
<1> DEFINE m == For("stop", g)
<1>2. g \in Groups /\ g \in {"default", "tap"}
  BY CaptureAssumption DEF CaptureInv, TypeOK
<1>3. m \in MsgType /\ m.type = "stop" /\ m.g = g
  BY <1>2 DEF Msg, For, MsgType, MsgTypes, AllKinds
<1>4. Push(<<m>>)
  BY <1>1
<1> HIDE DEF m
<1>5. /\ UseInv /\ Idle /\ opened /\ MessagesOK /\ QueueShape /\ q \in Seq(MsgType)
      /\ UNCHANGED <<dir, clock, params, opened, capt, seen, MainThread>>
  BY DEF CaptureInv, Stop, UseInv, MessagesOK
<1>6. /\ <<m>> \in Seq(MsgType) /\ <<m>> # <<>> /\ Head(<<m>>) = m
      /\ Tail(<<m>>) = <<>> /\ Range(<<m>>) = {m} /\ Range(<<>>) = {}
  BY <1>3, Single
<1>7. /\ \A h \in Groups : Recording(h) => h \in session
      /\ \A x \in Range(q) : x.type = "start" /\ x.g \in session
      /\ Capturing => capt
      /\ ~Due("captureStop") /\ ~Due("terminate")
  BY <1>5, IdleRecording
<1>8. MessagesOK' /\ QueueShape'
  BY <1>2, <1>3, <1>4, <1>5, <1>6, <1>7, PushMessages
<1>9. Range(q') = Range(q) \cup {m} /\ Pending' = Range(q) \cup {m}
  BY <1>4, <1>5, <1>6, Pushed
<1>10. \A h \in session : Recording(h)'
  BY <1>1, <1>3, <1>9 DEF Recording, StopDue
<1>11. ASSUME NEW x \in Range(q'), x.type # "stop"
       PROVE  x.type = "start" /\ Recording(x.g)' /\ ~inst[x.g].active
  <2>1. x \in Range(q)
    BY <1>3, <1>9, <1>11
  <2>2. x.type = "start" /\ x.g \in session /\ ~inst[x.g].active
    BY <1>5, <1>7, <2>1 DEF UseInv, GroupsOwned
  <2>3. QED
    BY <1>10, <2>2
<1>12. \A h \in Groups : Recording(h) => Recording(h)'
  BY <1>7, <1>10
<1>13. Capturing => Capturing'
  BY <1>5, <1>7 DEF Capturing
<1>14. session' \subseteq Groups /\ capt' \in BOOLEAN /\ opened' \in BOOLEAN /\ opened'
  BY <1>1, <1>5 DEF CaptureInv, TypeOK
<1>15. QED
  BY <1>5, <1>8, <1>11, <1>12, <1>13, <1>14, ClientStep

\* A capture session begins: nothing of an earlier one is left.
LEMMA StepCaptureStart ==
    ASSUME CaptureInv, CaptureStart
    PROVE  CaptureInv' /\ OldestStep
<1>1. PICK t \in Types, b \in BOOLEAN :
           Push(<<[Msg("captureStart") EXCEPT !.ctype = t, !.raw = b]>>)
  BY DEF CaptureStart
<1> DEFINE m == [Msg("captureStart") EXCEPT !.ctype = t, !.raw = b]
<1>2. t \in SUBSET AllFlags
  BY CaptureAssumption
<1>3. m \in MsgType /\ m.type = "captureStart"
  BY <1>2 DEF Msg, For, MsgType, MsgTypes, AllKinds
<1>4. Push(<<m>>)
  BY <1>1
<1> HIDE DEF m
<1>5. /\ UseInv /\ Idle /\ opened /\ ~capt /\ capt' = TRUE
      /\ MessagesOK /\ QueueShape /\ q \in Seq(MsgType)
      /\ UNCHANGED <<dir, clock, params, opened, session, seen, MainThread>>
  BY DEF CaptureInv, CaptureStart, UseInv, MessagesOK
<1>6. /\ <<m>> \in Seq(MsgType) /\ <<m>> # <<>> /\ Head(<<m>>) = m
      /\ Tail(<<m>>) = <<>> /\ Range(<<m>>) = {m} /\ Range(<<>>) = {}
  BY <1>3, Single
<1>7. /\ \A h \in Groups : Recording(h) => h \in session
      /\ \A x \in Range(q) : x.type = "start" /\ x.g \in session
      /\ Capturing => capt
      /\ ~Due("captureStop") /\ ~Due("terminate")
  BY <1>5, IdleRecording
<1>8. MessagesOK' /\ QueueShape'
  BY <1>3, <1>4, <1>5, <1>6, <1>7, PushMessages
<1>9. Range(q') = Range(q) \cup {m}
  BY <1>4, <1>5, <1>6, Pushed
<1>10. ~cs.raw /\ cs.files = {}
  BY <1>5, <1>7 DEF UseInv, SessionOwned
<1>11. ASSUME NEW x \in Range(q'), x.type = "start"
       PROVE  Recording(x.g)' /\ ~inst[x.g].active
  <2>1. x \in Range(q)
    BY <1>3, <1>9, <1>11
  <2>2. x.g \in session' /\ ~inst[x.g].active
    BY <1>5, <1>7, <2>1 DEF UseInv, GroupsOwned
  <2>3. QED
    BY <2>2 DEF Recording
<1>12. \A h \in Groups : Recording(h) => Recording(h)'
  BY <1>5, <1>7 DEF Recording
<1>13. Capturing'
  BY <1>5 DEF Capturing
<1>14. session' \subseteq Groups /\ capt' \in BOOLEAN /\ opened' \in BOOLEAN /\ opened'
  BY <1>5 DEF CaptureInv, TypeOK
<1>15. QED
  BY <1>5, <1>8, <1>10, <1>11, <1>12, <1>13, <1>14, ClientStep

\* A capture session is stopped: from here on its stop is due.
LEMMA StepCaptureStop ==
    ASSUME CaptureInv, CaptureStop
    PROVE  CaptureInv' /\ OldestStep
<1> DEFINE m == Msg("captureStop")
<1>1. m \in MsgType /\ m.type = "captureStop"
  BY DEF Msg, MsgType, MsgTypes, AllKinds
<1>2. Push(<<m>>)
  BY DEF CaptureStop
<1> HIDE DEF m
<1>3. /\ UseInv /\ Idle /\ opened /\ capt' = FALSE
      /\ MessagesOK /\ QueueShape /\ q \in Seq(MsgType)
      /\ UNCHANGED <<dir, clock, params, opened, session, seen, MainThread>>
  BY DEF CaptureInv, CaptureStop, UseInv, MessagesOK
<1>4. /\ <<m>> \in Seq(MsgType) /\ <<m>> # <<>> /\ Head(<<m>>) = m
      /\ Tail(<<m>>) = <<>> /\ Range(<<m>>) = {m} /\ Range(<<>>) = {}
  BY <1>1, Single
<1>5. /\ \A h \in Groups : Recording(h) => h \in session
      /\ \A x \in Range(q) : x.type = "start" /\ x.g \in session
  BY <1>3, IdleRecording
<1>6. MessagesOK' /\ QueueShape'
  BY <1>1, <1>2, <1>3, <1>4, <1>5, PushMessages
<1>7. Range(q') = Range(q) \cup {m} /\ Pending' = Range(q) \cup {m}
  BY <1>2, <1>3, <1>4, Pushed
<1>8. ASSUME NEW x \in Range(q'), x.type # "captureStop"
      PROVE  x.type = "start" /\ Recording(x.g)' /\ ~inst[x.g].active
  <2>1. x \in Range(q)
    BY <1>1, <1>7, <1>8
  <2>2. x.type = "start" /\ x.g \in session' /\ ~inst[x.g].active
    BY <1>3, <1>5, <2>1 DEF UseInv, GroupsOwned
  <2>3. QED
    BY <2>2 DEF Recording
<1>9. \A h \in Groups : Recording(h) => Recording(h)'
  BY <1>3, <1>5 DEF Recording
<1>10. Capturing'
  BY <1>1, <1>7 DEF Capturing, Due
<1>11. session' \subseteq Groups /\ capt' \in BOOLEAN /\ opened' \in BOOLEAN /\ opened'
  BY <1>3 DEF CaptureInv, TypeOK
<1>12. QED
  BY <1>3, <1>6, <1>8, <1>9, <1>10, <1>11, ClientStep

\* The messages of xraudio_close.
CloseTodo ==
    If("default" \in session, For("stop", "default"))
      \o If("tap" \in session, For("stop", "tap"))
      \o If(capt, Msg("captureStop")) \o <<Msg("terminate")>>
\* They stop every group and the capture session, and then the thread.
LEMMA CloseMessages ==
    ASSUME session \subseteq Groups
    PROVE  /\ CloseTodo \in Seq(MsgType) /\ CloseTodo # <<>>
           /\ \A m \in Range(CloseTodo) :
                 m.type \in {"stop", "captureStop", "terminate"}
                 /\ (m.type = "stop" => m.g \in Groups)
           /\ \A g \in session : \E m \in Range(CloseTodo) : m.type = "stop" /\ m.g = g
           /\ capt => \E m \in Range(CloseTodo) : m.type = "captureStop"
           /\ \E m \in Range(CloseTodo) : m.type = "terminate"
<1> DEFINE m1 == For("stop", "default")
           m2 == For("stop", "tap")
           m3 == Msg("captureStop")
           m4 == Msg("terminate")
           s1 == If("default" \in session, m1)
           s2 == If("tap" \in session, m2)
           s3 == If(capt, m3)
<1>1. /\ m1 \in MsgType /\ m2 \in MsgType /\ m3 \in MsgType /\ m4 \in MsgType
      /\ m1.type = "stop" /\ m1.g = "default" /\ m2.type = "stop" /\ m2.g = "tap"
      /\ m3.type = "captureStop" /\ m4.type = "terminate"
  BY DEF Msg, For, MsgType, MsgTypes, AllKinds
<1>2. CloseTodo = ((s1 \o s2) \o s3) \o <<m4>>
  BY DEF CloseTodo
<1> HIDE DEF m1, m2, m3, m4
<1>3. \A m \in MsgType : <<m>> \in Seq(MsgType) /\ Range(<<m>>) = {m} /\ Range(<<>>) = {}
  BY Single
<1>4. <<>> \in Seq(MsgType)
  OBVIOUS
<1>5. /\ s1 \in Seq(MsgType) /\ Range(s1) = IF "default" \in session THEN {m1} ELSE {}
      /\ s2 \in Seq(MsgType) /\ Range(s2) = IF "tap" \in session THEN {m2} ELSE {}
      /\ s3 \in Seq(MsgType) /\ Range(s3) = IF capt THEN {m3} ELSE {}
      /\ <<m4>> \in Seq(MsgType) /\ Range(<<m4>>) = {m4}
  BY <1>1, <1>3, <1>4 DEF If
<1> HIDE DEF s1, s2, s3
<1> DEFINE t1 == s1 \o s2
           t2 == t1 \o s3
           t3 == t2 \o <<m4>>
<1>6. t1 \in Seq(MsgType) /\ Range(t1) = Range(s1) \cup Range(s2)
  BY <1>5, RangeConcat
<1> HIDE DEF t1
<1>7. t2 \in Seq(MsgType) /\ Range(t2) = Range(t1) \cup Range(s3)
  BY <1>5, <1>6, RangeConcat
<1> HIDE DEF t2
<1>8. t3 \in Seq(MsgType) /\ Range(t3) = Range(t2) \cup {m4}
  BY <1>5, <1>7, RangeConcat
<1>9. CloseTodo = t3
  BY <1>2 DEF t1, t2
<1> HIDE DEF t3
<1>10. Range(CloseTodo) = Range(s1) \cup Range(s2) \cup Range(s3) \cup {m4}
  BY <1>6, <1>7, <1>8, <1>9
<1>11. CloseTodo # <<>>
  BY <1>10 DEF Range
<1>12. \A m \in Range(CloseTodo) :
          m.type \in {"stop", "captureStop", "terminate"} /\ (m.type = "stop" => m.g \in Groups)
  BY <1>1, <1>5, <1>10
<1>13. ASSUME NEW g \in session
       PROVE  \E m \in Range(CloseTodo) : m.type = "stop" /\ m.g = g
  <2>1. g \in {"default", "tap"}
    BY CaptureAssumption
  <2>2. QED
    BY <1>1, <1>5, <1>10, <2>1
<1>14. capt => \E m \in Range(CloseTodo) : m.type = "captureStop"
  BY <1>1, <1>5, <1>10
<1>15. \E m \in Range(CloseTodo) : m.type = "terminate"
  BY <1>1, <1>10
<1>16. QED
  BY <1>8, <1>9, <1>11, <1>12, <1>13, <1>14, <1>15

\* The close stops what is in progress.
LEMMA StepClose ==
    ASSUME CaptureInv, CloseObject
    PROVE  CaptureInv' /\ OldestStep
<1>1. /\ UseInv /\ Idle /\ opened' = FALSE /\ session' = {} /\ capt' = FALSE
      /\ session \subseteq Groups /\ MessagesOK /\ QueueShape /\ q \in Seq(MsgType)
      /\ UNCHANGED <<dir, clock, params, seen, MainThread>>
      /\ Push(CloseTodo)
  BY DEF CaptureInv, CloseObject, UseInv, MessagesOK, TypeOK, CloseTodo
<1> DEFINE todo == CloseTodo
<1>2. /\ todo \in Seq(MsgType) /\ todo # <<>>
      /\ \A m \in Range(todo) :
            m.type \in {"stop", "captureStop", "terminate"} /\ (m.type = "stop" => m.g \in Groups)
      /\ \A g \in session : \E m \in Range(todo) : m.type = "stop" /\ m.g = g
      /\ capt => \E m \in Range(todo) : m.type = "captureStop"
      /\ \E m \in Range(todo) : m.type = "terminate"
  BY <1>1, CloseMessages
<1>3. Push(todo)
  BY <1>1
<1> HIDE DEF todo
<1>4. Range(todo) = {Head(todo)} \cup Range(Tail(todo))
  BY <1>2, RangeTail
<1>5. /\ \A h \in Groups : Recording(h) => h \in session
      /\ \A x \in Range(q) : x.type = "start" /\ x.g \in session
      /\ Capturing => capt
  BY <1>1, IdleRecording
<1>6. MessagesOK' /\ QueueShape'
  <2>1. /\ \A m \in Range(todo) : m.type \in {"start", "stop"} => m.g \in Groups
        /\ \A m \in Range(Tail(todo)) : m.type \notin {"start", "captureStart"}
        /\ Head(todo).type # "start"
    BY <1>2, <1>4
  <2>2. QED
    BY <1>1, <1>2, <1>3, <1>5, <2>1, PushMessages
<1>7. Range(q') = Range(q) \cup {Head(todo)} /\ Pending' = Range(q) \cup Range(todo)
  BY <1>1, <1>2, <1>3, Pushed
<1>8. \A h \in session : Recording(h)'
  BY <1>2, <1>7 DEF Recording, StopDue
<1>9. ASSUME NEW x \in Range(q'), x.type \in {"start", "captureStart"}
      PROVE  x.type = "start" /\ Recording(x.g)' /\ ~inst[x.g].active
  <2>1. x \in Range(q)
    BY <1>2, <1>4, <1>7, <1>9
  <2>2. x.type = "start" /\ x.g \in session /\ ~inst[x.g].active
    BY <1>1, <1>5, <2>1 DEF UseInv, GroupsOwned
  <2>3. QED
    BY <1>8, <2>2
<1>10. \A h \in Groups : Recording(h) => Recording(h)'
  BY <1>5, <1>8
<1>11. Capturing => Capturing'
  BY <1>2, <1>5, <1>7 DEF Capturing, Due
<1>12. Due("terminate")'
  BY <1>2, <1>7 DEF Due
<1>13. session' \subseteq Groups /\ capt' \in BOOLEAN /\ opened' \in BOOLEAN
  BY <1>1
<1>14. QED
  BY <1>1, <1>6, <1>9, <1>10, <1>11, <1>12, <1>13, ClientStep

\* It sends its messages one after the other.
LEMMA StepSend ==
    ASSUME CaptureInv, Send
    PROVE  CaptureInv' /\ OldestStep
<1> DEFINE todo == call.todo
<1>1. /\ UseInv /\ MessagesOK /\ QueueShape /\ q \in Seq(MsgType)
      /\ todo \in Seq(MsgType) /\ todo # <<>> /\ ~call.waits /\ Push(todo)
      /\ UNCHANGED <<dir, clock, params, opened, session, capt, seen, MainThread>>
      /\ \A m \in Range(todo) : m.type \notin {"start", "captureStart"}
      /\ \A m \in Range(todo) : m.type \in {"start", "stop"} => m.g \in Groups
  BY DEF CaptureInv, Send, UseInv, MessagesOK, CallType, Pending
<1>2. Pending = Range(q) \cup Range(todo)
  BY DEF Pending
<1> HIDE DEF todo
<1>3. Range(todo) = {Head(todo)} \cup Range(Tail(todo))
  BY <1>1, RangeTail
<1>4. \A m \in Range(q) : m.type = "start"
  BY <1>1, Sending
<1>5. MessagesOK' /\ QueueShape'
  <2>1. /\ \A m \in Range(Tail(todo)) : m.type \notin {"start", "captureStart"}
        /\ Head(todo).type # "start"
    BY <1>1, <1>3
  <2>2. QED
    BY <1>1, <1>4, <2>1, PushMessages
<1>6. Range(q') = Range(q) \cup {Head(todo)} /\ Pending' = Pending
  BY <1>1, <1>2, Pushed
<1>7. /\ \A h \in Groups : Recording(h) => Recording(h)'
      /\ Capturing => Capturing'
      /\ \A type : Due(type) => Due(type)'
  BY <1>1, <1>6 DEF Recording, StopDue, Capturing, Due
<1>8. ASSUME NEW x \in Range(q'), x.type \in {"start", "captureStart"}
      PROVE  x.type = "start" /\ Recording(x.g)' /\ ~inst[x.g].active
  <2>1. x \in Range(q)
    BY <1>1, <1>3, <1>6, <1>8
  <2>2. x.type = "start" /\ x.g \in Groups /\ Recording(x.g) /\ ~inst[x.g].active
    BY <1>1, <1>2, <1>4, <2>1 DEF UseInv, GroupsOwned, MessagesOK
  <2>3. QED
    BY <1>7, <2>2
<1>9. /\ session' \subseteq Groups /\ capt' \in BOOLEAN /\ opened' \in BOOLEAN
      /\ ~opened' => session' = {} /\ ~capt'
      /\ thr.qty > 0 => opened' \/ Due("terminate")'
  BY <1>1, <1>7 DEF CaptureInv, TypeOK, UseInv, ObjectOwned
<1>10. QED
  BY <1>1, <1>5, <1>7, <1>8, <1>9, ClientStep

\* Between two calls of a closed object nothing is in use.
LEMMA NothingHeld ==
    ASSUME CaptureInv, Idle, ~opened
    PROVE  /\ \A g \in Groups : ~inst[g].active /\ ~inst[g].raw
           /\ Open(dir) = {} /\ thr.qty = 0 /\ ~test /\ ~rawRec
           /\ ~cs.raw /\ cs.files = {} /\ session = {} /\ ~capt
           /\ Range(q) = {}
<1>1. UseInv /\ session = {} /\ ~capt
  BY DEF CaptureInv, UseInv, ObjectOwned
<1>2. /\ \A g \in Groups : ~Recording(g)
      /\ \A m \in Range(q) : FALSE
      /\ ~Capturing /\ ~Due("terminate")
  BY <1>1, IdleRecording
<1>3. \A g \in Groups : ~inst[g].active /\ ~inst[g].raw
  BY <1>1, <1>2 DEF UseInv, GroupsOwned
<1>4. Open(dir) = {}
  BY <1>3 DEF CaptureInv, FileInv, CapturesFinished
<1>5. thr.qty = 0
  BY <1>1, <1>2, StateTypes DEF CaptureInv, UseInv, ObjectOwned
<1>6. ~cs.raw /\ cs.files = {}
  BY <1>1, <1>2 DEF UseInv, SessionOwned
<1>7. ~rawRec /\ ~test
  BY <1>1, <1>3, <1>6 DEF UseInv, TestOwned
<1>8. QED
  BY <1>1, <1>2, <1>3, <1>4, <1>5, <1>6, <1>7

\* The limit of the files may grow; a limit that changes makes the directory
\* disorderly.
LEMMA StepParams ==
    ASSUME CaptureInv, ParamsSet
    PROVE  CaptureInv' /\ OldestStep
<1>1. PICK n \in Qtys :
         /\ params' = n
         /\ seen' = [seen EXCEPT !.most = IF seen.most > n THEN seen.most ELSE n,
                                 !.orderly = seen.orderly /\ seen.most \in {0, n}]
  BY DEF ParamsSet
<1>2. /\ Idle /\ ~opened
      /\ UNCHANGED <<dir, clock, opened, session, capt, call, q, MainThread>>
      /\ TypeOK /\ UseInv /\ FileInv /\ RotationInv /\ seen \in SeenType
  BY DEF ParamsSet, CaptureInv, UseInv, MessagesOK
<1>3. /\ n \in Nat /\ 0 < n /\ seen.most \in Nat /\ seen.most \in {0} \cup Qtys
  BY <1>2, CaptureAssumption, SeenTypes
<1>4. /\ seen' \in SeenType /\ seen'.stray = seen.stray
      /\ seen'.most = IF seen.most > n THEN seen.most ELSE n
      /\ seen'.orderly <=> seen.orderly /\ seen.most \in {0, n}
  BY <1>1, <1>2, <1>3 DEF SeenType
<1>5. TypeOK'
  BY <1>1, <1>2 DEF TypeOK, MainThread
<1>6. UseInv'
  <2>1. MessagesOK' /\ QueueShape'
    BY <1>2, <1>4 DEF UseInv, MessagesOK, QueueShape, Pending
  <2>2. /\ \A g : Recording(g)' <=> Recording(g)
        /\ Capturing' <=> Capturing
        /\ Due("terminate")' <=> Due("terminate")
    BY <1>2 DEF Recording, StopDue, Capturing, Due, Pending
  <2>3. GroupsOwned' /\ SessionOwned' /\ TestOwned' /\ ObjectOwned'
    BY <1>2, <2>2 DEF UseInv, GroupsOwned, SessionOwned, TestOwned, ObjectOwned, MainThread
  <2>4. QED
    BY <2>1, <2>3 DEF UseInv
<1>7. FileInv'
  BY <1>2, <1>4 DEF FileInv, HandlesOK, FilesHeld, Files, CapturesFinished, Open, MainThread
<1>8. /\ thr.qty = 0 /\ thr' = thr /\ dir' = dir /\ inst' = inst
      /\ \A g \in Groups : ~inst[g].active
  BY <1>2, NothingHeld DEF CaptureInv, MainThread
<1>9. LimitOK'
  <2>1. Present' \subseteq 0 .. seen'.most - 1
    BY <1>2, <1>3, <1>4, <1>8 DEF RotationInv, LimitOK, Present
  <2>2. Timely(dir)'
    BY <1>2 DEF RotationInv, LimitOK, Timely
  <2>3. QED
    BY <1>1, <1>3, <1>4, <1>8, <2>1, <2>2 DEF LimitOK
<1>10. OrderInv'
  <2> SUFFICES ASSUME seen'.orderly PROVE OrderInv'
    BY DEF OrderInv
  <2>1. seen.orderly /\ seen.most \in {0, n} /\ seen'.most = n
    BY <1>3, <1>4
  <2>2. PICK p \in Indexes : Rotates(dir, seen.most, p)
    BY <1>2, <2>1 DEF RotationInv, OrderInv
  <2>3. \E c \in Indexes : Rotates(dir, n, c)
    <3>1. CASE seen.most = n
      BY <2>2, <3>1
    <3>2. CASE seen.most = 0
      <4>1. PresentIn(dir) = {} /\ 0 .. 0 - 1 = {}
        BY <1>2, <3>2 DEF RotationInv, LimitOK, Present, PresentIn
      <4>2. Filled(dir, n, 0)
        BY <1>3, <4>1 DEF Filled
      <4>3. Sorted(dir, 0)
        BY <4>1 DEF Sorted, Open, PresentIn
      <4>4. QED
        BY <4>2, <4>3, MostLimit DEF Rotates
    <3>3. QED
      BY <2>1, <3>1, <3>2
  <2>4. QED
    BY <1>1, <1>8, <2>1, <2>3 DEF OrderInv
<1>11. OldestStep
  BY <1>8, OldestElsewhere
<1>12. QED
  BY <1>5, <1>6, <1>7, <1>9, <1>10, <1>11 DEF CaptureInv, RotationInv

\* An empty directory is in order.
LEMMA StepDelete ==
    ASSUME CaptureInv, DeleteFiles
    PROVE  CaptureInv' /\ OldestStep
<1>1. /\ Idle /\ ~opened /\ dir' = [i \in Indexes |-> NoFile]
      /\ UNCHANGED <<clock, client, q, seen, MainThread>>
      /\ TypeOK /\ UseInv /\ FileInv /\ RotationInv /\ seen \in SeenType
  BY DEF DeleteFiles, CaptureInv, UseInv, MessagesOK
<1>2. /\ thr.qty = 0 /\ thr' = thr /\ inst' = inst /\ params' = params
      /\ \A g \in Groups : ~inst[g].active
      /\ clock' = clock /\ clock \in Nat /\ seen.most \in Nat
  BY <1>1, NothingHeld, StateTypes, SeenTypes DEF CaptureInv, MainThread, client
<1>3. /\ dir' \in [Indexes -> FileType]
      /\ \A i \in Indexes : dir'[i] = NoFile /\ dir'[i].st = "none" /\ dir'[i].time = 0
  <2>1. NoFile \in FileType /\ NoFile.st = "none" /\ NoFile.time = 0
    BY CaptureAssumption DEF NoFile, FileType
  <2>2. QED
    BY <1>1, <2>1
<1>4. TypeOK'
  BY <1>1, <1>3 DEF TypeOK, MainThread, client, FileType
<1>5. UseInv'
  <2>1. MessagesOK' /\ QueueShape'
    BY <1>1 DEF UseInv, MessagesOK, QueueShape, Pending, client
  <2>2. /\ \A g : Recording(g)' <=> Recording(g)
        /\ Capturing' <=> Capturing
        /\ Due("terminate")' <=> Due("terminate")
    BY <1>1 DEF Recording, StopDue, Capturing, Due, Pending, client
  <2>3. GroupsOwned' /\ SessionOwned' /\ TestOwned' /\ ObjectOwned'
    BY <1>1, <2>2 DEF UseInv, GroupsOwned, SessionOwned, TestOwned, ObjectOwned,
                      MainThread, client
  <2>4. QED
    BY <2>1, <2>3 DEF UseInv
<1>6. FileInv'
  <2>1. HandlesOK'
    BY <1>1, <1>2 DEF FileInv, HandlesOK
  <2>2. FilesHeld'
    BY <1>2 DEF FilesHeld
  <2>3. CapturesFinished'
    BY <1>1, <1>3 DEF FileInv, CapturesFinished, Open
  <2>4. QED
    BY <2>1, <2>2, <2>3 DEF FileInv
<1>7. PresentIn(dir') = {} /\ Present' = {} /\ Open(dir') = {}
  BY <1>3 DEF PresentIn, Present, Open
<1>8. LimitOK'
  <2>1. Timely(dir)'
    BY <1>2, <1>3 DEF Timely
  <2>2. QED
    BY <1>1, <1>2, <1>7, <2>1 DEF RotationInv, LimitOK
<1>9. OrderInv'
  <2>1. Rotates(dir', seen.most, 0)
    <3>1. PresentIn(dir') = 0 .. 0 - 1 /\ 0 .. 0 - 1 = {}
      BY <1>7
    <3>2. Filled(dir', seen.most, 0)
      BY <1>2, <3>1 DEF Filled
    <3>3. Sorted(dir', 0)
      BY <1>7 DEF Sorted
    <3>4. QED
      BY <3>2, <3>3 DEF Rotates
  <2>2. QED
    BY <1>1, <1>2, <2>1, MostLimit DEF RotationInv, OrderInv
<1>10. OldestStep
  BY <1>3, OldestElsewhere
<1>11. QED
  BY <1>4, <1>5, <1>6, <1>8, <1>9, <1>10 DEF CaptureInv, RotationInv

\* The object opens with nothing but the place where the rotation goes on.
LEMMA StepOpen ==
    ASSUME CaptureInv, OpenObject
    PROVE  CaptureInv' /\ OldestStep
<1>1. /\ Idle /\ ~opened /\ opened' = TRUE
      /\ thr' = IF params = 0 THEN Off ELSE [qty |-> params, index |-> NextIndex(params)]
      /\ inst' = [g \in Groups |-> NoInst] /\ rawRec' = FALSE /\ cs' = NoCs
      /\ UNCHANGED <<dir, clock, params, session, capt, call, q, test, seen>>
      /\ TypeOK /\ UseInv /\ FileInv /\ RotationInv /\ seen \in SeenType
  BY DEF OpenObject, CaptureInv, UseInv, MessagesOK
<1>2. /\ Open(dir) = {} /\ ~test /\ session = {} /\ ~capt /\ Range(q) = {}
  BY <1>1, NothingHeld
<1>3. /\ dir \in [Indexes -> FileType] /\ params \in {0} \cup Qtys /\ params \in Nat
      /\ seen.most \in Nat /\ seen.most <= Most /\ Most \in Nat \ {0}
      /\ params <= seen.most /\ Present \subseteq 0 .. seen.most - 1
  BY <1>1, StateTypes, SeenTypes, MostLimit DEF RotationInv, LimitOK
<1>4. params # 0 => NextIndex(params) \in 0 .. seen.most - 1
  BY <1>3, NextIndexBelow
<1>5. /\ thr' \in [qty : {0} \cup Qtys, index : 0 .. Most - 1]
      /\ thr'.qty = params
      /\ thr'.qty > 0 => thr'.index = NextIndex(params) /\ thr'.index \in 0 .. seen.most - 1
  <2>1. CASE params = 0
    BY <1>1, <1>3, <2>1 DEF Off
  <2>2. CASE params # 0
    <3>1. NextIndex(params) \in 0 .. Most - 1
      BY <1>3, <1>4, <2>2
    <3>2. QED
      BY <1>1, <1>3, <1>4, <2>2, <3>1
  <2>3. QED
    BY <2>1, <2>2
<1>6. /\ NoInst \in InstType /\ ~NoInst.active /\ ~NoInst.raw
      /\ NoInst.native = Null /\ NoInst.decoded = Null
  BY DEF NoInst, InstType, HandleType
<1>7. /\ inst' \in [Groups -> InstType]
      /\ \A g \in Groups : inst'[g] = NoInst
  BY <1>1, <1>6
<1>8. TypeOK'
  <2>1. cs' \in [active : BOOLEAN, type : SUBSET AllFlags, raw : BOOLEAN,
                 files : SUBSET ((AllFlags \cup {"input"}) \X {0, 1})]
    BY <1>1 DEF NoCs
  <2>2. QED
    BY <1>1, <1>5, <1>7, <2>1 DEF TypeOK
<1>9. UseInv'
  <2>1. MessagesOK' /\ QueueShape'
    BY <1>1 DEF UseInv, MessagesOK, QueueShape, Pending
  <2>2. GroupsOwned'
    BY <1>1, <1>2, <1>6, <1>7 DEF GroupsOwned
  <2>3. SessionOwned' /\ TestOwned'
    BY <1>1, <1>2 DEF SessionOwned, TestOwned, NoCs
  <2>4. ObjectOwned'
    BY <1>1 DEF ObjectOwned
  <2>5. QED
    BY <2>1, <2>2, <2>3, <2>4 DEF UseInv
<1>10. FileInv'
  <2>1. HandlesOK'
    BY <1>6, <1>7 DEF HandlesOK, HandleOK
  <2>2. FilesHeld'
    BY <1>6, <1>7 DEF FilesHeld
  <2>3. CapturesFinished'
    BY <1>1, <1>2 DEF FileInv, CapturesFinished, Open
  <2>4. QED
    BY <2>1, <2>2, <2>3 DEF FileInv
<1>11. LimitOK'
  <2>1. Present' = Present /\ Timely(dir)' 
    BY <1>1 DEF Present, RotationInv, LimitOK, Timely
  <2>2. thr'.qty > 0 => thr'.index < seen.most
    BY <1>3, <1>5
  <2>3. QED
    BY <1>1, <1>3, <1>5, <2>1, <2>2 DEF LimitOK
<1>12. OrderInv'
  <2> SUFFICES ASSUME seen.orderly PROVE OrderInv'
    BY <1>1 DEF OrderInv
  <2>1. params \in {0, seen.most}
    BY <1>1 DEF RotationInv, OrderInv
  <2>2. PICK p \in Indexes : Rotates(dir, seen.most, p)
    BY <1>1 DEF RotationInv, OrderInv
  <2>3. \A g, h \in Groups : inst'[g].active /\ inst'[h].active => g = h
    BY <1>6, <1>7
  <2>4. CASE params = 0
    BY <1>1, <1>5, <2>2, <2>3, <2>4 DEF OrderInv
  <2>5. CASE params = seen.most /\ params # 0
    <3>1. 0 < params
      BY <1>3, <2>5
    <3>2. NextIndex(params) \in Indexes /\ Rotates(dir, params, NextIndex(params))
      BY <1>2, <1>3, <2>2, <2>5, <3>1, NextIndexRotates
    <3>3. thr'.index = NextIndex(params)
      BY <1>3, <1>5, <3>1
    <3>4. QED
      BY <1>1, <1>5, <2>3, <2>5, <3>2, <3>3 DEF OrderInv
  <2>6. QED
    BY <2>1, <2>4, <2>5
<1>13. OldestStep
  BY <1>1, OldestElsewhere
<1>14. QED
  BY <1>8, <1>9, <1>10, <1>11, <1>12, <1>13 DEF CaptureInv, RotationInv

-----------------------------------------------------------------------------
(* The steps of the main thread.                                           *)

\* A message that is handled is no longer due; the others are.
LEMMA Handled ==
    ASSUME UseInv, q # <<>>, Take, UNCHANGED <<session, capt>>,
           seen' \in SeenType, call' \in CallType, call'.todo = call.todo,
           call' = call \/ Head(q).type # "start"
    PROVE  /\ MessagesOK' /\ QueueShape'
           /\ Head(q) \in MsgType /\ Head(q) \in Range(q)
           /\ Head(q).type \in {"start", "stop"} => Head(q).g \in Groups
           /\ Range(q') \subseteq Range(q)
           /\ Head(q).type # "start" => Range(q') = {}
           /\ Head(q).type = "start" =>
                 \A m \in Range(q') : m.type = "start" => m.g # Head(q).g
           /\ \A g : Recording(g) => Recording(g)' \/ (Head(q).type = "stop" /\ Head(q).g = g)
           /\ Capturing => Capturing' \/ Head(q).type = "captureStop"
           /\ Due("terminate") => Due("terminate")' \/ Head(q).type = "terminate"
<1>1. /\ MessagesOK' /\ QueueShape'
      /\ Pending = {Head(q)} \cup Pending'
      /\ Head(q) \in MsgType /\ Head(q) \in Range(q)
      /\ Head(q).type \in {"start", "stop"} => Head(q).g \in Groups
      /\ Range(q') \subseteq Range(q)
      /\ Head(q).type # "start" => Range(q') = {}
      /\ Head(q).type = "start" =>
            \A m \in Range(q') : m.type = "start" => m.g # Head(q).g
  BY TakeMessages DEF UseInv
<1>2. \A g : Recording(g) => Recording(g)' \/ (Head(q).type = "stop" /\ Head(q).g = g)
  BY <1>1 DEF Recording, StopDue
<1>3. /\ Capturing => Capturing' \/ Head(q).type = "captureStop"
      /\ Due("terminate") => Due("terminate")' \/ Head(q).type = "terminate"
  BY <1>1 DEF Capturing, Due
<1>4. QED
  BY <1>1, <1>2, <1>3

\* The main thread wakes the client.
LEMMA Posted ==
    ASSUME call \in CallType, Post
    PROVE  call' \in CallType /\ call'.todo = call.todo
BY DEF CallType, Post

\* The client waits for the stop of a capture session, of which nothing stays.
LEMMA StepSessionStop ==
    ASSUME CaptureInv, SessionStop
    PROVE  CaptureInv' /\ OldestStep
<1> DEFINE files == {f \in cs.files : f[1] # "output" /\ f[2] \notin Channels(cs.type)}
<1>1. /\ q # <<>> /\ Head(q).type = "captureStop" /\ Take /\ Post
      /\ cs' = [NoCs EXCEPT !.files = files]
      /\ test' = (test /\ ~cs.raw)
      /\ UNCHANGED <<dir, clock, params, opened, session, capt, thr, inst, rawRec, seen>>
      /\ TypeOK /\ UseInv /\ FileInv /\ RotationInv /\ seen \in SeenType /\ call \in CallType
  BY DEF SessionStop, Received, CaptureInv, UseInv, MessagesOK
<1>2. call' \in CallType /\ call'.todo = call.todo
  BY <1>1, Posted
<1>3. /\ MessagesOK' /\ QueueShape' /\ Range(q') = {}
      /\ \A g : Recording(g) => Recording(g)'
      /\ Due("terminate") => Due("terminate")'
  BY <1>1, <1>2, Handled
<1>4. files = {}
  <2>1. ASSUME NEW f \in cs.files PROVE f[1] = "output" \/ f[2] \in Channels(cs.type)
    <3>1. f \in Points(cs.type)
      BY <1>1 DEF UseInv, SessionOwned
    <3>2. QED
      BY <3>1 DEF Points
  <2>2. QED
    BY <2>1
<1>5. /\ ~cs'.raw /\ cs'.files = {} /\ ~cs'.active /\ cs'.type = {}
      /\ cs' \in [active : BOOLEAN, type : SUBSET AllFlags, raw : BOOLEAN,
                  files : SUBSET ((AllFlags \cup {"input"}) \X {0, 1})]
  BY <1>1, <1>4 DEF NoCs
<1>6. TypeOK'
  BY <1>1, <1>5 DEF TypeOK
<1>7. UseInv'
  <2>1. GroupsOwned'
    BY <1>1, <1>3 DEF UseInv, GroupsOwned
  <2>2. SessionOwned'
    BY <1>3, <1>5 DEF SessionOwned
  <2>3. TestOwned' /\ ObjectOwned'
    BY <1>1, <1>3 DEF UseInv, TestOwned, ObjectOwned
  <2>4. QED
    BY <1>3, <2>1, <2>2, <2>3 DEF UseInv
<1>8. FileInv'
  BY <1>1 DEF FileInv, HandlesOK, FilesHeld, Files, CapturesFinished, Open
<1>9. RotationInv'
  BY <1>1, RotationStays
<1>10. OldestStep
  BY <1>1, OldestElsewhere
<1>11. QED
  BY <1>6, <1>7, <1>8, <1>9, <1>10 DEF CaptureInv

\* A capture session starts with files of its own type.
LEMMA StepSessionStart ==
    ASSUME CaptureInv, SessionStart
    PROVE  CaptureInv' /\ OldestStep
<1> DEFINE m == Head(q)
<1>1. /\ q # <<>> /\ m.type = "captureStart" /\ Take /\ Post
      /\ UNCHANGED <<dir, clock, params, opened, session, capt, thr, inst, rawRec, seen>>
      /\ TypeOK /\ UseInv /\ FileInv /\ RotationInv /\ seen \in SeenType /\ call \in CallType
  BY DEF SessionStart, Received, CaptureInv, UseInv, MessagesOK
<1>2. PICK failed \in SUBSET Points(m.ctype), ok \in BOOLEAN :
         /\ RawOn(m.raw, ok)
         /\ cs' = [active |-> TRUE, type |-> m.ctype, raw |-> m.raw /\ ok,
                   files |-> Points(m.ctype) \ failed]
  BY DEF SessionStart
<1>3. call' \in CallType /\ call'.todo = call.todo
  BY <1>1, Posted
<1>4. /\ MessagesOK' /\ QueueShape' /\ Range(q') = {} /\ m \in MsgType /\ m \in Range(q)
      /\ \A g : Recording(g) => Recording(g)'
      /\ Due("terminate") => Due("terminate")'
  BY <1>1, <1>3, Handled
<1>5. capt /\ ~cs.raw /\ cs.files = {}
  BY <1>1, <1>4 DEF UseInv, SessionOwned
<1>6. m.ctype \in SUBSET AllFlags /\ m.raw \in BOOLEAN
  BY <1>4 DEF MsgType
<1> HIDE DEF m
<1>7. Points(m.ctype) \subseteq (AllFlags \cup {"input"}) \X {0, 1}
  BY <1>6 DEF Points, Channels, AllFlags
<1>8. /\ cs'.files \subseteq Points(cs'.type) /\ (cs'.raw <=> m.raw /\ ok)
      /\ cs' \in [active : BOOLEAN, type : SUBSET AllFlags, raw : BOOLEAN,
                  files : SUBSET ((AllFlags \cup {"input"}) \X {0, 1})]
  BY <1>2, <1>6, <1>7
<1>9. test' = (test \/ (m.raw /\ ok)) /\ test' \in BOOLEAN
  BY <1>2 DEF RawOn
<1>10. TypeOK'
  BY <1>1, <1>8, <1>9 DEF TypeOK
<1>11. UseInv'
  <2>1. GroupsOwned'
    BY <1>1, <1>4 DEF UseInv, GroupsOwned
  <2>2. SessionOwned'
    BY <1>1, <1>4, <1>5, <1>8 DEF SessionOwned, Capturing
  <2>3. TestOwned'
    BY <1>1, <1>5, <1>8, <1>9 DEF UseInv, TestOwned
  <2>4. ObjectOwned'
    BY <1>1, <1>4 DEF UseInv, ObjectOwned
  <2>5. QED
    BY <1>4, <2>1, <2>2, <2>3, <2>4 DEF UseInv
<1>12. FileInv'
  BY <1>1 DEF FileInv, HandlesOK, FilesHeld, Files, CapturesFinished, Open
<1>13. RotationInv'
  BY <1>1, RotationStays
<1>14. OldestStep
  BY <1>1, OldestElsewhere
<1>15. QED
  BY <1>10, <1>11, <1>12, <1>13, <1>14 DEF CaptureInv

\* The main thread ends.
LEMMA StepTerminated ==
    ASSUME CaptureInv, Terminated
    PROVE  CaptureInv' /\ OldestStep
<1>1. /\ q # <<>> /\ Head(q).type = "terminate" /\ Take /\ Post /\ thr' = Off
      /\ UNCHANGED <<dir, clock, params, opened, session, capt, inst, rawRec, cs, test, seen>>
      /\ TypeOK /\ UseInv /\ FileInv /\ RotationInv /\ seen \in SeenType /\ call \in CallType
  BY DEF Terminated, Received, CaptureInv, UseInv, MessagesOK
<1>2. call' \in CallType /\ call'.todo = call.todo
  BY <1>1, Posted
<1>3. /\ MessagesOK' /\ QueueShape' /\ Range(q') = {}
      /\ \A g : Recording(g) => Recording(g)'
      /\ Capturing => Capturing'
  BY <1>1, <1>2, Handled
<1>4. thr'.qty = 0 /\ thr' \in [qty : {0} \cup Qtys, index : 0 .. Most - 1]
  BY <1>1, MostLimit DEF Off
<1>5. TypeOK'
  BY <1>1, <1>4 DEF TypeOK
<1>6. UseInv'
  <2>1. GroupsOwned' /\ SessionOwned' /\ TestOwned'
    BY <1>1, <1>3 DEF UseInv, GroupsOwned, SessionOwned, TestOwned
  <2>2. ObjectOwned'
    BY <1>1, <1>4 DEF UseInv, ObjectOwned
  <2>3. QED
    BY <1>3, <2>1, <2>2 DEF UseInv
<1>7. FileInv'
  BY <1>1 DEF FileInv, HandlesOK, FilesHeld, Files, CapturesFinished, Open
<1>8. RotationInv'
  BY <1>1, RotationStays
<1>9. OldestStep
  BY <1>1, OldestElsewhere
<1>10. QED
  BY <1>5, <1>6, <1>7, <1>8, <1>9 DEF CaptureInv

\* A write of a capture session fails, and time passes.
LEMMA StepQuiet ==
    ASSUME CaptureInv, SessionWriteFails \/ Tick \/ UNCHANGED vars
    PROVE  CaptureInv' /\ OldestStep
<1>1. /\ UNCHANGED <<dir, client, q, thr, inst, rawRec, test, seen>>
      /\ clock' \in {clock, clock + 1} /\ clock' \in 0 .. MaxClock
      /\ cs' \in [active : BOOLEAN, type : SUBSET AllFlags, raw : BOOLEAN,
                  files : SUBSET ((AllFlags \cup {"input"}) \X {0, 1})]
      /\ cs'.raw = cs.raw /\ cs'.files = cs.files /\ cs'.type = cs.type
  <2>1. /\ cs \in [active : BOOLEAN, type : SUBSET AllFlags, raw : BOOLEAN,
                   files : SUBSET ((AllFlags \cup {"input"}) \X {0, 1})]
        /\ clock \in 0 .. MaxClock /\ clock \in Nat /\ MaxClock \in Nat
    BY CaptureAssumption DEF CaptureInv, TypeOK
  <2>2. CASE SessionWriteFails
    BY <2>1, <2>2 DEF SessionWriteFails
  <2>3. CASE Tick
    BY <2>1, <2>3 DEF Tick
  <2>4. CASE UNCHANGED vars
    BY <2>1, <2>4 DEF vars, client
  <2>5. QED
    BY <2>2, <2>3, <2>4
<1>2. TypeOK /\ UseInv /\ FileInv /\ RotationInv /\ seen \in SeenType
  BY DEF CaptureInv, UseInv, MessagesOK
<1>3. TypeOK'
  BY <1>1, <1>2 DEF TypeOK, client
<1>4. UseInv'
  <2>1. MessagesOK' /\ QueueShape'
    BY <1>1, <1>2 DEF UseInv, MessagesOK, QueueShape, Pending, client
  <2>2. /\ \A g : Recording(g)' <=> Recording(g)
        /\ Capturing' <=> Capturing
        /\ Due("terminate")' <=> Due("terminate")
    BY <1>1 DEF Recording, StopDue, Capturing, Due, Pending, client
  <2>3. GroupsOwned' /\ SessionOwned' /\ TestOwned' /\ ObjectOwned'
    BY <1>1, <1>2, <2>2 DEF UseInv, GroupsOwned, SessionOwned, TestOwned, ObjectOwned, client
  <2>4. QED
    BY <2>1, <2>3 DEF UseInv
<1>5. FileInv'
  BY <1>1, <1>2 DEF FileInv, HandlesOK, FilesHeld, Files, CapturesFinished, Open
<1>6. RotationInv'
  BY <1>1, <1>2, RotationStays DEF client
<1>7. OldestStep
  BY <1>1, OldestElsewhere
<1>8. QED
  BY <1>3, <1>4, <1>5, <1>6, <1>7 DEF CaptureInv

\* A recording that ends, in what is used.
LEMMA StepInternalEnds ==
    ASSUME CaptureInv, InternalEnds
    PROVE  CaptureInv' /\ OldestStep
<1>1. PICK g \in Groups : inst[g].active /\ End(g, inst[g])
  BY DEF InternalEnds
<1>2. /\ UNCHANGED <<clock, client, q, thr, rawRec, cs, test>>
      /\ TypeOK /\ UseInv /\ FileInv /\ RotationInv /\ seen \in SeenType /\ HandlesOK
      /\ inst \in [Groups -> InstType]
  BY StateTypes DEF InternalEnds, CaptureInv, UseInv, MessagesOK, FileInv
<1>3. EndedFiles(g, inst[g].raw)
  BY <1>1, <1>2, EndTouches
<1>4. /\ FileInv' /\ RotationInv'
  BY <1>1, <1>2, <1>3, FilesEnded, RotationEnded DEF client
<1>5. /\ inst' \in [Groups -> InstType] /\ dir' \in [Indexes -> FileType] /\ seen' = seen
      /\ \A h \in Groups : inst'[h].raw = inst[h].raw
      /\ \A h \in Groups : inst'[h].active => inst[h].active
      /\ \A i \in Indexes : dir'[i] = dir[i] \/ dir'[i] = Whole
  BY <1>3 DEF EndedFiles
<1>6. TypeOK'
  BY <1>2, <1>5 DEF TypeOK, FileType, client
<1>7. UseInv'
  <2>1. MessagesOK' /\ QueueShape'
    BY <1>2, <1>5 DEF UseInv, MessagesOK, QueueShape, Pending, client
  <2>2. /\ \A h : Recording(h)' <=> Recording(h)
        /\ Capturing' <=> Capturing
        /\ Due("terminate")' <=> Due("terminate")
    BY <1>2 DEF Recording, StopDue, Capturing, Due, Pending, client
  <2>3. GroupsOwned'
    <3>1. ASSUME NEW m \in Range(q'), m.type = "start"
          PROVE  Recording(m.g)' /\ ~inst'[m.g].active
      <4>1. m \in Range(q) /\ m.g \in Groups
        BY <1>2, <3>1 DEF UseInv, MessagesOK, Pending, client
      <4>2. QED
        BY <1>2, <1>5, <2>2, <3>1, <4>1 DEF UseInv, GroupsOwned
    <3>2. \A h \in Groups : inst'[h].active \/ inst'[h].raw => Recording(h)'
      BY <1>2, <1>5, <2>2 DEF UseInv, GroupsOwned
    <3>3. QED
      BY <3>1, <3>2 DEF GroupsOwned
  <2>4. SessionOwned' /\ TestOwned' /\ ObjectOwned'
    BY <1>2, <1>5, <2>2 DEF UseInv, SessionOwned, TestOwned, ObjectOwned, client
  <2>5. QED
    BY <2>1, <2>3, <2>4 DEF UseInv
<1>8. OldestStep
  <2>1. Whole.st # "open"
    BY DEF Whole
  <2>2. QED
    BY <1>5, <2>1, OldestElsewhere
<1>9. QED
  BY <1>4, <1>6, <1>7, <1>8 DEF CaptureInv

\* What a change of raw, and the end of the capture if there is one, do to the
\* instance and to the files.
LEMMA StopTouches ==
    ASSUME CaptureInv, NEW g \in Groups, NEW new \in InstType,
           new.active = inst[g].active, new.two = inst[g].two,
           new.native = inst[g].native, new.decoded = inst[g].decoded,
           UNCHANGED <<clock, params, thr>>,
           IF inst[g].active THEN End(g, new)
           ELSE inst' = [inst EXCEPT ![g] = new] /\ UNCHANGED <<dir, seen>>
    PROVE  /\ FileInv' /\ RotationInv' /\ seen' = seen
           /\ inst' \in [Groups -> InstType] /\ dir' \in [Indexes -> FileType]
           /\ inst'[g].raw = new.raw /\ ~inst'[g].active
           /\ \A h \in Groups \ {g} : inst'[h] = inst[h]
           /\ \A i \in Indexes : dir'[i] = dir[i] \/ dir'[i] = Whole
<1>1. /\ TypeOK /\ FileInv /\ RotationInv /\ seen \in SeenType /\ HandlesOK
      /\ inst \in [Groups -> InstType] /\ dir \in [Indexes -> FileType]
  BY StateTypes DEF CaptureInv, UseInv, MessagesOK, FileInv
<1>2. CASE inst[g].active
  <2>1. End(g, new)
    BY <1>2
  <2>2. EndedFiles(g, new.raw)
    BY <1>1, <1>2, <2>1, EndTouches
  <2>3. FileInv' /\ RotationInv'
    BY <1>1, <1>2, <2>2, FilesEnded, RotationEnded
  <2>4. QED
    BY <2>2, <2>3 DEF EndedFiles
<1>3. CASE ~inst[g].active
  <2>1. inst' = [inst EXCEPT ![g] = new] /\ UNCHANGED <<dir, seen>>
    BY <1>3
  <2>2. /\ inst' \in [Groups -> InstType] /\ inst'[g] = new
        /\ \A h \in Groups \ {g} : inst'[h] = inst[h]
    BY <1>1, <2>1
  <2>3. \A h \in Groups : inst'[h].active <=> inst[h].active
    BY <1>3, <2>2
  <2>4. FileInv'
    <3>1. HandleOK(inst[g]) /\ ~new.active
      BY <1>1, <1>3 DEF HandlesOK
    <3>2. HandleOK(new)
      BY <1>3, <3>1 DEF HandleOK
    <3>3. HandlesOK'
      BY <1>1, <2>2, <3>2 DEF HandlesOK
    <3>4. \A h \in Groups : inst'[h].active => inst'[h] = inst[h] /\ Files(h)' = Files(h)
      BY <2>2, <3>1 DEF Files
    <3>5. FilesHeld'
      BY <1>1, <2>1, <2>3, <3>4 DEF FileInv, FilesHeld, Open
    <3>6. ASSUME NEW i \in Open(dir')
          PROVE  \E h \in Groups : inst'[h].active /\ i \in Handles(inst'[h])
      <4>1. PICK h \in Groups : inst[h].active /\ i \in Handles(inst[h])
        BY <1>1, <2>1, <3>6 DEF FileInv, CapturesFinished
      <4>2. QED
        BY <2>3, <3>4, <4>1
    <3>7. CapturesFinished'
      BY <1>1, <2>1, <3>6 DEF FileInv, CapturesFinished
    <3>8. QED
      BY <3>3, <3>5, <3>7 DEF FileInv
  <2>5. RotationInv'
    BY <1>1, <2>1, <2>3, RotationStays
  <2>6. QED
    BY <1>3, <2>1, <2>2, <2>3, <2>4, <2>5, <1>1
<1>4. QED
  BY <1>2, <1>3

\* The stop of a recording ends its capture, and the raw mode with the last of
\* its causes.
LEMMA StepRecordStop ==
    ASSUME CaptureInv, RecordStop
    PROVE  CaptureInv' /\ OldestStep
<1> DEFINE g == Head(q).g
           new == [inst[g] EXCEPT !.raw = FALSE]
<1>1. /\ q # <<>> /\ Head(q).type = "stop" /\ Take /\ Post
      /\ IF inst[g].active THEN End(g, new)
         ELSE inst' = [inst EXCEPT ![g] = new] /\ UNCHANGED <<dir, seen>>
      /\ test' = (test /\ ~(inst[g].raw /\ rawRec))
      /\ rawRec' = (rawRec /\ ~(inst[g].raw /\ rawRec))
      /\ UNCHANGED <<clock, params, opened, session, capt, thr, cs>>
      /\ TypeOK /\ UseInv /\ FileInv /\ RotationInv /\ seen \in SeenType /\ call \in CallType
      /\ inst \in [Groups -> InstType]
  BY StateTypes DEF RecordStop, Received, CaptureInv, UseInv, MessagesOK
<1>2. call' \in CallType /\ call'.todo = call.todo
  BY <1>1, Posted
<1>3. g \in Groups
  <2>1. Head(q) \in Range(q)
    <3>1. q \in Seq(MsgType)
      BY <1>1 DEF UseInv, MessagesOK
    <3>2. QED
      BY <1>1, <3>1, Taken
  <2>2. QED
    BY <1>1, <2>1 DEF UseInv, MessagesOK, Pending
<1>4. /\ new \in InstType /\ ~new.raw /\ new.active = inst[g].active
      /\ new.two = inst[g].two /\ new.native = inst[g].native
      /\ new.decoded = inst[g].decoded
  BY <1>1, <1>3 DEF InstType
<1> HIDE DEF new
<1>5. /\ FileInv' /\ RotationInv' /\ seen' = seen
      /\ inst' \in [Groups -> InstType] /\ dir' \in [Indexes -> FileType]
      /\ inst'[g].raw = new.raw /\ ~inst'[g].active
      /\ \A h \in Groups \ {g} : inst'[h] = inst[h]
      /\ \A i \in Indexes : dir'[i] = dir[i] \/ dir'[i] = Whole
  BY <1>1, <1>3, <1>4, StopTouches
<1>6. /\ MessagesOK' /\ QueueShape' /\ Range(q') = {}
      /\ \A h : Recording(h) => Recording(h)' \/ h = g
      /\ Capturing => Capturing'
      /\ Due("terminate") => Due("terminate")'
  BY <1>1, <1>2, <1>5, Handled
<1>7. TypeOK'
  BY <1>1, <1>5 DEF TypeOK, FileType
<1>8. UseInv'
  <2>1. \A h \in Groups : inst'[h].active \/ inst'[h].raw => Recording(h)'
    <3>1. TAKE h \in Groups
    <3>2. CASE h = g
      BY <1>4, <1>5, <3>2
    <3>3. CASE h # g
      BY <1>1, <1>5, <1>6, <3>3 DEF UseInv, GroupsOwned
    <3>4. QED
      BY <3>2, <3>3
  <2>2. GroupsOwned'
    BY <1>6, <2>1 DEF GroupsOwned
  <2>3. SessionOwned' /\ ObjectOwned'
    BY <1>1, <1>6 DEF UseInv, SessionOwned, ObjectOwned
  <2>4. rawRec' => \E h \in Groups : inst'[h].raw
    <3>1. SUFFICES ASSUME rawRec' PROVE \E h \in Groups : inst'[h].raw
      OBVIOUS
    <3>2. rawRec /\ ~inst[g].raw
      BY <1>1, <3>1
    <3>3. PICK h \in Groups : inst[h].raw
      BY <1>1, <3>2 DEF UseInv, TestOwned
    <3>4. QED
      BY <1>5, <3>2, <3>3
  <2>5. TestOwned'
    BY <1>1, <2>4 DEF UseInv, TestOwned
  <2>6. QED
    BY <1>6, <2>2, <2>3, <2>5 DEF UseInv
<1>9. OldestStep
  <2>1. Whole.st # "open"
    BY DEF Whole
  <2>2. QED
    BY <1>5, <2>1, OldestElsewhere
<1>10. QED
  BY <1>5, <1>7, <1>8, <1>9 DEF CaptureInv

\* What the start of a recording does to the instance, the files and the index.
LEMMA StartTouches ==
    ASSUME CaptureInv, NEW g \in Groups, ~inst[g].active, NEW kind, NEW raw \in BOOLEAN,
           UNCHANGED <<clock, params>>,
           IF thr.qty = 0
           THEN /\ inst' = [inst EXCEPT ![g].raw = raw]
                /\ UNCHANGED <<dir, thr, seen>>
           ELSE \E fails \in 0 .. (IF kind = "decoded" THEN 2 ELSE 1) :
                   Begin(g, kind, raw, fails)
    PROVE  /\ FileInv' /\ RotationInv' /\ OldestStep /\ seen' \in SeenType
           /\ inst' \in [Groups -> InstType] /\ dir' \in [Indexes -> FileType]
           /\ thr' \in [qty : {0} \cup Qtys, index : 0 .. Most - 1] /\ thr'.qty = thr.qty
           /\ inst'[g].raw = raw
           /\ \A h \in Groups \ {g} : inst'[h].raw = inst[h].raw
                                      /\ inst'[h].active = inst[h].active
<1>1. /\ TypeOK /\ FileInv /\ RotationInv /\ LimitOK /\ OrderInv
      /\ seen \in SeenType /\ HandlesOK
      /\ inst \in [Groups -> InstType] /\ dir \in [Indexes -> FileType]
      /\ thr \in [qty : {0} \cup Qtys, index : 0 .. Most - 1] /\ thr.qty \in Nat
  BY StateTypes DEF CaptureInv, UseInv, MessagesOK, FileInv, RotationInv
<1>2. CASE thr.qty = 0
  <2> DEFINE new == [inst[g] EXCEPT !.raw = raw]
  <2>1. inst' = [inst EXCEPT ![g] = new] /\ UNCHANGED <<dir, thr, seen>>
    BY <1>2
  <2>2. /\ new \in InstType /\ new.raw = raw /\ new.active = inst[g].active
        /\ new.two = inst[g].two /\ new.native = inst[g].native
        /\ new.decoded = inst[g].decoded
    BY <1>1 DEF InstType
  <2> HIDE DEF new
  <2>3. IF inst[g].active THEN End(g, new)
        ELSE inst' = [inst EXCEPT ![g] = new] /\ UNCHANGED <<dir, seen>>
    BY <2>1
  <2>4. /\ FileInv' /\ RotationInv' /\ inst' \in [Groups -> InstType]
        /\ inst'[g].raw = raw /\ \A h \in Groups \ {g} : inst'[h] = inst[h]
    BY <2>1, <2>2, <2>3, StopTouches
  <2>5. OldestStep
    BY <2>1, OldestElsewhere
  <2>6. QED
    BY <1>1, <2>1, <2>4, <2>5
<1>3. CASE thr.qty # 0
  <2>1. PICK fails \in 0 .. (IF kind = "decoded" THEN 2 ELSE 1) : Begin(g, kind, raw, fails)
    BY <1>3
  <2>2. fails \in {0, 1, 2} /\ (fails = 2 => kind = "decoded") /\ thr.qty > 0
    BY <1>1, <1>3, <2>1
  <2> DEFINE a == thr.index
             b == Wrap(a + 1)
  <2>3. a \in Indexes /\ b \in Indexes
    <3>1. a \in 0 .. Most - 1
      BY <1>1
    <3>2. QED
      BY <1>1, <2>2, <3>1, WrapType
  <2>4. a = thr.index /\ b = Wrap(a + 1)
    OBVIOUS
  <2> HIDE DEF a, b
  <2>5. /\ BegunInst(g, kind, raw, fails, a, b) /\ BegunDir(kind, fails, a, b)
        /\ BegunRest(kind, fails, a, b)
    BY <1>1, <2>1, <2>2, <2>4, Begun
  <2>6. BegunFiles(g, raw, fails, Touched(kind, fails, a, b))
    BY <1>1, <2>2, <2>3, <2>5, BegunTouches
  <2>7. seen' \in SeenType /\ seen'.stray = seen.stray /\ thr'.qty = thr.qty
    BY <1>1, <2>5 DEF BegunRest
  <2>8. FileInv'
    BY <1>1, <2>6, <2>7, FilesBegun
  <2>9. LimitOK' /\ thr' \in [qty : {0} \cup Qtys, index : 0 .. Most - 1]
    BY <1>1, <2>2, <2>3, <2>4, <2>5, <2>6, LimitBegun
  <2>10. OrderInv'
    BY <1>1, <2>2, <2>3, <2>4, <2>5, <2>6, OrderBegun
  <2>11. OldestStep
    BY <1>1, <2>2, <2>3, <2>4, <2>5, <2>6, OldestBegun
  <2>12. QED
    BY <2>6, <2>7, <2>8, <2>9, <2>10, <2>11 DEF BegunFiles, RotationInv
<1>4. QED
  BY <1>2, <1>3

\* The start of a recording, whose capture may fail.
LEMMA StepRecordStart ==
    ASSUME CaptureInv, RecordStart
    PROVE  CaptureInv' /\ OldestStep
<1> DEFINE g == Head(q).g
           kind == Head(q).kind
           raw == kind = "raw" \/ inst[g].raw
<1>1. /\ q # <<>> /\ Head(q).type = "start" /\ Take
      /\ UNCHANGED <<clock, client, cs>>
      /\ TypeOK /\ UseInv /\ seen \in SeenType /\ call \in CallType /\ q \in Seq(MsgType)
  BY DEF RecordStart, Received, CaptureInv, UseInv, MessagesOK
<1>2. PICK ok \in BOOLEAN : /\ test' = (test \/ (kind = "raw" /\ ok))
                            /\ rawRec' = (rawRec \/ (kind = "raw" /\ ok))
  BY DEF RecordStart, RawOn
<1>3. /\ Head(q) \in Range(q) /\ g \in Groups /\ ~inst[g].active /\ Recording(g)
  <2>1. Head(q) \in Range(q)
    BY <1>1, Taken
  <2>2. QED
    BY <1>1, <2>1 DEF UseInv, MessagesOK, GroupsOwned, Pending
<1>4. IF thr.qty = 0
      THEN /\ inst' = [inst EXCEPT ![g].raw = raw]
           /\ UNCHANGED <<dir, thr, seen>>
      ELSE \E fails \in 0 .. (IF kind = "decoded" THEN 2 ELSE 1) :
              Begin(g, kind, raw, fails)
  BY DEF RecordStart
<1>5. raw \in BOOLEAN /\ (kind = "raw" => raw) /\ (inst[g].raw => raw)
      /\ (raw => kind = "raw" \/ inst[g].raw)
  OBVIOUS
<1> HIDE DEF raw, g, kind
<1>6. /\ FileInv' /\ RotationInv' /\ OldestStep /\ seen' \in SeenType
      /\ inst' \in [Groups -> InstType] /\ dir' \in [Indexes -> FileType]
      /\ thr' \in [qty : {0} \cup Qtys, index : 0 .. Most - 1] /\ thr'.qty = thr.qty
      /\ inst'[g].raw = raw
      /\ \A h \in Groups \ {g} : inst'[h].raw = inst[h].raw
                                 /\ inst'[h].active = inst[h].active
  BY <1>1, <1>3, <1>4, <1>5, StartTouches DEF client
<1>7. /\ MessagesOK' /\ QueueShape' /\ Range(q') \subseteq Range(q)
      /\ \A m \in Range(q') : m.type = "start" => m.g # g
      /\ \A h : Recording(h) => Recording(h)'
      /\ Capturing => Capturing'
      /\ Due("terminate") => Due("terminate")'
  BY <1>1, <1>6, Handled DEF client, g
<1>8. TypeOK'
  BY <1>1, <1>2, <1>6 DEF TypeOK, FileType, client
<1>9. UseInv'
  <2>1. GroupsOwned'
    <3>1. ASSUME NEW m \in Range(q'), m.type = "start"
          PROVE  Recording(m.g)' /\ ~inst'[m.g].active
      <4>1. m \in Range(q) /\ m.g \in Groups /\ m.g # g
        BY <1>1, <1>7, <3>1 DEF UseInv, MessagesOK, Pending
      <4>2. QED
        BY <1>1, <1>6, <1>7, <3>1, <4>1 DEF UseInv, GroupsOwned
    <3>2. ASSUME NEW h \in Groups, inst'[h].active \/ inst'[h].raw
          PROVE  Recording(h)'
      <4>1. CASE h = g
        BY <1>3, <1>7, <4>1
      <4>2. CASE h # g
        BY <1>1, <1>6, <1>7, <3>2, <4>2 DEF UseInv, GroupsOwned
      <4>3. QED
        BY <4>1, <4>2
    <3>3. QED
      BY <3>1, <3>2 DEF GroupsOwned
  <2>2. SessionOwned'
    BY <1>1, <1>7 DEF UseInv, SessionOwned, client
  <2>3. ASSUME rawRec' PROVE \E h \in Groups : inst'[h].raw
    <3>1. CASE kind = "raw"
      BY <1>3, <1>5, <1>6, <3>1
    <3>2. CASE kind # "raw"
      <4>1. PICK h \in Groups : inst[h].raw
        BY <1>1, <1>2, <2>3, <3>2 DEF UseInv, TestOwned
      <4>2. inst'[h].raw
        BY <1>5, <1>6, <4>1
      <4>3. QED
        BY <4>2
    <3>3. QED
      BY <3>1, <3>2
  <2>4. TestOwned'
    BY <1>1, <1>2, <2>3 DEF UseInv, TestOwned
  <2>5. ObjectOwned'
    BY <1>1, <1>6, <1>7 DEF UseInv, ObjectOwned, client
  <2>6. QED
    BY <1>7, <2>1, <2>2, <2>4, <2>5 DEF UseInv
<1>10. QED
  BY <1>6, <1>8, <1>9 DEF CaptureInv

\* The process dies, and with it all but the directory and the limits.
LEMMA StepCrash ==
    ASSUME CaptureInv, Crash
    PROVE  CaptureInv' /\ OldestStep
<1> DEFINE lost(hole) == IF hole THEN Put(dir, thr.index, NoFile) ELSE dir
<1>1. PICK hole \in BOOLEAN :
         /\ hole => thr.qty > 0
         /\ dir' = Finish(lost(hole), Open(lost(hole)))
         /\ seen' = [seen EXCEPT !.orderly = seen.orderly /\ ~hole]
  BY DEF Crash, Finish, Put
<1>2. /\ params' = 0 /\ opened' = FALSE /\ session' = {} /\ capt' = FALSE
      /\ call' = NoCall /\ q' = <<>> /\ thr' = Off
      /\ inst' = [g \in Groups |-> NoInst] /\ rawRec' = FALSE /\ cs' = NoCs /\ test' = FALSE
      /\ clock' = clock
      /\ TypeOK /\ FileInv /\ RotationInv /\ seen \in SeenType
  BY DEF Crash, CaptureInv, UseInv, MessagesOK
<1>3. /\ dir \in [Indexes -> FileType] /\ thr.index \in Indexes
      /\ clock \in 0 .. MaxClock /\ clock \in Nat /\ seen.most \in Nat
      /\ NoFile \in FileType /\ NoFile.st = "none" /\ NoFile.time = 0
  <2>1. thr.index \in 0 .. Most - 1
    BY <1>2, StateTypes
  <2>2. thr.index \in Indexes
    BY <2>1, MostLimit DEF Indexes
  <2>3. NoFile \in FileType /\ NoFile.st = "none" /\ NoFile.time = 0
    BY CaptureAssumption DEF NoFile, FileType
  <2>4. QED
    BY <1>2, <2>2, <2>3, StateTypes, SeenTypes
<1> DEFINE d == lost(hole)
<1>4. /\ d \in [Indexes -> FileType]
      /\ \A i \in Indexes : d[i] = dir[i] \/ d[i] = NoFile
      /\ ~hole => d = dir
  <2>1. CASE hole
    <3>1. d = Put(dir, thr.index, NoFile)
      BY <2>1
    <3> DEFINE e == Put(dir, thr.index, NoFile)
    <3>2. /\ e \in [Indexes -> FileType]
          /\ \A i \in Indexes : e[i] = dir[i] \/ e[i] = NoFile
      BY <1>3 DEF Put
    <3> HIDE DEF d, e
    <3>3. QED
      BY <2>1, <3>1, <3>2 DEF e
  <2>2. CASE ~hole
    BY <1>3, <2>2
  <2>3. QED
    BY <2>1, <2>2
<1>5. dir' = Finish(d, Open(d))
  BY <1>1
<1> HIDE DEF d
<1>6. /\ dir' \in [Indexes -> FileType]
      /\ \A i \in Indexes \ Open(d) : dir'[i] = d[i]
      /\ \A i \in Open(d) : i \in Indexes /\ dir'[i] = Whole
  BY <1>3, <1>4, <1>5, ClosedWhole DEF Open
<1>7. ASSUME NEW i \in Indexes
      PROVE  /\ dir'[i].st # "open" /\ dir'[i].st # "cut"
             /\ dir'[i].st # "none" => dir[i].st # "none"
             /\ dir'[i].time <= clock
  <2>1. dir[i].st # "cut" /\ dir[i].time <= clock
    BY <1>2 DEF FileInv, CapturesFinished, RotationInv, LimitOK, Timely
  <2>2. d[i].st # "cut" /\ (d[i].st # "none" => dir[i].st # "none") /\ d[i].time <= clock
    BY <1>3, <1>4, <2>1
  <2>3. CASE i \in Open(d)
    <3>1. dir'[i] = Whole /\ d[i].st = "open"
      BY <1>6, <2>3 DEF Open
    <3>2. QED
      BY <1>3, <2>2, <3>1, FileTimes
  <2>4. CASE i \notin Open(d)
    BY <1>6, <2>2, <2>4 DEF Open
  <2>5. QED
    BY <2>3, <2>4
<1>8. /\ NoInst \in InstType /\ ~NoInst.active /\ ~NoInst.raw
      /\ NoInst.native = Null /\ NoInst.decoded = Null
  BY DEF NoInst, InstType, HandleType
<1>9. inst' \in [Groups -> InstType] /\ \A g \in Groups : inst'[g] = NoInst
  BY <1>2, <1>8
<1>10. /\ seen' \in SeenType /\ seen'.most = seen.most /\ seen'.stray = seen.stray
       /\ seen'.orderly <=> seen.orderly /\ ~hole
  BY <1>1, <1>2 DEF SeenType
<1>11. thr' \in [qty : {0} \cup Qtys, index : 0 .. Most - 1] /\ thr'.qty = 0
  BY <1>2, MostLimit DEF Off
<1>12. TypeOK'
  <2>1. cs' \in [active : BOOLEAN, type : SUBSET AllFlags, raw : BOOLEAN,
                 files : SUBSET ((AllFlags \cup {"input"}) \X {0, 1})]
    BY <1>2 DEF NoCs
  <2>2. QED
    BY <1>2, <1>3, <1>6, <1>9, <1>11, <2>1 DEF TypeOK, FileType
<1>13. UseInv'
  <2>1. /\ q' \in Seq(MsgType) /\ Range(q') = {} /\ DOMAIN q' = {}
        /\ call' \in CallType /\ Range(call'.todo) = {}
    BY <1>2 DEF Range, NoCall, CallType
  <2>2. MessagesOK' /\ QueueShape'
    BY <1>10, <2>1 DEF MessagesOK, QueueShape, Pending
  <2>3. GroupsOwned'
    BY <1>8, <1>9, <2>1 DEF GroupsOwned
  <2>4. SessionOwned' /\ TestOwned'
    BY <1>2, <2>1 DEF SessionOwned, TestOwned, NoCs
  <2>5. ObjectOwned'
    BY <1>2, <1>11 DEF ObjectOwned
  <2>6. QED
    BY <2>2, <2>3, <2>4, <2>5 DEF UseInv
<1>14. FileInv'
  <2>1. HandlesOK'
    BY <1>8, <1>9 DEF HandlesOK, HandleOK
  <2>2. FilesHeld'
    BY <1>8, <1>9 DEF FilesHeld
  <2>3. CapturesFinished'
    BY <1>2, <1>7, <1>10 DEF FileInv, CapturesFinished, Open
  <2>4. QED
    BY <2>1, <2>2, <2>3 DEF FileInv
<1>15. LimitOK'
  <2>1. Present' \subseteq 0 .. seen.most - 1
    BY <1>2, <1>7 DEF RotationInv, LimitOK, Present
  <2>2. Timely(dir)'
    BY <1>2, <1>7 DEF Timely
  <2>3. QED
    BY <1>2, <1>3, <1>10, <1>11, <2>1, <2>2 DEF LimitOK
<1>16. OrderInv'
  <2> SUFFICES ASSUME seen'.orderly PROVE OrderInv'
    BY DEF OrderInv
  <2>1. seen.orderly /\ d = dir
    BY <1>4, <1>10
  <2>2. PICK p \in Indexes : Rotates(dir, seen.most, p)
    BY <1>2, <2>1 DEF RotationInv, OrderInv
  <2>3. Timely(dir)
    BY <1>2 DEF RotationInv, LimitOK
  <2>4. Rotates(dir', seen.most, p)
    BY <1>3, <1>6, <2>1, <2>2, <2>3, RotationCloses
  <2>5. \A g, h \in Groups : inst'[g].active /\ inst'[h].active => g = h
    BY <1>8, <1>9
  <2>6. QED
    BY <1>2, <1>10, <1>11, <2>4, <2>5 DEF OrderInv
<1>17. OldestStep
  BY <1>7, OldestElsewhere
<1>18. QED
  BY <1>12, <1>13, <1>14, <1>15, <1>16, <1>17 DEF CaptureInv, RotationInv

-----------------------------------------------------------------------------
(* The theorems.                                                           *)

\* At the beginning nothing is in use and the directory is empty.
LEMMA CaptureInit == Init => CaptureInv
<1> SUFFICES ASSUME Init PROVE CaptureInv
  OBVIOUS
<1>1. /\ dir = [i \in Indexes |-> NoFile] /\ clock = 0 /\ params = 0
      /\ opened = FALSE /\ session = {} /\ capt = FALSE
      /\ call = NoCall /\ q = <<>> /\ thr = Off
      /\ inst = [g \in Groups |-> NoInst] /\ rawRec = FALSE /\ cs = NoCs
      /\ test = FALSE /\ seen = Clean
  BY DEF Init
<1>2. /\ NoInst \in InstType /\ ~NoInst.active /\ ~NoInst.raw
      /\ NoInst.native = Null /\ NoInst.decoded = Null
      /\ NoFile \in FileType /\ NoFile.st = "none" /\ NoFile.time = 0
      /\ MaxClock \in Nat
  BY CaptureAssumption DEF NoInst, InstType, HandleType, NoFile, FileType
<1>3. /\ inst \in [Groups -> InstType] /\ dir \in [Indexes -> FileType]
      /\ \A g \in Groups : inst[g] = NoInst
      /\ \A i \in Indexes : dir[i] = NoFile
  BY <1>1, <1>2
<1>4. thr \in [qty : {0} \cup Qtys, index : 0 .. Most - 1] /\ thr.qty = 0
  BY <1>1, MostLimit DEF Off
<1>5. /\ seen \in SeenType /\ seen.most = 0 /\ ~seen.stray
  BY <1>1 DEF Clean, SeenType
<1>6. TypeOK
  <2>1. cs \in [active : BOOLEAN, type : SUBSET AllFlags, raw : BOOLEAN,
                files : SUBSET ((AllFlags \cup {"input"}) \X {0, 1})]
    BY <1>1 DEF NoCs
  <2>2. QED
    BY <1>1, <1>2, <1>3, <1>4, <2>1 DEF TypeOK, FileType
<1>7. UseInv
  <2>1. /\ q \in Seq(MsgType) /\ Range(q) = {} /\ DOMAIN q = {}
        /\ call \in CallType /\ Range(call.todo) = {}
    BY <1>1 DEF Range, NoCall, CallType
  <2>2. MessagesOK /\ QueueShape
    BY <1>5, <2>1 DEF MessagesOK, QueueShape, Pending
  <2>3. GroupsOwned
    BY <1>2, <1>3, <2>1 DEF GroupsOwned
  <2>4. SessionOwned /\ TestOwned
    BY <1>1, <2>1 DEF SessionOwned, TestOwned, NoCs
  <2>5. ObjectOwned
    BY <1>1, <1>4 DEF ObjectOwned
  <2>6. QED
    BY <2>2, <2>3, <2>4, <2>5 DEF UseInv
<1>8. PresentIn(dir) = {} /\ Present = {} /\ Open(dir) = {}
  BY <1>2, <1>3 DEF PresentIn, Present, Open
<1>9. FileInv
  <2>1. HandlesOK /\ FilesHeld
    BY <1>2, <1>3 DEF HandlesOK, HandleOK, FilesHeld
  <2>2. CapturesFinished
    BY <1>2, <1>3, <1>5, <1>8 DEF CapturesFinished
  <2>3. QED
    BY <2>1, <2>2 DEF FileInv
<1>10. LimitOK
  BY <1>1, <1>2, <1>3, <1>4, <1>5, <1>8 DEF LimitOK, Timely
<1>11. OrderInv
  <2>1. PresentIn(dir) = 0 .. 0 - 1
    BY <1>8
  <2>2. Filled(dir, 0, 0)
    BY <2>1 DEF Filled
  <2>3. Sorted(dir, 0)
    BY <1>8 DEF Sorted
  <2>4. Rotates(dir, seen.most, 0)
    BY <1>5, <2>2, <2>3 DEF Rotates
  <2>5. \A g, h \in Groups : inst[g].active /\ inst[h].active => g = h
    BY <1>2, <1>3
  <2>6. QED
    BY <1>1, <1>4, <1>5, <2>4, <2>5, MostLimit DEF OrderInv
<1>12. QED
  BY <1>6, <1>7, <1>9, <1>10, <1>11 DEF CaptureInv, RotationInv

\* Every step keeps the invariant, and takes the place of none but the oldest.
LEMMA CaptureStep == CaptureInv /\ [Next]_vars => CaptureInv' /\ OldestStep
<1> SUFFICES ASSUME CaptureInv, [Next]_vars PROVE CaptureInv' /\ OldestStep
  OBVIOUS
<1>1. CASE ParamsSet
  BY <1>1, StepParams
<1>2. CASE DeleteFiles
  BY <1>2, StepDelete
<1>3. CASE OpenObject
  BY <1>3, StepOpen
<1>4. CASE CloseObject
  BY <1>4, StepClose
<1>5. CASE Record
  BY <1>5, StepRecord
<1>6. CASE Stop
  BY <1>6, StepStop
<1>7. CASE CaptureStart
  BY <1>7, StepCaptureStart
<1>8. CASE CaptureStop
  BY <1>8, StepCaptureStop
<1>9. CASE Send
  BY <1>9, StepSend
<1>10. CASE RecordStart
  BY <1>10, StepRecordStart
<1>11. CASE RecordStop
  BY <1>11, StepRecordStop
<1>12. CASE SessionStart
  BY <1>12, StepSessionStart
<1>13. CASE SessionStop
  BY <1>13, StepSessionStop
<1>14. CASE Terminated
  BY <1>14, StepTerminated
<1>15. CASE InternalEnds
  BY <1>15, StepInternalEnds
<1>16. CASE Crash
  BY <1>16, StepCrash
<1>17. CASE SessionWriteFails \/ Tick \/ UNCHANGED vars
  BY <1>17, StepQuiet
<1>18. QED
  BY <1>1, <1>2, <1>3, <1>4, <1>5, <1>6, <1>7, <1>8, <1>9, <1>10, <1>11, <1>12, <1>13,
     <1>14, <1>15, <1>16, <1>17 DEF Next

\* The invariant holds from the beginning on.
THEOREM CaptureInvariant == Spec => []CaptureInv
<1>1. CaptureInv /\ [Next]_vars => CaptureInv'
  BY CaptureStep
<1>2. QED
  BY <1>1, CaptureInit, PTL DEF Spec

\* Every variable keeps its type; the index of the rotation stays below the
\* largest limit (capture_internal.file_index).
THEOREM CaptureTypes == Spec => []TypeOK
<1>1. CaptureInv => TypeOK
  BY DEF CaptureInv
<1>2. QED
  BY <1>1, CaptureInvariant, PTL

\* A capture that has ended is usable, no handle is closed twice and no file is
\* forgotten open (xraudio_in_capture_internal_end and its callers), for every
\* limit and over failures, restarts and files deleted under a recording.
THEOREM CapturesFinishedAlways == Spec => []CapturesFinished
<1>1. CaptureInv => CapturesFinished
  BY DEF CaptureInv, FileInv
<1>2. QED
  BY <1>1, CaptureInvariant, PTL

\* When the client has stopped everything no file is open and the HAL is out of
\* its raw test mode (the stops of xraudio_input_close_locked and the handlers
\* of the main thread).
THEOREM NothingLeftAlways == Spec => []NothingLeft
<1>1. ASSUME CaptureInv PROVE NothingLeft
  <2> SUFFICES ASSUME Idle, q = <<>>, session = {}, ~capt
               PROVE  Open(dir) = {} /\ cs.files = {} /\ ~test
    BY DEF NothingLeft
  <2>1. UseInv
    BY <1>1 DEF CaptureInv
  <2>2. (\A g \in Groups : ~Recording(g)) /\ ~Capturing
    BY <2>1, IdleRecording
  <2>3. \A g \in Groups : ~inst[g].active /\ ~inst[g].raw
    BY <2>1, <2>2 DEF UseInv, GroupsOwned
  <2>4. Open(dir) = {}
    BY <1>1, <2>3 DEF CaptureInv, FileInv, CapturesFinished
  <2>5. ~cs.raw /\ cs.files = {}
    BY <2>1, <2>2 DEF UseInv, SessionOwned
  <2>6. ~test
    BY <2>1, <2>3, <2>5 DEF UseInv, TestOwned
  <2>7. QED
    BY <2>4, <2>5, <2>6
<1>2. QED
  BY <1>1, CaptureInvariant, PTL

\* The rotation of the files is what its parameters promise: the directory holds
\* no more files than the largest limit it was given, and a new file takes the
\* place of the oldest, and of none while there is room
\* (xraudio_in_capture_internal_input_begin, xraudio_capture_next_file_index).
THEOREM RotationSoundAlways == Spec => RotationSound
<1>1. ASSUME CaptureInv PROVE FilesBounded
  <2>1. Present \subseteq 0 .. seen.most - 1 /\ seen.most \in Nat
    BY <1>1, SeenTypes DEF CaptureInv, RotationInv, LimitOK, UseInv, MessagesOK
  <2>2. QED
    BY <2>1, CountedBelow DEF FilesBounded
<1>2. CaptureInv /\ [Next]_vars => [OldestGoes]_vars
  BY CaptureStep DEF OldestGoes, OldestStep, Made, Gone, Stays
<1>3. Spec => []FilesBounded
  BY <1>1, CaptureInvariant, PTL
<1>4. Spec => OldestGoesFirst
  BY <1>2, CaptureInvariant, PTL DEF Spec, OldestGoesFirst
<1>5. QED
  BY <1>3, <1>4, PTL DEF RotationSound
=============================================================================
