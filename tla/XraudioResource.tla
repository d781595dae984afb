-------------------------- MODULE XraudioResource --------------------------
(***************************************************************************)
(* The resource manager of xraudio (--enable-resourcemgmt): processes that *)
(* share one list of requests and the devices granted to them, in shared   *)
(* memory under a file lock (xraudio_resource.c), and the client calls     *)
(* that request and release resources (xraudio.c).  Every user is one      *)
(* xraudio object with its client thread and its resource thread.          *)
(*                                                                         *)
(* A loop over the list is one step per entry, taken under the lock, so    *)
(* that a list with a cycle keeps the lock for ever, as the code does.     *)
(***************************************************************************)
EXTENDS Integers, Sequences, FiniteSets

CONSTANTS
    Users,        \* xraudio objects
    Procs,        \* processes
    Proc,         \* the process of each user
    None,         \* no user, no device
    SlotQty,      \* XRAUDIO_RESOURCE_LIST_QTY_MAX
    IdQty,        \* XRAUDIO_USER_ID_MAX
    InIds,        \* resource ids of inputs
    OutIds,       \* resource ids of outputs
    InQty,        \* capabilities.input_qty
    OutQty,       \* capabilities.output_qty
    OutCaps,      \* per output: the kinds of request it can serve
    Requests,     \* the requests the clients make
    Overlap,      \* FALSE: calls and timers wait until the other users are quiet
    Patient,      \* TRUE: a client releases only after a grant or a revoke
    Repeat,       \* TRUE: a client may request again without releasing
    InCallback,   \* TRUE: a client may release inside the revoke callback
    Deaths,       \* the moments at which a process may die: the first three are
                  \* between two sections; with "handling", the others are
                  \* between two stores of one
    MaxDeaths     \* bound: processes that die of a cause outside this code

Nil     == 0                                   \* offset 0
Slots   == 1 .. SlotQty
UserIds == 0 .. IdQty - 1
NoUid   == IdQty
Free    == 3                                   \* XRAUDIO_RESOURCE_PRIORITY_INVALID
Outs    == {"none", "normal", "hfp"}
AllRequests == {r \in [in : BOOLEAN, out : Outs, prio : 0 .. 2] :
                    r.in \/ r.out # "none"}
Moments == {"holding", "waiting", "handling",
            "filling", "linking", "freeing", "unmarked", "granting", "marked", "revoking"}

ASSUME UsersAssumption ==
    /\ Proc \in [Users -> Procs]
    /\ None \notin Users
    /\ SlotQty \in Nat \ {0} /\ IdQty \in Nat \ {0}
ASSUME DevicesAssumption ==
    /\ InIds \subseteq Nat /\ OutIds \subseteq Nat
    /\ IsFiniteSet(InIds) /\ IsFiniteSet(OutIds)
    /\ None \notin InIds \cup OutIds
    /\ InQty \in Nat /\ OutQty \in Nat
    /\ OutCaps \in [OutIds -> SUBSET Outs]
ASSUME ClientsAssumption ==
    /\ Requests \subseteq AllRequests
    /\ {Overlap, Patient, Repeat, InCallback} \subseteq BOOLEAN
    /\ Deaths \subseteq Moments /\ MaxDeaths \in Nat

VARIABLES
    head, next,   \* shared memory: the list of requests
    slot,         \* shared memory: resource_list
    busyIn,       \* shared memory: resource_record
    busyOut,      \* shared memory: resource_playback
    ids,          \* shared memory: user_ids
    lock,         \* the user whose thread holds the file lock in a loop
    scan,         \* the local variables of that loop
    thr,          \* per user: its resource thread
    mq, fifo,     \* per user: what its thread has not yet read
    obj,          \* per user: the xraudio object
    call,         \* per user: the release in progress, which holds mutex_api
    told,         \* per user: the last event its callback was given
    req,          \* per user: the request it made last
    alive,        \* processes that run
    deaths        \* number of deaths from outside

memory == <<head, next, slot, busyIn, busyOut>>
inputs == <<mq, fifo>>
client == <<obj, call, told, req>>
world  == <<alive, deaths>>
vars   == <<memory, ids, lock, scan, thr, inputs, client, world>>

-----------------------------------------------------------------------------
Sections == {"scrub", "alloc", "fill", "add", "remove", "free", "update",
             "grant", "set", "callback", "stuck"}
FromClient == {"request", "release", "terminate"}
Events     == {"GRANTED", "REVOKED"}

EmptySlot == [prio |-> Free, owner |-> None, uid |-> NoUid, in |-> FALSE,
              out |-> "none", rec |-> None, play |-> None, notified |-> FALSE]
SlotType  == [prio : 0 .. 3, owner : Users \cup {None}, uid : UserIds \cup {NoUid},
              in : BOOLEAN, out : Outs, rec : InIds \cup {None},
              play : OutIds \cup {None}, notified : BOOLEAN]

NoThread   == [on |-> FALSE, todo |-> <<>>, also |-> FALSE, entry |-> Nil,
               timer |-> FALSE, running |-> FALSE, fds |-> FALSE, uid |-> NoUid]
NewThread(i) == [NoThread EXCEPT !.on = TRUE, !.running = TRUE, !.fds = TRUE,
                                 !.uid = i]
ThreadType == [on : BOOLEAN, todo : Seq(Sections), also : BOOLEAN,
               entry : Slots \cup {Nil}, timer : BOOLEAN, running : BOOLEAN,
               fds : BOOLEAN, uid : UserIds \cup {NoUid}]

NewObject  == [requested |-> FALSE, running |-> FALSE, fresh |-> FALSE,
               fd |-> FALSE, uid |-> NoUid, rec |-> None, play |-> None]
ObjectType == [requested : BOOLEAN, running : BOOLEAN, fresh : BOOLEAN,
               fd : BOOLEAN, uid : UserIds \cup {NoUid},
               rec : InIds \cup {None}, play : OutIds \cup {None}]

Jobs     == {"none", "scrub", "add", "revoke", "grant"}
NoScan   == [job |-> "none", at |-> Nil, rec |-> 0, play |-> 0, revoked |-> FALSE]
ScanType == [job : Jobs, at : Slots \cup {Nil}, rec : Nat, play : Nat,
             revoked : BOOLEAN]
Scan(job, at) == [NoScan EXCEPT !.job = job, !.at = at]

EmptyMemory ==
    /\ head' = Nil /\ next' = [s \in Slots |-> Nil]
    /\ slot' = [s \in Slots |-> EmptySlot]
    /\ busyIn' = [d \in InIds |-> FALSE] /\ busyOut' = [d \in OutIds |-> FALSE]

Init ==
    /\ head = Nil /\ next = [s \in Slots |-> Nil]
    /\ slot = [s \in Slots |-> EmptySlot]
    /\ busyIn = [d \in InIds |-> FALSE] /\ busyOut = [d \in OutIds |-> FALSE]
    /\ ids = [i \in UserIds |-> None]
    /\ lock = None /\ scan = NoScan
    /\ thr = [u \in Users |-> NoThread]
    /\ mq = [u \in Users |-> <<>>] /\ fifo = [u \in Users |-> <<>>]
    /\ obj = [u \in Users |-> NewObject]
    /\ call = [u \in Users |-> "out"]
    /\ told = [u \in Users |-> "none"]
    /\ req \in [Users -> Requests]
    /\ alive = Procs /\ deaths = 0

-----------------------------------------------------------------------------
(* The list: offsets from the base of the shared memory.                   *)

Alive(u) == Proc[u] \in alive

\* The entries met from the head on, with Nil from the end of the list on.
Walk == LET w[i \in 0 .. SlotQty] ==
                IF i = 0 THEN head
                ELSE IF w[i - 1] = Nil THEN Nil ELSE next[w[i - 1]]
        IN w
Listed == {Walk[i] : i \in 0 .. SlotQty} \ {Nil}
Cyclic == Walk[SlotQty] # Nil
\* list_remove looks for the first entry whose successor is s.
IsPrevious(p, s) ==
    \E i \in 0 .. SlotQty :
        /\ Walk[i] = p /\ p # Nil /\ next[p] = s
        /\ \A j \in 0 .. i - 1 : next[Walk[j]] # s

\* The search for an entry that is not there ends only in a list that ends.
Endless(s) == Cyclic /\ s \notin Listed
Unlink(s) ==
    /\ ~Endless(s)
    /\ \/ /\ head = s
          /\ head' = next[s] /\ next' = [next EXCEPT ![s] = Nil]
       \/ /\ head # s
          /\ \E p \in Slots : /\ IsPrevious(p, s)
                              /\ next' = [next EXCEPT ![p] = next[s], ![s] = Nil]
          /\ UNCHANGED head
       \/ /\ s \notin Listed
          /\ next' = [next EXCEPT ![s] = Nil]
          /\ UNCHANGED head

-----------------------------------------------------------------------------
(* What the sections of a handler store in the shared memory.  Nobody else   *)
(* reads it before the lock is given back, so that a section stores all at   *)
(* once, unless its process dies: then the first of its stores are what it   *)
(* leaves.                                                                   *)

Idle(u) == thr[u].todo = <<>>
Live(u) == thr[u].on /\ Alive(u)
In(u, section) == Live(u) /\ ~Idle(u) /\ Head(thr[u].todo) = section
Locked == {"scrub", "alloc", "add", "remove", "free", "update"}
CanLock(u, section) == In(u, section) /\ lock = None /\ obj[u].fd
Scanning(u, job) == lock = u /\ scan.job = job

\* The entry is filled without the lock, before it is in the list.
FillStores == 5
Filled(u, n) ==
    LET old == slot[thr[u].entry]
        Store(k, before, after) == IF k <= n THEN after ELSE before IN
    slot' = [slot EXCEPT ![thr[u].entry] =
        [old EXCEPT !.prio = Store(1, old.prio, req[u].prio),
                    !.owner = Store(2, old.owner, u),
                    !.uid = Store(3, old.uid, thr[u].uid),
                    !.in = Store(4, old.in, req[u].in),
                    !.out = Store(5, old.out, req[u].out)]]

\* resource_entry_add: where the entry of the request goes.
Exceeds(u) == slot[thr[u].entry].prio > slot[scan.at].prio
\* An entry that is inserted is given its successor s before it is one; an entry
\* that is removed keeps its successor until the others have it.
Linking(u, s) ==
    \/ CanLock(u, "add") /\ head = Nil /\ s = Nil
    \/ Scanning(u, "add") /\ Exceeds(u) /\ s = IF scan.at = head THEN head
                                                ELSE next[scan.at]
    \/ Scanning(u, "add") /\ next[scan.at] = Nil /\ s = Nil
Unlinking(s) ==
    \/ head = s /\ head' = next[s] /\ UNCHANGED next
    \/ /\ head # s /\ UNCHANGED head
       /\ \E p \in Slots : IsPrevious(p, s) /\ next' = [next EXCEPT ![p] = next[s]]

\* The entry is cleared but for its devices, then the marks, then the devices.
FreeStores == 10
FreeMoment(n) == IF n \in 7 .. 9 THEN "unmarked" ELSE "freeing"
FreedWrongId(s, n) ==             \* mutant: one past XRAUDIO_USER_ID_MAX
    /\ slot' = [slot EXCEPT ![s] = [EmptySlot EXCEPT !.uid = IdQty + 1]]
    /\ busyIn' = [d \in InIds |-> busyIn[d] /\ d # slot[s].rec]
    /\ busyOut' = [d \in OutIds |-> busyOut[d] /\ d # slot[s].play]
FreedFirst(s, n) ==               \* mutant: the ids are cleared before the marks
    /\ slot' = [slot EXCEPT ![s] = EmptySlot]
    /\ UNCHANGED <<busyIn, busyOut>>
Freed(s, n) ==
    LET old == slot[s]
        Store(k, before, after) == IF k <= n THEN after ELSE before IN
    /\ slot' = [slot EXCEPT ![s] =
           [prio |-> Store(1, old.prio, Free), owner |-> Store(2, old.owner, None),
            uid |-> Store(3, old.uid, NoUid),
            notified |-> Store(4, old.notified, FALSE),
            in |-> Store(5, old.in, FALSE), out |-> Store(6, old.out, "none"),
            rec |-> Store(9, old.rec, None), play |-> Store(10, old.play, None)]]
    /\ busyIn' = [d \in InIds |-> busyIn[d] /\ ~(7 <= n /\ d = old.rec)]
    /\ busyOut' = [d \in OutIds |-> busyOut[d] /\ ~(8 <= n /\ d = old.play)]
FreeSlot(s) == Freed(s, FreeStores)

NeverStale(s) == FALSE            \* mutant: the test of the process always succeeds
UnlinkOnly(s) ==                  \* mutant: the entry is not freed
    Unlink(s) /\ UNCHANGED <<slot, busyIn, busyOut>>
RemoveStale(s) == Unlink(s) /\ FreeSlot(s)
Stale(s) == slot[s].owner # None /\ ~Alive(slot[s].owner)

Notifies(s) == ~slot[s].notified
OverRec(s)  == slot[s].rec # None /\ scan.rec >= InQty
OverPlay(s) == ~OverRec(s) /\ slot[s].play # None /\ scan.play >= OutQty
Revokes(s)  == OverRec(s) \/ OverPlay(s)

\* resource_allocate_record: the first free id; INVALID when there is none.
NewRec(d) ==
    \/ d \in InIds /\ ~busyIn[d] /\ \A e \in InIds : e < d => busyIn[e]
    \/ d = None /\ \A e \in InIds : busyIn[e]
\* resource_allocate_playback: the last free id with the capability.
Serves(d, kind) == ~busyOut[d] /\ kind \in OutCaps[d]
NewPlay(d, kind) ==
    \/ d \in OutIds /\ Serves(d, kind) /\ \A e \in OutIds : e > d => ~Serves(e, kind)
    \/ d = None /\ \A e \in OutIds : ~Serves(e, kind)

Held(s)  == slot[s].rec # None \/ slot[s].play # None
Wants(s) == slot[s].in \/ slot[s].out # "none"
Fits(s)  == /\ slot[s].in => scan.rec < InQty
            /\ slot[s].out # "none" => scan.play < OutQty

GrantsHeld(s) == Wants(s) /\ Fits(s)      \* mutant: granted once more
Grants(s) == ~Held(s) /\ Wants(s) /\ Fits(s)

\* A mark is stored before the id that goes with it.
GrantStores == 5
GrantMoment(n) == IF n \in {2, 4} THEN "marked" ELSE "granting"
Granted(s, n) ==
    \E r \in InIds \cup {None}, p \in OutIds \cup {None} :
        /\ IF slot[s].in THEN NewRec(r) ELSE r = None
        /\ IF slot[s].out # "none" THEN NewPlay(p, slot[s].out) ELSE p = None
        /\ slot' = [slot EXCEPT ![s].notified = TRUE,
                                ![s].rec = IF 3 <= n THEN r ELSE @,
                                ![s].play = IF 5 <= n THEN p ELSE @]
        /\ busyIn' = [d \in InIds |-> busyIn[d] \/ (2 <= n /\ d = r)]
        /\ busyOut' = [d \in OutIds |-> busyOut[d] \/ (4 <= n /\ d = p)]
Allocate(s) == Granted(s, GrantStores)

\* What a thread that stops inside a section has stored: a part of the request or
\* of the list; a part of a free, the list being ready before it; a grant or a
\* revoke of which nobody is told.
StoresLeft(u) ==
    \/ /\ "filling" \in Deaths /\ In(u, "fill")
       /\ \E n \in 1 .. FillStores - 1 : Filled(u, n)
       /\ UNCHANGED <<head, next, busyIn, busyOut>>
    \/ /\ "linking" \in Deaths
       /\ \/ \E s \in Slots \cup {Nil} :
                /\ Linking(u, s)
                /\ next' = [next EXCEPT ![thr[u].entry] = s] /\ UNCHANGED head
          \/ Scanning(u, "scrub") /\ scan.at # Nil /\ Stale(scan.at) /\ Unlinking(scan.at)
          \/ CanLock(u, "remove") /\ Unlinking(thr[u].entry)
       /\ UNCHANGED <<slot, busyIn, busyOut>>
    \/ \E n \in 0 .. FreeStores - 1 :
          /\ FreeMoment(n) \in Deaths
          /\ \/ /\ Scanning(u, "scrub") /\ scan.at # Nil /\ Stale(scan.at)
                /\ Unlink(scan.at) /\ Freed(scan.at, n)
             \/ /\ CanLock(u, "free")
                /\ Freed(thr[u].entry, n) /\ UNCHANGED <<head, next>>
    \/ \E n \in 1 .. GrantStores :
          /\ GrantMoment(n) \in Deaths
          /\ Scanning(u, "grant") /\ scan.at # Nil
          /\ Grants(scan.at) /\ Notifies(scan.at)
          /\ Granted(scan.at, n) /\ UNCHANGED <<head, next>>
    \/ /\ "revoking" \in Deaths
       /\ Scanning(u, "revoke") /\ scan.at # Nil
       /\ Revokes(scan.at) /\ Notifies(scan.at)
       /\ slot' = [slot EXCEPT ![scan.at].notified = TRUE]
       /\ UNCHANGED <<head, next, busyIn, busyOut>>

-----------------------------------------------------------------------------
(* Processes.                                                              *)

OfProcess(p) == {u \in Users : Proc[u] = p}

\* A process ends: its threads stop wherever they are, the kernel releases its
\* file lock, and what it wrote to the shared memory stays.
Die(p) ==
    /\ UNCHANGED memory \/ \E u \in OfProcess(p) : StoresLeft(u)
    /\ alive' = alive \ {p}
    /\ lock' = IF lock \in OfProcess(p) THEN None ELSE lock
    /\ scan' = IF lock \in OfProcess(p) THEN NoScan ELSE scan
    /\ thr' = [u \in Users |-> IF Proc[u] = p THEN NoThread ELSE thr[u]]
    /\ mq' = [u \in Users |-> IF Proc[u] = p THEN <<>> ELSE mq[u]]
    /\ fifo' = [u \in Users |-> IF Proc[u] = p THEN <<>> ELSE fifo[u]]
    /\ obj' = [u \in Users |-> IF Proc[u] = p THEN NewObject ELSE obj[u]]
    /\ call' = [u \in Users |-> IF Proc[u] = p THEN "out" ELSE call[u]]
    /\ told' = [u \in Users |-> IF Proc[u] = p THEN "none" ELSE told[u]]
    /\ UNCHANGED <<ids, req>>

Holds(u) == \E s \in Slots : /\ slot[s].owner = u
                             /\ slot[s].rec # None \/ slot[s].play # None
At(u) == IF ~Idle(u) THEN "handling"
         ELSE IF Holds(u) THEN "holding" ELSE "waiting"
Killed(p) ==
    /\ p \in alive /\ deaths < MaxDeaths
    /\ \A u \in OfProcess(p) : At(u) \in Deaths
    /\ deaths' = deaths + 1
    /\ Die(p)

-----------------------------------------------------------------------------
(* The resource thread: what it reads and which sections that leads to.    *)

Ready(u) == Live(u) /\ Idle(u)

Todo(u, names) == [thr EXCEPT ![u].todo = names]
\* resource_request_release and resource_request_grant use params->entry.
NeedsEntry(m) == m \in {"release", "GRANTED"}

RequestSections(entry) ==
    <<"scrub", IF entry = Nil THEN "alloc" ELSE "remove", "fill", "add", "update">>
FreeOnly == <<"scrub", "free", "update">>        \* mutant: stays in the list
ReleaseSections == <<"scrub", "remove", "free", "update">>

\* The handler of message m; timer and running as they are when it returns.
Handler(u, m, also) ==
    LET t == [thr[u] EXCEPT !.also = also] IN
    thr' = [thr EXCEPT ![u] =
        CASE m = "request" ->
                [t EXCEPT !.todo = RequestSections(t.entry)]
          [] m = "release" ->
                [t EXCEPT !.todo = ReleaseSections, !.timer = FALSE]
          [] m = "GRANTED"   -> [t EXCEPT !.todo = <<"grant", "set">>, !.timer = FALSE]
          [] m = "REVOKED"   -> [t EXCEPT !.todo = <<"callback">>]
          [] m = "terminate" -> [t EXCEPT !.running = FALSE]]

Handle(u, m, also) ==
    IF NeedsEntry(m) /\ thr[u].entry = Nil
    THEN Die(Proc[u]) /\ UNCHANGED deaths         \* a NULL pointer is followed
    ELSE /\ Handler(u, m, also)
         /\ UNCHANGED <<memory, ids, lock, scan, client, world>>

\* select returns; the queue is read before the fifo.
QueueNext(u) == Ready(u) /\ thr[u].running /\ ~thr[u].also /\ mq[u] # <<>>
FifoNext(u) ==
    /\ Ready(u) /\ fifo[u] # <<>>
    /\ thr[u].also \/ (thr[u].running /\ mq[u] = <<>>)

ReadQueue(u) ==
    /\ QueueNext(u)
    /\ IF NeedsEntry(Head(mq[u])) /\ thr[u].entry = Nil THEN TRUE
       ELSE mq' = [mq EXCEPT ![u] = Tail(@)] /\ UNCHANGED fifo
    /\ Handle(u, Head(mq[u]), fifo[u] # <<>>)

ReadFifo(u) ==
    /\ FifoNext(u)
    /\ IF NeedsEntry(Head(fifo[u])) /\ thr[u].entry = Nil THEN TRUE
       ELSE fifo' = [fifo EXCEPT ![u] = Tail(@)] /\ UNCHANGED mq
    /\ Handle(u, Head(fifo[u]), FALSE)

Quiet(v) == Idle(v) /\ mq[v] = <<>> /\ fifo[v] = <<>> /\ call[v] = "out"
MayStart(u) == Overlap \/ \A v \in Users \ {u} : Quiet(v)

\* timer_resource_update, every XRAUDIO_RESOURCE_UPDATE_INTERVAL.
Timer(u) ==
    /\ Ready(u) /\ thr[u].running /\ ~thr[u].also /\ thr[u].fds
    /\ thr[u].timer /\ mq[u] = <<>> /\ fifo[u] = <<>>
    /\ MayStart(u)
    /\ thr' = Todo(u, <<"scrub", "update">>)
    /\ UNCHANGED <<memory, ids, lock, scan, inputs, client, world>>

\* The loop ends after a terminate message, or when select meets closed
\* descriptors.
Exit(u) ==
    /\ Ready(u) /\ ~thr[u].also
    /\ ~thr[u].running \/ ~thr[u].fds
    /\ thr' = [thr EXCEPT ![u].on = FALSE]
    /\ UNCHANGED <<memory, ids, lock, scan, inputs, client, world>>

-----------------------------------------------------------------------------
(* Sections under the file lock.                                           *)

Done(u) == thr' = [thr EXCEPT ![u].todo = Tail(@)]
Unlock  == lock' = None /\ scan' = NoScan

\* flock fails on the closed lock file: xraudio_shared_mem_lock exits.
LockFails(u) ==
    /\ \E section \in Locked : In(u, section)
    /\ lock # u /\ ~obj[u].fd
    /\ Die(Proc[u]) /\ UNCHANGED deaths

ScrubBegin(u) ==
    /\ CanLock(u, "scrub")
    /\ lock' = u /\ scan' = Scan("scrub", head)
    /\ UNCHANGED <<memory, ids, thr, inputs, client, world>>

\* A stale entry is removed, which ends the loop: its successor is now Nil.
ScrubStep(u) ==
    /\ Scanning(u, "scrub") /\ scan.at # Nil
    /\ IF Stale(scan.at)
       THEN /\ RemoveStale(scan.at)
            /\ scan' = [scan EXCEPT !.at = Nil]
       ELSE /\ scan' = [scan EXCEPT !.at = next[scan.at]]
            /\ UNCHANGED memory
    /\ UNCHANGED <<ids, lock, thr, inputs, client, world>>

ScrubEnd(u) ==
    /\ Scanning(u, "scrub") /\ scan.at = Nil
    /\ Done(u) /\ Unlock
    /\ UNCHANGED <<memory, ids, inputs, client, world>>

\* resource_entry_malloc finds a free slot and leaves it as it is.
Alloc(u) ==
    /\ CanLock(u, "alloc")
    /\ \/ \E s \in Slots :
            /\ slot[s].prio = Free /\ \A r \in 1 .. s - 1 : slot[r].prio # Free
            /\ thr' = [thr EXCEPT ![u].entry = s, ![u].todo = Tail(@)]
       \/ /\ \A s \in Slots : slot[s].prio # Free
          /\ thr' = Todo(u, <<>>)
    /\ UNCHANGED <<memory, ids, lock, scan, inputs, client, world>>

\* The entry is filled, and the timer that follows is set.
Fill(u) ==
    /\ In(u, "fill")
    /\ Filled(u, FillStores)
    /\ thr' = [thr EXCEPT ![u].todo = Tail(@), ![u].timer = TRUE]
    /\ UNCHANGED <<head, next, busyIn, busyOut, ids, lock, scan, inputs, client, world>>

\* An empty list, and otherwise the search for an entry of lower priority.
AddBegin(u) ==
    /\ CanLock(u, "add")
    /\ IF head = Nil
       THEN /\ head' = thr[u].entry /\ next' = [next EXCEPT ![thr[u].entry] = Nil]
            /\ Done(u) /\ UNCHANGED <<lock, scan>>
       ELSE /\ lock' = u /\ scan' = Scan("add", head)
            /\ UNCHANGED <<head, next, thr>>
    /\ UNCHANGED <<slot, busyIn, busyOut, ids, inputs, client, world>>

InsertAfter(s, new) == next' = [[next EXCEPT ![new] = next[s]] EXCEPT ![s] = new]
AddStep(u) ==
    LET new == thr[u].entry IN
    /\ Scanning(u, "add")
    /\ \/ /\ Exceeds(u) /\ scan.at = head
          /\ head' = new /\ next' = [next EXCEPT ![new] = head]
          /\ Done(u) /\ Unlock
       \/ /\ Exceeds(u) /\ scan.at # head
          /\ InsertAfter(scan.at, new) /\ UNCHANGED head
          /\ Done(u) /\ Unlock
       \/ /\ ~Exceeds(u) /\ next[scan.at] = Nil
          /\ InsertAfter(scan.at, new) /\ UNCHANGED head
          /\ Done(u) /\ Unlock
       \/ /\ ~Exceeds(u) /\ next[scan.at] # Nil
          /\ scan' = [scan EXCEPT !.at = next[scan.at]]
          /\ UNCHANGED <<head, next, thr, lock>>
    /\ UNCHANGED <<slot, busyIn, busyOut, ids, inputs, client, world>>

\* resource_entry_remove and resource_entry_free lock one after the other.
Remove(u) ==
    /\ CanLock(u, "remove")
    /\ \/ Unlink(thr[u].entry) /\ Done(u) /\ UNCHANGED lock
       \/ Endless(thr[u].entry) /\ lock' = u /\ UNCHANGED <<head, next, thr>>
    /\ UNCHANGED <<slot, busyIn, busyOut, ids, scan, inputs, client, world>>

FreeEntry(u) ==
    /\ CanLock(u, "free")
    /\ FreeSlot(thr[u].entry)
    /\ thr' = [thr EXCEPT ![u].entry = Nil, ![u].todo = Tail(@)]
    /\ UNCHANGED <<head, next, ids, lock, scan, inputs, client, world>>

-----------------------------------------------------------------------------
(* resource_request_update: revokes first, grants if there was none.       *)

One(b) == IF b THEN 1 ELSE 0

\* The requests of the head count, whether they have been granted or not.
UpdateBegin(u) ==
    /\ CanLock(u, "update")
    /\ IF head = Nil THEN Done(u) /\ UNCHANGED <<lock, scan>>
       ELSE /\ lock' = u
            /\ scan' = [Scan("revoke", next[head]) EXCEPT
                            !.rec = One(slot[head].in),
                            !.play = One(slot[head].out # "none")]
            /\ UNCHANGED thr
    /\ UNCHANGED <<memory, ids, inputs, client, world>>

SameProcess(u, s) == slot[s].owner # None /\ Proc[slot[s].owner] = Proc[u]
\* The user that registered the user id of the entry, if the entry has one.
Addressee(s) == IF slot[s].uid \in UserIds THEN ids[slot[s].uid] ELSE None
\* A fifo is read only by the thread that was launched with its user id.
Reads(v, i) == v # None /\ thr[v].fds /\ thr[v].uid = i
\* open(O_WRONLY) blocks on the fifo that a dead process has left.
Blocks(u, s) ==
    ~SameProcess(u, s) /\ Addressee(s) # None /\ ~Alive(Addressee(s))

Inform(u, s, event) ==
    LET o == slot[s].owner
        v == Addressee(s) IN
    /\ mq' = IF SameProcess(u, s) /\ thr[o].fds
             THEN [mq EXCEPT ![o] = Append(@, event)] ELSE mq
    /\ fifo' = IF ~SameProcess(u, s) /\ Reads(v, slot[s].uid)
               THEN [fifo EXCEPT ![v] = Append(@, event)] ELSE fifo

RevokeStep(u) ==
    LET s == scan.at IN
    /\ Scanning(u, "revoke") /\ s # Nil
    /\ scan' = [scan EXCEPT
                    !.at = next[s],
                    !.rec = @ + One(slot[s].rec # None /\ ~OverRec(s)),
                    !.play = @ + One(slot[s].play # None /\ ~Revokes(s)),
                    !.revoked = @ \/ Revokes(s)]
    /\ IF Revokes(s) /\ Notifies(s)
       THEN slot' = [slot EXCEPT ![s].notified = TRUE] /\ Inform(u, s, "REVOKED")
       ELSE UNCHANGED <<slot, inputs>>
    /\ UNCHANGED <<head, next, busyIn, busyOut, ids, lock, thr, client, world>>

RevokeEndGoesOn(u) ==             \* mutant: grants before the owners release
    /\ Scanning(u, "revoke") /\ scan.at = Nil
    /\ scan' = Scan("grant", head)
    /\ UNCHANGED <<lock, thr, memory, ids, inputs, client, world>>
RevokeEnd(u) ==
    /\ Scanning(u, "revoke") /\ scan.at = Nil
    /\ IF scan.revoked THEN Done(u) /\ Unlock
       ELSE scan' = Scan("grant", head) /\ UNCHANGED <<lock, thr>>
    /\ UNCHANGED <<memory, ids, inputs, client, world>>

GrantStep(u) ==
    LET s == scan.at
        grant == Grants(s) IN
    /\ Scanning(u, "grant") /\ s # Nil
    /\ scan' = [scan EXCEPT
           !.at = next[s],
           !.rec = @ + One(slot[s].rec # None \/ (grant /\ slot[s].in)),
           !.play = @ + One(slot[s].play # None \/ (grant /\ slot[s].out # "none"))]
    /\ \/ /\ grant /\ Notifies(s)
          /\ ~Blocks(u, s)
          /\ Allocate(s) /\ Inform(u, s, "GRANTED")
       \/ /\ ~grant \/ ~Notifies(s)
          /\ UNCHANGED <<slot, busyIn, busyOut, inputs>>
    /\ UNCHANGED <<head, next, ids, lock, thr, client, world>>

UpdateEndLocked(u) ==             \* mutant: returns without the unlock
    /\ Scanning(u, "grant") /\ scan.at = Nil
    /\ Done(u) /\ scan' = NoScan
    /\ UNCHANGED <<lock, memory, ids, inputs, client, world>>
UpdateEnd(u) ==
    /\ Scanning(u, "grant") /\ scan.at = Nil
    /\ Done(u) /\ Unlock
    /\ UNCHANGED <<memory, ids, inputs, client, world>>

-----------------------------------------------------------------------------
(* Grants and revokes in the resource thread.                              *)

\* resource_request_grant: the mark is cleared without the lock, and
\* xraudio_resource_grant returns at once for an object without a request.
Grant(u) ==
    /\ In(u, "grant")
    /\ slot' = [slot EXCEPT ![thr[u].entry].notified = FALSE]
    /\ IF obj[u].requested
       THEN Done(u) /\ UNCHANGED told
       ELSE thr' = Todo(u, <<>>) /\ told' = [told EXCEPT ![u] = "granted"]
    /\ UNCHANGED <<head, next, busyIn, busyOut, ids, lock, scan, inputs, obj, call,
                   req, world>>

\* xraudio_resource_grant under mutex_api, then the client's callback.
SetGranted(u) ==
    /\ In(u, "set") /\ call[u] = "out"
    /\ obj' = [obj EXCEPT ![u].rec = slot[thr[u].entry].rec,
                          ![u].play = slot[thr[u].entry].play]
    /\ told' = [told EXCEPT ![u] = "granted"]
    /\ Done(u)
    /\ UNCHANGED <<memory, ids, lock, scan, inputs, call, req, world>>

\* The client notes the event; it may release in the callback (below).
Revoked(u) ==
    /\ In(u, "callback") /\ call[u] # "callback" /\ told[u] # "revoked"
    /\ told' = [told EXCEPT ![u] = "revoked"]
    /\ IF InCallback THEN UNCHANGED thr ELSE Done(u)
    /\ UNCHANGED <<memory, ids, lock, scan, inputs, obj, call, req, world>>
CallbackReturns(u) ==
    /\ In(u, "callback") /\ told[u] = "revoked" /\ call[u] # "callback"
    /\ Done(u)
    /\ UNCHANGED <<memory, ids, lock, scan, inputs, client, world>>

-----------------------------------------------------------------------------
(* The client (xraudio.c).                                                 *)

\* xraudio_shared_mem_open: user ids of dead processes are removed.
Cleaned == [i \in UserIds |-> IF ids[i] # None /\ ~Alive(ids[i]) THEN None ELSE ids[i]]
IsNextId(i) == Cleaned[i] = None /\ \A j \in 0 .. i - 1 : Cleaned[j] # None
OpenMemory ==
    IF \A i \in UserIds : Cleaned[i] = None THEN EmptyMemory ELSE UNCHANGED memory

\* xraudio_resource_request.  The thread of an earlier request that was not
\* released is "already running" and listens to the queue of that request.
Request(u, r) ==
    /\ Alive(u) /\ call[u] = "out" /\ lock = None
    /\ ~obj[u].requested \/ (Repeat /\ Idle(u) /\ mq[u] = <<>>)
    /\ MayStart(u)
    /\ OpenMemory
    /\ \/ \E i \in UserIds :
            /\ IsNextId(i)
            /\ ids' = [Cleaned EXCEPT ![i] = u]
            /\ obj' = [obj EXCEPT ![u].requested = TRUE, ![u].running = TRUE,
                                  ![u].fresh = ~obj[u].running, ![u].fd = TRUE,
                                  ![u].uid = i]
            /\ req' = [req EXCEPT ![u] = r]
            /\ told' = [told EXCEPT ![u] = "none"]
            /\ IF obj[u].running THEN UNCHANGED <<thr, mq, fifo>>
               ELSE /\ thr' = [thr EXCEPT ![u] = NewThread(i)]
                    /\ mq' = [mq EXCEPT ![u] = <<"request">>]
                    /\ fifo' = [fifo EXCEPT ![u] = <<>>]
       \/ /\ \A i \in UserIds : Cleaned[i] # None
          /\ ids' = Cleaned
          /\ UNCHANGED <<obj, req, told, thr, inputs>>
    /\ UNCHANGED <<lock, scan, call, world>>

TerminateFirst == <<"terminate", "release">>     \* mutant: swapped
ReleaseMessages == <<"release", "terminate">>

\* xraudio_resource_release up to the wait for the thread: mutex_api is held.
BeginRelease(u, by) ==
    /\ Alive(u) /\ obj[u].requested /\ call[u] = "out"
    /\ call' = [call EXCEPT ![u] = by]
    /\ mq' = IF obj[u].fresh /\ thr[u].fds
             THEN [mq EXCEPT ![u] = @ \o ReleaseMessages] ELSE mq
    /\ obj' = [obj EXCEPT ![u].rec = None, ![u].play = None]
    /\ UNCHANGED <<memory, ids, lock, scan, thr, fifo, told, req, world>>
Release(u) ==
    /\ Patient => told[u] # "none"
    /\ MayStart(u)
    /\ BeginRelease(u, "client")
ReleaseInCallback(u) ==
    /\ In(u, "callback") /\ told[u] = "revoked"
    /\ BeginRelease(u, "callback")

\* The queue, the fifo and the shared memory are closed, whoever uses them.
\* The lock file is the one the thread of this object locks.
Close(u, running) ==
    /\ lock \in {None, u}
    /\ Unlock
    /\ ids' = [ids EXCEPT ![obj[u].uid] = None]
    /\ obj' = [obj EXCEPT ![u].requested = FALSE, ![u].running = running,
                          ![u].fd = FALSE, ![u].uid = NoUid]
    /\ call' = [call EXCEPT ![u] = "out"]
    /\ told' = [told EXCEPT ![u] = "none"]
    /\ UNCHANGED <<req, world>>

\* rsrc_thread_terminate: the thread has posted the semaphore and is joined.
ReleaseJoins(u) ==
    /\ Alive(u) /\ call[u] = "client" /\ obj[u].fresh
    /\ ~thr[u].on /\ ~thr[u].running
    /\ mq' = [mq EXCEPT ![u] = <<>>] /\ fifo' = [fifo EXCEPT ![u] = <<>>]
    /\ thr' = [thr EXCEPT ![u] = NoThread]
    /\ Close(u, FALSE) /\ UNCHANGED memory

\* No answer for 5 s: "Do NOT wait for thread to exit".  The thread never
\* answers when it is the one that releases, waits for mutex_api, is stuck
\* with the lock in open, all stored but nobody told, or in a cycle, or reads
\* another queue.
InOpen(u) ==
    LET s == scan.at IN
    /\ Scanning(u, "grant") /\ s # Nil
    /\ Grants(s) /\ Notifies(s) /\ Blocks(u, s)
Stuck(u) == InOpen(u) \/ (lock = u /\ Cyclic)
CannotAnswer(u) == call[u] = "callback" \/ ~obj[u].fresh \/ In(u, "set") \/ Stuck(u)
ReleaseTimesOut(u) ==
    /\ Alive(u) /\ call[u] # "out" /\ CannotAnswer(u)
    /\ IF obj[u].fresh
       THEN /\ mq' = [mq EXCEPT ![u] = <<>>] /\ fifo' = [fifo EXCEPT ![u] = <<>>]
            /\ thr' = [thr EXCEPT ![u].fds = FALSE, ![u].also = FALSE,
                                  ![u].todo = IF call[u] = "callback" THEN <<>>
                                              ELSE IF Stuck(u) THEN <<"stuck">> ELSE @]
       ELSE UNCHANGED <<thr, mq, fifo>>
    /\ IF InOpen(u) THEN Allocate(scan.at) /\ UNCHANGED <<head, next>>
       ELSE UNCHANGED memory
    /\ Close(u, TRUE)

-----------------------------------------------------------------------------
ThreadStep(u) ==
    \/ ReadQueue(u) \/ ReadFifo(u) \/ Exit(u)
    \/ ScrubStep(u) \/ ScrubEnd(u) \/ Fill(u) \/ AddStep(u)
    \/ RevokeStep(u) \/ RevokeEnd(u) \/ GrantStep(u) \/ UpdateEnd(u)
    \/ Grant(u) \/ SetGranted(u) \/ Revoked(u) \/ CallbackReturns(u)
    \/ LockFails(u)
LockStep(u) ==
    \/ ScrubBegin(u) \/ Alloc(u) \/ AddBegin(u) \/ Remove(u) \/ FreeEntry(u)
    \/ UpdateBegin(u)
ClientStep(u) ==
    \/ \E r \in Requests : Request(u, r)
    \/ Release(u) \/ ReleaseInCallback(u)
Answer(u) == ReleaseJoins(u) \/ ReleaseTimesOut(u)

Next ==
    \/ \E u \in Users : ThreadStep(u) \/ LockStep(u) \/ Timer(u)
                        \/ ClientStep(u) \/ Answer(u)
    \/ \E p \in Procs : Killed(p)

Spec == Init /\ [][Next]_vars

\* The kernel serves those who wait for the lock in turn (flock), the timer
\* expires when nothing else is left to read, and a client releases what is
\* revoked, as XRAUDIO_RESOURCE_EVENT_REVOKED asks.
SystemStep == \E u \in Users : ThreadStep(u) \/ LockStep(u) \/ Answer(u)
Fairness ==
    /\ WF_vars(SystemStep)
    /\ WF_vars(\E u \in Users : Timer(u))
    /\ \A u \in Users : SF_vars(Release(u) /\ told[u] = "revoked")
FairSpec == Spec /\ Fairness

-----------------------------------------------------------------------------
(* Properties.                                                             *)

\* Every variable has its type.
TypeOK ==
    /\ head \in Slots \cup {Nil} /\ next \in [Slots -> Slots \cup {Nil}]
    /\ slot \in [Slots -> SlotType]
    /\ busyIn \in [InIds -> BOOLEAN] /\ busyOut \in [OutIds -> BOOLEAN]
    /\ ids \in [UserIds -> Users \cup {None}]
    /\ lock \in Users \cup {None} /\ scan \in ScanType
    /\ thr \in [Users -> ThreadType]
    /\ mq \in [Users -> Seq(FromClient \cup Events)]
    /\ fifo \in [Users -> Seq(Events)]
    /\ obj \in [Users -> ObjectType]
    /\ call \in [Users -> {"out", "client", "callback"}]
    /\ told \in [Users -> {"none", "granted", "revoked"}]
    /\ req \in [Users -> Requests]
    /\ alive \subseteq Procs /\ deaths \in Nat

\* No two entries have the same device, and the device an entry has is marked
\* as used (resource_allocate_*, resource_free_*): whatever the processes do,
\* even when two of them fill one entry, and between whichever stores of a
\* handler they die, but for "unmarked": a process that dies in
\* resource_entry_free between a mark and the id that goes with it leaves an
\* entry with a device that others are granted.
NoDeviceShared ==
    /\ \A s \in Slots : /\ slot[s].rec # None => busyIn[slot[s].rec]
                        /\ slot[s].play # None => busyOut[slot[s].play]
    /\ \A s, t \in Slots : s # t =>
          /\ slot[s].rec # None => slot[s].rec # slot[t].rec
          /\ slot[s].play # None => slot[s].play # slot[t].play

\* A device that is marked as used is the device of an entry, which gives it
\* back when it is freed: between whichever stores of a handler processes die,
\* also when entries share a device because of that, but for "marked": a
\* process that dies in a grant between a mark and its id loses the device.
NoDeviceLost ==
    /\ \A d \in InIds : busyIn[d] => \E s \in Slots : slot[s].rec = d
    /\ \A d \in OutIds : busyOut[d] => \E s \in Slots : slot[s].play = d

\* A device is marked as used if, and only if, it is the device of one entry.
DeviceExclusive == NoDeviceShared /\ NoDeviceLost

\* The entry a thread is about to add to the list or to free.
Loose(s) == \E u \in Users : /\ thr[u].entry = s /\ ~Idle(u)
                             /\ Head(thr[u].todo) \in {"add", "free"}
\* The list ends, and it holds exactly the entries in use, but for the one a
\* thread is about to add or to free; no user has two.
ListSound ==
    /\ ~Cyclic
    /\ \A s \in Slots : slot[s].prio # Free <=> (s \in Listed \/ Loose(s))
    /\ \A s, t \in Slots : s # t /\ slot[s].owner # None
                              => slot[s].owner # slot[t].owner

\* The events a client has not handled, in its queue, its fifo or at hand.
EventsIn(q) == Cardinality({i \in DOMAIN q : q[i] \in Events})
Pending(u) == EventsIn(mq[u]) + EventsIn(fifo[u])
              + One(~Idle(u) /\ Head(thr[u].todo) \in {"grant", "callback"})
\* No handler that uses the entry of a request runs without an entry
\* (xraudio_rsrc_msg_resource_grant, xraudio_rsrc_msg_resource_release), and no
\* client is sent an event before it has handled the one before: that is what
\* "notified" is for, across processes.
HandlerHasEntry ==
    \A u \in Users :
        /\ thr[u].entry = Nil =>
            /\ QueueNext(u) => ~NeedsEntry(Head(mq[u]))
            /\ FifoNext(u) => ~NeedsEntry(Head(fifo[u]))
        /\ Pending(u) <= 1

\* "The client can successfully call xraudio_open after receiving this
\* event": a client that was told of a grant has the devices it asked for.
GrantedHasDevices ==
    \A u \in Users : Alive(u) /\ obj[u].requested /\ call[u] = "out"
                     /\ told[u] = "granted" =>
        /\ req[u].in => obj[u].rec # None
        /\ req[u].out # "none" => obj[u].play # None

\* After xraudio_resource_release the object has no devices and no entry of
\* the list that keeps devices from the others.
ReleasedHoldsNothing ==
    \A u \in Users : Alive(u) /\ ~obj[u].requested =>
        ~Holds(u) /\ obj[u].rec = None /\ obj[u].play = None

\* A client has devices while, and only while, it was told that they are its.
DevicesAsTold == GrantedHasDevices /\ ReleasedHoldsNothing

\* The devices of a process that has ended are in the list, where the scrub of
\* another process finds them.
DevicesRecoverable ==
    \A s \in Slots : Held(s) /\ ~Alive(slot[s].owner) => s \in Listed

\* "Higher priority requests will be granted before lower priority requests":
\* no grant passes over a waiting request of higher priority for the same.
Waiting(s) == ~Held(s) /\ ~slot[s].notified
GrantsByPriority ==
    [][\A s, t \in Slots :
          /\ Waiting(s) /\ slot'[s].notified /\ ~slot'[t].notified
          /\ s \in Listed /\ t \in Listed /\ Waiting(t)
          /\ slot[s].in = slot[t].in /\ slot[s].out = slot[t].out
          => slot[t].prio <= slot[s].prio]_vars

\* Grants "Wait for resource owners to release the resources": among the
\* entries of the list there are never more owners than devices.
OwnersWithinCapability ==
    /\ Cardinality({s \in Listed : slot[s].rec # None}) <= InQty
    /\ Cardinality({s \in Listed : slot[s].play # None}) <= OutQty

\* A request the API has accepted is on the queue its thread reads.
RequestHeard == \A u \in Users : obj[u].requested => obj[u].fresh

\* The request at the head of the list is granted sooner or later, or no
\* longer at the head: owners release what is revoked, and the timer finds
\* what dead owners have left.
AtHead(u) == head # Nil /\ slot[head].owner = u /\ ~Held(head)
HeadServed ==
    \A u \in Users : AtHead(u) ~> ~AtHead(u) \/ ~Alive(u)

\* No thread keeps the file lock for ever.
LockReleased == \A u \in Users : lock = u ~> lock # u
=============================================================================
