-------------------------- MODULE XraudioRecording --------------------------
(***************************************************************************)
(* What recording with xraudio promises its clients (xraudio.h), without   *)
(* queue, threads or HAL: a session of a group has the client's file,      *)
(* memory, pipe and handler from the call that starts it to the answer to  *)
(* the stop or close that ends it, and for no longer; one call at a time   *)
(* changes the sessions; and every call that waits is told exactly once.   *)
(***************************************************************************)
CONSTANTS
    Clients,
    Groups,
    Things,     \* what a client lends to a session: destinations and callbacks
    Nowhere     \* no group

VARIABLES
    phase,      \* per group: the state of its session
    held,       \* per group: what xraudio may still use of the client's
    doing,      \* per client: the call it waits in, and the group it is about
    told        \* the clients that have been told, and have not returned yet

recVars == <<phase, held, doing, told>>

Phases == {"closed", "idle", "listening", "busy"}
\* "closing" is a close between its waits; "ending" is one whose groups are
\* closed already, while the main thread ends.
Doings == {"none", "record", "listen", "stop", "closing", "closeStop",
           "closeIdle", "ending"}
Doing(what, g) == [call |-> what, on |-> g]
Nothing == Doing("none", Nowhere)
Is(c, whats) == doing[c].call \in whats
ReleasesGroup == {"stop", "closeStop", "listen"}
ReleasesAll   == {"closeIdle", "ending"}

Init ==
    /\ phase = [g \in Groups |-> "closed"]
    /\ held = [g \in Groups |-> {}]
    /\ doing = [c \in Clients |-> Nothing]
    /\ told = {}

\* No call that changes the sessions is in progress.
Inside(c) == ~Is(c, {"none", "ending"})
Quiet == \A c \in Clients : ~Inside(c)
Enter(c, what, g) ==
    /\ Is(c, {"none"})
    /\ doing' = [doing EXCEPT ![c] = Doing(what, g)]

Open ==
    /\ \A c \in Clients : Is(c, {"none"})
    /\ \A g \in Groups : phase[g] = "closed"
    /\ phase' = [g \in Groups |-> "idle"]
    /\ UNCHANGED <<held, doing, told>>

\* A session starts with what it is given and nothing of an earlier one.
Start(c, g) ==
    /\ phase[g] \in {"idle", "listening"} /\ Quiet
    /\ phase' = [phase EXCEPT ![g] = "busy"]
    /\ Enter(c, "record", Nowhere) \/ UNCHANGED doing
    /\ UNCHANGED told
    /\ held[g] = {}
    /\ \E things \in (SUBSET Things) \ {{}} : held' = [held EXCEPT ![g] = things]

Listen(c, g) ==
    /\ phase[g] = "idle" /\ Quiet
    /\ phase' = [phase EXCEPT ![g] = "listening"]
    /\ Enter(c, "listen", g)
    /\ UNCHANGED <<held, told>>

Stop(c, g) ==
    /\ phase[g] \in {"listening", "busy"} /\ Quiet
    /\ Enter(c, "stop", g)
    /\ UNCHANGED <<phase, held, told>>

\* A close stops the busy groups and then has the microphone stopped.
Close(c) ==
    /\ Quiet
    /\ Enter(c, "closing", Nowhere)
    /\ UNCHANGED <<phase, held, told>>
CloseStop(c, g) ==
    /\ Is(c, {"closing"}) /\ phase[g] = "busy"
    /\ doing' = [doing EXCEPT ![c] = Doing("closeStop", g)]
    /\ UNCHANGED <<phase, held, told>>
CloseIdle(c) ==
    /\ Is(c, {"closing"}) /\ \A g \in Groups : phase[g] # "busy"
    /\ doing' = [doing EXCEPT ![c] = Doing("closeIdle", Nowhere)]
    /\ UNCHANGED <<phase, held, told>>

\* xraudio gives back what a session no longer needs, and tells those whose wait
\* is over.  Who waited for a stop then has everything back.
Progress(who) ==
    /\ told' = told \cup who
    /\ \A c \in who : ~Is(c, {"none", "closing"}) /\ c \notin told
    /\ UNCHANGED <<phase, doing>>
    /\ held' \in [Groups -> SUBSET Things]
    /\ \A g \in Groups : held'[g] \subseteq held[g]
    /\ \A c \in who :
          /\ Is(c, ReleasesGroup) => held'[doing[c].on] = {}
          /\ Is(c, ReleasesAll) => \A g \in Groups : held'[g] = {}

Returns(c, next) ==
    /\ c \in told /\ told' = told \ {c}
    /\ doing' = [doing EXCEPT ![c] = next]
    /\ UNCHANGED held
\* The session of a recording call goes on until it is stopped.
CallReturn(c) ==
    /\ Is(c, {"record", "listen", "ending"})
    /\ Returns(c, Nothing) /\ UNCHANGED phase
StopReturn(c) ==
    /\ Is(c, {"stop", "closeStop"})
    /\ Returns(c, IF Is(c, {"stop"}) THEN Nothing ELSE Doing("closing", Nowhere))
    /\ phase' = [phase EXCEPT ![doing[c].on] = "idle"]
IdleReturn(c) ==
    /\ Is(c, {"closeIdle"})
    /\ Returns(c, Doing("ending", Nowhere))
    /\ phase' = [g \in Groups |-> "closed"]

ClientStep(c) ==
    \/ \E g \in Groups : \/ Start(c, g) \/ Listen(c, g)
                         \/ Stop(c, g) \/ CloseStop(c, g)
    \/ Close(c) \/ CloseIdle(c)
    \/ CallReturn(c) \/ StopReturn(c) \/ IdleReturn(c)

Next ==
    \/ \E who \in SUBSET Clients : Progress(who)
    \/ \E c \in Clients : ClientStep(c)
    \/ Open

Spec == Init /\ [][Next]_recVars

RecordingTypeOK ==
    /\ phase \in [Groups -> Phases]
    /\ held \in [Groups -> SUBSET Things]
    /\ doing \in [Clients -> [call : Doings, on : Groups \cup {Nowhere}]]
    /\ told \subseteq Clients

\* A group whose session is not busy has nothing of a client's: no frame can
\* reach a buffer, pipe or handler the client has got back.
OnlyWhileBusy == \A g \in Groups : phase[g] # "busy" => held[g] = {}

\* One call at a time changes the sessions.
OneInside == \A c, d \in Clients : Inside(c) /\ Inside(d) => c = d

\* A client that has been told of the end of a session, and may not have run
\* since, has already got everything back.
ToldReleased ==
    \A c \in told :
       /\ Is(c, ReleasesGroup) => held[doing[c].on] = {}
       /\ Is(c, ReleasesAll) => \A g \in Groups : held[g] = {}
=============================================================================
