----------------------- MODULE XraudioRecordingProofs -----------------------
(***************************************************************************)
(* What XraudioRecording promises, proved for every number of clients,     *)
(* groups and things they lend.                                            *)
(***************************************************************************)
EXTENDS XraudioRecording, TLAPS

DoingType == [call : Doings, on : Groups \cup {Nowhere}]

\* A wait for a stop, or for the keyword detector, is about a group, and a wait
\* for a stop about one with a session.
NamesGroup ==
    \A c \in Clients :
       /\ Is(c, ReleasesGroup) => doing[c].on \in Groups
       /\ Is(c, {"stop", "closeStop"}) => phase[doing[c].on] # "closed"
\* Only who waits has been told.
ToldWaits == \A c \in told : ~Is(c, {"none", "closing"})
\* While the end of xraudio is awaited every session is closed.
EndingClosed ==
    (\E c \in Clients : Is(c, {"ending"})) => \A g \in Groups : phase[g] = "closed"

\* A session is busy or the group's resources are back (OnlyWhileBusy); for the
\* return of a stop to keep that, whoever has been told must have everything back
\* (ToldReleased); and that lasts until the return because no session starts
\* while a call is inside (OneInside), nor while the end of xraudio is awaited
\* (EndingClosed).
CallInv == RecordingTypeOK /\ NamesGroup /\ ToldWaits /\ OneInside /\ EndingClosed
RecordingInv == CallInv /\ OnlyWhileBusy /\ ToldReleased

\* Nothing is lent or told and nobody waits before the first open.
LEMMA RecordingInit == Init => RecordingInv
BY DEF Init, RecordingInv, CallInv, RecordingTypeOK, NamesGroup, ToldWaits, OneInside,
       EndingClosed, OnlyWhileBusy, ToldReleased, Phases, Doings, Doing, Nothing, Is,
       ReleasesGroup, ReleasesAll, Inside

\* When the call of one client changes, and the phases of the groups do, the
\* calls stay well formed.
LEMMA CallsKept ==
    ASSUME CallInv, NEW c \in Clients, NEW d \in DoingType,
           doing' = [doing EXCEPT ![c] = d],
           phase' \in [Groups -> Phases],
           held' \in [Groups -> SUBSET Things],
           told' \subseteq told, c \notin told',
           d.call \in ReleasesGroup => d.on \in Groups,
           d.call \in {"stop", "closeStop"} => phase'[d.on] # "closed",
           d.call \notin {"none", "ending"} => \A x \in Clients \ {c} : ~Inside(x),
           \A g \in Groups : phase[g] # "closed" /\ phase'[g] = "closed"
                 => \A x \in Clients \ {c} : ~Inside(x),
           \/ d.call # "ending" /\ \A g \in Groups : phase[g] = "closed"
                                                   => phase'[g] = "closed"
           \/ \A g \in Groups : phase'[g] = "closed"
    PROVE  CallInv'
<1>1. RecordingTypeOK'
  BY DEF CallInv, RecordingTypeOK, DoingType
<1>2. \A x \in Clients : doing'[x] = IF x = c THEN d ELSE doing[x]
  BY DEF CallInv, RecordingTypeOK
<1>3. NamesGroup'
  <2>1. SUFFICES ASSUME NEW x \in Clients
                 PROVE  /\ Is(x, ReleasesGroup)' => doing'[x].on \in Groups
                        /\ Is(x, {"stop", "closeStop"})' => phase'[doing'[x].on] # "closed"
    BY DEF NamesGroup, ReleasesGroup
  <2>2. CASE x = c
    BY <1>2, <2>2 DEF Is, ReleasesGroup
  <2>3. CASE x # c
    <3>1. doing'[x] = doing[x]
      BY <1>2, <2>3
    <3>2. Is(x, {"stop", "closeStop"}) => Inside(x) /\ doing[x].on \in Groups
      BY DEF Is, Inside, CallInv, NamesGroup, ReleasesGroup
    <3>3. QED
      BY <2>3, <3>1, <3>2 DEF Is, CallInv, NamesGroup, ReleasesGroup
  <2>4. QED
    BY <2>2, <2>3
<1>4. ToldWaits'
  BY <1>2 DEF CallInv, RecordingTypeOK, ToldWaits, Is
<1>5. OneInside'
  BY <1>2 DEF CallInv, OneInside, Inside, Is
<1>6. EndingClosed'
  BY <1>2 DEF CallInv, EndingClosed, Is
<1>7. QED
  BY <1>1, <1>3, <1>4, <1>5, <1>6 DEF CallInv

\* What a step leaves to be returned stays given back, when nothing is lent and
\* the calls of those who have been told do not change.
LEMMA ToldKept ==
    ASSUME RecordingInv, held' = held, told' \subseteq told,
           \A x \in told' : doing'[x] = doing[x]
    PROVE  ToldReleased'
BY DEF RecordingInv, ToldReleased, Is

\* A call that is entered, or a close that goes on, lends nothing and ends no
\* session.
LEMMA EnterKeeps ==
    ASSUME RecordingInv, NEW c \in Clients, NEW d \in DoingType,
           Is(c, {"none", "closing"}), \A x \in Clients \ {c} : ~Inside(x),
           d.call \notin {"none", "ending"},
           d.call \in ReleasesGroup => d.on \in Groups /\ phase'[d.on] # "closed",
           doing' = [doing EXCEPT ![c] = d], held' = held, told' = told,
           phase' \in [Groups -> Phases],
           \A g \in Groups : /\ phase'[g] = "closed" <=> phase[g] = "closed"
                             /\ phase'[g] # "busy" => phase[g] # "busy"
    PROVE  RecordingInv'
<1>0. CallInv /\ c \notin told
  BY DEF RecordingInv, CallInv, ToldWaits
<1>1. CallInv'
  <2>1. held' \in [Groups -> SUBSET Things] /\ told' \subseteq told /\ c \notin told'
    BY <1>0 DEF CallInv, RecordingTypeOK
  <2>2. d.call \in {"stop", "closeStop"} => phase'[d.on] # "closed"
    BY DEF ReleasesGroup
  <2>3. d.call # "ending"
    OBVIOUS
  <2>4. QED
    BY <1>0, <2>1, <2>2, <2>3, CallsKept
<1>2. OnlyWhileBusy'
  BY DEF RecordingInv, OnlyWhileBusy
<1>3. ToldReleased'
  BY <1>0, ToldKept DEF CallInv, RecordingTypeOK
<1>4. QED
  BY <1>1, <1>2, <1>3 DEF RecordingInv

\* A return ends only sessions that hold nothing.
LEMMA ReturnKeeps ==
    ASSUME RecordingInv, NEW c \in Clients, NEW d \in DoingType,
           Returns(c, d), d.call \notin ReleasesGroup,
           d.call \notin {"none", "ending"} => \A x \in Clients \ {c} : ~Inside(x),
           phase' \in [Groups -> Phases],
           \A g \in Groups : phase'[g] # "busy" => held[g] = {},
           \/ d.call # "ending" /\ \A g \in Groups : phase[g] = "closed"
                                                   <=> phase'[g] = "closed"
           \/ /\ \A g \in Groups : phase'[g] = "closed"
              /\ \A x \in Clients \ {c} : ~Inside(x)
    PROVE  RecordingInv'
<1>1. CallInv'
  <2>1. /\ CallInv /\ doing' = [doing EXCEPT ![c] = d]
        /\ held' \in [Groups -> SUBSET Things] /\ told' \subseteq told /\ c \notin told'
    BY DEF RecordingInv, CallInv, RecordingTypeOK, Returns
  <2>2. d.call \notin {"stop", "closeStop"}
    BY DEF ReleasesGroup
  <2>3. QED
    BY <2>1, <2>2, CallsKept
<1>2. OnlyWhileBusy'
  BY DEF OnlyWhileBusy, Returns
<1>3. ToldReleased'
  BY ToldKept DEF RecordingInv, CallInv, RecordingTypeOK, Returns
<1>4. QED
  BY <1>1, <1>2, <1>3 DEF RecordingInv

\* A start lends to a session while nobody who has been told relies on it.
LEMMA StartKeeps ==
    ASSUME RecordingInv, NEW c \in Clients, NEW g \in Groups, Start(c, g)
    PROVE  RecordingInv'
<1>1. PICK things \in SUBSET Things : held' = [held EXCEPT ![g] = things]
  BY DEF Start
<1>2. /\ phase' \in [Groups -> Phases] /\ held' \in [Groups -> SUBSET Things]
      /\ told' = told
      /\ \A h \in Groups : phase'[h] = IF h = g THEN "busy" ELSE phase[h]
      /\ \A h \in Groups : h # g => held'[h] = held[h]
  BY <1>1 DEF RecordingInv, CallInv, RecordingTypeOK, Start, Phases
<1>3. \A x \in Clients : ~Inside(x)
  BY DEF Start, Quiet
<1>4. \A x \in Clients : ~Is(x, {"ending"})
  BY DEF Start, RecordingInv, CallInv, EndingClosed
<1>5. told = {}
  BY <1>3, <1>4 DEF RecordingInv, CallInv, RecordingTypeOK, ToldWaits, Inside, Is
<1>6. CallInv'
  <2>1. CASE UNCHANGED doing
    <3>1. NamesGroup'
      BY <2>1, <1>2, <1>3 DEF RecordingInv, CallInv, NamesGroup, Is, Inside, ReleasesGroup
    <3>2. OneInside' /\ EndingClosed' /\ ToldWaits' /\ RecordingTypeOK'
      BY <2>1, <1>2, <1>3, <1>4, <1>5
      DEF RecordingInv, CallInv, RecordingTypeOK, OneInside, EndingClosed, ToldWaits,
          Inside, Is
    <3>3. QED
      BY <3>1, <3>2 DEF CallInv
  <2>2. CASE Enter(c, "record", Nowhere)
    <3>1. /\ Doing("record", Nowhere) \in DoingType
          /\ Doing("record", Nowhere).call = "record"
      BY DEF Doing, DoingType, Doings
    <3>2. doing' = [doing EXCEPT ![c] = Doing("record", Nowhere)]
      BY <2>2 DEF Enter
    <3>3. CallInv /\ "record" \notin ReleasesGroup
      BY DEF RecordingInv, ReleasesGroup
    <3>4. \A h \in Groups : phase[h] = "closed" <=> phase'[h] = "closed"
      BY <1>2 DEF Start
    <3>5. QED
      BY <1>2, <1>3, <1>5, <3>1, <3>2, <3>3, <3>4, CallsKept
  <2>3. QED
    BY <2>1, <2>2 DEF Start
<1>7. OnlyWhileBusy'
  BY <1>2 DEF RecordingInv, OnlyWhileBusy
<1>8. ToldReleased'
  BY <1>2, <1>5 DEF ToldReleased
<1>9. QED
  BY <1>6, <1>7, <1>8 DEF RecordingInv

\* Progress only gives back, and gives everything back to those it tells.
LEMMA ProgressKeeps ==
    ASSUME RecordingInv, NEW who \in SUBSET Clients, Progress(who)
    PROVE  RecordingInv'
<1>1. RecordingTypeOK'
  BY DEF RecordingInv, CallInv, RecordingTypeOK, Progress
<1>2. NamesGroup' /\ OneInside' /\ EndingClosed'
  BY DEF RecordingInv, CallInv, NamesGroup, OneInside, EndingClosed, Inside, Is, Progress
<1>3. ToldWaits'
  BY DEF RecordingInv, CallInv, ToldWaits, Is, Progress
<1>4. OnlyWhileBusy'
  BY DEF RecordingInv, OnlyWhileBusy, Progress
<1>5. ToldReleased'
  <2>1. SUFFICES ASSUME NEW c \in told'
                 PROVE  /\ Is(c, ReleasesGroup) => held'[doing[c].on] = {}
                        /\ Is(c, ReleasesAll) => \A g \in Groups : held'[g] = {}
    BY DEF ToldReleased, Is, Progress
  <2>2. CASE c \in who
    BY <2>2 DEF Progress
  <2>3. CASE c \in told
    <3>1. c \in Clients
      BY <2>3 DEF RecordingInv, CallInv, RecordingTypeOK
    <3>2. Is(c, ReleasesGroup) => doing[c].on \in Groups /\ held[doing[c].on] = {}
      BY <2>3, <3>1 DEF RecordingInv, CallInv, NamesGroup, ToldReleased
    <3>3. Is(c, ReleasesAll) => \A g \in Groups : held[g] = {}
      BY <2>3 DEF RecordingInv, ToldReleased
    <3>4. QED
      BY <3>2, <3>3 DEF Progress
  <2>4. QED
    BY <2>1, <2>2, <2>3 DEF Progress
<1>6. QED
  BY <1>1, <1>2, <1>3, <1>4, <1>5 DEF RecordingInv, CallInv

\* An open finds everything returned: all sessions were closed.
LEMMA OpenKeeps == ASSUME RecordingInv, Open PROVE RecordingInv'
<1>1. RecordingTypeOK'
  BY DEF RecordingInv, CallInv, RecordingTypeOK, Open, Phases
<1>2. NamesGroup' /\ OneInside' /\ EndingClosed' /\ ToldWaits'
  BY DEF RecordingInv, CallInv, NamesGroup, OneInside, EndingClosed, ToldWaits, Inside,
         Is, Open, RecordingTypeOK, ReleasesGroup
<1>3. OnlyWhileBusy'
  BY DEF RecordingInv, OnlyWhileBusy, Open
<1>4. ToldReleased'
  BY DEF RecordingInv, ToldReleased, Is, Open
<1>5. QED
  BY <1>1, <1>2, <1>3, <1>4 DEF RecordingInv, CallInv

\* A call about a group, and one that ends at most the session it is about.
LEMMA ClientKeeps ==
    ASSUME RecordingInv, NEW c \in Clients, ClientStep(c)
    PROVE  RecordingInv'
<1>0. CallInv /\ RecordingTypeOK
  BY DEF RecordingInv, CallInv
<1>1. ASSUME NEW g \in Groups, Start(c, g) PROVE RecordingInv'
  BY <1>1, StartKeeps
<1>2. ASSUME NEW g \in Groups, Listen(c, g) \/ Stop(c, g) PROVE RecordingInv'
  <2>1. \E what \in {"listen", "stop"} : Enter(c, what, g)
    BY <1>2 DEF Listen, Stop
  <2>2. PICK what \in {"listen", "stop"} : Enter(c, what, g)
    BY <2>1
  <2>3. /\ Doing(what, g) \in DoingType /\ Doing(what, g).call = what
        /\ Doing(what, g).on = g
    BY DEF Doing, DoingType, Doings
  <2>4. /\ doing' = [doing EXCEPT ![c] = Doing(what, g)] /\ Is(c, {"none", "closing"})
    BY <2>2 DEF Enter, Is
  <2>5. /\ held' = held /\ told' = told /\ phase' \in [Groups -> Phases]
        /\ \A x \in Clients : ~Inside(x)
        /\ phase'[g] # "closed"
        /\ \A h \in Groups : /\ phase'[h] = "closed" <=> phase[h] = "closed"
                             /\ phase'[h] # "busy" => phase[h] # "busy"
    BY <1>0, <1>2 DEF Listen, Stop, Quiet, RecordingTypeOK, Phases
  <2>6. QED
    BY <2>3, <2>4, <2>5, EnterKeeps
<1>3. ASSUME Close(c) \/ CloseIdle(c) \/ \E g \in Groups : CloseStop(c, g)
      PROVE  RecordingInv'
  <2>1. PICK d \in DoingType :
           /\ doing' = [doing EXCEPT ![c] = d]
           /\ d.call \in {"closing", "closeIdle", "closeStop"}
           /\ d.call = "closeStop" => d.on \in Groups /\ phase[d.on] # "closed"
    <3>1. CASE Close(c)
      <4>1. Doing("closing", Nowhere) \in DoingType
        BY DEF Doing, DoingType, Doings
      <4>2. QED
        BY <3>1, <4>1 DEF Close, Enter, Doing
    <3>2. CASE CloseIdle(c)
      <4>1. Doing("closeIdle", Nowhere) \in DoingType
        BY DEF Doing, DoingType, Doings
      <4>2. QED
        BY <3>2, <4>1 DEF CloseIdle, Doing
    <3>3. ASSUME NEW g \in Groups, CloseStop(c, g)
          PROVE  LET d == Doing("closeStop", g)
                 IN  /\ d \in DoingType /\ doing' = [doing EXCEPT ![c] = d]
                     /\ d.call = "closeStop" /\ d.on = g /\ phase[g] # "closed"
      BY <3>3 DEF CloseStop, Doing, DoingType, Doings
    <3>4. QED
      BY <1>3, <3>1, <3>2, <3>3
  <2>2. /\ held' = held /\ told' = told /\ phase' = phase /\ Is(c, {"none", "closing"})
    BY <1>3 DEF Close, CloseIdle, CloseStop, Enter, Is
  <2>3. \A x \in Clients \ {c} : ~Inside(x)
    BY <1>0, <1>3 DEF Close, CloseIdle, CloseStop, Quiet, CallInv, OneInside, Inside, Is
  <2>4. d.call \in ReleasesGroup => d.on \in Groups /\ phase'[d.on] # "closed"
    BY <2>1, <2>2 DEF ReleasesGroup
  <2>5. d.call \notin {"none", "ending"}
    BY <2>1
  <2>6. phase' \in [Groups -> Phases]
    BY <1>0, <2>2 DEF RecordingTypeOK
  <2>7. QED
    BY <2>1, <2>2, <2>3, <2>4, <2>5, <2>6, EnterKeeps
<1>4. ASSUME CallReturn(c) PROVE RecordingInv'
  <2>1. Nothing \in DoingType /\ Nothing.call = "none" /\ "none" \notin ReleasesGroup
    BY DEF Nothing, Doing, DoingType, Doings, ReleasesGroup
  <2>2. Returns(c, Nothing) /\ phase' = phase
    BY <1>4 DEF CallReturn
  <2>3. \A g \in Groups : phase'[g] # "busy" => held[g] = {}
    BY <2>2 DEF RecordingInv, OnlyWhileBusy
  <2>4. phase' \in [Groups -> Phases]
    BY <1>0, <2>2 DEF RecordingTypeOK
  <2>5. QED
    BY <2>1, <2>2, <2>3, <2>4, ReturnKeeps
<1>5. ASSUME StopReturn(c) PROVE RecordingInv'
  <2>1. PICK d \in DoingType :
           Returns(c, d) /\ d.call \in {"none", "closing"}
    BY <1>5 DEF StopReturn, Nothing, Doing, DoingType, Doings
  <2>2. /\ doing[c].on \in Groups /\ phase[doing[c].on] # "closed"
        /\ held[doing[c].on] = {}
    BY <1>0, <1>5 DEF StopReturn, Returns, CallInv, NamesGroup, RecordingInv, ToldReleased,
                      Is, ReleasesGroup
  <2>3. phase' \in [Groups -> Phases]
    BY <1>0, <1>5 DEF StopReturn, RecordingTypeOK, Phases
  <2>4. \A g \in Groups : phase'[g] = IF g = doing[c].on THEN "idle" ELSE phase[g]
    BY <1>0, <1>5 DEF StopReturn, RecordingTypeOK
  <2>5. \A x \in Clients \ {c} : ~Inside(x)
    BY <1>0, <1>5 DEF StopReturn, CallInv, OneInside, Inside, Is
  <2>6. /\ \A g \in Groups : phase'[g] # "busy" => held[g] = {}
        /\ \A g \in Groups : phase[g] = "closed" <=> phase'[g] = "closed"
    BY <2>2, <2>4 DEF RecordingInv, OnlyWhileBusy
  <2>7. d.call \notin ReleasesGroup /\ d.call # "ending"
    BY <2>1 DEF ReleasesGroup
  <2>8. QED
    BY <2>1, <2>3, <2>5, <2>6, <2>7, ReturnKeeps
<1>6. ASSUME IdleReturn(c) PROVE RecordingInv'
  <2>1. /\ Doing("ending", Nowhere) \in DoingType
        /\ Doing("ending", Nowhere).call = "ending" /\ "ending" \notin ReleasesGroup
    BY DEF Doing, DoingType, Doings, ReleasesGroup
  <2>2. /\ Returns(c, Doing("ending", Nowhere))
        /\ phase' \in [Groups -> Phases] /\ \A g \in Groups : phase'[g] = "closed"
    BY <1>6 DEF IdleReturn, Phases
  <2>3. \A g \in Groups : held[g] = {}
    BY <1>6 DEF IdleReturn, Returns, RecordingInv, ToldReleased, Is, ReleasesAll
  <2>4. \A x \in Clients \ {c} : ~Inside(x)
    BY <1>0, <1>6 DEF IdleReturn, CallInv, OneInside, Inside, Is
  <2>5. QED
    BY <2>1, <2>2, <2>3, <2>4, ReturnKeeps
<1>7. QED
  BY <1>1, <1>2, <1>3, <1>4, <1>5, <1>6 DEF ClientStep

\* Every step keeps the invariant.
LEMMA RecordingStep == RecordingInv /\ [Next]_recVars => RecordingInv'
<1> SUFFICES ASSUME RecordingInv, [Next]_recVars PROVE RecordingInv'
  OBVIOUS
<1>1. CASE UNCHANGED recVars
  BY <1>1 DEF recVars, RecordingInv, CallInv, RecordingTypeOK, NamesGroup, ToldWaits,
              OneInside, EndingClosed, OnlyWhileBusy, ToldReleased, Inside, Is
<1>2. CASE Next
  BY <1>2, ProgressKeeps, OpenKeeps, ClientKeeps DEF Next
<1>3. QED
  BY <1>1, <1>2

\* The invariant holds in every state of the recording service.
LEMMA RecordingAlways == Spec => []RecordingInv
BY RecordingInit, RecordingStep, PTL DEF Spec

\* A group whose session is not busy has nothing of a client's, for any number of
\* clients, groups and destinations.
THEOREM RecordingOnlyWhileBusy == Spec => []OnlyWhileBusy
<1>1. RecordingInv => OnlyWhileBusy
  BY DEF RecordingInv
<1>2. QED
  BY <1>1, RecordingAlways, PTL

\* A client that is told that its stop or close is done has everything back.
THEOREM RecordingToldReleased == Spec => []ToldReleased
<1>1. RecordingInv => ToldReleased
  BY DEF RecordingInv
<1>2. QED
  BY <1>1, RecordingAlways, PTL

\* Of all clients' calls one at a time changes the sessions.
THEOREM RecordingOneInside == Spec => []OneInside
<1>1. RecordingInv => OneInside
  BY DEF RecordingInv, CallInv
<1>2. QED
  BY <1>1, RecordingAlways, PTL
=============================================================================
