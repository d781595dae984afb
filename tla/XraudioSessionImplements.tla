---------------------- MODULE XraudioSessionImplements ----------------------
(***************************************************************************)
(* XraudioSession implements XraudioRecording.  What xraudio holds of a    *)
(* client is what the recording instance of the main thread has and what a *)
(* start that is still in the message queue will bring.                    *)
(***************************************************************************)
EXTENDS XraudioSession

Phase(g) ==
    CASE session[g].state = "created" -> "closed"
      [] session[g].state = "idling"  -> "idle"
      [] session[g].state = "pending" -> "listening"
      [] OTHER                        -> "busy"

Lent(dests, cb) == dests \cup (IF cb THEN {"callback"} ELSE {})
Starts(g) == {q[i] : i \in {j \in DOMAIN q : q[j].type = "recordStart"
                                           /\ GroupOf(q[j].src) = g}}
HeldBy(g) ==
    Lent(inst[g].dests, inst[g].cb)
    \cup UNION {Lent(m.dests, m.sem = None) : m \in Starts(g)}

Waiting(what, g) == [call |-> what, on |-> g]
DoingOf(c) ==
    CASE call[c].pc = "waitRecord" -> Waiting("record", None)
      [] call[c].pc = "waitDetect" -> Waiting("listen", "default")
      [] call[c].pc = "waitStop"   ->
            Waiting(IF call[c].op = "stop" THEN "stop" ELSE "closeStop", Group(c))
      [] call[c].pc = "closing"    -> Waiting("closing", None)
      [] call[c].pc = "waitIdle"   -> Waiting("closeIdle", None)
      [] call[c].pc = "waitTerm"   -> Waiting("ending", None)
      [] OTHER                     -> Waiting("none", None)

Recording == INSTANCE XraudioRecording WITH
    Things  <- Dests \cup {"callback"},
    Nowhere <- None,
    phase   <- [g \in Groups |-> Phase(g)],
    held    <- [g \in Groups |-> HeldBy(g)],
    doing   <- [c \in Clients |-> DoingOf(c)],
    told    <- posted

\* The message queue, the main thread, the HAL and the mutexes together keep
\* the promise of XraudioRecording: no session starts with resources of an
\* earlier one, a stop is answered only when everything is given back, also
\* what was still queued, and no call is answered twice.
ImplementsRecording == Recording!Spec
=============================================================================
