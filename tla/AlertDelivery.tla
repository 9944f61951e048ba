--------------------------- MODULE AlertDelivery ---------------------------
(***************************************************************************)
(* What the alert fan-out promises to each channel, with no goroutine in   *)
(* sight: publishing an event is one atomic step that owes it to every     *)
(* channel whose minimum severity it reaches, and a channel works its debt *)
(* off in order.  AlertManager.tla implements this module.                 *)
(***************************************************************************)
EXTENDS Naturals, Sequences

CONSTANTS
    N,           \* number of alert channels
    Min,         \* Min[c]: the least severity channel c is told about
    Severities,  \* severities an event can have
    Attempts,    \* sends of one event before the channel gives up on it
    MaxEvents    \* events published in a behaviour

VARIABLES
    next,        \* identifier of the next event published
    todo,        \* todo[c]: events owed to c, oldest first
    tries,       \* tries[c]: failed sends of the oldest of them
    sent,        \* sent[c]: the events that reached c, in order of arrival
    lost,        \* lost[c]: how many events were shed because of backlog
    closing      \* shutdown has been asked for

vars == <<next, todo, tries, sent, lost, closing>>

Channels == 1..N

Init ==
    /\ next = 1
    /\ todo = [c \in Channels |-> <<>>]
    /\ tries = [c \in Channels |-> 0]
    /\ sent = [c \in Channels |-> <<>>]
    /\ lost = [c \in Channels |-> 0]
    /\ closing = FALSE

\* An event of severity s is owed, at once, to every channel that wants it.
Publish(s) ==
    /\ next <= MaxEvents
    /\ todo' = [c \in Channels |->
                   IF s >= Min[c] THEN Append(todo[c], next) ELSE todo[c]]
    /\ next' = next + 1
    /\ UNCHANGED <<tries, sent, lost, closing>>

\* The oldest event reaches the channel and the channel knows it did.
Deliver(c) ==
    /\ todo[c] # <<>>
    /\ tries[c] < Attempts
    /\ sent' = [sent EXCEPT ![c] = Append(@, Head(todo[c]))]
    /\ todo' = [todo EXCEPT ![c] = Tail(@)]
    /\ tries' = [tries EXCEPT ![c] = 0]
    /\ UNCHANGED <<next, lost, closing>>

\* A send of the oldest event reports an error, whether or not it arrived.
Fail(c) ==
    /\ todo[c] # <<>>
    /\ tries[c] < Attempts
    /\ tries' = [tries EXCEPT ![c] = @ + 1]
    /\ \/ sent' = [sent EXCEPT ![c] = Append(@, Head(todo[c]))]
       \/ UNCHANGED sent
    /\ UNCHANGED <<next, todo, lost, closing>>

\* The oldest event is abandoned: all attempts failed, or one did at shutdown.
GiveUp(c) ==
    /\ todo[c] # <<>>
    /\ tries[c] = Attempts \/ (closing /\ tries[c] > 0)
    /\ todo' = [todo EXCEPT ![c] = Tail(@)]
    /\ tries' = [tries EXCEPT ![c] = 0]
    /\ UNCHANGED <<next, sent, lost, closing>>

\* s without its second element.
WithoutSecond(s) == <<Head(s)>> \o Tail(Tail(s))

\* Backlog: the oldest event that is not being sent is shed, and counted, to
\* make room for a newer one; the newest event owed is never the one shed.
Shed(c) ==
    /\ \/ /\ Len(todo[c]) > 1
          /\ tries[c] = 0
          /\ todo' = [todo EXCEPT ![c] = Tail(@)]
       \/ /\ Len(todo[c]) > 2
          /\ todo' = [todo EXCEPT ![c] = WithoutSecond(@)]
    /\ lost' = [lost EXCEPT ![c] = @ + 1]
    /\ UNCHANGED <<next, tries, sent, closing>>

Close ==
    /\ closing' = TRUE
    /\ UNCHANGED <<next, todo, tries, sent, lost>>

Next ==
    \/ \E s \in Severities : Publish(s)
    \/ \E c \in Channels : Deliver(c) \/ Fail(c) \/ GiveUp(c) \/ Shed(c)
    \/ Close

Spec == Init /\ [][Next]_vars
=============================================================================
