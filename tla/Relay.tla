-------------------------------- MODULE Relay --------------------------------
(***************************************************************************)
(* tools/discord_relay.py: the server elmer's webhook channel posts to.     *)
(* Every request has a thread, which logs the event, queues it and answers; *)
(* one thread takes events from the queue and posts them to Discord.  An    *)
(* elmer that got no answer sends the event again.  A request refused with  *)
(* 401 or 400 changes nothing and is left out.                              *)
(***************************************************************************)
EXTENDS Naturals, Sequences, SequencesExt

CONSTANTS
    RelayEvents,    \* events elmer sends
    Handlers,       \* threads of requests
    NoEvent,
    QueueSize,      \* QUEUE_SIZE
    Attempts,       \* FORWARD_ATTEMPTS
    MaxSends        \* attempts of elmer's worker

ASSUME RelayAssumption ==
    /\ NoEvent \notin RelayEvents
    /\ QueueSize \in Nat \ {0} /\ Attempts \in Nat \ {0} /\ MaxSends \in Nat \ {0}

VARIABLES
    rlPc, rlEv,     \* rlPc[h], rlEv[h]: where thread h is, and its event
    rlSends,        \* rlSends[e]: requests made with e
    rlAcked,        \* events answered with 204
    rlLog,          \* events in the log file
    rlQueue,        \* q
    rlNow, rlTries, \* the event being forwarded, and posts of it that failed
    rlSent,         \* events Discord accepted, or that were given up
    rlShed          \* history: events evicted from a full queue

relayVars == <<rlPc, rlEv, rlSends, rlAcked, rlLog, rlQueue, rlNow, rlTries, rlSent, rlShed>>

RelayInit ==
    /\ rlPc = [h \in Handlers |-> "free"] /\ rlEv = [h \in Handlers |-> NoEvent]
    /\ rlSends = [e \in RelayEvents |-> 0] /\ rlAcked = {}
    /\ rlLog = {} /\ rlQueue = <<>> /\ rlNow = NoEvent /\ rlTries = 0
    /\ rlSent = {} /\ rlShed = {}

-----------------------------------------------------------------------------
(* do_POST *)

\* A request arrives; elmer sends again what was not answered.
RelayRequest(h, e) ==
    /\ rlPc[h] = "free" /\ e \notin rlAcked /\ rlSends[e] < MaxSends
    /\ rlSends' = [rlSends EXCEPT ![e] = @ + 1]
    /\ rlPc' = [rlPc EXCEPT ![h] = "record"] /\ rlEv' = [rlEv EXCEPT ![h] = e]
    /\ UNCHANGED <<rlAcked, rlLog, rlQueue, rlNow, rlTries, rlSent, rlShed>>

\* Fault: the event is queued before it is logged.
RelayRecordLater(h) ==
    /\ rlPc[h] = "record"
    /\ rlPc' = [rlPc EXCEPT ![h] = "put"]
    /\ UNCHANGED <<rlEv, rlSends, rlAcked, rlLog, rlQueue, rlNow, rlTries, rlSent, rlShed>>

\* record.
RelayRecord(h) ==
    /\ rlPc[h] = "record"
    /\ rlLog' = rlLog \cup {rlEv[h]}
    /\ rlPc' = [rlPc EXCEPT ![h] = "put"]
    /\ UNCHANGED <<rlEv, rlSends, rlAcked, rlQueue, rlNow, rlTries, rlSent, rlShed>>

\* enqueue: put_nowait, and if the queue is full, get_nowait.
RelayPut(h) ==
    /\ rlPc[h] = "put"
    /\ IF Len(rlQueue) < QueueSize
       THEN rlQueue' = Append(rlQueue, rlEv[h]) /\ rlPc' = [rlPc EXCEPT ![h] = "answer"]
       ELSE rlPc' = [rlPc EXCEPT ![h] = "evict"] /\ UNCHANGED rlQueue
    /\ UNCHANGED <<rlEv, rlSends, rlAcked, rlLog, rlNow, rlTries, rlSent, rlShed>>

\* get_nowait of the oldest.  When the forwarder has emptied the queue there is
\* none: then it is the new event that is dropped.
RelayEvict(h) ==
    /\ rlPc[h] = "evict"
    /\ IF rlQueue = <<>>
       THEN /\ rlPc' = [rlPc EXCEPT ![h] = "answer"]
            /\ rlShed' = rlShed \cup {rlEv[h]} /\ UNCHANGED rlQueue
       ELSE /\ rlPc' = [rlPc EXCEPT ![h] = "put again"]
            /\ rlQueue' = Tail(rlQueue) /\ rlShed' = rlShed \cup {Head(rlQueue)}
    /\ UNCHANGED <<rlEv, rlSends, rlAcked, rlLog, rlNow, rlTries, rlSent>>

\* The second put_nowait.  Another thread may have taken the room: queue.Full
\* ends this one, without an answer.
RelayPutAgain(h) ==
    /\ rlPc[h] = "put again"
    /\ IF Len(rlQueue) < QueueSize
       THEN /\ rlQueue' = Append(rlQueue, rlEv[h]) /\ rlPc' = [rlPc EXCEPT ![h] = "answer"]
            /\ UNCHANGED rlEv
       ELSE /\ rlPc' = [rlPc EXCEPT ![h] = "free"] /\ rlEv' = [rlEv EXCEPT ![h] = NoEvent]
            /\ UNCHANGED rlQueue
    /\ UNCHANGED <<rlSends, rlAcked, rlLog, rlNow, rlTries, rlSent, rlShed>>

\* The 204, which elmer may not be there for any more.
RelayAnswer(h) ==
    /\ rlPc[h] = "answer"
    /\ rlAcked' \in {rlAcked, rlAcked \cup {rlEv[h]}}
    /\ rlPc' = [rlPc EXCEPT ![h] = "free"] /\ rlEv' = [rlEv EXCEPT ![h] = NoEvent]
    /\ UNCHANGED <<rlSends, rlLog, rlQueue, rlNow, rlTries, rlSent, rlShed>>

-----------------------------------------------------------------------------
(* forward_loop *)

RelayTake ==
    /\ rlNow = NoEvent /\ rlQueue # <<>>
    /\ rlNow' = Head(rlQueue) /\ rlQueue' = Tail(rlQueue)
    /\ rlTries' = 0
    /\ UNCHANGED <<rlPc, rlEv, rlSends, rlAcked, rlLog, rlSent, rlShed>>

RelayDone == rlNow' = NoEvent /\ rlTries' = 0 /\ rlSent' = rlSent \cup {rlNow}

\* Discord accepts the post, or refuses it for good (400, 401, 403, 404).
RelayPostDone ==
    /\ rlNow # NoEvent
    /\ RelayDone
    /\ UNCHANGED <<rlPc, rlEv, rlSends, rlAcked, rlLog, rlQueue, rlShed>>

\* Fault: an event that failed is tried until it is accepted.
RelayPostFailsForever ==
    /\ rlNow # NoEvent
    /\ rlTries' = (rlTries + 1) % Attempts /\ UNCHANGED <<rlNow, rlSent>>
    /\ UNCHANGED <<rlPc, rlEv, rlSends, rlAcked, rlLog, rlQueue, rlShed>>

\* It does not: a rate limit, a server error, no answer.  The last attempt is
\* the event's last.
RelayPostFails ==
    /\ rlNow # NoEvent
    /\ IF rlTries + 1 = Attempts THEN RelayDone
       ELSE rlTries' = rlTries + 1 /\ UNCHANGED <<rlNow, rlSent>>
    /\ UNCHANGED <<rlPc, rlEv, rlSends, rlAcked, rlLog, rlQueue, rlShed>>

\* The queue is empty, and nobody posts.
RelayIdle ==
    /\ rlNow = NoEvent /\ rlQueue = <<>> /\ \A h \in Handlers : rlPc[h] = "free"
    /\ UNCHANGED relayVars

-----------------------------------------------------------------------------

RelayHandler(h) ==
    RelayRecord(h) \/ RelayPut(h) \/ RelayEvict(h) \/ RelayPutAgain(h) \/ RelayAnswer(h)

RelayForwarder == RelayTake \/ RelayPostDone \/ RelayPostFails

RelayNext ==
    \/ \E h \in Handlers : RelayHandler(h) \/ \E e \in RelayEvents : RelayRequest(h, e)
    \/ RelayForwarder \/ RelayIdle

RelaySpec == RelayInit /\ [][RelayNext]_relayVars

\* The threads are scheduled; a post returns within its 15 s.
RelayFairness == WF_relayVars(RelayForwarder) /\ \A h \in Handlers : WF_relayVars(RelayHandler(h))

-----------------------------------------------------------------------------
(* Properties *)

\* "Log on receipt, before forwarding, so the JSONL file is the channel of
\* record" (discord_relay.py:121-122): whatever is queued, being posted, posted,
\* shed or answered is in the log.
RelayLoggedFirst ==
    ToSet(rlQueue) \cup ({rlNow} \ {NoEvent}) \cup rlSent \cup rlShed \cup rlAcked \subseteq rlLog

\* An event whose request was answered is posted, given up, or shed by the full
\* queue (discord_relay.py:130-164): the races of the threads for the queue lose
\* no other, and a rate limit holds it up only for so many attempts.
RelayForwards ==
    LET waiting == (rlLog \cap rlAcked) \ (rlSent \cup rlShed) IN
    waiting # {} ~> waiting = {}
=============================================================================
