---------------------------- MODULE AlertManager ----------------------------
(***************************************************************************)
(* The alert fan-out of internal/alert/alert.go.  One goroutine, the main  *)
(* loop of app.Run, dispatches events; each channel has a bounded queue    *)
(* and a worker goroutine that sends with retries.  Dispatch is not atomic:*)
(* its three selects on a queue interleave with that queue's worker.       *)
(*                                                                         *)
(* An event is its position in the order of dispatch; 0 stands for none.   *)
(***************************************************************************)
EXTENDS Naturals, Sequences, FiniteSets

CONSTANTS
    N,           \* channels in NewManager's order; channel 1 is stdout
    QCap,        \* capacity of a channel's queue (256 in the code)
    Min,         \* Min[c]: minimum severity of channel c
    Severities,  \* severities of the events dispatched
    Fallible,    \* channels whose Send can return an error (ntfy, webhook)
    Prompt,      \* channels whose Send always returns
    MaxEvents    \* bound: events dispatched in a behaviour

Channels == 1..N

\* sendWithRetry's attempts for one event.
Attempts == 3

ASSUME ConfigAssumption ==
    /\ N \in Nat \ {0}
    /\ QCap \in Nat \ {0}
    /\ Severities \subseteq Nat
    /\ Min \in [Channels -> Nat]
    /\ Fallible \subseteq Channels
    /\ Prompt \subseteq Channels
    /\ MaxEvents \in Nat

VARIABLES
    next,      \* identifier of the next event
    dpc,       \* where the dispatching goroutine is in Dispatch
    ev, sev,   \* Dispatch's argument: the event and its severity
    chan,      \* Dispatch's loop index
    queue,     \* queue[c]: the buffered channel, oldest first
    dropped,   \* dropped[c]: the atomic drop counter
    wpc,       \* wpc[c]: where channel c's worker is
    job,       \* job[c]: the event in sendWithRetry, or 0
    attempt,   \* attempt[c]: failed attempts of job[c]
    noteDue,   \* noteDue[c]: more than 30 s since the last drop note
    reported,  \* reported[c]: drops told to the operator on stderr
    sent,      \* history: sent[c] are the arrivals on channel c's far side
    shed,      \* history: shed[c] counts every event evicted from queue[c]
    cancelled  \* ctx is done

dispatchVars == <<next, dpc, ev, sev, chan>>
workerVars == <<wpc, job, attempt, noteDue, reported, sent>>
vars == <<next, dpc, ev, sev, chan, queue, dropped, wpc, job, attempt,
          noteDue, reported, sent, shed, cancelled>>

Init ==
    /\ next = 1
    /\ dpc = "idle" /\ ev = 0 /\ sev = 0 /\ chan = 1
    /\ queue = [c \in Channels |-> <<>>]
    /\ dropped = [c \in Channels |-> 0]
    /\ wpc = [c \in Channels |-> "recv"]
    /\ job = [c \in Channels |-> 0]
    /\ attempt = [c \in Channels |-> 0]
    /\ noteDue = [c \in Channels |-> FALSE]
    /\ reported = [c \in Channels |-> 0]
    /\ sent = [c \in Channels |-> <<>>]
    /\ shed = [c \in Channels |-> 0]
    /\ cancelled = FALSE

-----------------------------------------------------------------------------
(* Dispatch, run by the main loop. *)

Dispatching == dpc \in {"offer", "evict", "resend"}

\* The main loop received an event that is not suppressed and calls Dispatch.
\* Its select may still prefer an event when ctx is done.
Dispatch(s) ==
    /\ dpc = "idle"
    /\ next <= MaxEvents
    /\ next' = next + 1
    /\ ev' = next /\ sev' = s
    /\ chan' = 1 /\ dpc' = "offer"
    /\ UNCHANGED <<queue, dropped, workerVars, shed, cancelled>>

\* On to the next channel of the range loop, or back to the main loop.
NextChannel ==
    /\ dpc' = IF chan = N THEN "idle" ELSE "offer"
    /\ chan' = IF chan = N THEN 1 ELSE chan + 1
    /\ UNCHANGED <<next, ev, sev>>

\* Send without blocking; what the caller does when the queue is full is Full.
TrySend(Full) ==
    IF Len(queue[chan]) < QCap
    THEN /\ queue' = [queue EXCEPT ![chan] = Append(@, ev)]
         /\ NextChannel
    ELSE /\ Full
         /\ UNCHANGED queue

\* Fault: Dispatch sends with "d.queue <- ev" outside a select.
OfferBlocking ==
    /\ dpc = "offer"
    /\ IF sev < Min[chan]
       THEN NextChannel /\ UNCHANGED queue
       ELSE TrySend(FALSE)
    /\ UNCHANGED <<dropped, workerVars, shed, cancelled>>

\* Fault: the filter drops events exactly at the minimum severity.
OfferAboveMin ==
    /\ dpc = "offer"
    /\ IF sev <= Min[chan]
       THEN NextChannel /\ UNCHANGED queue
       ELSE TrySend(dpc' = "evict" /\ UNCHANGED <<next, ev, sev, chan>>)
    /\ UNCHANGED <<dropped, workerVars, shed, cancelled>>

\* The severity filter and the first select.
Offer ==
    /\ dpc = "offer"
    /\ IF sev < Min[chan]
       THEN NextChannel /\ UNCHANGED queue
       ELSE TrySend(dpc' = "evict" /\ UNCHANGED <<next, ev, sev, chan>>)
    /\ UNCHANGED <<dropped, workerVars, shed, cancelled>>

\* Fault: drop-oldest without the receive: the counter moves, the queue does not.
EvictNothing ==
    /\ dpc = "evict"
    /\ dropped' = [dropped EXCEPT ![chan] = @ + 1]
    /\ shed' = [shed EXCEPT ![chan] = @ + 1]
    /\ dpc' = "resend"
    /\ UNCHANGED <<next, ev, sev, chan, queue, workerVars, cancelled>>

\* The second select: receive the oldest event and count it.  The worker may
\* have made room, or emptied the queue, since the first select.
Evict ==
    /\ dpc = "evict"
    /\ IF queue[chan] = <<>>
       THEN UNCHANGED <<queue, dropped, shed>>
       ELSE /\ queue' = [queue EXCEPT ![chan] = Tail(@)]
            /\ dropped' = [dropped EXCEPT ![chan] = @ + 1]
            /\ shed' = [shed EXCEPT ![chan] = @ + 1]
    /\ dpc' = "resend"
    /\ UNCHANGED <<next, ev, sev, chan, workerVars, cancelled>>

\* The third select; were the queue full again, ev would be lost in silence.
Resend ==
    /\ dpc = "resend"
    /\ TrySend(NextChannel)
    /\ UNCHANGED <<dropped, workerVars, shed, cancelled>>

\* The main loop sees ctx done and returns.
DispatcherStop ==
    /\ dpc = "idle" /\ cancelled
    /\ dpc' = "stopped"
    /\ UNCHANGED <<next, ev, sev, chan, queue, dropped, workerVars, shed,
                   cancelled>>

-----------------------------------------------------------------------------
(* The worker of channel c and sendWithRetry. *)

\* Fault: one Send at a time for the whole manager, as under a shared lock.
RecvSerialised(c) ==
    /\ \A d \in Channels : wpc[d] \notin {"send", "backoff"}
    /\ wpc[c] = "recv" /\ queue[c] # <<>>
    /\ job' = [job EXCEPT ![c] = Head(queue[c])]
    /\ queue' = [queue EXCEPT ![c] = Tail(@)]
    /\ wpc' = [wpc EXCEPT ![c] = "send"]
    /\ UNCHANGED <<dispatchVars, dropped, attempt, noteDue, reported, sent,
                   shed, cancelled>>

\* The worker's select takes the oldest event, even when ctx is done too.
Recv(c) ==
    /\ wpc[c] = "recv" /\ queue[c] # <<>>
    /\ job' = [job EXCEPT ![c] = Head(queue[c])]
    /\ queue' = [queue EXCEPT ![c] = Tail(@)]
    /\ wpc' = [wpc EXCEPT ![c] = "send"]
    /\ UNCHANGED <<dispatchVars, dropped, attempt, noteDue, reported, sent,
                   shed, cancelled>>

\* Send returned nil.
SendOk(c) ==
    /\ wpc[c] = "send"
    /\ sent' = [sent EXCEPT ![c] = Append(@, job[c])]
    /\ job' = [job EXCEPT ![c] = 0]
    /\ attempt' = [attempt EXCEPT ![c] = 0]
    /\ wpc' = [wpc EXCEPT ![c] = "report"]
    /\ UNCHANGED <<dispatchVars, queue, dropped, noteDue, reported, shed,
                   cancelled>>

\* Fault: a failed event goes back to the end of the queue instead of being retried
\* in place.
SendErrRequeues(c) ==
    /\ wpc[c] = "send" /\ c \in Fallible
    /\ queue' = [queue EXCEPT ![c] =
                    IF Len(@) < QCap THEN Append(@, job[c]) ELSE @]
    /\ job' = [job EXCEPT ![c] = 0]
    /\ wpc' = [wpc EXCEPT ![c] = "report"]
    /\ UNCHANGED <<dispatchVars, dropped, attempt, noteDue, reported, sent,
                   shed, cancelled>>

\* Send returned an error: the request was lost, or it arrived and its answer
\* was late (15 s client timeout) or not a 2xx.
SendErr(c) ==
    /\ wpc[c] = "send" /\ c \in Fallible
    /\ \E arrived \in BOOLEAN :
          sent' = IF arrived THEN [sent EXCEPT ![c] = Append(@, job[c])]
                             ELSE sent
    /\ attempt' = [attempt EXCEPT ![c] = @ + 1]
    /\ wpc' = [wpc EXCEPT ![c] = "backoff"]
    /\ UNCHANGED <<dispatchVars, queue, dropped, job, noteDue, reported, shed,
                   cancelled>>

\* Fault: one attempt too many.
RetryOneMore(c) ==
    /\ wpc[c] = "backoff" /\ attempt[c] <= Attempts
    /\ wpc' = [wpc EXCEPT ![c] = "send"]
    /\ UNCHANGED <<dispatchVars, queue, dropped, job, attempt, noteDue,
                   reported, sent, shed, cancelled>>

\* The backoff is over and attempts are left.
Retry(c) ==
    /\ wpc[c] = "backoff" /\ attempt[c] < Attempts
    /\ wpc' = [wpc EXCEPT ![c] = "send"]
    /\ UNCHANGED <<dispatchVars, queue, dropped, job, attempt, noteDue,
                   reported, sent, shed, cancelled>>

\* sendWithRetry returns without success: the backoff after the last attempt
\* is over, or ctx is done.
GiveUp(c) ==
    /\ wpc[c] = "backoff" /\ (attempt[c] = Attempts \/ cancelled)
    /\ job' = [job EXCEPT ![c] = 0]
    /\ attempt' = [attempt EXCEPT ![c] = 0]
    /\ wpc' = [wpc EXCEPT ![c] = "report"]
    /\ UNCHANGED <<dispatchVars, queue, dropped, noteDue, reported, sent, shed,
                   cancelled>>

\* The counter is swapped with 0 whether or not the note is printed.
Report(c) ==
    LET note == dropped[c] > 0 /\ noteDue[c] IN
    /\ wpc[c] = "report"
    /\ dropped' = [dropped EXCEPT ![c] = 0]
    /\ reported' = [reported EXCEPT ![c] = IF note THEN @ + dropped[c] ELSE @]
    /\ noteDue' = [noteDue EXCEPT ![c] = @ /\ ~note]
    /\ wpc' = [wpc EXCEPT ![c] = "recv"]
    /\ UNCHANGED <<dispatchVars, queue, job, attempt, sent, shed, cancelled>>

\* The worker's select sees ctx done.
WorkerStop(c) ==
    /\ wpc[c] = "recv" /\ cancelled
    /\ wpc' = [wpc EXCEPT ![c] = "stopped"]
    /\ UNCHANGED <<dispatchVars, queue, dropped, job, attempt, noteDue,
                   reported, sent, shed, cancelled>>

-----------------------------------------------------------------------------
(* The environment: the clock and the signal handler. *)

\* Thirty seconds have gone by since channel c's last drop note.  The time is
\* looked at only with drops to report, so it need not pass before there are.
NoteIntervalPasses(c) ==
    /\ ~noteDue[c] /\ dropped[c] > 0
    /\ noteDue' = [noteDue EXCEPT ![c] = TRUE]
    /\ UNCHANGED <<dispatchVars, queue, dropped, wpc, job, attempt, reported,
                   sent, shed, cancelled>>

\* SIGINT or SIGTERM, or TestAlerts' deadline.
Cancel ==
    /\ ~cancelled
    /\ cancelled' = TRUE
    /\ UNCHANGED <<dispatchVars, queue, dropped, workerVars, shed>>

\* Everything has returned.
Terminated ==
    /\ dpc = "stopped" /\ \A c \in Channels : wpc[c] = "stopped"
    /\ UNCHANGED vars

-----------------------------------------------------------------------------

DispatcherStep == Offer \/ Evict \/ Resend

Worker(c) ==
    \/ Recv(c) \/ SendOk(c) \/ SendErr(c) \/ Retry(c) \/ GiveUp(c)
    \/ Report(c) \/ WorkerStop(c)

Next ==
    \/ \E s \in Severities : Dispatch(s)
    \/ DispatcherStep
    \/ DispatcherStop
    \/ \E c \in Channels : Worker(c) \/ NoteIntervalPasses(c)
    \/ Cancel
    \/ Terminated

\* The scheduler runs every goroutine that can run, and the Sends of the
\* prompt channels return; nothing is assumed of the other channels' Sends.
Fairness ==
    /\ WF_vars(DispatcherStep)
    /\ \A c \in Prompt : WF_vars(Worker(c))

Spec == Init /\ [][Next]_vars /\ Fairness

-----------------------------------------------------------------------------
(* Properties *)

DispatchOK ==
    /\ next \in Nat /\ ev \in Nat /\ sev \in Nat /\ chan \in Channels
    /\ dpc \in {"idle", "offer", "evict", "resend", "stopped"}
    /\ cancelled \in BOOLEAN

QueueOK ==
    /\ queue \in [Channels -> Seq(Nat)]
    /\ \A c \in Channels : Len(queue[c]) <= QCap

WorkerOK ==
    /\ wpc \in [Channels -> {"recv", "send", "backoff", "report", "stopped"}]
    /\ job \in [Channels -> Nat]
    /\ attempt \in [Channels -> 0..Attempts]
    /\ noteDue \in [Channels -> BOOLEAN]
    /\ sent \in [Channels -> Seq(Nat)]

CountersOK ==
    /\ dropped \in [Channels -> Nat]
    /\ reported \in [Channels -> Nat]
    /\ shed \in [Channels -> Nat]

\* Types, the bound Go's channel puts on a queue and sendWithRetry's bound on
\* the attempts.
TypeOK == DispatchOK /\ QueueOK /\ WorkerOK /\ CountersOK

\* However sends fail, are retried and are overtaken by evictions, a channel
\* sees events in the order of dispatch; copies of one event are adjacent.
SentInOrder ==
    \A c \in Channels :
        \A i, j \in DOMAIN sent[c] : i < j => sent[c][i] <= sent[c][j]

\* "Drop-oldest keeps freshest alerts flowing": when the third select runs
\* there is room, so the event being dispatched is never the one lost.
FreshestKept == dpc = "resend" => Len(queue[chan]) < QCap

\* A failing channel gets one event at most as often as sendWithRetry tries.
CopiesBounded ==
    \A c \in Channels : \A n \in 1..MaxEvents :
        Cardinality({i \in DOMAIN sent[c] : sent[c][i] = n}) <= Attempts

\* "It never blocks": Dispatch returns whatever the channels' Sends do.
DispatchReturns == Dispatching ~> ~Dispatching

Holds(c, n) == job[c] = n \/ \E k \in DOMAIN queue[c] : queue[c][k] = n

\* A hung channel does not starve the others, and a failing one does not wedge
\* its worker: what a prompt channel has queued gets sent, shed or given up.
NoStarvation ==
    \A c \in Prompt : \A n \in 1..MaxEvents :
        Holds(c, n) ~> (~Holds(c, n) \/ cancelled)

\* The events owed to c: the one being sent, those queued, and the one that
\* Dispatch has not offered to c yet.
Outstanding(c) ==
    (IF job[c] = 0 THEN <<>> ELSE <<job[c]>>)
    \o queue[c]
    \o (IF Dispatching /\ c >= chan /\ sev >= Min[c] THEN <<ev>> ELSE <<>>)

Delivery == INSTANCE AlertDelivery WITH
    todo <- [c \in Channels |-> Outstanding(c)],
    tries <- attempt,
    lost <- shed,
    closing <- cancelled

\* Dispatch and the workers implement the atomic promise of AlertDelivery:
\* every due event is delivered in order, retried, given up after three
\* attempts, or shed as the oldest one waiting, and every shedding is counted.
ImplementsDelivery == Delivery!Spec
=============================================================================
