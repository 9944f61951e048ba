------------------------------ MODULE Pipeline ------------------------------
(***************************************************************************)
(* app.Run: monitor goroutines feed one bounded channel; the main loop     *)
(* takes an event, has the engine evaluate it, and dispatches what the     *)
(* deduplication lets through.  Time passes between any two steps: the     *)
(* threshold counts by the time a monitor stamped, the deduplication by    *)
(* the time the main loop gets to the event.                               *)
(*                                                                         *)
(* Dispatch itself is AlertManager.tla; here it is the step that appends   *)
(* to the log.                                                             *)
(***************************************************************************)
EXTENDS Detect

CONSTANTS
    Monitors,   \* the monitors started
    Emits,      \* Emits[m]: the events m can build, time and id aside
    CtxAware,   \* monitors whose send on the channel also waits for ctx
    Sources,    \* source addresses of failed logins
    ChCap,      \* capacity of the event channel (1024)
    MaxEvents,  \* bound: events observed in a behaviour
    MaxTime     \* bound: the clock

ASSUME PipelineAssumption ==
    /\ CtxAware \subseteq Monitors
    /\ ChCap \in Nat \ {0} /\ MaxEvents \in Nat /\ MaxTime \in Nat

Nothing == [id |-> 0]

VARIABLES
    now,        \* the clock
    observed,   \* number of events observed so far
    waiting,    \* waiting[m]: the event m is sending on the channel, or Nothing
    evch,       \* the channel
    busy,       \* what Evaluate returned and the main loop has yet to range over
    series,     \* Threshold.series
    last,       \* Dedupe.last
    cancelled,  \* ctx is done
    exited,     \* app.Run has returned
    log,        \* history: what the main loop ranged over, in order
    heard       \* history: heard[s] are the failed logins counted for s

vars == <<now, observed, waiting, evch, busy, series, last, cancelled, exited,
          log, heard>>

Init ==
    /\ now = 0 /\ observed = 0
    /\ waiting = [m \in Monitors |-> Nothing]
    /\ evch = <<>> /\ busy = <<>>
    /\ series = [s \in Sources |-> <<>>]
    /\ last = <<>>
    /\ cancelled = FALSE /\ exited = FALSE
    /\ log = <<>>
    /\ heard = [s \in Sources |-> <<>>]

-----------------------------------------------------------------------------
(* Monitors *)

\* Event e of monitor m as it is built: the n-th observed, stamped with the time.
Stamped(m, e, n, time) ==
    [f \in DOMAIN e \cup {"id", "time", "from"} |->
        CASE f = "id" -> n [] f = "time" -> time [] f = "from" -> m [] OTHER -> e[f]]

\* Monitor m builds an event.
Observe(m, e) ==
    /\ ~exited /\ waiting[m] = Nothing /\ observed < MaxEvents
    /\ observed' = observed + 1
    /\ waiting' = [waiting EXCEPT ![m] = Stamped(m, e, observed + 1, now)]
    /\ UNCHANGED <<now, evch, busy, series, last, cancelled, exited, log, heard>>

\* out <- ev.
Push(m) ==
    /\ ~exited /\ waiting[m] # Nothing /\ Len(evch) < ChCap
    /\ evch' = Append(evch, waiting[m])
    /\ waiting' = [waiting EXCEPT ![m] = Nothing]
    /\ UNCHANGED <<now, observed, busy, series, last, cancelled, exited, log,
                   heard>>

\* A select between the send and ctx prefers ctx.
Abandon(m) ==
    /\ ~exited /\ waiting[m] # Nothing /\ cancelled /\ m \in CtxAware
    /\ waiting' = [waiting EXCEPT ![m] = Nothing]
    /\ UNCHANGED <<now, observed, evch, busy, series, last, cancelled, exited,
                   log, heard>>

-----------------------------------------------------------------------------
(* The main loop *)

\* The select receives an event and Evaluate runs.
Receive ==
    LET ev == Head(evch)
        s  == ev.src
    IN
    /\ ~exited /\ busy = <<>> /\ evch # <<>>
    /\ evch' = Tail(evch)
    /\ IF Counts(ev)
       THEN /\ busy' = Evaluate(ev, series[s])
            /\ series' = [series EXCEPT ![s] = Hit(@, ev.time)]
            /\ heard' = [heard EXCEPT ![s] = Append(@, ev.time)]
       ELSE /\ busy' = Evaluate(ev, <<>>)
            /\ UNCHANGED <<series, heard>>
    /\ UNCHANGED <<now, observed, waiting, last, cancelled, exited, log>>

\* What the log says of event e, suppressed or dispatched now.
Entry(e, muted) ==
    [id |-> e.id, from |-> e.from, title |-> e.title, sev |-> e.sev,
     key |-> e.key, time |-> e.time, src |-> e.src, at |-> now, muted |-> muted]

\* Fault: the time of a suppressed event is recorded too.
HandleRefreshing ==
    LET e == Head(busy) IN
    /\ busy # <<>>
    /\ busy' = Tail(busy)
    /\ log' = Append(log, Entry(e, Suppressed(last, e.key, now)))
    /\ last' = Remember(last, e.key, now)
    /\ UNCHANGED <<now, observed, waiting, evch, series, cancelled, exited, heard>>

\* Fault: "return" where the loop has "continue".
HandleReturns ==
    LET e == Head(busy) IN
    /\ busy # <<>>
    /\ busy' = Tail(busy)
    /\ log' = Append(log, Entry(e, Suppressed(last, e.key, now)))
    /\ IF Suppressed(last, e.key, now)
       THEN exited' = TRUE /\ UNCHANGED last
       ELSE last' = Remember(last, e.key, now) /\ UNCHANGED exited
    /\ UNCHANGED <<now, observed, waiting, evch, series, cancelled, heard>>

\* The body of the inner loop: Suppressed, then Dispatch.
Handle ==
    LET e == Head(busy) IN
    /\ busy # <<>>
    /\ busy' = Tail(busy)
    /\ IF Suppressed(last, e.key, now)
       THEN /\ log' = Append(log, Entry(e, TRUE))
            /\ UNCHANGED last
       ELSE /\ log' = Append(log, Entry(e, FALSE))
            /\ last' = Remember(last, e.key, now)
    /\ UNCHANGED <<now, observed, waiting, evch, series, cancelled, exited, heard>>

\* The select sees ctx done; whatever is in the channel is never handled.
Exit ==
    /\ ~exited /\ busy = <<>> /\ cancelled
    /\ exited' = TRUE
    /\ UNCHANGED <<now, observed, waiting, evch, busy, series, last, cancelled,
                   log, heard>>

-----------------------------------------------------------------------------
(* The environment *)

Tick ==
    /\ ~exited /\ now < MaxTime
    /\ now' = now + 1
    /\ UNCHANGED <<observed, waiting, evch, busy, series, last, cancelled, exited,
                   log, heard>>

Cancel ==
    /\ ~cancelled
    /\ cancelled' = TRUE
    /\ UNCHANGED <<now, observed, waiting, evch, busy, series, last, exited, log,
                   heard>>

Terminated == exited /\ UNCHANGED vars

MainLoop == Receive \/ Handle \/ Exit

Next ==
    \/ \E m \in Monitors : (\E e \in Emits[m] : Observe(m, e)) \/ Push(m) \/ Abandon(m)
    \/ MainLoop
    \/ Tick \/ Cancel \/ Terminated

\* The scheduler runs the main loop and gives every waiting monitor its turn:
\* Go's channels serve blocked senders in order, so a sender that can send
\* again and again does send.
Fairness ==
    /\ WF_vars(MainLoop)
    /\ \A m \in Monitors : SF_vars(Push(m))

Spec == Init /\ [][Next]_vars /\ Fairness

-----------------------------------------------------------------------------
(* Properties *)

\* The channel and the maps stay within their bounds.
BoundsOK ==
    /\ Len(evch) <= ChCap
    /\ Cardinality(DOMAIN last) <= MapCap
    /\ \A s \in Sources : Len(series[s]) <= Len(heard[s])

Dispatched(i) == i \in DOMAIN log /\ ~log[i].muted

\* The keys dispatched before entry j.
KeysBefore(j) == {log[i].key : i \in {i \in 1..(j - 1) : Dispatched(i)}} \ {NoKey}

\* One key is dispatched at most once per cooldown, as long as the map has had
\* room for every key: only the crude prune can let a repeat through.
RepeatsSpaced ==
    \A i, j \in DOMAIN log :
        /\ i < j /\ Dispatched(i) /\ Dispatched(j)
        /\ log[i].key = log[j].key /\ log[i].key # NoKey
        /\ log[j].at - log[i].at < Cooldown
        => Cardinality(KeysBefore(j)) > MapCap

\* Nothing is suppressed unless an event of its key went through less than a
\* cooldown earlier: suppressed events do not keep the silence going.
MutedAfterAlert ==
    \A j \in DOMAIN log : log[j].muted =>
        \E i \in 1..(j - 1) :
            /\ Dispatched(i) /\ log[i].key = log[j].key
            /\ log[j].at - log[i].at < Cooldown

\* The failures of s within the window that ends with its n-th.
InWindow(s, n) ==
    Cardinality({m \in 1..n : heard[s][m] + Window > heard[s][n]})

IsFinding(e, s, level) ==
    /\ e.key = <<"bruteforce", s>>
    /\ e.title = Levels[level].title

\* The handled or imminent findings of this level for source s.
Findings(s, level) ==
    Cardinality({i \in DOMAIN log : IsFinding(log[i], s, level)})
    + Cardinality({i \in DOMAIN busy : IsFinding(busy[i], s, level)})

\* What the configuration and the monitors are like where findings are exact:
\* the levels can be told apart; every event has its fields, and none becomes a
\* finding of a level by itself; one monitor reports failed logins.
DistinctLevels ==
    \A i, j \in DOMAIN Levels : i # j =>
        Levels[i].count # Levels[j].count /\ Levels[i].title # Levels[j].title

Reports(m) == \E e \in Emits[m] : Counts(e)
SingleReporter == \A m, n \in Monitors : Reports(m) /\ Reports(n) => m = n

EventFields == {"cat", "sev", "title", "key", "obj", "src", "port", "hits", "root",
                "ww", "action", "dst", "fail"}

PlainEvents ==
    \A m \in Monitors : \A e \in Emits[m] :
        /\ DOMAIN e = EventFields
        /\ \A n \in 1..MaxEvents, t \in 0..MaxTime, s \in Sources, i \in DOMAIN Levels :
               ~IsFinding(Escalated(Stamped(m, e, n, t)), s, i)

\* The series prunes without forgetting: counting the whole history, a level is
\* found exactly as often as the failures in a window came to its count.
FindingsExact ==
    \A s \in Sources, level \in DOMAIN Levels :
        Findings(s, level) =
        Cardinality({n \in DOMAIN heard[s] : InWindow(s, n) = Levels[level].count})

Pending(n) ==
    \/ \E m \in Monitors : waiting[m].id = n
    \/ \E i \in DOMAIN evch : evch[i].id = n
    \/ \E i \in DOMAIN busy : busy[i].id = n

\* However many monitors fight over a full channel, each observed event is
\* handled, unless shutdown comes first.
EventsHandled == \A n \in 1..MaxEvents : Pending(n) ~> (~Pending(n) \/ cancelled)

\* "Escalating alerts fire once each": an alert is not suppressed in favour of
\* a less severe one.
EscalationsAlerted ==
    \A j \in DOMAIN log : log[j].muted =>
        \E i \in 1..(j - 1) :
            /\ Dispatched(i) /\ log[i].key = log[j].key
            /\ log[i].sev >= log[j].sev
=============================================================================
