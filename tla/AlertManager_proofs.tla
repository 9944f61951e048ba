------------------------ MODULE AlertManager_proofs ------------------------
(***************************************************************************)
(* Theorems about AlertManager for every number of channels, queue         *)
(* capacity, severity threshold and number of events.                      *)
(***************************************************************************)
EXTENDS AlertManager, FiniteSetTheorems, TLAPS

\* The steps without the fairness of Spec.
SafeSpec == Init /\ [][Next]_vars

LEMMA SpecIsSafe == Spec => SafeSpec
  BY DEF Spec, SafeSpec

-----------------------------------------------------------------------------
(* Types. *)

\* The attempt counter where the worker stands: TypeOK alone is not inductive,
\* for nothing in it stops a worker about to send from having used up the
\* attempts already.
AttemptInv ==
    \A c \in Channels :
        /\ wpc[c] = "send" => attempt[c] < Attempts
        /\ wpc[c] = "backoff" => attempt[c] > 0
        /\ wpc[c] \in {"recv", "report", "stopped"} => attempt[c] = 0

TypeInv == TypeOK /\ AttemptInv

LEMMA InitTypeInv == Init => TypeInv
<1> SUFFICES ASSUME Init PROVE TypeInv
  OBVIOUS
<1> USE DEF Init
<1>1. DispatchOK
  <2>1. chan \in Channels
    BY ConfigAssumption DEF Channels
  <2> QED
    BY <2>1 DEF DispatchOK
<1>2. QueueOK
  BY ConfigAssumption DEF QueueOK
<1>3. WorkerOK
  BY DEF WorkerOK, Attempts
<1>4. CountersOK
  BY DEF CountersOK
<1>5. AttemptInv
  BY DEF AttemptInv
<1> QED
  BY <1>1, <1>2, <1>3, <1>4, <1>5 DEF TypeInv, TypeOK

\* A send on a queue that has room, or none: the queue's type and bound.
LEMMA TrySendQueue ==
  ASSUME QueueOK, chan \in Channels, ev \in Nat, NEW ACTION Full, TrySend(Full)
  PROVE  QueueOK'
<1>1. CASE Len(queue[chan]) < QCap
  <2>1. queue' = [queue EXCEPT ![chan] = Append(@, ev)]
    BY <1>1 DEF TrySend
  <2>2. Append(queue[chan], ev) \in Seq(Nat)
    BY DEF QueueOK
  <2>3. Len(Append(queue[chan], ev)) <= QCap
    BY <1>1, ConfigAssumption DEF QueueOK
  <2> QED
    BY <2>1, <2>2, <2>3 DEF QueueOK
<1>2. CASE ~(Len(queue[chan]) < QCap)
  BY <1>2 DEF TrySend, QueueOK
<1> QED
  BY <1>1, <1>2

\* Taking the oldest event, by a worker or by an eviction.
LEMMA TakeQueue ==
  ASSUME QueueOK, NEW c \in Channels, queue[c] # <<>>,
         queue' = [queue EXCEPT ![c] = Tail(@)]
  PROVE  QueueOK'
<1>1. Tail(queue[c]) \in Seq(Nat) /\ Len(Tail(queue[c])) <= QCap
  BY ConfigAssumption DEF QueueOK
<1> QED
  BY <1>1 DEF QueueOK

LEMMA NextChannelTypes ==
  ASSUME chan \in Channels, NextChannel
  PROVE  /\ chan' \in Channels /\ dpc' \in {"idle", "offer"}
         /\ UNCHANGED <<next, ev, sev>>
  BY ConfigAssumption DEF NextChannel, Channels

\* The steps of the dispatching goroutine.
LEMMA DispatcherTypes ==
  ASSUME TypeOK,
         \/ \E s \in Severities : Dispatch(s)
         \/ DispatcherStep
         \/ DispatcherStop
  PROVE  TypeOK' /\ UNCHANGED <<wpc, attempt>>
<1> USE DEF TypeOK, workerVars
<1>1. UNCHANGED <<wpc, job, attempt, noteDue, sent, reported, cancelled>>
  BY DEF Dispatch, DispatcherStep, DispatcherStop, Offer, Evict, Resend
<1>2. WorkerOK'
  BY <1>1 DEF WorkerOK
<1>3. DispatchOK'
  <2> USE DEF DispatchOK
  <2>1. ASSUME NEW s \in Severities, Dispatch(s) PROVE DispatchOK'
    BY <2>1, ConfigAssumption DEF Dispatch, Channels
  <2>2. CASE Offer
    BY <2>2, NextChannelTypes DEF Offer, TrySend
  <2>3. CASE Evict
    BY <2>3 DEF Evict
  <2>4. CASE Resend
    BY <2>4, NextChannelTypes DEF Resend, TrySend
  <2>5. CASE DispatcherStop
    BY <2>5 DEF DispatcherStop
  <2> QED
    BY <2>1, <2>2, <2>3, <2>4, <2>5 DEF DispatcherStep
<1>4. QueueOK'
  <2>1. ASSUME UNCHANGED queue PROVE QueueOK'
    BY <2>1 DEF QueueOK
  <2>2. CASE Offer
    BY <2>1, <2>2, TrySendQueue DEF Offer, DispatchOK
  <2>3. CASE Evict
    BY <2>1, <2>3, TakeQueue DEF Evict, DispatchOK
  <2>4. CASE Resend
    BY <2>4, TrySendQueue DEF Resend, DispatchOK
  <2> QED
    BY <2>1, <2>2, <2>3, <2>4 DEF DispatcherStep, Dispatch, DispatcherStop
<1>5. CountersOK'
  <2>1. CASE UNCHANGED <<dropped, shed>>
    BY <1>1, <2>1 DEF CountersOK
  <2>2. CASE /\ dropped' = [dropped EXCEPT ![chan] = @ + 1]
             /\ shed' = [shed EXCEPT ![chan] = @ + 1]
    <3>1. dropped' \in [Channels -> Nat]
      BY <2>2 DEF CountersOK, DispatchOK
    <3>2. shed' \in [Channels -> Nat]
      BY <2>2 DEF CountersOK, DispatchOK
    <3> QED
      BY <1>1, <3>1, <3>2 DEF CountersOK
  <2> QED
    BY <2>1, <2>2
    DEF Dispatch, DispatcherStep, DispatcherStop, Offer, Evict, Resend
<1> QED
  BY <1>1, <1>2, <1>3, <1>4, <1>5

\* The steps of a worker and of its clock.
LEMMA WorkerTypes ==
  ASSUME TypeInv, NEW c \in Channels, Worker(c) \/ NoteIntervalPasses(c)
  PROVE  TypeInv'
<1> USE DEF TypeInv, TypeOK, dispatchVars
<1>1. DispatchOK'
  BY DEF Worker, Recv, SendOk, SendErr, Retry, GiveUp, Report, WorkerStop,
         NoteIntervalPasses, DispatchOK
<1>2. QueueOK'
  <2>1. CASE Recv(c)
    BY <2>1, TakeQueue DEF Recv
  <2>2. CASE UNCHANGED queue
    BY <2>2 DEF QueueOK
  <2> QED
    BY <2>1, <2>2 DEF Worker, SendOk, SendErr, Retry, GiveUp, Report,
                      WorkerStop, NoteIntervalPasses
<1>3. CountersOK'
  <2>1. CASE Report(c)
    BY <2>1 DEF Report, CountersOK
  <2>2. CASE UNCHANGED <<dropped, reported, shed>>
    BY <2>2 DEF CountersOK
  <2> QED
    BY <2>1, <2>2 DEF Worker, Recv, SendOk, SendErr, Retry, GiveUp,
                      WorkerStop, NoteIntervalPasses
<1>4. WorkerOK' /\ AttemptInv'
  <2>1. CASE Recv(c)
    <3>1. Head(queue[c]) \in Nat
      BY <2>1 DEF Recv, QueueOK
    <3> QED
      BY <2>1, <3>1 DEF Recv, WorkerOK, AttemptInv, Attempts
  <2>2. CASE SendOk(c)
    <3>1. Append(sent[c], job[c]) \in Seq(Nat)
      BY DEF WorkerOK
    <3> QED
      BY <2>2, <3>1 DEF SendOk, WorkerOK, AttemptInv, Attempts
  <2>3. CASE SendErr(c)
    <3>1. sent' \in [Channels -> Seq(Nat)]
      BY <2>3 DEF SendErr, WorkerOK
    <3>2. attempt[c] + 1 \in 1..Attempts
      <4>1. wpc[c] = "send"
        BY <2>3 DEF SendErr
      <4>2. attempt[c] \in 0..Attempts
        BY DEF WorkerOK
      <4>3. attempt[c] < Attempts
        BY <4>1 DEF AttemptInv
      <4> QED
        BY <4>2, <4>3 DEF Attempts
    <3>3. WorkerOK'
      BY <2>3, <3>1, <3>2 DEF SendErr, WorkerOK, Attempts
    <3>4. /\ attempt' = [attempt EXCEPT ![c] = @ + 1]
          /\ wpc' = [wpc EXCEPT ![c] = "backoff"]
      BY <2>3 DEF SendErr
    <3>5. AttemptInv'
      BY <3>2, <3>4 DEF WorkerOK, AttemptInv
    <3> QED
      BY <3>3, <3>5
  <2>4. CASE Retry(c)
    BY <2>4 DEF Retry, WorkerOK, AttemptInv
  <2>5. CASE GiveUp(c)
    BY <2>5 DEF GiveUp, WorkerOK, AttemptInv, Attempts
  <2>6. CASE Report(c)
    BY <2>6 DEF Report, WorkerOK, AttemptInv
  <2>7. CASE WorkerStop(c)
    BY <2>7 DEF WorkerStop, WorkerOK, AttemptInv
  <2>8. CASE NoteIntervalPasses(c)
    BY <2>8 DEF NoteIntervalPasses, WorkerOK, AttemptInv
  <2> QED
    BY <2>1, <2>2, <2>3, <2>4, <2>5, <2>6, <2>7, <2>8 DEF Worker
<1> QED
  BY <1>1, <1>2, <1>3, <1>4

LEMMA NextTypeInv == TypeInv /\ [Next]_vars => TypeInv'
<1> SUFFICES ASSUME TypeInv, [Next]_vars PROVE TypeInv'
  OBVIOUS
<1>1. CASE Cancel
  BY <1>1 DEF Cancel, TypeInv, TypeOK, DispatchOK, QueueOK, WorkerOK,
              CountersOK, AttemptInv, dispatchVars, workerVars
<1>2. CASE UNCHANGED vars
  BY <1>2 DEF vars, TypeInv, TypeOK, DispatchOK, QueueOK, WorkerOK,
              CountersOK, AttemptInv
<1>3. CASE \/ \E s \in Severities : Dispatch(s)
           \/ DispatcherStep
           \/ DispatcherStop
  BY <1>3, DispatcherTypes DEF TypeInv, AttemptInv
<1> QED
  BY <1>1, <1>2, <1>3, WorkerTypes DEF Next, Terminated

LEMMA SafeTypeInv == SafeSpec => []TypeInv
  BY InitTypeInv, NextTypeInv, PTL DEF SafeSpec

\* Every variable keeps its type, no queue outgrows its channel's capacity and
\* no event is tried more than three times: the state Dispatch and the workers
\* share stays well formed under every interleaving.
THEOREM TypeCorrect == Spec => []TypeOK
  BY SpecIsSafe, SafeTypeInv, PTL DEF TypeInv

-----------------------------------------------------------------------------
(* Order: what a channel holds and what it has been sent.                  *)

Increasing(s) == \A i, j \in DOMAIN s : i < j => s[i] < s[j]

\* A channel with queue q, job j and arrivals s holds nothing that is not older
\* than f, newer events behind older ones, and was sent nothing newer.
InOrder(q, j, s, f) ==
    /\ Increasing(q)
    /\ \A k \in DOMAIN q : j < q[k] /\ q[k] < f
    /\ j < f
    /\ \A i, k \in DOMAIN s : i < k => s[i] <= s[k]
    /\ \A i \in DOMAIN s : s[i] < f /\ (j # 0 => s[i] <= j)
    /\ \A i \in DOMAIN s, k \in DOMAIN q : s[i] < q[k]

LEMMA AcceptInOrder ==
  ASSUME NEW q \in Seq(Nat), NEW j \in Nat, NEW s \in Seq(Nat), NEW e \in Nat,
         NEW f \in Nat, InOrder(q, j, s, e), e < f
  PROVE  InOrder(Append(q, e), j, s, f)
  BY DEF InOrder, Increasing

LEMMA EvictInOrder ==
  ASSUME NEW q \in Seq(Nat), NEW j \in Nat, NEW s \in Seq(Nat), NEW f \in Nat,
         InOrder(q, j, s, f), q # <<>>
  PROVE  InOrder(Tail(q), j, s, f)
<1>1. /\ Len(Tail(q)) = Len(q) - 1
      /\ \A k \in DOMAIN Tail(q) : k + 1 \in DOMAIN q /\ Tail(q)[k] = q[k + 1]
  OBVIOUS
<1> QED
  BY <1>1 DEF InOrder, Increasing

\* An event older than all those queued and not older than any sent is a job
\* in order.
LEMMA HoldInOrder ==
  ASSUME NEW q \in Seq(Nat), NEW h \in Nat \ {0}, NEW s \in Seq(Nat),
         NEW f \in Nat, InOrder(q, 0, s, f), h < f,
         \A k \in DOMAIN q : h < q[k], \A i \in DOMAIN s : s[i] <= h
  PROVE  InOrder(q, h, s, f)
  BY DEF InOrder

LEMMA TakeInOrder ==
  ASSUME NEW q \in Seq(Nat), NEW s \in Seq(Nat), NEW f \in Nat,
         InOrder(q, 0, s, f), q # <<>>
  PROVE  InOrder(Tail(q), Head(q), s, f) /\ Head(q) # 0
<1>1. /\ Head(q) = q[1] /\ 1 \in DOMAIN q
      /\ \A k \in DOMAIN Tail(q) :
            k + 1 \in DOMAIN q /\ 1 < k + 1 /\ Tail(q)[k] = q[k + 1]
  OBVIOUS
<1>2. InOrder(Tail(q), 0, s, f)
  BY EvictInOrder
<1>3. \A k \in DOMAIN Tail(q) : Head(q) < Tail(q)[k]
  BY <1>1 DEF InOrder, Increasing
<1>4. \A i \in DOMAIN s : s[i] < Head(q)
  BY <1>1 DEF InOrder
<1>5. Head(q) \in Nat \ {0} /\ Head(q) < f
  BY <1>1 DEF InOrder
<1>6. \A i \in DOMAIN s : s[i] <= Head(q)
  BY <1>4, <1>5
<1>7. Tail(q) \in Seq(Nat)
  OBVIOUS
<1>8. InOrder(Tail(q), Head(q), s, f)
  BY <1>2, <1>3, <1>5, <1>6, <1>7, HoldInOrder
<1> QED
  BY <1>5, <1>8

LEMMA ArriveInOrder ==
  ASSUME NEW q \in Seq(Nat), NEW j \in Nat \ {0}, NEW s \in Seq(Nat),
         NEW f \in Nat, InOrder(q, j, s, f)
  PROVE  InOrder(q, j, Append(s, j), f)
<1> DEFINE t == Append(s, j)
<1>1. \A i \in DOMAIN t : (i \in DOMAIN s /\ t[i] = s[i]) \/ (i = Len(t) /\ t[i] = j)
  OBVIOUS
<1>2. \A i \in DOMAIN t : t[i] \in Nat /\ t[i] <= j
  BY <1>1 DEF InOrder
<1>3. \A i, k \in DOMAIN t : i < k => t[i] <= t[k]
  <2> SUFFICES ASSUME NEW i \in DOMAIN t, NEW k \in DOMAIN t, i < k
               PROVE  t[i] <= t[k]
    OBVIOUS
  <2>1. CASE k = Len(t) /\ t[k] = j
    BY <1>2, <2>1
  <2>2. CASE k \in DOMAIN s /\ t[k] = s[k]
    <3>1. i \in DOMAIN s /\ t[i] = s[i]
      BY <2>2
    <3> QED
      BY <2>2, <3>1 DEF InOrder
  <2> QED
    BY <1>1, <2>1, <2>2
<1>4. \A i \in DOMAIN t : t[i] < f
  BY <1>2 DEF InOrder
<1>5. \A i \in DOMAIN t, k \in DOMAIN q : t[i] < q[k]
  BY <1>2 DEF InOrder
<1> HIDE DEF t
<1>6. InOrder(q, j, t, f)
  BY <1>2, <1>3, <1>4, <1>5 DEF InOrder
<1> QED
  BY <1>6 DEF t

LEMMA FinishInOrder ==
  ASSUME NEW q \in Seq(Nat), NEW j \in Nat, NEW s \in Seq(Nat), NEW f \in Nat,
         InOrder(q, j, s, f)
  PROVE  InOrder(q, 0, s, f)
  BY DEF InOrder

LEMMA AgeInOrder ==
  ASSUME NEW q \in Seq(Nat), NEW j \in Nat, NEW s \in Seq(Nat), NEW f \in Nat,
         NEW g \in Nat, f <= g, InOrder(q, j, s, f)
  PROVE  InOrder(q, j, s, g)
  BY DEF InOrder

\* All that channel c has seen of Dispatch is older than this: than the event
\* being dispatched until the loop has passed c, than the next one otherwise.
Frontier(c) == IF Dispatching /\ c >= chan THEN ev ELSE next

\* SentInOrder is not inductive: it needs the order of the queue behind the job
\* and of the event in Dispatch behind both.
OrderInv ==
    /\ \A c \in Channels : InOrder(queue[c], job[c], sent[c], Frontier(c))
    /\ \A c \in Channels : job[c] # 0 <=> wpc[c] \in {"send", "backoff"}
    /\ Dispatching => ev < next

LEMMA InitOrderInv == Init => OrderInv
  BY DEF Init, OrderInv, InOrder, Increasing, Frontier, Dispatching

\* A step that touches neither queue, job nor arrivals and ages no channel's
\* frontier downwards keeps the order.
LEMMA FrontierSteps ==
  ASSUME TypeOK, OrderInv, UNCHANGED <<queue, job, sent, wpc>>,
         Dispatching' => ev' < next', next' \in Nat, ev' \in Nat,
         \A c \in Channels : Frontier(c) <= Frontier(c)'
  PROVE  OrderInv'
<1>1. ASSUME NEW c \in Channels
      PROVE  InOrder(queue[c], job[c], sent[c], Frontier(c)')
  <2>1. /\ queue[c] \in Seq(Nat) /\ job[c] \in Nat /\ sent[c] \in Seq(Nat)
        /\ Frontier(c) \in Nat /\ Frontier(c)' \in Nat
    BY DEF TypeOK, QueueOK, WorkerOK, DispatchOK, Frontier
  <2>2. InOrder(queue[c], job[c], sent[c], Frontier(c))
    BY DEF OrderInv
  <2> QED
    BY <2>1, <2>2, AgeInOrder
<1> QED
  BY <1>1 DEF OrderInv

\* Putting ev on the current channel's queue and going on.
LEMMA AcceptSteps ==
  ASSUME TypeOK, OrderInv, Dispatching, NextChannel,
         queue' = [queue EXCEPT ![chan] = Append(@, ev)],
         UNCHANGED <<job, sent, wpc>>
  PROVE  OrderInv'
<1>1. /\ chan \in Channels /\ chan \in Nat /\ ev \in Nat /\ next \in Nat
      /\ ev < next /\ UNCHANGED <<ev, next>>
  BY DEF TypeOK, DispatchOK, Channels, OrderInv, NextChannel
<1>2. \A c \in Channels : Frontier(c)' \in Nat /\ Frontier(c) <= Frontier(c)'
  BY <1>1 DEF Frontier, NextChannel, Dispatching, Channels
<1>3. \A c \in Channels : c = chan => Frontier(c) = ev /\ Frontier(c)' = next
  BY <1>1, ConfigAssumption DEF Frontier, NextChannel, Dispatching, Channels
<1>4. ASSUME NEW c \in Channels
      PROVE  InOrder(queue'[c], job[c], sent[c], Frontier(c)')
  <2>1. /\ queue[c] \in Seq(Nat) /\ job[c] \in Nat /\ sent[c] \in Seq(Nat)
        /\ Frontier(c) \in Nat
    BY DEF TypeOK, QueueOK, WorkerOK, DispatchOK, Frontier
  <2>2. InOrder(queue[c], job[c], sent[c], Frontier(c))
    BY DEF OrderInv
  <2>3. CASE c = chan
    <3>1. InOrder(Append(queue[c], ev), job[c], sent[c], next)
      BY <1>1, <1>3, <2>1, <2>2, <2>3, AcceptInOrder
    <3>2. queue'[c] = Append(queue[c], ev)
      BY <1>1, <2>3 DEF TypeOK, QueueOK
    <3> QED
      BY <1>3, <2>3, <3>1, <3>2
  <2>4. CASE c # chan
    <3>1. queue'[c] = queue[c]
      BY <2>4 DEF TypeOK, QueueOK
    <3> QED
      BY <1>2, <2>1, <2>2, <3>1, AgeInOrder
  <2> QED
    BY <2>3, <2>4
<1> QED
  BY <1>1, <1>4 DEF OrderInv

\* Going on without touching the queue.
LEMMA PassSteps ==
  ASSUME TypeOK, OrderInv, Dispatching, NextChannel,
         UNCHANGED <<queue, job, sent, wpc>>
  PROVE  OrderInv'
<1>1. /\ chan \in Nat /\ ev \in Nat /\ next \in Nat /\ ev < next
      /\ UNCHANGED <<ev, next>>
  BY DEF TypeOK, DispatchOK, Channels, OrderInv, NextChannel
<1>2. \A c \in Channels : Frontier(c) <= Frontier(c)'
  BY <1>1 DEF Frontier, NextChannel, Dispatching, Channels
<1> QED
  BY <1>1, <1>2, FrontierSteps

LEMMA DispatcherOrder ==
  ASSUME TypeInv, OrderInv,
         \/ \E s \in Severities : Dispatch(s)
         \/ DispatcherStep
         \/ DispatcherStop
  PROVE  OrderInv'
<1>1. UNCHANGED <<wpc, job, sent>>
  BY DEF Dispatch, DispatcherStep, DispatcherStop, Offer, Evict, Resend,
         workerVars
<1>2. TypeOK /\ chan \in Channels /\ ev \in Nat /\ next \in Nat
  BY DEF TypeInv, TypeOK, DispatchOK
<1>3. ASSUME NEW s \in Severities, Dispatch(s) PROVE OrderInv'
  <2>1. /\ Dispatching' => ev' < next'
        /\ next' \in Nat /\ ev' \in Nat /\ UNCHANGED queue
        /\ \A c \in Channels : Frontier(c) = next /\ Frontier(c)' = next
    BY <1>2, <1>3 DEF Dispatch, Dispatching, Frontier, Channels
  <2> QED
    BY <1>1, <1>2, <2>1, FrontierSteps
<1>4. CASE Offer
  <2>1. Dispatching
    BY <1>4 DEF Offer, Dispatching
  <2>2. CASE NextChannel /\ UNCHANGED queue
    BY <1>1, <1>2, <2>1, <2>2, PassSteps
  <2>3. CASE NextChannel /\ queue' = [queue EXCEPT ![chan] = Append(@, ev)]
    BY <1>1, <1>2, <2>1, <2>3, AcceptSteps
  <2>4. CASE dpc' = "evict" /\ UNCHANGED <<next, ev, sev, chan, queue>>
    <3>1. \A c \in Channels : Frontier(c)' = Frontier(c) /\ Frontier(c) \in Nat
      BY <1>2, <2>1, <2>4 DEF Frontier, Dispatching
    <3> QED
      BY <1>1, <1>2, <2>1, <2>4, <3>1, FrontierSteps DEF OrderInv
  <2> QED
    BY <1>4, <2>2, <2>3, <2>4 DEF Offer, TrySend
<1>5. CASE Evict
  <2>1. /\ Dispatching /\ Dispatching' /\ UNCHANGED <<next, ev, chan>>
    BY <1>5 DEF Evict, Dispatching
  <2>2. \A c \in Channels : Frontier(c)' = Frontier(c) /\ Frontier(c) \in Nat
    BY <1>2, <2>1 DEF Frontier
  <2>3. ASSUME NEW c \in Channels
        PROVE  InOrder(queue'[c], job[c], sent[c], Frontier(c))
    <3>1. /\ queue[c] \in Seq(Nat) /\ job[c] \in Nat /\ sent[c] \in Seq(Nat)
      BY <1>2 DEF TypeOK, QueueOK, WorkerOK
    <3>2. InOrder(queue[c], job[c], sent[c], Frontier(c))
      BY DEF OrderInv
    <3>3. CASE queue'[c] = queue[c]
      BY <3>2, <3>3
    <3>4. CASE queue[c] # <<>> /\ queue'[c] = Tail(queue[c])
      BY <2>2, <3>1, <3>2, <3>4, EvictInOrder
    <3> QED
      BY <1>2, <1>5, <3>3, <3>4 DEF Evict, TypeOK, QueueOK
  <2> QED
    BY <1>1, <2>1, <2>2, <2>3 DEF OrderInv
<1>6. CASE Resend
  <2>1. Dispatching
    BY <1>6 DEF Resend, Dispatching
  <2>2. CASE NextChannel /\ UNCHANGED queue
    BY <1>1, <1>2, <2>1, <2>2, PassSteps
  <2>3. CASE NextChannel /\ queue' = [queue EXCEPT ![chan] = Append(@, ev)]
    BY <1>1, <1>2, <2>1, <2>3, AcceptSteps
  <2> QED
    BY <1>6, <2>2, <2>3 DEF Resend, TrySend
<1>7. CASE DispatcherStop
  <2>1. /\ ~Dispatching' /\ UNCHANGED <<next, ev, queue>>
        /\ \A c \in Channels : Frontier(c) = next /\ Frontier(c)' = next
    BY <1>7 DEF DispatcherStop, Dispatching, Frontier
  <2> QED
    BY <1>1, <1>2, <2>1, FrontierSteps
<1> QED
  BY <1>3, <1>4, <1>5, <1>6, <1>7 DEF DispatcherStep

LEMMA WorkerOrder ==
  ASSUME TypeInv, OrderInv, NEW c \in Channels, Worker(c) \/ NoteIntervalPasses(c)
  PROVE  OrderInv'
<1>1. UNCHANGED <<next, dpc, ev, chan>>
  BY DEF Worker, Recv, SendOk, SendErr, Retry, GiveUp, Report, WorkerStop,
         NoteIntervalPasses, dispatchVars
<1>2. \A d \in Channels : Frontier(d)' = Frontier(d) /\ Frontier(d) \in Nat
  BY <1>1 DEF Frontier, Dispatching, TypeInv, TypeOK, DispatchOK
<1>3. ASSUME NEW d \in Channels
      PROVE  /\ queue[d] \in Seq(Nat) /\ job[d] \in Nat /\ sent[d] \in Seq(Nat)
             /\ InOrder(queue[d], job[d], sent[d], Frontier(d))
             /\ job[d] # 0 <=> wpc[d] \in {"send", "backoff"}
  BY DEF TypeInv, TypeOK, QueueOK, WorkerOK, OrderInv
<1>4. /\ DOMAIN queue = Channels /\ DOMAIN job = Channels
      /\ DOMAIN sent = Channels /\ DOMAIN wpc = Channels
  BY DEF TypeInv, TypeOK, QueueOK, WorkerOK
<1>5. SUFFICES ASSUME NEW d \in Channels
               PROVE  /\ InOrder(queue'[d], job'[d], sent'[d], Frontier(d))
                      /\ job'[d] # 0 <=> wpc'[d] \in {"send", "backoff"}
  BY <1>1, <1>2 DEF OrderInv, Dispatching
<1>6. CASE d # c
  <2>1. /\ queue'[d] = queue[d] /\ job'[d] = job[d]
        /\ sent'[d] = sent[d] /\ wpc'[d] = wpc[d]
    BY <1>4, <1>6 DEF Worker, Recv, SendOk, SendErr, Retry, GiveUp, Report,
                      WorkerStop, NoteIntervalPasses
  <2> QED
    BY <1>3, <2>1
<1>7. CASE d = c
  <2>1. CASE Recv(c)
    <3>1. /\ job[d] = 0 /\ queue[d] # <<>>
          /\ queue'[d] = Tail(queue[d]) /\ job'[d] = Head(queue[d])
          /\ sent'[d] = sent[d] /\ wpc'[d] = "send"
      BY <1>3, <1>4, <1>7, <2>1 DEF Recv
    <3> QED
      BY <1>2, <1>3, <3>1, TakeInOrder
  <2>2. CASE SendOk(c)
    <3>1. /\ job[d] # 0 /\ queue'[d] = queue[d] /\ job'[d] = 0
          /\ sent'[d] = Append(sent[d], job[d]) /\ wpc'[d] = "report"
      BY <1>3, <1>4, <1>7, <2>2 DEF SendOk
    <3>2. InOrder(queue[d], job[d], Append(sent[d], job[d]), Frontier(d))
      BY <1>2, <1>3, <3>1, ArriveInOrder
    <3>3. Append(sent[d], job[d]) \in Seq(Nat)
      BY <1>3
    <3> QED
      BY <1>2, <1>3, <3>1, <3>2, <3>3, FinishInOrder
  <2>3. CASE SendErr(c)
    <3>1. /\ job[d] # 0 /\ queue'[d] = queue[d] /\ job'[d] = job[d]
          /\ wpc'[d] = "backoff"
          /\ sent'[d] = sent[d] \/ sent'[d] = Append(sent[d], job[d])
      BY <1>3, <1>4, <1>7, <2>3 DEF SendErr
    <3>2. InOrder(queue[d], job[d], Append(sent[d], job[d]), Frontier(d))
      BY <1>2, <1>3, <3>1, ArriveInOrder
    <3> QED
      BY <1>3, <3>1, <3>2
  <2>4. CASE GiveUp(c)
    <3>1. /\ queue'[d] = queue[d] /\ job'[d] = 0 /\ sent'[d] = sent[d]
          /\ wpc'[d] = "report"
      BY <1>4, <1>7, <2>4 DEF GiveUp
    <3> QED
      BY <1>2, <1>3, <3>1, FinishInOrder
  <2>5. CASE Retry(c) \/ Report(c) \/ WorkerStop(c) \/ NoteIntervalPasses(c)
    <3>1. /\ queue'[d] = queue[d] /\ job'[d] = job[d] /\ sent'[d] = sent[d]
          /\ \/ wpc[d] = "backoff" /\ wpc'[d] = "send"
             \/ wpc[d] = "report" /\ wpc'[d] = "recv"
             \/ wpc[d] = "recv" /\ wpc'[d] = "stopped"
             \/ wpc'[d] = wpc[d]
      BY <1>4, <1>7, <2>5 DEF Retry, Report, WorkerStop, NoteIntervalPasses
    <3> QED
      BY <1>3, <3>1
  <2> QED
    BY <2>1, <2>2, <2>3, <2>4, <2>5 DEF Worker
<1> QED
  BY <1>6, <1>7

LEMMA NextOrderInv == TypeInv /\ OrderInv /\ [Next]_vars => OrderInv'
<1> SUFFICES ASSUME TypeInv, OrderInv, [Next]_vars PROVE OrderInv'
  OBVIOUS
<1>1. CASE Cancel \/ UNCHANGED vars
  <2>1. UNCHANGED <<next, dpc, ev, chan, queue, job, sent, wpc>>
    BY <1>1 DEF Cancel, vars, dispatchVars, workerVars
  <2> QED
    BY <2>1 DEF OrderInv, Frontier, Dispatching
<1> QED
  BY <1>1, DispatcherOrder, WorkerOrder DEF Next, Terminated

LEMMA SafeOrderInv == SafeSpec => []OrderInv
  BY InitOrderInv, NextOrderInv, SafeTypeInv, PTL DEF SafeSpec

\* However many channels there are and however their sends fail, every channel
\* is sent the events in the order of dispatch: a retried event never arrives
\* after a younger one, and an eviction never reorders a queue.
THEOREM OrderCorrect == Spec => []SentInOrder
<1>1. TypeInv /\ OrderInv => SentInOrder
  BY DEF OrderInv, InOrder, SentInOrder
<1> QED
  BY <1>1, SpecIsSafe, SafeTypeInv, SafeOrderInv, PTL

-----------------------------------------------------------------------------
(* Drop-oldest.                                                            *)

LEMMA NextFreshestKept ==
  TypeInv /\ FreshestKept /\ [Next]_vars => FreshestKept'
<1> SUFFICES ASSUME TypeInv, FreshestKept, [Next]_vars, dpc' = "resend"
             PROVE  Len(queue'[chan']) < QCap
  BY DEF FreshestKept
<1>1. /\ chan \in Channels /\ queue \in [Channels -> Seq(Nat)]
      /\ \A c \in Channels : Len(queue[c]) <= QCap
  BY DEF TypeInv, TypeOK, DispatchOK, QueueOK
<1>2. CASE Evict
  <2>1. UNCHANGED chan
    BY <1>2 DEF Evict
  <2>2. CASE queue[chan] = <<>>
    BY <1>1, <1>2, <2>1, <2>2, ConfigAssumption DEF Evict
  <2>3. CASE queue[chan] # <<>>
    <3>1. queue'[chan] = Tail(queue[chan])
      BY <1>1, <1>2, <2>3 DEF Evict
    <3>2. Len(Tail(queue[chan])) = Len(queue[chan]) - 1
      BY <1>1, <2>3
    <3> QED
      BY <1>1, <2>1, <3>1, <3>2, ConfigAssumption
  <2> QED
    BY <2>2, <2>3
<1>3. ASSUME dpc = "resend", UNCHANGED <<chan, queue>>
      PROVE  Len(queue'[chan']) < QCap
  BY <1>3 DEF FreshestKept
<1>4. ASSUME NEW c \in Channels, Worker(c) \/ NoteIntervalPasses(c)
      PROVE  Len(queue'[chan']) < QCap
  <2>1. dpc = "resend" /\ UNCHANGED chan
    BY <1>4 DEF Worker, Recv, SendOk, SendErr, Retry, GiveUp, Report,
                WorkerStop, NoteIntervalPasses, dispatchVars
  <2>2. CASE Recv(c)
    <3>1. Len(queue[chan]) \in Nat /\ Len(queue[chan]) < QCap
      BY <1>1, <2>1 DEF FreshestKept
    <3>2. CASE c = chan
      <4>1. queue'[chan] = Tail(queue[chan])
        BY <1>1, <2>2, <3>2 DEF Recv
      <4>2. Len(Tail(queue[chan])) = Len(queue[chan]) - 1
        BY <1>1, <2>2, <3>2 DEF Recv
      <4> QED
        BY <2>1, <3>1, <4>1, <4>2, ConfigAssumption
    <3>3. CASE c # chan
      <4>1. queue'[chan] = queue[chan]
        BY <1>1, <2>2, <3>3 DEF Recv
      <4> QED
        BY <2>1, <3>1, <4>1
    <3> QED
      BY <3>2, <3>3
  <2>3. CASE UNCHANGED queue
    BY <1>3, <2>1, <2>3
  <2> QED
    BY <1>4, <2>2, <2>3 DEF Worker, SendOk, SendErr, Retry, GiveUp, Report,
                            WorkerStop, NoteIntervalPasses
<1>5. CASE Cancel \/ UNCHANGED vars
  BY <1>3, <1>5 DEF Cancel, vars, dispatchVars
<1>6. ~DispatcherStop /\ ~Offer /\ ~Resend /\ \A s \in Severities : ~Dispatch(s)
  BY ConfigAssumption DEF DispatcherStop, Offer, Resend, Dispatch, TrySend,
                          NextChannel
<1> QED
  BY <1>2, <1>4, <1>5, <1>6 DEF Next, DispatcherStep, Terminated

\* When Dispatch offers an event again after an eviction there is room for it,
\* whatever the worker did meanwhile: the third select never falls through, so
\* the freshest event is never the one a backlog costs.
THEOREM DropOldest == Spec => []FreshestKept
<1>1. Init => FreshestKept
  BY DEF Init, FreshestKept
<1>2. SafeSpec => []FreshestKept
  BY <1>1, NextFreshestKept, SafeTypeInv, PTL DEF SafeSpec
<1> QED
  BY <1>2, SpecIsSafe, PTL

-----------------------------------------------------------------------------
(* Copies: how often one event arrives.                                    *)

Copies(s, n) == {i \in DOMAIN s : s[i] = n}

LEMMA CopiesFinite ==
  ASSUME NEW s \in Seq(Nat), NEW n
  PROVE  IsFiniteSet(Copies(s, n)) /\ Cardinality(Copies(s, n)) \in Nat
<1>1. IsFiniteSet(1..Len(s))
  BY FS_Interval
<1>2. Copies(s, n) \subseteq 1..Len(s)
  BY DEF Copies
<1> QED
  BY <1>1, <1>2, FS_Subset, FS_CardinalityType

\* An arrival of j is one copy more of j and of nothing else.
LEMMA CopiesArrive ==
  ASSUME NEW s \in Seq(Nat), NEW j \in Nat, NEW n
  PROVE  Cardinality(Copies(Append(s, j), n)) =
             Cardinality(Copies(s, n)) + (IF n = j THEN 1 ELSE 0)
<1> DEFINE t == Append(s, j)
<1>1. /\ DOMAIN t = DOMAIN s \cup {Len(s) + 1} /\ Len(s) + 1 \notin DOMAIN s
      /\ t[Len(s) + 1] = j /\ \A i \in DOMAIN s : t[i] = s[i]
  OBVIOUS
<1> HIDE DEF t
<1>2. CASE n = j
  <2>1. Copies(t, n) = Copies(s, n) \cup {Len(s) + 1} /\ Len(s) + 1 \notin Copies(s, n)
    BY <1>1, <1>2 DEF Copies
  <2> QED
    BY <1>2, <2>1, CopiesFinite, FS_AddElement DEF t
<1>3. CASE n # j
  <2>1. Copies(t, n) = Copies(s, n)
    BY <1>1, <1>3 DEF Copies
  <2>2. Cardinality(Copies(s, n)) \in Nat
    BY CopiesFinite
  <2> QED
    BY <1>3, <2>1, <2>2 DEF t
<1> QED
  BY <1>2, <1>3

\* What is behind the job has not arrived, and the job at most as often as it was
\* tried; CopiesBounded alone says nothing of the event being retried.
CopiesInv ==
    \A c \in Channels :
        /\ \A n \in Nat : Cardinality(Copies(sent[c], n)) <= Attempts
        /\ job[c] # 0 => Cardinality(Copies(sent[c], job[c])) <= attempt[c]

LEMMA InitCopiesInv == ASSUME Init PROVE CopiesInv
<1>1. \A c \in Channels : job[c] = 0 /\ sent[c] = <<>>
  BY DEF Init
<1>2. \A n : Copies(<<>>, n) = {}
  BY DEF Copies
<1> QED
  BY <1>1, <1>2, FS_EmptySet DEF CopiesInv, Attempts

LEMMA WorkerCopies ==
  ASSUME TypeInv, OrderInv, CopiesInv, NEW c \in Channels,
         Worker(c) \/ NoteIntervalPasses(c)
  PROVE  CopiesInv'
<1>2. /\ DOMAIN queue = Channels /\ DOMAIN job = Channels
      /\ DOMAIN sent = Channels /\ DOMAIN attempt = Channels
  BY DEF TypeInv, TypeOK, QueueOK, WorkerOK
<1>3. SUFFICES ASSUME NEW d \in Channels
               PROVE  /\ \A n \in Nat : Cardinality(Copies(sent'[d], n)) <= Attempts
                      /\ job'[d] # 0 => Cardinality(Copies(sent'[d], job'[d])) <= attempt'[d]
  BY DEF CopiesInv
<1>1. /\ queue[d] \in Seq(Nat) /\ job[d] \in Nat /\ sent[d] \in Seq(Nat)
      /\ attempt[d] \in Nat /\ attempt[d] <= Attempts
      /\ job[d] # 0 <=> wpc[d] \in {"send", "backoff"}
  <2>1. attempt[d] \in 0..Attempts
    BY DEF TypeInv, TypeOK, WorkerOK
  <2>2. queue[d] \in Seq(Nat) /\ job[d] \in Nat /\ sent[d] \in Seq(Nat)
    BY DEF TypeInv, TypeOK, QueueOK, WorkerOK
  <2>3. job[d] # 0 <=> wpc[d] \in {"send", "backoff"}
    BY DEF OrderInv
  <2> QED
    BY <2>1, <2>2, <2>3 DEF Attempts
<1>4. /\ \A n \in Nat : Cardinality(Copies(sent[d], n)) <= Attempts
      /\ job[d] # 0 => Cardinality(Copies(sent[d], job[d])) <= attempt[d]
  BY DEF CopiesInv
<1>5. CASE /\ sent'[d] = sent[d]
           /\ job'[d] = 0 \/ (job'[d] = job[d] /\ attempt'[d] = attempt[d])
  BY <1>4, <1>5
<1>6. CASE d # c
  <2>1. /\ job'[d] = job[d] /\ sent'[d] = sent[d] /\ attempt'[d] = attempt[d]
    BY <1>2, <1>6 DEF Worker, Recv, SendOk, SendErr, Retry, GiveUp, Report,
                      WorkerStop, NoteIntervalPasses
  <2> QED
    BY <1>5, <2>1
<1>7. CASE d = c
  <2>1. CASE Recv(c)
    <3>1. /\ queue[d] # <<>> /\ job'[d] = Head(queue[d]) /\ sent'[d] = sent[d]
          /\ attempt'[d] = attempt[d]
      BY <1>2, <1>7, <2>1 DEF Recv
    <3>2. Head(queue[d]) = queue[d][1] /\ 1 \in DOMAIN queue[d]
      BY <1>1, <3>1
    <3>3. \A i \in DOMAIN sent[d] : sent[d][i] < Head(queue[d])
      BY <3>2 DEF OrderInv, InOrder
    <3>4. Copies(sent[d], Head(queue[d])) = {}
      <4>1. \A i \in DOMAIN sent[d] : sent[d][i] \in Nat
        BY <1>1
      <4>2. Head(queue[d]) \in Nat
        BY <1>1, <3>2
      <4> QED
        BY <3>3, <4>1, <4>2 DEF Copies
    <3>5. Cardinality({}) = 0
      BY FS_EmptySet
    <3>6. Cardinality(Copies(sent'[d], job'[d])) = 0
      BY <3>1, <3>4, <3>5
    <3>7. \A n \in Nat : Cardinality(Copies(sent'[d], n)) <= Attempts
      BY <1>4, <3>1
    <3> QED
      BY <1>1, <3>1, <3>6, <3>7
  <2>2. CASE SendOk(c) \/ SendErr(c)
    <3>1. /\ job[d] # 0 /\ attempt[d] < Attempts
          /\ sent'[d] = sent[d] \/ sent'[d] = Append(sent[d], job[d])
          /\ \/ job'[d] = 0
             \/ job'[d] = job[d] /\ attempt'[d] = attempt[d] + 1
      BY <1>1, <1>2, <1>7, <2>2 DEF SendOk, SendErr, TypeInv, AttemptInv
    <3>2. \A n \in Nat : Cardinality(Copies(sent[d], n)) \in Nat
      BY <1>1, CopiesFinite
    <3>3. CASE sent'[d] = sent[d]
      <4>1. Cardinality(Copies(sent[d], job[d])) <= attempt[d]
        BY <1>4, <3>1
      <4>2. Cardinality(Copies(sent[d], job[d])) \in Nat
        BY <1>1, <3>2
      <4>3. \A n \in Nat : Cardinality(Copies(sent'[d], n)) <= Attempts
        BY <1>4, <3>3
      <4>4. ASSUME job'[d] = job[d], attempt'[d] = attempt[d] + 1
            PROVE  Cardinality(Copies(sent'[d], job'[d])) <= attempt'[d]
        BY <1>1, <3>3, <4>1, <4>2, <4>4
      <4> QED
        BY <3>1, <4>3, <4>4
    <3>4. CASE sent'[d] = Append(sent[d], job[d])
      <4>1. ASSUME NEW n \in Nat
            PROVE  Cardinality(Copies(sent'[d], n)) =
                       Cardinality(Copies(sent[d], n)) + (IF n = job[d] THEN 1 ELSE 0)
        BY <1>1, <3>4, CopiesArrive
      <4>2. Cardinality(Copies(sent'[d], job[d])) <= attempt[d] + 1
        <5>1. Cardinality(Copies(sent[d], job[d])) <= attempt[d]
          BY <1>4, <3>1
        <5>2. Cardinality(Copies(sent[d], job[d])) \in Nat
          BY <1>1, <3>2
        <5>3. Cardinality(Copies(sent'[d], job[d])) = Cardinality(Copies(sent[d], job[d])) + 1
          BY <1>1, <4>1
        <5> QED
          BY <1>1, <5>1, <5>2, <5>3
      <4>3. ASSUME NEW n \in Nat PROVE Cardinality(Copies(sent'[d], n)) <= Attempts
        <5>1. CASE n = job[d]
          <6>1. Cardinality(Copies(sent'[d], n)) <= attempt[d] + 1
            BY <4>2, <5>1
          <6>2. Cardinality(Copies(sent'[d], n)) \in Nat
            BY <3>2, <4>1
          <6>3. attempt[d] \in Nat /\ attempt[d] < Attempts
            BY <1>1, <3>1
          <6> QED
            BY <6>1, <6>2, <6>3 DEF Attempts
        <5>2. CASE n # job[d]
          BY <1>4, <3>2, <4>1, <5>2
        <5> QED
          BY <5>1, <5>2
      <4> QED
        BY <3>1, <4>2, <4>3
    <3> QED
      BY <3>1, <3>3, <3>4
  <2>3. CASE GiveUp(c) \/ Retry(c) \/ Report(c) \/ WorkerStop(c) \/ NoteIntervalPasses(c)
    <3>1. /\ sent'[d] = sent[d]
          /\ job'[d] = 0 \/ (job'[d] = job[d] /\ attempt'[d] = attempt[d])
      BY <1>2, <1>7, <2>3 DEF GiveUp, Retry, Report, WorkerStop, NoteIntervalPasses
    <3> QED
      BY <1>5, <3>1
  <2> QED
    BY <2>1, <2>2, <2>3 DEF Worker
<1> QED
  BY <1>6, <1>7

LEMMA NextCopiesInv == TypeInv /\ OrderInv /\ CopiesInv /\ [Next]_vars => CopiesInv'
<1> SUFFICES ASSUME TypeInv, OrderInv, CopiesInv, [Next]_vars PROVE CopiesInv'
  OBVIOUS
<1>1. CASE UNCHANGED <<job, sent, attempt>>
  BY <1>1 DEF CopiesInv
<1>2. CASE \E c \in Channels : Worker(c) \/ NoteIntervalPasses(c)
  BY <1>2, WorkerCopies
<1> QED
  BY <1>1, <1>2 DEF Next, DispatcherStep, Dispatch, DispatcherStop, Offer, Evict, Resend,
     Cancel, Terminated, vars, workerVars

\* However often a send is retried after its request was lost or its answer came
\* late, no event reaches a channel more often than sendWithRetry tries it
\* (alert.go:138-151).
THEOREM CopiesCorrect == Spec => []CopiesBounded
<1>1. CopiesInv => CopiesBounded
  <2> SUFFICES ASSUME CopiesInv, NEW c \in Channels, NEW n \in 1..MaxEvents
               PROVE  Cardinality(Copies(sent[c], n)) <= Attempts
    BY DEF CopiesBounded, Copies
  <2>1. n \in Nat
    BY ConfigAssumption
  <2> QED
    BY <2>1 DEF CopiesInv
<1>2. Init => CopiesInv
  BY InitCopiesInv
<1>3. SafeSpec => []CopiesInv
  BY <1>2, NextCopiesInv, SafeTypeInv, SafeOrderInv, PTL DEF SafeSpec
<1> QED
  BY <1>1, <1>3, SpecIsSafe, PTL

-----------------------------------------------------------------------------
(* The atomic promise: AlertManager implements AlertDelivery.              *)

\* What Dispatch has not offered to c yet, and with it all that is owed to c.
Offering(c) == IF Dispatching /\ c >= chan /\ sev >= Min[c] THEN <<ev>> ELSE <<>>
Owed(j, q, d) == (IF j = 0 THEN <<>> ELSE <<j>>) \o q \o d

LEMMA OutstandingOwed ==
  ASSUME NEW c \in Channels
  PROVE  /\ Outstanding(c) = Owed(job[c], queue[c], Offering(c))
         /\ Outstanding(c)' = Owed(job'[c], queue'[c], Offering(c)')
  BY DEF Outstanding, Owed, Offering

LEMMA OwedGrows ==
  ASSUME NEW j \in Nat, NEW q \in Seq(Nat), NEW e \in Nat
  PROVE  /\ Owed(j, Append(q, e), <<>>) = Owed(j, q, <<e>>)
         /\ Append(Owed(j, q, <<>>), e) = Owed(j, q, <<e>>)
  BY DEF Owed

LEMMA OwedWorked ==
  ASSUME NEW j \in Nat \ {0}, NEW q \in Seq(Nat), NEW d \in Seq(Nat)
  PROVE  /\ Owed(j, q, d) # <<>> /\ Head(Owed(j, q, d)) = j
         /\ Tail(Owed(j, q, d)) = Owed(0, q, d)
  BY DEF Owed

LEMMA OwedTaken ==
  ASSUME NEW q \in Seq(Nat), NEW d \in Seq(Nat), q # <<>>, Head(q) # 0
  PROVE  Owed(Head(q), Tail(q), d) = Owed(0, q, d)
  BY DEF Owed

LEMMA OwedShed ==
  ASSUME NEW j \in Nat, NEW q \in Seq(Nat), NEW e \in Nat, q # <<>>
  PROVE  /\ j = 0 => /\ Len(Owed(j, q, <<e>>)) > 1
                     /\ Owed(j, Tail(q), <<e>>) = Tail(Owed(j, q, <<e>>))
         /\ j # 0 => /\ Len(Owed(j, q, <<e>>)) > 2
                     /\ Owed(j, Tail(q), <<e>>) = Delivery!WithoutSecond(Owed(j, q, <<e>>))
<1>1. CASE j = 0
  <2>1. Owed(j, q, <<e>>) = q \o <<e>> /\ Owed(j, Tail(q), <<e>>) = Tail(q) \o <<e>>
    BY <1>1 DEF Owed
  <2>2. Len(q \o <<e>>) > 1 /\ Tail(q \o <<e>>) = Tail(q) \o <<e>>
    OBVIOUS
  <2> QED
    BY <1>1, <2>1, <2>2
<1>2. CASE j # 0
  <2> DEFINE a == <<j>> \o q \o <<e>>
  <2>1. Owed(j, q, <<e>>) = a /\ Owed(j, Tail(q), <<e>>) = <<j>> \o Tail(q) \o <<e>>
    BY <1>2 DEF Owed
  <2>2. Len(a) > 2 /\ Head(a) = j
    OBVIOUS
  <2>3. Tail(a) = q \o <<e>> /\ Tail(q \o <<e>>) = Tail(q) \o <<e>>
    OBVIOUS
  <2>4. Delivery!WithoutSecond(a) = <<j>> \o (Tail(q) \o <<e>>)
    BY <2>2, <2>3 DEF Delivery!WithoutSecond
  <2>5. <<j>> \o (Tail(q) \o <<e>>) = <<j>> \o Tail(q) \o <<e>>
    OBVIOUS
  <2> QED
    BY <1>2, <2>1, <2>2, <2>4, <2>5
<1> QED
  BY <1>1, <1>2

\* Past the filter, the event being dispatched is due to the current channel.
OfferDue == dpc \in {"evict", "resend"} => sev >= Min[chan]

LEMMA NextOfferDue == TypeInv /\ OfferDue /\ [Next]_vars => OfferDue'
<1> SUFFICES ASSUME TypeInv, OfferDue, [Next]_vars, dpc' \in {"evict", "resend"}
             PROVE  sev' >= Min[chan']
  BY DEF OfferDue
<1>1. sev \in Nat /\ chan \in Channels /\ Min[chan] \in Nat
  BY ConfigAssumption DEF TypeInv, TypeOK, DispatchOK
<1>2. CASE UNCHANGED <<dpc, sev, chan>>
  BY <1>2 DEF OfferDue
<1>3. CASE Offer
  BY <1>1, <1>3 DEF Offer, TrySend, NextChannel
<1>4. CASE Evict
  BY <1>4 DEF Evict, OfferDue
<1>5. ~DispatcherStop /\ ~Resend /\ \A s \in Severities : ~Dispatch(s)
  BY DEF DispatcherStop, Resend, Dispatch, TrySend, NextChannel
<1>6. ASSUME NEW c \in Channels, Worker(c) \/ NoteIntervalPasses(c)
      PROVE  UNCHANGED <<dpc, sev, chan>>
  BY <1>6 DEF Worker, Recv, SendOk, SendErr, Retry, GiveUp, Report, WorkerStop,
              NoteIntervalPasses, dispatchVars
<1> QED
  BY <1>2, <1>3, <1>4, <1>5, <1>6
  DEF Next, DispatcherStep, Cancel, Terminated, vars, dispatchVars

\* What the mapping of a step to AlertDelivery rests on.
MappingInv == TypeInv /\ OrderInv /\ FreshestKept /\ OfferDue

LEMMA Typed ==
  ASSUME MappingInv, NEW c \in Channels
  PROVE  /\ queue[c] \in Seq(Nat) /\ job[c] \in Nat /\ Offering(c) \in Seq(Nat)
         /\ chan \in Channels /\ ev \in Nat /\ next \in Nat /\ sev \in Nat /\ Min[c] \in Nat
         /\ attempt[c] \in 0..Attempts
         /\ job[c] # 0 <=> wpc[c] \in {"send", "backoff"}
<1> USE DEF MappingInv, TypeInv, TypeOK, QueueOK, WorkerOK, DispatchOK, OrderInv
<1>1. ev \in Nat /\ <<>> \in Seq(Nat)
  OBVIOUS
<1>2. <<ev>> \in Seq(Nat)
  BY <1>1
<1>3. Offering(c) \in Seq(Nat)
  BY <1>1, <1>2 DEF Offering
<1> QED
  BY <1>3, ConfigAssumption

LEMMA MapInit == Init => Delivery!Init
<1> SUFFICES ASSUME Init PROVE Delivery!Init
  OBVIOUS
<1>1. \A c \in Channels : Outstanding(c) = <<>>
  BY DEF Init, Outstanding, Dispatching
<1> QED
  BY <1>1 DEF Init, Delivery!Init, Delivery!Channels, Channels

\* A step that changes nothing AlertDelivery sees.
LEMMA MapStutter ==
  ASSUME UNCHANGED <<next, attempt, sent, shed, cancelled>>,
         \A c \in Channels : Outstanding(c)' = Outstanding(c)
  PROVE  UNCHANGED Delivery!vars
  BY DEF Delivery!vars

\* A step that changes what is owed to c only.
LEMMA MapOne ==
  ASSUME NEW c \in Channels, \A d \in Channels \ {c} : Outstanding(d)' = Outstanding(d)
  PROVE  [d \in Channels |-> Outstanding(d)]' =
             [[d \in Channels |-> Outstanding(d)] EXCEPT ![c] = Outstanding(c)']
  OBVIOUS

\* The loop goes on: nothing more is being offered to the channel it leaves.
LEMMA MapPass ==
  ASSUME MappingInv, Dispatching, NextChannel
  PROVE  \A c \in Channels : Offering(c)' = IF c = chan THEN <<>> ELSE Offering(c)
<1>1. chan \in 1..N /\ N \in Nat \ {0}
  BY ConfigAssumption DEF MappingInv, TypeInv, TypeOK, DispatchOK, Channels
<1>2. CASE chan = N
  BY <1>1, <1>2 DEF NextChannel, Offering, Dispatching, Channels
<1>3. CASE chan # N
  BY <1>1, <1>3 DEF NextChannel, Offering, Dispatching, Channels
<1> QED
  BY <1>2, <1>3

LEMMA MapAccept ==
  ASSUME MappingInv, Dispatching, sev >= Min[chan], NextChannel,
         queue' = [queue EXCEPT ![chan] = Append(@, ev)],
         UNCHANGED <<attempt, sent, shed, cancelled, job>>
  PROVE  UNCHANGED Delivery!vars
<1>1. UNCHANGED next
  BY DEF NextChannel
<1>2. ASSUME NEW c \in Channels PROVE Outstanding(c)' = Outstanding(c)
  <2>1. DOMAIN queue = Channels
    BY DEF MappingInv, TypeInv, TypeOK, QueueOK
  <2>2. CASE c = chan
    <3>1. queue'[c] = Append(queue[c], ev)
      BY <2>1, <2>2
    <3>2. c >= chan
      BY <2>2 DEF Channels
    <3>3. Offering(c) = <<ev>> /\ Offering(c)' = <<>>
      BY <2>2, <3>2, MapPass DEF Offering
    <3>4. /\ Outstanding(c) = Owed(job[c], queue[c], <<ev>>)
          /\ Outstanding(c)' = Owed(job[c], Append(queue[c], ev), <<>>)
      BY <3>1, <3>3, OutstandingOwed
    <3>5. queue[c] \in Seq(Nat) /\ job[c] \in Nat /\ ev \in Nat
      BY Typed
    <3> QED
      BY <3>4, <3>5, OwedGrows
  <2>3. CASE c # chan
    BY <2>1, <2>3, MapPass, OutstandingOwed
  <2> QED
    BY <2>2, <2>3
<1> QED
  BY <1>1, <1>2, MapStutter

LEMMA MapSkip ==
  ASSUME MappingInv, Dispatching, Offering(chan) = <<>>, NextChannel,
         UNCHANGED <<queue, attempt, sent, shed, cancelled, job>>
  PROVE  UNCHANGED Delivery!vars
<1>1. UNCHANGED next
  BY DEF NextChannel
<1>2. \A c \in Channels : Outstanding(c)' = Outstanding(c)
  BY MapPass, OutstandingOwed
<1> QED
  BY <1>1, <1>2, MapStutter

LEMMA MapDispatch ==
  ASSUME MappingInv, NEW s \in Severities, Dispatch(s)
  PROVE  Delivery!Publish(s)
<1>1. /\ ~Dispatching /\ Dispatching' /\ next <= MaxEvents /\ next' = next + 1
      /\ ev' = next /\ sev' = s /\ chan' = 1
      /\ UNCHANGED <<queue, job, attempt, sent, shed, cancelled>>
  BY DEF Dispatch, Dispatching, workerVars
<1>2. ASSUME NEW c \in Channels
      PROVE  Outstanding(c)' = IF s >= Min[c] THEN Append(Outstanding(c), next)
                                              ELSE Outstanding(c)
  <2>1. Offering(c) = <<>> /\ Offering(c)' = IF s >= Min[c] THEN <<next>> ELSE <<>>
    BY <1>1 DEF Offering, Channels
  <2>2. CASE s >= Min[c]
    <3>1. /\ Outstanding(c) = Owed(job[c], queue[c], <<>>)
          /\ Outstanding(c)' = Owed(job[c], queue[c], <<next>>)
      BY <1>1, <2>1, <2>2, OutstandingOwed
    <3>2. queue[c] \in Seq(Nat) /\ job[c] \in Nat /\ next \in Nat
      BY Typed
    <3> QED
      BY <2>2, <3>1, <3>2, OwedGrows
  <2>3. CASE ~(s >= Min[c])
    BY <1>1, <2>1, <2>3, OutstandingOwed
  <2> QED
    BY <2>2, <2>3
<1> QED
  BY <1>1, <1>2 DEF Delivery!Publish, Delivery!Channels, Channels

LEMMA MapEvict ==
  ASSUME MappingInv, Evict
  PROVE  UNCHANGED Delivery!vars \/ \E c \in Channels : Delivery!Shed(c)
<1>1. /\ Dispatching /\ Dispatching' /\ dpc = "evict"
      /\ UNCHANGED <<next, ev, sev, chan, job, attempt, sent, cancelled>>
  BY DEF Evict, Dispatching, workerVars
<1>2. \A c \in Channels : Offering(c)' = Offering(c)
  BY <1>1 DEF Offering
<1>3. CASE queue[chan] = <<>>
  <2>1. UNCHANGED <<queue, shed>>
    BY <1>3 DEF Evict
  <2> QED
    BY <1>1, <1>2, <2>1, MapStutter, OutstandingOwed
<1>4. CASE queue[chan] # <<>>
  <2>1. /\ queue' = [queue EXCEPT ![chan] = Tail(@)]
        /\ shed' = [shed EXCEPT ![chan] = @ + 1]
    BY <1>4 DEF Evict
  <2>2. DOMAIN queue = Channels /\ chan \in Channels
    BY DEF MappingInv, TypeInv, TypeOK, QueueOK, DispatchOK
  <2> PICK c \in Channels : c = chan
    BY <2>2
  <2>3. queue[c] # <<>> /\ queue'[c] = Tail(queue[c]) /\ Offering(c) = <<ev>>
    <3>1. queue[c] # <<>> /\ queue'[c] = Tail(queue[c])
      BY <1>4, <2>1, <2>2
    <3>2. c >= chan /\ sev >= Min[c]
      BY <1>1 DEF MappingInv, OfferDue, Channels
    <3> QED
      BY <1>1, <3>1, <3>2 DEF Offering
  <2>4. \A d \in Channels \ {c} : Outstanding(d)' = Outstanding(d)
    BY <1>1, <1>2, <2>1, <2>2, OutstandingOwed
  <2>5. /\ Outstanding(c) = Owed(job[c], queue[c], <<ev>>)
        /\ Outstanding(c)' = Owed(job[c], Tail(queue[c]), <<ev>>)
    BY <1>1, <1>2, <2>3, OutstandingOwed
  <2>6. /\ job[c] = 0 => Len(Outstanding(c)) > 1 /\ Outstanding(c)' = Tail(Outstanding(c))
        /\ job[c] # 0 => /\ Len(Outstanding(c)) > 2
                         /\ Outstanding(c)' = Delivery!WithoutSecond(Outstanding(c))
    <3>1. queue[c] \in Seq(Nat) /\ job[c] \in Nat /\ ev \in Nat
      BY Typed
    <3>2. CASE job[c] = 0
      <4>1. /\ Len(Owed(job[c], queue[c], <<ev>>)) > 1
            /\ Owed(job[c], Tail(queue[c]), <<ev>>) = Tail(Owed(job[c], queue[c], <<ev>>))
        BY <2>3, <3>1, <3>2, OwedShed
      <4> QED
        BY <2>5, <3>2, <4>1
    <3>3. CASE job[c] # 0
      <4>1. /\ Len(Owed(job[c], queue[c], <<ev>>)) > 2
            /\ Owed(job[c], Tail(queue[c]), <<ev>>) =
                   Delivery!WithoutSecond(Owed(job[c], queue[c], <<ev>>))
        BY <2>3, <3>1, <3>3, OwedShed
      <4> QED
        BY <2>5, <3>3, <4>1
    <3> QED
      BY <3>2, <3>3
  <2>7. job[c] = 0 => attempt[c] = 0
    BY Typed DEF MappingInv, TypeInv, TypeOK, WorkerOK, AttemptInv
  <2>8. [d \in Channels |-> Outstanding(d)]' =
            [[d \in Channels |-> Outstanding(d)] EXCEPT ![c] = Outstanding(c)']
    BY <2>4, MapOne
  <2>9. Delivery!Shed(c)
    <3> DEFINE todo == [d \in Channels |-> Outstanding(d)]
    <3>1. todo[c] = Outstanding(c)
      OBVIOUS
    <3>2. todo' = [todo EXCEPT ![c] = Outstanding(c)']
      BY <2>8
    <3>3. shed' = [shed EXCEPT ![c] = @ + 1] /\ UNCHANGED <<next, attempt, sent, cancelled>>
      BY <1>1, <2>1
    <3>4. \/ Len(todo[c]) > 1 /\ attempt[c] = 0 /\ todo' = [todo EXCEPT ![c] = Tail(@)]
          \/ Len(todo[c]) > 2 /\ todo' = [todo EXCEPT ![c] = Delivery!WithoutSecond(@)]
      <4>1. CASE job[c] = 0
        BY <2>6, <2>7, <3>1, <3>2, <4>1
      <4>2. CASE job[c] # 0
        BY <2>6, <3>1, <3>2, <4>2
      <4> QED
        BY <4>1, <4>2
    <3> QED
      BY <3>3, <3>4 DEF Delivery!Shed
  <2> QED
    BY <2>9
<1> QED
  BY <1>3, <1>4

LEMMA MapDispatcher ==
  ASSUME MappingInv,
         \/ \E s \in Severities : Dispatch(s)
         \/ DispatcherStep
         \/ DispatcherStop
  PROVE  [Delivery!Next]_(Delivery!vars)
<1>1. CASE \E s \in Severities : Dispatch(s)
  BY <1>1, MapDispatch DEF Delivery!Next
<1>2. CASE Offer
  <2>1. Dispatching /\ UNCHANGED <<attempt, sent, shed, cancelled, job>>
    BY <1>2 DEF Offer, Dispatching, workerVars
  <2>2. CASE sev < Min[chan]
    <3>1. Offering(chan) = <<>>
      BY <2>2, ConfigAssumption DEF Offering, MappingInv, TypeInv, TypeOK, DispatchOK
    <3> QED
      BY <1>2, <2>1, <2>2, <3>1, MapSkip DEF Offer
  <2>3. CASE ~(sev < Min[chan])
    <3>1. sev >= Min[chan]
      BY <2>3, ConfigAssumption DEF MappingInv, TypeInv, TypeOK, DispatchOK
    <3>2. CASE NextChannel /\ queue' = [queue EXCEPT ![chan] = Append(@, ev)]
      BY <2>1, <3>1, <3>2, MapAccept
    <3>3. CASE dpc' = "evict" /\ UNCHANGED <<next, ev, sev, chan, queue>>
      <4>1. \A c \in Channels : Offering(c)' = Offering(c)
        BY <2>1, <3>3 DEF Offering, Dispatching
      <4> QED
        BY <2>1, <3>3, <4>1, MapStutter, OutstandingOwed
    <3> QED
      BY <1>2, <2>3, <3>2, <3>3 DEF Offer, TrySend
  <2> QED
    BY <2>2, <2>3
<1>3. CASE Evict
  BY <1>3, MapEvict DEF Delivery!Next, Delivery!Channels, Channels
<1>4. CASE Resend
  <2>1. Dispatching /\ UNCHANGED <<attempt, sent, shed, cancelled, job>>
    BY <1>4 DEF Resend, Dispatching, workerVars
  <2>2. sev >= Min[chan] /\ Len(queue[chan]) < QCap
    BY <1>4 DEF Resend, MappingInv, OfferDue, FreshestKept
  <2>3. NextChannel /\ queue' = [queue EXCEPT ![chan] = Append(@, ev)]
    BY <1>4, <2>2 DEF Resend, TrySend
  <2> QED
    BY <2>1, <2>2, <2>3, MapAccept
<1>5. CASE DispatcherStop
  <2>1. /\ ~Dispatching /\ ~Dispatching'
        /\ UNCHANGED <<next, queue, job, attempt, sent, shed, cancelled>>
    BY <1>5 DEF DispatcherStop, Dispatching, workerVars
  <2>2. \A c \in Channels : Offering(c)' = Offering(c)
    BY <2>1 DEF Offering
  <2> QED
    BY <2>1, <2>2, MapStutter, OutstandingOwed
<1> QED
  BY <1>1, <1>2, <1>3, <1>4, <1>5 DEF DispatcherStep

LEMMA MapWorker ==
  ASSUME MappingInv, NEW c \in Channels, Worker(c) \/ NoteIntervalPasses(c)
  PROVE  \/ UNCHANGED Delivery!vars
         \/ Delivery!Deliver(c) \/ Delivery!Fail(c) \/ Delivery!GiveUp(c)
<1> DEFINE todo == [d \in Channels |-> Outstanding(d)]
<1>1. UNCHANGED <<next, dpc, ev, sev, chan, shed, cancelled>>
  BY DEF Worker, Recv, SendOk, SendErr, Retry, GiveUp, Report, WorkerStop,
         NoteIntervalPasses, dispatchVars
<1>2. \A d \in Channels : Offering(d)' = Offering(d)
  BY <1>1 DEF Offering, Dispatching
<1>3. /\ queue[c] \in Seq(Nat) /\ job[c] \in Nat /\ Offering(c) \in Seq(Nat)
      /\ attempt[c] \in 0..Attempts
      /\ job[c] # 0 <=> wpc[c] \in {"send", "backoff"}
  BY Typed
<1>4. /\ DOMAIN queue = Channels /\ DOMAIN job = Channels /\ DOMAIN attempt = Channels
  BY DEF MappingInv, TypeInv, TypeOK, QueueOK, WorkerOK
<1>5. /\ wpc[c] = "send" => attempt[c] < Attempts
      /\ wpc[c] = "backoff" => attempt[c] > 0
  BY DEF MappingInv, TypeInv, AttemptInv
<1>6. todo[c] = Owed(job[c], queue[c], Offering(c))
  BY OutstandingOwed
<1>7. ASSUME job[c] # 0
      PROVE  /\ todo[c] # <<>> /\ Head(todo[c]) = job[c]
             /\ Tail(todo[c]) = Owed(0, queue[c], Offering(c))
  <2>1. job[c] \in Nat \ {0}
    BY <1>3, <1>7
  <2> DEFINE o == Owed(job[c], queue[c], Offering(c))
  <2>2. o # <<>> /\ Head(o) = job[c] /\ Tail(o) = Owed(0, queue[c], Offering(c))
    BY <1>3, <2>1, OwedWorked
  <2> HIDE DEF o
  <2>3. todo[c] = o
    BY <1>6 DEF o
  <2> QED
    BY <2>2, <2>3
<1>8. ASSUME UNCHANGED queue, job' = [job EXCEPT ![c] = 0], job[c] # 0
      PROVE  todo' = [todo EXCEPT ![c] = Tail(@)]
  <2>1. \A d \in Channels \ {c} : Outstanding(d)' = Outstanding(d)
    BY <1>2, <1>4, <1>8, OutstandingOwed
  <2>2. Outstanding(c)' = Owed(0, queue[c], Offering(c))
    BY <1>2, <1>4, <1>8, OutstandingOwed
  <2>3. todo' = [todo EXCEPT ![c] = Outstanding(c)']
    BY <2>1, MapOne
  <2> QED
    BY <1>7, <1>8, <2>2, <2>3
<1>9. CASE Recv(c)
  <2>1. /\ job[c] = 0 /\ queue[c] # <<>>
        /\ job' = [job EXCEPT ![c] = Head(queue[c])]
        /\ queue' = [queue EXCEPT ![c] = Tail(@)]
        /\ UNCHANGED <<attempt, sent>>
    BY <1>3, <1>9 DEF Recv
  <2>2. Head(queue[c]) # 0
    <3>1. InOrder(queue[c], 0, sent[c], Frontier(c))
      BY <2>1 DEF MappingInv, OrderInv
    <3>2. Frontier(c) \in Nat /\ sent[c] \in Seq(Nat)
      BY DEF MappingInv, TypeInv, TypeOK, DispatchOK, WorkerOK, Frontier
    <3> QED
      BY <1>3, <2>1, <3>1, <3>2, TakeInOrder
  <2>3. Owed(Head(queue[c]), Tail(queue[c]), Offering(c)) = Owed(0, queue[c], Offering(c))
    BY <1>3, <2>1, <2>2, OwedTaken
  <2>4. Outstanding(c)' = Outstanding(c)
    BY <1>2, <1>4, <2>1, <2>3, OutstandingOwed
  <2>5. \A d \in Channels \ {c} : Outstanding(d)' = Outstanding(d)
    BY <1>2, <1>4, <2>1, OutstandingOwed
  <2> QED
    BY <1>1, <2>1, <2>4, <2>5, MapStutter
<1>10. CASE SendOk(c)
  <2>1. /\ job[c] # 0 /\ attempt[c] < Attempts
        /\ sent' = [sent EXCEPT ![c] = Append(@, job[c])]
        /\ job' = [job EXCEPT ![c] = 0] /\ attempt' = [attempt EXCEPT ![c] = 0]
        /\ UNCHANGED queue
    BY <1>3, <1>5, <1>10 DEF SendOk
  <2>2. todo' = [todo EXCEPT ![c] = Tail(@)] /\ todo[c] # <<>> /\ Head(todo[c]) = job[c]
    BY <1>7, <1>8, <2>1
  <2>3. sent' = [sent EXCEPT ![c] = Append(@, Head(todo[c]))]
    BY <2>1, <2>2
  <2> QED
    BY <1>1, <2>1, <2>2, <2>3 DEF Delivery!Deliver
<1>11. CASE SendErr(c)
  <2>1. /\ job[c] # 0 /\ attempt[c] < Attempts
        /\ sent' = [sent EXCEPT ![c] = Append(@, job[c])] \/ sent' = sent
        /\ attempt' = [attempt EXCEPT ![c] = @ + 1]
        /\ UNCHANGED <<queue, job>>
    BY <1>3, <1>5, <1>11 DEF SendErr
  <2>2. todo' = todo
    BY <1>2, <2>1, OutstandingOwed
  <2>3. todo[c] # <<>> /\ Head(todo[c]) = job[c]
    BY <1>7, <2>1
  <2>4. \/ sent' = [sent EXCEPT ![c] = Append(@, Head(todo[c]))]
        \/ UNCHANGED sent
    BY <2>1, <2>3
  <2> QED
    BY <1>1, <2>1, <2>2, <2>3, <2>4 DEF Delivery!Fail
<1>12. CASE GiveUp(c)
  <2>1. /\ job[c] # 0 /\ attempt[c] > 0 /\ (attempt[c] = Attempts \/ cancelled)
        /\ job' = [job EXCEPT ![c] = 0] /\ attempt' = [attempt EXCEPT ![c] = 0]
        /\ UNCHANGED <<queue, sent>>
    BY <1>3, <1>5, <1>12 DEF GiveUp
  <2>2. todo' = [todo EXCEPT ![c] = Tail(@)] /\ todo[c] # <<>>
    BY <1>7, <1>8, <2>1
  <2> QED
    BY <1>1, <2>1, <2>2 DEF Delivery!GiveUp
<1>13. CASE Retry(c) \/ Report(c) \/ WorkerStop(c) \/ NoteIntervalPasses(c)
  <2>1. UNCHANGED <<queue, job, attempt, sent>>
    BY <1>13 DEF Retry, Report, WorkerStop, NoteIntervalPasses
  <2> QED
    BY <1>1, <1>2, <2>1, MapStutter, OutstandingOwed
<1> QED
  BY <1>9, <1>10, <1>11, <1>12, <1>13 DEF Worker

LEMMA MapStep == MappingInv /\ [Next]_vars => [Delivery!Next]_(Delivery!vars)
<1> SUFFICES ASSUME MappingInv, [Next]_vars PROVE [Delivery!Next]_(Delivery!vars)
  OBVIOUS
<1>1. CASE Cancel
  <2>1. /\ cancelled' = TRUE
        /\ UNCHANGED <<next, dpc, ev, sev, chan, queue, job, attempt, sent, shed>>
    BY <1>1 DEF Cancel, dispatchVars, workerVars
  <2>2. \A c \in Channels : Outstanding(c)' = Outstanding(c)
    BY <2>1 DEF Outstanding, Dispatching
  <2> QED
    BY <2>1, <2>2 DEF Delivery!Next, Delivery!Close
<1>2. CASE UNCHANGED vars
  <2>1. UNCHANGED <<next, dpc, ev, sev, chan, queue, job, attempt, sent, shed, cancelled>>
    BY <1>2 DEF vars
  <2>2. \A c \in Channels : Outstanding(c)' = Outstanding(c)
    BY <2>1 DEF Outstanding, Dispatching
  <2> QED
    BY <2>1, <2>2, MapStutter
<1>3. CASE \E c \in Channels : Worker(c) \/ NoteIntervalPasses(c)
  BY <1>3, MapWorker DEF Delivery!Next, Delivery!Channels, Channels
<1> QED
  BY <1>1, <1>2, <1>3, MapDispatcher DEF Next, Terminated

\* Dispatch, its three selects on each queue and the workers' retries implement
\* the atomic promise: an event dispatched is at once owed to every channel whose
\* minimum it reaches, is delivered in order, retried, given up after three
\* attempts or at shutdown, or shed as the oldest one waiting, with every shedding
\* counted (alert.go:77-98, :119-151).
THEOREM DeliveryImplemented == Spec => ImplementsDelivery
<1>1. Init => OfferDue
  BY DEF Init, OfferDue
<1>2. Init => FreshestKept
  BY DEF Init, FreshestKept
<1>3. Init => MappingInv
  BY <1>1, <1>2, InitTypeInv, InitOrderInv DEF MappingInv
<1>4. MappingInv /\ [Next]_vars => MappingInv'
  BY NextTypeInv, NextOrderInv, NextFreshestKept, NextOfferDue DEF MappingInv
<1> QED
  BY <1>3, <1>4, MapInit, MapStep, PTL DEF Spec, ImplementsDelivery, Delivery!Spec
=============================================================================
