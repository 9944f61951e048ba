---------------------------- MODULE Relay_proofs ----------------------------
(***************************************************************************)
(* Theorems about the relay for any number of request threads and events,  *)
(* any size of the queue and any number of attempts.                       *)
(***************************************************************************)
EXTENDS Relay, TLAPS

-----------------------------------------------------------------------------
(* The queue as a set. *)

\* Putting an event in the queue adds it, and nothing else.
LEMMA AppendedSet ==
  ASSUME NEW S, NEW q \in Seq(S), NEW e \in S
  PROVE  ToSet(Append(q, e)) = ToSet(q) \cup {e}
<1>1. ASSUME NEW x \in ToSet(Append(q, e)) PROVE x \in ToSet(q) \cup {e}
  <2>1. PICK i \in 1..(Len(q) + 1) : x = Append(q, e)[i]
    BY <1>1 DEF ToSet
  <2>2. CASE i = Len(q) + 1
    BY <2>1, <2>2
  <2>3. CASE i # Len(q) + 1
    BY <2>1, <2>3 DEF ToSet
  <2> QED
    BY <2>2, <2>3
<1>2. ASSUME NEW x \in ToSet(q) PROVE x \in ToSet(Append(q, e))
  <2>1. PICK i \in 1..Len(q) : x = q[i]
    BY <1>2 DEF ToSet
  <2>2. i \in DOMAIN Append(q, e) /\ Append(q, e)[i] = x
    BY <2>1
  <2> QED
    BY <2>2 DEF ToSet
<1>3. e \in ToSet(Append(q, e))
  <2>1. Len(q) + 1 \in DOMAIN Append(q, e) /\ Append(q, e)[Len(q) + 1] = e
    OBVIOUS
  <2> QED
    BY <2>1 DEF ToSet
<1> QED
  BY <1>1, <1>2, <1>3

\* Taking the oldest event leaves the others.
LEMMA TakenSet ==
  ASSUME NEW S, NEW q \in Seq(S), q # <<>>
  PROVE  /\ Head(q) \in S /\ Tail(q) \in Seq(S)
         /\ ToSet(q) = {Head(q)} \cup ToSet(Tail(q))
<1>1. Head(q) = q[1] /\ 1 \in DOMAIN q /\ Head(q) \in S /\ Tail(q) \in Seq(S)
  OBVIOUS
<1>2. ASSUME NEW x \in ToSet(q) PROVE x \in {Head(q)} \cup ToSet(Tail(q))
  <2>1. PICK i \in 1..Len(q) : x = q[i]
    BY <1>2 DEF ToSet
  <2>2. CASE i = 1
    BY <1>1, <2>1, <2>2
  <2>3. CASE i # 1
    <3>1. i - 1 \in DOMAIN Tail(q) /\ Tail(q)[i - 1] = x
      BY <2>1, <2>3
    <3> QED
      BY <3>1 DEF ToSet
  <2> QED
    BY <2>2, <2>3
<1>3. ASSUME NEW x \in ToSet(Tail(q)) PROVE x \in ToSet(q)
  <2>1. PICK i \in 1..(Len(q) - 1) : x = Tail(q)[i]
    BY <1>3 DEF ToSet
  <2>2. i + 1 \in DOMAIN q /\ q[i + 1] = x
    BY <2>1
  <2> QED
    BY <2>2 DEF ToSet
<1>4. Head(q) \in ToSet(q)
  BY <1>1 DEF ToSet
<1> QED
  BY <1>1, <1>2, <1>3, <1>4

\* Nothing is in an empty queue.
LEMMA EmptySet == ToSet(<<>>) = {}
  BY DEF ToSet

-----------------------------------------------------------------------------
(* The invariant. *)

RelayTypeInv ==
    /\ rlPc \in [Handlers -> {"free", "record", "put", "evict", "put again", "answer"}]
    /\ rlEv \in [Handlers -> RelayEvents \cup {NoEvent}]
    /\ \A h \in Handlers : rlPc[h] # "free" => rlEv[h] \in RelayEvents
    /\ rlQueue \in Seq(RelayEvents)
    /\ rlNow \in RelayEvents \cup {NoEvent}

\* A thread that is past record has logged its event.
ThreadLogged ==
    \A h \in Handlers :
        rlPc[h] \in {"put", "evict", "put again", "answer"} => rlEv[h] \in rlLog

\* Where an event is that is not mislaid.
Kept == ToSet(rlQueue) \cup ({rlNow} \ {NoEvent}) \cup rlSent \cup rlShed

\* What a thread is about to answer, and what was answered, is kept.
AnsweredKept ==
    /\ \A h \in Handlers : rlPc[h] = "answer" => rlEv[h] \in Kept
    /\ rlAcked \subseteq Kept

RelayInv == RelayTypeInv /\ ThreadLogged /\ RelayLoggedFirst /\ AnsweredKept

LEMMA RelayInitInv == RelayInit => RelayInv
<1> SUFFICES ASSUME RelayInit PROVE RelayInv
  OBVIOUS
<1> USE DEF RelayInit
<1>1. RelayTypeInv
  BY DEF RelayTypeInv
<1>2. ThreadLogged
  BY DEF ThreadLogged
<1>3. RelayLoggedFirst
  BY EmptySet DEF RelayLoggedFirst
<1>4. AnsweredKept
  BY DEF AnsweredKept
<1> QED
  BY <1>1, <1>2, <1>3, <1>4 DEF RelayInv

\* A step of the post that ends the event's forwarding, one way or the other.
LEMMA DoneInv ==
  ASSUME RelayInv, rlNow # NoEvent, RelayDone,
         UNCHANGED <<rlPc, rlEv, rlSends, rlAcked, rlLog, rlQueue, rlShed>>
  PROVE  RelayInv'
<1> USE DEF RelayInv, RelayDone
<1>1. RelayTypeInv'
  BY DEF RelayTypeInv
<1>2. ThreadLogged'
  BY DEF ThreadLogged
<1>3. RelayLoggedFirst'
  BY DEF RelayLoggedFirst, RelayTypeInv
<1>4. Kept \subseteq Kept'
  BY DEF Kept, RelayTypeInv
<1>5. AnsweredKept'
  BY <1>4 DEF AnsweredKept
<1> QED
  BY <1>1, <1>2, <1>3, <1>5

\* The queue with an event more.
LEMMA Queued ==
  ASSUME RelayTypeInv, NEW e \in RelayEvents
  PROVE  /\ Append(rlQueue, e) \in Seq(RelayEvents)
         /\ ToSet(Append(rlQueue, e)) = ToSet(rlQueue) \cup {e}
<1>1. rlQueue \in Seq(RelayEvents)
  BY DEF RelayTypeInv
<1>2. Append(rlQueue, e) \in Seq(RelayEvents)
  BY <1>1
<1> QED
  BY <1>1, <1>2, AppendedSet

\* The steps of a request's thread.
LEMMA HandlerInv ==
  ASSUME RelayInv, NEW h \in Handlers, RelayHandler(h)
  PROVE  RelayInv'
<1> USE DEF RelayInv
<1>e. rlPc[h] # "free" => rlEv[h] \in RelayEvents
  BY DEF RelayTypeInv
<1>1. CASE RelayRecord(h)
  <2> USE <1>1 DEF RelayRecord
  <2>1. RelayTypeInv'
    BY DEF RelayTypeInv
  <2>2. ThreadLogged'
    BY DEF ThreadLogged, RelayTypeInv
  <2>3. RelayLoggedFirst'
    BY DEF RelayLoggedFirst
  <2>4. Kept' = Kept
    BY DEF Kept
  <2>5. AnsweredKept'
    BY <2>4 DEF AnsweredKept, RelayTypeInv
  <2> QED
    BY <2>1, <2>2, <2>3, <2>5
<1>2. CASE RelayPut(h) /\ Len(rlQueue) < QueueSize
  <2> USE <1>2 DEF RelayPut
  <2>1. rlQueue' = Append(rlQueue, rlEv[h]) /\ rlPc' = [rlPc EXCEPT ![h] = "answer"]
    OBVIOUS
  <2>2. rlEv[h] \in RelayEvents /\ rlEv[h] \in rlLog
    BY <1>e DEF ThreadLogged
  <2>3. /\ rlQueue' \in Seq(RelayEvents)
        /\ ToSet(rlQueue') = ToSet(rlQueue) \cup {rlEv[h]}
    BY <2>1, <2>2, Queued
  <2>4. RelayTypeInv'
    BY <2>1, <2>2, <2>3 DEF RelayTypeInv
  <2>5. ThreadLogged'
    BY <2>1, <2>2 DEF ThreadLogged, RelayTypeInv
  <2>6. RelayLoggedFirst'
    BY <2>2, <2>3 DEF RelayLoggedFirst
  <2>7. Kept' = Kept \cup {rlEv[h]}
    BY <2>3 DEF Kept
  <2>8. AnsweredKept'
    BY <2>1, <2>7 DEF AnsweredKept, RelayTypeInv
  <2> QED
    BY <2>4, <2>5, <2>6, <2>8
<1>3. CASE RelayPut(h) /\ ~(Len(rlQueue) < QueueSize)
  <2> USE <1>3 DEF RelayPut
  <2>1. rlPc' = [rlPc EXCEPT ![h] = "evict"] /\ UNCHANGED rlQueue
    OBVIOUS
  <2>2. RelayTypeInv'
    BY <2>1 DEF RelayTypeInv
  <2>3. ThreadLogged'
    BY <2>1 DEF ThreadLogged, RelayTypeInv
  <2>4. RelayLoggedFirst'
    BY <2>1 DEF RelayLoggedFirst
  <2>5. Kept' = Kept
    BY <2>1 DEF Kept
  <2>6. AnsweredKept'
    BY <2>1, <2>5 DEF AnsweredKept, RelayTypeInv
  <2> QED
    BY <2>2, <2>3, <2>4, <2>6
<1>4. CASE RelayEvict(h) /\ rlQueue = <<>>
  <2> USE <1>4 DEF RelayEvict
  <2>1. /\ rlPc' = [rlPc EXCEPT ![h] = "answer"]
        /\ rlShed' = rlShed \cup {rlEv[h]} /\ UNCHANGED rlQueue
    OBVIOUS
  <2>2. RelayTypeInv'
    BY <2>1 DEF RelayTypeInv
  <2>3. ThreadLogged'
    BY <2>1 DEF ThreadLogged, RelayTypeInv
  <2>4. rlEv[h] \in rlLog
    BY DEF ThreadLogged
  <2>5. RelayLoggedFirst'
    BY <2>1, <2>4 DEF RelayLoggedFirst
  <2>6. Kept' = Kept \cup {rlEv[h]}
    BY <2>1 DEF Kept
  <2>7. AnsweredKept'
    BY <2>1, <2>6 DEF AnsweredKept, RelayTypeInv
  <2> QED
    BY <2>2, <2>3, <2>5, <2>7
<1>5. CASE RelayEvict(h) /\ rlQueue # <<>>
  <2> USE <1>5 DEF RelayEvict
  <2>1. /\ rlPc' = [rlPc EXCEPT ![h] = "put again"]
        /\ rlQueue' = Tail(rlQueue) /\ rlShed' = rlShed \cup {Head(rlQueue)}
    OBVIOUS
  <2>2. /\ Tail(rlQueue) \in Seq(RelayEvents)
        /\ ToSet(rlQueue) = {Head(rlQueue)} \cup ToSet(rlQueue')
    BY <2>1, TakenSet DEF RelayTypeInv
  <2>3. RelayTypeInv'
    BY <2>1, <2>2 DEF RelayTypeInv
  <2>4. ThreadLogged'
    BY <2>1 DEF ThreadLogged, RelayTypeInv
  <2>5. RelayLoggedFirst'
    BY <2>1, <2>2 DEF RelayLoggedFirst
  <2>6. Kept' = Kept
    BY <2>1, <2>2 DEF Kept
  <2>7. AnsweredKept'
    BY <2>1, <2>6 DEF AnsweredKept, RelayTypeInv
  <2> QED
    BY <2>3, <2>4, <2>5, <2>7
<1>6. CASE RelayPutAgain(h) /\ Len(rlQueue) < QueueSize
  <2> USE <1>6 DEF RelayPutAgain
  <2>1. /\ rlQueue' = Append(rlQueue, rlEv[h]) /\ rlPc' = [rlPc EXCEPT ![h] = "answer"]
        /\ UNCHANGED rlEv
    OBVIOUS
  <2>2. rlEv[h] \in RelayEvents /\ rlEv[h] \in rlLog
    BY <1>e DEF ThreadLogged
  <2>3. /\ rlQueue' \in Seq(RelayEvents)
        /\ ToSet(rlQueue') = ToSet(rlQueue) \cup {rlEv[h]}
    BY <2>1, <2>2, Queued
  <2>4. RelayTypeInv'
    BY <2>1, <2>2, <2>3 DEF RelayTypeInv
  <2>5. ThreadLogged'
    BY <2>1, <2>2 DEF ThreadLogged, RelayTypeInv
  <2>6. RelayLoggedFirst'
    BY <2>2, <2>3 DEF RelayLoggedFirst
  <2>7. Kept' = Kept \cup {rlEv[h]}
    BY <2>3 DEF Kept
  <2>8. AnsweredKept'
    BY <2>1, <2>7 DEF AnsweredKept, RelayTypeInv
  <2> QED
    BY <2>4, <2>5, <2>6, <2>8
<1>7. CASE RelayPutAgain(h) /\ ~(Len(rlQueue) < QueueSize)
  <2> USE <1>7 DEF RelayPutAgain
  <2>1. /\ rlPc' = [rlPc EXCEPT ![h] = "free"] /\ rlEv' = [rlEv EXCEPT ![h] = NoEvent]
        /\ UNCHANGED rlQueue
    OBVIOUS
  <2>2. RelayTypeInv'
    BY <2>1 DEF RelayTypeInv
  <2>3. ThreadLogged'
    BY <2>1 DEF ThreadLogged, RelayTypeInv
  <2>4. RelayLoggedFirst'
    BY <2>1 DEF RelayLoggedFirst
  <2>5. Kept' = Kept
    BY <2>1 DEF Kept
  <2>6. AnsweredKept'
    BY <2>1, <2>5 DEF AnsweredKept, RelayTypeInv
  <2> QED
    BY <2>2, <2>3, <2>4, <2>6
<1>8. CASE RelayAnswer(h)
  <2> USE <1>8 DEF RelayAnswer
  <2>1. RelayTypeInv'
    BY DEF RelayTypeInv
  <2>2. ThreadLogged'
    BY DEF ThreadLogged, RelayTypeInv
  <2>3. rlEv[h] \in rlLog /\ rlEv[h] \in Kept
    BY DEF ThreadLogged, AnsweredKept
  <2>4. RelayLoggedFirst'
    BY <2>3 DEF RelayLoggedFirst
  <2>5. Kept' = Kept
    BY DEF Kept
  <2>6. AnsweredKept'
    BY <2>3, <2>5 DEF AnsweredKept, RelayTypeInv
  <2> QED
    BY <2>1, <2>2, <2>4, <2>6
<1> QED
  BY <1>1, <1>2, <1>3, <1>4, <1>5, <1>6, <1>7, <1>8 DEF RelayHandler

\* Every step keeps the invariant.
LEMMA RelayStepInv == RelayInv /\ [RelayNext]_relayVars => RelayInv'
<1> SUFFICES ASSUME RelayInv, [RelayNext]_relayVars PROVE RelayInv'
  OBVIOUS
<1> USE DEF RelayInv
<1>1. ASSUME NEW h \in Handlers, RelayHandler(h) PROVE RelayInv'
  BY <1>1, HandlerInv
<1>2. ASSUME NEW h \in Handlers, NEW e \in RelayEvents, RelayRequest(h, e) PROVE RelayInv'
  <2> USE <1>2 DEF RelayRequest
  <2>1. RelayTypeInv'
    BY DEF RelayTypeInv
  <2>2. ThreadLogged'
    BY DEF ThreadLogged, RelayTypeInv
  <2>3. RelayLoggedFirst'
    BY DEF RelayLoggedFirst
  <2>4. Kept' = Kept
    BY DEF Kept
  <2>5. AnsweredKept'
    BY <2>4 DEF AnsweredKept, RelayTypeInv
  <2> QED
    BY <2>1, <2>2, <2>3, <2>5
<1>3. CASE RelayTake
  <2> USE <1>3 DEF RelayTake
  <2>1. /\ Head(rlQueue) \in RelayEvents /\ Tail(rlQueue) \in Seq(RelayEvents)
        /\ ToSet(rlQueue) = {Head(rlQueue)} \cup ToSet(rlQueue')
    BY TakenSet DEF RelayTypeInv
  <2>2. Head(rlQueue) # NoEvent
    BY <2>1, RelayAssumption
  <2>3. RelayTypeInv'
    BY <2>1 DEF RelayTypeInv
  <2>4. ThreadLogged'
    BY DEF ThreadLogged
  <2>5. RelayLoggedFirst'
    BY <2>1, <2>2 DEF RelayLoggedFirst
  <2>6. Kept' = Kept
    BY <2>1, <2>2 DEF Kept
  <2>7. AnsweredKept'
    BY <2>6 DEF AnsweredKept
  <2> QED
    BY <2>3, <2>4, <2>5, <2>7
<1>4. CASE RelayPostDone
  BY <1>4, DoneInv DEF RelayPostDone
<1>5. CASE RelayPostFails
  <2>1. CASE rlTries + 1 = Attempts
    BY <1>5, <2>1, DoneInv DEF RelayPostFails
  <2>2. CASE rlTries + 1 # Attempts
    <3>1. UNCHANGED <<rlPc, rlEv, rlAcked, rlLog, rlQueue, rlNow, rlSent, rlShed>>
      BY <1>5, <2>2 DEF RelayPostFails
    <3> QED
      BY <3>1 DEF RelayTypeInv, ThreadLogged, RelayLoggedFirst, AnsweredKept, Kept
  <2> QED
    BY <2>1, <2>2
<1>6. CASE UNCHANGED relayVars
  BY <1>6 DEF relayVars, RelayTypeInv, ThreadLogged, RelayLoggedFirst, AnsweredKept, Kept
<1> QED
  BY <1>1, <1>2, <1>3, <1>4, <1>5, <1>6 DEF RelayNext, RelayForwarder, RelayIdle

LEMMA RelayAlwaysInv == RelaySpec => []RelayInv
  BY RelayInitInv, RelayStepInv, PTL DEF RelaySpec

\* "Log on receipt, before forwarding" (discord_relay.py:121): whatever is
\* queued, posted, shed or answered is in the log, however many threads race
\* for a full queue.
THEOREM RelayLogs == RelaySpec => []RelayLoggedFirst
<1>1. RelayInv => RelayLoggedFirst
  BY DEF RelayInv
<1> QED
  BY <1>1, RelayAlwaysInv, PTL

\* An event elmer got its 204 for is in the queue, being posted, done, or was
\* evicted from a full queue: enqueue and forward_loop (discord_relay.py:130-164)
\* mislay none.
THEOREM RelayKeepsAnswered == RelaySpec => [](rlAcked \subseteq Kept)
<1>1. RelayInv => rlAcked \subseteq Kept
  BY DEF RelayInv, AnsweredKept
<1> QED
  BY <1>1, RelayAlwaysInv, PTL
=============================================================================
