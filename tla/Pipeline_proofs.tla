--------------------------- MODULE Pipeline_proofs ---------------------------
(***************************************************************************)
(* Proofs about Pipeline: the properties that the run Pipeline checks on   *)
(* two monitors hold for any monitors, rules and bounds.  The theorems     *)
(* about the deduplication and the bounds assume nothing of what an event  *)
(* contains; that findings are exact does (PlainEvents and its neighbours).*)
(***************************************************************************)
EXTENDS Pipeline, FiniteSetTheorems, FunctionTheorems, WellFoundedInduction, TLAPS

IsSequence(s) == \E S : s \in Seq(S)

\* What was logged, when, and the bounds of the clock.
Logged ==
    /\ now \in Nat
    /\ IsSequence(log)
    /\ \A i \in DOMAIN log : /\ log[i].at \in Nat /\ log[i].at <= now
                             /\ log[i].muted \in BOOLEAN

\* The keys dispatched so far.
KeysSoFar == KeysBefore(Len(log) + 1)

\* More keys have been dispatched than the map holds.
Overfull == Cardinality(KeysSoFar) > MapCap

\* Every time in the map is that of an alert of its key ...
LastSound ==
    \A k \in DOMAIN last :
        /\ k # NoKey
        /\ \E i \in DOMAIN log :
               Dispatched(i) /\ log[i].key = k /\ log[i].at = last[k]

\* ... and unless the map was pruned it is the latest.
LastComplete ==
    \A i \in DOMAIN log :
        Dispatched(i) /\ log[i].key # NoKey =>
            \/ log[i].key \in DOMAIN last /\ log[i].at <= last[log[i].key]
            \/ Overfull

\* The map is never larger than it may be.
LastBounded == IsFiniteSet(DOMAIN last) /\ Cardinality(DOMAIN last) <= MapCap

\* The inductive invariant.
DedupeInv ==
    /\ Logged /\ LastSound /\ LastComplete /\ LastBounded
    /\ MutedAfterAlert /\ RepeatsSpaced

-----------------------------------------------------------------------------
(* The log *)

\* The constants the proofs use.
LEMMA Parameters == Cooldown \in Nat \ {0} /\ MapCap \in Nat \ {0} /\ Window \in Nat \ {0}
BY EventsAssumption

\* A sequence has a length, and positions up to it.
LEMMA Positions ==
    ASSUME NEW s, IsSequence(s)
    PROVE  Len(s) \in Nat /\ DOMAIN s = 1..Len(s)
BY DEF IsSequence

\* The empty sequence is one.
LEMMA NoneYet == IsSequence(<<>>) /\ Len(<<>>) = 0 /\ DOMAIN <<>> = {}
<1>1. <<>> \in Seq({})
  OBVIOUS
<1>2. QED
  BY <1>1 DEF IsSequence

\* Appending keeps what is there.
LEMMA Lengthened ==
    ASSUME NEW s, IsSequence(s), NEW x
    PROVE  /\ IsSequence(Append(s, x))
           /\ Len(Append(s, x)) = Len(s) + 1
           /\ \A i \in 1..Len(s) : Append(s, x)[i] = s[i]
           /\ Append(s, x)[Len(s) + 1] = x
<1>1. PICK S : s \in Seq(S)
  BY DEF IsSequence
<1>2. s \in Seq(S \cup {x}) /\ x \in S \cup {x}
  BY <1>1
<1>3. Append(s, x) \in Seq(S \cup {x})
  BY <1>2
<1>4. QED
  BY <1>2, <1>3 DEF IsSequence

\* Taking the head off leaves the rest.
LEMMA Shortened ==
    ASSUME NEW s, IsSequence(s), s # <<>>
    PROVE  /\ IsSequence(Tail(s))
           /\ Len(s) >= 1 /\ Len(Tail(s)) = Len(s) - 1
           /\ \A i \in 1..(Len(s) - 1) : Tail(s)[i] = s[i + 1]
           /\ Head(s) = s[1]
<1>1. PICK S : s \in Seq(S)
  BY DEF IsSequence
<1>2. Tail(s) \in Seq(S)
  BY <1>1
<1>3. QED
  BY <1>1, <1>2 DEF IsSequence

\* There are as many keys as entries at most, so they are finitely many.
LEMMA KeysFinite ==
    ASSUME NEW j \in Nat
    PROVE  IsFiniteSet(KeysBefore(j))
<1> DEFINE I == {i \in 1..(j - 1) : Dispatched(i)}
           K == {log[i].key : i \in I}
           f == [i \in I |-> log[i].key]
<1>1. IsFiniteSet(I)
  <2>1. IsFiniteSet(1..(j - 1)) /\ I \in SUBSET (1..(j - 1))
    BY FS_Interval
  <2>2. QED
    BY <2>1, FS_Subset
<1>2. f \in Surjection(I, K)
  BY DEF Surjection
<1>3. IsFiniteSet(K)
  BY <1>1, <1>2, FS_Surjection
<1>4. KeysBefore(j) = K \ {NoKey}
  BY DEF KeysBefore
<1>5. QED
  BY <1>3, <1>4, FS_Subset

\* The log as it is after one more entry x.
LEMMA OneMore ==
    ASSUME Logged, NEW x, log' = Append(log, x)
    PROVE  /\ IsSequence(log')
           /\ Len(log) \in Nat /\ Len(log') = Len(log) + 1
           /\ DOMAIN log = 1..Len(log) /\ DOMAIN log' = 1..(Len(log) + 1)
           /\ \A i \in 1..Len(log) : log'[i] = log[i] /\ (Dispatched(i)' <=> Dispatched(i))
           /\ log'[Len(log) + 1] = x
           /\ \A n : n = Len(log) + 1 => (Dispatched(n)' <=> ~x.muted)
<1>1. IsSequence(log) /\ IsSequence(log')
  BY Lengthened DEF Logged
<1>2. Len(log) \in Nat /\ Len(log') = Len(log) + 1
  BY <1>1, Lengthened, Positions
<1>3. DOMAIN log = 1..Len(log) /\ DOMAIN log' = 1..(Len(log) + 1)
  BY <1>1, <1>2, Positions
<1>4. /\ \A i \in 1..Len(log) : log'[i] = log[i]
      /\ log'[Len(log) + 1] = x
  BY <1>1, Lengthened
<1>5. \A i \in 1..Len(log) : Dispatched(i)' <=> Dispatched(i)
  BY <1>2, <1>3, <1>4 DEF Dispatched
<1>6. \A n : n = Len(log) + 1 => (Dispatched(n)' <=> ~x.muted)
  BY <1>2, <1>3, <1>4 DEF Dispatched
<1>7. QED
  BY <1>1, <1>2, <1>3, <1>4, <1>5, <1>6

\* The keys dispatched before an entry stay what they were.
LEMMA KeysKept ==
    ASSUME Logged, NEW x, log' = Append(log, x), NEW j \in 1..(Len(log) + 1)
    PROVE  KeysBefore(j)' = KeysBefore(j)
<1>1. Len(log) \in Nat
  BY OneMore
<1>2. \A i \in 1..(j - 1) : log'[i] = log[i] /\ (Dispatched(i)' <=> Dispatched(i))
  BY <1>1, OneMore
<1>3. QED
  BY <1>2 DEF KeysBefore

\* A further entry adds its key, and only if it is dispatched.
LEMMA KeysSoFarGrow ==
    ASSUME Logged, NEW x, log' = Append(log, x)
    PROVE  /\ KeysSoFar \subseteq KeysSoFar' /\ KeysSoFar' \subseteq KeysSoFar \cup {x.key}
           /\ ~x.muted /\ x.key # NoKey => x.key \in KeysSoFar'
<1>1. Len(log) \in Nat /\ Len(log') = Len(log) + 1
  BY OneMore
<1>2. \A i \in 1..Len(log) : log'[i] = log[i] /\ (Dispatched(i)' <=> Dispatched(i))
  BY OneMore
<1>3. KeysSoFar' = {log'[i].key : i \in {i \in 1..(Len(log) + 1) : Dispatched(i)'}} \ {NoKey}
  BY <1>1 DEF KeysSoFar, KeysBefore
<1>4. KeysSoFar = {log[i].key : i \in {i \in 1..Len(log) : Dispatched(i)}} \ {NoKey}
  BY <1>1 DEF KeysSoFar, KeysBefore
<1>5. \A i \in 1..Len(log) : i \in 1..(Len(log) + 1)
  BY <1>1
<1>6. KeysSoFar \subseteq KeysSoFar'
  BY <1>2, <1>3, <1>4, <1>5
<1>7. PICK n : n = Len(log) + 1
  OBVIOUS
<1>8. log'[n] = x /\ (Dispatched(n)' <=> ~x.muted)
  BY <1>7, OneMore
<1>9. ASSUME ~x.muted, x.key # NoKey
      PROVE  x.key \in KeysSoFar'
  <2>1. n \in {i \in 1..(Len(log) + 1) : Dispatched(i)'}
    BY <1>1, <1>7, <1>8, <1>9
  <2>2. QED
    BY <1>3, <1>8, <1>9, <2>1
<1>10. KeysSoFar' \subseteq KeysSoFar \cup {x.key}
  <2>1. \A i \in 1..(Len(log) + 1) : i \in 1..Len(log) \/ i = n
    BY <1>1, <1>7
  <2>2. QED
    BY <1>2, <1>3, <1>4, <1>8, <2>1
<1>11. QED
  BY <1>6, <1>9, <1>10

\* A finite set that contains one too large for the map is too large.
LEMMA LargerSet ==
    ASSUME NEW S, NEW T, S \subseteq T, IsFiniteSet(T), Cardinality(S) > MapCap
    PROVE  Cardinality(T) > MapCap
<1>1. IsFiniteSet(S) /\ Cardinality(S) <= Cardinality(T)
  BY FS_Subset
<1>2. Cardinality(S) \in Nat /\ Cardinality(T) \in Nat
  BY <1>1, FS_CardinalityType
<1>3. QED
  BY <1>1, <1>2, Parameters

\* Once the map was too small it remains so.
LEMMA OverfullStays ==
    ASSUME Logged, NEW x, log' = Append(log, x)
    PROVE  /\ Overfull => Overfull'
           /\ \A S : S \subseteq KeysSoFar' /\ Cardinality(S) > MapCap => Overfull'
<1>1. IsFiniteSet(KeysSoFar)
  <2>1. Len(log) + 1 \in Nat
    BY OneMore
  <2>2. QED
    BY <2>1, KeysFinite DEF KeysSoFar
<1>2. IsFiniteSet(KeysSoFar \cup {x.key})
  BY <1>1, FS_AddElement
<1>3. KeysSoFar \subseteq KeysSoFar' /\ KeysSoFar' \subseteq KeysSoFar \cup {x.key}
  BY KeysSoFarGrow
<1>4. IsFiniteSet(KeysSoFar')
  BY <1>2, <1>3, FS_Subset
<1>5. QED
  BY <1>3, <1>4, LargerSet DEF Overfull

-----------------------------------------------------------------------------
(* One event handled *)

\* What the log's entry says of when and whether it was dispatched.
LEMMA EntryOf ==
    ASSUME NEW e, NEW muted
    PROVE  /\ Entry(e, muted).at = now /\ Entry(e, muted).key = e.key
           /\ Entry(e, muted).muted = muted
BY DEF Entry

\* What the map keeps, and when it is pruned.
LEMMA Remembered ==
    ASSUME NEW key, key # NoKey
    PROVE  \/ /\ DOMAIN Remember(last, key, now) = DOMAIN last \cup {key}
              /\ \A k \in DOMAIN last : k # key => Remember(last, key, now)[k] = last[k]
              /\ Remember(last, key, now)[key] = now
              /\ ~(Cardinality(DOMAIN last \cup {key}) > MapCap)
           \/ /\ DOMAIN Remember(last, key, now) = {key}
              /\ Remember(last, key, now)[key] = now
              /\ Cardinality(DOMAIN last \cup {key}) > MapCap
<1> DEFINE D == DOMAIN last \cup {key}
           more == [k \in D |-> IF k = key THEN now ELSE last[k]]
<1>1. DOMAIN more = D
  OBVIOUS
<1>2. CASE Cardinality(D) > MapCap
  <2>1. Remember(last, key, now) = [k \in {key} |-> now]
    BY <1>1, <1>2 DEF Remember
  <2>2. QED
    BY <1>2, <2>1
<1>3. CASE ~(Cardinality(D) > MapCap)
  <2>1. Remember(last, key, now) = more
    BY <1>1, <1>3 DEF Remember
  <2>2. QED
    BY <1>3, <2>1
<1>4. QED
  BY <1>2, <1>3

LEMMA LoggedMore ==
    ASSUME Logged, NEW x, log' = Append(log, x), now' = now,
           x.at = now, x.muted \in BOOLEAN
    PROVE  Logged'
<1>1. /\ IsSequence(log') /\ Len(log) \in Nat
      /\ DOMAIN log = 1..Len(log) /\ DOMAIN log' = 1..(Len(log) + 1)
      /\ \A i \in 1..Len(log) : log'[i] = log[i]
      /\ log'[Len(log) + 1] = x
  BY OneMore
<1>2. \A i \in DOMAIN log' : i \in DOMAIN log \/ i = Len(log) + 1
  BY <1>1
<1>3. \A i \in DOMAIN log' : /\ log'[i].at \in Nat /\ log'[i].at <= now'
                             /\ log'[i].muted \in BOOLEAN
  BY <1>1, <1>2 DEF Logged
<1>4. QED
  BY <1>1, <1>3 DEF Logged

\* Logging a suppressed event leaves the map as sound and as complete as it was.
LEMMA MutedStep ==
    ASSUME DedupeInv, NEW x, log' = Append(log, x), x.muted = TRUE, x.at = now,
           UNCHANGED <<now, last>>, Suppressed(last, x.key, now)
    PROVE  DedupeInv'
<1>1. /\ Len(log) \in Nat
      /\ DOMAIN log = 1..Len(log) /\ DOMAIN log' = 1..(Len(log) + 1)
      /\ \A i \in 1..Len(log) : log'[i] = log[i] /\ (Dispatched(i)' <=> Dispatched(i))
      /\ log'[Len(log) + 1] = x
  BY OneMore DEF DedupeInv
<1>2. PICK n : n = Len(log) + 1
  OBVIOUS
<1>3. ~Dispatched(n)' /\ log'[n] = x
  BY <1>2, OneMore DEF DedupeInv
<1>4. \A i \in DOMAIN log' : i \in DOMAIN log \/ i = n
  BY <1>1, <1>2
<1>5. \A i \in DOMAIN log : /\ i \in DOMAIN log' /\ i < n /\ log'[i] = log[i]
                           /\ (Dispatched(i)' <=> Dispatched(i))
  BY <1>1, <1>2
<1>6. Logged'
  BY LoggedMore DEF DedupeInv
<1>7. LastSound'
  BY <1>5 DEF LastSound, DedupeInv
<1>8. Overfull => Overfull'
  BY OverfullStays DEF DedupeInv
<1>9. LastComplete'
  BY <1>3, <1>4, <1>5, <1>8 DEF LastComplete, DedupeInv
<1>10. MutedAfterAlert'
  <2> SUFFICES ASSUME NEW j \in DOMAIN log', log'[j].muted
               PROVE  \E i \in 1..(j - 1) :
                          /\ Dispatched(i)' /\ log'[i].key = log'[j].key
                          /\ log'[j].at - log'[i].at < Cooldown
    BY DEF MutedAfterAlert
  <2>1. CASE j \in DOMAIN log
    <3>1. PICK i \in 1..(j - 1) : /\ Dispatched(i) /\ log[i].key = log[j].key
                                  /\ log[j].at - log[i].at < Cooldown
      BY <2>1, <1>5 DEF DedupeInv, MutedAfterAlert
    <3>2. i \in DOMAIN log
      BY <3>1 DEF Dispatched
    <3>3. QED
      BY <2>1, <3>1, <3>2, <1>5
  <2>2. CASE j = n
    <3>1. x.key # NoKey /\ x.key \in DOMAIN last /\ now - last[x.key] < Cooldown
      BY DEF Suppressed
    <3>2. PICK i \in DOMAIN log : /\ Dispatched(i) /\ log[i].key = x.key
                                  /\ log[i].at = last[x.key]
      BY <3>1 DEF DedupeInv, LastSound
    <3>3. i \in 1..(n - 1)
      BY <1>1, <1>2
    <3>4. QED
      BY <2>2, <3>1, <3>2, <3>3, <1>3, <1>5
  <2>3. QED
    BY <1>4, <2>1, <2>2
<1>11. RepeatsSpaced'
  <2> SUFFICES ASSUME NEW i \in DOMAIN log', NEW j \in DOMAIN log', i < j,
                      Dispatched(i)', Dispatched(j)',
                      log'[i].key = log'[j].key, log'[i].key # NoKey,
                      log'[j].at - log'[i].at < Cooldown
               PROVE  Cardinality(KeysBefore(j)') > MapCap
    BY DEF RepeatsSpaced
  <2>1. i \in DOMAIN log /\ j \in DOMAIN log
    BY <1>3, <1>4
  <2>2. KeysBefore(j)' = KeysBefore(j)
    BY <1>1, <2>1, KeysKept DEF DedupeInv
  <2>3. QED
    BY <1>5, <2>1, <2>2 DEF DedupeInv, RepeatsSpaced
<1>12. LastBounded'
  BY DEF DedupeInv, LastBounded
<1>13. QED
  BY <1>6, <1>7, <1>9, <1>10, <1>11, <1>12 DEF DedupeInv

\* Dispatching an event records its time, or forgets all but its key when more
\* keys than the map holds have been dispatched.
LEMMA DispatchedStep ==
    ASSUME DedupeInv, NEW x, log' = Append(log, x), x.muted = FALSE, x.at = now,
           now' = now, last' = Remember(last, x.key, now),
           ~Suppressed(last, x.key, now)
    PROVE  DedupeInv'
<1>1. /\ Len(log) \in Nat
      /\ DOMAIN log = 1..Len(log) /\ DOMAIN log' = 1..(Len(log) + 1)
      /\ \A i \in 1..Len(log) : log'[i] = log[i] /\ (Dispatched(i)' <=> Dispatched(i))
      /\ log'[Len(log) + 1] = x
  BY OneMore DEF DedupeInv
<1>2. PICK n : n = Len(log) + 1
  OBVIOUS
<1>3. Dispatched(n)' /\ log'[n] = x /\ n \in DOMAIN log'
  BY <1>1, <1>2, OneMore DEF DedupeInv
<1>4. \A i \in DOMAIN log' : i \in DOMAIN log \/ i = n
  BY <1>1, <1>2
<1>5. \A i \in DOMAIN log : /\ i \in DOMAIN log' /\ i < n /\ log'[i] = log[i]
                           /\ (Dispatched(i)' <=> Dispatched(i))
  BY <1>1, <1>2
<1>6. Logged'
  BY LoggedMore DEF DedupeInv
<1>7. \A i \in DOMAIN log : log[i].at \in Nat /\ log[i].at <= now
  BY DEF DedupeInv, Logged
<1>8. Overfull => Overfull'
  BY OverfullStays DEF DedupeInv
<1>9. x.key # NoKey =>
        \/ /\ DOMAIN last' = DOMAIN last \cup {x.key}
           /\ \A k \in DOMAIN last : k # x.key => last'[k] = last[k]
           /\ last'[x.key] = now
           /\ ~(Cardinality(DOMAIN last \cup {x.key}) > MapCap)
        \/ /\ DOMAIN last' = {x.key}
           /\ last'[x.key] = now
           /\ Cardinality(DOMAIN last \cup {x.key}) > MapCap
  BY Remembered
<1>10. x.key = NoKey => last' = last
  BY DEF Remember
<1>11. LastSound'
  <2> SUFFICES ASSUME NEW k \in DOMAIN last'
               PROVE  /\ k # NoKey
                      /\ \E i \in DOMAIN log' : /\ Dispatched(i)' /\ log'[i].key = k
                                                /\ log'[i].at = last'[k]
    BY DEF LastSound
  <2>1. CASE k = x.key /\ x.key # NoKey
    BY <1>3, <1>9, <2>1
  <2>2. CASE k # x.key \/ x.key = NoKey
    <3>1. k \in DOMAIN last /\ last'[k] = last[k]
      BY <1>9, <1>10, <2>2
    <3>2. QED
      BY <3>1, <1>5 DEF LastSound, DedupeInv
  <2>3. QED
    BY <2>1, <2>2
<1>12. DOMAIN last \cup {x.key} \subseteq KeysSoFar' \/ x.key = NoKey
  <2>1. DOMAIN last \subseteq KeysSoFar
    <3>1. KeysSoFar = {log[i].key : i \in {i \in 1..Len(log) : Dispatched(i)}} \ {NoKey}
      BY <1>1 DEF KeysSoFar, KeysBefore
    <3>2. QED
      BY <1>1, <3>1 DEF LastSound, DedupeInv
  <2>2. QED
    BY <2>1, KeysSoFarGrow DEF DedupeInv
<1>13. LastComplete'
  <2> SUFFICES ASSUME NEW i \in DOMAIN log', Dispatched(i)', log'[i].key # NoKey, ~Overfull'
               PROVE  /\ log'[i].key \in DOMAIN last'
                      /\ log'[i].at <= last'[log'[i].key]
    BY DEF LastComplete
  <2>1. CASE x.key = NoKey
    BY <1>3, <1>4, <1>5, <1>8, <1>10, <2>1 DEF LastComplete, DedupeInv
  <2>2. CASE x.key # NoKey
    <3>1. ~(Cardinality(DOMAIN last \cup {x.key}) > MapCap)
      BY <1>12, <2>2, OverfullStays DEF DedupeInv
    <3>2. /\ DOMAIN last' = DOMAIN last \cup {x.key}
          /\ \A k \in DOMAIN last : k # x.key => last'[k] = last[k]
          /\ last'[x.key] = now
      BY <1>9, <2>2, <3>1
    <3>3. CASE log'[i].key = x.key
      BY <1>3, <1>4, <1>5, <1>7, <3>2, <3>3 DEF DedupeInv, Logged
    <3>4. CASE log'[i].key # x.key
      BY <1>3, <1>4, <1>5, <1>8, <3>2, <3>4 DEF LastComplete, DedupeInv
    <3>5. QED
      BY <3>3, <3>4
  <2>3. QED
    BY <2>1, <2>2
<1>14. LastBounded'
  <2>1. CASE x.key = NoKey
    BY <1>10, <2>1 DEF LastBounded, DedupeInv
  <2>2. CASE x.key # NoKey /\ DOMAIN last' = {x.key}
    <3>1. IsFiniteSet(DOMAIN last') /\ Cardinality(DOMAIN last') = 1
      BY <2>2, FS_Singleton
    <3>2. 1 <= MapCap
      BY Parameters
    <3>3. QED
      BY <3>1, <3>2 DEF LastBounded
  <2>3. CASE /\ x.key # NoKey
             /\ DOMAIN last' = DOMAIN last \cup {x.key}
             /\ ~(Cardinality(DOMAIN last \cup {x.key}) > MapCap)
    <3>1. IsFiniteSet(DOMAIN last \cup {x.key})
      BY FS_AddElement DEF LastBounded, DedupeInv
    <3>2. Cardinality(DOMAIN last \cup {x.key}) \in Nat
      BY <3>1, FS_CardinalityType
    <3>3. QED
      BY <2>3, <3>1, <3>2, Parameters DEF LastBounded
  <2>4. QED
    BY <1>9, <2>1, <2>2, <2>3
<1>15. MutedAfterAlert'
  <2> SUFFICES ASSUME NEW j \in DOMAIN log', log'[j].muted
               PROVE  \E i \in 1..(j - 1) :
                          /\ Dispatched(i)' /\ log'[i].key = log'[j].key
                          /\ log'[j].at - log'[i].at < Cooldown
    BY DEF MutedAfterAlert
  <2>1. j \in DOMAIN log
    BY <1>3, <1>4
  <2>2. PICK i \in 1..(j - 1) : /\ Dispatched(i) /\ log[i].key = log[j].key
                                /\ log[j].at - log[i].at < Cooldown
    BY <2>1, <1>5 DEF DedupeInv, MutedAfterAlert
  <2>3. i \in DOMAIN log
    BY <2>2 DEF Dispatched
  <2>4. QED
    BY <2>1, <2>2, <2>3, <1>5
<1>16. RepeatsSpaced'
  <2> SUFFICES ASSUME NEW i \in DOMAIN log', NEW j \in DOMAIN log', i < j,
                      Dispatched(i)', Dispatched(j)',
                      log'[i].key = log'[j].key, log'[i].key # NoKey,
                      log'[j].at - log'[i].at < Cooldown
               PROVE  Cardinality(KeysBefore(j)') > MapCap
    BY DEF RepeatsSpaced
  <2>1. i \in DOMAIN log
    BY <1>1, <1>2, <1>4
  <2>2. KeysBefore(j)' = KeysBefore(j)
    BY <1>1, KeysKept DEF DedupeInv
  <2>3. CASE j \in DOMAIN log
    BY <1>5, <2>1, <2>2, <2>3 DEF DedupeInv, RepeatsSpaced
  <2>4. CASE j = n
    <3>1. Dispatched(i) /\ log[i].key = x.key /\ x.key # NoKey /\ now - log[i].at < Cooldown
      BY <1>3, <1>5, <2>1, <2>4
    <3>2. CASE Overfull
      BY <1>2, <2>2, <2>4, <3>2 DEF Overfull, KeysSoFar
    <3>3. CASE x.key \in DOMAIN last /\ log[i].at <= last[x.key]
      <4>1. last[x.key] \in Nat
        BY <1>7, <3>3 DEF LastSound, DedupeInv
      <4>2. now \in Nat /\ Cooldown \in Nat /\ log[i].at \in Nat
        BY <1>7, <2>1, Parameters DEF DedupeInv, Logged
      <4>3. now - last[x.key] < Cooldown
        BY <3>1, <3>3, <4>1, <4>2
      <4>4. QED
        BY <3>1, <3>3, <4>3 DEF Suppressed
    <3>4. QED
      BY <2>1, <3>1, <3>2, <3>3 DEF LastComplete, DedupeInv
  <2>5. QED
    BY <1>4, <2>3, <2>4
<1>17. QED
  BY <1>6, <1>11, <1>13, <1>14, <1>15, <1>16 DEF DedupeInv

LEMMA HandleStep ==
    ASSUME DedupeInv, Handle
    PROVE  DedupeInv'
<1> DEFINE e == Head(busy)
           x == Entry(e, Suppressed(last, e.key, now))
<1>1. now' = now
  BY DEF Handle
<1>2. x.at = now /\ x.key = e.key /\ x.muted = Suppressed(last, e.key, now)
  BY EntryOf
<1>3. CASE Suppressed(last, e.key, now)
  <2>1. log' = Append(log, Entry(e, TRUE)) /\ last' = last
    BY <1>3 DEF Handle
  <2>2. QED
    BY <1>1, <1>3, <2>1, EntryOf, MutedStep
<1>4. CASE ~Suppressed(last, e.key, now)
  <2>1. log' = Append(log, Entry(e, FALSE)) /\ last' = Remember(last, e.key, now)
    BY <1>4 DEF Handle
  <2>2. QED
    BY <1>1, <1>4, <2>1, EntryOf, DispatchedStep
<1>5. QED
  BY <1>3, <1>4

\* Nothing else touches the log or the map, and the clock only runs forward.
LEMMA ElsewhereStep ==
    ASSUME DedupeInv, UNCHANGED <<log, last>>, now' \in Nat, now <= now'
    PROVE  DedupeInv'
<1>1. Logged'
  BY DEF Logged, DedupeInv
<1>2. LastSound' /\ LastComplete' /\ LastBounded'
  BY DEF LastSound, LastComplete, LastBounded, Overfull, KeysSoFar, KeysBefore, Dispatched,
         DedupeInv
<1>3. MutedAfterAlert' /\ RepeatsSpaced'
  BY DEF MutedAfterAlert, RepeatsSpaced, KeysBefore, Dispatched, DedupeInv
<1>4. QED
  BY <1>1, <1>2, <1>3 DEF DedupeInv

LEMMA DedupeStep == DedupeInv /\ [Next]_vars => DedupeInv'
<1> SUFFICES ASSUME DedupeInv, [Next]_vars PROVE DedupeInv'
  OBVIOUS
<1>1. now \in Nat
  BY DEF DedupeInv, Logged
<1>2. CASE Handle
  BY <1>2, HandleStep
<1>3. CASE UNCHANGED <<log, last>> /\ (now' = now \/ now' = now + 1)
  BY <1>1, <1>3, ElsewhereStep
<1>4. QED
  BY <1>2, <1>3
  DEF Next, MainLoop, Observe, Push, Abandon, Receive, Exit, Tick, Cancel, Terminated, vars

LEMMA DedupeInit == Init => DedupeInv
<1> SUFFICES ASSUME Init PROVE DedupeInv
  OBVIOUS
<1>1. log = <<>> /\ DOMAIN log = {} /\ DOMAIN last = {} /\ now = 0
  BY DEF Init
<1>2. log \in Seq({})
  BY <1>1
<1>3. Logged
  BY <1>1, <1>2 DEF Logged, IsSequence
<1>4. LastBounded
  BY <1>1, FS_EmptySet, Parameters DEF LastBounded
<1>5. QED
  BY <1>1, <1>3, <1>4 DEF DedupeInv, LastSound, LastComplete, MutedAfterAlert, RepeatsSpaced

LEMMA DedupeInvariant == Spec => []DedupeInv
BY DedupeInit, DedupeStep, PTL DEF Spec

\* One key is alerted on at most once per cooldown until more keys were alerted
\* on than the map holds (events/dedupe.go:24-38).
THEOREM PipelineSpacesRepeats == Spec => []RepeatsSpaced
BY DedupeInvariant, PTL DEF DedupeInv

\* What is suppressed follows an alert of its key by less than a cooldown: what
\* is suppressed does not prolong the silence (events/dedupe.go:24-38).
THEOREM PipelineMutesAfterAlerts == Spec => []MutedAfterAlert
BY DedupeInvariant, PTL DEF DedupeInv

-----------------------------------------------------------------------------
(* Induction.  The library's induction theorems have an operator as a      *)
(* parameter; that < is well-founded on Nat has not, and gives induction   *)
(* over a set.                                                             *)

Below == {p \in Nat \X Nat : p[1] < p[2]}

LEMMA Least ==
    ASSUME NEW S, S \subseteq Nat, S # {}
    PROVE  \E n \in S : \A m \in S : n <= m
<1>1. Below = OpToRel(<, Nat)
  BY DEF Below, OpToRel
<1>2. IsWellFoundedOn(Below, Nat)
  BY <1>1, NatLessThanWellFounded
<1>3. PICK n \in S : \A m \in S : ~(<<m, n>> \in Below)
  BY <1>2, WFMin
<1>4. ASSUME NEW m \in S
      PROVE  n <= m
  <2>1. m \in Nat /\ n \in Nat /\ ~(m < n)
    BY <1>3, <1>4 DEF Below
  <2>2. QED
    BY <2>1
<1>5. QED
  BY <1>4

LEMMA SetInduction ==
    ASSUME NEW S, 0 \in S, \A n \in Nat : n \in S => n + 1 \in S
    PROVE  Nat \subseteq S
<1> SUFFICES ASSUME Nat \ S # {} PROVE FALSE
  OBVIOUS
<1>1. PICK n \in Nat \ S : \A m \in Nat \ S : n <= m
  BY Least
<1>2. n # 0 /\ n - 1 \in Nat
  BY <1>1
<1>3. n - 1 \notin Nat \ S
  BY <1>1, <1>2
<1>4. (n - 1) + 1 \in S
  BY <1>2, <1>3
<1>5. QED
  BY <1>1, <1>4

-----------------------------------------------------------------------------
(* Threshold.Hit's loop over the series *)

\* What the loop has kept after n occurrences.
KeepStep(f, times, t, n) ==
    IF n = 0 THEN <<>>
    ELSE IF times[n] + Window > t THEN Append(f[n - 1], times[n])
    ELSE f[n - 1]

\* The loop is defined: there is a function of the number of turns it has made.
LEMMA LoopExists ==
    ASSUME NEW times, NEW t, NEW N \in Nat
    PROVE  \E f : f = [n \in 0..N |-> KeepStep(f, times, t, n)]
<1> DEFINE S == {N0 \in Nat : \E f : f = [n \in 0..N0 |-> KeepStep(f, times, t, n)]}
<1>1. 0 \in S
  <2> DEFINE f == [n \in 0..0 |-> <<>>]
  <2>1. f = [n \in 0..0 |-> KeepStep(f, times, t, n)]
    BY DEF KeepStep
  <2>2. QED
    BY <2>1
<1>2. ASSUME NEW m \in Nat, m \in S
      PROVE  m + 1 \in S
  <2>1. PICK f : f = [n \in 0..m |-> KeepStep(f, times, t, n)]
    BY <1>2
  <2> DEFINE g == [n \in 0..(m + 1) |-> KeepStep(f, times, t, n)]
  <2>2. \A n \in 0..m : g[n] = f[n]
    BY <2>1
  <2>3. \A n \in 0..(m + 1) : n # 0 => n - 1 \in 0..m
    OBVIOUS
  <2>4. \A n \in 0..(m + 1) : KeepStep(f, times, t, n) = KeepStep(g, times, t, n)
    BY <2>2, <2>3 DEF KeepStep
  <2>5. g = [n \in 0..(m + 1) |-> KeepStep(g, times, t, n)]
    BY <2>4
  <2> HIDE DEF g
  <2>6. \E h : h = [n \in 0..(m + 1) |-> KeepStep(h, times, t, n)]
    BY <2>5
  <2>7. QED
    BY <2>6
<1>3. Nat \subseteq S
  BY <1>1, <1>2, SetInduction
<1>4. QED
  BY <1>3

\* Kept is what the loop has after all turns.
LEMMA KeptLoop ==
    ASSUME NEW times, NEW t, Len(times) \in Nat
    PROVE  \E f : /\ \A n \in 0..Len(times) : f[n] = KeepStep(f, times, t, n)
                  /\ Kept(times, t) = f[Len(times)]
<1> DEFINE f == CHOOSE f : f = [n \in 0..Len(times) |-> KeepStep(f, times, t, n)]
<1>1. f = [n \in 0..Len(times) |-> KeepStep(f, times, t, n)]
  BY LoopExists
<1>2. Kept(times, t) = f[Len(times)]
  BY DEF Kept, KeepStep
<1>3. QED
  BY <1>1, <1>2

\* A loop keeps no more than it has seen.
LEMMA KeptNoLonger ==
    ASSUME NEW times, NEW t, IsSequence(times)
    PROVE  IsSequence(Kept(times, t)) /\ Len(Kept(times, t)) <= Len(times)
<1>1. Len(times) \in Nat
  BY Positions
<1>2. PICK f : /\ \A n \in 0..Len(times) : f[n] = KeepStep(f, times, t, n)
               /\ Kept(times, t) = f[Len(times)]
  BY <1>1, KeptLoop
<1> DEFINE S == {n \in Nat : n <= Len(times) => IsSequence(f[n]) /\ Len(f[n]) <= n}
<1>3. 0 \in S
  <2>1. f[0] = <<>>
    BY <1>1, <1>2 DEF KeepStep
  <2>2. QED
    BY <1>1, <2>1, NoneYet
<1>4. ASSUME NEW n \in Nat, n \in S
      PROVE  n + 1 \in S
  <2> SUFFICES ASSUME n + 1 <= Len(times)
               PROVE  IsSequence(f[n + 1]) /\ Len(f[n + 1]) <= n + 1
    OBVIOUS
  <2>1. IsSequence(f[n]) /\ Len(f[n]) <= n
    BY <1>1, <1>4
  <2>2. f[n + 1] = KeepStep(f, times, t, n + 1)
    BY <1>1, <1>2
  <2>3. f[n + 1] = f[n] \/ f[n + 1] = Append(f[n], times[n + 1])
    BY <2>2 DEF KeepStep
  <2>4. CASE f[n + 1] = f[n]
    <3>1. Len(f[n]) \in Nat
      BY <2>1, Positions
    <3>2. QED
      BY <2>1, <2>4, <3>1
  <2>5. CASE f[n + 1] = Append(f[n], times[n + 1])
    <3>1. Len(f[n]) \in Nat
      BY <2>1, Positions
    <3>2. IsSequence(f[n + 1]) /\ Len(f[n + 1]) = Len(f[n]) + 1
      BY <2>1, <2>5, Lengthened
    <3>3. QED
      BY <2>1, <3>1, <3>2
  <2>6. QED
    BY <2>3, <2>4, <2>5
<1>5. Nat \subseteq S
  BY <1>3, <1>4, SetInduction
<1>6. QED
  BY <1>1, <1>2, <1>5

\* Of a series whose first q occurrences are too old and whose others are not,
\* the loop keeps the others.
LEMMA KeptSuffix ==
    ASSUME NEW times, NEW t, IsSequence(times), NEW q \in 0..Len(times),
           \A i \in 1..q : ~(times[i] + Window > t),
           \A i \in (q + 1)..Len(times) : times[i] + Window > t
    PROVE  /\ IsSequence(Kept(times, t))
           /\ Len(Kept(times, t)) = Len(times) - q
           /\ \A i \in 1..(Len(times) - q) : Kept(times, t)[i] = times[q + i]
<1>1. Len(times) \in Nat /\ q \in Nat
  BY Positions
<1>2. PICK f : /\ \A n \in 0..Len(times) : f[n] = KeepStep(f, times, t, n)
               /\ Kept(times, t) = f[Len(times)]
  BY <1>1, KeptLoop
<1> DEFINE Good(n) == /\ IsSequence(f[n])
                      /\ n <= q => Len(f[n]) = 0
                      /\ n > q => Len(f[n]) = n - q
                      /\ \A i \in 1..(n - q) : f[n][i] = times[q + i]
           S == {n \in Nat : n <= Len(times) => Good(n)}
<1>3. 0 \in S
  <2>1. f[0] = <<>>
    BY <1>1, <1>2 DEF KeepStep
  <2>2. IsSequence(f[0]) /\ Len(f[0]) = 0 /\ 1..(0 - q) = {}
    BY <1>1, <2>1, NoneYet
  <2>3. QED
    BY <1>1, <2>2
<1>4. ASSUME NEW n \in Nat, n \in S
      PROVE  n + 1 \in S
  <2> SUFFICES ASSUME n + 1 <= Len(times)
               PROVE  Good(n + 1)
    OBVIOUS
  <2>1. Good(n)
    BY <1>1, <1>4
  <2>2. f[n + 1] = KeepStep(f, times, t, n + 1)
    BY <1>1, <1>2
  <2>3. CASE n + 1 <= q
    <3>1. n + 1 \in 1..q /\ n + 1 # 0 /\ (n + 1) - 1 = n
      BY <1>1, <2>3
    <3>2. f[n + 1] = f[n]
      BY <2>2, <3>1 DEF KeepStep
    <3>3. 1..((n + 1) - q) = {} /\ n <= q
      BY <1>1, <2>3
    <3>4. QED
      BY <1>1, <2>1, <2>3, <3>2, <3>3
  <2>4. CASE n + 1 > q
    <3>1. n + 1 \in (q + 1)..Len(times) /\ n + 1 # 0 /\ (n + 1) - 1 = n
      BY <1>1, <2>4
    <3>2. f[n + 1] = Append(f[n], times[n + 1])
      BY <2>2, <3>1 DEF KeepStep
    <3>3. IsSequence(f[n]) /\ Len(f[n]) = n - q /\ n - q \in Nat
      BY <1>1, <2>1, <2>4
    <3>4. /\ IsSequence(f[n + 1]) /\ Len(f[n + 1]) = (n - q) + 1
          /\ \A i \in 1..(n - q) : f[n + 1][i] = f[n][i]
          /\ f[n + 1][(n - q) + 1] = times[n + 1]
      BY <3>2, <3>3, Lengthened
    <3>5. (n + 1) - q = (n - q) + 1 /\ q + ((n - q) + 1) = n + 1
      BY <1>1
    <3>6. ASSUME NEW i \in 1..((n + 1) - q)
          PROVE  f[n + 1][i] = times[q + i]
      <4>1. CASE i = (n - q) + 1
        BY <3>4, <3>5, <4>1
      <4>2. CASE i \in 1..(n - q)
        BY <2>1, <3>4, <4>2
      <4>3. QED
        BY <1>1, <3>3, <3>5, <4>1, <4>2
    <3>7. QED
      BY <1>1, <2>4, <3>4, <3>5, <3>6
  <2>5. QED
    BY <1>1, <2>3, <2>4
<1>5. Nat \subseteq S
  BY <1>3, <1>4, SetInduction
<1>6. Good(Len(times))
  BY <1>1, <1>5
<1>7. QED
  BY <1>1, <1>2, <1>6

-----------------------------------------------------------------------------
(* The bounds of the channel and of the maps *)

\* The channel has its capacity, a series no more than was counted.
Queued ==
    /\ IsSequence(evch) /\ Len(evch) <= ChCap
    /\ DOMAIN series = Sources /\ DOMAIN heard = Sources
    /\ \A s \in Sources :
           /\ IsSequence(series[s]) /\ IsSequence(heard[s])
           /\ Len(series[s]) <= Len(heard[s])

\* An occurrence more lengthens the series by one at most.
LEMMA HitLength ==
    ASSUME NEW times, NEW t, IsSequence(times)
    PROVE  /\ IsSequence(Hit(times, t))
           /\ Len(Hit(times, t)) = Len(Kept(times, t)) + 1
           /\ Len(Hit(times, t)) <= Len(times) + 1
<1>1. IsSequence(Kept(times, t)) /\ Len(Kept(times, t)) <= Len(times)
  BY KeptNoLonger
<1>2. Len(times) \in Nat /\ Len(Kept(times, t)) \in Nat
  BY <1>1, Positions
<1>3. IsSequence(Append(Kept(times, t), t)) /\ Len(Append(Kept(times, t), t)) = Len(Kept(times, t)) + 1
  BY <1>1, Lengthened
<1>4. QED
  BY <1>1, <1>2, <1>3 DEF Hit

LEMMA QueuedStep == Queued /\ [Next]_vars => Queued'
<1> SUFFICES ASSUME Queued, [Next]_vars PROVE Queued'
  OBVIOUS
<1>1. Len(evch) \in Nat /\ ChCap \in Nat
  BY Positions, PipelineAssumption DEF Queued
<1>2. CASE Receive
  <2> DEFINE ev == Head(evch)
  <2>1. IsSequence(evch') /\ Len(evch') <= ChCap
    <3>1. IsSequence(Tail(evch)) /\ Len(Tail(evch)) = Len(evch) - 1
      BY <1>2, Shortened DEF Receive, Queued
    <3>2. QED
      BY <1>1, <1>2, <3>1 DEF Receive, Queued
  <2>2. CASE UNCHANGED <<series, heard>>
    BY <2>1, <2>2 DEF Queued
  <2>3. CASE /\ series' = [series EXCEPT ![ev.src] = Hit(@, ev.time)]
             /\ heard' = [heard EXCEPT ![ev.src] = Append(@, ev.time)]
    <3> DEFINE src == ev.src
               t == ev.time
    <3>1. /\ series' = [series EXCEPT ![src] = Hit(series[src], t)]
          /\ heard' = [heard EXCEPT ![src] = Append(heard[src], t)]
      BY <2>3
    <3> HIDE DEF src, t
    <3>2. DOMAIN series' = Sources /\ DOMAIN heard' = Sources
      BY <3>1 DEF Queued
    <3>3. ASSUME NEW s \in Sources
          PROVE  /\ IsSequence(series'[s]) /\ IsSequence(heard'[s])
                 /\ Len(series'[s]) <= Len(heard'[s])
      <4>1. IsSequence(series[s]) /\ IsSequence(heard[s]) /\ Len(series[s]) <= Len(heard[s])
        BY DEF Queued
      <4>2. CASE s # src
        <5>1. series'[s] = series[s] /\ heard'[s] = heard[s]
          BY <3>1, <4>2 DEF Queued
        <5>2. QED
          BY <4>1, <5>1
      <4>3. CASE s = src
        <5>1. series'[s] = Hit(series[s], t) /\ heard'[s] = Append(heard[s], t)
          BY <3>1, <4>3 DEF Queued
        <5>2. IsSequence(Hit(series[s], t)) /\ Len(Hit(series[s], t)) <= Len(series[s]) + 1
          BY <4>1, HitLength
        <5>3. /\ IsSequence(Append(heard[s], t))
              /\ Len(Append(heard[s], t)) = Len(heard[s]) + 1
          BY <4>1, Lengthened
        <5>4. /\ Len(series[s]) \in Nat /\ Len(heard[s]) \in Nat
              /\ Len(Hit(series[s], t)) \in Nat
          BY <4>1, <5>2, Positions
        <5>5. QED
          BY <4>1, <5>1, <5>2, <5>3, <5>4
      <4>4. QED
        BY <4>2, <4>3
    <3>4. QED
      BY <2>1, <3>2, <3>3 DEF Queued
  <2>4. QED
    BY <1>2, <2>2, <2>3 DEF Receive
<1>3. CASE \E m \in Monitors : Push(m)
  <2>1. PICK m \in Monitors : Push(m)
    BY <1>3
  <2>2. /\ evch' = Append(evch, waiting[m]) /\ Len(evch) < ChCap
        /\ UNCHANGED <<series, heard>>
    BY <2>1 DEF Push
  <2>3. IsSequence(evch') /\ Len(evch') = Len(evch) + 1
    BY <2>2, Lengthened DEF Queued
  <2>4. QED
    BY <1>1, <2>2, <2>3 DEF Queued
<1>4. CASE UNCHANGED <<evch, series, heard>>
  BY <1>4 DEF Queued
<1>5. QED
  BY <1>2, <1>3, <1>4
  DEF Next, MainLoop, Observe, Abandon, Handle, Exit, Tick, Cancel, Terminated, vars

LEMMA QueuedInit == Init => Queued
BY NoneYet, PipelineAssumption DEF Init, Queued

LEMMA QueuedInvariant == Spec => []Queued
BY QueuedInit, QueuedStep, PTL DEF Spec

\* The channel holds what it has room for, the deduplication's map no more keys
\* than its prune allows, and a series never more than was counted for its
\* source (app/app.go:54, events/dedupe.go:33-36 and :64-76).
THEOREM PipelineBounded == Spec => []BoundsOK
<1>1. Queued /\ DedupeInv => BoundsOK
  BY DEF Queued, DedupeInv, LastBounded, BoundsOK
<1>2. QED
  BY <1>1, QueuedInvariant, DedupeInvariant, PTL

-----------------------------------------------------------------------------
(* What the series remembers *)

\* Series r is the end of the history h: all but the first d occurrences, which
\* are a window older than the last.
EndOf(r, h, d) ==
    /\ Len(r) = Len(h) - d
    /\ \A i \in 1..(Len(h) - d) : r[i] = h[d + i]
    /\ \A i \in 1..d : h[i] + Window <= h[Len(h)]

\* A history of times, in order.
Risen(h) ==
    /\ IsSequence(h)
    /\ \A i \in 1..Len(h) : h[i] \in Nat
    /\ \A i, j \in 1..Len(h) : i <= j => h[i] <= h[j]

\* The old occurrences of a history come before the others.
LEMMA OldFirst ==
    ASSUME NEW r, Risen(r), NEW t \in Nat
    PROVE  \E q \in 0..Len(r) : /\ \A i \in 1..q : ~(r[i] + Window > t)
                                /\ \A i \in (q + 1)..Len(r) : r[i] + Window > t
<1> DEFINE I == {i \in 1..Len(r) : r[i] + Window > t}
<1>1. Len(r) \in Nat
  BY Positions DEF Risen
<1>2. CASE I = {}
  <2>1. \A i \in 1..Len(r) : ~(r[i] + Window > t)
    BY <1>2
  <2>2. (Len(r) + 1)..Len(r) = {} /\ Len(r) \in 0..Len(r)
    BY <1>1
  <2>3. QED
    BY <2>1, <2>2
<1>3. CASE I # {}
  <2>1. I \subseteq Nat
    BY <1>1
  <2>2. PICK n \in I : \A m \in I : n <= m
    BY <1>3, <2>1, Least
  <2>3. n \in 1..Len(r) /\ r[n] + Window > t /\ n - 1 \in 0..Len(r)
    BY <1>1, <2>2
  <2>4. ASSUME NEW i \in 1..(n - 1)
        PROVE  ~(r[i] + Window > t)
    <3>1. i \in 1..Len(r) /\ ~(n <= i)
      BY <1>1, <2>3
    <3>2. QED
      BY <2>2, <3>1
  <2>5. ASSUME NEW i \in ((n - 1) + 1)..Len(r)
        PROVE  r[i] + Window > t
    <3>1. i \in 1..Len(r) /\ n <= i
      BY <1>1, <2>3
    <3>2. r[n] <= r[i] /\ r[n] \in Nat /\ r[i] \in Nat
      BY <2>3, <3>1 DEF Risen
    <3>3. QED
      BY <2>3, <3>2, Parameters
  <2>6. QED
    BY <2>3, <2>4, <2>5
<1>4. QED
  BY <1>2, <1>3

\* An occurrence more: the series is again the end of the history, and as long as
\* the occurrences in the window are many.
LEMMA HitRemembers ==
    ASSUME NEW h, Risen(h), NEW r, IsSequence(r), NEW d \in 0..Len(h), EndOf(r, h, d),
           NEW t \in Nat, \A i \in 1..Len(h) : h[i] <= t
    PROVE  LET g == Append(h, t)
           IN  /\ Risen(g)
               /\ \E c \in 0..Len(g) :
                      /\ EndOf(Hit(r, t), g, c)
                      /\ \A i \in 1..Len(g) : g[i] + Window > t <=> i > c
<1> DEFINE g == Append(h, t)
           k == Kept(r, t)
           len == Len(h)
<1>1. /\ IsSequence(h) /\ len \in Nat /\ d \in Nat /\ d <= len
      /\ \A i \in 1..len : h[i] \in Nat
      /\ Window \in Nat /\ Window # 0
  BY Positions, Parameters DEF Risen
<1>2. /\ IsSequence(g) /\ Len(g) = len + 1
      /\ \A i \in 1..len : g[i] = h[i]
      /\ g[len + 1] = t
  BY <1>1, Lengthened
<1>3. Len(r) = len - d /\ \A i \in 1..(len - d) : r[i] = h[d + i]
  BY DEF EndOf
<1>4. \A i \in 1..d : h[i] + Window <= h[len]
  BY DEF EndOf
<1>5. Risen(r)
  <2>1. \A i \in 1..Len(r) : d + i \in 1..len /\ r[i] = h[d + i]
    BY <1>1, <1>3
  <2>2. \A i \in 1..Len(r) : r[i] \in Nat
    BY <1>1, <2>1
  <2>3. ASSUME NEW i \in 1..Len(r), NEW j \in 1..Len(r), i <= j
        PROVE  r[i] <= r[j]
    <3>1. d + i <= d + j
      BY <1>1, <1>3, <2>3
    <3>2. QED
      BY <2>1, <3>1 DEF Risen
  <2>4. QED
    BY <2>2, <2>3 DEF Risen
<1>6. PICK q \in 0..Len(r) : /\ \A i \in 1..q : ~(r[i] + Window > t)
                             /\ \A i \in (q + 1)..Len(r) : r[i] + Window > t
  BY <1>5, OldFirst
<1>7. /\ IsSequence(k) /\ Len(k) = Len(r) - q
      /\ \A i \in 1..(Len(r) - q) : k[i] = r[q + i]
  BY <1>6, KeptSuffix
<1> DEFINE c == d + q
<1>8. q \in Nat /\ q <= len - d /\ c \in Nat /\ c <= len
  BY <1>1, <1>3
<1> HIDE DEF g, k, len
<1>9. /\ Len(k) = len - c /\ len - c \in Nat
      /\ \A i \in 1..(len - c) : k[i] = h[c + i]
  <2>1. Len(r) - q = len - c /\ len - c \in Nat
    BY <1>1, <1>3, <1>8
  <2>2. ASSUME NEW i \in 1..(len - c)
        PROVE  k[i] = h[c + i]
    <3>1. k[i] = r[q + i]
      BY <1>7, <2>1
    <3>2. q + i \in 1..(len - d) /\ d + (q + i) = c + i
      BY <1>1, <1>8
    <3>3. QED
      BY <1>3, <3>1, <3>2
  <2>3. QED
    BY <1>7, <2>1, <2>2
<1>10. /\ IsSequence(Hit(r, t)) /\ Len(Hit(r, t)) = (len - c) + 1
       /\ \A i \in 1..(len - c) : Hit(r, t)[i] = k[i]
       /\ Hit(r, t)[(len - c) + 1] = t
  BY <1>7, <1>9, Lengthened DEF Hit, k
<1>11. (len + 1) - c = (len - c) + 1 /\ c + ((len - c) + 1) = len + 1
  BY <1>1, <1>8
<1>12. \A i \in 1..((len + 1) - c) : Hit(r, t)[i] = g[c + i]
  <2> SUFFICES ASSUME NEW i \in 1..((len + 1) - c)
               PROVE  Hit(r, t)[i] = g[c + i]
    OBVIOUS
  <2>1. CASE i = (len - c) + 1
    BY <1>2, <1>10, <1>11, <2>1
  <2>2. CASE i # (len - c) + 1
    <3>1. i \in 1..(len - c)
      BY <1>9, <1>11, <2>2
    <3>2. c + i \in 1..len
      BY <1>1, <1>8, <3>1
    <3>3. QED
      BY <1>2, <1>9, <1>10, <3>1, <3>2
  <2>3. QED
    BY <2>1, <2>2
\* What is left out of the series is a window older than t ...
<1>13. ASSUME NEW i \in 1..c
       PROVE  h[i] + Window <= t /\ i \in 1..len
  <2>1. i \in 1..len /\ h[i] \in Nat
    BY <1>1, <1>8
  <2>2. CASE i <= d
    <3>1. h[i] + Window <= h[len]
      BY <1>4, <2>2
    <3>2. len \in 1..len
      BY <1>1, <2>1
    <3>3. h[len] <= t /\ h[len] \in Nat
      BY <1>1, <3>2 DEF len
    <3>4. QED
      BY <1>1, <2>1, <3>1, <3>3
  <2>3. CASE i > d
    <3>1. i - d \in 1..q /\ i - d \in 1..(len - d) /\ d + (i - d) = i
      BY <1>1, <1>8, <2>3
    <3>2. ~(r[i - d] + Window > t) /\ r[i - d] = h[i]
      BY <1>3, <1>6, <3>1
    <3>3. QED
      BY <1>1, <2>1, <3>2
  <2>4. QED
    BY <1>1, <2>1, <2>2, <2>3
\* ... and what is in it is not.
<1>14. ASSUME NEW i \in (c + 1)..(len + 1)
       PROVE  g[i] + Window > t
  <2>1. CASE i = len + 1
    BY <1>1, <1>2, <2>1
  <2>2. CASE i # len + 1
    <3>1. i \in 1..len /\ i - d \in (q + 1)..(len - d) /\ i - d \in 1..(len - d) /\ d + (i - d) = i
      BY <1>1, <1>8, <2>2
    <3>2. r[i - d] + Window > t /\ r[i - d] = h[i]
      BY <1>3, <1>6, <3>1
    <3>3. QED
      BY <1>2, <3>1, <3>2
  <2>3. QED
    BY <2>1, <2>2
<1>15. EndOf(Hit(r, t), g, c)
  <2>1. \A i \in 1..c : g[i] + Window <= g[Len(g)]
    BY <1>2, <1>13
  <2>2. QED
    BY <1>2, <1>10, <1>11, <1>12, <2>1 DEF EndOf
<1>16. \A i \in 1..Len(g) : g[i] + Window > t <=> i > c
  <2> SUFFICES ASSUME NEW i \in 1..(len + 1)
               PROVE  g[i] + Window > t <=> i > c
    BY <1>2
  <2>1. CASE i > c
    <3>1. i \in (c + 1)..(len + 1)
      BY <1>1, <1>8, <2>1
    <3>2. QED
      BY <1>14, <2>1, <3>1
  <2>2. CASE ~(i > c)
    <3>1. i \in 1..c
      BY <1>1, <1>8, <2>2
    <3>2. h[i] + Window <= t /\ g[i] = h[i] /\ h[i] \in Nat
      BY <1>1, <1>2, <1>13, <3>1
    <3>3. QED
      BY <1>1, <2>2, <3>2
  <2>3. QED
    BY <2>1, <2>2
<1>17. Risen(g)
  <2>1. \A i \in 1..(len + 1) : g[i] \in Nat /\ g[i] <= t
    <3>1. \A i \in 1..(len + 1) : i = len + 1 \/ i \in 1..len
      BY <1>1
    <3>2. \A i \in 1..len : h[i] \in Nat /\ h[i] <= t
      BY <1>1 DEF len
    <3>3. QED
      BY <1>2, <3>1, <3>2
  <2>2. ASSUME NEW i \in 1..(len + 1), NEW j \in 1..(len + 1), i <= j
        PROVE  g[i] <= g[j]
    <3>1. CASE j = len + 1
      BY <1>2, <2>1, <3>1
    <3>2. CASE j # len + 1
      <4>1. i \in 1..len /\ j \in 1..len
        BY <1>1, <2>2, <3>2
      <4>2. h[i] <= h[j]
        BY <2>2, <4>1 DEF Risen, len
      <4>3. QED
        BY <1>2, <4>1, <4>2
    <3>3. QED
      BY <3>1, <3>2
  <2>3. QED
    BY <1>2, <2>1, <2>2 DEF Risen
<1>18. c \in 0..Len(g)
  BY <1>1, <1>2, <1>8
<1> HIDE DEF c
<1>19. QED
  BY <1>15, <1>16, <1>17, <1>18 DEF g

-----------------------------------------------------------------------------
(* Events on their way *)

\* An event as a monitor builds it.
Genuine(ev) ==
    \E m \in Monitors : \E e \in Emits[m] : \E n \in 1..MaxEvents : \E t \in 0..MaxTime :
        ev = Stamped(m, e, n, t)

\* A stamped event has the fields of what it was built from.
LEMMA StampedFields ==
    ASSUME NEW m, NEW e, NEW n, NEW t, DOMAIN e = EventFields
    PROVE  /\ DOMAIN Stamped(m, e, n, t) = EventFields \cup {"id", "time", "from"}
           /\ \A f \in EventFields : Stamped(m, e, n, t)[f] = e[f]
           /\ Stamped(m, e, n, t).id = n /\ Stamped(m, e, n, t).time = t
           /\ Stamped(m, e, n, t).from = m
<1>1. \A f \in EventFields : f # "id" /\ f # "time" /\ f # "from"
  BY DEF EventFields
<1>2. QED
  BY <1>1 DEF Stamped

LEMMA GenuineFacts ==
    ASSUME PlainEvents, NEW ev, Genuine(ev)
    PROVE  /\ DOMAIN ev = EventFields \cup {"id", "time", "from"}
           /\ ev # Nothing /\ ev.time \in Nat /\ ev.from \in Monitors
           /\ Counts(ev) => Reports(ev.from)
           /\ \A s \in Sources, l \in DOMAIN Levels : ~IsFinding(Escalated(ev), s, l)
<1>0. PICK m \in Monitors : \E e \in Emits[m] : \E n \in 1..MaxEvents : \E t \in 0..MaxTime :
          ev = Stamped(m, e, n, t)
  BY DEF Genuine
<1>1. PICK e \in Emits[m], n \in 1..MaxEvents, t \in 0..MaxTime : ev = Stamped(m, e, n, t)
  BY <1>0
<1>2. DOMAIN e = EventFields
  BY DEF PlainEvents
<1>3. /\ DOMAIN ev = EventFields \cup {"id", "time", "from"}
      /\ \A f \in EventFields : ev[f] = e[f]
      /\ ev.time = t /\ ev.from = m
  BY <1>1, <1>2, StampedFields
<1>4. ev # Nothing
  <2>1. "cat" \in DOMAIN ev
    BY <1>3 DEF EventFields
  <2>2. "cat" \notin DOMAIN Nothing
    BY DEF Nothing
  <2>3. QED
    BY <2>1, <2>2
<1>5. Counts(ev) => Reports(m)
  <2>1. ev.cat = e.cat /\ ev.fail = e.fail
    BY <1>3 DEF EventFields
  <2>2. QED
    BY <2>1 DEF Counts, Reports
<1>6. \A s \in Sources, l \in DOMAIN Levels : ~IsFinding(Escalated(ev), s, l)
  BY <1>1 DEF PlainEvents
<1>7. t \in Nat
  OBVIOUS
<1>8. QED
  BY <1>3, <1>4, <1>5, <1>6, <1>7

\* A failed login that m is sending.
Sends(m) == waiting[m] # Nothing /\ Counts(waiting[m])

\* What is on its way was stamped before now, ...
OnItsWay ==
    /\ now \in 0..MaxTime /\ observed \in Nat
    /\ IsSequence(evch)
    /\ \A i \in 1..Len(evch) : Genuine(evch[i]) /\ evch[i].time <= now
    /\ DOMAIN waiting = Monitors
    /\ \A m \in Monitors : waiting[m] # Nothing =>
           Genuine(waiting[m]) /\ waiting[m].from = m /\ waiting[m].time <= now

\* ... and the failed logins in the order they come in.
ChannelInTime ==
    \A i, j \in 1..Len(evch) :
        i < j /\ Counts(evch[i]) /\ Counts(evch[j]) => evch[i].time <= evch[j].time

SenderInTime ==
    \A m \in Monitors : Sends(m) =>
        \A i \in 1..Len(evch) : Counts(evch[i]) => evch[i].time <= waiting[m].time

\* Time t is before all failed logins on their way.
Past(t) ==
    /\ t \in Nat /\ t <= now
    /\ \A i \in 1..Len(evch) : Counts(evch[i]) => t <= evch[i].time
    /\ \A m \in Monitors : Sends(m) => t <= waiting[m].time

HistoryInTime ==
    /\ DOMAIN heard = Sources
    /\ \A s \in Sources : Risen(heard[s]) /\ \A i \in 1..Len(heard[s]) : Past(heard[s][i])

Timely == OnItsWay /\ ChannelInTime /\ SenderInTime /\ HistoryInTime

\* Time passes, and nothing else that is timed happens.
LEMMA OnItsWayKept ==
    ASSUME OnItsWay, UNCHANGED <<evch, waiting>>, observed' = observed, now' \in 0..MaxTime, now <= now'
    PROVE  OnItsWay'
<1>1. now \in Nat /\ now' \in Nat /\ observed \in Nat /\ DOMAIN waiting = Monitors /\ IsSequence(evch)
  BY DEF OnItsWay
<1>2. ASSUME NEW ev, Genuine(ev), ev.time <= now
      PROVE  ev.time <= now'
  <2>1. \E m \in Monitors : \E e \in Emits[m] : \E n \in 1..MaxEvents : \E t \in 0..MaxTime :
            ev = Stamped(m, e, n, t)
    BY <1>2 DEF Genuine
  <2> PICK t \in 0..MaxTime : \E m, e, n : ev = Stamped(m, e, n, t)
    BY <2>1
  <2>2. ev.time = t
    BY DEF Stamped
  <2>3. QED
    BY <1>1, <1>2, <2>2
<1>3. \A i \in 1..Len(evch) : Genuine(evch[i]) /\ evch[i].time <= now'
  BY <1>2 DEF OnItsWay
<1>4. \A m \in Monitors : waiting[m] # Nothing =>
          Genuine(waiting[m]) /\ waiting[m].from = m /\ waiting[m].time <= now'
  BY <1>2 DEF OnItsWay
<1>5. QED
  BY <1>1, <1>3, <1>4 DEF OnItsWay, Genuine

\* What was past stays past when nothing new comes.
LEMMA PastKept ==
    ASSUME NEW t, Past(t), now \in Nat, now' \in Nat, now <= now',
           \A i \in 1..Len(evch') : \E j \in 1..Len(evch) : evch'[i] = evch[j],
           \A m \in Monitors : Sends(m)' => Sends(m) /\ waiting'[m] = waiting[m]
    PROVE  Past(t)'
<1>1. t \in Nat /\ t <= now'
  BY DEF Past
<1>2. \A i \in 1..Len(evch') : Counts(evch'[i]) => t <= evch'[i].time
  BY DEF Past
<1>3. \A m \in Monitors : Sends(m)' => t <= waiting'[m].time
  BY DEF Past
<1>4. QED
  BY <1>1, <1>2, <1>3 DEF Past

\* The series are what is left of the histories.
Remembers ==
    /\ DOMAIN series = Sources
    /\ \A s \in Sources :
           /\ IsSequence(series[s])
           /\ \E d \in 0..Len(heard[s]) : EndOf(series[s], heard[s], d)

ThresholdInv == Timely /\ Remembers

LEMMA TimelyFacts ==
    ASSUME ThresholdInv
    PROVE  /\ now \in Nat /\ now \in 0..MaxTime /\ observed \in Nat /\ MaxTime \in Nat /\ MaxEvents \in Nat
           /\ IsSequence(evch) /\ Len(evch) \in Nat /\ DOMAIN waiting = Monitors
           /\ DOMAIN heard = Sources /\ DOMAIN series = Sources
BY Positions, PipelineAssumption DEF ThresholdInv, Timely, OnItsWay, HistoryInTime, Remembers

\* Steps that leave the channel, the senders and the histories alone.
LEMMA ElsewhereInTime ==
    ASSUME ThresholdInv, UNCHANGED <<observed, waiting, evch, series, heard>>,
           now' \in 0..MaxTime, now <= now'
    PROVE  ThresholdInv'
<1>1. now \in Nat /\ now' \in Nat
  BY TimelyFacts
<1>2. OnItsWay'
  BY OnItsWayKept DEF ThresholdInv, Timely
<1>3. ChannelInTime' /\ SenderInTime' /\ Remembers'
  BY DEF ThresholdInv, Timely, ChannelInTime, SenderInTime, Sends, Remembers
<1>4. \A t : Past(t) => Past(t)'
  BY <1>1, PastKept DEF Sends
<1>5. HistoryInTime'
  BY <1>4 DEF ThresholdInv, Timely, HistoryInTime
<1>6. QED
  BY <1>2, <1>3, <1>5 DEF ThresholdInv, Timely

LEMMA ObserveInTime ==
    ASSUME PlainEvents, ThresholdInv, NEW m \in Monitors, NEW e \in Emits[m], Observe(m, e)
    PROVE  ThresholdInv'
<1> DEFINE new == Stamped(m, e, observed + 1, now)
<1>1. /\ waiting[m] = Nothing /\ observed < MaxEvents /\ observed' = observed + 1
      /\ waiting' = [waiting EXCEPT ![m] = new]
      /\ UNCHANGED <<now, evch, series, heard>>
  BY DEF Observe
<1>2. /\ now \in Nat /\ now \in 0..MaxTime /\ observed \in Nat /\ MaxEvents \in Nat
      /\ IsSequence(evch) /\ DOMAIN waiting = Monitors
  BY TimelyFacts
<1>3. Genuine(new) /\ new.from = m /\ new.time = now
  <2>1. observed + 1 \in 1..MaxEvents
    BY <1>1, <1>2
  <2>2. DOMAIN e = EventFields
    BY DEF PlainEvents
  <2>3. QED
    BY <1>2, <2>1, <2>2, StampedFields DEF Genuine
<1> HIDE DEF new
<1>4. /\ waiting'[m] = new /\ DOMAIN waiting' = Monitors
      /\ \A k \in Monitors : k # m => waiting'[k] = waiting[k]
  BY <1>1, <1>2
<1>5. OnItsWay'
  <2>1. \A i \in 1..Len(evch) : Genuine(evch[i]) /\ evch[i].time <= now
    BY DEF ThresholdInv, Timely, OnItsWay
  <2>2. ASSUME NEW k \in Monitors, waiting'[k] # Nothing
        PROVE  Genuine(waiting'[k]) /\ waiting'[k].from = k /\ waiting'[k].time <= now
    <3>1. CASE k = m
      BY <1>2, <1>3, <1>4, <3>1
    <3>2. CASE k # m
      BY <1>4, <2>2, <3>2 DEF ThresholdInv, Timely, OnItsWay
    <3>3. QED
      BY <3>1, <3>2
  <2>3. observed' \in Nat
    BY <1>1, <1>2
  <2>4. QED
    BY <1>1, <1>2, <1>4, <2>1, <2>2, <2>3 DEF OnItsWay, Genuine
<1>6. ChannelInTime' /\ Remembers'
  BY <1>1 DEF ThresholdInv, Timely, ChannelInTime, Remembers
<1>7. SenderInTime'
  <2> SUFFICES ASSUME NEW k \in Monitors, Sends(k)', NEW i \in 1..Len(evch), Counts(evch[i])
               PROVE  evch[i].time <= waiting'[k].time
    BY <1>1 DEF SenderInTime
  <2>1. CASE k = m
    BY <1>3, <1>4, <2>1 DEF ThresholdInv, Timely, OnItsWay
  <2>2. CASE k # m
    BY <1>4, <2>2 DEF ThresholdInv, Timely, SenderInTime, Sends
  <2>3. QED
    BY <2>1, <2>2
<1>8. ASSUME NEW t, Past(t)
      PROVE  Past(t)'
  <2>1. t \in Nat /\ t <= now' /\ \A i \in 1..Len(evch') : Counts(evch'[i]) => t <= evch'[i].time
    BY <1>1, <1>8 DEF Past
  <2>2. ASSUME NEW k \in Monitors, Sends(k)'
        PROVE  t <= waiting'[k].time
    <3>1. CASE k = m
      BY <1>3, <1>4, <1>8, <3>1 DEF Past
    <3>2. CASE k # m
      BY <1>4, <1>8, <2>2, <3>2 DEF Past, Sends
    <3>3. QED
      BY <3>1, <3>2
  <2>3. QED
    BY <2>1, <2>2 DEF Past
<1>9. HistoryInTime'
  BY <1>1, <1>8 DEF ThresholdInv, Timely, HistoryInTime
<1>10. QED
  BY <1>5, <1>6, <1>7, <1>9 DEF ThresholdInv, Timely

\* A sender is through, or gives up.
LEMMA SenderDone ==
    ASSUME ThresholdInv, NEW m \in Monitors, waiting' = [waiting EXCEPT ![m] = Nothing]
    PROVE  /\ DOMAIN waiting' = Monitors /\ waiting'[m] = Nothing
           /\ \A k \in Monitors : k # m => waiting'[k] = waiting[k]
           /\ \A k \in Monitors : Sends(k)' => k # m /\ Sends(k) /\ waiting'[k] = waiting[k]
<1>1. /\ DOMAIN waiting' = Monitors /\ waiting'[m] = Nothing
      /\ \A k \in Monitors : k # m => waiting'[k] = waiting[k]
  BY TimelyFacts
<1>2. QED
  BY <1>1 DEF Sends

LEMMA AbandonInTime ==
    ASSUME ThresholdInv, NEW m \in Monitors, Abandon(m)
    PROVE  ThresholdInv'
<1>1. /\ waiting' = [waiting EXCEPT ![m] = Nothing]
      /\ UNCHANGED <<now, observed, evch, series, heard>>
  BY DEF Abandon
<1>2. /\ DOMAIN waiting' = Monitors /\ waiting'[m] = Nothing
      /\ \A k \in Monitors : k # m => waiting'[k] = waiting[k]
      /\ \A k \in Monitors : Sends(k)' => k # m /\ Sends(k) /\ waiting'[k] = waiting[k]
  BY <1>1, SenderDone
<1>3. OnItsWay'
  BY <1>1, <1>2 DEF ThresholdInv, Timely, OnItsWay, Genuine
<1>4. ChannelInTime' /\ SenderInTime' /\ Remembers'
  BY <1>1, <1>2 DEF ThresholdInv, Timely, ChannelInTime, SenderInTime, Remembers
<1>5. \A t : Past(t) => Past(t)'
  BY <1>1, <1>2 DEF Past
<1>6. HistoryInTime'
  BY <1>1, <1>5 DEF ThresholdInv, Timely, HistoryInTime
<1>7. QED
  BY <1>3, <1>4, <1>6 DEF ThresholdInv, Timely

LEMMA PushInTime ==
    ASSUME PlainEvents, SingleReporter, ThresholdInv, NEW m \in Monitors, Push(m)
    PROVE  ThresholdInv'
<1> DEFINE new == waiting[m]
           len == Len(evch)
<1>1. /\ evch' = Append(evch, new) /\ waiting[m] # Nothing
      /\ waiting' = [waiting EXCEPT ![m] = Nothing]
      /\ UNCHANGED <<now, observed, series, heard>>
  BY DEF Push
<1>2. IsSequence(evch) /\ len \in Nat
  BY TimelyFacts
<1>3. /\ IsSequence(evch') /\ Len(evch') = len + 1
      /\ \A i \in 1..len : evch'[i] = evch[i]
      /\ evch'[len + 1] = new
  BY <1>1, <1>2, Lengthened
<1>4. /\ DOMAIN waiting' = Monitors /\ waiting'[m] = Nothing
      /\ \A k \in Monitors : k # m => waiting'[k] = waiting[k]
      /\ \A k \in Monitors : Sends(k)' => k # m /\ Sends(k) /\ waiting'[k] = waiting[k]
  BY <1>1, SenderDone
<1>5. Genuine(new) /\ new.from = m /\ new.time <= now
  BY <1>1 DEF ThresholdInv, Timely, OnItsWay
<1>6. Counts(new) => Sends(m)
  BY <1>1 DEF Sends
<1> HIDE DEF new, len
<1>7. \A i \in 1..(len + 1) : \/ i \in 1..len /\ evch'[i] = evch[i]
                              \/ i = len + 1 /\ evch'[i] = new
  BY <1>2, <1>3
<1>8. OnItsWay'
  <2>1. \A i \in 1..len : Genuine(evch[i]) /\ evch[i].time <= now
    BY DEF ThresholdInv, Timely, OnItsWay, len
  <2>2. \A i \in 1..Len(evch') : Genuine(evch'[i]) /\ evch'[i].time <= now
    BY <1>3, <1>5, <1>7, <2>1
  <2>3. \A k \in Monitors : waiting'[k] # Nothing =>
            Genuine(waiting'[k]) /\ waiting'[k].from = k /\ waiting'[k].time <= now
    BY <1>4 DEF ThresholdInv, Timely, OnItsWay
  <2>4. now' = now /\ observed' = observed /\ now \in 0..MaxTime /\ observed \in Nat
    BY <1>1, TimelyFacts
  <2>5. QED
    BY <1>3, <1>4, <2>2, <2>3, <2>4 DEF OnItsWay, Genuine
<1>9. ChannelInTime'
  <2> SUFFICES ASSUME NEW i \in 1..(len + 1), NEW j \in 1..(len + 1), i < j,
                      Counts(evch'[i]), Counts(evch'[j])
               PROVE  evch'[i].time <= evch'[j].time
    BY <1>3 DEF ChannelInTime
  <2>1. i \in 1..len /\ evch'[i] = evch[i]
    BY <1>2, <1>7
  <2>2. CASE j \in 1..len /\ evch'[j] = evch[j]
    BY <2>1, <2>2 DEF ThresholdInv, Timely, ChannelInTime, len
  <2>3. CASE evch'[j] = new
    BY <1>6, <2>1, <2>3 DEF ThresholdInv, Timely, SenderInTime, len, new
  <2>4. QED
    BY <1>7, <2>2, <2>3
<1>10. SenderInTime'
  <2> SUFFICES ASSUME NEW k \in Monitors, Sends(k)', NEW i \in 1..(len + 1), Counts(evch'[i])
               PROVE  evch'[i].time <= waiting'[k].time
    BY <1>3 DEF SenderInTime
  <2>1. k # m /\ Sends(k) /\ waiting'[k] = waiting[k]
    BY <1>4
  <2>2. CASE i \in 1..len /\ evch'[i] = evch[i]
    BY <2>1, <2>2 DEF ThresholdInv, Timely, SenderInTime, len
  <2>3. CASE evch'[i] = new
    <3>1. Reports(m)
      BY <1>5, <2>3, GenuineFacts
    <3>2. Genuine(waiting[k]) /\ waiting[k].from = k /\ Counts(waiting[k])
      BY <2>1 DEF ThresholdInv, Timely, OnItsWay, Sends
    <3>3. Reports(k)
      BY <3>2, GenuineFacts
    <3>4. QED
      BY <2>1, <3>1, <3>3 DEF SingleReporter
  <2>4. QED
    BY <1>7, <2>2, <2>3
<1>11. ASSUME NEW t, Past(t)
       PROVE  Past(t)'
  <2>1. t \in Nat /\ t <= now' /\ \A k \in Monitors : Sends(k)' => t <= waiting'[k].time
    BY <1>1, <1>4, <1>11 DEF Past
  <2>2. \A i \in 1..len : Counts(evch[i]) => t <= evch[i].time
    BY <1>11 DEF Past, len
  <2>3. Counts(new) => t <= new.time
    BY <1>6, <1>11 DEF Past, new
  <2>4. \A i \in 1..Len(evch') : Counts(evch'[i]) => t <= evch'[i].time
    BY <1>3, <1>7, <2>2, <2>3
  <2>5. QED
    BY <2>1, <2>4 DEF Past
<1>12. HistoryInTime' /\ Remembers'
  BY <1>1, <1>11 DEF ThresholdInv, Timely, HistoryInTime, Remembers
<1>13. QED
  BY <1>8, <1>9, <1>10, <1>12 DEF ThresholdInv, Timely

\* The main loop takes the first event, whose failed login is the next occurrence.
LEMMA ReceiveInTime ==
    ASSUME PlainEvents, ThresholdInv, Receive
    PROVE  ThresholdInv'
<1> DEFINE ev == Head(evch)
           len == Len(evch)
<1>1. /\ evch # <<>> /\ evch' = Tail(evch)
      /\ UNCHANGED <<now, observed, waiting>>
      /\ \/ UNCHANGED <<series, heard>>
         \/ /\ Counts(ev)
            /\ series' = [series EXCEPT ![ev.src] = Hit(@, ev.time)]
            /\ heard' = [heard EXCEPT ![ev.src] = Append(@, ev.time)]
  BY DEF Receive
<1>2. /\ IsSequence(evch) /\ len \in Nat /\ now \in Nat /\ now \in 0..MaxTime
      /\ observed \in Nat /\ DOMAIN waiting = Monitors
      /\ DOMAIN heard = Sources /\ DOMAIN series = Sources
  BY TimelyFacts
<1>3. /\ IsSequence(evch') /\ len >= 1 /\ Len(evch') = len - 1
      /\ \A i \in 1..(len - 1) : evch'[i] = evch[i + 1]
      /\ ev = evch[1]
  BY <1>1, <1>2, Shortened
<1>4. Genuine(ev) /\ ev.time <= now /\ ev.time \in Nat
  <2>1. 1 \in 1..len
    BY <1>2, <1>3
  <2>2. Genuine(ev) /\ ev.time <= now
    BY <1>3, <2>1 DEF ThresholdInv, Timely, OnItsWay
  <2>3. QED
    BY <2>2, GenuineFacts
<1> HIDE DEF len
<1>5. \A i \in 1..Len(evch') : i + 1 \in 1..len /\ evch'[i] = evch[i + 1] /\ 1 < i + 1
  BY <1>2, <1>3
<1>6. OnItsWay'
  <2>1. \A i \in 1..len : Genuine(evch[i]) /\ evch[i].time <= now
    BY DEF ThresholdInv, Timely, OnItsWay, len
  <2>2. \A i \in 1..Len(evch') : Genuine(evch'[i]) /\ evch'[i].time <= now
    BY <1>5, <2>1
  <2>3. QED
    BY <1>1, <1>3, <2>2 DEF ThresholdInv, Timely, OnItsWay, Genuine
<1>7. ChannelInTime'
  <2> SUFFICES ASSUME NEW i \in 1..Len(evch'), NEW j \in 1..Len(evch'), i < j,
                      Counts(evch'[i]), Counts(evch'[j])
               PROVE  evch'[i].time <= evch'[j].time
    BY DEF ChannelInTime
  <2>1. i + 1 \in 1..len /\ j + 1 \in 1..len /\ i + 1 < j + 1
    BY <1>2, <1>3, <1>5
  <2>2. QED
    BY <1>5, <2>1 DEF ThresholdInv, Timely, ChannelInTime, len
<1>8. SenderInTime'
  BY <1>1, <1>5 DEF ThresholdInv, Timely, SenderInTime, Sends, len
<1>9. \A t : Past(t) => Past(t)'
  BY <1>1, <1>5 DEF Past, Sends, len
<1>10. ASSUME Counts(ev), NEW t, t = ev.time
       PROVE  Past(t)'
  <2>2. \A i \in 1..Len(evch') : Counts(evch'[i]) => t <= evch'[i].time
    <3>1. 1 \in 1..len
      BY <1>2, <1>3
    <3>2. QED
      BY <1>3, <1>5, <1>10, <3>1 DEF ThresholdInv, Timely, ChannelInTime, len
  <2>3. \A m \in Monitors : Sends(m) => t <= waiting[m].time
    <3>1. 1 \in 1..len
      BY <1>2, <1>3
    <3>2. QED
      BY <1>3, <1>10, <3>1 DEF ThresholdInv, Timely, SenderInTime, len
  <2>4. QED
    BY <1>1, <1>4, <1>10, <2>2, <2>3 DEF Past, Sends
<1>11. CASE UNCHANGED <<series, heard>>
  <2>1. HistoryInTime' /\ Remembers'
    BY <1>9, <1>11 DEF ThresholdInv, Timely, HistoryInTime, Remembers
  <2>2. QED
    BY <1>6, <1>7, <1>8, <2>1 DEF ThresholdInv, Timely
<1>12. CASE /\ Counts(ev)
            /\ series' = [series EXCEPT ![ev.src] = Hit(@, ev.time)]
            /\ heard' = [heard EXCEPT ![ev.src] = Append(@, ev.time)]
  <2> DEFINE src == ev.src
             t == ev.time
  <2>1. /\ series' = [series EXCEPT ![src] = Hit(series[src], t)]
        /\ heard' = [heard EXCEPT ![src] = Append(heard[src], t)]
        /\ t \in Nat /\ \A k : k = t => Past(k)'
    <3>1. \A k : k = ev.time => Past(k)'
      BY <1>10, <1>12
    <3>2. QED
      BY <1>4, <1>12, <3>1
  <2> HIDE DEF src, t
  <2>2. /\ DOMAIN series' = Sources /\ DOMAIN heard' = Sources
        /\ \A s \in Sources : s # src => series'[s] = series[s] /\ heard'[s] = heard[s]
        /\ src \in Sources => series'[src] = Hit(series[src], t) /\ heard'[src] = Append(heard[src], t)
    BY <1>2, <2>1
  <2>3. ASSUME src \in Sources
        PROVE  /\ Risen(heard'[src])
               /\ \A i \in 1..Len(heard'[src]) : \A k : k = heard'[src][i] => Past(k)'
               /\ IsSequence(series'[src])
               /\ \E d \in 0..Len(heard'[src]) : EndOf(series'[src], heard'[src], d)
    <3> DEFINE h == heard[src]
               r == series[src]
    <3>1. /\ Risen(h) /\ \A i \in 1..Len(h) : Past(h[i])
          /\ IsSequence(r)
      BY <2>3 DEF ThresholdInv, Timely, HistoryInTime, Remembers
    <3>2. PICK d \in 0..Len(h) : EndOf(r, h, d)
      BY <2>3 DEF ThresholdInv, Remembers
    <3>3. heard'[src] = Append(h, t) /\ series'[src] = Hit(r, t)
      BY <2>2, <2>3
    <3>4. \A i \in 1..Len(h) : h[i] <= t
      <4>1. \A i \in 1..Len(h) : h[i] <= ev.time
        BY <1>2, <1>3, <1>12, <3>1 DEF Past, len
      <4>2. QED
        BY <4>1 DEF t
    <3> HIDE DEF h, r
    <3>5. /\ Risen(Append(h, t))
          /\ \E c \in 0..Len(Append(h, t)) : EndOf(Hit(r, t), Append(h, t), c)
      BY <2>1, <3>1, <3>2, <3>4, HitRemembers
    <3>6. IsSequence(Hit(r, t))
      BY <3>1, HitLength
    <3>7. ASSUME NEW i \in 1..Len(Append(h, t)), NEW k, k = Append(h, t)[i]
          PROVE  Past(k)'
      <4>1. IsSequence(h) /\ Len(h) \in Nat
        BY <3>1, Positions DEF Risen
      <4>2. /\ Len(Append(h, t)) = Len(h) + 1 /\ Append(h, t)[Len(h) + 1] = t
            /\ \A j \in 1..Len(h) : Append(h, t)[j] = h[j]
        BY <4>1, Lengthened
      <4>3. i = Len(h) + 1 \/ i \in 1..Len(h)
        BY <4>1, <4>2
      <4>4. k = t \/ Past(k)
        BY <3>1, <3>7, <4>2, <4>3
      <4>5. QED
        BY <1>9, <2>1, <4>4
    <3>8. QED
      BY <3>3, <3>5, <3>6, <3>7
  <2>4. HistoryInTime'
    <3>1. ASSUME NEW s \in Sources
          PROVE  /\ Risen(heard'[s])
                 /\ \A i \in 1..Len(heard'[s]) : \A k : k = heard'[s][i] => Past(k)'
      <4>1. CASE s = src
        BY <2>3, <4>1
      <4>2. CASE s # src
        BY <1>9, <2>2, <4>2 DEF ThresholdInv, Timely, HistoryInTime
      <4>3. QED
        BY <4>1, <4>2
    <3>2. QED
      BY <2>2, <3>1 DEF HistoryInTime
  <2>5. Remembers'
    <3>1. ASSUME NEW s \in Sources
          PROVE  /\ IsSequence(series'[s])
                 /\ \E d \in 0..Len(heard'[s]) : EndOf(series'[s], heard'[s], d)
      <4>1. CASE s = src
        BY <2>3, <4>1
      <4>2. CASE s # src
        BY <2>2, <4>2 DEF ThresholdInv, Remembers
      <4>3. QED
        BY <4>1, <4>2
    <3>2. QED
      BY <2>2, <3>1 DEF Remembers
  <2>6. QED
    BY <1>6, <1>7, <1>8, <2>4, <2>5 DEF ThresholdInv, Timely
<1>13. QED
  BY <1>1, <1>11, <1>12

LEMMA ThresholdInit == Init => ThresholdInv
<1> SUFFICES ASSUME Init PROVE ThresholdInv
  OBVIOUS
<1>1. /\ now = 0 /\ observed = 0 /\ waiting = [m \in Monitors |-> Nothing] /\ evch = <<>>
      /\ series = [s \in Sources |-> <<>>] /\ heard = [s \in Sources |-> <<>>]
  BY DEF Init
<1>2. 0 \in 0..MaxTime /\ 1..0 = {}
  BY PipelineAssumption
<1>3. OnItsWay /\ ChannelInTime /\ SenderInTime
  BY <1>1, <1>2, NoneYet DEF OnItsWay, ChannelInTime, SenderInTime, Sends
<1>4. Risen(<<>>)
  BY <1>2, NoneYet DEF Risen
<1>5. EndOf(<<>>, <<>>, 0) /\ 0 \in 0..0
  BY <1>2, NoneYet DEF EndOf
<1>6. \A s \in Sources : heard[s] = <<>> /\ series[s] = <<>>
  BY <1>1
<1>7. HistoryInTime
  BY <1>1, <1>2, <1>4, <1>6, NoneYet DEF HistoryInTime
<1>8. Remembers
  BY <1>1, <1>5, <1>6, NoneYet DEF Remembers
<1>9. QED
  BY <1>3, <1>7, <1>8 DEF ThresholdInv, Timely

LEMMA ThresholdStep ==
    ASSUME PlainEvents, SingleReporter, ThresholdInv, [Next]_vars
    PROVE  ThresholdInv'
<1>1. now \in Nat /\ now \in 0..MaxTime /\ MaxTime \in Nat
  BY TimelyFacts
<1>2. CASE Receive
  BY <1>2, ReceiveInTime
<1>3. CASE \E m \in Monitors : (\E e \in Emits[m] : Observe(m, e)) \/ Push(m) \/ Abandon(m)
  BY <1>3, ObserveInTime, PushInTime, AbandonInTime
<1>4. CASE Tick
  <2>1. now' \in 0..MaxTime /\ now <= now'
    BY <1>1, <1>4 DEF Tick
  <2>2. QED
    BY <1>4, <2>1, ElsewhereInTime DEF Tick
<1>5. CASE UNCHANGED <<now, observed, waiting, evch, series, heard>>
  BY <1>1, <1>5, ElsewhereInTime
<1>6. QED
  BY <1>2, <1>3, <1>4, <1>5 DEF Next, MainLoop, Handle, Exit, Cancel, Terminated, vars

-----------------------------------------------------------------------------
(* The findings *)

\* The findings of a level for a source among the events of a sequence.
FoundIn(q, s, l) == {i \in DOMAIN q : IsFinding(q[i], s, l)}

\* The occurrences with which the window came to hold so many.
Crossings(h, count) ==
    {n \in DOMAIN h : Cardinality({m \in 1..n : h[m] + Window > h[n]}) = count}

LEMMA FoundAppend ==
    ASSUME NEW q, IsSequence(q), NEW x, NEW s, NEW l
    PROVE  Cardinality(FoundIn(Append(q, x), s, l))
             = Cardinality(FoundIn(q, s, l)) + (IF IsFinding(x, s, l) THEN 1 ELSE 0)
<1> DEFINE F == FoundIn(q, s, l)
           G == FoundIn(Append(q, x), s, l)
           n == Len(q)
<1>1. n \in Nat /\ DOMAIN q = 1..n /\ DOMAIN Append(q, x) = 1..(n + 1)
  BY Positions, Lengthened
<1>2. (\A i \in 1..n : Append(q, x)[i] = q[i]) /\ Append(q, x)[n + 1] = x
  BY Lengthened
<1>3. IsFiniteSet(F) /\ n + 1 \notin F
  <2>1. F \in SUBSET (1..n) /\ IsFiniteSet(1..n)
    BY <1>1, FS_Interval DEF FoundIn
  <2>2. QED
    BY <1>1, <2>1, FS_Subset
<1>4. Cardinality(F) \in Nat
  BY <1>3, FS_CardinalityType
<1>5. CASE IsFinding(x, s, l)
  <2>1. G = F \cup {n + 1}
    BY <1>1, <1>2, <1>5 DEF FoundIn
  <2>2. Cardinality(F \cup {n + 1}) = Cardinality(F) + 1
    BY <1>3, FS_AddElement
  <2>3. QED
    BY <1>5, <2>1, <2>2
<1>6. CASE ~IsFinding(x, s, l)
  <2>1. G = F
    BY <1>1, <1>2, <1>6 DEF FoundIn
  <2>2. QED
    BY <1>4, <1>6, <2>1
<1>7. QED
  BY <1>5, <1>6

LEMMA CrossingsAppend ==
    ASSUME NEW h, Risen(h), NEW r, IsSequence(r), NEW d \in 0..Len(h), EndOf(r, h, d),
           NEW t \in Nat, \A i \in 1..Len(h) : h[i] <= t, NEW count
    PROVE  Cardinality(Crossings(Append(h, t), count))
             = Cardinality(Crossings(h, count)) + (IF Len(Hit(r, t)) = count THEN 1 ELSE 0)
<1> DEFINE g == Append(h, t)
           n == Len(h)
           C == Crossings(h, count)
           D == Crossings(g, count)
           In(k) == {m \in 1..k : g[m] + Window > g[k]}
<1>1. n \in Nat /\ IsSequence(h)
  BY Positions DEF Risen
<1>2. /\ DOMAIN h = 1..n /\ DOMAIN g = 1..(n + 1) /\ Len(g) = n + 1
      /\ \A i \in 1..n : g[i] = h[i]
      /\ g[n + 1] = t
  BY <1>1, Positions, Lengthened
<1>3. PICK c \in 0..Len(g) : /\ EndOf(Hit(r, t), g, c)
                             /\ \A i \in 1..Len(g) : g[i] + Window > t <=> i > c
  BY HitRemembers
<1> HIDE DEF g, n
<1>4. c \in Nat /\ c <= n + 1
  BY <1>1, <1>2, <1>3
<1>5. Len(Hit(r, t)) = (n + 1) - c
  BY <1>2, <1>3 DEF EndOf
<1>6. Cardinality(In(n + 1)) = (n + 1) - c
  <2>1. In(n + 1) = (c + 1)..(n + 1)
    BY <1>1, <1>2, <1>3, <1>4
  <2>2. c + 1 \in Int /\ n + 1 \in Int
    BY <1>1, <1>4
  <2>3. Cardinality((c + 1)..(n + 1)) = IF c + 1 > n + 1 THEN 0 ELSE (n + 1) - (c + 1) + 1
    BY <2>2, FS_Interval
  <2>4. (IF c + 1 > n + 1 THEN 0 ELSE (n + 1) - (c + 1) + 1) = (n + 1) - c
    BY <1>1, <1>4
  <2>5. QED
    BY <2>1, <2>3, <2>4
<1>7. \A k \in 1..n : In(k) = {m \in 1..k : h[m] + Window > h[k]}
  BY <1>1, <1>2
<1>8. IsFiniteSet(C) /\ n + 1 \notin C
  <2>1. C \in SUBSET (1..n) /\ IsFiniteSet(1..n)
    BY <1>1, <1>2, FS_Interval DEF Crossings
  <2>2. QED
    BY <1>1, <2>1, FS_Subset
<1>9. Cardinality(C) \in Nat
  BY <1>8, FS_CardinalityType
<1>10. D = {k \in 1..(n + 1) : Cardinality(In(k)) = count}
  BY <1>2 DEF Crossings
<1>11. C = {k \in 1..n : Cardinality(In(k)) = count}
  BY <1>2, <1>7 DEF Crossings
<1> HIDE DEF In, C, D
<1>12. CASE Len(Hit(r, t)) = count
  <2>1. D = C \cup {n + 1}
    BY <1>1, <1>5, <1>6, <1>10, <1>11, <1>12
  <2>2. Cardinality(C \cup {n + 1}) = Cardinality(C) + 1
    BY <1>8, FS_AddElement
  <2>3. QED
    BY <1>12, <2>1, <2>2 DEF C, D, g
<1>13. CASE Len(Hit(r, t)) # count
  <2>1. D = C
    BY <1>1, <1>5, <1>6, <1>10, <1>11, <1>13
  <2>2. QED
    BY <1>9, <1>13, <2>1 DEF C, D, g
<1>14. QED
  BY <1>12, <1>13

\* Where the levels' counts differ, Hit's result is the one level with the count.
LEMMA ReachedIs ==
    ASSUME DistinctLevels, NEW count
    PROVE  /\ Reached(count) = 0 \/ Reached(count) \in DOMAIN Levels
           /\ \A l \in DOMAIN Levels : l # 0 /\ (Reached(count) = l <=> Levels[l].count = count)
<1>1. DOMAIN Levels \subseteq Nat \ {0}
  BY EventsAssumption
<1>2. \A l \in DOMAIN Levels : l # 0
  BY <1>1
<1>3. CASE LevelAt(count) = {}
  BY <1>2, <1>3 DEF Reached, LevelAt
<1>4. CASE LevelAt(count) # {}
  <2>1. PICK l : l \in LevelAt(count)
    BY <1>4
  <2>2. \A k \in LevelAt(count) : k = l
    BY <2>1 DEF LevelAt, DistinctLevels
  <2>3. l \in Nat /\ l \in DOMAIN Levels /\ Levels[l].count = count
    BY <1>1, <2>1 DEF LevelAt
  <2>4. \A k \in LevelAt(count) : l <= k
    BY <2>2, <2>3
  <2>5. Reached(count) = CHOOSE k \in LevelAt(count) : \A j \in LevelAt(count) : k <= j
    BY <1>4 DEF Reached
  <2>6. Reached(count) \in LevelAt(count)
    BY <2>1, <2>4, <2>5
  <2>7. Reached(count) = l
    BY <2>2, <2>6
  <2>8. \A k \in DOMAIN Levels : Levels[k].count = count => k = l
    BY <2>2 DEF LevelAt
  <2>9. QED
    BY <1>2, <2>3, <2>7, <2>8
<1>5. QED
  BY <1>3, <1>4

\* correlateAuth's finding is one of its source, at the level it was made for.
LEMMA BruteForceIs ==
    ASSUME DistinctLevels, NEW ev, {"title", "sev", "key", "fail", "src"} \subseteq DOMAIN ev,
           NEW k \in DOMAIN Levels, NEW s, NEW l \in DOMAIN Levels
    PROVE  IsFinding(BruteForce(ev, k), s, l) <=> s = ev.src /\ l = k
<1> DEFINE b == BruteForce(ev, k)
<1>1. b.title = Levels[k].title /\ b.key = <<"bruteforce", ev.src>>
  BY DEF BruteForce
<1>2. <<"bruteforce", ev.src>> = <<"bruteforce", s>> <=> s = ev.src
  OBVIOUS
<1>3. Levels[k].title = Levels[l].title <=> l = k
  BY DEF DistinctLevels
<1> HIDE DEF b
<1>4. IsFinding(b, s, l) <=> s = ev.src /\ l = k
  BY <1>1, <1>2, <1>3 DEF IsFinding
<1>5. QED
  BY <1>4 DEF b

\* Evaluate gives a finding, first, exactly when the level is reached.
LEMMA EvaluateFinds ==
    ASSUME DistinctLevels, PlainEvents, NEW ev, Genuine(ev), NEW times
    PROVE  /\ IsSequence(Evaluate(ev, times))
           /\ \A s \in Sources, l \in DOMAIN Levels :
                  FoundIn(Evaluate(ev, times), s, l) =
                      IF /\ Counts(ev) /\ s = ev.src
                         /\ Len(Hit(times, ev.time)) = Levels[l].count
                      THEN {1} ELSE {}
<1> DEFINE level == IF Counts(ev) THEN Reached(Len(Hit(times, ev.time))) ELSE 0
           out == Escalated(ev)
           b == BruteForce(ev, level)
           A == IF level = 0 THEN <<>> ELSE <<b>>
           B == IF out.sev > Info \/ PassThrough(out) THEN <<out>> ELSE <<>>
           res == A \o B
<1>1. Evaluate(ev, times) = res
  BY DEF Evaluate
<1>2. \A s \in Sources, l \in DOMAIN Levels : ~IsFinding(out, s, l)
  BY GenuineFacts
<1>3. {"title", "sev", "key", "fail", "src"} \subseteq DOMAIN ev
  BY GenuineFacts DEF EventFields
<1>4. level = 0 \/ (level \in DOMAIN Levels /\ level # 0)
  BY ReachedIs
<1>5. \A l \in DOMAIN Levels : level = l <=> Counts(ev) /\ Len(Hit(times, ev.time)) = Levels[l].count
  BY ReachedIs
<1>6. ASSUME level # 0, NEW s \in Sources, NEW l \in DOMAIN Levels
      PROVE  IsFinding(b, s, l) <=> s = ev.src /\ l = level
  BY <1>3, <1>4, <1>6, BruteForceIs
<1> HIDE DEF level, out, b
<1>7. \/ res = <<>> /\ level = 0
      \/ res = <<out>> /\ level = 0
      \/ res = <<b>> /\ level # 0
      \/ res = <<b, out>> /\ level # 0
  <2>1. (A = <<>> /\ level = 0) \/ (A = <<b>> /\ level # 0)
    OBVIOUS
  <2>2. B = <<>> \/ B = <<out>>
    OBVIOUS
  <2>3. <<>> \o <<>> = <<>>
    OBVIOUS
  <2>4. \A x : <<>> \o <<x>> = <<x>> /\ <<x>> \o <<>> = <<x>>
    OBVIOUS
  <2>5. ASSUME NEW x, NEW y
        PROVE  <<x>> \o <<y>> = <<x, y>>
    <3> DEFINE p == <<x>> \o <<y>>
    <3>1. <<x>> \in Seq({x, y}) /\ <<y>> \in Seq({x, y}) /\ Len(<<x>>) = 1 /\ Len(<<y>>) = 1
      OBVIOUS
    <3>2. p \in Seq({x, y}) /\ Len(p) = 2 /\ p[1] = x /\ p[2] = y
      BY <3>1
    <3> HIDE DEF p
    <3>3. p = <<x, y>>
      BY <3>2
    <3>4. QED
      BY <3>3 DEF p
  <2> HIDE DEF A, B
  <2>6. QED
    BY <2>1, <2>2, <2>3, <2>4, <2>5
<1>8. IsSequence(res)
  <2>1. <<>> \in Seq({b, out}) /\ <<out>> \in Seq({b, out}) /\ <<b>> \in Seq({b, out})
    OBVIOUS
  <2>2. <<b, out>> \in Seq({b, out})
    OBVIOUS
  <2>3. res \in Seq({b, out})
    <3> HIDE DEF res
    <3>1. QED
      BY <1>7, <2>1, <2>2
  <2>4. QED
    BY <2>3 DEF IsSequence
<1>9. ASSUME NEW s \in Sources, NEW l \in DOMAIN Levels
      PROVE  FoundIn(res, s, l) = IF s = ev.src /\ l = level THEN {1} ELSE {}
  <2>1. ~IsFinding(out, s, l) /\ l # 0
    BY <1>2, ReachedIs
  <2>2. level # 0 => (IsFinding(b, s, l) <=> s = ev.src /\ l = level)
    BY <1>6
  <2>3. CASE res = <<>> /\ level = 0
    BY <2>1, <2>3 DEF FoundIn
  <2>4. CASE res = <<out>> /\ level = 0
    <3>1. DOMAIN res = {1} /\ res[1] = out
      BY <2>4
    <3>2. QED
      BY <2>1, <2>4, <3>1 DEF FoundIn
  <2>5. CASE res = <<b>> /\ level # 0
    <3>1. DOMAIN res = {1} /\ res[1] = b
      BY <2>5
    <3>2. QED
      BY <2>2, <2>5, <3>1 DEF FoundIn
  <2>6. CASE res = <<b, out>> /\ level # 0
    <3>1. DOMAIN res = {1, 2} /\ res[1] = b /\ res[2] = out
      BY <2>6
    <3>2. QED
      BY <2>1, <2>2, <2>6, <3>1 DEF FoundIn
  <2>7. QED
    BY <1>7, <2>3, <2>4, <2>5, <2>6
<1>10. QED
  BY <1>1, <1>5, <1>8, <1>9

\* Only the first of what Evaluate returned can be a finding.
FindingFirst ==
    /\ IsSequence(busy)
    /\ \A s \in Sources, l \in DOMAIN Levels : FoundIn(busy, s, l) \subseteq {1}

FindingsInv == ThresholdInv /\ FindingFirst /\ FindingsExact

LEMMA FindingsAre ==
    \A s \in Sources, l \in DOMAIN Levels :
        Findings(s, l) = Cardinality(FoundIn(log, s, l)) + Cardinality(FoundIn(busy, s, l))
BY DEF Findings, FoundIn

LEMMA ExactIs ==
    FindingsExact <=>
        \A s \in Sources, l \in DOMAIN Levels :
            Cardinality(FoundIn(log, s, l)) + Cardinality(FoundIn(busy, s, l))
              = Cardinality(Crossings(heard[s], Levels[l].count))
BY DEF FindingsExact, Findings, FoundIn, Crossings, InWindow

\* The same of the next state.
LEMMA ExactNext ==
    (\A s \in Sources, l \in DOMAIN Levels :
        Cardinality(FoundIn(log', s, l)) + Cardinality(FoundIn(busy', s, l))
          = Cardinality(Crossings(heard'[s], Levels[l].count)))
    => FindingsExact'
BY DEF FindingsExact, Findings, FoundIn, Crossings, InWindow, IsFinding

LEMMA FoundCount ==
    ASSUME NEW q, IsSequence(q), NEW s, NEW l
    PROVE  Cardinality(FoundIn(q, s, l)) \in Nat
<1>1. Len(q) \in Nat /\ DOMAIN q = 1..Len(q)
  BY Positions
<1>2. FoundIn(q, s, l) \in SUBSET (1..Len(q)) /\ IsFiniteSet(1..Len(q))
  BY <1>1, FS_Interval DEF FoundIn
<1>3. QED
  BY <1>2, FS_Subset, FS_CardinalityType

\* One finding or none.
LEMMA OneOrNone == Cardinality({}) = 0 /\ Cardinality({1}) = 1
BY FS_EmptySet, FS_Singleton

\* What is handled goes from the events at hand to the log.
LEMMA HandleFindings ==
    ASSUME FindingsInv, Logged, Handle
    PROVE  FindingFirst' /\ FindingsExact'
<1> DEFINE e == Head(busy)
<1>1. PICK muted \in BOOLEAN : /\ busy # <<>> /\ busy' = Tail(busy)
                               /\ log' = Append(log, Entry(e, muted)) /\ heard' = heard
  BY DEF Handle
<1>2. /\ IsSequence(busy) /\ IsSequence(log)
      /\ \A s \in Sources, l \in DOMAIN Levels : FoundIn(busy, s, l) \subseteq {1}
  BY DEF FindingsInv, FindingFirst, Logged
<1> DEFINE n == Len(busy)
<1>3. /\ IsSequence(busy') /\ n \in Nat /\ n >= 1 /\ DOMAIN busy = 1..n
      /\ DOMAIN busy' = 1..(n - 1)
      /\ \A i \in 1..(n - 1) : busy'[i] = busy[i + 1]
      /\ e = busy[1]
  <2>1. IsSequence(Tail(busy)) /\ Len(busy) >= 1 /\ Len(Tail(busy)) = Len(busy) - 1
        /\ \A i \in 1..(Len(busy) - 1) : Tail(busy)[i] = busy[i + 1] /\ e = busy[1]
    BY <1>1, <1>2, Shortened
  <2>2. e = busy[1]
    BY <1>1, <1>2, Shortened
  <2>3. n \in Nat /\ DOMAIN busy = 1..n /\ DOMAIN Tail(busy) = 1..(n - 1)
    BY <1>2, <2>1, Positions
  <2>4. QED
    BY <1>1, <2>1, <2>2, <2>3
<1> DEFINE x == Entry(e, muted)
<1>4. x.key = e.key /\ x.title = e.title
  BY DEF Entry
<1> HIDE DEF e, n, x
<1>5. ASSUME NEW s \in Sources, NEW l \in DOMAIN Levels
      PROVE  FoundIn(busy', s, l) = {}
  <2> SUFFICES ASSUME NEW i \in DOMAIN busy', IsFinding(busy'[i], s, l)
               PROVE  FALSE
    BY DEF FoundIn
  <2>1. i + 1 \in DOMAIN busy /\ i + 1 # 1 /\ busy'[i] = busy[i + 1]
    BY <1>3
  <2>2. i + 1 \in FoundIn(busy, s, l)
    BY <2>1 DEF FoundIn
  <2>3. QED
    BY <1>2, <2>1, <2>2
<1>6. ASSUME NEW s \in Sources, NEW l \in DOMAIN Levels
      PROVE  Cardinality(FoundIn(busy, s, l)) = IF IsFinding(x, s, l) THEN 1 ELSE 0
  <2>1. 1 \in DOMAIN busy
    BY <1>3
  <2>2. IsFinding(x, s, l) <=> IsFinding(busy[1], s, l)
    BY <1>3, <1>4 DEF IsFinding
  <2>3. FoundIn(busy, s, l) = IF IsFinding(x, s, l) THEN {1} ELSE {}
    BY <1>2, <2>1, <2>2 DEF FoundIn
  <2>4. QED
    BY <2>3, OneOrNone
<1>7. FindingFirst'
  BY <1>3, <1>5 DEF FindingFirst
<1>8. FindingsExact'
  <2>1. ASSUME NEW s \in Sources, NEW l \in DOMAIN Levels
        PROVE  Cardinality(FoundIn(log', s, l)) + Cardinality(FoundIn(busy', s, l))
                 = Cardinality(Crossings(heard'[s], Levels[l].count))
    <3>1. Cardinality(FoundIn(log', s, l))
            = Cardinality(FoundIn(log, s, l)) + (IF IsFinding(x, s, l) THEN 1 ELSE 0)
      BY <1>1, <1>2, FoundAppend DEF x
    <3>2. Cardinality(FoundIn(log, s, l)) + Cardinality(FoundIn(busy, s, l))
            = Cardinality(Crossings(heard[s], Levels[l].count))
      BY ExactIs DEF FindingsInv
    <3>3. Cardinality(FoundIn(busy', s, l)) = 0
      BY <1>5, OneOrNone
    <3>4. Cardinality(FoundIn(log, s, l)) \in Nat
      BY <1>2, FoundCount
    <3>5. QED
      BY <1>1, <1>6, <3>1, <3>2, <3>3, <3>4
  <2>2. QED
    BY <2>1, ExactNext
<1>9. QED
  BY <1>7, <1>8

\* A received event makes a finding exactly when it makes the window hold so many.
LEMMA ReceiveFindings ==
    ASSUME DistinctLevels, PlainEvents, FindingsInv, Logged, Receive
    PROVE  FindingFirst' /\ FindingsExact'
<1> DEFINE ev == Head(evch)
           src == ev.src
           t == ev.time
<1>1. /\ busy = <<>> /\ evch # <<>> /\ log' = log
      /\ \/ /\ ~Counts(ev) /\ busy' = Evaluate(ev, <<>>) /\ heard' = heard
         \/ /\ Counts(ev) /\ busy' = Evaluate(ev, series[src])
            /\ heard' = [heard EXCEPT ![src] = Append(heard[src], t)]
  BY DEF Receive
<1>2. /\ IsSequence(evch) /\ Len(evch) \in Nat /\ DOMAIN heard = Sources
  BY TimelyFacts DEF FindingsInv
<1>3. ev = evch[1] /\ 1 \in 1..Len(evch)
  <2>1. ev = evch[1] /\ Len(evch) >= 1
    BY <1>1, <1>2, Shortened
  <2>2. QED
    BY <1>2, <2>1
<1>4. Genuine(ev) /\ t \in Nat
  <2>1. Genuine(ev)
    BY <1>3 DEF FindingsInv, ThresholdInv, Timely, OnItsWay
  <2>2. QED
    BY <2>1, GenuineFacts
<1>5. PICK times : busy' = Evaluate(ev, times) /\ (Counts(ev) => times = series[src])
  BY <1>1
<1>6. /\ IsSequence(busy')
      /\ \A s \in Sources, l \in DOMAIN Levels :
             FoundIn(busy', s, l) =
                 IF Counts(ev) /\ s = src /\ Len(Hit(times, t)) = Levels[l].count
                 THEN {1} ELSE {}
  BY <1>4, <1>5, EvaluateFinds
<1>7. FindingFirst'
  BY <1>6 DEF FindingFirst
<1>8. ASSUME NEW s \in Sources, NEW l \in DOMAIN Levels
      PROVE  Cardinality(Crossings(heard'[s], Levels[l].count))
               = Cardinality(Crossings(heard[s], Levels[l].count)) + Cardinality(FoundIn(busy', s, l))
  <2> DEFINE h == heard[s]
             r == series[s]
             count == Levels[l].count
  <2>1. /\ Risen(h) /\ \A i \in 1..Len(h) : Past(h[i])
        /\ IsSequence(r)
    BY DEF FindingsInv, ThresholdInv, Timely, HistoryInTime, Remembers
  <2>2. PICK d \in 0..Len(h) : EndOf(r, h, d)
    BY DEF FindingsInv, ThresholdInv, Remembers
  <2>3. CASE Counts(ev) /\ s = src
    <3>1. heard'[s] = Append(h, t) /\ times = r
      BY <1>1, <1>2, <1>5, <2>3
    <3>2. \A i \in 1..Len(h) : h[i] <= t
      BY <1>3, <2>1, <2>3 DEF Past
    <3>3. Cardinality(Crossings(Append(h, t), count))
            = Cardinality(Crossings(h, count)) + (IF Len(Hit(r, t)) = count THEN 1 ELSE 0)
      <4> HIDE DEF h, r, t, count
      <4>1. QED
        BY <1>4, <2>1, <2>2, <3>2, CrossingsAppend
    <3>4. Cardinality(FoundIn(busy', s, l)) = IF Len(Hit(r, t)) = count THEN 1 ELSE 0
      BY <1>6, <2>3, <3>1, OneOrNone
    <3>5. QED
      BY <3>1, <3>3, <3>4
  <2>4. CASE ~(Counts(ev) /\ s = src)
    <3>1. heard'[s] = h
      BY <1>1, <1>2, <2>4
    <3>2. Cardinality(FoundIn(busy', s, l)) = 0
      BY <1>6, <2>4, OneOrNone
    <3>3. Cardinality(Crossings(h, count)) \in Nat
      <4>1. Len(h) \in Nat /\ DOMAIN h = 1..Len(h)
        BY <2>1, Positions DEF Risen
      <4>2. Crossings(h, count) \in SUBSET (1..Len(h)) /\ IsFiniteSet(1..Len(h))
        BY <4>1, FS_Interval DEF Crossings
      <4>3. QED
        BY <4>2, FS_Subset, FS_CardinalityType
    <3>4. QED
      BY <3>1, <3>2, <3>3
  <2>5. QED
    BY <2>3, <2>4
<1>9. ASSUME NEW s \in Sources, NEW l \in DOMAIN Levels
      PROVE  Cardinality(FoundIn(log', s, l)) + Cardinality(FoundIn(busy', s, l))
               = Cardinality(Crossings(heard'[s], Levels[l].count))
  <2>1. Cardinality(FoundIn(log, s, l)) + Cardinality(FoundIn(busy, s, l))
          = Cardinality(Crossings(heard[s], Levels[l].count))
    BY ExactIs DEF FindingsInv
  <2>2. Cardinality(FoundIn(busy, s, l)) = 0
    <3>1. FoundIn(busy, s, l) = {}
      BY <1>1, NoneYet DEF FoundIn
    <3>2. QED
      BY <3>1, OneOrNone
  <2>3. Cardinality(FoundIn(log, s, l)) + 0 = Cardinality(Crossings(heard[s], Levels[l].count))
    BY <2>1, <2>2
  <2>4. Cardinality(FoundIn(log, s, l)) \in Nat
    BY FoundCount DEF Logged
  <2>5. Cardinality(FoundIn(busy', s, l)) \in {0, 1}
    BY <1>6, OneOrNone
  <2>6. log' = log
    BY <1>1
  <2>7. QED
    BY <1>8, <2>3, <2>4, <2>5, <2>6
<1>10. FindingsExact'
  BY <1>9, ExactNext
<1>11. QED
  BY <1>7, <1>10

LEMMA FindingsInit == Init => FindingFirst /\ FindingsExact
<1> SUFFICES ASSUME Init PROVE FindingFirst /\ FindingsExact
  OBVIOUS
<1>1. busy = <<>> /\ log = <<>> /\ \A s \in Sources : heard[s] = <<>>
  BY DEF Init
<1>2. \A s, l : FoundIn(<<>>, s, l) = {}
  BY NoneYet DEF FoundIn
<1>3. \A count : Crossings(<<>>, count) = {}
  BY NoneYet DEF Crossings
<1>4. FindingFirst
  BY <1>1, <1>2, NoneYet DEF FindingFirst
<1>5. ASSUME NEW s \in Sources, NEW l \in DOMAIN Levels
      PROVE  Cardinality(FoundIn(log, s, l)) + Cardinality(FoundIn(busy, s, l))
               = Cardinality(Crossings(heard[s], Levels[l].count))
  <2>1. /\ Cardinality(FoundIn(log, s, l)) = 0 /\ Cardinality(FoundIn(busy, s, l)) = 0
        /\ Cardinality(Crossings(heard[s], Levels[l].count)) = 0
    BY <1>1, <1>2, <1>3, OneOrNone
  <2>2. QED
    BY <2>1
<1>6. FindingsExact
  BY <1>5, ExactIs
<1>7. QED
  BY <1>4, <1>6

LEMMA FindingsStep ==
    ASSUME DistinctLevels, SingleReporter, PlainEvents, FindingsInv, Logged, [Next]_vars
    PROVE  FindingsInv'
<1>1. ThresholdInv'
  BY ThresholdStep DEF FindingsInv
<1>2. CASE Receive
  BY <1>1, <1>2, ReceiveFindings DEF FindingsInv
<1>3. CASE Handle
  BY <1>1, <1>3, HandleFindings DEF FindingsInv
<1>4. CASE busy' = busy /\ log' = log /\ heard' = heard
  <2>1. FindingFirst'
    BY <1>4 DEF FindingsInv, FindingFirst
  <2>2. FindingsExact'
    BY <1>4, ExactIs, ExactNext DEF FindingsInv
  <2>3. QED
    BY <1>1, <2>1, <2>2 DEF FindingsInv
<1>5. Receive \/ Handle \/ (busy' = busy /\ log' = log /\ heard' = heard)
  BY DEF Next, MainLoop, Observe, Push, Abandon, Exit, Tick, Cancel, Terminated, vars
<1>6. QED
  BY <1>2, <1>3, <1>4, <1>5

\* One brute-force finding of a level for each time a source's failures within
\* the window came to the level's count: correlateAuth (detect/detect.go) over
\* Threshold.Hit (events/dedupe.go:64-83), whose series drops what left the
\* window, whose times come from the monitor and not from the clock of the main
\* loop, and which never fires twice for one failure.  The levels can be told
\* apart, no other event passes for a finding, and one monitor reports failures
\* (the times of two could reach the series out of order).
THEOREM PipelineFindsExactly ==
    ASSUME DistinctLevels, SingleReporter, PlainEvents
    PROVE  Spec => []FindingsExact
<1>1. Init => FindingsInv
  BY ThresholdInit, FindingsInit DEF FindingsInv
<1>2. FindingsInv /\ Logged /\ [Next]_vars => FindingsInv'
  BY FindingsStep
<1>3. DedupeInv => Logged
  BY DEF DedupeInv
<1>4. FindingsInv => FindingsExact
  BY DEF FindingsInv
<1>5. QED
  BY <1>1, <1>2, <1>3, <1>4, DedupeInvariant, PTL DEF Spec
=============================================================================
