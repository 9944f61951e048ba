------------------------- MODULE Persistence_proofs -------------------------
(***************************************************************************)
(* Proofs about Persistence: the invariants and the action properties that *)
(* the run Persistence checks on two items and four surfaces hold for any  *)
(* items, surfaces and bounds.                                             *)
(***************************************************************************)
EXTENDS Persistence, Integers, TLAPS

\* Every pair of a snapshot is known: approved, or alerted about, up to the size of a
\* startup item.
AllKnown(s) == \A i \in Items : s[i] # 0 => Known(i, s[i])

\* Each item of a snapshot is in a state its class has.
Fits(s) == s \in Snapshots /\ \A i \in Items : s[i] \in States[Class(i)]

\* The writes a first run has made to the file, by where the monitor is.
Writes == IF pc \in {"down", "load", "collect first"} THEN 0
          ELSE IF pc = "saving" THEN 1 ELSE 2

\* The writes the audits have made, and the one this audit has yet to make.
AuditWrites == IF audit = Absent THEN 2 * audits ELSE 2 * audits - 1

\* Why the modification time stays bounded: two writes to an audit, two to a
\* first run, one first run to a start.
Counted ==
    /\ audits \in 0..MaxAudits /\ stops \in 0..MaxStops
    /\ disk.mod \in Nat
    /\ disk.mod <= AuditWrites + 2 * stops + Writes

\* Where the monitor is, and what it keeps only there.
Placed ==
    /\ surface \in Surfaces
    /\ pc \in {"load", "ended", "stat", "collect first", "saving", "parked", "wait",
               "reload", "collect", "send", "down"}
    /\ pend \subseteq Items
    /\ pc \in {"stat", "reload"} => Windows
    /\ pend # {} => pc = "send"

\* What is on the host, in the file and in the processes' memories.
Fitting ==
    /\ Fits(host) /\ Fits(base) /\ Fits(cur)
    /\ disk.body \in {Absent, Torn} \/ Fits(disk.body)
    /\ audit # Absent => Fits(audit)

\* The times are of this file, and the file in use is of the time noted for it
\* unless Start noted a later one.
Dated ==
    /\ diskMod \in Nat /\ statMod \in Nat /\ loaded \in Nat /\ startMod \in Nat
    /\ diskMod <= disk.mod /\ statMod <= disk.mod /\ loaded <= disk.mod
    /\ diskMod <= loaded \/ diskMod <= startMod

\* Where a pair in memory may come from.  The file and the audit hold approved
\* pairs only; of a sweep that will be the next baseline, what is not known yet
\* is about to be sent.
Sourced ==
    /\ Parses(disk) => Pairs(disk.body) \subseteq approved
    /\ audit # Absent => Pairs(audit) \subseteq approved
    /\ AllKnown(base)
    /\ pc = "saving" => Pairs(base) \subseteq approved
    /\ (pc = "send" /\ Windows) =>
           \A i \in Items : cur[i] # 0 => Known(i, cur[i]) \/ i \in pend

\* What was reported and has not changed since is in the snapshot that is, or
\* at the end of the sweep becomes, the baseline.
AtRest ==
    /\ settled \subseteq Items
    /\ pc \notin {"wait", "reload", "collect", "send"} => settled = {}
    /\ Windows => \A i \in settled :
           /\ pc \in {"wait", "reload", "collect"} => base[i] = host[i]
           /\ pc = "send" => cur[i] = host[i] /\ i \notin pend

\* The inductive invariant.
PersistenceInv == Placed /\ Counted /\ Fitting /\ Dated /\ Sourced /\ AtRest

-----------------------------------------------------------------------------
(* Lemmas about the operators *)

\* Every class of item can be absent, and a listed item is there or not.
LEMMA StateSets ==
    /\ \A c \in DOMAIN States : 0 \in States[c] /\ States[c] \subseteq 0..2
    /\ States["listed"] = 0..1
    /\ {"startup", "command", "listed"} \subseteq DOMAIN States
BY DEF States

\* Items have a class, on Windows one of three.
LEMMA Classes ==
    ASSUME surface \in Surfaces, NEW i \in Items
    PROVE  /\ Class(i) \in DOMAIN States
           /\ Windows => Class(i) \in {"startup", "command", "listed"}
BY PersistenceAssumption DEF Class, Windows

LEMMA EmptyFits ==
    ASSUME surface \in Surfaces
    PROVE  Fits(Empty) /\ Pairs(Empty) = {}
<1>1. Empty \in Snapshots
  BY DEF Empty, Snapshots
<1>2. \A i \in Items : Empty[i] \in States[Class(i)]
  BY StateSets, Classes DEF Empty
<1>3. Pairs(Empty) = {}
  BY DEF Empty, Pairs
<1>4. QED
  BY <1>1, <1>2, <1>3 DEF Fits

\* A collector that fails lists nothing, which is a state of any class.
LEMMA CollectedFits ==
    ASSUME surface \in Surfaces, Fits(host), NEW failed
    PROVE  Fits(Collected(failed))
<1>1. Collected(failed) \in Snapshots
  BY DEF Collected, Snapshots, Fits
<1>2. \A i \in Items : Collected(failed)[i] \in States[Class(i)]
  BY StateSets, Classes DEF Collected, Fits
<1>3. QED
  BY <1>1, <1>2 DEF Fits

\* A pair of a snapshot is an item that is there, with its state.
LEMMA PairOf ==
    ASSUME NEW s, NEW S
    PROVE  Pairs(s) \subseteq S <=> \A i \in Items : s[i] # 0 => <<i, s[i]>> \in S
BY DEF Pairs

\* A write that starts leaves a file that does not parse.
LEMMA TruncatedFile ==
    /\ Truncated.body = Torn /\ Truncated.mod = disk.mod + 1
    /\ ~Parses(Truncated)
BY DEF Truncated, Parses

\* A write that ends leaves the snapshot, an unreadable file, or no trace.
LEMMA WrittenFile ==
    ASSUME NEW s, NEW d \in Written(s) \cup {disk}
    PROVE  \/ d = disk
           \/ d.mod = disk.mod + 1 /\ d.body \in {s, Torn}
BY DEF Written

\* Two states of an item of Windows that differ and of which the new one is not
\* absence give rise to an event, unless they are two sizes of a startup item.
LEMMA WindowsDiffers ==
    ASSUME surface \in Surfaces, Windows, NEW old, NEW new, Fits(old), Fits(new),
           NEW i \in Items, new[i] # 0, old[i] # new[i],
           old[i] = 0 \/ Class(i) # "startup"
    PROVE  i \in Diff(old, new)
<1>1. Class(i) \in {"startup", "command", "listed"}
  BY Classes
<1>2. Class(i) = "listed" => old[i] \in 0..1 /\ new[i] \in 0..1
  BY StateSets DEF Fits
<1>3. old[i] = 0 \/ Class(i) = "command"
  BY <1>1, <1>2
<1>4. Differs(i, old, new)
  BY <1>1, <1>3 DEF Differs
<1>5. QED
  BY <1>4 DEF Diff

\* An item of Windows whose state is the same in both snapshots gives rise to none.
LEMMA WindowsSame ==
    ASSUME surface \in Surfaces, Windows, NEW old, NEW new, Fits(old), Fits(new),
           NEW i \in Items, old[i] = new[i]
    PROVE  i \notin Diff(old, new)
<1>1. Class(i) \in {"startup", "command", "listed"}
  BY Classes
<1>2. ~Differs(i, old, new)
  BY <1>1 DEF Differs
<1>3. QED
  BY <1>2 DEF Diff

\* The platform does not change.
LEMMA SamePlatform ==
    ASSUME [Next]_vars
    PROVE  surface' = surface
BY DEF Next, Monitor, Load, LoadFails, Stat, First, Save, Parked, Tick, Reload, Collect, Send,
       Done, Stop, Restart, AuditTruncate, AuditWrite, Edit, vars

-----------------------------------------------------------------------------
(* Each part of the invariant is preserved *)

LEMMA PlacedStep ==
    ASSUME Placed, [Next]_vars
    PROVE  Placed'
<1> USE DEF Placed, Windows
<1>1. CASE Monitor
  <2>1. CASE \E failed \in SUBSET Items : Collect(failed)
    BY <2>1 DEF Collect, Diff
  <2>2. CASE \E i \in Items : Send(i)
    BY <2>2 DEF Send
  <2>3. CASE Load \/ LoadFails \/ Stat \/ Tick \/ Reload
    BY <2>3 DEF Load, LoadFails, Stat, Tick, Reload
  <2>4. CASE First \/ Save \/ Done
    BY <2>4 DEF First, Save, Done
  <2>5. QED
    BY <1>1, <2>1, <2>2, <2>3, <2>4 DEF Monitor
<1>2. CASE Stop \/ Restart
  BY <1>2 DEF Stop, Restart
<1>3. CASE UNCHANGED <<surface, pc, pend>>
  BY <1>3
<1>4. QED
  BY <1>1, <1>2, <1>3 DEF Next, Parked, AuditTruncate, AuditWrite, Edit, vars, monitor

\* The bounds are numbers.
LEMMA Bounds == MaxEdits \in Nat /\ MaxAudits \in Nat /\ MaxStops \in Nat
BY PersistenceAssumption

\* What each kind of writer has made.
LEMMA WritesRange == Writes \in {0, 1, 2}
BY DEF Writes

LEMMA AuditWritesRange ==
    ASSUME audits \in Nat
    PROVE  /\ AuditWrites \in Int
           /\ audit = Absent => AuditWrites = 2 * audits
           /\ audit # Absent => AuditWrites = 2 * audits - 1
BY DEF AuditWrites

LEMMA CountedStep ==
    ASSUME Placed, Counted, Fitting, [Next]_vars
    PROVE  Counted'
<1>1. audits \in Nat /\ stops \in Nat /\ disk.mod \in Nat
  BY Bounds DEF Counted
<1>2. Writes \in {0, 1, 2} /\ AuditWrites \in Int
  BY <1>1, WritesRange, AuditWritesRange
<1>3. disk.mod <= AuditWrites + 2 * stops + Writes
  BY DEF Counted
<1>4. ASSUME UNCHANGED <<disk, audit, audits, stops>>, Writes' \in {0, 1, 2},
             Writes' >= Writes
      PROVE  Counted'
  <2>1. AuditWrites' = AuditWrites
    BY <1>4 DEF AuditWrites
  <2>2. /\ disk'.mod = disk.mod /\ stops' = stops /\ audits' = audits
        /\ Writes' \in Nat /\ Writes' >= Writes
    BY <1>4
  <2>3. disk'.mod <= AuditWrites' + 2 * stops' + Writes'
    BY <1>1, <1>2, <1>3, <2>1, <2>2
  <2>4. QED
    BY <1>1, <2>2, <2>3 DEF Counted
<1>5. CASE First
  <2>1. /\ Writes = 0
        /\ \/ disk' = disk /\ Writes' = 2
           \/ disk'.mod = disk.mod + 1 /\ Writes' = 1
    <3>1. CASE disk' = Truncated /\ pc' = "saving"
      BY <1>5, <3>1, TruncatedFile DEF First, Writes
    <3>2. CASE UNCHANGED disk /\ pc' = "parked"
      BY <1>5, <3>2 DEF First, Writes
    <3>3. QED
      BY <1>5, <3>1, <3>2 DEF First
  <2>2. AuditWrites' = AuditWrites /\ audits' = audits /\ stops' = stops
    BY <1>5 DEF First, AuditWrites
  <2>3. disk'.mod \in Nat /\ disk'.mod <= AuditWrites' + 2 * stops' + Writes'
    BY <1>1, <1>2, <1>3, <2>1, <2>2
  <2>4. QED
    BY <2>2, <2>3 DEF Counted
<1>6. CASE Save
  <2>1. disk'.mod = disk.mod \/ disk'.mod = disk.mod + 1
    BY <1>6, WrittenFile DEF Save
  <2>2. Writes = 1 /\ Writes' = 2
    BY <1>6 DEF Save, Writes
  <2>3. AuditWrites' = AuditWrites /\ audits' = audits /\ stops' = stops
    BY <1>6 DEF Save, AuditWrites
  <2>4. disk'.mod \in Nat /\ disk'.mod <= AuditWrites' + 2 * stops' + Writes'
    BY <1>1, <1>2, <1>3, <2>1, <2>2, <2>3
  <2>5. QED
    BY <2>3, <2>4 DEF Counted
<1>7. CASE Stop
  <2>1. Writes' = 0 /\ stops' = stops + 1 /\ stops < MaxStops
    BY <1>7 DEF Stop, Writes
  <2>2. AuditWrites' = AuditWrites /\ audits' = audits /\ disk' = disk
    BY <1>7 DEF Stop, AuditWrites
  <2>3. disk'.mod <= AuditWrites' + 2 * stops' + Writes'
    BY <1>1, <1>2, <1>3, <2>1, <2>2
  <2>4. stops' \in 0..MaxStops
    BY <1>1, <2>1, Bounds
  <2>5. QED
    BY <2>2, <2>3, <2>4 DEF Counted
<1>8. CASE AuditTruncate
  <2>1. /\ disk'.mod = disk.mod + 1 /\ audits' = audits + 1 /\ audits < MaxAudits
        /\ audit = Absent
    BY <1>8, TruncatedFile DEF AuditTruncate
  <2>2. AuditWrites = 2 * audits /\ AuditWrites' >= AuditWrites + 1 /\ AuditWrites' \in Int
    BY <1>1, <2>1 DEF AuditWrites
  <2>3. Writes' = Writes /\ stops' = stops
    BY <1>8 DEF AuditTruncate, Writes, monitor
  <2>4. disk'.mod \in Nat /\ disk'.mod <= AuditWrites' + 2 * stops' + Writes'
    BY <1>1, <1>2, <1>3, <2>1, <2>2, <2>3
  <2>5. audits' \in 0..MaxAudits
    BY <1>1, <2>1, Bounds
  <2>6. QED
    BY <2>3, <2>4, <2>5 DEF Counted
<1>9. CASE AuditWrite
  <2>1. disk'.mod = disk.mod \/ disk'.mod = disk.mod + 1
    BY <1>9, WrittenFile DEF AuditWrite
  <2>2. AuditWrites' = AuditWrites + 1
    BY <1>1, <1>9 DEF AuditWrite, AuditWrites
  <2>3. Writes' = Writes /\ stops' = stops /\ audits' = audits
    BY <1>9 DEF AuditWrite, Writes, monitor
  <2>4. disk'.mod \in Nat /\ disk'.mod <= AuditWrites' + 2 * stops' + Writes'
    BY <1>1, <1>2, <1>3, <2>1, <2>2, <2>3
  <2>5. QED
    BY <2>3, <2>4 DEF Counted
<1>10. CASE UNCHANGED <<disk, pc, audit, audits, stops>>
  <2>1. Writes' = Writes
    BY <1>10 DEF Writes
  <2>2. QED
    BY <1>2, <1>4, <1>10, <2>1
<1>11. CASE Load \/ LoadFails \/ Stat \/ Tick \/ Reload \/ Done \/ Restart
  <2>1. \/ Writes = 0 /\ Writes' \in {0, 2}
        \/ Writes' = Writes
    <3>1. CASE Load \/ LoadFails
      BY <3>1 DEF Load, LoadFails, Writes
    <3>2. CASE Restart
      BY <3>2 DEF Restart, Writes
    <3>3. CASE Stat \/ Tick \/ Reload \/ Done
      BY <3>3 DEF Stat, Tick, Reload, Done, Writes
    <3>4. QED
      BY <1>11, <3>1, <3>2, <3>3
  <2>2. UNCHANGED <<disk, audit, audits, stops>>
    BY <1>11 DEF Load, LoadFails, Stat, Tick, Reload, Done, Restart
  <2>3. Writes' \in {0, 1, 2} /\ Writes' >= Writes
    BY <1>2, <2>1
  <2>4. QED
    BY <1>4, <2>2, <2>3
<1>12. CASE (\E i \in Items : Send(i)) \/ (\E failed \in SUBSET Items : Collect(failed))
  <2>1. Writes' = Writes
    BY <1>12 DEF Send, Collect, Writes
  <2>2. UNCHANGED <<disk, audit, audits, stops>>
    BY <1>12 DEF Send, Collect
  <2>3. QED
    BY <1>2, <1>4, <2>1, <2>2
<1>13. QED
  BY <1>5, <1>6, <1>7, <1>8, <1>9, <1>10, <1>11, <1>12
  DEF Next, Monitor, Parked, Edit, vars, monitor

\* An edit of the host leaves every item in a state its class has.
LEMMA EditedFits ==
    ASSUME Fits(host), NEW i \in Items, NEW v \in 0..2, Edit(i, v)
    PROVE  Fits(host')
<1>1. host' \in Snapshots
  BY DEF Edit, Fits, Snapshots
<1>2. \A j \in Items : host'[j] \in States[Class(j)]
  BY DEF Edit, Fits, Snapshots
<1>3. QED
  BY <1>1, <1>2 DEF Fits

\* Fits does not depend on anything but the platform.
LEMMA FittingOn ==
    ASSUME surface' = surface,
           Fits(host'), Fits(base'), Fits(cur'),
           disk'.body \in {Absent, Torn} \/ Fits(disk'.body),
           audit' # Absent => Fits(audit')
    PROVE  Fitting'
BY DEF Fitting, Fits, Class

LEMMA FittingStep ==
    ASSUME Placed, Fitting, [Next]_vars
    PROVE  Fitting'
<1>1. surface \in Surfaces /\ surface' = surface
  BY SamePlatform DEF Placed
<1>2. Fits(Empty)
  BY <1>1, EmptyFits
<1>3. \A failed : Fits(Collected(failed))
  BY <1>1, CollectedFits DEF Fitting
<1>4. Fits(host')
  <2>1. CASE \E i \in Items, v \in 0..2 : Edit(i, v)
    BY <2>1, EditedFits DEF Fitting
  <2>2. CASE host' = host
    BY <2>2 DEF Fitting
  <2>3. QED
    BY <2>1, <2>2
    DEF Next, Monitor, Load, LoadFails, Stat, First, Save, Parked, Tick, Reload, Collect, Send,
        Done, Stop, Restart, AuditTruncate, AuditWrite, vars
<1>5. Fits(cur')
  <2>1. CASE \E failed \in SUBSET Items : Collect(failed)
    BY <2>1, <1>3 DEF Collect
  <2>2. CASE Stop
    BY <2>2, <1>2 DEF Stop
  <2>3. CASE cur' = cur
    BY <2>3 DEF Fitting
  <2>4. QED
    BY <2>1, <2>2, <2>3
    DEF Next, Monitor, Load, LoadFails, Stat, First, Save, Parked, Tick, Reload, Send, Done, Restart,
        AuditTruncate, AuditWrite, Edit, vars, monitor
<1>6. Fits(base')
  <2>1. CASE Load \/ Reload
    BY <2>1 DEF Load, Reload, Parses, Fitting
  <2>2. CASE First
    BY <2>2, <1>3 DEF First
  <2>3. CASE Done
    BY <2>3 DEF Done, Fitting
  <2>4. CASE Stop
    BY <2>4, <1>2 DEF Stop
  <2>5. CASE base' = base
    BY <2>5 DEF Fitting
  <2>6. QED
    BY <2>1, <2>2, <2>3, <2>4, <2>5
    DEF Next, Monitor, LoadFails, Stat, Save, Parked, Tick, Collect, Send, Restart,
        AuditTruncate, AuditWrite, Edit, vars, monitor
<1>7. audit' # Absent => Fits(audit')
  <2>1. CASE AuditTruncate
    BY <2>1, <1>3 DEF AuditTruncate
  <2>2. CASE AuditWrite
    BY <2>2 DEF AuditWrite
  <2>3. CASE audit' = audit
    BY <2>3 DEF Fitting
  <2>4. QED
    BY <2>1, <2>2, <2>3
    DEF Next, Monitor, Load, LoadFails, Stat, First, Save, Parked, Tick, Reload, Collect, Send,
        Done, Stop, Restart, Edit, vars
<1>8. disk'.body \in {Absent, Torn} \/ Fits(disk'.body)
  <2>1. CASE First
    BY <2>1, TruncatedFile DEF First, Fitting
  <2>2. CASE Save
    BY <2>2, WrittenFile DEF Save, Fitting
  <2>3. CASE AuditTruncate
    BY <2>3, TruncatedFile DEF AuditTruncate
  <2>4. CASE AuditWrite
    BY <2>4, WrittenFile DEF AuditWrite, Fitting
  <2>5. CASE disk' = disk
    BY <2>5 DEF Fitting
  <2>6. QED
    BY <2>1, <2>2, <2>3, <2>4, <2>5
    DEF Next, Monitor, Load, LoadFails, Stat, Parked, Tick, Reload, Collect, Send, Done, Stop,
        Restart, Edit, vars
<1>9. QED
  BY <1>1, <1>4, <1>5, <1>6, <1>7, <1>8, FittingOn

\* The modification time only grows.
LEMMA Later ==
    ASSUME Counted, [Next]_vars
    PROVE  disk'.mod \in Nat /\ disk.mod <= disk'.mod
<1>1. CASE disk' = Truncated
  BY <1>1, TruncatedFile DEF Counted
<1>2. CASE Save \/ AuditWrite
  BY <1>2, WrittenFile DEF Save, AuditWrite, Counted
<1>3. CASE disk' = disk
  BY <1>3 DEF Counted
<1>4. QED
  BY <1>1, <1>2, <1>3
  DEF Next, Monitor, Load, LoadFails, Stat, First, Parked, Tick, Reload, Collect, Send, Done, Stop,
      Restart, AuditTruncate, Edit, vars

LEMMA DatedStep ==
    ASSUME Counted, Dated, [Next]_vars
    PROVE  Dated'
<1>1. disk.mod \in Nat /\ disk'.mod \in Nat /\ disk.mod <= disk'.mod
  BY Later DEF Counted
<1> USE DEF Dated
<1>2. CASE Load
  BY <1>1, <1>2 DEF Load
<1>3. CASE Stat
  BY <1>1, <1>3 DEF Stat
<1>4. CASE Tick
  <2>1. statMod' = statMod \/ statMod' = disk.mod
    BY <1>4 DEF Tick
  <2>2. UNCHANGED <<disk, diskMod, loaded, startMod>>
    BY <1>4 DEF Tick, history
  <2>3. CASE statMod' = statMod
    BY <1>1, <2>2, <2>3
  <2>4. CASE statMod' = disk.mod
    BY <1>1, <2>2, <2>4
  <2>5. QED
    BY <2>1, <2>3, <2>4
<1>5. CASE Reload
  BY <1>1, <1>5 DEF Reload
<1>6. CASE Stop
  BY <1>1, <1>6 DEF Stop
<1>7. CASE UNCHANGED <<diskMod, statMod, loaded, startMod>>
  BY <1>1, <1>7
<1>8. QED
  BY <1>2, <1>3, <1>4, <1>5, <1>6, <1>7
  DEF Next, Monitor, LoadFails, First, Save, Parked, Collect, Send, Done, Restart, AuditTruncate,
      AuditWrite, Edit, vars, monitor, history

\* What was accepted or told stays so.
LEMMA KnownGrows ==
    ASSUME [Next]_vars
    PROVE  /\ approved \subseteq approved' /\ alerted \subseteq alerted'
           /\ \A i, v : Known(i, v) => Known(i, v)'
<1>1. approved \subseteq approved' /\ alerted \subseteq alerted'
  BY DEF Next, Monitor, Load, LoadFails, Stat, First, Save, Parked, Tick, Reload, Collect,
         Send, Done, Stop, Restart, AuditTruncate, AuditWrite, Edit, vars, history
<1>2. QED
  BY <1>1, SamePlatform DEF Known, Class

\* A pair made a baseline, or reported, is known.
LEMMA KnownPair ==
    ASSUME NEW i \in Items, NEW v \in States[Class(i)], <<i, v>> \in approved \cup alerted
    PROVE  Known(i, v)
BY DEF Known

LEMMA ApprovedKnown ==
    ASSUME NEW s, Fits(s), Pairs(s) \subseteq approved
    PROVE  AllKnown(s)
<1> SUFFICES ASSUME NEW i \in Items, s[i] # 0 PROVE Known(i, s[i])
  BY DEF AllKnown
<1>1. <<i, s[i]>> \in approved
  BY DEF Pairs
<1>2. s[i] \in States[Class(i)]
  BY DEF Fits
<1>3. QED
  BY <1>1, <1>2, KnownPair

\* Of what a sweep found and the monitor does not know, Diff makes an event.
LEMMA SweepSourced ==
    ASSUME Placed, Fitting, Sourced, NEW failed, Collect(failed), Windows,
           NEW i \in Items, cur'[i] # 0
    PROVE  Known(i, cur'[i]) \/ i \in pend'
<1>1. surface \in Surfaces /\ Fits(base) /\ Fits(cur')
  BY CollectedFits DEF Placed, Fitting, Collect
<1>2. CASE base[i] = cur'[i]
  BY <1>2 DEF Sourced, AllKnown
<1>3. CASE base[i] # 0 /\ Class(i) = "startup"
  <2>1. Known(i, base[i])
    BY <1>3 DEF Sourced, AllKnown
  <2>2. QED
    BY <1>3, <2>1 DEF Known
<1>4. CASE base[i] # cur'[i] /\ (base[i] = 0 \/ Class(i) # "startup")
  BY <1>1, <1>4, WindowsDiffers DEF Collect
<1>5. QED
  BY <1>2, <1>3, <1>4

LEMMA SourcedStep ==
    ASSUME Placed, Fitting, Sourced, [Next]_vars
    PROVE  Sourced'
<1>1. approved \subseteq approved' /\ \A i, v : Known(i, v) => Known(i, v)'
  BY KnownGrows
<1>2. Parses(disk') => Pairs(disk'.body) \subseteq approved'
  <2>1. CASE First \/ AuditTruncate
    BY <2>1, <1>1, TruncatedFile DEF First, AuditTruncate, Sourced
  <2>2. CASE Save
    BY <2>2, <1>1, WrittenFile DEF Save, Sourced, Parses
  <2>3. CASE AuditWrite
    BY <2>3, <1>1, WrittenFile DEF AuditWrite, Sourced, Parses
  <2>4. CASE disk' = disk
    BY <2>4, <1>1 DEF Sourced
  <2>5. QED
    BY <2>1, <2>2, <2>3, <2>4
    DEF Next, Monitor, Load, LoadFails, Stat, Parked, Tick, Reload, Collect, Send, Done, Stop,
        Restart, Edit, vars
<1>3. audit' # Absent => Pairs(audit') \subseteq approved'
  <2>1. CASE AuditTruncate
    BY <2>1 DEF AuditTruncate
  <2>2. CASE AuditWrite
    BY <2>2 DEF AuditWrite
  <2>3. CASE audit' = audit
    BY <2>3, <1>1 DEF Sourced
  <2>4. QED
    BY <2>1, <2>2, <2>3
    DEF Next, Monitor, Load, LoadFails, Stat, First, Save, Parked, Tick, Reload, Collect, Send, Done,
        Stop, Restart, Edit, vars
<1>4. AllKnown(base)'
  <2>1. Fits(base')
    BY FittingStep, SamePlatform DEF Fitting, Fits, Class
  <2>2. CASE Load \/ Reload
    <3>1. CASE base' = base
      BY <1>1, <3>1 DEF Sourced, AllKnown
    <3>2. CASE Parses(disk) /\ base' = disk.body
      <4>1. Fits(disk.body) /\ Pairs(disk.body) \subseteq approved
        BY <3>2 DEF Parses, Fitting, Sourced
      <4>2. AllKnown(disk.body)
        BY <4>1, ApprovedKnown
      <4>3. QED
        BY <1>1, <3>2, <4>2 DEF AllKnown
    <3>3. QED
      BY <2>2, <3>1, <3>2 DEF Load, Reload
  <2>3. CASE First
    <3>1. Pairs(base') \subseteq approved'
      BY <2>3 DEF First
    <3>2. \A i \in Items : base'[i] # 0 => <<i, base'[i]>> \in approved'
      BY <3>1, PairOf
    <3>3. \A i \in Items : base'[i] \in States[Class(i)]
      BY <2>1, SamePlatform DEF Fits, Class
    <3>4. QED
      BY <3>2, <3>3, SamePlatform DEF AllKnown, Known, Class
  <2>4. CASE Done
    <3>1. CASE Windows
      <4>1. base' = cur /\ pend = {} /\ pc = "send"
        BY <2>4, <3>1 DEF Done
      <4>2. \A i \in Items : cur[i] # 0 => Known(i, cur[i])
        BY <3>1, <4>1 DEF Sourced
      <4>3. QED
        BY <1>1, <4>1, <4>2 DEF AllKnown
    <3>2. CASE ~Windows
      BY <1>1, <2>4, <3>2 DEF Done, Sourced, AllKnown
    <3>3. QED
      BY <3>1, <3>2
  <2>5. CASE Stop
    BY <2>5 DEF Stop, Empty, AllKnown
  <2>6. CASE base' = base
    BY <2>6, <1>1 DEF Sourced, AllKnown
  <2>7. QED
    BY <2>2, <2>3, <2>4, <2>5, <2>6
    DEF Next, Monitor, LoadFails, Stat, Save, Parked, Tick, Collect, Send, Restart,
        AuditTruncate, AuditWrite, Edit, vars, monitor
<1>5. pc' = "saving" => Pairs(base') \subseteq approved'
  <2>1. CASE First
    BY <2>1 DEF First
  <2>2. CASE pc' = pc /\ base' = base
    BY <2>2, <1>1 DEF Sourced
  <2>3. CASE pc' # "saving"
    BY <2>3
  <2>4. QED
    BY <2>1, <2>2, <2>3
    DEF Next, Monitor, Load, LoadFails, Stat, Save, Parked, Tick, Reload, Collect, Send, Done, Stop,
        Restart, AuditTruncate, AuditWrite, Edit, vars, monitor
<1>6. ASSUME pc' = "send", Windows', NEW i \in Items, cur'[i] # 0
      PROVE  Known(i, cur[i])' \/ i \in pend'
  <2>1. Windows
    BY <1>6, SamePlatform DEF Windows
  <2>2. CASE \E failed \in SUBSET Items : Collect(failed)
    <3>1. Known(i, cur'[i]) \/ i \in pend'
      BY <2>1, <2>2, <1>6, SweepSourced
    <3>2. UNCHANGED <<surface, approved, alerted>>
      BY <2>2 DEF Collect
    <3>3. QED
      BY <3>1, <3>2 DEF Known, Class
  <2>3. CASE \E j \in Items : Send(j)
    <3>1. PICK j \in Items : Send(j)
      BY <2>3
    <3>2. /\ pc = "send" /\ cur' = cur /\ pend' = pend \ {j} /\ surface' = surface
          /\ alerted' = alerted \cup {<<j, cur[j]>>}
      BY <3>1 DEF Send
    <3>3. CASE i = j
      <4>1. cur[i] \in States[Class(i)] /\ <<i, cur[i]>> \in alerted'
        BY <3>2, <3>3 DEF Fitting, Fits
      <4>2. QED
        BY <3>2, <4>1 DEF Known, Class
    <3>4. CASE i # j
      <4>1. Known(i, cur[i]) \/ i \in pend
        BY <2>1, <3>2, <1>6 DEF Sourced
      <4>2. QED
        BY <1>1, <3>2, <3>4, <4>1
    <3>5. QED
      BY <3>3, <3>4
  <2>4. CASE pc' # "send"
    BY <2>4, <1>6
  <2>5. CASE UNCHANGED <<pc, cur, pend>>
    <3>1. Known(i, cur[i]) \/ i \in pend
      BY <2>1, <2>5, <1>6 DEF Sourced
    <3>2. QED
      BY <1>1, <2>5, <3>1
  <2>6. QED
    BY <2>2, <2>3, <2>4, <2>5
    DEF Next, Monitor, Load, LoadFails, Stat, First, Save, Parked, Tick, Reload, Done, Stop,
        Restart, AuditTruncate, AuditWrite, Edit, vars, monitor
<1>7. QED
  BY <1>2, <1>3, <1>4, <1>5, <1>6 DEF Sourced

\* A sweep finds what is at rest as the baseline has it, so it is not sent.
LEMMA SweepAtRest ==
    ASSUME Placed, Fitting, AtRest, NEW failed, Collect(failed), Windows,
           NEW i \in settled'
    PROVE  cur'[i] = host'[i] /\ i \notin pend'
<1>1. i \in settled /\ i \in Items /\ i \notin failed /\ pc = "collect"
  BY DEF Collect, AtRest
<1>2. cur'[i] = host[i] /\ base[i] = host[i] /\ host' = host
  BY <1>1 DEF Collect, Collected, AtRest
<1>3. surface \in Surfaces /\ Fits(base) /\ Fits(cur')
  BY CollectedFits DEF Placed, Fitting, Collect
<1>4. i \notin Diff(base, cur')
  BY <1>1, <1>2, <1>3, WindowsSame
<1>5. QED
  BY <1>2, <1>4 DEF Collect

LEMMA AtRestStep ==
    ASSUME Placed, Fitting, AtRest, [Next]_vars
    PROVE  AtRest'
<1>1. Windows' <=> Windows
  BY SamePlatform DEF Windows
<1> USE DEF AtRest
<1>2. CASE \E failed \in SUBSET Items : Collect(failed)
  <2>1. settled' \subseteq settled /\ pc' = "send"
    BY <1>2 DEF Collect
  <2>2. Windows => \A i \in settled' : cur'[i] = host'[i] /\ i \notin pend'
    BY <1>2, SweepAtRest
  <2>3. QED
    BY <1>1, <2>1, <2>2
<1>3. CASE \E j \in Items : Send(j)
  <2>1. PICK j \in Items : Send(j)
    BY <1>3
  <2>2. /\ settled' = IF cur[j] = host[j] THEN settled \cup {j} ELSE settled
        /\ pc' = "send" /\ pc = "send" /\ pend' = pend \ {j}
        /\ UNCHANGED <<cur, host>>
    BY <2>1 DEF Send
  <2>3. QED
    BY <1>1, <2>2
<1>4. CASE Done
  BY <1>1, <1>4 DEF Done, Windows, history
<1>5. CASE Stop
  BY <1>5 DEF Stop
<1>6. CASE \E j \in Items, v \in 0..2 : Edit(j, v)
  <2>1. PICK j \in Items, v \in 0..2 : Edit(j, v)
    BY <1>6
  <2>2. /\ settled' = settled \ {j}
        /\ \A i \in Items \ {j} : host'[i] = host[i]
        /\ UNCHANGED <<pc, base, cur, pend>>
    BY <2>1 DEF Edit, monitor, Fitting, Fits, Snapshots
  <2>3. QED
    BY <1>1, <2>2
<1>7. CASE Tick
  BY <1>1, <1>7 DEF Tick, history
<1>8. CASE Reload
  BY <1>1, <1>8 DEF Reload
<1>9. CASE Load \/ LoadFails \/ Stat \/ First \/ Save \/ Restart
  BY <1>1, <1>9 DEF Load, LoadFails, Stat, First, Save, Restart, history
<1>10. CASE UNCHANGED <<pc, base, cur, pend, host, settled>>
  BY <1>1, <1>10
<1>11. QED
  BY <1>2, <1>3, <1>4, <1>5, <1>6, <1>7, <1>8, <1>9, <1>10
  DEF Next, Monitor, Parked, AuditTruncate, AuditWrite, vars, monitor, history

-----------------------------------------------------------------------------
(* The invariant, and what it implies *)

LEMMA PersistenceInit == Init => PersistenceInv
<1> SUFFICES ASSUME Init PROVE PersistenceInv
  OBVIOUS
<1>1. Placed
  BY DEF Init, Placed
<1>2. Counted
  BY Bounds DEF Init, Counted, Writes, AuditWrites
<1>3. Fitting
  BY <1>1, EmptyFits DEF Init, Fitting, Placed, Fits
<1>4. Dated
  BY DEF Init, Dated
<1>5. Sourced
  BY <1>1, EmptyFits DEF Init, Sourced, Placed, Parses, AllKnown, Empty
<1>6. AtRest
  BY DEF Init, AtRest
<1>7. QED
  BY <1>1, <1>2, <1>3, <1>4, <1>5, <1>6 DEF PersistenceInv

LEMMA PersistenceStep == PersistenceInv /\ [Next]_vars => PersistenceInv'
BY PlacedStep, CountedStep, FittingStep, DatedStep, SourcedStep, AtRestStep
DEF PersistenceInv

LEMMA PersistenceInvariant == Spec => []PersistenceInv
BY PersistenceInit, PersistenceStep, PTL DEF Spec

\* The variables have the values the code gives them, and the baseline file is
\* written at most twice by an audit and by a start of the monitor
\* (monitors/persistence_linux.go:34-48, app/app_linux.go:80-96).
THEOREM PersistenceTypes == Spec => []TypeOK
<1>1. ASSUME PersistenceInv
      PROVE  TypeOK
  <2> USE <1>1 DEF PersistenceInv
  <2>1. /\ surface \in Surfaces
        /\ pend \subseteq Items
        /\ pc \in {"stat", "reload"} => Windows
        /\ pend # {} => pc = "send"
    BY DEF Placed
  <2>2. pc \in {"load", "ended", "stat", "collect first", "saving", "parked", "wait",
               "reload", "collect", "send", "down"}
    BY DEF Placed
  <2>3. /\ host \in Snapshots /\ \A i \in Items : host[i] \in States[Class(i)]
        /\ base \in Snapshots /\ cur \in Snapshots
        /\ audit \in Snapshots \cup {Absent} /\ disk.body \in Bodies
    BY DEF Fitting, Fits, Bodies
  <2>4. disk.mod <= 2 * (MaxAudits + MaxStops + 1)
    <3>1. audits \in Nat /\ stops \in Nat /\ disk.mod \in Nat
          /\ audits <= MaxAudits /\ stops <= MaxStops
      BY Bounds DEF Counted
    <3>2. AuditWrites \in Int /\ AuditWrites <= 2 * audits /\ Writes \in {0, 1, 2}
      BY <3>1, AuditWritesRange, WritesRange
    <3>3. disk.mod <= AuditWrites + 2 * stops + Writes
      BY DEF Counted
    <3>4. QED
      BY <3>1, <3>2, <3>3, Bounds
  <2>5. diskMod <= disk.mod /\ statMod <= disk.mod
    BY DEF Dated
  <2>6. QED
    BY <2>1, <2>2, <2>3, <2>4, <2>5 DEF TypeOK
<1>2. QED
  BY <1>1, PersistenceInvariant, PTL

\* Nothing is known to a running monitor that was neither in a snapshot made a
\* baseline nor in an event: what came up during a sweep, while the monitor was
\* down, while an audit wrote or while collectors failed is not taken in silently
\* (monitors/persistence_windows.go:93-99).  All that may be is another size of a
\* startup item known already, which no diff compares (:228-232).
THEOREM PersistenceAccounts == Spec => []Accounted
<1>1. PersistenceInv => Accounted
  BY DEF PersistenceInv, Sourced, AllKnown, Accounted
<1>2. QED
  BY <1>1, PersistenceInvariant, PTL

\* A Windows sweep that does not reload compares with what is in the file, or
\* with a baseline that was there when Start looked at the file's age
\* (monitors/persistence_windows.go:79-92).
THEOREM PersistenceRebaselines == Spec => RebaselineAdopted
<1>1. ASSUME PersistenceInv, [Next]_vars
      PROVE  [ (pc = "wait" /\ pc' = "collect" /\ Windows /\ Parses(disk))
               => (loaded = disk.mod \/ disk.mod <= startMod) ]_vars
  <2> SUFFICES ASSUME pc = "wait", pc' = "collect", Windows
               PROVE  loaded = disk.mod \/ disk.mod <= startMod
    OBVIOUS
  <2>1. Tick
    BY <1>1 DEF Next, Monitor, Load, LoadFails, Stat, First, Save, Parked, Reload, Collect, Send,
                Done, Stop, Restart, AuditTruncate, AuditWrite, Edit, vars, monitor
  <2>2. ~(disk.mod > diskMod)
    BY <2>1 DEF Tick
  <2>3. disk.mod \in Nat
    BY <1>1 DEF PersistenceInv, Counted
  <2>4. QED
    BY <1>1, <2>2, <2>3 DEF PersistenceInv, Dated
<1>2. QED
  BY <1>1, PersistenceInvariant, PTL DEF Spec, RebaselineAdopted

\* What a Windows sweep reported and has not changed since is not sent again
\* (monitors/persistence_windows.go:97-99).
THEOREM PersistenceTransitions == Spec => TransitionsOnly
<1>1. ASSUME PersistenceInv
      PROVE  \A i \in Items : Windows /\ i \in settled => ~(i \in pend /\ i \notin pend')
  BY <1>1 DEF PersistenceInv, Placed, AtRest
<1>2. QED
  BY <1>1, PersistenceInvariant, PTL DEF Spec, TransitionsOnly
=============================================================================
