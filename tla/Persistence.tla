----------------------------- MODULE Persistence -----------------------------
(***************************************************************************)
(* The persistence monitor of both platforms, the baseline file, and       *)
(* "elmer audit --write-baseline", a second process that rewrites the file *)
(* while the monitor may be running.  A snapshot says for each item of the *)
(* host's persistence surface whether it is there (0: it is not) and in    *)
(* which state; collecting one is a single step.                           *)
(*                                                                         *)
(* os.WriteFile truncates and then writes: in between, and when the writer *)
(* dies there, the file is Torn and does not parse.                        *)
(***************************************************************************)
EXTENDS Naturals, FiniteSets

CONSTANTS
    Items,      \* accounts, binaries, units, keys, ... looked at
    Surfaces,   \* records [os, class]: a platform, and what each item is on it
    Absent,     \* the body of the file when there is none
    Torn,       \* the body of a file json.Unmarshal refuses
    MaxEdits,   \* bound: changes made to the host
    MaxAudits,  \* bound: runs of elmer audit --write-baseline
    MaxStops    \* bound: times the monitor's process ends

\* What a state of an item can be, by class.  An account is uid:gid:shell; a
\* hash is the shadow marker, 1 being the empty one; a SUID file has a sha256; keys
\* are counted; a startup item has a size; a command is a Run key or service; a
\* listed item (sudo rule, unit, cron file, module, uid 0, preload; on Windows
\* task, administrator) is there or not.
States == [account |-> 0..2, hash |-> 0..2, suid |-> 0..2, keys |-> 0..2,
           startup |-> 0..2, command |-> 0..2, listed |-> 0..1]

Snapshots == [Items -> 0..2]

ASSUME PersistenceAssumption ==
    /\ Absent # Torn /\ Absent \notin Snapshots /\ Torn \notin Snapshots
    /\ \A s \in Surfaces : /\ s.os \in {"linux", "windows"}
                           /\ s.class \in [Items -> DOMAIN States]
                           /\ s.os = "windows" => \A i \in Items :
                                  s.class[i] \in {"startup", "command", "listed"}
    /\ MaxEdits \in Nat /\ MaxAudits \in Nat /\ MaxStops \in Nat

VARIABLES
    surface,    \* the platform
    host,       \* host[i]: the state of item i
    disk,       \* the baseline file: its body and modification time
    pc,         \* where PersistenceMonitor.Start is
    base,       \* baseline
    cur,        \* the snapshot of this sweep
    pend,       \* events of this sweep still to be sent
    diskMod,    \* Windows: modification time of the baseline in use
    statMod,    \* Windows: the time the Stat of this tick returned
    audit,      \* the audit's snapshot while it writes, Absent otherwise
    edits, audits, stops,
    startMod,   \* history: the time the Stat of Start returned
    loaded,     \* history: modification time of what was last loaded
    approved,   \* history: pairs <<item, state>> of snapshots made a baseline
    alerted,    \* history: pairs <<item, state>> reported
    reported,   \* history: items reported since they last changed
    settled     \* history: items reported, and not unread or reloaded since

monitor == <<pc, base, cur, pend, diskMod, statMod>>
history == <<startMod, loaded, approved, alerted, reported, settled>>
vars == <<surface, host, disk, monitor, audit, edits, audits, stops, history>>

Windows == surface.os = "windows"
Class(i) == surface.class[i]
Empty == [i \in Items |-> 0]
Pairs(s) == {<<i, s[i]>> : i \in {i \in Items : s[i] # 0}}

Init ==
    /\ surface \in Surfaces
    /\ host \in {s \in Snapshots : \A i \in Items : s[i] \in {0, 1} \cap States[Class(i)]}
    /\ disk = [body |-> Absent, mod |-> 0]
    /\ pc = "load" /\ base = Empty /\ cur = Empty /\ pend = {}
    /\ diskMod = 0 /\ statMod = 0
    /\ audit = Absent
    /\ edits = 0 /\ audits = 0 /\ stops = 0
    /\ startMod = 0 /\ loaded = 0
    /\ approved = {} /\ alerted = {} /\ reported = {} /\ settled = {}

-----------------------------------------------------------------------------
(* Snapshots and the file *)

Parses(f) == f.body \notin {Absent, Torn}

Truncated == [body |-> Torn, mod |-> disk.mod + 1]

\* A writer that finds the other's complete text in the file it had truncated
\* writes over it: unless its own is at least as long, the rest stays behind.
Written(s) ==
    {[body |-> b, mod |-> disk.mod + 1] : b \in IF Parses(disk) THEN {s, Torn} ELSE {s}}

\* Whatever cannot be opened, read or run (a file, a directory, a registry key,
\* schtasks, net) lists nothing: the item is not there.
Collected(failed) == [i \in Items |-> IF i \in failed THEN 0 ELSE host[i]]

\* DiffPersistence and DiffPersistenceWin: does item i give rise to an event?  Of
\* SUID files and startup items the hash and the size are not compared.
Differs(i, old, new) ==
    \/ old[i] = 0 /\ new[i] # 0 /\ Class(i) # "hash"
    \/ /\ old[i] # 0 /\ new[i] # 0 /\ old[i] # new[i]
       /\ Class(i) \in {"account", "hash", "command"}
    \/ old[i] # 0 /\ new[i] = 0 /\ Class(i) \in {"account", "suid"}
    \/ Class(i) = "hash" /\ old[i] # 1 /\ new[i] = 1
    \/ Class(i) = "keys" /\ new[i] > old[i]

Diff(old, new) == {i \in Items : Differs(i, old, new)}

-----------------------------------------------------------------------------
(* PersistenceMonitor.Start *)

\* Load the baseline.  Without one, the first run begins.
Load ==
    /\ pc = "load"
    /\ IF Parses(disk)
       THEN /\ base' = disk.body /\ loaded' = disk.mod
            /\ pc' = IF Windows THEN "stat" ELSE "wait"
       ELSE pc' = "collect first" /\ UNCHANGED <<base, loaded>>
    /\ UNCHANGED <<surface, host, disk, cur, pend, diskMod, statMod, audit, edits,
                   audits, stops, startMod, approved, alerted, reported, settled>>

\* There is no directory for the file: the monitor returns the error.
LoadFails ==
    /\ pc = "load"
    /\ pc' = "ended"
    /\ UNCHANGED <<surface, host, disk, base, cur, pend, diskMod, statMod, audit, edits,
                   audits, stops, history>>

\* Windows: note the age of the file, which may no longer be the one loaded.
Stat ==
    /\ pc = "stat"
    /\ diskMod' = disk.mod /\ startMod' = disk.mod
    /\ pc' = "wait"
    /\ UNCHANGED <<surface, host, disk, base, cur, pend, statMod, audit, edits,
                   audits, stops, loaded, approved, alerted, reported, settled>>

\* First run: the surface as it is becomes the baseline, saved if it can be.
First ==
    /\ pc = "collect first"
    /\ \E failed \in SUBSET Items : base' = Collected(failed)
    /\ approved' = approved \cup Pairs(base')
    /\ \/ disk' = Truncated /\ pc' = "saving"
       \/ UNCHANGED disk /\ pc' = "parked"
    /\ UNCHANGED <<surface, host, cur, pend, diskMod, statMod, audit, edits, audits,
                   stops, startMod, loaded, alerted, reported, settled>>

\* The write, complete or failing; either way the monitor then waits for ctx.
Save ==
    /\ pc = "saving"
    /\ disk' \in Written(base) \cup {disk}
    /\ pc' = "parked"
    /\ UNCHANGED <<surface, host, base, cur, pend, diskMod, statMod, audit, edits,
                   audits, stops, history>>

\* <-ctx.Done(), or the end.
Parked == pc \in {"parked", "ended"} /\ UNCHANGED vars

\* The ticker fires.  On Windows a file newer than the baseline is loaded.
Tick ==
    /\ pc = "wait"
    /\ IF Windows /\ disk.mod > diskMod
       THEN pc' = "reload" /\ statMod' = disk.mod
       ELSE pc' = "collect" /\ UNCHANGED statMod
    /\ UNCHANGED <<surface, host, disk, base, cur, pend, diskMod, audit, edits,
                   audits, stops, history>>

Reload ==
    /\ pc = "reload"
    /\ IF Parses(disk)
       THEN /\ base' = disk.body /\ loaded' = disk.mod
            /\ diskMod' = statMod
            /\ settled' = {}
       ELSE UNCHANGED <<base, loaded, diskMod, settled>>
    /\ pc' = "collect"
    /\ UNCHANGED <<surface, host, disk, cur, pend, statMod, audit, edits, audits,
                   stops, startMod, approved, alerted, reported>>

\* Fault: the time of the file is taken after it was loaded.
CollectLateStat(failed) ==
    /\ pc = "collect"
    /\ cur' = Collected(failed)
    /\ settled' = settled \ failed
    /\ pend' = Diff(base, cur')
    /\ diskMod' = disk.mod
    /\ pc' = "send"
    /\ UNCHANGED <<surface, host, disk, base, statMod, audit, edits, audits, stops,
                   startMod, loaded, approved, alerted, reported>>

\* The sweep: collect, and compare with the baseline.
Collect(failed) ==
    /\ pc = "collect"
    /\ cur' = Collected(failed)
    /\ settled' = settled \ failed
    /\ pend' = Diff(base, cur')
    /\ pc' = "send"
    /\ UNCHANGED <<surface, host, disk, base, diskMod, statMod, audit, edits, audits,
                   stops, startMod, loaded, approved, alerted, reported>>

\* out <- ev, for one event of the sweep.
Send(i) ==
    /\ pc = "send" /\ i \in pend
    /\ pend' = pend \ {i}
    /\ alerted' = alerted \cup {<<i, cur[i]>>}
    /\ IF cur[i] = host[i]
       THEN reported' = reported \cup {i} /\ settled' = settled \cup {i}
       ELSE UNCHANGED <<reported, settled>>
    /\ UNCHANGED <<surface, host, disk, pc, base, cur, diskMod, statMod, audit, edits,
                   audits, stops, startMod, loaded, approved>>

\* Fault: Windows collects once more for the new baseline.
DoneRecollects ==
    /\ pc = "send" /\ pend = {}
    /\ base' = IF Windows THEN Collected({}) ELSE base
    /\ pc' = "wait"
    /\ UNCHANGED <<surface, host, disk, cur, pend, diskMod, statMod, audit, edits,
                   audits, stops, history>>

\* Fault: Windows keeps the baseline, as Linux does.
DoneKeeps ==
    /\ pc = "send" /\ pend = {}
    /\ pc' = "wait"
    /\ UNCHANGED <<surface, host, disk, base, cur, pend, diskMod, statMod, audit,
                   edits, audits, stops, history>>

\* Fault: the sweep is over with events unsent.
DoneEarly ==
    /\ pc = "send"
    /\ base' = IF Windows THEN cur ELSE base
    /\ pc' = "wait"
    /\ UNCHANGED <<surface, host, disk, cur, pend, diskMod, statMod, audit, edits,
                   audits, stops, history>>

\* Fault: the loop ends with its first sweep.
DoneParks ==
    /\ pc = "send" /\ pend = {}
    /\ base' = IF Windows THEN cur ELSE base
    /\ pc' = "parked"
    /\ UNCHANGED <<surface, host, disk, cur, pend, diskMod, statMod, audit, edits,
                   audits, stops, history>>

\* All sent.  Windows alerts on transitions: the sweep is the next baseline.
Done ==
    /\ pc = "send" /\ pend = {}
    /\ base' = IF Windows THEN cur ELSE base
    /\ pc' = "wait"
    /\ UNCHANGED <<surface, host, disk, cur, pend, diskMod, statMod, audit, edits,
                   audits, stops, history>>

\* app.Run returns or the process dies, wherever the monitor is.
Stop ==
    /\ pc # "down" /\ stops < MaxStops
    /\ pc' = "down" /\ stops' = stops + 1
    /\ base' = Empty /\ cur' = Empty /\ pend' = {}
    /\ diskMod' = 0 /\ statMod' = 0
    /\ startMod' = 0 /\ loaded' = 0 /\ settled' = {}
    /\ UNCHANGED <<surface, host, disk, audit, edits, audits, approved, alerted,
                   reported>>

Restart ==
    /\ pc = "down"
    /\ pc' = "load"
    /\ UNCHANGED <<surface, host, disk, base, cur, pend, diskMod, statMod, audit,
                   edits, audits, stops, history>>

-----------------------------------------------------------------------------
(* elmer audit --write-baseline *)

AuditTruncate ==
    /\ audit = Absent /\ audits < MaxAudits
    /\ \E failed \in SUBSET Items : audit' = Collected(failed)
    /\ approved' = approved \cup Pairs(audit')
    /\ disk' = Truncated
    /\ audits' = audits + 1
    /\ UNCHANGED <<surface, host, monitor, edits, stops, startMod, loaded, alerted,
                   reported, settled>>

\* The write, or the audit dies before it.
AuditWrite ==
    /\ audit # Absent
    /\ disk' \in Written(audit) \cup {disk}
    /\ audit' = Absent
    /\ UNCHANGED <<surface, host, monitor, edits, audits, stops, history>>

-----------------------------------------------------------------------------
(* The host *)

Edit(i, v) ==
    /\ edits < MaxEdits
    /\ v # host[i] /\ v \in States[Class(i)]
    /\ host' = [host EXCEPT ![i] = v]
    /\ reported' = reported \ {i} /\ settled' = settled \ {i}
    /\ edits' = edits + 1
    /\ UNCHANGED <<surface, disk, monitor, audit, audits, stops, startMod, loaded,
                   approved, alerted>>

Monitor ==
    \/ Load \/ LoadFails \/ Stat \/ First \/ Save
    \/ Tick \/ Reload \/ (\E failed \in SUBSET Items : Collect(failed))
    \/ (\E i \in Items : Send(i)) \/ Done

Next ==
    \/ Monitor \/ Parked
    \/ Stop \/ Restart
    \/ AuditTruncate \/ AuditWrite
    \/ \E i \in Items, v \in 0..2 : Edit(i, v)

\* A running monitor runs on: the ticker ticks, and the main loop takes what
\* is sent (Pipeline.tla).  A collector does not fail for good.  Nothing makes
\* anybody restart the monitor or run an audit.
Fairness == WF_vars(Monitor) /\ SF_vars(Collect({}))

Spec == Init /\ [][Next]_vars /\ Fairness

-----------------------------------------------------------------------------
(* Properties *)

Running == pc \notin {"down", "load", "ended", "collect first"}
Bodies == Snapshots \cup {Torn, Absent}

TypeOK ==
    /\ surface \in Surfaces
    /\ host \in Snapshots /\ \A i \in Items : host[i] \in States[Class(i)]
    /\ disk.body \in Bodies /\ disk.mod <= 2 * (MaxAudits + MaxStops + 1)
    /\ pc \in {"load", "ended", "stat", "collect first", "saving", "parked", "wait",
               "reload", "collect", "send", "down"}
    /\ base \in Snapshots /\ cur \in Snapshots /\ pend \subseteq Items
    /\ diskMod <= disk.mod /\ statMod <= disk.mod
    /\ audit \in Snapshots \cup {Absent}
    /\ pc \in {"stat", "reload"} => Windows
    /\ pend # {} => pc = "send"

\* Approved, or alerted about, in this state; of a startup item, in any.
Known(i, v) ==
    \E w \in States[Class(i)] :
        /\ <<i, w>> \in approved \cup alerted
        /\ w = v \/ Class(i) = "startup"

\* An item is in the monitor's memory as known only if a snapshot that was made
\* a baseline had it so or an event reported it: whatever came up during a sweep, a
\* crash or an audit, and whichever collectors failed (persistence_windows.go:93-99).
\* The size of a startup item is the exception: "baseline = cur" takes a changed
\* one in without an event, as only new items are reported (:228-232).
Accounted == Running => \A i \in Items : base[i] # 0 => Known(i, base[i])

\* On Windows a new baseline file is used by the next sweep, unless it was there
\* when Start looked at the file's age (vm/README.md:246-248): a tick that does
\* not reload has already loaded what is in the file.
RebaselineAdopted ==
    [][ (pc = "wait" /\ pc' = "collect" /\ Windows /\ Parses(disk))
        => (loaded = disk.mod \/ disk.mod <= startMod) ]_vars

\* "Alert on transitions, not every sweep" (persistence_windows.go:97-98): what
\* was reported is not reported again until it changes, a collector fails to
\* list it, or another baseline is loaded.
TransitionsOnly ==
    [][ \A i \in Items : Windows /\ i \in settled => ~(i \in pend /\ i \notin pend') ]_vars

NewTo(i) == i \in Diff(base, host) /\ i \notin reported

\* A sweeping monitor reports what stays different from its baseline, if it is a
\* difference DiffPersistence(Win) makes an event of, however often collectors fail
\* before a sweep in which they do not.  No event is made, then or ever, of a removed
\* sudo rule, unit, task, administrator or key, of a SUID file with another hash
\* (persistence_linux.go:329-339) or a startup item of another size.
SweepDetects ==
    \A i \in Items : (pc = "wait" /\ NewTo(i)) ~> (~NewTo(i) \/ pc = "down")

\* "PersistenceMonitor periodically sweeps persistence locations [...] and diffs
\* against a baseline" (persistence_linux.go:21-23): the monitor that has just
\* made the baseline as much as any other.
FirstRunSweeps ==
    \A i \in Items : (pc = "parked" /\ NewTo(i)) ~> (~NewTo(i) \/ pc = "down")
=============================================================================
