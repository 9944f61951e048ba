--------------------------- MODULE Monitors_proofs ---------------------------
(***************************************************************************)
(* Proofs about the monitors that poll /proc and compare a sweep with the   *)
(* one before, and about those that follow a log: that the gaps between one *)
(* reading and the next give neither an exec event for a pid on which       *)
(* nothing happened, nor two events for one opening of a socket; that over  *)
(* rotations and truncations no line is parsed twice, out of order or in    *)
(* part; that the Windows event log is handed on in order and whole; and    *)
(* that the walk of a tree by path misses no directory made or moved then.  *)
(***************************************************************************)
EXTENDS ProcWatch, NetPoll, AuthTail, WinEvt, FileWatch, Integers, SequenceTheorems,
        FiniteSetTheorems, WellFoundedInduction, TLAPS

-----------------------------------------------------------------------------
(* ProcWatch: what a scan has seen of a pid that did not change since *)

Shown == (Exes \cup {NoText}) \X (Cmdlines \cup {NoText})

\* What the scans keep has its type, there is nothing to be seen of a pid nobody
\* has, and a count of failures that is 0 was always 0.
ProcTyped ==
    /\ pwTier \in Tiers
    /\ pwAlive \subseteq Pids
    /\ pwShow \in [Pids -> Shown] /\ \A p \in Pids \ pwAlive : pwShow[p] = Nothing
    /\ pwPrev \in [Pids -> Shown]
    /\ pwCur \in [Pids -> Shown]
    /\ pwFails \in Nat

Reading == pwPc \in {"exe", "cmdline", "status"}

\* emitExec goes back to the loop of runPolling.
ProcReturns == Reading => pwBack = "diff"

Scanning == pwPc \in {"scan", "scan first"}
Comparing == pwPc = "diff" \/ Reading

\* The entry a scan makes of p as it is now: none, if the link cannot be read.
ShowsNow(entry, p) == entry = IF pwShow[p][1] = NoText THEN Nothing ELSE pwShow[p]

\* Of p nothing was read yet, or the link it still has.
HalfRead(entry, p) ==
    \/ entry = Nothing
    \/ pwShow[p][1] # NoText /\ entry = <<pwShow[p][1], NoText>>

\* A scan in progress has p yet to read, or has read what p still shows.
ScanSound ==
    Scanning => \A p \in Pids \ pwSince :
                    IF p \in pwTodo THEN HalfRead(pwCur[p], p) ELSE ShowsNow(pwCur[p], p)

\* Once it is complete, it shows every pid that did not change since it began.
CurSound == Comparing => \A p \in Pids \ pwSince : ShowsNow(pwCur[p], p)

\* prev is of the scan before, and of the last one when the ticker is awaited.
PrevSound ==
    /\ pwPc = "tick" => \A p \in Pids \ pwSince : ShowsNow(pwPrev[p], p)
    /\ (pwPc = "scan" \/ Comparing) =>
           \A p \in Pids \ pwSincePrev : ShowsNow(pwPrev[p], p)

\* What is to be emitted changed.
TodoNew == Comparing => pwTodo \subseteq pwSincePrev

ProcInv ==
    /\ ProcTyped /\ ProcReturns /\ pwSince \subseteq pwSincePrev
    /\ pwFails = 0 => ScanSound /\ CurSound /\ PrevSound /\ TodoNew

LEMMA ProcInitInv == ASSUME ProcAssumption, ProcInit PROVE ProcInv
<1>1. ProcTyped
  BY DEF ProcInit, NothingRuns, Nothing, ProcTyped, Shown
<1>2. pwPc = "start" /\ pwSince = {}
  BY DEF ProcInit
<1> QED
  BY <1>1, <1>2 DEF ProcInv, ProcReturns, ScanSound, CurSound, PrevSound, TodoNew,
     Scanning, Comparing, Reading

\* Whatever befalls a pid, the monitor's part stays, and the pid is marked if what
\* it shows is not what it showed.
LEMMA ProcShownInv ==
    ASSUME ProcInv, NEW p \in Pids,
           NEW exe \in Exes \cup {NoText}, NEW cmdline \in Cmdlines \cup {NoText},
           Shows(p, exe, cmdline),
           pwAlive' \subseteq Pids, pwAlive \ {p} \subseteq pwAlive',
           p \in pwAlive' \/ <<exe, cmdline>> = Nothing,
           UNCHANGED <<pwTier, pwTodo, pwPrev, pwCur, pwFails, pwPc, pwBack>>
    PROVE  ProcInv'
<1>1. /\ pwShow' = [pwShow EXCEPT ![p] = <<exe, cmdline>>]
      /\ pwShow' \in [Pids -> Shown] /\ pwShow'[p] = <<exe, cmdline>>
      /\ \A q \in Pids \ {p} : pwShow'[q] = pwShow[q]
  BY DEF Shows, ProcInv, ProcTyped, Shown
<1>2. /\ pwSince \subseteq pwSince' /\ pwSincePrev \subseteq pwSincePrev'
      /\ pwSince' \subseteq pwSincePrev'
      /\ \A q \in Pids \ pwSince' : pwShow'[q] = pwShow[q]
      /\ \A q \in Pids \ pwSincePrev' : pwShow'[q] = pwShow[q]
  <2>1. CASE pwShow[p] = <<exe, cmdline>>
    BY <1>1, <2>1 DEF Shows, ProcInv
  <2>2. CASE pwShow[p] # <<exe, cmdline>>
    BY <1>1, <2>2 DEF Shows, ProcInv
  <2> QED
    BY <2>1, <2>2
<1>3. ProcTyped' /\ ProcReturns'
  BY <1>1 DEF ProcInv, ProcTyped, ProcReturns, Reading
<1>4. ASSUME pwFails = 0 PROVE ScanSound'
  BY <1>2, <1>4 DEF ProcInv, ScanSound, Scanning, ShowsNow, HalfRead
<1>5. ASSUME pwFails = 0 PROVE CurSound' /\ PrevSound' /\ TodoNew'
  BY <1>2, <1>5 DEF ProcInv, CurSound, PrevSound, TodoNew, Comparing, Reading, ShowsNow
<1> QED
  BY <1>2, <1>3, <1>4, <1>5 DEF ProcInv

LEMMA ProcOthersInv == ASSUME ProcInv, ProcOthers PROVE ProcInv'
<1> USE DEF procHost, procScan, procEmit
<1>1. pwAlive \subseteq Pids
  BY DEF ProcInv, ProcTyped
<1>2. PICK p \in Pids :
          \/ \E exe \in Exes \cup {NoText}, cmdline \in Cmdlines \cup {NoText} :
                 ProcExec(p, exe, cmdline) \/ ProcAlter(p, exe, cmdline)
          \/ ProcExit(p)
  BY DEF ProcOthers
<1>3. ASSUME NEW exe \in Exes \cup {NoText}, NEW cmdline \in Cmdlines \cup {NoText},
             ProcExec(p, exe, cmdline)
      PROVE  ProcInv'
  BY <1>1, <1>3, ProcShownInv DEF ProcExec
<1>4. ASSUME NEW exe \in Exes \cup {NoText}, NEW cmdline \in Cmdlines \cup {NoText},
             ProcAlter(p, exe, cmdline)
      PROVE  ProcInv'
  BY <1>1, <1>4, ProcShownInv DEF ProcAlter
<1>5. CASE ProcExit(p)
  BY <1>1, <1>5, ProcShownInv DEF ProcExit, Nothing
<1> QED
  BY <1>2, <1>3, <1>4, <1>5

\* Steps at which nothing is learnt of /proc.
LEMMA ProcQuietInv ==
    ASSUME ProcAssumption, ProcInv,
           \/ ProcStart \/ NetlinkFail \/ ProcCancel
           \/ EmitReadExe \/ EmitReadCmdline \/ EmitReadStatus
           \/ \E p \in Pids : DiffEmit(p)
    PROVE  ProcInv'
<1> USE DEF procHost, procScan, procEmit
<1>0. ProcTyped /\ ProcReturns /\ pwSince \subseteq pwSincePrev
  BY DEF ProcInv
<1>1. /\ UNCHANGED <<pwTier, pwAlive, pwShow, pwPrev, pwCur, pwFails, pwSince, pwSincePrev>>
      /\ pwTodo' \subseteq pwTodo
      /\ \/ pwPc' \in {"idle", "netlink", "first", "stopped"}
         \/ /\ Comparing /\ pwPc' \in {"exe", "cmdline", "status", "diff"}
            /\ pwPc' = "diff" \/ pwBack' = "diff"
  <2>1. CASE ProcStart
    BY <1>0, <2>1, ProcAssumption DEF ProcStart, ProcTyped
  <2>2. CASE NetlinkFail \/ ProcCancel
    BY <2>2 DEF NetlinkFail, ProcCancel
  <2>3. CASE EmitReadExe
    BY <1>0, <2>3 DEF EmitReadExe, Comparing, Reading, ProcReturns
  <2>4. CASE EmitReadCmdline
    BY <1>0, <2>4 DEF EmitReadCmdline, Comparing, Reading, ProcReturns
  <2>5. CASE EmitReadStatus
    BY <1>0, <2>5 DEF EmitReadStatus, Comparing, Reading, ProcReturns
  <2>6. CASE \E p \in Pids : DiffEmit(p)
    BY <2>6 DEF DiffEmit, Comparing
  <2> QED
    BY <2>1, <2>2, <2>3, <2>4, <2>5, <2>6
<1>2. ProcTyped' /\ ProcReturns' /\ (pwSince \subseteq pwSincePrev)'
  BY <1>0, <1>1 DEF ProcTyped, ProcReturns, Reading
<1>3. ASSUME pwFails = 0 PROVE ScanSound'
  BY <1>1 DEF ScanSound, Scanning
<1>4. ASSUME pwFails = 0 PROVE CurSound' /\ PrevSound' /\ TodoNew'
  BY <1>1, <1>4 DEF ProcInv, CurSound, PrevSound, TodoNew, Comparing, Reading, ShowsNow
<1> QED
  BY <1>1, <1>2, <1>3, <1>4 DEF ProcInv

LEMMA ScanListInv == ASSUME ProcInv, ScanList PROVE ProcInv'
<1> USE DEF procHost, procScan, procEmit
<1>0. ProcTyped /\ ProcReturns
  BY DEF ProcInv
<1>1. /\ pwPc \in {"first", "tick"}
      /\ pwPc' = IF pwPc = "first" THEN "scan first" ELSE "scan"
      /\ pwSincePrev' = pwSince /\ pwSince' = {}
      /\ pwCur' = NothingRuns
      /\ UNCHANGED <<pwTier, pwAlive, pwShow, pwPrev, pwBack>>
  BY DEF ScanList
<1>2. pwFails' \in Nat /\ (pwFails' = 0 => pwFails = 0 /\ pwTodo' = pwAlive)
  <2>1. CASE pwTodo' = pwAlive /\ pwFails' = pwFails
    BY <1>0, <2>1 DEF ProcTyped
  <2>2. CASE pwFails' = pwFails + 1
    BY <1>0, <2>2 DEF ProcTyped
  <2> QED
    BY <2>1, <2>2 DEF ScanList
<1>3. ProcTyped' /\ ProcReturns' /\ (pwSince \subseteq pwSincePrev)'
  BY <1>0, <1>1, <1>2 DEF ProcTyped, ProcReturns, Reading, NothingRuns, Nothing, Shown
<1>4. ASSUME pwFails' = 0 PROVE ScanSound'
  <2>1. \A p \in Pids : pwCur'[p] = Nothing
    BY <1>1 DEF NothingRuns
  <2>2. \A p \in Pids \ pwAlive : pwShow[p][1] = NoText
    <3>1. Nothing[1] = NoText
      BY DEF Nothing
    <3> QED
      BY <1>0, <3>1 DEF ProcTyped
  <2> QED
    BY <1>1, <1>2, <1>4, <2>1, <2>2 DEF ScanSound, ShowsNow, HalfRead
<1>5. ASSUME pwFails' = 0 PROVE CurSound' /\ PrevSound' /\ TodoNew'
  BY <1>1, <1>2, <1>5 DEF ProcInv, CurSound, PrevSound, TodoNew, Comparing, Reading, ShowsNow
<1> QED
  BY <1>3, <1>4, <1>5 DEF ProcInv

\* One of the two readings of p.
LEMMA ScanReadInv ==
    ASSUME ProcInv, NEW p \in Pids, ScanReadExe(p) \/ ScanReadCmdline(p)
    PROVE  ProcInv'
<1> USE DEF procHost, procScan, procEmit
<1>0. ProcTyped /\ ProcReturns /\ pwSince \subseteq pwSincePrev
  BY DEF ProcInv
<1>1. /\ Scanning /\ p \in pwTodo
      /\ UNCHANGED <<pwTier, pwAlive, pwShow, pwPrev, pwFails, pwPc, pwBack, pwSince, pwSincePrev>>
  BY DEF ScanReadExe, ScanReadCmdline, Scanning
<1>2. pwCur[p] \in Shown /\ pwShow[p] \in Shown
  BY <1>0 DEF ProcTyped
<1>3. /\ pwCur' \in [Pids -> Shown]
      /\ \A q \in Pids \ {p} : pwCur'[q] = pwCur[q] /\ (q \in pwTodo' <=> q \in pwTodo)
  <2>1. CASE ScanReadExe(p)
    <3> DEFINE half == <<pwShow[p][1], NoText>>
    <3>1. half \in Shown
      BY <1>2 DEF Shown
    <3>2. \/ pwTodo' = pwTodo \ {p} /\ pwCur' = pwCur
          \/ pwCur' = [pwCur EXCEPT ![p] = half] /\ pwTodo' = pwTodo
      BY <2>1 DEF ScanReadExe
    <3> HIDE DEF half
    <3> QED
      BY <1>0, <3>1, <3>2 DEF ProcTyped
  <2>2. CASE ScanReadCmdline(p)
    <3> DEFINE whole == <<pwCur[p][1], pwShow[p][2]>>
    <3>1. whole \in Shown
      BY <1>2 DEF Shown
    <3>2. pwTodo' = pwTodo \ {p} /\ pwCur' = [pwCur EXCEPT ![p] = whole]
      BY <2>2 DEF ScanReadCmdline
    <3> HIDE DEF whole
    <3> QED
      BY <1>0, <3>1, <3>2 DEF ProcTyped
  <2> QED
    BY <2>1, <2>2
<1>4. HalfRead(pwCur[p], p) =>
          IF p \in pwTodo' THEN HalfRead(pwCur'[p], p) ELSE ShowsNow(pwCur'[p], p)
  <2> SUFFICES ASSUME HalfRead(pwCur[p], p)
               PROVE  IF p \in pwTodo' THEN HalfRead(pwCur'[p], p) ELSE ShowsNow(pwCur'[p], p)
    OBVIOUS
  <2>1. CASE ScanReadExe(p)
    <3>1. pwCur[p] = Nothing
      <4>1. pwCur[p][1] = NoText
        BY <2>1 DEF ScanReadExe
      <4> QED
        BY <4>1 DEF HalfRead
    <3>2. CASE pwShow[p][1] = NoText
      BY <2>1, <3>1, <3>2 DEF ScanReadExe, ShowsNow
    <3>3. CASE pwShow[p][1] # NoText
      <4>1. pwTodo' = pwTodo /\ pwCur'[p] = <<pwShow[p][1], NoText>>
        BY <1>0, <2>1, <3>3 DEF ScanReadExe, ProcTyped
      <4> QED
        BY <1>1, <3>3, <4>1 DEF HalfRead
    <3> QED
      BY <3>2, <3>3
  <2>2. CASE ScanReadCmdline(p)
    <3>1. pwShow[p][1] # NoText /\ pwCur[p][1] = pwShow[p][1]
      <4>1. pwCur[p][1] # NoText
        BY <2>2 DEF ScanReadCmdline
      <4> QED
        BY <4>1 DEF HalfRead, Nothing
    <3>2. p \notin pwTodo' /\ pwCur'[p] = <<pwShow[p][1], pwShow[p][2]>>
      BY <1>0, <2>2, <3>1 DEF ScanReadCmdline, ProcTyped
    <3>3. pwShow[p] = <<pwShow[p][1], pwShow[p][2]>>
      BY <1>2 DEF Shown
    <3> QED
      BY <3>1, <3>2, <3>3 DEF ShowsNow
  <2> QED
    BY <2>1, <2>2
<1>5. ProcTyped' /\ ProcReturns' /\ (pwSince \subseteq pwSincePrev)'
  BY <1>0, <1>1, <1>3 DEF ProcTyped, ProcReturns, Reading
<1>6. ASSUME pwFails = 0 PROVE ScanSound'
  <2>1. ScanSound
    BY <1>6 DEF ProcInv
  <2> SUFFICES ASSUME NEW q \in Pids \ pwSince
               PROVE  IF q \in pwTodo' THEN HalfRead(pwCur'[q], q) ELSE ShowsNow(pwCur'[q], q)
    BY <1>1 DEF ScanSound, HalfRead, ShowsNow
  <2>2. IF q \in pwTodo THEN HalfRead(pwCur[q], q) ELSE ShowsNow(pwCur[q], q)
    BY <1>1, <2>1 DEF ScanSound
  <2>3. CASE q # p
    BY <1>3, <2>2, <2>3
  <2>4. CASE q = p
    BY <1>1, <1>4, <2>2, <2>4
  <2> QED
    BY <2>3, <2>4
<1>7. ASSUME pwFails = 0 PROVE CurSound' /\ PrevSound' /\ TodoNew'
  BY <1>1, <1>7 DEF ProcInv, CurSound, PrevSound, TodoNew, Comparing, Reading, Scanning, ShowsNow
<1> QED
  BY <1>1, <1>5, <1>6, <1>7 DEF ProcInv

\* A scan is complete, or has been dealt with.
LEMMA ProcDoneInv ==
    ASSUME ProcInv, ScanFirstDone \/ ScanDone \/ DiffDone
    PROVE  ProcInv'
<1> USE DEF procHost, procScan, procEmit
<1>0. ProcTyped /\ ProcReturns /\ pwSince \subseteq pwSincePrev
  BY DEF ProcInv
<1>1. CASE ScanFirstDone
  BY <1>0, <1>1 DEF ScanFirstDone, ProcInv, ProcTyped, ProcReturns, ScanSound, CurSound,
     PrevSound, TodoNew, Scanning, Comparing, Reading, ShowsNow
<1>2. CASE ScanDone
  <2>1. ProcTyped' /\ ProcReturns' /\ (pwSince \subseteq pwSincePrev)'
    BY <1>0, <1>2 DEF ScanDone, ProcTyped, ProcReturns, Reading
  <2>2. ASSUME pwFails = 0 PROVE ScanSound' /\ CurSound' /\ PrevSound'
    BY <1>0, <1>2, <2>2 DEF ScanDone, ProcInv, ScanSound, CurSound, PrevSound, Scanning,
       Comparing, Reading, ShowsNow
  <2>3. ASSUME pwFails = 0 PROVE TodoNew'
    BY <1>0, <1>2, <2>3 DEF ScanDone, ProcInv, ScanSound, PrevSound, TodoNew, Scanning,
       Comparing, Reading, ShowsNow
  <2> QED
    BY <1>2, <2>1, <2>2, <2>3 DEF ScanDone, ProcInv
<1>3. CASE DiffDone
  BY <1>0, <1>3 DEF DiffDone, ProcInv, ProcTyped, ProcReturns, ScanSound, CurSound,
     PrevSound, TodoNew, Scanning, Comparing, Reading, ShowsNow
<1> QED
  BY <1>1, <1>2, <1>3

LEMMA ProcStepInv ==
    ASSUME ProcAssumption, ProcInv, [ProcNext]_procVars
    PROVE ProcInv'
<1>1. CASE UNCHANGED procVars
  BY <1>1 DEF procVars, procHost, procScan, procEmit, ProcInv, ProcTyped, ProcReturns, ScanSound,
     CurSound, PrevSound, TodoNew, Scanning, Comparing, Reading, ShowsNow, HalfRead
<1>2. CASE ProcIdle
  BY <1>1, <1>2 DEF ProcIdle
<1>3. CASE ProcMonitor
  BY <1>3, ProcQuietInv, ScanListInv, ScanReadInv, ProcDoneInv DEF ProcMonitor
<1>4. CASE NetlinkFail \/ ProcCancel
  BY <1>4, ProcQuietInv
<1>5. CASE ProcOthers
  BY <1>5, ProcOthersInv
<1> QED
  BY <1>1, <1>2, <1>3, <1>4, <1>5 DEF ProcNext

\* Whatever execs, exits, rewrites its command line or becomes readable between
\* the readings of a scan, between one scan and the next, or before emitExec reads
\* the pid again, a sweep of runPolling gives events only for pids whose exe link,
\* command line or readability changed since the sweep before it began
\* (process_linux.go:228-246).
THEOREM ProcSweeps == ProcSpec => []ProcSweepsNews
<1>1. ProcInit => ProcInv
  BY ProcInitInv, ProcAssumption
<1>2. ProcInv /\ [ProcNext]_procVars => ProcInv'
  BY ProcStepInv, ProcAssumption
<1>3. ProcInv => ProcSweepsNews
  BY DEF ProcInv, TodoNew, Comparing, ProcSweepsNews
<1> QED
  BY <1>1, <1>2, <1>3, PTL DEF ProcSpec

-----------------------------------------------------------------------------
(* NetPoll: what a socket may still be reported for *)

Collecting == npPc \in {"first", "sweep"}
ReadAlready(s) == \E n \in 1..(npFile - 1) : n \in DOMAIN NetFiles /\ s.file = NetFiles[n]

NetTyped ==
    /\ npOpens \in [Socks -> Nat] /\ npReports \in [Socks -> Nat]
    /\ npFails \in Nat /\ npFile \in 1..5
    /\ npPc \in {"first", "baseline", "wait", "sweep", "report", "panicked"}

\* Nothing is pending while files are read, what is in the snapshot was read,
\* and what is pending is in the snapshot it was found in.
NetPhases ==
    /\ npPc \in {"first", "sweep", "wait"} => npPend = {}
    /\ npPc = "first" => npPrev = {}
    /\ Collecting => \A s \in Socks : s \in npCur => ReadAlready(s)
    /\ npPc \in {"baseline", "panicked"} => npPend \subseteq npPrev
    /\ npPc = "report" => npPend \subseteq npCur

\* s was opened, and the opening has not been reported: it is about to be, or
\* the snapshot prevSet will be compared with has it, or may come to have it.
\* A socket of prevSet that its file no longer showed counts anew once it is open.
Due(s) ==
    \/ s \in npPend
    \/ Collecting /\ s \in npCur /\ s \notin npPrev
    \/ Collecting /\ s \notin npCur /\ s \in npOpen /\ (s \notin npPrev \/ ReadAlready(s))
    \/ npPc = "report" /\ s \notin npCur /\ s \in npOpen
    \/ npPc \in {"baseline", "wait"} /\ s \notin npPrev /\ s \in npOpen

Openings(s) == npOpens[s] + (IF s \in OpenAtStart THEN 1 ELSE 0)

\* Each opening is reported once at most, those still to be reported included.
\* Without the latter NetReportsNews is not inductive: a step that reports says
\* nothing of the opening it reports.
Credited == \A s \in Socks : npReports[s] + (IF Due(s) THEN 1 ELSE 0) <= Openings(s)

NetInv == NetTyped /\ NetPhases /\ (npFails = 0 => Credited)

LEMMA NetInitInv == ASSUME NetAssumption, NetInit PROVE NetInv
<1> USE DEF NetInit
<1>1. NetTyped
  BY DEF NetTyped
<1>2. NetPhases
  BY DEF NetPhases, Collecting
<1>3. ASSUME NEW s \in Socks PROVE npReports[s] + (IF Due(s) THEN 1 ELSE 0) <= Openings(s)
  <2>1. npReports[s] = 0 /\ npOpens[s] = 0
    OBVIOUS
  <2>2. Due(s) => s \in OpenAtStart
    BY DEF Due
  <2> QED
    BY <2>1, <2>2 DEF Openings
<1> QED
  BY <1>1, <1>2, <1>3 DEF NetInv, Credited

\* A step that owes s no more than before keeps its account.
LEMMA CreditKept ==
    ASSUME NetTyped, Credited, NEW s \in Socks, npReports'[s] = npReports[s],
           npOpens'[s] = npOpens[s], Due(s)' => Due(s)
    PROVE  npReports'[s] + (IF Due(s)' THEN 1 ELSE 0) <= Openings(s)'
<1>1. npReports[s] \in Nat /\ Openings(s) \in Nat /\ Openings(s)' = Openings(s)
  BY DEF NetTyped, Openings
<1>2. npReports[s] + (IF Due(s) THEN 1 ELSE 0) <= Openings(s)
  BY DEF Credited
<1> QED
  BY <1>1, <1>2

\* A step that reports s where that was due keeps it too.
LEMMA CreditSpent ==
    ASSUME NetTyped, Credited, NEW s \in Socks, npReports'[s] \in {npReports[s], npReports[s] + 1},
           npOpens'[s] = npOpens[s], Due(s), ~Due(s)'
    PROVE  npReports'[s] + (IF Due(s)' THEN 1 ELSE 0) <= Openings(s)'
<1>1. npReports[s] \in Nat /\ Openings(s) \in Nat /\ Openings(s)' = Openings(s)
  BY DEF NetTyped, Openings
<1>2. npReports[s] + 1 <= Openings(s)
  BY DEF Credited
<1> QED
  BY <1>1, <1>2

LEMMA NetHostInv ==
    ASSUME NetInv, NEW s \in Socks, SockOpen(s) \/ SockClose(s)
    PROVE  NetInv'
<1>1. UNCHANGED <<npPc, npFile, npCur, npPrev, npPend, npReports, npFails>>
  BY DEF SockOpen, SockClose
<1>0. \/ npOpen' = npOpen \cup {s} /\ npOpens' = [npOpens EXCEPT ![s] = @ + 1]
      \/ npOpen' = npOpen \ {s} /\ npOpens' = npOpens
  BY Zenon DEF SockOpen, SockClose
<1>2. NetTyped /\ NetPhases
  BY DEF NetInv
<1>3. NetTyped'
  BY <1>0, <1>1, <1>2 DEF NetTyped
<1>4. NetPhases'
  BY <1>1, <1>2 DEF NetPhases, Collecting, ReadAlready
<1>5. ASSUME npFails = 0, NEW t \in Socks
      PROVE  npReports'[t] + (IF Due(t)' THEN 1 ELSE 0) <= Openings(t)'
  <2>1. Credited
    BY <1>5 DEF NetInv
  <2>2. CASE t # s \/ (npOpen' = npOpen \ {s} /\ npOpens' = npOpens)
    <3>1. npOpens'[t] = npOpens[t] /\ (t \in npOpen' => t \in npOpen)
      BY <1>0, <1>2, <2>2 DEF NetTyped
    <3>2. Due(t)' => Due(t)
      BY <1>1, <3>1 DEF Due, Collecting, ReadAlready
    <3> QED
      BY <1>1, <1>2, <2>1, <3>1, <3>2, CreditKept
  <2>3. CASE t = s /\ npOpens' = [npOpens EXCEPT ![s] = @ + 1]
    <3>1. npOpens'[s] = npOpens[s] + 1 /\ npReports'[s] = npReports[s]
      BY <1>1, <1>2, <2>3 DEF NetTyped
    <3>2. npReports[s] \in Nat /\ npOpens[s] \in Nat
      BY <1>2 DEF NetTyped
    <3>3. npReports[s] <= Openings(s) /\ Openings(s) \in Nat /\ Openings(s)' = Openings(s) + 1
      BY <2>1, <3>1, <3>2 DEF Credited, Openings
    <3> QED
      BY <2>3, <3>1, <3>2, <3>3
  <2> QED
    BY <1>0, <2>2, <2>3
<1> QED
  BY <1>1, <1>3, <1>4, <1>5 DEF NetInv, Credited

LEMMA NetReadInv == ASSUME NetAssumption, NetInv, NetReadFile PROVE NetInv'
<1>1. /\ Collecting /\ Collecting' /\ npFile \in 1..4 /\ npFile' = npFile + 1
      /\ npFile \in DOMAIN NetFiles
      /\ UNCHANGED <<npOpen, npOpens, npPc, npPrev, npPend, npReports>>
  BY DEF NetReadFile, Collecting, netHost, NetFiles
<1>2. NetTyped /\ NetPhases
  BY DEF NetInv
<1>3. npFails' \in Nat /\ (npFails' = 0 => npFails = 0 /\
          npCur' = npCur \cup {s \in npOpen : s.file = NetFiles[npFile]})
  <2>1. CASE npFails' = npFails /\ npCur' = npCur \cup {s \in npOpen : s.file = NetFiles[npFile]}
    BY <1>2, <2>1 DEF NetTyped
  <2>2. CASE npFails' = npFails + 1
    BY <1>2, <2>2 DEF NetTyped
  <2> QED
    BY <2>1, <2>2 DEF NetReadFile
<1>4. NetTyped'
  BY <1>1, <1>2, <1>3 DEF NetTyped
<1>5. \A s \in Socks : ReadAlready(s)' <=> ReadAlready(s) \/ s.file = NetFiles[npFile]
  <2> SUFFICES ASSUME NEW s \in Socks
               PROVE  ReadAlready(s)' <=> ReadAlready(s) \/ s.file = NetFiles[npFile]
    OBVIOUS
  <2>1. \A n : n \in 1..(npFile' - 1) <=> n \in 1..(npFile - 1) \/ n = npFile
    BY <1>1
  <2> QED
    BY <1>1, <2>1 DEF ReadAlready
<1>6. \A s \in Socks : s \in npCur' => s \in npCur \/ s.file = NetFiles[npFile]
  BY DEF NetReadFile
<1>7. NetPhases'
  BY <1>1, <1>2, <1>5, <1>6 DEF NetPhases, Collecting
<1>8. \A s \in Socks : s.file = NetFiles[npFile] => ~ReadAlready(s)
  BY <1>1 DEF ReadAlready, NetFiles
<1>9. ASSUME npFails' = 0, NEW s \in Socks
      PROVE  npReports'[s] + (IF Due(s)' THEN 1 ELSE 0) <= Openings(s)'
  <2>1. Credited /\ npCur' = npCur \cup {r \in npOpen : r.file = NetFiles[npFile]}
    BY <1>3, <1>9 DEF NetInv
  <2>2. s \in npCur => ReadAlready(s)
    BY <1>1, <1>2 DEF NetPhases
  <2>3. s \in npCur' <=> s \in npCur \/ (s \in npOpen /\ s.file = NetFiles[npFile])
    BY <2>1
  <2>4. Due(s)' => Due(s)
    BY <1>1, <1>5, <1>8, <2>2, <2>3 DEF Due, Collecting
  <2> QED
    BY <1>1, <1>2, <2>1, <2>4, CreditKept
<1> QED
  BY <1>4, <1>7, <1>9 DEF NetInv, Credited

\* At the end of a sweep, of the first one too, every file has been read.
LEMMA AllRead ==
    ASSUME NetAssumption, NetTyped, npFile \notin DOMAIN NetFiles, NEW s \in Socks
    PROVE  ReadAlready(s)
<1>1. npFile = 5
  BY DEF NetTyped, NetFiles
<1>2. PICK n \in DOMAIN NetFiles : s.file = NetFiles[n]
  BY DEF NetAssumption
<1>3. n \in 1..4
  BY DEF NetFiles
<1> QED
  BY <1>1, <1>2, <1>3 DEF ReadAlready

LEMMA NetMonitorInv == ASSUME NetAssumption, NetInv, NetMonitor PROVE NetInv'
<1>0. NetTyped /\ NetPhases
  BY DEF NetInv
<1>1. ASSUME npFails' = npFails, npOpens' = npOpens, npReports' = npReports,
             \A s \in Socks : Due(s)' => Due(s)
      PROVE  npFails' = 0 => Credited'
  BY <1>0, <1>1, CreditKept DEF NetInv, Credited
<1>2. CASE NetReadFile
  BY <1>2, NetReadInv
<1>3. CASE NetFirstDone
  <2>1. NetTyped' /\ NetPhases'
    BY <1>0, <1>3 DEF NetFirstDone, NetTyped, NetPhases, Collecting, netHost
  <2>2. \A s \in Socks : Due(s)' => Due(s)
    BY <1>0, <1>3 DEF NetFirstDone, NetPhases, Due, Collecting, netHost
  <2> QED
    BY <1>1, <1>3, <2>1, <2>2 DEF NetFirstDone, NetInv, netHost
<1>4. CASE \E s \in Socks : NetBaseline(s)
  <2> PICK s \in Socks : NetBaseline(s)
    BY <1>4
  <2>1. /\ npPc = "baseline" /\ s \in npPend /\ npPend' = npPend \ {s}
        /\ npPc' \in {"baseline", "panicked"}
        /\ UNCHANGED <<npOpen, npOpens, npFile, npCur, npPrev, npFails>>
        /\ npReports' \in {npReports, [npReports EXCEPT ![s] = @ + 1]}
    BY DEF NetBaseline, netHost
  <2>2. NetTyped'
    BY <1>0, <2>1 DEF NetTyped
  <2>3. NetPhases' /\ s \in npPrev
    BY <1>0, <2>1 DEF NetPhases, Collecting
  <2>4. ASSUME npFails' = 0, NEW t \in Socks
        PROVE  npReports'[t] + (IF Due(t)' THEN 1 ELSE 0) <= Openings(t)'
    <3>1. CASE t = s
      <4>1. Due(s) /\ ~Due(s)'
        BY <2>1, <2>3 DEF Due, Collecting
      <4>2. npReports'[s] \in {npReports[s], npReports[s] + 1}
        BY <1>0, <2>1 DEF NetTyped
      <4> QED
        BY <1>0, <2>1, <2>4, <3>1, <4>1, <4>2, CreditSpent DEF NetInv
    <3>2. CASE t # s
      <4>1. npReports'[t] = npReports[t]
        BY <1>0, <2>1, <3>2 DEF NetTyped
      <4>2. Due(t)' => Due(t)
        BY <2>1 DEF Due, Collecting
      <4> QED
        BY <1>0, <2>1, <2>4, <4>1, <4>2, CreditKept DEF NetInv
    <3> QED
      BY <3>1, <3>2
  <2> QED
    BY <2>2, <2>3, <2>4 DEF NetInv, Credited
<1>5. CASE NetTick
  <2>1. npPend = {}
    BY <1>0, <1>5 DEF NetTick, NetPhases
  <2>2. NetTyped' /\ NetPhases'
    BY <1>0, <1>5, <2>1 DEF NetTick, NetTyped, NetPhases, Collecting, netHost
  <2>3. \A s \in Socks : ~ReadAlready(s)'
    BY <1>5 DEF NetTick, ReadAlready
  <2>4. \A s \in Socks : Due(s)' => Due(s)
    BY <1>5, <2>1, <2>3 DEF NetTick, Due, Collecting, netHost
  <2> QED
    BY <1>1, <1>5, <2>2, <2>4 DEF NetTick, NetInv, netHost
<1>6. CASE NetSweepDone
  <2>1. NetTyped' /\ NetPhases'
    BY <1>0, <1>6 DEF NetSweepDone, NetTyped, NetPhases, Collecting, netHost
  <2>2. \A s \in Socks : ReadAlready(s)
    BY <1>0, <1>6, AllRead DEF NetSweepDone
  <2>3. \A s \in Socks : Due(s)' => Due(s)
    BY <1>0, <1>6, <2>2 DEF NetSweepDone, NetPhases, Due, Collecting, netHost
  <2> QED
    BY <1>1, <1>6, <2>1, <2>3 DEF NetSweepDone, NetInv, netHost
<1>7. CASE \E s \in Socks : NetReport(s)
  <2> PICK s \in Socks : NetReport(s)
    BY <1>7
  <2>1. /\ npPc = "report" /\ s \in npPend /\ npPend' = npPend \ {s}
        /\ UNCHANGED <<npOpen, npOpens, npPc, npFile, npCur, npPrev, npFails>>
        /\ npReports' \in {npReports, [npReports EXCEPT ![s] = @ + 1]}
    BY DEF NetReport, netHost
  <2>2. NetTyped'
    BY <1>0, <2>1 DEF NetTyped
  <2>3. NetPhases' /\ s \in npCur
    BY <1>0, <2>1 DEF NetPhases, Collecting
  <2>4. ASSUME npFails' = 0, NEW t \in Socks
        PROVE  npReports'[t] + (IF Due(t)' THEN 1 ELSE 0) <= Openings(t)'
    <3>1. CASE t = s
      <4>1. Due(s) /\ ~Due(s)'
        BY <2>1, <2>3 DEF Due, Collecting
      <4>2. npReports'[s] \in {npReports[s], npReports[s] + 1}
        BY <1>0, <2>1 DEF NetTyped
      <4> QED
        BY <1>0, <2>1, <2>4, <3>1, <4>1, <4>2, CreditSpent DEF NetInv
    <3>2. CASE t # s
      <4>1. npReports'[t] = npReports[t]
        BY <1>0, <2>1, <3>2 DEF NetTyped
      <4>2. Due(t)' => Due(t)
        BY <2>1 DEF Due, Collecting
      <4> QED
        BY <1>0, <2>1, <2>4, <4>1, <4>2, CreditKept DEF NetInv
    <3> QED
      BY <3>1, <3>2
  <2> QED
    BY <2>2, <2>3, <2>4 DEF NetInv, Credited
<1>8. CASE NetSweepEnd
  <2>1. NetTyped' /\ NetPhases'
    BY <1>0, <1>8 DEF NetSweepEnd, NetTyped, NetPhases, Collecting, netHost
  <2>2. \A s \in Socks : Due(s)' => Due(s)
    BY <1>0, <1>8 DEF NetSweepEnd, NetPhases, Due, Collecting, netHost
  <2> QED
    BY <1>1, <1>8, <2>1, <2>2 DEF NetSweepEnd, NetInv, netHost
<1> QED
  BY <1>2, <1>3, <1>4, <1>5, <1>6, <1>7, <1>8 DEF NetMonitor

LEMMA NetStepInv ==
    ASSUME NetAssumption, NetInv, [NetNext]_netVars
    PROVE  NetInv'
<1>1. CASE UNCHANGED netVars
  BY <1>1 DEF netVars, netHost, NetInv, NetTyped, NetPhases, Credited, Due, Openings,
     Collecting, ReadAlready
<1>2. CASE NetPanicked
  BY <1>1, <1>2 DEF NetPanicked
<1> QED
  BY <1>1, <1>2, NetMonitorInv, NetHostInv DEF NetNext

\* However sockets open and close while the four files are read one after
\* another, and whatever the snapshots show of them, a socket is reported at most
\* once for every time it was opened, and once more as part of the baseline
\* (net_linux.go:64-79, :106-115, :168-170).
THEOREM NetReportsOnce == NetSpec => []NetReportsNews
<1>1. NetInit => NetInv
  BY NetInitInv, NetAssumption
<1>2. NetInv /\ [NetNext]_netVars => NetInv'
  BY NetStepInv, NetAssumption
<1>3. NetInv => NetReportsNews
  <2> SUFFICES ASSUME NetInv, npFails = 0, NEW s \in Socks
               PROVE  npReports[s] <= npOpens[s] + (IF s \in OpenAtStart THEN 1 ELSE 0)
    BY DEF NetReportsNews
  <2>1. npReports[s] \in Nat /\ npOpens[s] \in Nat
    BY DEF NetInv, NetTyped
  <2>2. npReports[s] + (IF Due(s) THEN 1 ELSE 0) <= Openings(s)
    BY DEF NetInv, Credited
  <2> QED
    BY <2>1, <2>2 DEF Openings
<1> QED
  BY <1>1, <1>2, <1>3, PTL DEF NetSpec
-----------------------------------------------------------------------------
(* AuthTail: the order of pieces *)

Piece == Nat \X {1, 2}

\* Pieces are ordered as the numbers of lines and halves are.
Rank(p) == 2 * p[1] + p[2]

LEMMA RankOrders ==
    ASSUME NEW p \in Piece, NEW q \in Piece
    PROVE  Rank(p) \in Nat /\ (PieceBefore(p, q) <=> Rank(p) < Rank(q))
BY DEF Piece, Rank, PieceBefore

\* The last piece written.
NewestRank == 2 * tlLine + (IF tlHalf THEN 1 ELSE 2)

TailTyped ==
    /\ tlFiles \in Seq(Seq(Piece)) /\ tlPath \in {0, Len(tlFiles)}
    /\ tlWriter \in DOMAIN tlFiles /\ tlFile \in DOMAIN tlFiles
    /\ tlLine \in Nat /\ tlHalf \in BOOLEAN /\ tlTruncs \in Nat /\ tlOff \in Nat
    /\ tlOut \in Seq(Seq(Piece))

\* While the log is waited for, the monitor has no longer open what it finds.
ReopensLater == tlPc = "reopen" => tlPath = 0 \/ tlFile < tlPath

\* The log goes on from file to file, ...
LogOrdered ==
    \A i, h \in DOMAIN tlFiles : \A j \in DOMAIN tlFiles[i], k \in DOMAIN tlFiles[h] :
        (i < h \/ (i = h /\ j < k)) => Rank(tlFiles[i][j]) < Rank(tlFiles[h][k])

\* ... up to the daemon's.
LogWritten ==
    \A i \in DOMAIN tlFiles : \A j \in DOMAIN tlFiles[i] :
        i <= tlWriter /\ Rank(tlFiles[i][j]) <= NewestRank

ParsedOrdered ==
    \A m, n \in DOMAIN tlOut : \A j \in DOMAIN tlOut[m], k \in DOMAIN tlOut[n] :
        (m < n \/ (m = n /\ j < k)) => Rank(tlOut[m][j]) < Rank(tlOut[n][k])

\* What is parsed comes before what is yet to be written, ...
ParsedWritten ==
    \A n \in DOMAIN tlOut : \A j \in DOMAIN tlOut[n] : Rank(tlOut[n][j]) <= NewestRank

\* ... and before what is yet to be read.
Unread(i, k) == i > tlFile \/ (i = tlFile /\ k > tlOff)
ParsedBehind ==
    \A n \in DOMAIN tlOut : \A j \in DOMAIN tlOut[n] :
    \A i \in DOMAIN tlFiles : \A k \in DOMAIN tlFiles[i] :
        Unread(i, k) => Rank(tlOut[n][j]) < Rank(tlFiles[i][k])

OrderInv ==
    /\ TailTyped /\ ReopensLater /\ LogOrdered /\ LogWritten
    /\ ParsedOrdered /\ ParsedWritten /\ ParsedBehind

LEMMA Ranked == \A p \in Piece : Rank(p) \in Nat
  BY RankOrders

LEMMA NewestTyped ==
    /\ tlLine \in Nat => NewestRank \in Nat
    /\ tlLine' \in Nat => NewestRank' \in Nat
  BY DEF NewestRank

\* The file the monitor has open, and every piece of any file.
LEMMA FilesTyped ==
    ASSUME TailTyped
    PROVE  /\ Len(tlFiles) \in Nat \ {0} /\ DOMAIN tlFiles = 1..Len(tlFiles)
           /\ \A i \in DOMAIN tlFiles :
                 /\ tlFiles[i] \in Seq(Piece) /\ Len(tlFiles[i]) \in Nat
                 /\ DOMAIN tlFiles[i] = 1..Len(tlFiles[i])
                 /\ \A j \in DOMAIN tlFiles[i] : tlFiles[i][j] \in Piece
           /\ \A n \in DOMAIN tlOut : \A j \in DOMAIN tlOut[n] : tlOut[n][j] \in Piece
<1>1. \A i \in DOMAIN tlFiles : tlFiles[i] \in Seq(Piece)
  BY DEF TailTyped
<1>2. \A n \in DOMAIN tlOut : tlOut[n] \in Seq(Piece)
  BY DEF TailTyped
<1>3. \A f \in Seq(Piece) : /\ Len(f) \in Nat /\ DOMAIN f = 1..Len(f)
                            /\ \A j \in DOMAIN f : f[j] \in Piece
  OBVIOUS
<1>4. Len(tlFiles) \in Nat \ {0} /\ DOMAIN tlFiles = 1..Len(tlFiles)
  BY DEF TailTyped
<1> QED
  BY <1>1, <1>2, <1>3, <1>4

LEMMA OrderInit == ASSUME TailInit PROVE OrderInv
<1> USE DEF TailInit
<1>1. <<>> \in Seq(Piece) /\ Len(<<>>) = 0 /\ DOMAIN <<>> = {}
  OBVIOUS
<1>2. <<>> \in Seq(Seq(Piece))
  OBVIOUS
<1>3. << <<>> >> \in Seq(Seq(Piece)) /\ Len(<< <<>> >>) = 1 /\ DOMAIN << <<>> >> = {1}
      /\ << <<>> >>[1] = <<>>
  BY <1>1
<1>4. TailTyped
  BY <1>2, <1>3 DEF TailTyped
<1>5. \A i \in DOMAIN tlFiles : DOMAIN tlFiles[i] = {}
  BY <1>1, <1>3
<1>6. DOMAIN tlOut = {}
  BY <1>1
<1> QED
  BY <1>4, <1>5, <1>6 DEF OrderInv, ReopensLater, LogOrdered, LogWritten, ParsedOrdered,
     ParsedWritten, ParsedBehind

\* The daemon adds newer pieces to its file.
LEMMA WriteOrder ==
    ASSUME OrderInv, NEW pieces \in Seq(Piece), AppendToLog(pieces),
           tlLine' \in Nat, tlHalf' \in BOOLEAN,
           \A j \in DOMAIN pieces : NewestRank < Rank(pieces[j]) /\ Rank(pieces[j]) <= NewestRank',
           \A j, k \in DOMAIN pieces : j < k => Rank(pieces[j]) < Rank(pieces[k]),
           NewestRank <= NewestRank',
           UNCHANGED <<tlPath, tlWriter, tlTruncs, tailMonitor>>
    PROVE  OrderInv'
<1> DEFINE f == tlFiles[tlWriter]
           g == f \o pieces
<1>1. /\ TailTyped /\ tlWriter \in DOMAIN tlFiles /\ f \in Seq(Piece)
      /\ Len(tlFiles) \in Nat /\ DOMAIN tlFiles = 1..Len(tlFiles)
      /\ UNCHANGED <<tlPath, tlWriter, tlTruncs, tlPc, tlFile, tlOff, tlOut>>
  BY FilesTyped DEF OrderInv, TailTyped, tailMonitor
<1>2. tlFiles' = [tlFiles EXCEPT ![tlWriter] = g]
  BY DEF AppendToLog
<1>3. /\ g \in Seq(Piece) /\ Len(f) \in Nat /\ Len(pieces) \in Nat
      /\ DOMAIN f = 1..Len(f) /\ DOMAIN pieces = 1..Len(pieces)
      /\ DOMAIN g = 1..(Len(f) + Len(pieces))
      /\ \A j \in 1..Len(f) : g[j] = f[j]
      /\ \A j \in DOMAIN g \ (1..Len(f)) :
            j - Len(f) \in DOMAIN pieces /\ g[j] = pieces[j - Len(f)]
  BY <1>1
<1> HIDE DEF g
<1>4. /\ tlFiles' \in Seq(Seq(Piece)) /\ Len(tlFiles') = Len(tlFiles)
      /\ DOMAIN tlFiles' = DOMAIN tlFiles
  BY <1>1, <1>2, <1>3 DEF TailTyped
<1>5. tlFiles'[tlWriter] = g /\ \A i \in DOMAIN tlFiles : i # tlWriter => tlFiles'[i] = tlFiles[i]
  BY <1>1, <1>2
<1>6. TailTyped'
  BY <1>1, <1>4 DEF TailTyped
<1>7. ReopensLater'
  BY <1>1 DEF OrderInv, ReopensLater
<1>8. NewestRank \in Nat /\ NewestRank' \in Nat
  <2>1. tlLine \in Nat
    BY <1>1 DEF TailTyped
  <2> QED
    BY <2>1, NewestTyped
\* Every piece of the files was there or is one of those added.
<1>9. \A i \in DOMAIN tlFiles : \A j \in DOMAIN tlFiles'[i] :
          \/ j \in DOMAIN tlFiles[i] /\ tlFiles'[i][j] = tlFiles[i][j]
          \/ /\ i = tlWriter /\ j \in Nat /\ j > Len(f) /\ j - Len(f) \in DOMAIN pieces
             /\ tlFiles'[i][j] = pieces[j - Len(f)]
  <2> SUFFICES ASSUME NEW i \in DOMAIN tlFiles, NEW j \in DOMAIN tlFiles'[i]
               PROVE  \/ j \in DOMAIN tlFiles[i] /\ tlFiles'[i][j] = tlFiles[i][j]
                      \/ /\ i = tlWriter /\ j \in Nat /\ j > Len(f) /\ j - Len(f) \in DOMAIN pieces
                         /\ tlFiles'[i][j] = pieces[j - Len(f)]
    OBVIOUS
  <2>1. CASE i # tlWriter
    BY <1>5, <2>1
  <2>2. CASE i = tlWriter
    <3>1. j \in DOMAIN g /\ tlFiles'[i] = g /\ tlFiles[i] = f
      BY <1>5, <2>2
    <3>2. CASE j \in 1..Len(f)
      <4>1. g[j] = f[j] /\ j \in DOMAIN f
        BY <1>3, <3>2
      <4> QED
        BY <3>1, <4>1
    <3>3. CASE j \notin 1..Len(f)
      <4>1. j \in Nat /\ j > Len(f)
        BY <1>3, <3>1, <3>3
      <4>2. j - Len(f) \in DOMAIN pieces /\ g[j] = pieces[j - Len(f)]
        BY <1>3, <3>1, <3>3
      <4> QED
        BY <2>2, <3>1, <4>1, <4>2
    <3> QED
      BY <3>2, <3>3
  <2> QED
    BY <2>1, <2>2
<1>10. \A j \in DOMAIN pieces : Rank(pieces[j]) \in Nat
  BY <1>3, Ranked
<1>11. \A i \in DOMAIN tlFiles : \A j \in DOMAIN tlFiles[i] : Rank(tlFiles[i][j]) \in Nat
  BY <1>1, FilesTyped, Ranked
<1>12. LogWritten'
  <2> SUFFICES ASSUME NEW i \in DOMAIN tlFiles, NEW j \in DOMAIN tlFiles'[i]
               PROVE  i <= tlWriter /\ Rank(tlFiles'[i][j]) <= NewestRank'
    BY <1>1, <1>4 DEF LogWritten
  <2>1. CASE j \in DOMAIN tlFiles[i] /\ tlFiles'[i][j] = tlFiles[i][j]
    <3>1. i <= tlWriter /\ Rank(tlFiles[i][j]) <= NewestRank
      BY <2>1 DEF OrderInv, LogWritten
    <3> QED
      BY <1>8, <1>11, <2>1, <3>1
  <2>2. CASE i = tlWriter /\ j - Len(f) \in DOMAIN pieces /\ tlFiles'[i][j] = pieces[j - Len(f)]
    BY <1>1, <2>2
  <2> QED
    BY <1>9, <2>1, <2>2
<1>13. LogOrdered'
  <2> SUFFICES ASSUME NEW i \in DOMAIN tlFiles, NEW h \in DOMAIN tlFiles,
                      NEW j \in DOMAIN tlFiles'[i], NEW k \in DOMAIN tlFiles'[h],
                      i < h \/ (i = h /\ j < k)
               PROVE  Rank(tlFiles'[i][j]) < Rank(tlFiles'[h][k])
    BY <1>4 DEF LogOrdered
  <2>1. CASE j \in DOMAIN tlFiles[i] /\ tlFiles'[i][j] = tlFiles[i][j]
    <3>1. CASE k \in DOMAIN tlFiles[h] /\ tlFiles'[h][k] = tlFiles[h][k]
      BY <2>1, <3>1 DEF OrderInv, LogOrdered
    <3>2. CASE k - Len(f) \in DOMAIN pieces /\ tlFiles'[h][k] = pieces[k - Len(f)]
      <4>1. Rank(tlFiles[i][j]) <= NewestRank
        BY <2>1 DEF OrderInv, LogWritten
      <4> QED
        BY <1>8, <1>10, <1>11, <2>1, <3>2, <4>1
    <3> QED
      BY <1>9, <3>1, <3>2
  <2>2. CASE /\ i = tlWriter /\ j \in Nat /\ j > Len(f) /\ j - Len(f) \in DOMAIN pieces
             /\ tlFiles'[i][j] = pieces[j - Len(f)]
    <3>1. CASE k \in DOMAIN tlFiles[h] /\ tlFiles'[h][k] = tlFiles[h][k]
      <4>1. h <= tlWriter
        BY <3>1 DEF OrderInv, LogWritten
      <4>2. i = h /\ j < k /\ k \in 1..Len(f)
        BY <1>1, <1>3, <2>2, <3>1, <4>1
      <4> QED
        BY <1>3, <2>2, <4>2
    <3>2. CASE /\ k \in Nat /\ k - Len(f) \in DOMAIN pieces /\ h = tlWriter
               /\ tlFiles'[h][k] = pieces[k - Len(f)]
      <4>1. j < k
        BY <1>1, <2>2, <3>2
      <4>2. j - Len(f) < k - Len(f)
        BY <1>3, <2>2, <3>2, <4>1
      <4> QED
        BY <2>2, <3>2, <4>2
    <3> QED
      BY <1>9, <3>1, <3>2
  <2> QED
    BY <1>9, <2>1, <2>2
<1>14. ParsedOrdered'
  BY <1>1 DEF OrderInv, ParsedOrdered
<1>15. \A n \in DOMAIN tlOut : \A j \in DOMAIN tlOut[n] : Rank(tlOut[n][j]) \in Nat
  BY <1>1, FilesTyped, Ranked
<1>16. ParsedWritten'
  BY <1>1, <1>8, <1>15 DEF OrderInv, ParsedWritten
<1>17. ParsedBehind'
  <2> SUFFICES ASSUME NEW n \in DOMAIN tlOut, NEW j \in DOMAIN tlOut[n],
                      NEW i \in DOMAIN tlFiles, NEW k \in DOMAIN tlFiles'[i], Unread(i, k)
               PROVE  Rank(tlOut[n][j]) < Rank(tlFiles'[i][k])
    BY <1>1, <1>4 DEF ParsedBehind, Unread
  <2>1. CASE k \in DOMAIN tlFiles[i] /\ tlFiles'[i][k] = tlFiles[i][k]
    BY <2>1 DEF OrderInv, ParsedBehind
  <2>2. CASE k - Len(f) \in DOMAIN pieces /\ tlFiles'[i][k] = pieces[k - Len(f)]
    <3>1. Rank(tlOut[n][j]) <= NewestRank
      BY DEF OrderInv, ParsedWritten
    <3> QED
      BY <1>8, <1>10, <1>15, <2>2, <3>1
  <2> QED
    BY <1>9, <2>1, <2>2
<1> QED
  BY <1>6, <1>7, <1>12, <1>13, <1>14, <1>16, <1>17 DEF OrderInv

-----------------------------------------------------------------------------
(* AuthTail: the scanner's texts *)

Before == {p \in Nat \X Nat : p[1] < p[2]}

LEMMA Least ==
    ASSUME NEW S, S \subseteq Nat, S # {}
    PROVE  \E n \in S : \A m \in S : n <= m
<1>1. Before = OpToRel(<, Nat)
  BY DEF Before, OpToRel
<1>2. IsWellFoundedOn(Before, Nat)
  BY <1>1, NatLessThanWellFounded
<1>3. PICK n \in S : \A m \in S : ~(<<m, n>> \in Before)
  BY <1>2, WFMin
<1>4. ASSUME NEW m \in S PROVE n <= m
  <2>1. m \in Nat /\ n \in Nat /\ ~(m < n)
    BY <1>3, <1>4 DEF Before
  <2> QED
    BY <2>1
<1> QED
  BY <1>4

\* What is ahead of the offset.
LEMMA AheadIs ==
    ASSUME TailTyped
    PROVE  /\ TailAhead \in Seq(Piece) /\ tlFiles[tlFile] \in Seq(Piece)
           /\ Len(TailAhead) = IF tlOff < Len(tlFiles[tlFile])
                               THEN Len(tlFiles[tlFile]) - tlOff ELSE 0
           /\ \A j \in 1..Len(TailAhead) : TailAhead[j] = tlFiles[tlFile][tlOff + j]
<1>1. tlFiles[tlFile] \in Seq(Piece) /\ tlOff \in Nat
  BY DEF TailTyped
<1>2. \A i \in (tlOff + 1)..Len(tlFiles[tlFile]) : tlFiles[tlFile][i] \in Piece
  BY <1>1
<1> QED
  BY <1>1, <1>2, SubSeqProperties DEF TailAhead

\* The next text goes up to the first newline, or to the end of the file.
LEMMA TextAhead ==
    ASSUME TailTyped, TailAhead # <<>>
    PROVE  \E k \in 1..Len(TailAhead) :
              /\ NextText \in Seq(Piece) /\ Len(NextText) = k
              /\ \A j \in 1..k : NextText[j] = TailAhead[j]
              /\ \A j \in 1..(k - 1) : TailAhead[j][2] # 2
              /\ TailAhead[k][2] = 2 \/ k = Len(TailAhead)
<1> DEFINE a == TailAhead
           n == Len(TailAhead)
           I == {i \in 1..n : a[i][2] = 2}
           eol == IF I # {} THEN Min(I) ELSE 0
<1>1. SelectInSeq(TailAhead, LAMBDA piece : piece[2] = 2) = eol
  BY DEF SelectInSeq
<1>2. NextText = IF eol = 0 THEN a ELSE SubSeq(a, 1, eol)
  BY <1>1 DEF NextText
<1>3. /\ a \in Seq(Piece) /\ a # <<>> /\ n \in Nat /\ n # 0
      /\ \A j \in 1..n : a[j] \in Piece
  <2>1. a \in Seq(Piece) /\ a # <<>>
    BY AheadIs
  <2> HIDE DEF a
  <2> QED
    BY <2>1 DEF a
<1>4. \A i \in I : i \in 1..n /\ a[i][2] = 2
  OBVIOUS
<1>5. \A i \in 1..n : a[i][2] = 2 => i \in I
  OBVIOUS
<1>6. I = {} => eol = 0
  OBVIOUS
<1>7. I # {} => eol = Min(I)
  OBVIOUS
<1>8. I \subseteq Nat
  OBVIOUS
<1>9. Min(I) = CHOOSE x \in I : \A y \in I : x <= y
  BY DEF Min
<1> HIDE DEF a, n, I, eol
<1>10. CASE I = {}
  <2>1. NextText = a
    BY <1>2, <1>6, <1>10
  <2>2. \A j \in 1..n : a[j][2] # 2
    BY <1>5, <1>10
  <2>3. n \in 1..n
    BY <1>3
  <2>4. \A j \in 1..(n - 1) : j \in 1..n
    BY <1>3
  <2>5. /\ NextText \in Seq(Piece) /\ Len(NextText) = n
        /\ \A j \in 1..n : NextText[j] = a[j]
        /\ \A j \in 1..(n - 1) : a[j][2] # 2
    BY <1>3, <2>1, <2>2, <2>4 DEF n, a
  <2> QED
    BY <2>3, <2>5 DEF n, a
<1>11. CASE I # {}
  <2>1. \E x \in I : \A y \in I : x <= y
    BY <1>8, <1>11, Least
  <2>2. eol \in I /\ \A y \in I : eol <= y
    BY <1>7, <1>9, <1>11, <2>1
  <2>3. eol \in 1..n /\ a[eol][2] = 2
    BY <1>4, <2>2
  <2>4. NextText = SubSeq(a, 1, eol)
    BY <1>2, <1>3, <2>3
  <2>5. \A j \in 1..eol : j \in 1..n
    BY <1>3, <2>3
  <2>6. \A j \in 1..eol : a[j] \in Piece
    BY <1>3, <2>5
  <2>7. /\ NextText \in Seq(Piece) /\ Len(NextText) = eol
        /\ \A j \in 1..eol : NextText[j] = a[j]
    <3>1. eol \in Nat /\ 1 \in Int /\ eol \in Int
      BY <1>3, <2>3
    <3>2. /\ SubSeq(a, 1, eol) \in Seq(Piece)
          /\ Len(SubSeq(a, 1, eol)) = IF 1 <= eol THEN eol - 1 + 1 ELSE 0
          /\ \A i \in 1..(eol - 1 + 1) : SubSeq(a, 1, eol)[i] = a[1 + i - 1]
      BY <2>6, <3>1, SubSeqProperties
    <3>3. 1 <= eol /\ eol - 1 + 1 = eol /\ \A i \in 1..eol : 1 + i - 1 = i
      BY <2>3, <3>1
    <3> QED
      BY <2>4, <3>2, <3>3
  <2>8. \A j \in 1..(eol - 1) : j \in 1..n /\ ~(eol <= j)
    BY <1>3, <2>3
  <2>9. \A j \in 1..(eol - 1) : a[j][2] # 2
    BY <1>5, <2>2, <2>8
  <2> QED
    BY <2>3, <2>7, <2>9 DEF n, a
<1> QED
  BY <1>10, <1>11

LEMMA TextIs ==
    ASSUME TailTyped, TailAhead # <<>>
    PROVE  \E k \in 1..(Len(tlFiles[tlFile]) - tlOff) :
              /\ NextText \in Seq(Piece) /\ Len(NextText) = k
              /\ \A j \in 1..k : NextText[j] = tlFiles[tlFile][tlOff + j]
              /\ \A j \in 1..(k - 1) : tlFiles[tlFile][tlOff + j][2] # 2
              /\ \/ tlFiles[tlFile][tlOff + k][2] = 2
                 \/ k = Len(tlFiles[tlFile]) - tlOff
<1> DEFINE f == tlFiles[tlFile]
           n == Len(TailAhead)
<1>1. /\ n \in Nat \ {0} /\ n = Len(f) - tlOff
      /\ \A j \in 1..n : TailAhead[j] = f[tlOff + j]
  BY AheadIs DEF TailTyped
<1>2. PICK k \in 1..n :
              /\ NextText \in Seq(Piece) /\ Len(NextText) = k
              /\ \A j \in 1..k : NextText[j] = TailAhead[j]
              /\ \A j \in 1..(k - 1) : TailAhead[j][2] # 2
              /\ TailAhead[k][2] = 2 \/ k = n
  BY TextAhead
<1> HIDE DEF f, n
<1>3. \A j \in 1..k : j \in 1..n /\ TailAhead[j] = f[tlOff + j]
  BY <1>1, <1>2
<1>4. \A j \in 1..(k - 1) : j \in 1..k
  BY <1>1, <1>2
<1>5. k \in 1..k
  BY <1>1, <1>2
<1>6. /\ NextText \in Seq(Piece) /\ Len(NextText) = k
      /\ \A j \in 1..k : NextText[j] = f[tlOff + j]
      /\ \A j \in 1..(k - 1) : f[tlOff + j][2] # 2
      /\ f[tlOff + k][2] = 2 \/ k = n
  BY <1>2, <1>3, <1>4, <1>5
<1> QED
  BY <1>1, <1>2, <1>6 DEF f

\* A text is parsed and left behind.
LEMMA ScanOrder ==
    ASSUME OrderInv, TailScan
    PROVE  OrderInv'
<1> DEFINE f == tlFiles[tlFile]
<1>1. /\ tlPc = "scan" /\ TailAhead # <<>>
      /\ tlOut' = Append(tlOut, NextText) /\ tlOff' = tlOff + Len(NextText)
      /\ tlPc' \in {"scan", "sleep"}
      /\ UNCHANGED <<tlFiles, tlPath, tlWriter, tlLine, tlHalf, tlTruncs, tlFile>>
  BY DEF TailScan, tailLog
<1>2. TailTyped
  BY DEF OrderInv
<1> DEFINE t == NextText
<1>3. PICK k \in 1..(Len(f) - tlOff) :
          /\ t \in Seq(Piece) /\ Len(t) = k
          /\ \A j \in 1..k : t[j] = f[tlOff + j]
  BY <1>1, <1>2, TextIs
<1> HIDE DEF t
<1>4. /\ tlFile \in DOMAIN tlFiles /\ tlOff \in Nat /\ Len(f) \in Nat
      /\ DOMAIN f = 1..Len(f) /\ tlOut \in Seq(Seq(Piece))
      /\ tlFile \in Nat /\ DOMAIN tlFiles = 1..Len(tlFiles)
  BY <1>2, FilesTyped DEF TailTyped
<1>5. /\ tlOut' = Append(tlOut, t) /\ tlOut' \in Seq(Seq(Piece))
      /\ DOMAIN tlOut = 1..Len(tlOut) /\ Len(tlOut) \in Nat
      /\ DOMAIN tlOut' = 1..(Len(tlOut) + 1)
      /\ \A n \in DOMAIN tlOut : tlOut'[n] = tlOut[n]
      /\ tlOut'[Len(tlOut) + 1] = t
  BY <1>1, <1>3, <1>4 DEF t
<1>6. TailTyped'
  BY <1>1, <1>2, <1>3, <1>5 DEF TailTyped, t
<1>7. ReopensLater' /\ LogOrdered' /\ LogWritten'
  BY <1>1 DEF OrderInv, ReopensLater, LogOrdered, LogWritten, NewestRank
\* The pieces of the text are those of the file behind the old offset.
<1>8. ASSUME NEW j \in DOMAIN t
      PROVE  /\ tlOff + j \in DOMAIN f /\ t[j] = f[tlOff + j] /\ Unread(tlFile, tlOff + j)
             /\ j \in Nat /\ tlOff + j <= tlOff'
  <2>1. j \in 1..k /\ k \in Nat /\ k <= Len(f) - tlOff
    BY <1>3, <1>4
  <2>2. tlOff + j \in 1..Len(f) /\ tlOff + j > tlOff /\ tlOff' = tlOff + k
    BY <1>1, <1>3, <1>4, <2>1 DEF t
  <2> QED
    BY <1>3, <1>4, <2>1, <2>2 DEF Unread
<1>9. ParsedOrdered'
  <2> SUFFICES ASSUME NEW m \in DOMAIN tlOut', NEW n \in DOMAIN tlOut',
                      NEW j \in DOMAIN tlOut'[m], NEW i \in DOMAIN tlOut'[n],
                      m < n \/ (m = n /\ j < i)
               PROVE  Rank(tlOut'[m][j]) < Rank(tlOut'[n][i])
    BY DEF ParsedOrdered
  <2>1. CASE n \in DOMAIN tlOut
    <3>1. m \in DOMAIN tlOut
      BY <1>5, <2>1
    <3> QED
      BY <1>5, <2>1, <3>1 DEF OrderInv, ParsedOrdered
  <2>2. CASE n = Len(tlOut) + 1
    <3>1. i \in DOMAIN t /\ tlOut'[n][i] = f[tlOff + i] /\ tlOff + i \in DOMAIN f
          /\ Unread(tlFile, tlOff + i) /\ i \in Nat
      BY <1>5, <1>8, <2>2
    <3>2. CASE m \in DOMAIN tlOut
      <4>1. j \in DOMAIN tlOut[m] /\ tlOut'[m][j] = tlOut[m][j]
        BY <1>5, <3>2
      <4> QED
        BY <1>4, <3>1, <3>2, <4>1 DEF OrderInv, ParsedBehind
    <3>3. CASE m = Len(tlOut) + 1
      <4>1. j < i /\ tlOut'[m][j] = f[tlOff + j] /\ tlOff + j \in DOMAIN f /\ j \in Nat
        BY <1>5, <1>8, <2>2, <3>3
      <4>2. tlOff + j < tlOff + i
        BY <1>4, <3>1, <4>1
      <4> QED
        BY <1>4, <3>1, <4>1, <4>2 DEF OrderInv, LogOrdered
    <3> QED
      BY <1>5, <3>2, <3>3
  <2> QED
    BY <1>5, <2>1, <2>2
<1>10. ParsedWritten'
  <2> SUFFICES ASSUME NEW n \in DOMAIN tlOut', NEW j \in DOMAIN tlOut'[n]
               PROVE  Rank(tlOut'[n][j]) <= NewestRank
    BY <1>1 DEF ParsedWritten, NewestRank
  <2>1. CASE n \in DOMAIN tlOut
    BY <1>5, <2>1 DEF OrderInv, ParsedWritten
  <2>2. CASE n = Len(tlOut) + 1
    <3>1. tlOut'[n][j] = f[tlOff + j] /\ tlOff + j \in DOMAIN f
      BY <1>5, <1>8, <2>2
    <3> QED
      BY <1>4, <3>1 DEF OrderInv, LogWritten
  <2> QED
    BY <1>5, <2>1, <2>2
<1>11. ParsedBehind'
  <2> SUFFICES ASSUME NEW n \in DOMAIN tlOut', NEW j \in DOMAIN tlOut'[n],
                      NEW i \in DOMAIN tlFiles, NEW h \in DOMAIN tlFiles[i],
                      i > tlFile \/ (i = tlFile /\ h > tlOff')
               PROVE  Rank(tlOut'[n][j]) < Rank(tlFiles[i][h])
    BY <1>1 DEF ParsedBehind, Unread
  <2>1. h \in Nat /\ i \in Nat
    BY <1>2, FilesTyped
  <2>2. tlOff' \in Nat /\ tlOff <= tlOff'
    BY <1>1, <1>3, <1>4 DEF t
  <2>3. CASE n \in DOMAIN tlOut
    <3>1. Unread(i, h)
      BY <1>4, <2>1, <2>2 DEF Unread
    <3> QED
      BY <1>5, <2>3, <3>1 DEF OrderInv, ParsedBehind
  <2>4. CASE n = Len(tlOut) + 1
    <3>1. tlOut'[n][j] = f[tlOff + j] /\ tlOff + j \in DOMAIN f /\ tlOff + j <= tlOff' /\ j \in Nat
      BY <1>5, <1>8, <2>4
    <3>2. tlFile < i \/ (tlFile = i /\ tlOff + j < h)
      BY <1>4, <2>1, <2>2, <3>1
    <3> QED
      BY <1>4, <3>1, <3>2 DEF OrderInv, LogOrdered
  <2> QED
    BY <1>5, <2>3, <2>4
<1> QED
  BY <1>6, <1>7, <1>9, <1>10, <1>11 DEF OrderInv

\* Steps that write nothing and parse nothing: pieces stay where they are or go
\* with their file, and what is read stays read.
LEMMA KeepOrder ==
    ASSUME OrderInv, TailTyped', ReopensLater', UNCHANGED <<tlOut, tlLine, tlHalf>>,
           tlWriter <= tlWriter',
           \A i \in DOMAIN tlFiles' : \A j \in DOMAIN tlFiles'[i] :
               i \in DOMAIN tlFiles /\ j \in DOMAIN tlFiles[i] /\ tlFiles'[i][j] = tlFiles[i][j],
           \A i \in DOMAIN tlFiles' : \A k \in DOMAIN tlFiles'[i] : Unread(i, k)' => Unread(i, k)
    PROVE  OrderInv'
<1>1. NewestRank' = NewestRank
  BY DEF NewestRank
<1>2. LogOrdered'
  BY DEF OrderInv, LogOrdered
<1>3. LogWritten'
  <2> SUFFICES ASSUME NEW i \in DOMAIN tlFiles', NEW j \in DOMAIN tlFiles'[i]
               PROVE  i <= tlWriter' /\ Rank(tlFiles'[i][j]) <= NewestRank
    BY <1>1 DEF LogWritten
  <2>1. i \in DOMAIN tlFiles /\ j \in DOMAIN tlFiles[i] /\ tlFiles'[i][j] = tlFiles[i][j]
    OBVIOUS
  <2>2. i <= tlWriter /\ Rank(tlFiles[i][j]) <= NewestRank
    BY <2>1 DEF OrderInv, LogWritten
  <2>3. i \in Nat /\ tlWriter \in Nat /\ tlWriter' \in Nat
    <3>1. DOMAIN tlFiles = 1..Len(tlFiles) /\ tlWriter \in DOMAIN tlFiles
      BY FilesTyped DEF OrderInv, TailTyped
    <3>2. DOMAIN tlFiles' = 1..Len(tlFiles') /\ tlWriter' \in DOMAIN tlFiles'
      BY DEF TailTyped
    <3> QED
      BY <2>1, <3>1, <3>2
  <2> QED
    BY <2>1, <2>2, <2>3
<1>4. ParsedOrdered'
  BY DEF OrderInv, ParsedOrdered
<1>5. ParsedWritten'
  BY <1>1 DEF OrderInv, ParsedWritten
<1>6. ParsedBehind'
  <2> SUFFICES ASSUME NEW n \in DOMAIN tlOut, NEW j \in DOMAIN tlOut[n],
                      NEW i \in DOMAIN tlFiles', NEW k \in DOMAIN tlFiles'[i], Unread(i, k)'
               PROVE  Rank(tlOut[n][j]) < Rank(tlFiles'[i][k])
    BY DEF ParsedBehind
  <2>1. Unread(i, k) /\ i \in DOMAIN tlFiles /\ k \in DOMAIN tlFiles[i]
        /\ tlFiles'[i][k] = tlFiles[i][k]
    OBVIOUS
  <2> QED
    BY <2>1 DEF OrderInv, ParsedBehind
<1> QED
  BY <1>2, <1>3, <1>4, <1>5, <1>6 DEF OrderInv

LEMMA LogOrder ==
    ASSUME OrderInv, TailLog
    PROVE  OrderInv'
<1>1. TailTyped /\ ReopensLater
  BY DEF OrderInv
<1>2. tlLine \in Nat /\ tlHalf \in BOOLEAN /\ tlPath \in Nat /\ tlWriter \in Nat /\ tlFile \in Nat
  BY <1>1, FilesTyped DEF TailTyped
<1>3. CASE LogWrite
  <2> DEFINE l == tlLine + 1
             pieces == << <<l, 1>>, <<l, 2>> >>
  <2>1. /\ tlLine' = l /\ tlHalf = FALSE /\ tlHalf' = FALSE /\ AppendToLog(pieces)
        /\ UNCHANGED <<tlPath, tlWriter, tlTruncs, tailMonitor>>
    BY <1>2, <1>3 DEF LogWrite
  <2>2. <<l, 1>> \in Piece /\ <<l, 2>> \in Piece /\ Rank(<<l, 1>>) = 2 * l + 1
        /\ Rank(<<l, 2>>) = 2 * l + 2
    BY <1>2 DEF Piece, Rank
  <2>3. pieces \in Seq(Piece) /\ DOMAIN pieces = 1..2 /\ pieces[1] = <<l, 1>> /\ pieces[2] = <<l, 2>>
    BY <2>2
  <2>4. NewestRank = 2 * tlLine + 2 /\ NewestRank' = 2 * l + 2
    BY <2>1 DEF NewestRank
  <2> HIDE DEF pieces, l
  <2>5. /\ Rank(pieces[1]) = 2 * l + 1 /\ Rank(pieces[2]) = 2 * l + 2
        /\ l \in Nat /\ l = tlLine + 1 /\ tlLine \in Nat
    BY <1>2, <2>2, <2>3 DEF l
  <2>6. /\ NewestRank < Rank(pieces[1]) /\ Rank(pieces[1]) < Rank(pieces[2])
        /\ NewestRank < Rank(pieces[2]) /\ NewestRank <= NewestRank'
        /\ Rank(pieces[1]) <= NewestRank' /\ Rank(pieces[2]) <= NewestRank'
    BY <2>4, <2>5
  <2>7. \A j \in DOMAIN pieces : j = 1 \/ j = 2
    BY <2>3
  <2>8. \A j \in DOMAIN pieces : NewestRank < Rank(pieces[j]) /\ Rank(pieces[j]) <= NewestRank'
    BY <2>6, <2>7
  <2>9. \A j, k \in DOMAIN pieces : j < k => j = 1 /\ k = 2
    BY <2>7
  <2>10. \A j, k \in DOMAIN pieces : j < k => Rank(pieces[j]) < Rank(pieces[k])
    BY <2>6, <2>9
  <2>11. tlLine' \in Nat /\ tlHalf' \in BOOLEAN
    BY <2>1, <2>5
  <2> QED
    BY <2>1, <2>3, <2>6, <2>8, <2>10, <2>11, WriteOrder
<1>4. CASE LogWriteHalf
  <2> DEFINE p == <<tlLine', IF tlHalf THEN 2 ELSE 1>>
             pieces == <<p>>
  <2>1. /\ tlLine' = (IF tlHalf THEN tlLine ELSE tlLine + 1) /\ tlHalf' = ~tlHalf
        /\ AppendToLog(pieces) /\ UNCHANGED <<tlPath, tlWriter, tlTruncs, tailMonitor>>
    BY <1>4 DEF LogWriteHalf
  <2>2. tlLine' \in Nat
    BY <1>2, <2>1
  <2>3. p \in Piece /\ Rank(p) = 2 * tlLine' + (IF tlHalf THEN 2 ELSE 1)
    BY <2>2 DEF Piece, Rank
  <2> HIDE DEF p
  <2>4. pieces \in Seq(Piece) /\ DOMAIN pieces = {1} /\ pieces[1] = p
    BY <2>3
  <2> HIDE DEF pieces
  <2>5. NewestRank < Rank(p) /\ Rank(p) = NewestRank' /\ NewestRank \in Nat /\ NewestRank' \in Nat
    <3>1. NewestRank \in Nat /\ NewestRank' \in Nat
      BY <1>2, <2>2, NewestTyped
    <3>2. CASE tlHalf
      <4>1. /\ NewestRank = 2 * tlLine + 1 /\ NewestRank' = 2 * tlLine' + 2
            /\ Rank(p) = 2 * tlLine' + 2 /\ tlLine' = tlLine
        BY <2>1, <2>3, <3>2 DEF NewestRank
      <4> QED
        BY <1>2, <3>1, <4>1
    <3>3. CASE ~tlHalf
      <4>1. /\ NewestRank = 2 * tlLine + 2 /\ NewestRank' = 2 * tlLine' + 1
            /\ Rank(p) = 2 * tlLine' + 1 /\ tlLine' = tlLine + 1
        BY <2>1, <2>3, <3>3 DEF NewestRank
      <4> QED
        BY <1>2, <3>1, <4>1
    <3> QED
      BY <3>2, <3>3
  <2>6. \A j \in DOMAIN pieces : NewestRank < Rank(pieces[j]) /\ Rank(pieces[j]) <= NewestRank'
    BY <2>4, <2>5
  <2>7. \A j, k \in DOMAIN pieces : j < k => Rank(pieces[j]) < Rank(pieces[k])
    BY <2>4
  <2>8. NewestRank <= NewestRank' /\ tlHalf' \in BOOLEAN
    BY <2>1, <2>5
  <2> QED
    BY <2>1, <2>2, <2>4, <2>6, <2>7, <2>8, WriteOrder
<1>5. CASE LogRename
  <2>1. tlPath' = 0 /\ UNCHANGED <<tlFiles, tlWriter, tlLine, tlHalf, tlTruncs, tailMonitor>>
    BY <1>5 DEF LogRename
  <2>2. TailTyped' /\ ReopensLater'
    BY <1>1, <2>1 DEF TailTyped, ReopensLater, tailMonitor
  <2>3. \A i \in DOMAIN tlFiles' : \A k \in DOMAIN tlFiles'[i] : Unread(i, k)' => Unread(i, k)
    BY <2>1 DEF Unread, tailMonitor
  <2> QED
    BY <1>2, <2>1, <2>2, <2>3, KeepOrder DEF tailMonitor
<1>6. CASE LogCreate
  <2>1. /\ tlPath = 0 /\ tlFiles' = Append(tlFiles, <<>>) /\ tlPath' = Len(tlFiles')
        /\ UNCHANGED <<tlWriter, tlLine, tlHalf, tlTruncs, tailMonitor>>
    BY <1>6 DEF LogCreate
  <2>2. <<>> \in Seq(Piece) /\ DOMAIN <<>> = {}
    OBVIOUS
  <2>3. /\ tlFiles' \in Seq(Seq(Piece)) /\ Len(tlFiles) \in Nat
        /\ Len(tlFiles') = Len(tlFiles) + 1 /\ DOMAIN tlFiles = 1..Len(tlFiles)
        /\ DOMAIN tlFiles' = 1..(Len(tlFiles) + 1)
        /\ \A i \in DOMAIN tlFiles : tlFiles'[i] = tlFiles[i]
        /\ tlFiles'[Len(tlFiles) + 1] = <<>>
    BY <1>1, <2>1, <2>2 DEF TailTyped
  <2>4. \A i \in DOMAIN tlFiles' : \A j \in DOMAIN tlFiles'[i] :
            i \in DOMAIN tlFiles /\ j \in DOMAIN tlFiles[i] /\ tlFiles'[i][j] = tlFiles[i][j]
    <3> SUFFICES ASSUME NEW i \in DOMAIN tlFiles', NEW j \in DOMAIN tlFiles'[i]
                 PROVE  i \in DOMAIN tlFiles
      BY <2>3
    <3>1. i # Len(tlFiles) + 1
      BY <2>2, <2>3
    <3> QED
      BY <2>3, <3>1
  <2>5. tlFile <= Len(tlFiles) /\ tlFile \in DOMAIN tlFiles /\ tlWriter \in DOMAIN tlFiles
    <3>1. tlFile \in DOMAIN tlFiles /\ tlWriter \in DOMAIN tlFiles
      BY <1>1 DEF TailTyped
    <3> QED
      BY <2>3, <3>1
  <2>6. TailTyped'
    BY <1>1, <2>1, <2>3, <2>5 DEF TailTyped, tailMonitor
  <2>7. ReopensLater'
    BY <1>2, <2>1, <2>3, <2>5 DEF ReopensLater, tailMonitor
  <2>8. \A i \in DOMAIN tlFiles' : \A k \in DOMAIN tlFiles'[i] : Unread(i, k)' => Unread(i, k)
    BY <2>1 DEF Unread, tailMonitor
  <2> QED
    BY <1>2, <2>1, <2>4, <2>6, <2>7, <2>8, KeepOrder DEF tailMonitor
<1>7. CASE LogReopen
  <2>1. tlPath # 0 /\ tlWriter' = tlPath /\ UNCHANGED <<tlFiles, tlPath, tlLine, tlHalf, tlTruncs, tailMonitor>>
    BY <1>7 DEF LogReopen
  <2>2. Len(tlFiles) \in Nat \ {0} /\ DOMAIN tlFiles = 1..Len(tlFiles)
    BY <1>1, FilesTyped
  <2>3. tlPath = Len(tlFiles) /\ tlWriter \in DOMAIN tlFiles
    BY <1>1, <2>1 DEF TailTyped
  <2>4. tlWriter <= tlWriter' /\ tlWriter' \in DOMAIN tlFiles'
    BY <2>1, <2>2, <2>3
  <2>5. TailTyped' /\ ReopensLater'
    BY <1>1, <2>1, <2>4 DEF TailTyped, ReopensLater, tailMonitor
  <2>6. \A i \in DOMAIN tlFiles' : \A k \in DOMAIN tlFiles'[i] : Unread(i, k)' => Unread(i, k)
    BY <2>1 DEF Unread, tailMonitor
  <2> QED
    BY <2>1, <2>4, <2>5, <2>6, KeepOrder DEF tailMonitor
<1>8. CASE LogTruncate
  <2>1. /\ tlTruncs' = tlTruncs + 1 /\ tlFiles' = [tlFiles EXCEPT ![tlPath] = <<>>]
        /\ UNCHANGED <<tlPath, tlWriter, tlLine, tlHalf, tailMonitor>>
    BY <1>8 DEF LogTruncate
  <2>2. <<>> \in Seq(Piece) /\ DOMAIN <<>> = {}
    OBVIOUS
  <2>3. /\ tlFiles' \in Seq(Seq(Piece)) /\ Len(tlFiles') = Len(tlFiles)
        /\ DOMAIN tlFiles' = DOMAIN tlFiles
        /\ \A i \in DOMAIN tlFiles : tlFiles'[i] = tlFiles[i] \/ tlFiles'[i] = <<>>
    <3>1. tlFiles \in Seq(Seq(Piece))
      BY <1>1 DEF TailTyped
    <3>2. /\ tlFiles' \in Seq(Seq(Piece)) /\ Len(tlFiles') = Len(tlFiles)
          /\ DOMAIN tlFiles' = DOMAIN tlFiles
      <4>1. tlPath \in {0, Len(tlFiles)} /\ tlPath # 0
        BY <1>1, <1>8 DEF TailTyped, LogTruncate
      <4>2. tlPath \in DOMAIN tlFiles
        <5>1. Len(tlFiles) \in Nat \ {0} /\ DOMAIN tlFiles = 1..Len(tlFiles)
          BY <1>1, FilesTyped
        <5>2. tlPath = Len(tlFiles)
          BY <4>1
        <5> QED
          BY <5>1, <5>2
      <4> QED
        BY <2>1, <2>2, <3>1, <4>2
    <3>3. \A i \in DOMAIN tlFiles : tlFiles'[i] = IF i = tlPath THEN <<>> ELSE tlFiles[i]
      BY <2>1, <3>1
    <3> QED
      BY <3>2, <3>3
  <2>4. \A i \in DOMAIN tlFiles' : \A j \in DOMAIN tlFiles'[i] :
            i \in DOMAIN tlFiles /\ j \in DOMAIN tlFiles[i] /\ tlFiles'[i][j] = tlFiles[i][j]
    BY <2>2, <2>3
  <2>5. tlTruncs' \in Nat
    BY <1>1, <2>1 DEF TailTyped
  <2>6. TailTyped' /\ ReopensLater'
    BY <1>1, <2>1, <2>3, <2>5 DEF TailTyped, ReopensLater, tailMonitor
  <2>7. \A i \in DOMAIN tlFiles' : \A k \in DOMAIN tlFiles'[i] : Unread(i, k)' => Unread(i, k)
    BY <2>1 DEF Unread, tailMonitor
  <2> QED
    BY <1>2, <2>1, <2>4, <2>6, <2>7, KeepOrder DEF tailMonitor
<1> QED
  BY <1>3, <1>4, <1>5, <1>6, <1>7, <1>8 DEF TailLog

\* The monitor's steps that parse nothing only ever go forward.
LEMMA MoveOrder ==
    ASSUME OrderInv,
           TailCheck \/ TailReopen \/ TailGiveUp \/ TailTooLong \/ TailEOF \/ TailSleep \/ TailCancel
    PROVE  OrderInv'
<1>1. TailTyped /\ ReopensLater
  BY DEF OrderInv
<1>2. /\ Len(tlFiles) \in Nat \ {0} /\ DOMAIN tlFiles = 1..Len(tlFiles)
      /\ tlFile \in DOMAIN tlFiles /\ tlOff \in Nat /\ tlPath \in {0, Len(tlFiles)}
      /\ tlWriter \in DOMAIN tlFiles /\ tlWriter \in Nat
  BY <1>1, FilesTyped DEF TailTyped
<1>3. UNCHANGED <<tlFiles, tlPath, tlWriter, tlLine, tlHalf, tlTruncs, tlOut>>
  BY DEF TailCheck, TailReopen, TailGiveUp, TailTooLong, TailEOF, TailSleep, TailCancel, tailLog
<1>4. \/ tlFile' = tlFile /\ tlOff' = tlOff
      \/ tlFile' = tlFile /\ tlOff' = tlOff + 1
      \/ tlPc = "reopen" /\ tlPath # 0 /\ tlFile' = tlPath /\ tlOff' = 0
  BY DEF TailCheck, TailReopen, TailGiveUp, TailTooLong, TailEOF, TailSleep, TailCancel
<1> DEFINE n == Len(tlFiles)
<1>5. /\ n \in Nat \ {0} /\ DOMAIN tlFiles = 1..n /\ tlFile \in 1..n
      /\ tlPath = 0 \/ tlPath = n
      /\ tlOff \in Nat /\ tlWriter \in Nat
  BY <1>2
<1> HIDE DEF n
<1>10. tlFile' \in DOMAIN tlFiles /\ tlOff' \in Nat
  BY <1>4, <1>5
<1>6. TailTyped'
  BY <1>1, <1>3, <1>10 DEF TailTyped
<1>7. tlPc' = "reopen" => tlFile' = tlFile /\ (tlPc = "reopen" \/ tlPath # tlFile)
  BY DEF TailCheck, TailReopen, TailGiveUp, TailTooLong, TailEOF, TailSleep, TailCancel
<1>8. ReopensLater'
  BY <1>1, <1>3, <1>5, <1>7 DEF ReopensLater
<1>9. \A i \in DOMAIN tlFiles' : \A k \in DOMAIN tlFiles'[i] : Unread(i, k)' => Unread(i, k)
  <2> SUFFICES ASSUME NEW i \in DOMAIN tlFiles, NEW k \in DOMAIN tlFiles[i], Unread(i, k)'
               PROVE  Unread(i, k)
    BY <1>3
  <2>1. i \in Nat /\ k \in Nat
    <3>1. DOMAIN tlFiles[i] = 1..Len(tlFiles[i])
      BY <1>1, FilesTyped
    <3> QED
      BY <1>5, <3>1
  <2>2. CASE tlFile' = tlFile /\ (tlOff' = tlOff \/ tlOff' = tlOff + 1)
    <3>1. i > tlFile \/ (i = tlFile /\ k > tlOff')
      BY <2>2 DEF Unread
    <3> QED
      BY <1>5, <2>1, <2>2, <3>1 DEF Unread
  <2>3. CASE tlPc = "reopen" /\ tlPath # 0 /\ tlFile' = tlPath /\ tlOff' = 0
    <3>1. tlFile < tlPath
      BY <1>1, <2>3 DEF ReopensLater
    <3>2. i > tlPath \/ i = tlPath
      BY <2>3 DEF Unread
    <3> QED
      BY <1>5, <2>1, <2>3, <3>1, <3>2 DEF Unread
  <2> QED
    BY <1>4, <2>2, <2>3
<1>11. \A i \in DOMAIN tlFiles' : \A j \in DOMAIN tlFiles'[i] :
          i \in DOMAIN tlFiles /\ j \in DOMAIN tlFiles[i] /\ tlFiles'[i][j] = tlFiles[i][j]
  BY <1>3
<1>12. tlWriter <= tlWriter'
  <2>1. tlWriter' = tlWriter
    BY <1>3
  <2> QED
    BY <1>5, <2>1
<1> QED
  BY <1>3, <1>6, <1>8, <1>9, <1>11, <1>12, KeepOrder

LEMMA OrderStep ==
    ASSUME OrderInv, [TailNext]_tailVars
    PROVE  OrderInv'
<1>1. CASE UNCHANGED tailVars
  BY <1>1 DEF tailVars, tailLog, tailMonitor, OrderInv, TailTyped, ReopensLater, LogOrdered,
     LogWritten, NewestRank, ParsedOrdered, ParsedWritten, ParsedBehind, Unread
<1>2. CASE TailNext
  BY <1>1, <1>2, LogOrder, MoveOrder, ScanOrder DEF TailNext, TailLoop, TailEnded
<1> QED
  BY <1>1, <1>2

\* Through rotations and truncations, with the monitor at any place of its loop
\* when they happen, no piece of the log is parsed twice or out of order: the
\* monitor opens what is at the path only when it has an older file open, and
\* what it has parsed is older than all that it may yet read
\* (auth_linux.go:74-116, :118-140).
THEOREM TailParsesInOrder == TailSpec => []TailOnceInOrder
<1>1. TailInit => OrderInv
  BY OrderInit
<1>2. OrderInv /\ [TailNext]_tailVars => OrderInv'
  BY OrderStep
<1>3. OrderInv => TailOnceInOrder
  <2> SUFFICES ASSUME OrderInv, NEW m \in DOMAIN tlOut, NEW n \in DOMAIN tlOut,
                      NEW j \in DOMAIN tlOut[m], NEW k \in DOMAIN tlOut[n],
                      m < n \/ (m = n /\ j < k)
               PROVE  PieceBefore(tlOut[m][j], tlOut[n][k])
    BY DEF TailOnceInOrder
  <2>1. tlOut[m][j] \in Piece /\ tlOut[n][k] \in Piece
    BY FilesTyped DEF OrderInv
  <2>2. Rank(tlOut[m][j]) < Rank(tlOut[n][k])
    BY DEF OrderInv, ParsedOrdered
  <2> QED
    BY <2>1, <2>2, RankOrders
<1> QED
  BY <1>1, <1>2, <1>3, PTL DEF TailSpec
-----------------------------------------------------------------------------
(* AuthTail: whole lines *)

\* In a file, the pieces of a line that is not among S are neighbours.
Pairs(f, S) ==
    \A j \in DOMAIN f : f[j][1] \notin S =>
        /\ f[j][2] = 1 => j + 1 \in DOMAIN f /\ f[j + 1] = <<f[j][1], 2>>
        /\ f[j][2] = 2 => j - 1 \in DOMAIN f /\ f[j - 1] = <<f[j][1], 1>>

\* An offset is in the file, and no such line is cut by it.
Aligned(f, off, S) ==
    /\ off <= Len(f)
    /\ off + 1 \in DOMAIN f /\ f[off + 1][2] = 2 => f[off + 1][1] \in S \cup LongLines

Whole(text, S) ==
    text[1][1] \notin S \cup LongLines =>
        text = << <<text[1][1], 1>>, <<text[1][1], 2>> >>

AllPaired == \A i \in DOMAIN tlFiles : Pairs(tlFiles[i], tlSplit)
AtStart == Aligned(tlFiles[tlFile], tlOff, tlSplit)
AllWhole == \A n \in DOMAIN tlOut : Whole(tlOut[n], tlSplit)

WholeInv == OrderInv /\ (tlTruncs = 0 => AllPaired /\ AtStart /\ AllWhole)

LEMMA Appended ==
    ASSUME NEW f \in Seq(Piece), NEW g \in Seq(Piece)
    PROVE  /\ f \o g \in Seq(Piece) /\ Len(f) \in Nat /\ Len(g) \in Nat
           /\ Len(f \o g) = Len(f) + Len(g)
           /\ DOMAIN f = 1..Len(f) /\ DOMAIN g = 1..Len(g)
           /\ DOMAIN (f \o g) = 1..(Len(f) + Len(g))
           /\ \A j \in 1..Len(f) : (f \o g)[j] = f[j]
           /\ \A j \in 1..Len(g) : (f \o g)[Len(f) + j] = g[j]
  OBVIOUS

LEMMA PairsAppend ==
    ASSUME NEW f \in Seq(Piece), NEW g \in Seq(Piece), NEW S, Pairs(f, S), Pairs(g, S)
    PROVE  Pairs(f \o g, S)
<1> DEFINE h == f \o g
           m == Len(f)
           n == Len(g)
<1>1. /\ m \in Nat /\ n \in Nat /\ DOMAIN f = 1..m /\ DOMAIN g = 1..n /\ DOMAIN h = 1..(m + n)
      /\ \A j \in 1..m : h[j] = f[j]
      /\ \A j \in 1..n : h[m + j] = g[j]
  BY Appended
<1> HIDE DEF h, m, n
<1> SUFFICES ASSUME NEW j \in DOMAIN h, h[j][1] \notin S
             PROVE  /\ h[j][2] = 1 => j + 1 \in DOMAIN h /\ h[j + 1] = <<h[j][1], 2>>
                    /\ h[j][2] = 2 => j - 1 \in DOMAIN h /\ h[j - 1] = <<h[j][1], 1>>
  BY DEF Pairs, h
<1>2. CASE j \in 1..m
  <2>1. h[j] = f[j] /\ j \in DOMAIN f
    BY <1>1, <1>2
  <2>2. /\ h[j][2] = 1 => j + 1 \in 1..m /\ f[j + 1] = <<h[j][1], 2>>
        /\ h[j][2] = 2 => j - 1 \in 1..m /\ f[j - 1] = <<h[j][1], 1>>
    BY <1>1, <2>1 DEF Pairs
  <2>3. \A i \in 1..m : i \in DOMAIN h /\ h[i] = f[i]
    BY <1>1
  <2> QED
    BY <2>2, <2>3
<1>3. CASE j \notin 1..m
  <2>1. j \in Nat /\ j - m \in 1..n /\ m + (j - m) = j
    BY <1>1, <1>3
  <2>2. h[j] = g[j - m] /\ j - m \in DOMAIN g
    BY <1>1, <2>1
  <2>3. /\ h[j][2] = 1 => (j - m) + 1 \in 1..n /\ g[(j - m) + 1] = <<h[j][1], 2>>
        /\ h[j][2] = 2 => (j - m) - 1 \in 1..n /\ g[(j - m) - 1] = <<h[j][1], 1>>
    BY <1>1, <2>2 DEF Pairs
  <2>4. \A i \in 1..n : m + i \in DOMAIN h /\ h[m + i] = g[i]
    BY <1>1
  <2>5. m + ((j - m) + 1) = j + 1 /\ m + ((j - m) - 1) = j - 1
    BY <1>1, <2>1
  <2> QED
    BY <2>3, <2>4, <2>5
<1> QED
  BY <1>2, <1>3

LEMMA AlignedAppend ==
    ASSUME NEW f \in Seq(Piece), NEW g \in Seq(Piece), NEW S, NEW off \in Nat, Aligned(f, off, S),
           g # <<>>, g[1][2] = 2 => g[1][1] \in S
    PROVE  Aligned(f \o g, off, S)
<1> DEFINE h == f \o g
           m == Len(f)
           n == Len(g)
<1>1. /\ m \in Nat /\ n \in Nat /\ DOMAIN f = 1..m /\ DOMAIN h = 1..(m + n) /\ Len(h) = m + n
      /\ \A j \in 1..m : h[j] = f[j]
      /\ \A j \in 1..n : h[m + j] = g[j]
  BY Appended
<1>2. n # 0
  OBVIOUS
<1> HIDE DEF h, m, n
<1>3. off <= m
  BY DEF Aligned, m
<1>4. CASE off + 1 \in 1..m
  <2>1. h[off + 1] = f[off + 1]
    BY <1>1, <1>4
  <2> QED
    BY <1>1, <1>3, <1>4, <2>1 DEF Aligned, h
<1>5. CASE off = m
  <2>1. 1 \in 1..n
    BY <1>1, <1>2
  <2>2. h[off + 1] = g[1]
    BY <1>1, <1>5, <2>1
  <2> QED
    BY <1>1, <1>3, <2>2 DEF Aligned, h
<1> QED
  BY <1>1, <1>3, <1>4, <1>5

\* A line not yet among the divided ones may become one.
LEMMA DividedMore ==
    ASSUME NEW S, NEW T, S \subseteq T
    PROVE  /\ \A f : Pairs(f, S) => Pairs(f, T)
           /\ \A f, off : Aligned(f, off, S) => Aligned(f, off, T)
           /\ \A text : Whole(text, S) => Whole(text, T)
  BY DEF Pairs, Aligned, Whole

\* The daemon's pieces pair among themselves.
LEMMA WriteWhole ==
    ASSUME WholeInv, tlTruncs = 0, NEW pieces \in Seq(Piece), pieces # <<>>, AppendToLog(pieces),
           tlSplit \subseteq tlSplit', Pairs(pieces, tlSplit'),
           pieces[1][2] = 2 => pieces[1][1] \in tlSplit',
           UNCHANGED tailMonitor
    PROVE  AllPaired' /\ AtStart' /\ AllWhole'
<1> DEFINE f == tlFiles[tlWriter]
           g == f \o pieces
<1>1. /\ TailTyped /\ AllPaired /\ AtStart /\ AllWhole
      /\ UNCHANGED <<tlFile, tlOff, tlOut>>
  BY DEF WholeInv, OrderInv, tailMonitor
<1>2. /\ tlWriter \in DOMAIN tlFiles /\ f \in Seq(Piece) /\ tlFile \in DOMAIN tlFiles /\ tlOff \in Nat
      /\ tlFiles[tlFile] \in Seq(Piece)
  BY <1>1 DEF TailTyped
<1>3. tlFiles' = [tlFiles EXCEPT ![tlWriter] = g]
  BY DEF AppendToLog
<1> HIDE DEF g
<1>4. /\ DOMAIN tlFiles' = DOMAIN tlFiles /\ tlFiles'[tlWriter] = g
      /\ \A i \in DOMAIN tlFiles : i # tlWriter => tlFiles'[i] = tlFiles[i]
  BY <1>2, <1>3
<1>5. AllPaired'
  <2>1. \A i \in DOMAIN tlFiles : Pairs(tlFiles[i], tlSplit')
    BY <1>1, DividedMore DEF AllPaired
  <2>2. Pairs(g, tlSplit')
    BY <1>2, <2>1, PairsAppend DEF g
  <2>3. \A i \in DOMAIN tlFiles' : Pairs(tlFiles'[i], tlSplit')
    BY <1>4, <2>1, <2>2
  <2> QED
    BY <2>3 DEF AllPaired
<1>6. AtStart'
  <2>1. Aligned(tlFiles[tlFile], tlOff, tlSplit')
    BY <1>1, DividedMore DEF AtStart
  <2>2. CASE tlFile = tlWriter
    <3>1. Aligned(f, tlOff, tlSplit')
      BY <2>1, <2>2
    <3>2. Aligned(g, tlOff, tlSplit')
      BY <1>2, <3>1, AlignedAppend DEF g
    <3> QED
      BY <1>1, <1>4, <2>2, <3>2 DEF AtStart
  <2>3. CASE tlFile # tlWriter
    BY <1>1, <1>2, <1>4, <2>1, <2>3 DEF AtStart
  <2> QED
    BY <2>2, <2>3
<1>7. AllWhole'
  BY <1>1, DividedMore DEF AllWhole
<1> QED
  BY <1>5, <1>6, <1>7

LEMMA LogWhole ==
    ASSUME WholeInv, TailLog, tlTruncs' = 0
    PROVE  AllPaired' /\ AtStart' /\ AllWhole'
<1>1. TailTyped
  BY DEF WholeInv, OrderInv
<1>2. /\ tlLine \in Nat /\ tlTruncs \in Nat /\ tlFiles \in Seq(Seq(Piece))
      /\ tlFile \in DOMAIN tlFiles
  BY <1>1 DEF TailTyped
<1>3. CASE LogWrite
  <2> DEFINE l == tlLine + 1
             pieces == << <<l, 1>>, <<l, 2>> >>
  <2>1. /\ tlLine' = l /\ AppendToLog(pieces) /\ tlTruncs = 0 /\ tlSplit' = tlSplit
        /\ UNCHANGED tailMonitor
    BY <1>3 DEF LogWrite
  <2>2. <<l, 1>> \in Piece /\ <<l, 2>> \in Piece
    BY <1>2 DEF Piece
  <2> HIDE DEF l
  <2>3. /\ pieces \in Seq(Piece) /\ pieces # <<>> /\ DOMAIN pieces = 1..2
        /\ pieces[1] = <<l, 1>> /\ pieces[2] = <<l, 2>>
    BY <2>2
  <2> HIDE DEF pieces
  <2>4. Pairs(pieces, tlSplit')
    <3>1. \A j \in DOMAIN pieces : j = 1 \/ j = 2
      BY <2>3
    <3>2. pieces[1][1] = l /\ pieces[1][2] = 1 /\ pieces[2][1] = l /\ pieces[2][2] = 2
      BY <2>3
    <3>3. 1 + 1 = 2 /\ 2 - 1 = 1 /\ 1 \in DOMAIN pieces /\ 2 \in DOMAIN pieces /\ 1 # 2
      BY <2>3
    <3> QED
      BY <2>3, <3>1, <3>2, <3>3 DEF Pairs
  <2>5. pieces[1][2] # 2
    BY <2>3
  <2> QED
    BY <2>1, <2>3, <2>4, <2>5, WriteWhole
<1>4. CASE LogWriteHalf
  <2> DEFINE p == <<tlLine', IF tlHalf THEN 2 ELSE 1>>
             pieces == <<p>>
  <2>1. /\ AppendToLog(pieces) /\ tlTruncs = 0 /\ tlSplit' = tlSplit \cup {tlLine'}
        /\ UNCHANGED tailMonitor /\ tlLine' \in Nat
    BY <1>2, <1>4 DEF LogWriteHalf
  <2>2. p \in Piece /\ p[1] = tlLine'
    BY <2>1 DEF Piece
  <2> HIDE DEF p
  <2>3. pieces \in Seq(Piece) /\ pieces # <<>> /\ DOMAIN pieces = {1} /\ pieces[1] = p
    BY <2>2
  <2> HIDE DEF pieces
  <2>4. Pairs(pieces, tlSplit') /\ pieces[1][1] \in tlSplit' /\ tlSplit \subseteq tlSplit'
    BY <2>1, <2>2, <2>3 DEF Pairs
  <2> QED
    BY <2>1, <2>3, <2>4, WriteWhole
<1>5. CASE LogRename \/ LogReopen
  BY <1>5 DEF LogRename, LogReopen, WholeInv, AllPaired, AtStart, AllWhole, tailMonitor
<1>6. CASE LogCreate
  <2>1. /\ tlFiles' = Append(tlFiles, <<>>) /\ tlTruncs = 0
        /\ UNCHANGED <<tlSplit, tlFile, tlOff, tlOut>>
    BY <1>6 DEF LogCreate, tailMonitor
  <2>2. /\ DOMAIN tlFiles' = DOMAIN tlFiles \cup {Len(tlFiles) + 1}
        /\ \A i \in DOMAIN tlFiles : tlFiles'[i] = tlFiles[i]
        /\ tlFiles'[Len(tlFiles) + 1] = <<>>
    BY <1>2, <2>1
  <2>3. Pairs(<<>>, tlSplit)
    BY DEF Pairs
  <2>4. \A i \in DOMAIN tlFiles' : Pairs(tlFiles'[i], tlSplit)
    BY <2>1, <2>2, <2>3 DEF WholeInv, AllPaired
  <2> QED
    BY <1>2, <2>1, <2>2, <2>4 DEF WholeInv, AllPaired, AtStart, AllWhole
<1>7. CASE LogTruncate
  BY <1>2, <1>7 DEF LogTruncate
<1> QED
  BY <1>3, <1>4, <1>5, <1>6, <1>7 DEF TailLog

\* Behind the second piece of a line begins another, and so it does behind a
\* first piece that fills the buffer.
LEMMA AlignedNext ==
    ASSUME NEW f \in Seq(Piece), NEW S, NEW off \in Nat, Pairs(f, S), off \in DOMAIN f,
           f[off][2] = 2 \/ f[off][1] \in LongLines
    PROVE  Aligned(f, off, S)
<1>1. /\ Len(f) \in Nat /\ DOMAIN f = 1..Len(f)
  OBVIOUS
<1>2. off <= Len(f)
  BY <1>1
<1>3. ASSUME off + 1 \in DOMAIN f, f[off + 1][2] = 2, f[off + 1][1] \notin S
      PROVE  f[off + 1][1] \in LongLines
  <2> DEFINE i == off + 1
  <2>1. i \in DOMAIN f /\ f[i][2] = 2 /\ f[i][1] \notin S
    BY <1>3
  <2>2. i - 1 = off
    OBVIOUS
  <2> HIDE DEF i
  <2>3. f[i - 1] = <<f[i][1], 1>>
    BY <2>1 DEF Pairs
  <2>4. f[off][1] = f[i][1] /\ f[off][2] = 1
    BY <2>2, <2>3
  <2> QED
    BY <2>4 DEF i
<1> QED
  BY <1>2, <1>3 DEF Aligned

LEMMA AlignedAtStart ==
    ASSUME NEW f \in Seq(Piece), NEW S, Pairs(f, S)
    PROVE  Aligned(f, 0, S)
<1>1. Len(f) \in Nat /\ DOMAIN f = 1..Len(f)
  OBVIOUS
<1>2. 0 <= Len(f)
  BY <1>1
<1>3. ASSUME 0 + 1 \in DOMAIN f, f[0 + 1][2] = 2 PROVE f[0 + 1][1] \in S
  <2>1. ~(0 + 1 - 1 \in DOMAIN f)
    BY <1>1
  <2> QED
    BY <1>3, <2>1 DEF Pairs
<1> QED
  BY <1>2, <1>3 DEF Aligned

LEMMA ScanWhole ==
    ASSUME WholeInv, TailScan, tlTruncs' = 0
    PROVE  AllPaired' /\ AtStart' /\ AllWhole'
<1> DEFINE f == tlFiles[tlFile]
           t == NextText
           S == tlSplit
<1>1. /\ TailAhead # <<>> /\ tlOut' = Append(tlOut, t) /\ tlOff' = tlOff + Len(t)
      /\ UNCHANGED <<tlFiles, tlFile, tlTruncs, tlSplit>>
  BY DEF TailScan, tailLog
<1>2. TailTyped /\ AllPaired /\ AtStart /\ AllWhole
  BY <1>1 DEF WholeInv, OrderInv
<1>3. PICK k \in 1..(Len(f) - tlOff) :
          /\ t \in Seq(Piece) /\ Len(t) = k
          /\ \A j \in 1..k : t[j] = f[tlOff + j]
          /\ \A j \in 1..(k - 1) : f[tlOff + j][2] # 2
          /\ f[tlOff + k][2] = 2 \/ k = Len(f) - tlOff
  BY <1>1, <1>2, TextIs
<1>4. /\ tlFile \in DOMAIN tlFiles /\ tlOff \in Nat /\ f \in Seq(Piece)
      /\ Len(f) \in Nat /\ DOMAIN f = 1..Len(f) /\ tlOut \in Seq(Seq(Piece))
  BY <1>2, FilesTyped DEF TailTyped
<1>5. Pairs(f, S) /\ Aligned(f, tlOff, S)
  BY <1>2, <1>4 DEF AllPaired, AtStart
<1> HIDE DEF t, f
<1>6. /\ k \in Nat /\ 1 <= k /\ tlOff + k <= Len(f) /\ tlOff + k \in DOMAIN f
      /\ tlOff + 1 \in DOMAIN f /\ tlOff' = tlOff + k /\ tlOff' \in Nat
  <2>1. tlOff' = tlOff + k
    BY <1>1, <1>3
  <2>2. k \in Nat /\ 1 <= k /\ k <= Len(f) - tlOff /\ tlOff \in Nat /\ Len(f) \in Nat
    <3>1. tlOff \in Nat /\ Len(f) \in Nat
      BY <1>4
    <3>2. k \in 1..(Len(f) - tlOff)
      OBVIOUS
    <3> QED
      BY <3>1, <3>2
  <2>3. DOMAIN f = 1..Len(f)
    BY <1>4
  <2> QED
    BY <2>1, <2>2, <2>3
<1>7. Aligned(f, tlOff', S)
  <2>1. CASE f[tlOff + k][2] = 2
    BY <1>4, <1>5, <1>6, <2>1, AlignedNext
  <2>2. CASE k = Len(f) - tlOff
    <3>1. tlOff' <= Len(f) /\ tlOff' + 1 \notin DOMAIN f
      BY <1>4, <1>6, <2>2
    <3> QED
      BY <3>1 DEF Aligned
  <2> QED
    BY <1>3, <2>1, <2>2
<1>8. Whole(t, S)
  <2> DEFINE l == t[1][1]
  <2> SUFFICES ASSUME l \notin S \cup LongLines
               PROVE  t = << <<l, 1>>, <<l, 2>> >>
    BY DEF Whole
  <2>1. t[1] = f[tlOff + 1]
    BY <1>3, <1>6
  <2>2. f[tlOff + 1][2] # 2 /\ f[tlOff + 1] \in Piece
    BY <1>4, <1>5, <1>6, <2>1 DEF Aligned
  <2>3. f[tlOff + 1] = <<l, 1>>
    <3>1. f[tlOff + 1][2] = 1
      BY <2>2 DEF Piece
    <3> QED
      BY <2>1, <2>2, <3>1 DEF Piece
  <2> DEFINE i == tlOff + 1
  <2>4. i \in DOMAIN f /\ f[i][1] \notin S /\ f[i][1] = l /\ f[i][2] = 1 /\ i + 1 = tlOff + 2
    BY <1>4, <1>6, <2>3
  <2>5. tlOff + 2 \in DOMAIN f /\ f[tlOff + 2] = <<l, 2>> /\ f[tlOff + 2][2] = 2
    <3> HIDE DEF i, l
    <3>1. i + 1 \in DOMAIN f /\ f[i + 1] = <<l, 2>>
      BY <1>5, <2>4 DEF Pairs
    <3> QED
      BY <2>4, <3>1
  <2>6. k # 1
    <3> SUFFICES ASSUME k = 1 PROVE FALSE
      OBVIOUS
    <3>1. k = Len(f) - tlOff
      BY <1>3, <2>2
    <3> QED
      BY <1>4, <2>5, <3>1
  <2>7. ~(2 \in 1..(k - 1))
    BY <1>3, <2>5
  <2>8. k = 2
    BY <1>6, <2>6, <2>7
  <2>9. t[1] = <<l, 1>> /\ t[2] = <<l, 2>>
    BY <1>3, <2>1, <2>3, <2>5, <2>8
  <2>10. t \in Seq(Piece) /\ Len(t) = 2
    BY <1>3, <2>8
  <2> HIDE DEF l
  <2> QED
    BY <2>9, <2>10
<1>9. AllWhole'
  <2>1. /\ DOMAIN tlOut = 1..Len(tlOut) /\ Len(tlOut) \in Nat
        /\ DOMAIN tlOut' = 1..(Len(tlOut) + 1)
        /\ \A n \in DOMAIN tlOut : tlOut'[n] = tlOut[n]
        /\ tlOut'[Len(tlOut) + 1] = t
    <3>1. tlOut \in Seq(Seq(Piece)) /\ t \in Seq(Piece) /\ tlOut' = Append(tlOut, t)
      BY <1>1, <1>3, <1>4
    <3> QED
      BY <3>1
  <2>2. \A n \in DOMAIN tlOut' : Whole(tlOut'[n], S)
    BY <1>2, <1>8, <2>1 DEF AllWhole
  <2> QED
    BY <1>1, <2>2 DEF AllWhole
<1> QED
  BY <1>1, <1>2, <1>7, <1>9 DEF AllPaired, AtStart, f

LEMMA MoveWhole ==
    ASSUME WholeInv, tlTruncs' = 0,
           TailCheck \/ TailReopen \/ TailGiveUp \/ TailTooLong \/ TailEOF \/ TailSleep \/ TailCancel
    PROVE  AllPaired' /\ AtStart' /\ AllWhole'
<1>1. UNCHANGED <<tlFiles, tlPath, tlTruncs, tlSplit, tlOut>>
  BY DEF TailCheck, TailReopen, TailGiveUp, TailTooLong, TailEOF, TailSleep, TailCancel, tailLog
<1>2. TailTyped /\ AllPaired /\ AtStart /\ AllWhole
  BY <1>1 DEF WholeInv, OrderInv
<1>3. AllPaired' /\ AllWhole'
  BY <1>1, <1>2 DEF AllPaired, AllWhole
<1>4. CASE UNCHANGED <<tlFile, tlOff>>
  BY <1>1, <1>2, <1>3, <1>4 DEF AtStart
<1>5. CASE TailReopen /\ tlPath # 0
  <2>1. tlFile' = tlPath /\ tlOff' = 0
    BY <1>5 DEF TailReopen
  <2>2. tlPath \in DOMAIN tlFiles
    <3>1. Len(tlFiles) \in Nat \ {0} /\ DOMAIN tlFiles = 1..Len(tlFiles)
      BY <1>2, FilesTyped
    <3>2. tlPath = Len(tlFiles)
      BY <1>2, <1>5 DEF TailTyped
    <3> QED
      BY <3>1, <3>2
  <2>3. tlFiles[tlPath] \in Seq(Piece) /\ Pairs(tlFiles[tlPath], tlSplit)
    BY <1>2, <2>2, FilesTyped DEF AllPaired
  <2>4. Aligned(tlFiles[tlPath], 0, tlSplit)
    BY <2>3, AlignedAtStart
  <2> QED
    BY <1>1, <1>3, <2>1, <2>4 DEF AtStart
<1>6. CASE TailTooLong
  <2> DEFINE f == tlFiles[tlFile]
  <2>1. TailAhead # <<>> /\ TooLong(NextText) /\ tlOff' = tlOff + 1 /\ tlFile' = tlFile
    BY <1>6 DEF TailTooLong
  <2>2. PICK k \in 1..(Len(f) - tlOff) : \A j \in 1..k : NextText[j] = f[tlOff + j]
    BY <1>2, <2>1, TextIs
  <2>3. /\ tlFile \in DOMAIN tlFiles /\ tlOff \in Nat /\ f \in Seq(Piece)
        /\ Len(f) \in Nat /\ DOMAIN f = 1..Len(f)
    BY <1>2, FilesTyped DEF TailTyped
  <2>4. Pairs(f, tlSplit)
    BY <1>2, <2>3 DEF AllPaired
  <2> HIDE DEF f
  <2>5. tlOff + 1 \in DOMAIN f /\ NextText[1] = f[tlOff + 1] /\ tlOff' \in Nat
    BY <2>1, <2>2, <2>3
  <2>6. f[tlOff'][1] \in LongLines
    BY <2>1, <2>5 DEF TooLong
  <2>7. Aligned(f, tlOff', tlSplit)
    BY <2>1, <2>3, <2>4, <2>5, <2>6, AlignedNext
  <2> QED
    BY <1>1, <1>3, <2>1, <2>7 DEF AtStart, f
<1>7. UNCHANGED <<tlFile, tlOff>> \/ (TailReopen /\ tlPath # 0) \/ TailTooLong
  BY DEF TailCheck, TailReopen, TailGiveUp, TailEOF, TailSleep, TailCancel
<1> QED
  BY <1>4, <1>5, <1>6, <1>7

LEMMA WholeStep ==
    ASSUME WholeInv, [TailNext]_tailVars
    PROVE  WholeInv'
<1>1. OrderInv'
  BY OrderStep DEF WholeInv
<1>2. CASE UNCHANGED tailVars
  BY <1>1, <1>2 DEF tailVars, tailLog, tailMonitor, WholeInv, AllPaired, AtStart, AllWhole
<1>3. CASE TailNext
  BY <1>1, <1>2, <1>3, LogWhole, ScanWhole, MoveWhole
     DEF WholeInv, TailNext, TailLoop, TailEnded
<1> QED
  BY <1>2, <1>3

LEMMA WholeInit == ASSUME TailInit PROVE WholeInv
<1>1. OrderInv
  BY OrderInit
<1>2. /\ tlFiles = << <<>> >> /\ tlFile = 1 /\ tlOff = 0 /\ tlOut = <<>>
  BY DEF TailInit
<1>3. <<>> \in Seq(Piece) /\ DOMAIN <<>> = {}
  OBVIOUS
<1>4. DOMAIN tlFiles = {1} /\ tlFiles[1] = <<>>
  BY <1>2
<1>5. Pairs(<<>>, tlSplit)
  BY <1>3 DEF Pairs
<1>6. Aligned(<<>>, 0, tlSplit)
  BY <1>3, <1>5, AlignedAtStart
<1> QED
  BY <1>1, <1>2, <1>3, <1>4, <1>5, <1>6 DEF WholeInv, AllPaired, AtStart, AllWhole

\* As long as the log is not truncated under the offset, a line the daemon wrote
\* at once is parsed whole, though the scanner gives the end of the file as a
\* text and a rotation may come at any time: the two pieces are neighbours in one
\* file, and the offset never stops between them (auth_linux.go:103-116).
THEOREM TailParsesWhole == TailSpec => []TailWhole
<1>1. TailInit => WholeInv
  BY WholeInit
<1>2. WholeInv /\ [TailNext]_tailVars => WholeInv'
  BY WholeStep
<1>3. WholeInv => TailWhole
  BY DEF WholeInv, AllWhole, Whole, TailWhole
<1> QED
  BY <1>1, <1>2, <1>3, PTL DEF TailSpec

-----------------------------------------------------------------------------
(* WinEvt: the records in the batch, in the documents and handed on *)

\* The records handed on, or about to be.
Handed == weOut \o weDocs

\* The last record that is no longer in the batch.
Passed == wePulled - Len(weBatch)

WinTypeInv ==
    /\ weWritten \in Nat /\ wePulled \in Nat /\ wePulled <= weWritten
    /\ weBatch \in Seq(Nat) /\ weDocs \in Seq(Nat) /\ weOut \in Seq(Nat)
    /\ weBatch # <<>> => wePc = "render"

\* The batch is what was pulled last, less what was rendered of it.
BatchInv ==
    /\ Len(weBatch) <= wePulled
    /\ \A i \in 1..Len(weBatch) : weBatch[i] = Passed + i

Rising(s) == \A j, k \in DOMAIN s : j < k => s[j] < s[k]

UpTo(s, n) == \A j \in DOMAIN s : s[j] <= n

\* A record that was pulled is in the batch, or handed on, or not renderable.
WinAccounted ==
    wePc # "ended" =>
        \A n \in 1..Passed : n \in weBad \/ \E j \in DOMAIN Handed : Handed[j] = n

WinInv ==
    WinTypeInv /\ BatchInv /\ Rising(Handed) /\ UpTo(Handed, Passed) /\ WinAccounted

-----------------------------------------------------------------------------
(* Sequences of records. *)

\* Moving the first document from one end to the other changes nothing.
LEMMA Moved ==
  ASSUME NEW o \in Seq(Nat), NEW d \in Seq(Nat), d # <<>>
  PROVE  /\ Append(o, Head(d)) \in Seq(Nat) /\ Tail(d) \in Seq(Nat)
         /\ Append(o, Head(d)) \o Tail(d) = o \o d
<1>1. Head(d) \in Nat /\ Tail(d) \in Seq(Nat) /\ <<Head(d)>> \in Seq(Nat)
  BY HeadTailProperties
<1>2. Append(o, Head(d)) \in Seq(Nat) /\ Append(o, Head(d)) = o \o <<Head(d)>>
  BY <1>1, AppendIsConcat
<1>3. <<Head(d)>> \o Tail(d) = d
  BY <1>1
<1>4. (o \o <<Head(d)>>) \o Tail(d) = o \o (<<Head(d)>> \o Tail(d))
  BY <1>1, ConcatAssociative
<1> QED
  BY <1>1, <1>2, <1>3, <1>4

\* A document more at the end.
LEMMA Added ==
  ASSUME NEW o \in Seq(Nat), NEW d \in Seq(Nat), NEW x \in Nat
  PROVE  /\ o \o d \in Seq(Nat) /\ o \o Append(d, x) \in Seq(Nat)
         /\ Len(o \o Append(d, x)) = Len(o \o d) + 1
         /\ (o \o Append(d, x))[Len(o \o d) + 1] = x
         /\ \A i \in 1..Len(o \o d) : (o \o Append(d, x))[i] = (o \o d)[i]
<1> DEFINE a == Append(d, x)
<1>1. /\ a \in Seq(Nat) /\ Len(a) = Len(d) + 1 /\ a[Len(d) + 1] = x
      /\ \A i \in 1..Len(d) : a[i] = d[i]
  OBVIOUS
<1> HIDE DEF a
<1>2. /\ o \o d \in Seq(Nat) /\ Len(o \o d) = Len(o) + Len(d)
      /\ \A i \in 1..(Len(o) + Len(d)) :
             (o \o d)[i] = IF i <= Len(o) THEN o[i] ELSE d[i - Len(o)]
  BY ConcatProperties
<1>3. /\ o \o a \in Seq(Nat) /\ Len(o \o a) = Len(o) + Len(a)
      /\ \A i \in 1..(Len(o) + Len(a)) :
             (o \o a)[i] = IF i <= Len(o) THEN o[i] ELSE a[i - Len(o)]
  BY <1>1, ConcatProperties
<1>4. Len(o) \in Nat /\ Len(d) \in Nat
  BY LenProperties
<1>5. (o \o a)[Len(o) + Len(d) + 1] = x
  BY <1>1, <1>3, <1>4
<1>6. ASSUME NEW i \in 1..(Len(o) + Len(d)) PROVE (o \o a)[i] = (o \o d)[i]
  <2>1. i \in 1..(Len(o) + Len(a))
    BY <1>1, <1>4
  <2>2. CASE i <= Len(o)
    BY <1>2, <1>3, <2>1, <2>2
  <2>3. CASE ~(i <= Len(o))
    <3>1. i - Len(o) \in 1..Len(d)
      BY <1>4, <2>3
    <3> QED
      BY <1>1, <1>2, <1>3, <2>1, <2>3, <3>1
  <2> QED
    BY <2>2, <2>3
<1> QED
  BY <1>1, <1>2, <1>3, <1>4, <1>5, <1>6 DEF a

\* What a drain that failed leaves.
LEMMA Dropped ==
  ASSUME NEW o \in Seq(Nat), NEW d \in Seq(Nat)
  PROVE  /\ o \o <<>> \in Seq(Nat) /\ o \o d \in Seq(Nat)
         /\ Len(o \o <<>>) <= Len(o \o d)
         /\ \A i \in 1..Len(o \o <<>>) : (o \o <<>>)[i] = (o \o d)[i]
  BY ConcatProperties, ConcatEmptySeq, LenProperties

-----------------------------------------------------------------------------
(* The invariant. *)

LEMMA WinInitInv == WinInit => WinInv
<1> SUFFICES ASSUME WinInit PROVE WinInv
  OBVIOUS
<1>1. WinTypeInv /\ BatchInv /\ Passed = 0
  <2>1. <<>> \in Seq(Nat) /\ Len(<<>>) = 0
    BY EmptySeq
  <2>2. Passed = 0
    <3>1. wePulled = 0 /\ weBatch = <<>>
      BY DEF WinInit
    <3>2. Len(weBatch) = 0
      BY <2>1, <3>1
    <3> DEFINE l == Len(weBatch)
    <3>3. Passed = wePulled - l /\ l = 0
      BY <3>2 DEF Passed
    <3> HIDE DEF l
    <3> QED
      BY <3>1, <3>3
  <2>3. WinTypeInv /\ BatchInv
    <3>1. /\ weWritten = 0 /\ wePulled = 0 /\ weBatch = <<>>
          /\ weDocs = <<>> /\ weOut = <<>>
      BY DEF WinInit
    <3>2. WinTypeInv
      BY <2>1, <3>1 DEF WinTypeInv
    <3>3. 1..Len(weBatch) = {}
      BY <2>1, <3>1
    <3>4. BatchInv
      BY <2>1, <3>1, <3>3 DEF BatchInv
    <3> QED
      BY <3>2, <3>4
  <2> QED
    BY <2>2, <2>3
<1>2. Handed = <<>>
  BY DEF WinInit, Handed
<1>3. Rising(Handed) /\ UpTo(Handed, Passed)
  BY <1>2 DEF Rising, UpTo
<1>4. WinAccounted
  BY <1>1 DEF WinAccounted
<1> QED
  BY <1>1, <1>3, <1>4 DEF WinInv

\* A step that leaves the records where they are.
LEMMA StillInv ==
  ASSUME WinInv, UNCHANGED <<wePulled, weBatch, Handed, weBad>>, WinTypeInv',
         wePc = "ended" => wePc' = "ended"
  PROVE  WinInv'
<1>1. Passed' = Passed
  BY DEF Passed
<1>2. BatchInv'
  BY <1>1 DEF WinInv, BatchInv
<1>3. Rising(Handed)' /\ UpTo(Handed, Passed)'
  BY <1>1 DEF WinInv, Rising, UpTo
<1>4. WinAccounted'
  BY <1>1 DEF WinInv, WinAccounted
<1> QED
  BY <1>2, <1>3, <1>4 DEF WinInv

LEMMA EvtPullInv == ASSUME WinInv, EvtPull PROVE WinInv'
<1>1. /\ wePulled \in Nat /\ weWritten \in Nat /\ wePulled <= weWritten
      /\ wePc = "pull" /\ weBatch = <<>>
  BY DEF WinInv, WinTypeInv, EvtPull
<1>2. Handed' = Handed
  BY DEF EvtPull, Handed
<1>3. CASE wePulled = weWritten
  <2>1. UNCHANGED <<wePulled, weBatch, weBad>> /\ wePc' = "reset" /\ WinTypeInv'
    BY <1>1, <1>3 DEF EvtPull, WinInv, WinTypeInv
  <2> QED
    BY <1>1, <1>2, <2>1, StillInv
<1>4. CASE wePulled # weWritten
  <2> DEFINE last == IF wePulled + EvtBatch < weWritten THEN wePulled + EvtBatch ELSE weWritten
  <2>1. last \in Nat /\ wePulled < last /\ last <= weWritten
    BY <1>1, <1>4, WinAssumption
  <2>2. /\ wePc' = "render" /\ wePulled' = last
        /\ weBatch' = [n \in 1..(last - wePulled) |-> wePulled + n]
        /\ UNCHANGED <<weWritten, weDocs, weOut, weBad>>
    BY <1>4 DEF EvtPull
  <2> HIDE DEF last
  <2>3. last - wePulled \in Nat
    BY <1>1, <2>1
  <2>4. weBatch' \in Seq(Nat) /\ Len(weBatch') = last - wePulled
    BY <1>1, <2>2, <2>3
  <2>5. WinTypeInv'
    BY <2>1, <2>2, <2>4 DEF WinInv, WinTypeInv
  <2>6. Passed' = wePulled /\ Passed = wePulled
    BY <1>1, <2>1, <2>2, <2>4 DEF Passed
  <2>7. BatchInv'
    BY <1>1, <2>1, <2>2, <2>3, <2>4, <2>6 DEF BatchInv
  <2>8. Rising(Handed)' /\ UpTo(Handed, Passed)'
    BY <1>2, <2>6 DEF WinInv, Rising, UpTo
  <2>9. WinAccounted'
    BY <1>1, <1>2, <2>2, <2>6 DEF WinInv, WinAccounted
  <2> QED
    BY <2>5, <2>7, <2>8, <2>9 DEF WinInv
<1> QED
  BY <1>3, <1>4

\* The batch without its first record, which is the next one.
LEMMA BatchTail ==
  ASSUME WinInv, weBatch # <<>>, weBatch' = Tail(weBatch), UNCHANGED wePulled
  PROVE  /\ Head(weBatch) = Passed + 1 /\ Passed' = Passed + 1
         /\ Passed \in Nat /\ weBatch' \in Seq(Nat) /\ BatchInv'
<1>1. /\ weBatch \in Seq(Nat) /\ wePulled \in Nat /\ Len(weBatch) <= wePulled
      /\ \A i \in 1..Len(weBatch) : weBatch[i] = Passed + i
  BY DEF WinInv, WinTypeInv, BatchInv
<1>2. /\ Len(weBatch) \in Nat \ {0} /\ Head(weBatch) = weBatch[1]
      /\ weBatch' \in Seq(Nat) /\ Len(weBatch') = Len(weBatch) - 1
      /\ \A i \in 1..(Len(weBatch) - 1) : weBatch'[i] = weBatch[i + 1]
  BY <1>1
<1>3. Passed \in Nat /\ Passed' = Passed + 1
  BY <1>1, <1>2 DEF Passed
<1>4. Head(weBatch) = Passed + 1
  BY <1>1, <1>2
<1>5. \A i \in 1..Len(weBatch') : weBatch'[i] = Passed' + i
  <2>1. ASSUME NEW i \in 1..(Len(weBatch) - 1) PROVE weBatch'[i] = Passed' + i
    <3>1. i + 1 \in 1..Len(weBatch) /\ weBatch'[i] = weBatch[i + 1]
      BY <1>2
    <3>2. weBatch[i + 1] = Passed + (i + 1)
      BY <1>1, <3>1
    <3> QED
      BY <1>3, <3>1, <3>2
  <2> QED
    BY <1>2, <2>1
<1>6. BatchInv'
  BY <1>1, <1>2, <1>5 DEF BatchInv
<1> QED
  BY <1>2, <1>3, <1>4, <1>6

LEMMA EvtRenderInv == ASSUME WinInv, EvtRender PROVE WinInv'
<1>1. /\ wePc = "render" /\ weBatch # <<>> /\ weBatch' = Tail(weBatch)
      /\ UNCHANGED <<weWritten, wePulled, wePc, weOut>>
  BY DEF EvtRender
<1>2. /\ Head(weBatch) = Passed + 1 /\ Passed' = Passed + 1
      /\ Passed \in Nat /\ weBatch' \in Seq(Nat) /\ BatchInv'
  BY <1>1, BatchTail
<1> DEFINE x == Head(weBatch)
<1>3. CASE weDocs' = Append(weDocs, x) /\ UNCHANGED weBad
  <2>1. x \in Nat /\ weDocs \in Seq(Nat) /\ weOut \in Seq(Nat)
    BY <1>2 DEF WinInv, WinTypeInv
  <2> HIDE DEF x
  <2>2. WinTypeInv'
    BY <1>1, <1>2, <1>3, <2>1 DEF WinInv, WinTypeInv
  <2>3. Handed' = weOut \o Append(weDocs, x)
    BY <1>1, <1>3 DEF Handed
  <2>4. /\ Handed \in Seq(Nat) /\ Handed' \in Seq(Nat) /\ Len(Handed') = Len(Handed) + 1
        /\ Handed'[Len(Handed) + 1] = x
        /\ \A i \in 1..Len(Handed) : Handed'[i] = Handed[i]
    BY <2>1, <2>3, Added DEF Handed
  <2>5. DOMAIN Handed = 1..Len(Handed) /\ DOMAIN Handed' = 1..(Len(Handed) + 1)
    BY <2>4
  <2>6. x = Passed + 1
    BY <1>2 DEF x
  <2>7. \A j \in 1..Len(Handed) : Handed[j] \in Nat /\ Handed[j] <= Passed
    BY <2>4, <2>5 DEF WinInv, UpTo
  <2>8. UpTo(Handed, Passed)'
    BY <1>2, <2>4, <2>5, <2>6, <2>7 DEF UpTo
  <2>9. Rising(Handed)'
    <3>1. ASSUME NEW j \in 1..(Len(Handed) + 1), NEW k \in 1..(Len(Handed) + 1), j < k
          PROVE  Handed'[j] < Handed'[k]
      <4>1. j \in 1..Len(Handed) /\ Handed'[j] = Handed[j]
        BY <2>4, <3>1
      <4>2. CASE k = Len(Handed) + 1
        BY <1>2, <2>4, <2>6, <2>7, <4>1, <4>2
      <4>3. CASE k # Len(Handed) + 1
        <5>1. k \in 1..Len(Handed) /\ Handed'[k] = Handed[k]
          BY <2>4, <4>3
        <5> QED
          BY <2>5, <3>1, <4>1, <5>1 DEF WinInv, Rising
      <4> QED
        BY <4>2, <4>3
    <3> QED
      BY <2>5, <3>1 DEF Rising
  <2>10. WinAccounted'
    <3>1. ASSUME wePc' # "ended", NEW n \in 1..(Passed + 1), n \notin weBad
          PROVE  \E j \in DOMAIN Handed' : Handed'[j] = n
      <4>1. CASE n = Passed + 1
        BY <2>4, <2>5, <2>6, <4>1
      <4>2. CASE n # Passed + 1
        <5>1. n \in 1..Passed /\ wePc # "ended"
          BY <1>1, <1>2, <4>2
        <5>2. PICK j \in DOMAIN Handed : Handed[j] = n
          BY <3>1, <5>1 DEF WinInv, WinAccounted
        <5>3. j \in DOMAIN Handed' /\ Handed'[j] = n
          BY <2>4, <2>5, <5>2
        <5> QED
          BY <5>3
      <4> QED
        BY <4>1, <4>2
    <3> QED
      BY <1>2, <1>3, <3>1 DEF WinAccounted
  <2> QED
    BY <1>2, <2>2, <2>8, <2>9, <2>10 DEF WinInv
<1>4. CASE weBad' = weBad \cup {x} /\ UNCHANGED weDocs
  <2>1. WinTypeInv'
    BY <1>1, <1>2, <1>4 DEF WinInv, WinTypeInv
  <2>2. Handed' = Handed
    BY <1>1, <1>4 DEF Handed
  <2>3. Handed \in Seq(Nat)
    BY DEF Handed, WinInv, WinTypeInv
  <2>4. Rising(Handed)'
    BY <2>2 DEF WinInv, Rising
  <2>5. UpTo(Handed, Passed)'
    BY <1>2, <2>2, <2>3 DEF WinInv, UpTo
  <2>6. WinAccounted'
    <3>1. ASSUME wePc' # "ended", NEW n \in 1..(Passed + 1), n \notin weBad'
          PROVE  \E j \in DOMAIN Handed : Handed[j] = n
      <4>1. n \in 1..Passed /\ n \notin weBad /\ wePc # "ended"
        BY <1>1, <1>2, <1>4, <3>1
      <4> QED
        BY <4>1 DEF WinInv, WinAccounted
    <3> QED
      BY <1>2, <2>2, <3>1 DEF WinAccounted
  <2> QED
    BY <1>2, <2>1, <2>4, <2>5, <2>6 DEF WinInv
<1> QED
  BY <1>3, <1>4 DEF EvtRender

LEMMA EvtGiveInv == ASSUME WinInv, EvtGive PROVE WinInv'
<1>1. /\ UNCHANGED <<wePulled, weBatch, weBad, weWritten>> /\ wePc = "docs"
  BY DEF EvtGive
<1>2. CASE weDocs = <<>>
  <2>1. UNCHANGED <<weDocs, weOut>> /\ weBatch = <<>>
    BY <1>1, <1>2 DEF EvtGive, WinInv, WinTypeInv
  <2>2. WinTypeInv' /\ Handed' = Handed
    BY <1>1, <2>1 DEF WinInv, WinTypeInv, Handed
  <2> QED
    BY <1>1, <2>2, StillInv
<1>3. CASE weDocs # <<>>
  <2>1. weOut' = Append(weOut, Head(weDocs)) /\ weDocs' = Tail(weDocs) /\ UNCHANGED wePc
    BY <1>3 DEF EvtGive
  <2>2. weOut \in Seq(Nat) /\ weDocs \in Seq(Nat)
    BY DEF WinInv, WinTypeInv
  <2>3. weOut' \in Seq(Nat) /\ weDocs' \in Seq(Nat) /\ weOut' \o weDocs' = weOut \o weDocs
    BY <1>3, <2>1, <2>2, Moved
  <2>4. WinTypeInv' /\ Handed' = Handed
    BY <1>1, <2>1, <2>3 DEF WinInv, WinTypeInv, Handed
  <2> QED
    BY <1>1, <2>4, StillInv
<1> QED
  BY <1>2, <1>3

LEMMA EvtPullErrorInv == ASSUME WinInv, EvtPullError PROVE WinInv'
<1>1. /\ UNCHANGED <<weWritten, wePulled, weBatch, weOut>>
      /\ wePc = "pull" /\ wePc' = "ended" /\ weDocs' = <<>>
  BY DEF EvtPullError
<1>2. weOut \in Seq(Nat) /\ weDocs \in Seq(Nat) /\ weBatch = <<>>
  BY <1>1 DEF WinInv, WinTypeInv
<1>3. WinTypeInv' /\ BatchInv' /\ Passed' = Passed
  BY <1>1, <1>2 DEF WinInv, WinTypeInv, BatchInv, Passed
<1>4. Handed' = weOut \o <<>>
  BY <1>1 DEF Handed
<1>5. /\ Handed \in Seq(Nat) /\ Handed' \in Seq(Nat) /\ Len(Handed') <= Len(Handed)
      /\ \A i \in 1..Len(Handed') : Handed'[i] = Handed[i]
  BY <1>2, <1>4, Dropped DEF Handed
<1>6. DOMAIN Handed' = 1..Len(Handed') /\ DOMAIN Handed' \subseteq DOMAIN Handed
  BY <1>5
<1>7. Rising(Handed)'
  BY <1>5, <1>6 DEF WinInv, Rising
<1>8. UpTo(Handed, Passed)'
  BY <1>3, <1>5, <1>6 DEF WinInv, UpTo
<1>9. WinAccounted'
  BY <1>1 DEF WinAccounted
<1> QED
  BY <1>3, <1>7, <1>8, <1>9 DEF WinInv

\* Every step keeps the invariant.
LEMMA WinStepInv == WinInv /\ [WinNext]_winVars => WinInv'
<1> SUFFICES ASSUME WinInv, [WinNext]_winVars PROVE WinInv'
  OBVIOUS
<1>1. CASE EvtWrite \/ EvtWait \/ EvtRendered \/ EvtReset \/ EvtStop \/ UNCHANGED winVars
  <2>1. UNCHANGED <<wePulled, weBatch, weDocs, weOut, weBad>>
    BY <1>1 DEF EvtWrite, EvtWait, EvtRendered, EvtReset, EvtStop, winVars
  <2>2. UNCHANGED Handed
    BY <2>1 DEF Handed
  <2>3. WinTypeInv'
    BY <1>1 DEF EvtWrite, EvtWait, EvtRendered, EvtReset, EvtStop, winVars, WinInv, WinTypeInv
  <2>4. wePc = "ended" => wePc' = "ended"
    BY <1>1 DEF EvtWrite, EvtWait, EvtRendered, EvtReset, EvtStop, winVars
  <2> QED
    BY <2>1, <2>2, <2>3, <2>4, StillInv
<1> QED
  BY <1>1, EvtPullInv, EvtRenderInv, EvtGiveInv, EvtPullErrorInv
     DEF WinNext, WinLoop, EvtEnded

LEMMA WinAlwaysInv == WinSpec => []WinInv
  BY WinInitInv, WinStepInv, PTL DEF WinSpec

-----------------------------------------------------------------------------

\* fn is called with records in the order they were written, none twice
\* (winevt_windows.go:96-114, :229-246), whatever the batches.
THEOREM WinOrdered == WinSpec => []WinOnceInOrder
<1>1. WinInv => WinOnceInOrder
  BY DEF WinInv, Rising, Handed, WinOnceInOrder
<1> QED
  BY <1>1, WinAlwaysInv, PTL

\* As long as the loop runs, a record EvtNext returned is in the batch, among
\* the documents or with fn, or EvtRender failed on it: next and pull
\* (winevt_windows.go:96-147) mislay none.
THEOREM WinMislaysNone == WinSpec => []WinAccounted
<1>1. WinInv => WinAccounted
  BY DEF WinInv
<1> QED
  BY <1>1, WinAlwaysInv, PTL
-----------------------------------------------------------------------------
(* FileWatch: paths and the directories on the way *)

AnyPath == Seq(Names \cup {"none"})

Ways(path) == [0..Len(path) -> Dirs \cup {Top}]

FileTypes ==
    /\ fwAt \in [Dirs -> (Dirs \cup {Top, Outside}) \X Names]
    /\ fwConf.top => Top \in fwWatched /\ fwPath[Top] = <<>>
    /\ fwQueue \in Seq((Dirs \cup {Top}) \X Names)
    /\ fwOver \in BOOLEAN
    /\ fwPath \in [Dirs \cup {Top} -> AnyPath]
    /\ fwWalk \in Seq({"watch", "list"} \X AnyPath)

Within(x, s) == \E i \in 1..Len(s) : s[i] = x

\* watchTree will come by the last directory on the way, or by one above it.
WalkDue(walk, queue, way, path) ==
    \E j \in 1..Len(path) :
        \/ Within(<<"watch", SubSeq(path, 1, j)>>, walk)
        \/ j < Len(path) /\ Within(<<"list", SubSeq(path, 1, j)>>, walk)
        \/ Within(<<way[j - 1], path[j]>>, queue)

KnownAs(d, path) == d \in fwWatched /\ fwPath[d] = path

\* As long as the directory found at the start was not moved, it is at the path,
\* and nobody was told of another there.
KeptInv ==
    fwKept => /\ RootAtStart \in Dirs /\ fwAt[RootAtStart] = <<Top, RootName>>
              /\ ~Within(<<Top, RootName>>, fwQueue)

\* Each directory of the tree is watched under its path, or due to be.
Covered ==
    ~fwOver => \A path \in AnyPath : path # <<>> /\ path[1] = RootName /\ Followed(path) =>
                  \A way \in Ways(path) : Leads(way, path) =>
                      KnownAs(way[Len(path)], path) \/ WalkDue(fwWalk, fwQueue, way, path)

TreeInv == KeptInv /\ Covered

\* The beginning of a path, and of the way along it.
LEMMA Beginning ==
    ASSUME NEW path \in AnyPath, NEW k \in 0..Len(path)
    PROVE  /\ SubSeq(path, 1, k) \in AnyPath /\ Len(SubSeq(path, 1, k)) = k
           /\ \A i \in 1..k : SubSeq(path, 1, k)[i] = path[i]
           /\ k # 0 => SubSeq(path, 1, k) # <<>>
           /\ \A j \in 1..k : SubSeq(SubSeq(path, 1, k), 1, j) = SubSeq(path, 1, j)
<1> DEFINE C == Names \cup {"none"}
           pre == SubSeq(path, 1, k)
<1>1. path \in Seq(C) /\ Len(path) \in Nat
  BY DEF AnyPath
<1> HIDE DEF C
<1>2. pre \in Seq(C) /\ Len(pre) = k /\ \A i \in 1..k : pre[i] = path[i]
  BY <1>1
<1> HIDE DEF pre
<1>3. ASSUME NEW j \in 1..k
      PROVE  SubSeq(pre, 1, j) = SubSeq(path, 1, j)
  <2>1. /\ SubSeq(pre, 1, j) = [i \in 1..j |-> pre[i]]
        /\ SubSeq(path, 1, j) = [i \in 1..j |-> path[i]]
    BY <1>1, <1>2
  <2>2. \A i \in 1..j : pre[i] = path[i]
    BY <1>2
  <2> QED
    BY <2>1, <2>2
<1>4. k # 0 => pre # <<>>
  BY <1>2
<1> QED
  BY <1>2, <1>3, <1>4 DEF pre, C, AnyPath

\* The beginning of a path that is followed is followed.
LEMMA FollowedBegins ==
    ASSUME NEW path \in AnyPath, NEW k \in 1..Len(path), Followed(path)
    PROVE  Followed(SubSeq(path, 1, k))
<1> DEFINE pre == SubSeq(path, 1, k)
<1>1. Len(path) \in Nat /\ k \in 0..Len(path)
  BY DEF AnyPath
<1>2. /\ Len(pre) = k /\ \A i \in 1..k : pre[i] = path[i]
      /\ \A j \in 1..k : SubSeq(pre, 1, j) = SubSeq(path, 1, j)
  BY <1>1, Beginning
<1> HIDE DEF pre
<1>3. pre[1] = path[1]
  BY <1>1, <1>2
<1>4. ASSUME NEW n \in 2..k
      PROVE  Heeded(SubSeq(pre, 1, n - 1), pre[n])
  <2>1. n \in 2..Len(path) /\ n \in 1..k /\ n - 1 \in 1..k
    BY <1>1
  <2>2. SubSeq(pre, 1, n - 1) = SubSeq(path, 1, n - 1) /\ pre[n] = path[n]
    BY <1>2, <2>1
  <2> QED
    BY <2>1, <2>2 DEF Followed
<1> QED
  BY <1>2, <1>3, <1>4 DEF Followed, pre

\* A path and one more name.
LEMMA PathAppended ==
    ASSUME NEW pre \in AnyPath, NEW long \in AnyPath, NEW k \in Nat \ {0}, Len(pre) = k - 1,
           Len(long) = k, NEW name \in Names \cup {"none"}, long[k] = name,
           \A i \in 1..(k - 1) : long[i] = pre[i]
    PROVE  Append(pre, name) = long
<1> DEFINE C == Names \cup {"none"}
           more == Append(pre, name)
<1>1. pre \in Seq(C) /\ long \in Seq(C) /\ name \in C
  BY DEF AnyPath
<1> HIDE DEF C
<1>2. /\ more \in Seq(C) /\ Len(more) = k /\ more[k] = name
      /\ \A i \in 1..(k - 1) : more[i] = pre[i]
  BY <1>1
<1> HIDE DEF more
<1>3. \A i \in 1..k : more[i] = long[i]
  BY <1>2
<1>4. more = [i \in 1..k |-> more[i]] /\ long = [i \in 1..k |-> long[i]]
  BY <1>1, <1>2
<1>5. more = long
  BY <1>3, <1>4
<1> QED
  BY <1>5 DEF more

LEMMA WayBegins ==
    ASSUME FileTypes, NEW path \in AnyPath, NEW way \in Ways(path), Leads(way, path),
           NEW k \in 0..Len(path)
    PROVE  /\ [i \in 0..k |-> way[i]] \in Ways(SubSeq(path, 1, k))
           /\ Leads([i \in 0..k |-> way[i]], SubSeq(path, 1, k))
           /\ way[k] \in AtPath(SubSeq(path, 1, k))
<1> DEFINE pre == SubSeq(path, 1, k)
           w == [i \in 0..k |-> way[i]]
<1>1. Len(path) \in Nat
  BY DEF AnyPath
<1>2. Len(pre) = k /\ \A i \in 1..k : pre[i] = path[i]
  BY Beginning
<1> HIDE DEF pre
<1>3. w \in Ways(pre)
  BY <1>1, <1>2 DEF Ways
<1>4. Leads(w, pre)
  <2>1. w[0] = Top
    BY <1>1 DEF Leads
  <2>2. ASSUME NEW i \in 1..k
        PROVE  w[i] \in Dirs /\ fwAt[w[i]] = <<w[i - 1], pre[i]>>
    <3>1. i \in 1..Len(path) /\ i \in 0..k /\ i - 1 \in 0..k
      BY <1>1, <2>2
    <3>2. w[i] = way[i] /\ w[i - 1] = way[i - 1] /\ pre[i] = path[i]
      BY <1>2, <3>1
    <3> HIDE DEF w
    <3> QED
      BY <3>1, <3>2 DEF Leads
  <2> HIDE DEF w
  <2> QED
    BY <1>2, <2>1, <2>2 DEF Leads
<1>5. way[k] = w[Len(pre)]
  BY <1>1, <1>2
<1> HIDE DEF w
<1>6. way[k] \in AtPath(pre)
  BY <1>3, <1>4, <1>5 DEF AtPath, Ways
<1> QED
  BY <1>3, <1>4, <1>6 DEF pre, w

\* What is due below a directory is due for all that is further below.
LEMMA WalkDueFurther ==
    ASSUME NEW walk, NEW queue, NEW path \in AnyPath, NEW k \in 0..Len(path), NEW way,
           WalkDue(walk, queue, [i \in 0..k |-> way[i]], SubSeq(path, 1, k))
    PROVE  WalkDue(walk, queue, way, path)
<1> DEFINE pre == SubSeq(path, 1, k)
           w == [i \in 0..k |-> way[i]]
<1>1. Len(path) \in Nat
  BY DEF AnyPath
<1>2. Len(pre) = k /\ \A i \in 1..k : pre[i] = path[i]
  BY Beginning
<1>3. \A j \in 1..k : SubSeq(pre, 1, j) = SubSeq(path, 1, j)
  BY Beginning
<1> HIDE DEF pre
<1>4. \A j \in 1..k : w[j - 1] = way[j - 1]
  BY <1>1
<1> HIDE DEF w
<1>5. WalkDue(walk, queue, w, pre)
  BY DEF w, pre
<1>6. PICK j \in 1..k : \/ Within(<<"watch", SubSeq(pre, 1, j)>>, walk)
                        \/ j < k /\ Within(<<"list", SubSeq(pre, 1, j)>>, walk)
                        \/ Within(<<w[j - 1], pre[j]>>, queue)
  BY <1>2, <1>5 DEF WalkDue
<1>7. j \in 1..Len(path) /\ (j < k => j < Len(path))
  BY <1>1
<1>8. \/ Within(<<"watch", SubSeq(path, 1, j)>>, walk)
      \/ j < Len(path) /\ Within(<<"list", SubSeq(path, 1, j)>>, walk)
      \/ Within(<<way[j - 1], path[j]>>, queue)
  BY <1>2, <1>3, <1>4, <1>6, <1>7
<1> QED
  BY <1>7, <1>8 DEF WalkDue

\* A directory is at one path only.
LEMMA OnePath ==
    ASSUME FileTypes,
           NEW path \in AnyPath, NEW way \in Ways(path), Leads(way, path),
           NEW p \in AnyPath, NEW w \in Ways(p), Leads(w, p),
           way[Len(path)] = w[Len(p)]
    PROVE  path = p
<1> DEFINE Two(n) ==
               \E a, b \in AnyPath : \E u \in Ways(a), v \in Ways(b) :
                   Len(a) = n /\ Leads(u, a) /\ Leads(v, b) /\ u[Len(a)] = v[Len(b)] /\ a # b
           S == {n \in Nat : Two(n)}
<1>1. SUFFICES ASSUME path # p PROVE FALSE
  OBVIOUS
<1>2. Len(path) \in S
  <2>1. Len(path) \in Nat
    BY DEF AnyPath
  <2>2. Two(Len(path))
    BY <1>1
  <2> QED
    BY <2>1, <2>2
<1>3. S \subseteq Nat /\ S # {}
  BY <1>2
<1>4. PICK n \in S : \A m \in S : n <= m
  <2> HIDE DEF S
  <2> QED
    BY <1>3, Least
<1>5. PICK a \in AnyPath, b \in AnyPath :
          \E u \in Ways(a), v \in Ways(b) :
              Len(a) = n /\ Leads(u, a) /\ Leads(v, b) /\ u[Len(a)] = v[Len(b)] /\ a # b
  BY <1>4
<1>6. PICK u \in Ways(a), v \in Ways(b) :
          Len(a) = n /\ Leads(u, a) /\ Leads(v, b) /\ u[Len(a)] = v[Len(b)] /\ a # b
  BY <1>5
<1>7. n \in Nat /\ Len(b) \in Nat
  BY <1>4 DEF AnyPath
<1> DEFINE m == Len(b)
<1>8. a = [i \in 1..n |-> a[i]] /\ b = [i \in 1..m |-> b[i]]
  BY <1>6, <1>7 DEF AnyPath
<1>9. n # 0 <=> m # 0
  BY <1>6, <1>7, FileAssumption DEF Leads
<1>10. n # 0
  <2> SUFFICES ASSUME n = 0 PROVE FALSE
    OBVIOUS
  <2>1. m = 0
    BY <1>9
  <2> QED
    BY <1>6, <1>8, <2>1
<1>11. u[n - 1] = v[m - 1] /\ a[n] = b[m]
  <2>1. n \in 1..Len(a) /\ m \in 1..Len(b)
    BY <1>6, <1>7, <1>9, <1>10
  <2>2. fwAt[u[n]] = <<u[n - 1], a[n]>> /\ fwAt[v[m]] = <<v[m - 1], b[m]>>
    BY <1>6, <2>1 DEF Leads
  <2> QED
    BY <1>6, <2>2
<1>12. n - 1 \in 0..Len(a) /\ m - 1 \in 0..Len(b)
  BY <1>6, <1>7, <1>9, <1>10
<1> DEFINE c == SubSeq(a, 1, n - 1)
           d == SubSeq(b, 1, m - 1)
           s == [i \in 0..(n - 1) |-> u[i]]
           t == [i \in 0..(m - 1) |-> v[i]]
<1>13. /\ c \in AnyPath /\ Len(c) = n - 1 /\ \A i \in 1..(n - 1) : c[i] = a[i]
       /\ d \in AnyPath /\ Len(d) = m - 1 /\ \A i \in 1..(m - 1) : d[i] = b[i]
  <2>1. c \in AnyPath /\ Len(c) = n - 1 /\ \A i \in 1..(n - 1) : c[i] = a[i]
    BY <1>12, Beginning
  <2>2. d \in AnyPath /\ Len(d) = m - 1 /\ \A i \in 1..(m - 1) : d[i] = b[i]
    BY <1>12, Beginning
  <2> QED
    BY <2>1, <2>2
<1>14. s \in Ways(c) /\ Leads(s, c)
  BY <1>6, <1>12, WayBegins
<1>15. t \in Ways(d) /\ Leads(t, d)
  BY <1>6, <1>12, WayBegins
<1>16. s[Len(c)] = t[Len(d)]
  BY <1>7, <1>9, <1>10, <1>11, <1>13
<1> HIDE DEF c, d, s, t
<1>17. c # d
  <2> SUFFICES ASSUME c = d PROVE a = b
    BY <1>6
  <2>1. n = m
    BY <1>7, <1>9, <1>10, <1>13
  <2>2. \A i \in 1..n : a[i] = b[i]
    <3> SUFFICES ASSUME NEW i \in 1..n PROVE a[i] = b[i]
      OBVIOUS
    <3>1. CASE i = n
      BY <1>11, <2>1, <3>1
    <3>2. CASE i # n
      <4>1. i \in 1..(n - 1) /\ i \in 1..(m - 1)
        BY <1>7, <2>1, <3>2
      <4> QED
        BY <1>13, <4>1
    <3> QED
      BY <3>1, <3>2
  <2> QED
    BY <1>8, <2>1, <2>2
<1>18. n - 1 \in Nat
  BY <1>7, <1>10
<1>19. Two(n - 1)
  BY <1>13, <1>14, <1>15, <1>16, <1>17
<1>20. n - 1 \in S
  BY <1>18, <1>19
<1>21. ~(n <= n - 1)
  BY <1>7
<1> HIDE DEF S
<1> QED
  BY <1>4, <1>20, <1>21

-----------------------------------------------------------------------------
(* FileWatch: steps *)

LEMMA WithinMore ==
    ASSUME NEW T, NEW s \in Seq(T), NEW e \in T
    PROVE  /\ Within(e, Append(s, e)) /\ \A x : Within(x, s) => Within(x, Append(s, e))
<1>1. /\ Len(s) \in Nat /\ Len(Append(s, e)) = Len(s) + 1 /\ Append(s, e)[Len(s) + 1] = e
      /\ \A i \in 1..Len(s) : Append(s, e)[i] = s[i]
  OBVIOUS
<1> QED
  BY <1>1 DEF Within

LEMMA WithinTail ==
    ASSUME NEW T, NEW s \in Seq(T), s # <<>>
    PROVE  \A x : Within(x, s) => x = Head(s) \/ Within(x, Tail(s))
<1>1. /\ Len(s) \in Nat /\ Len(Tail(s)) = Len(s) - 1 /\ Head(s) = s[1]
      /\ \A i \in 1..(Len(s) - 1) : Tail(s)[i] = s[i + 1]
  OBVIOUS
<1> SUFFICES ASSUME NEW x, Within(x, s), x # Head(s) PROVE Within(x, Tail(s))
  OBVIOUS
<1>2. PICK i \in 1..Len(s) : s[i] = x
  BY DEF Within
<1>3. i - 1 \in 1..(Len(s) - 1) /\ (i - 1) + 1 = i
  BY <1>1, <1>2
<1>4. Tail(s)[i - 1] = x /\ i - 1 \in 1..Len(Tail(s))
  BY <1>1, <1>2, <1>3
<1> QED
  BY <1>4 DEF Within

LEMMA WithinEither ==
    ASSUME NEW T, NEW s \in Seq(T), NEW t \in Seq(T)
    PROVE  \A x : Within(x, s) \/ Within(x, t) => Within(x, s \o t)
<1>1. /\ Len(s) \in Nat /\ Len(t) \in Nat /\ Len(s \o t) = Len(s) + Len(t)
      /\ \A i \in 1..Len(s) : (s \o t)[i] = s[i]
      /\ \A i \in 1..Len(t) : (s \o t)[Len(s) + i] = t[i]
  OBVIOUS
<1>2. \A i \in 1..Len(t) : Len(s) + i \in 1..Len(s \o t)
  BY <1>1
<1>3. \A i \in 1..Len(s) : i \in 1..Len(s \o t)
  BY <1>1
<1> QED
  BY <1>1, <1>2, <1>3 DEF Within

\* The walk visits every entry.
LEMMA EntriesListed ==
    ASSUME NEW E, IsFiniteSet(E)
    PROVE  /\ SetToSeq(E) \in Seq(E)
           /\ \A e \in E : \E n \in DOMAIN SetToSeq(E) : SetToSeq(E)[n] = e
<1> DEFINE N == Cardinality(E)
           f == SetToSeq(E)
<1>1. N \in Nat
  BY FS_CardinalityType
<1>2. \E g \in [1..N -> E] : IsInjective(g)
  <2>1. ExistsBijection(1..N, E)
    BY FS_CardinalityType
  <2>2. PICK g : g \in Bijection(1..N, E)
    BY <2>1 DEF ExistsBijection
  <2> QED
    BY <2>2 DEF Bijection, Injection, IsInjective
<1>3. f \in [1..N -> E] /\ IsInjective(f)
  BY <1>2 DEF SetToSeq
<1> HIDE DEF f
<1>4. f \in Injection(1..N, E)
  BY <1>3 DEF Injection, IsInjective
<1>5. Cardinality(1..N) = N
  BY <1>1, FS_Interval
<1>6. f \in Surjection(1..N, E)
  BY <1>4, <1>5, FS_Injection
<1>7. \A e \in E : \E n \in 1..N : f[n] = e
  BY <1>6 DEF Surjection
<1>8. f \in Seq(E) /\ DOMAIN f = 1..N
  BY <1>1, <1>3
<1> QED
  BY <1>7, <1>8 DEF f

\* An item for each entry of a path.
LEMMA VisitsTyped ==
    ASSUME FileTypes, NEW path \in AnyPath
    PROVE  LET E == Entries(AtPath(path))
               visits == [n \in DOMAIN SetToSeq(E) |-> <<"watch", Append(path, SetToSeq(E)[n])>>]
           IN  /\ visits \in Seq({"watch", "list"} \X AnyPath)
               /\ \A e \in E : Within(<<"watch", Append(path, e)>>, visits)
<1> DEFINE E == Entries(AtPath(path))
           q == SetToSeq(E)
           visits == [n \in DOMAIN q |-> <<"watch", Append(path, q[n])>>]
<1>1. IsFiniteSet(E) /\ E \subseteq Names
  <2> DEFINE D == {d \in Dirs : fwAt[d][1] \in AtPath(path)}
  <2>1. IsFiniteSet(D)
    BY FileAssumption, FS_Subset
  <2>2. E = {fwAt[d][2] : d \in D}
    BY DEF Entries
  <2>3. E \subseteq Names
    BY <2>2 DEF FileTypes
  <2>4. IsFiniteSet({fwAt[d][2] : d \in D})
    <3> DEFINE f == [d \in D |-> fwAt[d][2]]
    <3>1. f \in Surjection(D, E)
      BY <2>2 DEF Surjection
    <3> HIDE DEF f, D, E
    <3>2. IsFiniteSet(E)
      BY <2>1, <3>1, FS_Surjection
    <3> QED
      BY <2>2, <3>2
  <2> HIDE DEF E, D
  <2> QED
    BY <2>2, <2>3, <2>4
<1> HIDE DEF E
<1>2. q \in Seq(E) /\ \A e \in E : \E n \in DOMAIN q : q[n] = e
  BY <1>1, EntriesListed
<1> HIDE DEF q
<1>3. \A e \in E : Append(path, e) \in AnyPath
  BY <1>1 DEF AnyPath
<1>4. /\ Len(q) \in Nat /\ DOMAIN q = 1..Len(q) /\ \A n \in 1..Len(q) : q[n] \in E
  BY <1>2
<1>5. visits \in Seq({"watch", "list"} \X AnyPath) /\ Len(visits) = Len(q)
  <2>1. visits \in [1..Len(q) -> {"watch", "list"} \X AnyPath]
    BY <1>3, <1>4
  <2> HIDE DEF visits
  <2> QED
    BY <1>4, <2>1
<1>6. ASSUME NEW e \in E PROVE Within(<<"watch", Append(path, e)>>, visits)
  <2>1. PICK n \in 1..Len(q) : q[n] = e
    BY <1>2, <1>4
  <2>2. visits[n] = <<"watch", Append(path, e)>>
    BY <1>4, <2>1
  <2> HIDE DEF visits
  <2> QED
    BY <1>5, <2>2 DEF Within
<1> QED
  BY <1>5, <1>6 DEF visits, q, E

LEMMA FileTypesStep ==
    FileTypes /\ [FileNext]_fileVars => FileTypes'
<1> SUFFICES ASSUME FileTypes, [FileNext]_fileVars PROVE FileTypes'
  OBVIOUS
<1> USE DEF FileTypes
<1>1. ASSUME NEW d \in Dirs, NEW parent \in Dirs \cup {Top}, NEW name \in Names,
             FileMove(d, parent, name)
      PROVE  FileTypes'
  <2> DEFINE event == <<parent, name>>
             Events == (Dirs \cup {Top}) \X Names
  <2>1. /\ fwAt' = [fwAt EXCEPT ![d] = event] /\ UNCHANGED <<fwConf, fwWatched, fwPath, fwWalk>>
        /\ \/ UNCHANGED <<fwQueue, fwOver>>
           \/ fwQueue' = Append(fwQueue, event) /\ UNCHANGED fwOver
           \/ fwOver' = TRUE /\ UNCHANGED fwQueue
    BY <1>1 DEF FileMove
  <2>2. fwAt' \in [Dirs -> (Dirs \cup {Top, Outside}) \X Names]
    BY <2>1
  <2>3. event \in Events /\ fwQueue \in Seq(Events)
    OBVIOUS
  <2> HIDE DEF event, Events
  <2>4. Append(fwQueue, event) \in Seq(Events)
    BY <2>3
  <2> QED
    BY <2>1, <2>2, <2>3, <2>4 DEF Events
<1>2. ASSUME NEW d \in Dirs, FileLeave(d) PROVE FileTypes'
  BY <1>2, FileAssumption DEF FileLeave, Nowhere
<1>3. CASE FileConsume
  <2> DEFINE event == Head(fwQueue)
             path == Append(fwPath[event[1]], event[2])
  <2>1. /\ fwQueue # <<>> /\ fwQueue' = Tail(fwQueue)
        /\ UNCHANGED <<fwConf, fwAt, fwWatched, fwOver, fwPath>>
    BY <1>3 DEF FileConsume
  <2>2. event \in (Dirs \cup {Top}) \X Names /\ fwQueue' \in Seq((Dirs \cup {Top}) \X Names)
    BY <2>1
  <2>3. path \in AnyPath
    <3>1. event[1] \in Dirs \cup {Top} /\ event[2] \in Names \cup {"none"}
      BY <2>2
    <3>2. fwPath[event[1]] \in Seq(Names \cup {"none"})
      BY <3>1 DEF AnyPath
    <3> HIDE DEF event
    <3> QED
      BY <3>1, <3>2 DEF AnyPath
  <2>4. UNCHANGED fwWalk \/ fwWalk' = << <<"watch", path>> >>
    BY <1>3 DEF FileConsume
  <2> HIDE DEF event, path
  <2>5. fwWalk' \in Seq({"watch", "list"} \X AnyPath)
    <3> DEFINE Items == {"watch", "list"} \X AnyPath
               item == <<"watch", path>>
    <3>1. item \in Items /\ fwWalk \in Seq(Items)
      BY <2>3
    <3>2. fwWalk' = fwWalk \/ fwWalk' = <<item>>
      BY <2>4
    <3> HIDE DEF Items, item
    <3>3. <<item>> \in Seq(Items)
      BY <3>1
    <3> QED
      BY <3>1, <3>2, <3>3 DEF Items
  <2> QED
    BY <2>1, <2>2, <2>5
<1>4. CASE FileWalk
  <2> DEFINE step == Head(fwWalk)[1]
             path == Head(fwWalk)[2]
             E == Entries(AtPath(path))
             visits == [n \in DOMAIN SetToSeq(E) |-> <<"watch", Append(path, SetToSeq(E)[n])>>]
             Items == {"watch", "list"} \X AnyPath
  <2>1. fwWalk # <<>> /\ UNCHANGED <<fwConf, fwAt, fwQueue, fwOver>>
    BY <1>4 DEF FileWalk
  <2>2. step \in {"watch", "list"} /\ path \in AnyPath /\ Tail(fwWalk) \in Seq(Items)
    BY <2>1
  <2> HIDE DEF step, path
  <2>3. CASE step = "watch"
    <3>1. /\ fwWatched' = fwWatched \cup AtPath(path)
          /\ fwPath' = [d \in Dirs \cup {Top} |-> IF d \in AtPath(path) THEN path ELSE fwPath[d]]
          /\ fwWalk' = << <<"list", path>> >> \o Tail(fwWalk)
      BY <1>4, <2>3 DEF FileWalk, step, path
    <3>2. fwPath' \in [Dirs \cup {Top} -> AnyPath]
      BY <2>2, <3>1
    <3>3. Top \in AtPath(path) => path = <<>>
      <4> SUFFICES ASSUME Top \in AtPath(path) PROVE path = <<>>
        OBVIOUS
      <4>1. PICK way \in [0..Len(path) -> Dirs \cup {Top}] :
                Leads(way, path) /\ way[Len(path)] = Top
        BY DEF AtPath
      <4>2. Len(path) \in Nat /\ path \in Seq(Names \cup {"none"})
        BY <2>2 DEF AnyPath
      <4>3. Len(path) = 0
        BY <4>1, <4>2, FileAssumption DEF Leads
      <4> QED
        BY <4>2, <4>3
    <3>4. fwConf.top => fwPath'[Top] = <<>> /\ Top \in fwWatched'
      BY <3>1, <3>3
    <3>5. fwWalk' \in Seq(Items)
      <4>1. << <<"list", path>> >> \in Seq(Items)
        BY <2>2
      <4> HIDE DEF Items
      <4> QED
        BY <2>2, <3>1, <4>1
    <3> QED
      BY <2>1, <3>1, <3>2, <3>4, <3>5
  <2>4. CASE step # "watch"
    <3>1. fwWalk' = visits \o Tail(fwWalk) /\ UNCHANGED <<fwWatched, fwPath>>
      BY <1>4, <2>4 DEF FileWalk, step, path
    <3>2. visits \in Seq(Items)
      BY <2>2, VisitsTyped
    <3>3. fwWalk' \in Seq(Items)
      <4> HIDE DEF Items, visits
      <4> QED
        BY <2>2, <3>1, <3>2
    <3> QED
      BY <2>1, <3>1, <3>3
  <2> QED
    BY <2>3, <2>4
<1>5. CASE UNCHANGED fileVars
  BY <1>5 DEF fileVars
<1> QED
  BY <1>1, <1>2, <1>3, <1>4, <1>5 DEF FileNext, FileIdle

\* A directory is moved, with what is below it: the event it leaves in the
\* queue, or what was due above its new parent, covers it there.
LEMMA MoveTree ==
    ASSUME FileTypes, TreeInv, NEW d \in Dirs, NEW parent \in Dirs \cup {Top}, NEW name \in Names,
           FileMove(d, parent, name)
    PROVE  Covered'
<1> SUFFICES ASSUME ~fwOver', NEW path \in AnyPath, path # <<>>, path[1] = RootName,
                    Followed(path)', NEW way \in Ways(path), Leads(way, path)'
             PROVE  \/ KnownAs(way[Len(path)], path)'
                    \/ WalkDue(fwWalk', fwQueue', way, path)
  BY DEF Covered
<1> DEFINE event == <<parent, name>>
<1>1. /\ fwAt' = [fwAt EXCEPT ![d] = event] /\ UNCHANGED <<fwConf, fwWatched, fwPath, fwWalk>>
      /\ \A e \in Dirs : fwAt[e] # event
      /\ fwKept' => fwKept
      /\ IF parent \notin fwWatched THEN UNCHANGED <<fwQueue, fwOver>>
         ELSE IF Len(fwQueue) < QueueLen
              THEN fwQueue' = Append(fwQueue, event) /\ UNCHANGED fwOver
              ELSE fwOver' = TRUE /\ UNCHANGED fwQueue
  BY DEF FileMove
<1>2. /\ ~fwOver
      /\ UNCHANGED fwQueue \/ fwQueue' = Append(fwQueue, event)
      /\ parent \in fwWatched => fwQueue' = Append(fwQueue, event)
  BY <1>1
<1>3. \A x : Within(x, fwQueue) => Within(x, fwQueue')
  <2>1. event \in (Dirs \cup {Top}) \X Names /\ fwQueue \in Seq((Dirs \cup {Top}) \X Names)
    BY DEF FileTypes
  <2> HIDE DEF event
  <2>2. \A x : Within(x, fwQueue) => Within(x, Append(fwQueue, event))
    BY <2>1, WithinMore
  <2> QED
    BY <1>2, <2>2
<1>4. \A w, p : WalkDue(fwWalk, fwQueue, w, p) => WalkDue(fwWalk', fwQueue', w, p)
  BY <1>1, <1>3 DEF WalkDue
<1>5. Len(path) \in Nat
  BY DEF AnyPath
<1>6. \A n \in 1..Len(path) : /\ way[n] \in Dirs
                              /\ fwAt'[way[n]] = <<way[n - 1], path[n]>>
  BY DEF Leads
<1>7. way[0] = Top
  BY DEF Leads
<1>0. Followed(path)
  BY <1>1 DEF Followed, Heeded
<1>8. CASE \A n \in 1..Len(path) : way[n] # d
  <2>1. \A n \in 1..Len(path) : fwAt'[way[n]] = fwAt[way[n]]
    BY <1>1, <1>6, <1>8 DEF FileTypes
  <2>2. Leads(way, path)
    BY <1>6, <1>7, <2>1 DEF Leads
  <2>3. KnownAs(way[Len(path)], path) \/ WalkDue(fwWalk, fwQueue, way, path)
    BY <1>2, <1>0, <2>2 DEF TreeInv, Covered
  <2> QED
    BY <1>1, <1>4, <2>3 DEF KnownAs
<1>9. CASE \E n \in 1..Len(path) : way[n] = d
  <2> DEFINE S == {n \in 1..Len(path) : way[n] = d}
  <2>1. S \subseteq Nat /\ S # {}
    BY <1>9
  <2>2. PICK k \in S : \A n \in S : k <= n
    <3> HIDE DEF S
    <3> QED
      BY <2>1, Least
  <2>3. k \in 1..Len(path) /\ way[k] = d /\ k - 1 \in 0..Len(path)
    BY <1>5, <2>2
  <2>4. \A n \in 1..(k - 1) : n \in 1..Len(path) /\ way[n] # d
    BY <1>5, <2>2, <2>3
  <2>5. way[k - 1] = parent /\ path[k] = name
    <3>1. fwAt'[d] = event
      BY <1>1 DEF FileTypes
    <3> QED
      BY <1>6, <2>3, <3>1
  <2> DEFINE pre == SubSeq(path, 1, k - 1)
             w == [i \in 0..(k - 1) |-> way[i]]
  <2>6. CASE parent \in fwWatched
    <3>1. event \in (Dirs \cup {Top}) \X Names /\ fwQueue \in Seq((Dirs \cup {Top}) \X Names)
      BY DEF FileTypes
    <3> HIDE DEF event
    <3>2. Within(event, Append(fwQueue, event))
      BY <3>1, WithinMore
    <3>3. Within(<<way[k - 1], path[k]>>, fwQueue')
      BY <1>2, <2>5, <2>6, <3>2 DEF event
    <3> QED
      BY <2>3, <3>3 DEF WalkDue
  <2>7. CASE parent \notin fwWatched
    <3>1. k - 1 # 0
      <4> SUFFICES ASSUME k - 1 = 0 PROVE FALSE
        OBVIOUS
      <4>1. event = <<Top, RootName>> /\ Top \notin fwWatched
        BY <1>7, <2>3, <2>5, <2>7
      <4>2. fwKept
        BY <1>0, <4>1 DEF Followed, FileTypes
      <4>3. RootAtStart \in Dirs /\ fwAt[RootAtStart] = <<Top, RootName>>
        BY <4>2 DEF TreeInv, KeptInv
      <4> QED
        BY <1>1, <4>1, <4>3
    <3>2. /\ pre \in AnyPath /\ Len(pre) = k - 1 /\ pre # <<>>
          /\ \A i \in 1..(k - 1) : pre[i] = path[i]
      BY <2>3, <3>1, Beginning
    <3> HIDE DEF pre
    <3>3. pre[1] = RootName
      BY <2>3, <3>1, <3>2
    <3>4. w \in Ways(pre)
      BY <1>5, <2>3, <3>2 DEF Ways
    <3>5. ASSUME NEW n \in 1..(k - 1)
          PROVE  w[n] \in Dirs /\ fwAt[w[n]] = <<w[n - 1], pre[n]>>
      <4>1. n \in 1..Len(path) /\ way[n] # d /\ n \in 0..(k - 1) /\ n - 1 \in 0..(k - 1)
        BY <2>3, <2>4, <3>5
      <4>2. way[n] \in Dirs /\ fwAt'[way[n]] = <<way[n - 1], path[n]>>
        BY <1>6, <4>1
      <4>3. fwAt[way[n]] = <<way[n - 1], path[n]>>
        BY <1>1, <4>1, <4>2 DEF FileTypes
      <4>4. w[n] = way[n] /\ w[n - 1] = way[n - 1] /\ pre[n] = path[n]
        BY <3>2, <4>1
      <4> HIDE DEF w
      <4> QED
        BY <4>2, <4>3, <4>4
    <3>6. w[0] = Top /\ w[k - 1] = parent
      BY <1>7, <2>3, <2>5, <3>1
    <3> HIDE DEF w
    <3>7. Leads(w, pre)
      BY <3>2, <3>5, <3>6 DEF Leads
    <3>8. KnownAs(w[Len(pre)], pre) \/ WalkDue(fwWalk, fwQueue, w, pre)
      <4>1. k - 1 \in 1..Len(path)
        BY <1>5, <2>3, <3>1
      <4>2. Followed(pre)
        BY <1>0, <4>1, FollowedBegins DEF pre
      <4> QED
        BY <1>2, <3>2, <3>3, <3>4, <3>7, <4>2 DEF TreeInv, Covered
    <3>9. WalkDue(fwWalk, fwQueue, w, pre)
      BY <2>7, <3>2, <3>6, <3>8 DEF KnownAs
    <3>10. WalkDue(fwWalk, fwQueue, way, path)
      BY <2>3, <3>9, WalkDueFurther DEF w, pre
    <3> QED
      BY <1>4, <3>10
  <2> QED
    BY <2>6, <2>7
<1> QED
  BY <1>8, <1>9

\* A directory leaves: nothing that is still in the tree was below it.
LEMMA LeaveTree ==
    ASSUME FileTypes, TreeInv, NEW d \in Dirs, FileLeave(d)
    PROVE  Covered'
<1> SUFFICES ASSUME ~fwOver', NEW path \in AnyPath, path # <<>>, path[1] = RootName,
                    Followed(path)', NEW way \in Ways(path), Leads(way, path)'
             PROVE  \/ KnownAs(way[Len(path)], path)'
                    \/ WalkDue(fwWalk', fwQueue', way, path)
  BY DEF Covered
<1>1. /\ fwAt' = [fwAt EXCEPT ![d] = Nowhere]
      /\ UNCHANGED <<fwConf, fwWatched, fwQueue, fwOver, fwPath, fwWalk>>
      /\ fwKept' => fwKept
  BY DEF FileLeave
<1>2. Len(path) \in Nat
  BY DEF AnyPath
<1>3. ASSUME NEW n \in 1..Len(path)
      PROVE  way[n] \in Dirs /\ fwAt[way[n]] = <<way[n - 1], path[n]>>
  <2>1. way[n] \in Dirs /\ fwAt'[way[n]] = <<way[n - 1], path[n]>>
    BY DEF Leads
  <2>2. way[n - 1] # Outside
    <3>1. n - 1 \in 0..Len(path)
      BY <1>2
    <3>2. way[n - 1] \in Dirs \cup {Top}
      BY <3>1 DEF Ways
    <3> QED
      BY <3>2, FileAssumption
  <2>3. way[n] # d
    BY <1>1, <2>1, <2>2 DEF FileTypes, Nowhere
  <2> QED
    BY <1>1, <2>1, <2>3 DEF FileTypes
<1>4. Leads(way, path)
  <2>1. way[0] = Top
    BY DEF Leads
  <2> QED
    BY <1>3, <2>1 DEF Leads
<1>5. Followed(path)
  BY <1>1 DEF Followed, Heeded
<1>6. KnownAs(way[Len(path)], path) \/ WalkDue(fwWalk, fwQueue, way, path)
  BY <1>1, <1>4, <1>5 DEF TreeInv, Covered
<1> QED
  BY <1>1, <1>6 DEF KnownAs

\* An event is consumed.  Its directory is the first on the way that has one,
\* so the path known of its parent is right, and the walk begins where it should.
LEMMA ConsumeTree ==
    ASSUME FileTypes, TreeInv, FileConsume
    PROVE  Covered'
<1> SUFFICES ASSUME ~fwOver', NEW path \in AnyPath, path # <<>>, path[1] = RootName,
                    Followed(path)', NEW way \in Ways(path), Leads(way, path)'
             PROVE  \/ KnownAs(way[Len(path)], path)'
                    \/ WalkDue(fwWalk', fwQueue', way, path)
  BY DEF Covered
<1> DEFINE event == Head(fwQueue)
           target == Append(fwPath[event[1]], event[2])
<1>1. /\ fwWalk = <<>> /\ fwQueue # <<>> /\ fwQueue' = Tail(fwQueue)
      /\ UNCHANGED <<fwConf, fwAt, fwWatched, fwOver, fwPath, fwKept>>
      /\ Heeded(fwPath[event[1]], event[2]) /\ AtPath(target) # {} =>
             fwWalk' = << <<"watch", target>> >>
  BY DEF FileConsume
<1>2. Leads(way, path)
  BY <1>1 DEF Leads
<1>3. Len(path) \in Nat
  BY DEF AnyPath
<1>0. Followed(path)
  BY <1>1 DEF Followed, Heeded
<1>4. \A x : ~Within(x, fwWalk)
  <2>1. Len(<<>>) = 0
    OBVIOUS
  <2> QED
    BY <1>1, <2>1 DEF Within
<1>5. CASE KnownAs(way[Len(path)], path)
  BY <1>1, <1>5 DEF KnownAs
<1>6. CASE WalkDue(fwWalk, fwQueue, way, path)
  <2> DEFINE S == {j \in 1..Len(path) : Within(<<way[j - 1], path[j]>>, fwQueue)}
  <2>1. S \subseteq Nat /\ S # {}
    <3>1. PICK j \in 1..Len(path) : Within(<<way[j - 1], path[j]>>, fwQueue)
      BY <1>4, <1>6 DEF WalkDue
    <3>2. j \in S
      BY <3>1
    <3>3. S \subseteq Nat
      BY <1>3
    <3> QED
      BY <3>2, <3>3
  <2>2. PICK k \in S : \A j \in S : k <= j
    <3> HIDE DEF S
    <3> QED
      BY <2>1, Least
  <2>3. k \in 1..Len(path) /\ k - 1 \in 0..Len(path) /\ Within(<<way[k - 1], path[k]>>, fwQueue)
    BY <1>3, <2>2
  <2>4. CASE Within(<<way[k - 1], path[k]>>, fwQueue')
    BY <2>3, <2>4 DEF WalkDue
  <2>5. CASE ~Within(<<way[k - 1], path[k]>>, fwQueue')
    <3>1. event = <<way[k - 1], path[k]>>
      BY <1>1, <2>3, <2>5, WithinTail DEF FileTypes
    <3> DEFINE pre == SubSeq(path, 1, k - 1)
               w == [i \in 0..(k - 1) |-> way[i]]
    <3>2. pre \in AnyPath /\ Len(pre) = k - 1 /\ \A i \in 1..(k - 1) : pre[i] = path[i]
      BY <2>3, Beginning
    <3>3. w \in Ways(pre) /\ Leads(w, pre) /\ w[k - 1] = way[k - 1]
      <4>1. w \in Ways(pre) /\ Leads(w, pre)
        BY <1>2, <2>3, WayBegins
      <4> QED
        BY <2>3, <4>1
    <3>0. k = 1 => way[0] = Top /\ fwConf.top /\ Heeded(<<>>, path[1])
      <4> SUFFICES ASSUME k = 1 PROVE way[0] = Top /\ fwConf.top /\ Heeded(<<>>, path[1])
        OBVIOUS
      <4>1. way[0] = Top
        BY <1>2 DEF Leads
      <4>2. Within(<<Top, RootName>>, fwQueue)
        BY <2>3, <4>1
      <4>3. ~fwKept
        BY <4>2 DEF TreeInv, KeptInv
      <4> QED
        BY <1>0, <4>1, <4>3 DEF Followed
    <3>4. fwPath[way[k - 1]] = pre
      <4>1. CASE k = 1
        <5>1. way[k - 1] = Top /\ fwConf.top
          BY <4>1, <3>0
        <5>2. pre = <<>>
          <6> HIDE DEF pre
          <6> QED
            BY <3>2, <4>1 DEF AnyPath
        <5> QED
          BY <5>1, <5>2 DEF FileTypes
      <4>2. CASE k # 1
        <5> HIDE DEF pre, w
        <5>1. pre # <<>> /\ pre[1] = RootName
          BY <2>3, <3>2, <4>2
        <5>2. KnownAs(w[Len(pre)], pre) \/ WalkDue(fwWalk, fwQueue, w, pre)
          <6>1. k - 1 \in 1..Len(path)
            BY <1>3, <2>3, <4>2
          <6>2. Followed(pre)
            BY <1>0, <6>1, FollowedBegins DEF pre
          <6> QED
            BY <1>1, <3>2, <3>3, <5>1, <6>2 DEF TreeInv, Covered
        <5>3. ~WalkDue(fwWalk, fwQueue, w, pre)
          <6> SUFFICES ASSUME NEW j \in 1..(k - 1), Within(<<w[j - 1], pre[j]>>, fwQueue)
                       PROVE  FALSE
            BY <1>4, <3>2 DEF WalkDue
          <6>1. w[j - 1] = way[j - 1] /\ pre[j] = path[j]
            BY <2>3, <3>2 DEF w
          <6>2. j \in S
            BY <2>3, <6>1
          <6>3. ~(k <= j)
            BY <2>3
          <6> QED
            BY <2>2, <6>2, <6>3
        <5> QED
          BY <3>2, <3>3, <5>2, <5>3 DEF KnownAs
      <4> QED
        BY <4>1, <4>2
    <3>5. target = SubSeq(path, 1, k)
      <4>1. target = Append(pre, path[k])
        BY <3>1, <3>4
      <4>2. /\ SubSeq(path, 1, k) \in AnyPath /\ Len(SubSeq(path, 1, k)) = k
            /\ \A i \in 1..k : SubSeq(path, 1, k)[i] = path[i]
        BY <2>3, Beginning
      <4>3. path[k] \in Names \cup {"none"}
        BY <2>3 DEF AnyPath
      <4> HIDE DEF pre
      <4>4. Append(pre, path[k]) = SubSeq(path, 1, k)
        BY <2>3, <3>2, <4>2, <4>3, PathAppended
      <4> QED
        BY <4>1, <4>4
    <3>6. AtPath(target) # {}
      <4>1. k \in 0..Len(path)
        BY <1>3, <2>3
      <4>2. way[k] \in AtPath(SubSeq(path, 1, k))
        BY <1>2, <4>1, WayBegins
      <4> HIDE DEF target
      <4> QED
        BY <3>5, <4>2
    <3>8. Heeded(fwPath[event[1]], event[2])
      <4>1. event[1] = way[k - 1] /\ event[2] = path[k]
        BY <3>1
      <4>2. CASE k = 1
        <5>1. pre = <<>>
          <6> HIDE DEF pre
          <6> QED
            BY <3>2, <4>2 DEF AnyPath
        <5> HIDE DEF pre
        <5> QED
          BY <3>0, <3>4, <4>1, <4>2, <5>1
      <4>3. CASE k # 1
        <5>1. k \in 2..Len(path)
          BY <1>3, <2>3, <4>3
        <5>2. Heeded(pre, path[k])
          BY <1>0, <5>1 DEF Followed
        <5> HIDE DEF pre
        <5> QED
          BY <3>4, <4>1, <5>2
      <4> QED
        BY <4>2, <4>3
    <3>7. Within(<<"watch", SubSeq(path, 1, k)>>, fwWalk')
      <4> DEFINE item == <<"watch", SubSeq(path, 1, k)>>
      <4>1. fwWalk' = <<item>>
        BY <1>1, <3>5, <3>6, <3>8
      <4> HIDE DEF item
      <4>2. Len(<<item>>) = 1 /\ <<item>>[1] = item
        OBVIOUS
      <4>3. Within(item, fwWalk')
        BY <4>1, <4>2 DEF Within
      <4> QED
        BY <4>3 DEF item
    <3> QED
      BY <2>3, <3>7 DEF WalkDue
  <2> QED
    BY <2>4, <2>5
<1> QED
  BY <1>1, <1>2, <1>0, <1>5, <1>6 DEF TreeInv, Covered

\* watchTree: what it was to watch is watched and then listed, and the entries
\* it finds are to be watched.
LEMMA WalkTree ==
    ASSUME FileTypes, TreeInv, FileWalk
    PROVE  Covered'
<1> SUFFICES ASSUME ~fwOver', NEW path \in AnyPath, path # <<>>, path[1] = RootName,
                    Followed(path)', NEW way \in Ways(path), Leads(way, path)'
             PROVE  \/ KnownAs(way[Len(path)], path)'
                    \/ WalkDue(fwWalk', fwQueue', way, path)
  BY DEF Covered
<1> DEFINE step == Head(fwWalk)[1]
           at == Head(fwWalk)[2]
           E == Entries(AtPath(at))
           visits == [n \in DOMAIN SetToSeq(E) |-> <<"watch", Append(at, SetToSeq(E)[n])>>]
           Items == {"watch", "list"} \X AnyPath
<1>1. fwWalk # <<>> /\ UNCHANGED <<fwConf, fwAt, fwQueue, fwOver, fwKept>>
  BY DEF FileWalk
<1>2. /\ fwWalk \in Seq(Items) /\ Tail(fwWalk) \in Seq(Items)
      /\ Head(fwWalk) = <<step, at>> /\ step \in {"watch", "list"} /\ at \in AnyPath
  BY <1>1 DEF FileTypes
<1>3. Leads(way, path)
  BY <1>1 DEF Leads
<1>4. Len(path) \in Nat
  BY DEF AnyPath
<1>5. KnownAs(way[Len(path)], path) \/ WalkDue(fwWalk, fwQueue, way, path)
  <2>1. Followed(path)
    BY <1>1 DEF Followed, Heeded
  <2> QED
    BY <1>1, <1>3, <2>1 DEF TreeInv, Covered
<1>6. \A x : Within(x, fwWalk) => x = <<step, at>> \/ Within(x, Tail(fwWalk))
  BY <1>1, <1>2, WithinTail
<1>7. CASE step = "watch"
  <2> DEFINE item == <<"list", at>>
  <2>1. /\ fwWatched' = fwWatched \cup AtPath(at)
        /\ fwPath' = [d \in Dirs \cup {Top} |-> IF d \in AtPath(at) THEN at ELSE fwPath[d]]
        /\ fwWalk' = <<item>> \o Tail(fwWalk)
    BY <1>7 DEF FileWalk
  <2>2. Within(item, fwWalk') /\ \A x : Within(x, Tail(fwWalk)) => Within(x, fwWalk')
    <3>1. item \in Items
      BY <1>2
    <3> HIDE DEF item, Items
    <3>2. <<item>> \in Seq(Items) /\ Within(item, <<item>>)
      <4>1. <<item>> \in Seq(Items) /\ Len(<<item>>) = 1 /\ <<item>>[1] = item
        BY <3>1
      <4> QED
        BY <4>1 DEF Within
    <3> QED
      BY <1>2, <2>1, <3>2, WithinEither
  <2> DEFINE last == way[Len(path)]
  <2>3. last \in Dirs \cup {Top}
    BY <1>4 DEF Ways
  <2>4. last \in AtPath(path)
    <3>1. Len(path) \in 0..Len(path)
      BY <1>4
    <3> QED
      BY <1>3 DEF AtPath, Ways
  <2>5. CASE at = path
    BY <2>1, <2>3, <2>4, <2>5 DEF KnownAs
  <2>6. CASE at # path
    <3>1. last \notin AtPath(at)
      <4> SUFFICES ASSUME last \in AtPath(at) PROVE FALSE
        OBVIOUS
      <4>1. PICK w \in Ways(at) : Leads(w, at) /\ w[Len(at)] = last
        BY DEF AtPath, Ways
      <4> QED
        BY <1>2, <1>3, <2>6, <4>1, OnePath
    <3>2. CASE KnownAs(last, path)
      BY <2>1, <2>3, <3>1, <3>2 DEF KnownAs
    <3>3. CASE WalkDue(fwWalk, fwQueue, way, path)
      <4>1. PICK j \in 1..Len(path) :
                \/ Within(<<"watch", SubSeq(path, 1, j)>>, fwWalk)
                \/ j < Len(path) /\ Within(<<"list", SubSeq(path, 1, j)>>, fwWalk)
                \/ Within(<<way[j - 1], path[j]>>, fwQueue)
        BY <3>3 DEF WalkDue
      <4>2. CASE Within(<<"watch", SubSeq(path, 1, j)>>, fwWalk)
        <5>1. CASE Within(<<"watch", SubSeq(path, 1, j)>>, Tail(fwWalk))
          BY <2>2, <5>1 DEF WalkDue
        <5>2. CASE at = SubSeq(path, 1, j)
          <6>1. j # Len(path)
            <7> SUFFICES ASSUME j = Len(path) PROVE at = path
              BY <2>6
            <7>1. SubSeq(path, 1, Len(path)) = path
              BY DEF AnyPath
            <7> QED
              BY <5>2, <7>1
          <6>2. j < Len(path)
            BY <1>4, <6>1
          <6> QED
            BY <2>2, <5>2, <6>2 DEF WalkDue
        <5> QED
          BY <1>6, <4>2, <5>1, <5>2
      <4>3. CASE j < Len(path) /\ Within(<<"list", SubSeq(path, 1, j)>>, fwWalk)
        <5>1. <<"list", SubSeq(path, 1, j)>> # <<step, at>>
          BY <1>7
        <5>2. Within(<<"list", SubSeq(path, 1, j)>>, fwWalk')
          BY <1>6, <2>2, <4>3, <5>1
        <5> QED
          BY <4>3, <5>2 DEF WalkDue
      <4>4. CASE Within(<<way[j - 1], path[j]>>, fwQueue)
        BY <1>1, <4>4 DEF WalkDue
      <4> QED
        BY <4>1, <4>2, <4>3, <4>4
    <3> QED
      BY <1>5, <3>2, <3>3
  <2> QED
    BY <2>5, <2>6
<1>8. CASE step # "watch"
  <2>1. fwWalk' = visits \o Tail(fwWalk) /\ UNCHANGED <<fwWatched, fwPath>>
    BY <1>8 DEF FileWalk
  <2>2. /\ visits \in Seq(Items)
        /\ \A e \in E : Within(<<"watch", Append(at, e)>>, visits)
    <3> HIDE DEF at
    <3> QED
      BY <1>2, VisitsTyped
  <2>3. /\ \A x : Within(x, Tail(fwWalk)) => Within(x, fwWalk')
        /\ \A x : Within(x, visits) => Within(x, fwWalk')
    <3> HIDE DEF visits, Items
    <3> QED
      BY <1>2, <2>1, <2>2, WithinEither
  <2>4. CASE KnownAs(way[Len(path)], path)
    BY <2>1, <2>4 DEF KnownAs
  <2>5. CASE WalkDue(fwWalk, fwQueue, way, path)
    <3>1. PICK j \in 1..Len(path) :
              \/ Within(<<"watch", SubSeq(path, 1, j)>>, fwWalk)
              \/ j < Len(path) /\ Within(<<"list", SubSeq(path, 1, j)>>, fwWalk)
              \/ Within(<<way[j - 1], path[j]>>, fwQueue)
      BY <2>5 DEF WalkDue
    <3>2. CASE Within(<<"watch", SubSeq(path, 1, j)>>, fwWalk)
      <4>1. <<"watch", SubSeq(path, 1, j)>> # <<step, at>>
        BY <1>8
      <4>2. Within(<<"watch", SubSeq(path, 1, j)>>, fwWalk')
        BY <1>6, <2>3, <3>2, <4>1
      <4> QED
        BY <4>2 DEF WalkDue
    <3>3. CASE j < Len(path) /\ Within(<<"list", SubSeq(path, 1, j)>>, fwWalk)
      <4>1. CASE Within(<<"list", SubSeq(path, 1, j)>>, Tail(fwWalk))
        BY <2>3, <3>3, <4>1 DEF WalkDue
      <4>2. CASE at = SubSeq(path, 1, j)
        <5>1. j + 1 \in 1..Len(path) /\ j \in 0..Len(path) /\ (j + 1) - 1 = j
          BY <1>4, <3>3
        <5>2. way[j] \in AtPath(at)
          BY <1>3, <4>2, <5>1, WayBegins
        <5>3. way[j + 1] \in Dirs /\ fwAt[way[j + 1]] = <<way[j], path[j + 1]>>
          BY <1>3, <5>1 DEF Leads
        <5>4. path[j + 1] \in E
          BY <5>2, <5>3 DEF Entries
        <5>5. Append(at, path[j + 1]) = SubSeq(path, 1, j + 1)
          <6>1. at \in AnyPath /\ Len(at) = j /\ \A i \in 1..j : at[i] = path[i]
            <7> DEFINE pre == SubSeq(path, 1, j)
            <7>1. pre \in AnyPath /\ Len(pre) = j /\ \A i \in 1..j : pre[i] = path[i]
              BY <5>1, Beginning
            <7>2. at = pre
              BY <4>2
            <7> HIDE DEF pre, at
            <7> QED
              BY <7>1, <7>2
          <6>2. /\ SubSeq(path, 1, j + 1) \in AnyPath /\ Len(SubSeq(path, 1, j + 1)) = j + 1
                /\ \A i \in 1..(j + 1) : SubSeq(path, 1, j + 1)[i] = path[i]
            <7>1. j + 1 \in 0..Len(path)
              BY <5>1
            <7> QED
              BY <7>1, Beginning
          <6>3. path[j + 1] \in Names \cup {"none"} /\ j + 1 \in Nat \ {0}
            BY <5>1 DEF AnyPath
          <6> HIDE DEF at
          <6> QED
            BY <5>1, <6>1, <6>2, <6>3, PathAppended
        <5>6. Within(<<"watch", SubSeq(path, 1, j + 1)>>, fwWalk')
          BY <2>2, <2>3, <5>4, <5>5
        <5> QED
          BY <5>1, <5>6 DEF WalkDue
      <4> QED
        BY <1>6, <3>3, <4>1, <4>2
    <3>4. CASE Within(<<way[j - 1], path[j]>>, fwQueue)
      BY <1>1, <3>4 DEF WalkDue
    <3> QED
      BY <3>1, <3>2, <3>3, <3>4
  <2> QED
    BY <1>5, <2>4, <2>5
<1> QED
  BY <1>7, <1>8

LEMMA TreeInit == FileInit => FileTypes /\ TreeInv
<1> SUFFICES ASSUME FileInit PROVE FileTypes /\ TreeInv
  OBVIOUS
<1> DEFINE item == <<"watch", <<RootName>> >>
           Items == {"watch", "list"} \X AnyPath
<1>1. /\ fwAt = [d \in Dirs |-> IF d = RootAtStart THEN <<Top, RootName>> ELSE Nowhere]
      /\ fwWatched = IF fwConf.top THEN {Top} ELSE {}
      /\ fwPath = [d \in Dirs \cup {Top} |-> IF d \in fwWatched THEN <<>> ELSE NoPath]
      /\ fwQueue = <<>> /\ fwOver = FALSE /\ fwKept = (RootAtStart # Outside)
      /\ fwWalk = IF RootAtStart = Outside THEN <<>> ELSE <<item>>
  BY DEF FileInit
<1>2. <<RootName>> \in AnyPath /\ NoPath \in AnyPath /\ <<>> \in AnyPath
  BY FileAssumption DEF AnyPath, NoPath
<1>3. item \in Items
  BY <1>2
<1>4. fwWalk \in Seq(Items)
  <2> HIDE DEF item, Items
  <2>1. <<item>> \in Seq(Items) /\ <<>> \in Seq(Items)
    BY <1>3
  <2> QED
    BY <1>1, <2>1
<1>5. fwAt \in [Dirs -> (Dirs \cup {Top, Outside}) \X Names]
  <2>1. Nowhere \in (Dirs \cup {Top, Outside}) \X Names
    BY FileAssumption DEF Nowhere
  <2> QED
    BY <1>1, <2>1, FileAssumption
<1>6. FileTypes
  <2>1. fwPath \in [Dirs \cup {Top} -> AnyPath] /\ (fwConf.top => fwPath[Top] = <<>>)
    BY <1>1, <1>2
  <2> QED
    <3>1. fwQueue \in Seq((Dirs \cup {Top}) \X Names)
      <4> DEFINE T == (Dirs \cup {Top}) \X Names
      <4> HIDE DEF T
      <4>1. <<>> \in Seq(T)
        OBVIOUS
      <4> QED
        BY <1>1, <4>1 DEF T
    <3>2. (fwConf.top => Top \in fwWatched) /\ fwOver \in BOOLEAN
      BY <1>1
    <3> HIDE DEF item
    <3> QED
      BY <1>4, <1>5, <2>1, <3>1, <3>2 DEF FileTypes
<1>7. Covered
  <2> SUFFICES ASSUME NEW path \in AnyPath, path # <<>>, path[1] = RootName,
                      NEW way \in Ways(path), Leads(way, path)
               PROVE  WalkDue(fwWalk, fwQueue, way, path)
    BY DEF Covered
  <2>1. Len(path) \in Nat /\ 1 \in 1..Len(path)
    BY DEF AnyPath
  <2>2. way[0] = Top /\ way[1] \in Dirs /\ fwAt[way[1]] = <<way[0], path[1]>>
    BY <2>1 DEF Leads
  <2>3. RootAtStart # Outside
    BY <1>1, <2>2, FileAssumption DEF Nowhere
  <2>4. SubSeq(path, 1, 1) = <<RootName>>
    <3>1. /\ SubSeq(path, 1, 1) \in AnyPath /\ Len(SubSeq(path, 1, 1)) = 1
          /\ \A i \in 1..1 : SubSeq(path, 1, 1)[i] = path[i]
      <4>1. 1 \in 0..Len(path)
        BY <2>1
      <4> QED
        BY <4>1, Beginning
    <3> DEFINE q == SubSeq(path, 1, 1)
    <3>2. q \in AnyPath /\ Len(q) = 1 /\ q[1] = RootName
      BY <3>1
    <3> HIDE DEF q
    <3>3. q = <<q[1]>>
      BY <3>2 DEF AnyPath
    <3> QED
      BY <3>2, <3>3 DEF q
  <2>5. Within(item, fwWalk)
    <3> HIDE DEF item
    <3>1. Len(<<item>>) = 1 /\ <<item>>[1] = item
      OBVIOUS
    <3> QED
      BY <1>1, <2>3, <3>1 DEF Within
  <2> QED
    BY <2>1, <2>4, <2>5 DEF WalkDue
<1>8. KeptInv
  <2>1. ~Within(<<Top, RootName>>, fwQueue)
    <3>1. Len(<<>>) = 0
      OBVIOUS
    <3> QED
      BY <1>1, <3>1 DEF Within
  <2>2. RootAtStart # Outside =>
            RootAtStart \in Dirs /\ fwAt[RootAtStart] = <<Top, RootName>>
    BY <1>1, FileAssumption
  <2>3. fwKept => RootAtStart # Outside
    BY <1>1
  <2> QED
    BY <2>1, <2>2, <2>3 DEF KeptInv
<1> QED
  BY <1>6, <1>7, <1>8 DEF TreeInv

\* Nothing can be put where the directory found at the start still is.
LEMMA KeptStep ==
    ASSUME FileTypes, KeptInv, [FileNext]_fileVars
    PROVE  KeptInv'
<1> SUFFICES ASSUME fwKept' PROVE KeptInv'
  BY DEF KeptInv
<1>1. ASSUME NEW d \in Dirs, NEW parent \in Dirs \cup {Top}, NEW name \in Names,
             FileMove(d, parent, name)
      PROVE  KeptInv'
  <2> DEFINE event == <<parent, name>>
  <2>1. /\ fwKept /\ d # RootAtStart /\ fwAt' = [fwAt EXCEPT ![d] = event]
        /\ \A e \in Dirs : fwAt[e] # event
        /\ fwQueue' = fwQueue \/ fwQueue' = Append(fwQueue, event)
    BY <1>1 DEF FileMove
  <2>2. RootAtStart \in Dirs /\ fwAt[RootAtStart] = <<Top, RootName>>
    BY <2>1 DEF KeptInv
  <2>3. fwAt'[RootAtStart] = <<Top, RootName>> /\ event # <<Top, RootName>>
    BY <2>1, <2>2 DEF FileTypes
  <2>4. event \in (Dirs \cup {Top}) \X Names /\ fwQueue \in Seq((Dirs \cup {Top}) \X Names)
    BY DEF FileTypes
  <2> HIDE DEF event
  <2>5. ASSUME Within(<<Top, RootName>>, Append(fwQueue, event))
        PROVE  Within(<<Top, RootName>>, fwQueue)
    <3>1. /\ Len(fwQueue) \in Nat /\ Len(Append(fwQueue, event)) = Len(fwQueue) + 1
          /\ Append(fwQueue, event)[Len(fwQueue) + 1] = event
          /\ \A i \in 1..Len(fwQueue) : Append(fwQueue, event)[i] = fwQueue[i]
      BY <2>4
    <3>2. PICK i \in 1..(Len(fwQueue) + 1) : Append(fwQueue, event)[i] = <<Top, RootName>>
      BY <2>5, <3>1 DEF Within
    <3>3. i # Len(fwQueue) + 1
      BY <2>3, <3>1, <3>2
    <3>4. i \in 1..Len(fwQueue)
      BY <3>1, <3>2, <3>3
    <3> QED
      BY <3>1, <3>2, <3>4 DEF Within
  <2> QED
    BY <2>1, <2>2, <2>3, <2>5 DEF KeptInv
<1>2. ASSUME NEW d \in Dirs, FileLeave(d) PROVE KeptInv'
  BY <1>2 DEF FileLeave, KeptInv, FileTypes
<1>3. CASE FileConsume
  <2>1. fwQueue # <<>> /\ fwQueue' = Tail(fwQueue) /\ UNCHANGED <<fwAt, fwKept>>
    BY <1>3 DEF FileConsume
  <2>2. \A x : Within(x, Tail(fwQueue)) => Within(x, fwQueue)
    <3> DEFINE T == (Dirs \cup {Top}) \X Names
    <3>1. fwQueue \in Seq(T)
      BY DEF FileTypes
    <3> HIDE DEF T
    <3>2. /\ Len(fwQueue) \in Nat /\ Len(Tail(fwQueue)) = Len(fwQueue) - 1
          /\ \A i \in 1..(Len(fwQueue) - 1) : Tail(fwQueue)[i] = fwQueue[i + 1]
      BY <2>1, <3>1
    <3>3. \A i \in 1..(Len(fwQueue) - 1) : i + 1 \in 1..Len(fwQueue)
      BY <3>2
    <3> QED
      BY <3>2, <3>3 DEF Within
  <2> QED
    BY <2>1, <2>2 DEF KeptInv
<1>4. CASE FileWalk
  BY <1>4 DEF FileWalk, KeptInv
<1>5. CASE UNCHANGED fileVars
  BY <1>5 DEF fileVars, KeptInv
<1> QED
  BY <1>1, <1>2, <1>3, <1>4, <1>5 DEF FileNext, FileIdle

LEMMA TreeStep == FileTypes /\ TreeInv /\ [FileNext]_fileVars => TreeInv'
<1> SUFFICES ASSUME FileTypes, TreeInv, [FileNext]_fileVars PROVE TreeInv'
  OBVIOUS
<1>1. KeptInv'
  BY KeptStep DEF TreeInv
<1>2. Covered'
  <2>1. CASE UNCHANGED fileVars
    BY <2>1 DEF fileVars, TreeInv, Covered, KnownAs, Leads, Followed, Heeded
  <2> QED
    BY <2>1, MoveTree, LeaveTree, ConsumeTree, WalkTree DEF FileNext, FileIdle
<1> QED
  BY <1>1, <1>2 DEF TreeInv

\* For any set of directories and names, and any of the configurations, however
\* directories are made, renamed, moved in or out while watchTree walks by path:
\* when all events are consumed and none was lost, each directory at or below the
\* configured path is watched under the path it has, unless it was put where the
\* monitor does not look (file_linux.go:97-215): it, or one above it, is excluded
\* or in a directory with a filter for single files, or the directory found at the
\* start is no longer the one at the path and the one above is not watched.
THEOREM FileTree == FileSpec => []FileTreeWatched
<1>1. FileTypes /\ TreeInv => FileTreeWatched
  <2> SUFFICES ASSUME FileTypes, TreeInv, fwQueue = <<>>, fwWalk = <<>>, ~fwOver,
                      NEW path \in TreePaths, Followed(path), NEW d \in AtPath(path)
               PROVE  d \in fwWatched /\ fwPath[d] = path
    BY DEF FileTreeWatched
  <2>1. path \in AnyPath /\ path # <<>> /\ path[1] = RootName
    <3>1. PICK n \in 1..Cardinality(Dirs) : path \in [1..n -> Names]
      BY DEF TreePaths
    <3>2. n \in Nat /\ n # 0
      BY <3>1, FileAssumption, FS_CardinalityType
    <3>3. path \in Seq(Names \cup {"none"}) /\ Len(path) = n
      BY <3>1, <3>2
    <3> QED
      BY <3>2, <3>3 DEF TreePaths, AnyPath
  <2>2. PICK way \in Ways(path) : Leads(way, path) /\ way[Len(path)] = d
    BY DEF AtPath, Ways
  <2>3. ~WalkDue(fwWalk, fwQueue, way, path)
    <3>1. Len(<<>>) = 0
      OBVIOUS
    <3> QED
      BY <3>1 DEF WalkDue, Within
  <2> QED
    BY <2>1, <2>2, <2>3 DEF TreeInv, Covered, KnownAs
<1>2. FileTypes /\ TreeInv /\ [FileNext]_fileVars => (FileTypes /\ TreeInv)'
  BY FileTypesStep, TreeStep
<1> QED
  BY <1>1, <1>2, TreeInit, PTL DEF FileSpec
=============================================================================
