------------------------------ MODULE ProcWatch ------------------------------
(***************************************************************************)
(* ProcessMonitor on Linux: idle behind eBPF, else the netlink proc        *)
(* connector, else polling /proc, beside processes that exec, change what  *)
(* /proc shows of them, and exit.  A process is seen by two texts, its exe *)
(* link and its command line.  They are read one after the other, as are   *)
(* the pids of one scan, and an event is filled from /proc once more, after *)
(* the pid was found to be of interest.                                    *)
(*                                                                         *)
(* The socket of runNetlink is bound to a group nothing is sent to         *)
(* (Netlink.tla), so in that tier the monitor waits in its first Read.     *)
(***************************************************************************)
EXTENDS Naturals, Sequences

CONSTANTS
    Pids,
    Exes, Cmdlines, \* texts of exe links ("... (deleted)" is one) and command lines
    NoPid,          \* no pid is being looked at
    NoText,         \* "": nothing there, nothing to be read, or not read yet
    Tiers,          \* what the host offers: "ebpf", "netlink", "polling"
    MaxChanges,     \* bound: execs, and changes of the texts without one
    MaxScanFails    \* bound: scans for which /proc cannot be listed

ASSUME ProcAssumption ==
    /\ NoPid \notin Pids /\ NoText \notin Exes \cup Cmdlines /\ Exes \cap Cmdlines = {}
    /\ Tiers \subseteq {"ebpf", "netlink", "polling"}
    /\ MaxChanges \in Nat /\ MaxScanFails \in Nat

VARIABLES
    pwTier,     \* what the host offers
    pwAlive,    \* pids of processes
    pwShow,     \* pwShow[p]: <<exe, cmdline>> as the monitor may read them
    pwChanges, pwFails,
    pwPc,       \* where Start is
    pwPid, pwExe, pwCmd, pwBack,    \* emitExec: the pid, what was read, who called
    pwPrev, pwCur,          \* prev and cur of runPolling; an exe of "" is no entry
    pwTodo,     \* pids of this scan still to be read, or to be emitted
    pwOut,      \* exec events: <<pid, exe, cmdline>>
    pwBase,     \* history: <<pid, exe, cmdline>> found by the first scan
    pwRan,      \* history: <<pid, text>> shown so far
    pwAgain,    \* history: <<pid, exe, cmdline>> neither text of which was new
    pwSince,    \* history: pids whose texts changed since the last scan began
    pwSincePrev \* history: ... since the one before it began

procHost == <<pwTier, pwAlive, pwShow, pwChanges, pwRan, pwAgain>>
procScan == <<pwPrev, pwCur, pwTodo, pwFails, pwBase>>
procEmit == <<pwPid, pwExe, pwCmd, pwBack, pwOut>>
procVars == <<procHost, procScan, procEmit, pwPc, pwSince, pwSincePrev>>

Nothing == <<NoText, NoText>>
NothingRuns == [p \in Pids |-> Nothing]

ProcInit ==
    /\ pwTier \in Tiers
    /\ pwAlive = {} /\ pwShow = NothingRuns /\ pwChanges = 0 /\ pwFails = 0
    /\ pwPc = "start"
    /\ pwPid = NoPid /\ pwExe = NoText /\ pwCmd = NoText /\ pwBack = "none"
    /\ pwPrev = NothingRuns /\ pwCur = NothingRuns /\ pwTodo = {}
    /\ pwOut = {} /\ pwBase = {} /\ pwRan = Pids \X {NoText} /\ pwAgain = {}
    /\ pwSince = {} /\ pwSincePrev = {}

-----------------------------------------------------------------------------
(* The host *)

\* From now on /proc shows these texts of p.
Shows(p, exe, cmdline) ==
    LET changed == IF pwShow[p] = <<exe, cmdline>> THEN {} ELSE {p} IN
    /\ pwShow' = [pwShow EXCEPT ![p] = <<exe, cmdline>>]
    /\ pwRan' = pwRan \cup {<<p, exe>>, <<p, cmdline>>}
    /\ pwAgain' = IF {<<p, exe>>, <<p, cmdline>>} \subseteq pwRan
                  THEN pwAgain \cup {<<p, exe, cmdline>>} ELSE pwAgain
    /\ pwSince' = pwSince \cup changed /\ pwSincePrev' = pwSincePrev \cup changed

\* p execs.  The link of another user's process cannot be read without root.
ProcExec(p, exe, cmdline) ==
    /\ pwChanges < MaxChanges /\ pwChanges' = pwChanges + 1
    /\ pwAlive' = pwAlive \cup {p}
    /\ Shows(p, exe, cmdline)
    /\ UNCHANGED <<pwTier, procScan, procEmit, pwPc>>

\* Without an exec: the binary is replaced, the process writes over its command
\* line, or its link becomes readable or unreadable.
ProcAlter(p, exe, cmdline) ==
    /\ p \in pwAlive /\ pwShow[p] # <<exe, cmdline>>
    /\ pwChanges < MaxChanges /\ pwChanges' = pwChanges + 1
    /\ Shows(p, exe, cmdline)
    /\ UNCHANGED <<pwTier, pwAlive, procScan, procEmit, pwPc>>

ProcExit(p) ==
    /\ p \in pwAlive /\ pwAlive' = pwAlive \ {p}
    /\ Shows(p, NoText, NoText)
    /\ UNCHANGED <<pwTier, pwChanges, procScan, procEmit, pwPc>>

-----------------------------------------------------------------------------
(* Start and runNetlink *)

ProcStart ==
    /\ pwPc = "start"
    /\ pwPc' = CASE pwTier = "ebpf" -> "idle"
                 [] pwTier = "netlink" -> "netlink"
                 [] pwTier = "polling" -> "first"
    /\ UNCHANGED <<procHost, procScan, procEmit, pwSince, pwSincePrev>>

\* The Read fails: polling from here on.
NetlinkFail ==
    /\ pwPc = "netlink"
    /\ pwPc' = "first"
    /\ UNCHANGED <<procHost, procScan, procEmit, pwSince, pwSincePrev>>

\* ctx is done, which is noticed where the monitor waits.
ProcCancel ==
    /\ pwPc \in {"idle", "netlink", "tick"}
    /\ pwPc' = "stopped"
    /\ UNCHANGED <<procHost, procScan, procEmit, pwSince, pwSincePrev>>

-----------------------------------------------------------------------------
(* emitExec *)

EmitReadExe ==
    /\ pwPc = "exe"
    /\ pwExe' = pwShow[pwPid][1]
    /\ pwPc' = "cmdline"
    /\ UNCHANGED <<procHost, procScan, pwPid, pwCmd, pwBack, pwOut, pwSince, pwSincePrev>>

EmitReadCmdline ==
    /\ pwPc = "cmdline"
    /\ pwCmd' = pwShow[pwPid][2]
    /\ pwPc' = "status"
    /\ UNCHANGED <<procHost, procScan, pwPid, pwExe, pwBack, pwOut, pwSince, pwSincePrev>>

\* A process that is gone by now, or showed neither text, gives no event.
EmitReadStatus ==
    /\ pwPc = "status"
    /\ pwOut' = IF pwPid \in pwAlive /\ <<pwExe, pwCmd>> # Nothing
                THEN pwOut \cup {<<pwPid, pwExe, pwCmd>>} ELSE pwOut
    /\ pwPc' = pwBack
    /\ pwPid' = NoPid /\ pwExe' = NoText /\ pwCmd' = NoText /\ pwBack' = "none"
    /\ UNCHANGED <<procHost, procScan, pwSince, pwSincePrev>>

-----------------------------------------------------------------------------
(* runPolling *)

\* scanProcs lists /proc: the pids to be read one by one.
ScanList ==
    /\ pwPc \in {"first", "tick"}
    /\ \/ pwTodo' = pwAlive /\ UNCHANGED pwFails
       \/ pwFails < MaxScanFails /\ pwFails' = pwFails + 1 /\ pwTodo' = {}
    /\ pwCur' = NothingRuns
    /\ pwPc' = IF pwPc = "first" THEN "scan first" ELSE "scan"
    /\ pwSincePrev' = pwSince /\ pwSince' = {}
    /\ UNCHANGED <<procHost, pwPrev, pwBase, procEmit>>

\* A kernel thread, a process that is gone, or a link that may not be read: no entry.
ScanReadExe(p) ==
    /\ pwPc \in {"scan", "scan first"} /\ p \in pwTodo /\ pwCur[p][1] = NoText
    /\ IF pwShow[p][1] = NoText
       THEN pwTodo' = pwTodo \ {p} /\ UNCHANGED pwCur
       ELSE pwCur' = [pwCur EXCEPT ![p] = <<pwShow[p][1], NoText>>] /\ UNCHANGED pwTodo
    /\ UNCHANGED <<procHost, pwPrev, pwFails, pwBase, procEmit, pwPc, pwSince, pwSincePrev>>

ScanReadCmdline(p) ==
    /\ pwPc \in {"scan", "scan first"} /\ p \in pwTodo /\ pwCur[p][1] # NoText
    /\ pwCur' = [pwCur EXCEPT ![p] = <<pwCur[p][1], pwShow[p][2]>>]
    /\ pwTodo' = pwTodo \ {p}
    /\ UNCHANGED <<procHost, pwPrev, pwFails, pwBase, procEmit, pwPc, pwSince, pwSincePrev>>

\* The first scan becomes prev without an event.
ScanFirstDone ==
    /\ pwPc = "scan first" /\ pwTodo = {}
    /\ pwPrev' = pwCur
    /\ pwBase' = {<<p, pwCur[p][1], pwCur[p][2]>> : p \in Pids}
    /\ pwPc' = "tick"
    /\ UNCHANGED <<procHost, pwCur, pwTodo, pwFails, procEmit, pwSince, pwSincePrev>>

\* Fault: a pid that was running before is not looked at again.
ScanDoneNewOnly ==
    /\ pwPc = "scan" /\ pwTodo = {}
    /\ pwTodo' = {p \in Pids : pwCur[p][1] # NoText /\ pwPrev[p][1] = NoText}
    /\ pwPc' = "diff"
    /\ UNCHANGED <<procHost, pwPrev, pwCur, pwFails, pwBase, procEmit, pwSince, pwSincePrev>>

\* The pids in cur that prev does not have, or not with this exe and cmdline.
ScanDone ==
    /\ pwPc = "scan" /\ pwTodo = {}
    /\ pwTodo' = {p \in Pids : pwCur[p][1] # NoText /\ pwCur[p] # pwPrev[p]}
    /\ pwPc' = "diff"
    /\ UNCHANGED <<procHost, pwPrev, pwCur, pwFails, pwBase, procEmit, pwSince, pwSincePrev>>

DiffEmit(p) ==
    /\ pwPc = "diff" /\ p \in pwTodo
    /\ pwTodo' = pwTodo \ {p}
    /\ pwPid' = p /\ pwBack' = "diff" /\ pwPc' = "exe"
    /\ UNCHANGED <<procHost, pwPrev, pwCur, pwFails, pwBase, pwExe, pwCmd, pwOut,
                   pwSince, pwSincePrev>>

\* Fault: what was scanned is not remembered.
DiffDoneForgets ==
    /\ pwPc = "diff" /\ pwTodo = {}
    /\ pwPc' = "tick"
    /\ UNCHANGED <<procHost, procScan, procEmit, pwSince, pwSincePrev>>

DiffDone ==
    /\ pwPc = "diff" /\ pwTodo = {}
    /\ pwPrev' = pwCur
    /\ pwPc' = "tick"
    /\ UNCHANGED <<procHost, pwCur, pwTodo, pwFails, pwBase, procEmit, pwSince, pwSincePrev>>

\* <-ctx.Done(), the Read of the socket, or the end.
ProcIdle == pwPc \in {"idle", "netlink", "stopped"} /\ UNCHANGED procVars

-----------------------------------------------------------------------------

ProcMonitor ==
    \/ ProcStart \/ EmitReadExe \/ EmitReadCmdline \/ EmitReadStatus
    \/ ScanList \/ ScanFirstDone \/ ScanDone \/ DiffDone
    \/ \E p \in Pids : ScanReadExe(p) \/ ScanReadCmdline(p) \/ DiffEmit(p)

ProcOthers ==
    \E p \in Pids :
        \/ \E exe \in Exes \cup {NoText}, cmdline \in Cmdlines \cup {NoText} :
               ProcExec(p, exe, cmdline) \/ ProcAlter(p, exe, cmdline)
        \/ ProcExit(p)

ProcNext == ProcOthers \/ ProcMonitor \/ NetlinkFail \/ ProcCancel \/ ProcIdle

ProcSpec == ProcInit /\ [][ProcNext]_procVars

\* The goroutine is scheduled, and the ticker fires.
ProcFairness == WF_procVars(ProcMonitor)

-----------------------------------------------------------------------------
(* Properties *)

\* A sweep gives events only for pids whose exe link, command line or
\* readability changed since the sweep before it began, as long as /proc could be
\* listed (process_linux.go:228-246).  Such a change need not be an exec.
ProcSweepsNews == (pwPc = "diff" /\ pwFails = 0) => pwTodo \subseteq pwSincePrev

\* While /proc is polled, a process whose exe link the monitor can read, and whose
\* texts stay as they are, is reported with them or was there at the first scan,
\* unless its pid had shown both texts before: then a scan that read the one early
\* and the other late has them too (process_linux.go:239).
ProcPolled ==
    \A p \in Pids, exe \in Exes, cmdline \in Cmdlines \cup {NoText} :
        (pwTier = "polling" /\ pwShow[p] = <<exe, cmdline>>)
        ~> \/ pwShow[p] # <<exe, cmdline>> \/ pwPc = "stopped"
           \/ <<p, exe, cmdline>> \in pwOut \cup pwBase \cup pwAgain
=============================================================================
