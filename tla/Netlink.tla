------------------------------- MODULE Netlink -------------------------------
(***************************************************************************)
(* runNetlink beside the kernel's proc connector.  Bind takes a mask in     *)
(* which bit n-1 stands for group n; the connector sends its events to      *)
(* group CN_IDX_PROC.                                                       *)
(***************************************************************************)
EXTENDS ProcWatch

CONSTANT ExecCpus   \* CPUs, by number, on which processes exec

VARIABLES
    nlQueue,    \* datagrams in the socket: execs, [pid, cpu]
    nlHeard     \* history: pids that exec'd while the monitor was listening

netlinkVars == <<procVars, nlQueue, nlHeard>>

cnIdxProc == 1

\* The mask given to Bind, and the groups a mask stands for.
Groups == 2^cnIdxProc
InMask(group, mask) == (mask \div 2^(group - 1)) % 2 = 1

NetlinkInit == ProcInit /\ nlQueue = <<>> /\ nlHeard = {}

Listening == pwPc = "netlink" \/ (pwPc \in {"exe", "cmdline", "status"} /\ pwBack = "netlink")

\* The kernel tells the group of an exec.  Of forks and exits nothing is kept.
Broadcast(p, cpu) ==
    /\ nlQueue' = IF Listening /\ InMask(cnIdxProc, Groups)
                  THEN Append(nlQueue, [pid |-> p, cpu |-> cpu]) ELSE nlQueue
    /\ nlHeard' = IF Listening THEN nlHeard \cup {p} ELSE nlHeard

\* Where parseNetlink looks for the kind of an event, 16 + 24 bytes into the
\* datagram, the kernel, whose cn_msg has 20 bytes, has the CPU.  For a change
\* of uid (8) it finds the thread group where it looks for the uid, and 0 where it
\* looks for the new one; Title and fields apart, that is an event of the pid.
TakenForExec(datagram) == datagram.cpu = 4
TakenForUid(datagram) == datagram.cpu = 8

NetlinkRead ==
    /\ pwPc = "netlink" /\ nlQueue # <<>>
    /\ nlQueue' = Tail(nlQueue)
    /\ IF TakenForExec(Head(nlQueue))
       THEN pwPid' = Head(nlQueue).pid /\ pwBack' = "netlink" /\ pwPc' = "exe"
       ELSE UNCHANGED <<pwPid, pwBack, pwPc>>
    /\ pwOut' = IF TakenForUid(Head(nlQueue))
                THEN pwOut \cup {<<Head(nlQueue).pid, NoText, NoText>>} ELSE pwOut
    /\ UNCHANGED <<procHost, procScan, pwExe, pwCmd, pwSince, pwSincePrev, nlHeard>>

NetlinkMonitor == NetlinkRead \/ (ProcMonitor /\ UNCHANGED <<nlQueue, nlHeard>>)

NetlinkNext ==
    \/ \E p \in Pids, exe \in Exes, cmdline \in Cmdlines, cpu \in ExecCpus :
           ProcExec(p, exe, cmdline) /\ Broadcast(p, cpu)
    \/ \E p \in Pids : ProcExit(p) /\ UNCHANGED <<nlQueue, nlHeard>>
    \/ NetlinkMonitor
    \/ (NetlinkFail \/ ProcCancel) /\ nlQueue' = <<>> /\ UNCHANGED nlHeard
    \/ ProcIdle /\ UNCHANGED <<nlQueue, nlHeard>>

\* What is in the socket is read.
NetlinkSpec ==
    NetlinkInit /\ [][NetlinkNext]_netlinkVars /\ WF_netlinkVars(NetlinkMonitor)

-----------------------------------------------------------------------------
(* Properties *)

\* "Netlink proc connector (root): exec and setuid events" (README.md:47): what
\* execs while the monitor listens, and keeps running, is reported, unless the
\* monitor falls back to polling or is stopped.
ProcNetlinkExecs ==
    \A p \in Pids, exe \in Exes, cmdline \in Cmdlines :
        (p \in nlHeard /\ pwShow[p] = <<exe, cmdline>>)
        ~> \/ pwShow[p] # <<exe, cmdline>> \/ <<p, exe, cmdline>> \in pwOut
           \/ ~Listening
=============================================================================
