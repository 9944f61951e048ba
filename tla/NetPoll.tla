------------------------------- MODULE NetPoll -------------------------------
(***************************************************************************)
(* NetMonitor on Linux: the four files of /proc/net, read one after another *)
(* every second, or every five behind eBPF, and compared with the sweep     *)
(* before.  Sockets open and close meanwhile.                               *)
(***************************************************************************)
EXTENDS Naturals, Sequences, Functions

CONSTANTS
    Socks,          \* records [id, file, state, external, width]: the file the
                    \* socket is in, LISTEN or ESTABLISHED, whether its peer is
                    \* external, the hex digits of the peer's address
    OpenAtStart,    \* sockets open when the monitor starts
    BehindEbpf,     \* values of ebpfActive
    MaxOpens,       \* bound: sockets opened
    MaxReadFails    \* bound: files of /proc/net that cannot be opened

NetFiles == <<"tcp", "tcp6", "udp", "udp6">>

ASSUME NetAssumption ==
    /\ \A s \in Socks : /\ \E n \in DOMAIN NetFiles : s.file = NetFiles[n]
                        /\ s.state \in {"LISTEN", "ESTABLISHED"}
                        /\ s.external \in BOOLEAN /\ s.width \in {8, 32}
    /\ OpenAtStart \subseteq Socks /\ BehindEbpf \subseteq BOOLEAN
    /\ MaxOpens \in Nat /\ MaxReadFails \in Nat

VARIABLES
    npEbpf,     \* ebpfActive
    npOpen,     \* sockets there are
    npOpens,    \* npOpens[s]: times s was opened since the monitor started
    npPc,       \* where Start is
    npFile,     \* the file to be read next
    npCur,      \* the snapshot being taken
    npPrev,     \* prevSet
    npPend,     \* sockets of this sweep, or of the baseline, still to be looked at
    npReports,  \* npReports[s]: events about s
    npFails     \* files that could not be opened

netHost == <<npEbpf, npOpen, npOpens>>
netVars == <<netHost, npPc, npFile, npCur, npPrev, npPend, npReports, npFails>>

NetInit ==
    /\ npEbpf \in BehindEbpf
    /\ npOpen = OpenAtStart /\ npOpens = [s \in Socks |-> 0]
    /\ npPc = "first" /\ npFile = 1 /\ npCur = {} /\ npPrev = {} /\ npPend = {}
    /\ npReports = [s \in Socks |-> 0] /\ npFails = 0

-----------------------------------------------------------------------------
(* The host *)

SockOpen(s) ==
    /\ s \notin npOpen /\ FoldFunction(+, 0, npOpens) < MaxOpens
    /\ npOpen' = npOpen \cup {s}
    /\ npOpens' = [npOpens EXCEPT ![s] = @ + 1]
    /\ UNCHANGED <<npEbpf, npPc, npFile, npCur, npPrev, npPend, npReports, npFails>>

SockClose(s) ==
    /\ s \in npOpen
    /\ npOpen' = npOpen \ {s}
    /\ UNCHANGED <<npEbpf, npOpens, npPc, npFile, npCur, npPrev, npPend, npReports, npFails>>

-----------------------------------------------------------------------------
(* Snapshots *)

\* parseProcNet: what the file has now, or nothing if it cannot be opened.
NetReadFile ==
    /\ npPc \in {"first", "sweep"} /\ npFile \in DOMAIN NetFiles
    /\ \/ npCur' = npCur \cup {s \in npOpen : s.file = NetFiles[npFile]} /\ UNCHANGED npFails
       \/ npFails < MaxReadFails /\ npFails' = npFails + 1 /\ UNCHANGED npCur
    /\ npFile' = npFile + 1
    /\ UNCHANGED <<netHost, npPc, npPrev, npPend, npReports>>

\* Fault: the first sweep has nothing to compare with.
NetFirstDoneForgets ==
    /\ npPc = "first" /\ npFile \notin DOMAIN NetFiles
    /\ npPend' = {s \in npCur : s.state = "ESTABLISHED"}
    /\ npPc' = "baseline"
    /\ UNCHANGED <<netHost, npFile, npCur, npPrev, npReports, npFails>>

\* The first snapshot: prev, and the baseline to report.
NetFirstDone ==
    /\ npPc = "first" /\ npFile \notin DOMAIN NetFiles
    /\ npPrev' = npCur
    /\ npPend' = {s \in npCur : s.state = "ESTABLISHED"}
    /\ npPc' = "baseline"
    /\ UNCHANGED <<netHost, npFile, npCur, npReports, npFails>>

-----------------------------------------------------------------------------
(* reportBaseline *)

\* ParseHexIPv6 and ParseHexIPv4 take pairs of digits from each of their groups
\* of eight: eight groups, and one.  A pair past the end of the text panics.
HexGroups(width) == IF width = 32 THEN 8 ELSE 1
Decodes(width) ==
    \A g \in 0..(HexGroups(width) - 1), i \in 0..3 : g * 8 + i * 2 + 2 <= width

\* An established connection there at startup is reported if its peer is
\* external; a peer's address that does not decode takes the process down.
NetBaseline(s) ==
    /\ npPc = "baseline" /\ s \in npPend
    /\ npPend' = npPend \ {s}
    /\ IF Decodes(s.width)
       THEN /\ npReports' = IF s.external THEN [npReports EXCEPT ![s] = @ + 1] ELSE npReports
            /\ UNCHANGED npPc
       ELSE npPc' = "panicked" /\ UNCHANGED npReports
    /\ UNCHANGED <<netHost, npFile, npCur, npPrev, npFails>>

-----------------------------------------------------------------------------
(* The loop *)

\* The ticker fires.
NetTick ==
    /\ \/ npPc = "baseline" /\ npPend = {}
       \/ npPc = "wait"
    /\ npPc' = "sweep" /\ npFile' = 1 /\ npCur' = {}
    /\ UNCHANGED <<netHost, npPrev, npPend, npReports, npFails>>

\* The sockets prevSet does not have.
NetSweepDone ==
    /\ npPc = "sweep" /\ npFile \notin DOMAIN NetFiles
    /\ npPend' = npCur \ npPrev
    /\ npPc' = "report"
    /\ UNCHANGED <<netHost, npFile, npCur, npPrev, npReports, npFails>>

\* Fault: behind eBPF nothing is reported.
NetReportNothing(s) ==
    /\ npPc = "report" /\ s \in npPend
    /\ npPend' = npPend \ {s}
    /\ npReports' = IF npEbpf THEN npReports ELSE [npReports EXCEPT ![s] = @ + 1]
    /\ UNCHANGED <<netHost, npPc, npFile, npCur, npPrev, npFails>>

\* reportNew: connections are left to eBPF when it is active.
NetReport(s) ==
    /\ npPc = "report" /\ s \in npPend
    /\ npPend' = npPend \ {s}
    /\ npReports' = IF s.state = "LISTEN" \/ ~npEbpf
                    THEN [npReports EXCEPT ![s] = @ + 1] ELSE npReports
    /\ UNCHANGED <<netHost, npPc, npFile, npCur, npPrev, npFails>>

NetSweepEnd ==
    /\ npPc = "report" /\ npPend = {}
    /\ npPrev' = npCur
    /\ npPc' = "wait" /\ npFile' = 1 /\ npCur' = {}
    /\ UNCHANGED <<netHost, npPend, npReports, npFails>>

\* The process is gone, and every other monitor with it.
NetPanicked == npPc = "panicked" /\ UNCHANGED netVars

-----------------------------------------------------------------------------

NetMonitor ==
    \/ NetReadFile \/ NetFirstDone \/ NetTick \/ NetSweepDone \/ NetSweepEnd
    \/ \E s \in Socks : NetBaseline(s) \/ NetReport(s)

NetNext == NetMonitor \/ NetPanicked \/ \E s \in Socks : SockOpen(s) \/ SockClose(s)

NetSpec == NetInit /\ [][NetNext]_netVars

\* The ticker fires and the goroutine is scheduled.
NetFairness == WF_netVars(NetMonitor)

-----------------------------------------------------------------------------
(* Properties *)

\* A socket that was opened is not reported more often than it was opened, and
\* one that was open at startup only as part of the baseline, as long as every
\* file could be read (net_linux.go:64-79, :168-170): the snapshot is not taken
\* at one moment, and sockets come and go while it is.
NetReportsNews ==
    npFails = 0 =>
        \A s \in Socks :
            npReports[s] <= npOpens[s] + (IF s \in OpenAtStart THEN 1 ELSE 0)

\* A socket that is opened, and stays open for as long as a sweep takes, is
\* reported: always if it listens, else if eBPF does not (net_linux.go:106-115);
\* unless the sweep before had it, from an earlier time it was open, or the
\* monitor is gone.
NetReported ==
    \A s \in Socks \ OpenAtStart :
        (npOpens[s] = 1 /\ s \in npOpen /\ s \notin npPrev \cup npCur /\ npPc # "first"
           /\ (s.state = "LISTEN" \/ ~npEbpf))
        ~> (npReports[s] > 0 \/ s \notin npOpen \/ npPc = "panicked")

\* "ParseHexIPv6 decodes the /proc/net/tcp6 form" (util.go:31): the monitor goes
\* on after the baseline, whatever connections there are when it starts.
NetSurvivesBaseline == npPc # "panicked"
=============================================================================
