------------------------------ MODULE MCMonitors ------------------------------
(***************************************************************************)
(* The monitors' own state machines, and the relay, in one instance.  They  *)
(* share nothing but the channel of events, which Pipeline models: so a     *)
(* behaviour is one of a single part, and part says of which.               *)
(***************************************************************************)
EXTENDS ExecTrace, AuthTail, FileWatch, ProcWatch, NetPoll, WinEvt, Relay

CONSTANT Parts  \* the parts to be explored

VARIABLE part

vars == <<part, traceVars, tailVars, fileVars, procVars, netVars, winVars, relayVars>>

\* execve, and a socket call with an address of each kind.
MCSystemCalls == {<<"exec", "none">>, <<"connect", "inet">>, <<"bind", "inet6">>}
MCPortBytes == {<<1, 187>>}

Sock(id, file, state, external, width) ==
    [id |-> id, file |-> file, state |-> state, external |-> external, width |-> width]
MCSocks == {Sock(1, "tcp6", "LISTEN", FALSE, 32), Sock(2, "tcp", "ESTABLISHED", TRUE, 8),
            Sock(3, "tcp6", "ESTABLISHED", TRUE, 32)}
MCSocks6 == {Sock(3, "tcp6", "ESTABLISHED", TRUE, 32)}

Conf(top, targets, exclude) == [top |-> top, targets |-> targets, exclude |-> exclude]
MCConfigs == {Conf(FALSE, {}, {}), Conf(FALSE, {<< <<"r">>, "f">>}, {}),
              Conf(TRUE, {}, {<<"r", "a">>}), Conf(TRUE, {<< <<>>, "f">>}, {})}

Init ==
    /\ part \in Parts
    /\ TraceInit /\ TailInit /\ FileInit /\ ProcInit /\ NetInit /\ WinInit /\ RelayInit
    \* buildMonitors tells both monitors the same of eBPF.
    /\ npEbpf <=> pwTier = "ebpf"
    /\ part # "files" => fwConf = CHOOSE conf \in Configs : TRUE
    /\ part \notin {"proc", "net"} => ~npEbpf /\ pwTier = CHOOSE t \in Tiers : t # "ebpf"

Next ==
    /\ UNCHANGED part
    /\ \/ /\ part = "trace" /\ TraceNext
          /\ UNCHANGED <<tailVars, fileVars, procVars, netVars, winVars, relayVars>>
       \/ /\ part = "tail" /\ TailNext
          /\ UNCHANGED <<traceVars, fileVars, procVars, netVars, winVars, relayVars>>
       \/ /\ part = "files" /\ FileNext
          /\ UNCHANGED <<traceVars, tailVars, procVars, netVars, winVars, relayVars>>
       \/ /\ part = "proc" /\ ProcNext
          /\ UNCHANGED <<traceVars, tailVars, fileVars, netVars, winVars, relayVars>>
       \/ /\ part = "net" /\ NetNext
          /\ UNCHANGED <<traceVars, tailVars, fileVars, procVars, winVars, relayVars>>
       \/ /\ part = "winevt" /\ WinNext
          /\ UNCHANGED <<traceVars, tailVars, fileVars, procVars, netVars, relayVars>>
       \/ /\ part = "relay" /\ RelayNext
          /\ UNCHANGED <<traceVars, tailVars, fileVars, procVars, netVars, winVars>>

\* The fairness of each part, for the part there is.
Fairness ==
    /\ \A c \in TraceCpus : WF_traceVars(part = "trace" /\ TraceProgram(c))
    /\ WF_traceVars(part = "trace" /\ TraceReader)
    /\ WF_tailVars(part = "tail" /\ TailLoop)
    /\ WF_procVars(part = "proc" /\ ProcMonitor)
    /\ WF_netVars(part = "net" /\ NetMonitor)
    /\ WF_winVars(part = "winevt" /\ WinLoop)
    /\ WF_relayVars(part = "relay" /\ RelayForwarder)
    /\ \A h \in Handlers : WF_relayVars(part = "relay" /\ RelayHandler(h))

Spec == Init /\ [][Next]_vars /\ Fairness
=============================================================================
