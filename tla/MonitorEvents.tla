---------------------------- MODULE MonitorEvents ----------------------------
(***************************************************************************)
(* The events the monitors build, as the engine sees them.  What a regular *)
(* expression matches is free: hits ranges over every set of rules.        *)
(***************************************************************************)
EXTENDS Detect

CONSTANT Ports   \* ports of the sockets observed

RuleNames == {Rules[i].name : i \in DOMAIN Rules}
             \cup {FileRules[i].name : i \in DOMAIN FileRules}

Hits == SUBSET RuleNames

\* An event with no field set, of this category, title and severity.
Bare(cat, title, sev) ==
    [cat |-> cat, title |-> title, sev |-> sev, key |-> NoKey, time |-> 0,
     obj |-> title, src |-> "", port |-> 0, hits |-> {}, root |-> FALSE,
     ww |-> FALSE, action |-> "", dst |-> "invalid", fail |-> FALSE]

Degraded == Bare("elmer", "monitor degraded", Low)

-----------------------------------------------------------------------------
(* Processes *)

Exec(h, root, ww) ==
    [Bare("process", "exec", Info) EXCEPT !.hits = h, !.root = root, !.ww = ww]

\* emitExec, for the netlink connector and for polling.
ProcExecs == {Exec(h, root, ww) : h \in Hits, root \in BOOLEAN, ww \in BOOLEAN}

SetuidEscalation ==
    [Bare("process", "setuid", High) EXCEPT !.key = <<"setuid", "pid">>, !.root = TRUE]

\* Windows: 4688 says who, but in no uid field.
AuditedExecs == {Exec(h, FALSE, FALSE) : h \in Hits}

-----------------------------------------------------------------------------
(* Logins *)

AuthLine(title, sev, h) == [Bare("auth", title, sev) EXCEPT !.hits = h]

\* parseLine: an external address makes a login High.
AuthLines ==
    UNION {{ [AuthLine("fail", Medium, h) EXCEPT !.src = "ip", !.fail = TRUE],
             AuthLine("login", Info, h), AuthLine("login", High, h),
             AuthLine("sudo", Info, h), AuthLine("su", Medium, h),
             [AuthLine("user created", Critical, h) EXCEPT !.key = <<"newuser", "user">>] } :
           h \in Hits}

\* Windows: events have no message, so no rule ever matches one.
LogonEvents ==
    { Bare("auth", "logon", Info), Bare("auth", "logon", Low),
      Bare("auth", "logon failure", Medium),
      [Bare("auth", "logon failure", Medium) EXCEPT !.src = "ip", !.fail = TRUE],
      Bare("auth", "logoff", Info),
      [Bare("auth", "user created", Critical) EXCEPT !.key = <<"winuser", "user">>],
      Bare("auth", "user enabled", High), Bare("auth", "password reset", High),
      Bare("auth", "added to group", High), Bare("auth", "added to group", Critical),
      Bare("auth", "group changed", Medium),
      Bare("persistence", "service installed", Critical),
      Bare("persistence", "task created", High),
      Bare("persistence", "task updated", Medium),
      Bare("persistence", "start type changed", Medium) }

-----------------------------------------------------------------------------
(* Files *)

FileChange(op, h) ==
    [Bare("file", op, IF op \in {"create", "delete"} THEN Low ELSE Info) EXCEPT !.hits = h]

InotifyChanges ==
    {FileChange(op, h) : op \in {"create", "delete", "attrib", "modify"}, h \in Hits}

\* Windows.
DirectoryChanges ==
    {FileChange(op, h) : op \in {"create", "delete", "modify", "rename"}, h \in Hits}

InotifyOverflow == Bare("file", "overflow", High)

RunKeyEvents ==
    {[Bare("persistence", "run key", sev) EXCEPT !.key = <<"runkey", "key">>] :
        sev \in {Medium, High}}

-----------------------------------------------------------------------------
(* Sockets.  at is where the peer is (for a bind, the local address) and    *)
(* port is its port.                                                        *)

Socket(action, dst, port, root) ==
    [Bare("network", action, Info) EXCEPT
        !.action = action, !.dst = dst, !.port = port, !.root = root]

Places == {"internal", "external"}

\* ebpf.parse: what the system call was given.
TracedSocket(action, at, port, root) == Socket(action, at, port, root)

\* The four hex digits of a port, read by Atoi: 0 if one is not a digit.
HexAsDecimal(port) ==
    LET digit(k) == (port \div 16^k) % 16 IN
    IF \E k \in 0..3 : digit(k) > 9 THEN 0
    ELSE digit(0) + 10 * digit(1) + 100 * digit(2) + 1000 * digit(3)

\* Linux connEvent cuts up /proc/net's text, which is in hex: net.ParseIP finds
\* no address in it.  A listener's remote address is there too, all zeros.
ProcNetSocket(action, at, port, root) ==
    Socket(action, "invalid", IF action = "bind" THEN 0 ELSE HexAsDecimal(port), root)

\* Windows: the table has no uid.
TableSocket(action, at, port) == Socket(action, at, port, FALSE)

\* Windows: a listener that is gone, in an event whose action is not "bind".
ListenerClosed(at, port) == [TableSocket("connect", at, port) EXCEPT !.title = "listener closed"]

Sockets ==
    UNION {{ TracedSocket(action, at, port, root), ProcNetSocket(action, at, port, root),
             TableSocket(action, at, port), ListenerClosed(at, port) } :
           action \in {"connect", "bind"}, at \in Places, port \in Ports, root \in BOOLEAN}

Observable ==
    {Degraded, SetuidEscalation, InotifyOverflow} \cup ProcExecs \cup AuditedExecs
    \cup AuthLines \cup LogonEvents \cup InotifyChanges \cup DirectoryChanges
    \cup RunKeyEvents \cup Sockets
=============================================================================
