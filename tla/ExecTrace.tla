------------------------------ MODULE ExecTrace ------------------------------
(***************************************************************************)
(* The eBPF programs on the entry of execve, execveat, connect and bind,    *)
(* the ring buffer they share, and the loader's goroutine that turns its    *)
(* records into events.  The programs run on several CPUs at once: records  *)
(* are reserved in one order, filled and submitted in another.              *)
(*                                                                          *)
(* The memory of the traced process belongs to its other threads too, so    *)
(* every probe reads what it reads: two probes of the same address need not *)
(* agree.  A record is a piece of the ring as it was left by an earlier     *)
(* one, Stale until written.  Fields copied whole (pid, uid, gid, comm, the *)
(* file name) are left out.                                                 *)
(***************************************************************************)
EXTENDS Naturals, Sequences

CONSTANTS
    TraceCpus,       \* CPUs the programs run on
    ArgvLen,         \* ARGV_LEN: bytes of argv a record has room for
    ArgChunk,        \* ARG_CHUNK: bytes one argument may take, NUL included
    MaxArgs,         \* MAX_ARGS
    SystemCalls,     \* system calls made: <<kind, family of the address>>
    RingRecords,     \* records the ring has room for
    ArgSizes,        \* lengths of arguments
    PortBytes,       \* ports as a socket address has them: <<high, low>>
    BigEndian,       \* which of the two objects is loaded
    MaxTraced        \* bound: system calls traced

ASSUME TraceAssumption ==
    /\ ArgvLen \in Nat /\ ArgChunk \in Nat \ {0} /\ ArgChunk <= ArgvLen
    /\ MaxArgs \in Nat /\ RingRecords \in Nat /\ MaxTraced \in Nat
    /\ ArgSizes \subseteq Nat
    /\ SystemCalls \subseteq {<<"exec", "none">>}
                              \cup ({"connect", "bind"} \X {"inet", "inet6", "other"})
    /\ PortBytes \subseteq (0..255) \X (0..255)
    /\ BigEndian \in BOOLEAN

VARIABLES
    trPc,       \* trPc[c]: what the program on CPU c does
    trPos,      \* trPos[c]: the record it fills
    trRing,     \* the records reserved so far, in that order
    trTaken,    \* how many of them the reader has taken
    trReader,   \* the goroutine in Run
    trOut,      \* what it has put on out
    trCalls     \* system calls so far

traceVars == <<trPc, trPos, trRing, trTaken, trReader, trOut, trCalls>>

\* Cells of a record: byte k of argument j is <<j, k>>.
Stale == <<0, 0>>
Nul == <<0, 1>>
Zero == <<0, 2>>

\* A record that has been reserved.  seen is history: what the probes read.
Reserved(kind, family) ==
    [kind |-> kind, ready |-> FALSE, off |-> 0, len |-> 0,
     argv |-> [k \in 1..ArgvLen |-> Stale], family |-> family, port |-> 0,
     addr |-> [w \in 1..4 |-> Stale], seen |-> <<>>]

TraceInit ==
    /\ trPc = [c \in TraceCpus |-> "user"] /\ trPos = [c \in TraceCpus |-> 0]
    /\ trRing = <<>> /\ trTaken = 0
    /\ trReader = "read" /\ trOut = <<>>
    /\ trCalls = 0

-----------------------------------------------------------------------------
(* The programs *)

\* Fault: the room is judged from where an argument would start.
ArgFitsStart(off) == off < ArgvLen

\* Is there room for one more argument, of any length?
ArgFits(off) == off <= ArgvLen - ArgChunk

\* bpf_probe_read_user_str: how many bytes it writes, the last one a NUL.
ProbeStr(size) == IF size + 1 <= ArgChunk THEN size + 1 ELSE ArgChunk

\* argv with n cells after off written: argument j, cut to n - 1 bytes.
Packed(argv, off, j, n) ==
    [k \in 1..ArgvLen |-> IF k > off /\ k < off + n THEN <<j, k - off>>
                          ELSE IF k = off + n THEN Nul ELSE argv[k]]

\* A probe that fails fills what it was to write with zeros.
Zeroed(argv, off) ==
    [k \in 1..ArgvLen |-> IF k > off /\ k <= off + ArgChunk THEN Nul ELSE argv[k]]

\* bpf_ntohs of the port, loaded from its two bytes in the machine's order.
Ntohs(bytes) ==
    LET load == IF BigEndian THEN 256 * bytes[1] + bytes[2] ELSE bytes[1] + 256 * bytes[2]
    IN  IF BigEndian THEN load ELSE (load % 256) * 256 + load \div 256

\* The start of do_exec or do_sock.  The family of a socket's address is read
\* first; a ring with no room is a NULL, and the system call goes unreported.
\* Once the reader has ended, so does the process, and the programs with it.
TraceEnter(c, kind, family) ==
    /\ trPc[c] = "user" /\ trCalls < MaxTraced /\ trReader # "ended"
    /\ trCalls' = trCalls + 1
    /\ IF family = "other" \/ Len(trRing) - trTaken >= RingRecords
       THEN UNCHANGED <<trPc, trPos, trRing>>
       ELSE /\ trRing' = Append(trRing, Reserved(kind, family))
            /\ trPos' = [trPos EXCEPT ![c] = Len(trRing) + 1]
            /\ trPc' = [trPc EXCEPT ![c] = IF kind = "exec" THEN "argv" ELSE "addr"]
    /\ UNCHANGED <<trTaken, trReader, trOut>>

\* Fault: the next argument starts at the NUL of this one.
TraceArgJoined(c, size) ==
    LET p == trPos[c]  r == trRing[p]  n == ProbeStr(size) IN
    /\ trPc[c] = "argv" /\ Len(r.seen) < MaxArgs /\ ArgFits(r.off)
    /\ trRing' = [trRing EXCEPT ![p].argv = Packed(r.argv, r.off, Len(r.seen) + 1, n),
                                ![p].off = r.off + n - 1,
                                ![p].seen = Append(r.seen, size)]
    /\ UNCHANGED <<trPc, trPos, trTaken, trReader, trOut, trCalls>>

\* One argument, of this size, packed behind the others.
TraceArg(c, size) ==
    LET p == trPos[c]  r == trRing[p]  n == ProbeStr(size) IN
    /\ trPc[c] = "argv" /\ Len(r.seen) < MaxArgs /\ ArgFits(r.off)
    /\ trRing' = [trRing EXCEPT ![p].argv = Packed(r.argv, r.off, Len(r.seen) + 1, n),
                                ![p].off = r.off + n,
                                ![p].seen = Append(r.seen, size)]
    /\ UNCHANGED <<trPc, trPos, trTaken, trReader, trOut, trCalls>>

\* An argument that cannot be read ends the loop.
TraceArgFault(c) ==
    LET p == trPos[c]  r == trRing[p] IN
    /\ trPc[c] = "argv" /\ Len(r.seen) < MaxArgs /\ ArgFits(r.off)
    /\ trRing' = [trRing EXCEPT ![p].argv = Zeroed(r.argv, r.off), ![p].len = r.off]
    /\ trPc' = [trPc EXCEPT ![c] = "submit"]
    /\ UNCHANGED <<trPos, trTaken, trReader, trOut, trCalls>>

\* argv[i] is NULL or cannot be read, or there are MAX_ARGS, or no more room.
TraceArgEnd(c) ==
    LET p == trPos[c] IN
    /\ trPc[c] = "argv"
    /\ trRing' = [trRing EXCEPT ![p].len = trRing[p].off]
    /\ trPc' = [trPc EXCEPT ![c] = "submit"]
    /\ UNCHANGED <<trPos, trTaken, trReader, trOut, trCalls>>

\* The address, read again as a whole: word w of it, or zeros if it is gone.
TraceAddr(c, bytes, there) ==
    LET p == trPos[c]
        word(w) == IF there THEN <<1, w>> ELSE Zero
        words == IF trRing[p].family = "inet" THEN 1 ELSE 4 IN
    /\ trPc[c] = "addr"
    /\ trRing' = [trRing EXCEPT
                    ![p].port = IF there THEN Ntohs(bytes) ELSE 0,
                    ![p].addr = [w \in 1..4 |-> IF w <= words THEN word(w) ELSE @[w]],
                    ![p].seen = IF there THEN <<bytes>> ELSE <<>>]
    /\ trPc' = [trPc EXCEPT ![c] = "submit"]
    /\ UNCHANGED <<trPos, trTaken, trReader, trOut, trCalls>>

\* bpf_ringbuf_submit: the reader may have the record.
TraceSubmit(c) ==
    /\ trPc[c] = "submit"
    /\ trRing' = [trRing EXCEPT ![trPos[c]].ready = TRUE]
    /\ trPc' = [trPc EXCEPT ![c] = "user"] /\ trPos' = [trPos EXCEPT ![c] = 0]
    /\ UNCHANGED <<trTaken, trReader, trOut, trCalls>>

-----------------------------------------------------------------------------
(* Runtime.Run *)

\* One turn of the loop in argvStrings: byte i ends the string begun at start.
SplitByte(s, b, i) ==
    IF b[i] = Nul THEN [out |-> Append(s.out, SubSeq(b, s.start, i - 1)), start |-> i + 1] ELSE s

\* argvStrings: the strings before each NUL, and what follows the last one.
ArgvStrings(b) ==
    LET split[i \in 0..Len(b)] ==
            IF i = 0 THEN [out |-> <<>>, start |-> 1] ELSE SplitByte(split[i - 1], b, i)
        last == split[Len(b)]
    IN  IF last.start > Len(b) THEN last.out ELSE Append(last.out, SubSeq(b, last.start, Len(b)))

\* Fault: a bind is not one of the records parse knows.
KnownConnectOnly(r) == r.kind \in {"exec", "connect"}

\* Does parse make an event of the record?  The kind is read as little-endian.
Known(r) == ~BigEndian /\ r.kind \in {"exec", "connect", "bind"}

\* parse.
Parsed(r) ==
    IF r.kind = "exec"
    THEN [kind |-> r.kind, args |-> ArgvStrings(SubSeq(r.argv, 1, r.len))]
    ELSE [kind |-> r.kind, port |-> r.port,
          ip |-> IF r.family = "inet" THEN SubSeq(r.addr, 1, 1) ELSE r.addr]

\* rd.Read returns the oldest record once it has been submitted.
TraceRead ==
    /\ trReader = "read"
    /\ trTaken < Len(trRing) /\ trRing[trTaken + 1].ready
    /\ trTaken' = trTaken + 1
    /\ trReader' = IF Known(trRing[trTaken']) THEN "send" ELSE "read"
    /\ UNCHANGED <<trPc, trPos, trRing, trOut, trCalls>>

\* out <- ev.
TraceSend ==
    /\ trReader = "send"
    /\ trOut' = Append(trOut, Parsed(trRing[trTaken]))
    /\ trReader' = "read"
    /\ UNCHANGED <<trPc, trPos, trRing, trTaken, trCalls>>

\* ctx is done: the reader is closed, whatever it still holds, and Run returns.
TraceStop ==
    /\ trReader # "ended" /\ trReader' = "ended"
    /\ UNCHANGED <<trPc, trPos, trRing, trTaken, trOut, trCalls>>

\* Nothing is traced and nobody is waited for: the host is idle.
TraceIdle == trReader = "ended" /\ UNCHANGED traceVars

-----------------------------------------------------------------------------

TraceProgram(c) ==
    \/ \E size \in ArgSizes : TraceArg(c, size)
    \/ TraceArgFault(c) \/ TraceArgEnd(c)
    \/ \E bytes \in PortBytes, there \in BOOLEAN : TraceAddr(c, bytes, there)
    \/ TraceSubmit(c)

TraceReader == TraceRead \/ TraceSend

TraceNext ==
    \/ \E c \in TraceCpus :
        \/ \E call \in SystemCalls : TraceEnter(c, call[1], call[2])
        \/ TraceProgram(c)
    \/ TraceReader \/ TraceStop \/ TraceIdle

TraceSpec == TraceInit /\ [][TraceNext]_traceVars

\* A program on its CPU ends, and the goroutine is scheduled.
TraceFairness == (\A c \in TraceCpus : WF_traceVars(TraceProgram(c))) /\ WF_traceVars(TraceReader)

-----------------------------------------------------------------------------
(* Properties *)

\* Control state, and every index the programs and parse use: an argument that
\* is begun fits, argv_len never passes the end of argv (parse slices by it),
\* and the record being filled has not been submitted.
TraceTypeOK ==
    /\ trPc \in [TraceCpus -> {"user", "argv", "addr", "submit"}]
    /\ trTaken \in 0..Len(trRing) /\ Len(trOut) <= trTaken
    /\ trReader \in {"read", "send", "ended"}
    /\ \A p \in 1..Len(trRing) : trRing[p].off <= ArgvLen /\ trRing[p].len <= ArgvLen
    /\ \A c \in TraceCpus : trPc[c] # "user" => trPos[c] \in 1..Len(trRing)
                                                /\ ~trRing[trPos[c]].ready

\* What the probes of a record read: each argument up to the size of a chunk,
\* or the address the system call was given.
Witnessed(r) ==
    IF r.kind = "exec"
    THEN [kind |-> r.kind,
          args |-> [j \in DOMAIN r.seen |->
                       [k \in 1..(ProbeStr(r.seen[j]) - 1) |-> <<j, k>>]]]
    ELSE [kind |-> r.kind,
          port |-> IF r.seen = <<>> THEN 0 ELSE 256 * r.seen[1][1] + r.seen[1][2],
          ip |-> [w \in 1..(IF r.family = "inet" THEN 1 ELSE 4) |->
                       IF r.seen = <<>> THEN Zero ELSE <<1, w>>]]

\* The events of the reader are the records in the order they were reserved,
\* none skipped, each with exactly what the program read (elmer.bpf.c:100-140,
\* loader.go:187): arguments neither joined nor split nor followed by what an
\* earlier record left in the ring, whatever the CPUs' interleaving.
TraceFaithful ==
    \A n \in 1..Len(trOut) : trOut[n] = Witnessed(trRing[n])

\* Every record that was reserved becomes an event (loader.go:101-110), unless
\* ctx is canceled: no program leaves a record unsubmitted for ever, which
\* would hold up all those reserved after it.
TraceDelivered ==
    (Len(trOut) < Len(trRing)) ~> (Len(trOut) = Len(trRing) \/ trReader = "ended")
=============================================================================
