----------------------------- MODULE MCPipeline -----------------------------
(* A pipeline with the auth monitor and the eBPF monitor. *)
EXTENDS Pipeline

MCLevels == << [count |-> 2, sev |-> Medium, title |-> "suspected"],
               [count |-> 3, sev |-> High, title |-> "in progress"] >>

Blank == [cat |-> "", sev |-> Info, title |-> "", key |-> NoKey, obj |-> "",
          src |-> "", port |-> 443, hits |-> {}, root |-> FALSE, ww |-> FALSE,
          action |-> "", dst |-> "invalid", fail |-> FALSE]

\* A failed login from the one source, which no rule matches.
FailedLogin == [Blank EXCEPT !.cat = "auth", !.sev = Medium, !.title = "fail",
                             !.obj = "line", !.src = "ip", !.fail = TRUE]

\* Connections to two destinations.
Connect(to) == [Blank EXCEPT !.cat = "network", !.title = "connect",
                             !.action = "connect", !.obj = to, !.dst = "external"]

MCEmits == [auth |-> {FailedLogin}, ebpf |-> {Connect("d1"), Connect("d2")}]
MCEmitsAuth == [auth |-> {FailedLogin}]
MCRules == <<>>

\* The instances are such that findings are exact.
ASSUME MCPipelineAssumption == DistinctLevels /\ SingleReporter /\ PlainEvents
=============================================================================
