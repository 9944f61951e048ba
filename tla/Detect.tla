------------------------------- MODULE Detect -------------------------------
(***************************************************************************)
(* The detection engine of internal/detect/detect.go as operators on       *)
(* events.  Regular expressions are abstracted to the set of rules an      *)
(* event's text matches; everything the engine decides from that is kept.  *)
(*                                                                         *)
(* An event is a record: cat, sev, title, key, time; obj (what the event   *)
(* is about: command line, path, address), port, hits (names of the        *)
(* matching rules), root (uid 0), ww (exe in a world-writable directory),  *)
(* action, dst (how dst_ip parses: internal, external or invalid) and fail *)
(* (a failed login with a source address, which is src).                   *)
(***************************************************************************)
EXTENDS Events

CONSTANTS
    Rules,      \* built-in and configured rules, in order: a sequence of
                \* [name, rank (order of the ID), cat, target, sev]
    FileRules,  \* known_bad_filenames, in order, of the same form
    SuspPorts,  \* suspicious_ports
    LogAll      \* log_all_process_events

\* A rule says what it is about (buildRule's callers see to that) and has one of
\* the five severities.
RulesFit(rules) ==
    /\ Len(rules) \in Nat /\ DOMAIN rules = 1..Len(rules)
    /\ \A i \in DOMAIN rules : /\ rules[i].target # "" /\ rules[i].rank \in Nat
                              /\ rules[i].sev \in 0..4

ASSUME DetectAssumption == RulesFit(Rules) /\ RulesFit(FileRules)

NoRule == [name |-> "", rank |-> 0, cat |-> "", target |-> "", sev |-> Info]

\* Rule r is about this kind of event and its pattern matches.
Applies(r, ev, target) ==
    /\ r.cat = "" \/ r.cat = ev.cat
    /\ r.target = "any" \/ r.target = target
    /\ r.name \in ev.hits

\* Fault: the last of the most severe rules wins.
OutranksLast(r, best) == best = NoRule \/ r.sev >= best.sev

\* applyRules' comparison in its loop over the rules ...
Outranks(r, best) ==
    \/ best = NoRule
    \/ r.sev > best.sev
    \/ r.sev = best.sev /\ r.rank < best.rank

\* ... and in its loop over the file rules.
FileOutranks(r, best) == best = NoRule \/ r.sev > best.sev

Take(best, r, ev, target) ==
    IF Applies(r, ev, target) /\ Outranks(r, best) THEN r ELSE best

TakeFile(best, r, ev) ==
    IF r.name \in ev.hits /\ FileOutranks(r, best) THEN r ELSE best

\* The first loop's result ...
BestOfRules(ev, target) ==
    LET best[n \in 0..Len(Rules)] ==
            IF n = 0 THEN NoRule ELSE Take(best[n - 1], Rules[n], ev, target)
    IN  best[Len(Rules)]

\* ... from which the second goes on.
BestRule(ev, target) ==
    LET best[n \in 0..Len(FileRules)] ==
            IF n = 0 THEN BestOfRules(ev, target)
            ELSE TakeFile(best[n - 1], FileRules[n], ev)
    IN  best[Len(FileRules)]

\* Fault: the matching rule's severity replaces the monitor's.
ApplyRulesAlways(ev, target) ==
    LET best == BestRule(ev, target) IN
    IF best = NoRule THEN ev
    ELSE [ev EXCEPT !.title = best.name, !.sev = best.sev,
                    !.key = IF @ = NoKey THEN <<best.name, ev.obj>> ELSE @]

\* Fault: an escalated event gets no identity of its own.
ApplyRulesUnkeyed(ev, target) ==
    LET best == BestRule(ev, target) IN
    IF best = NoRule \/ best.sev <= ev.sev THEN ev
    ELSE [ev EXCEPT !.title = best.name, !.sev = best.sev]

\* The best matching rule escalates the event; its key identifies the rule and
\* the text matched, unless the monitor set one.
ApplyRules(ev, target) ==
    LET best == BestRule(ev, target) IN
    IF best = NoRule \/ best.sev <= ev.sev THEN ev
    ELSE [ev EXCEPT !.title = best.name, !.sev = best.sev,
                    !.key = IF @ = NoKey THEN <<best.name, ev.obj>> ELSE @]

CheckWorldWritable(ev) ==
    IF ev.root /\ ev.ww /\ ev.sev < High
    THEN [ev EXCEPT !.title = "wwx", !.sev = High, !.key = <<"wwx", ev.obj>>]
    ELSE ev

\* ev as classifyNet's finding of this title and severity.
Finding(ev, title, sev, key) ==
    [ev EXCEPT !.title = title, !.sev = sev, !.key = key]

ClassifyNet(ev) ==
    IF ev.dst = "invalid" THEN ev
    ELSE IF ev.action = "connect" THEN
        IF ev.port \in SuspPorts THEN
            Finding(ev, "suspconn", Critical, <<"suspconn", ev.obj, ev.port>>)
        ELSE IF ev.dst = "external" /\ ev.root THEN
            Finding(ev, "extroot", High, <<"extconn", ev.obj>>)
        ELSE IF ev.dst = "external" THEN
            Finding(ev, "extuser", Medium, <<"extconn", ev.obj>>)
        ELSE ev
    ELSE IF ev.action = "bind" /\ ev.port \in SuspPorts THEN
        Finding(ev, "suspbind", High, <<"suspbind", ev.port>>)
    ELSE ev

\* The event as the engine leaves it.
Escalated(ev) ==
    CASE ev.cat = "process" -> CheckWorldWritable(ApplyRules(ev, "process"))
      [] ev.cat = "file"    -> ApplyRules(ev, "path")
      [] ev.cat = "auth"    -> ApplyRules(ev, "line")
      [] ev.cat = "network" -> ClassifyNet(ev)
      [] OTHER              -> ev

\* Which Info events still reach the dispatchers.
PassThrough(ev) == ev.cat = "process" => LogAll

\* correlateAuth counts this event.
Counts(ev) == ev.cat = "auth" /\ ev.fail

\* correlateAuth's finding when a level of the threshold is reached.
BruteForce(ev, level) ==
    [ev EXCEPT !.title = Levels[level].title, !.sev = Levels[level].sev,
               !.key = <<"bruteforce", ev.src>>, !.fail = FALSE]

\* Evaluate: the findings, then the event itself; times is the series of the
\* event's source before it, read only if the event counts.
Evaluate(ev, times) ==
    LET level == IF Counts(ev) THEN Reached(Len(Hit(times, ev.time))) ELSE 0
        out == Escalated(ev)
    IN  (IF level = 0 THEN <<>> ELSE <<BruteForce(ev, level)>>)
        \o (IF out.sev > Info \/ PassThrough(out) THEN <<out>> ELSE <<>>)
=============================================================================
