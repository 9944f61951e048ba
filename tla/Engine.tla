------------------------------- MODULE Engine -------------------------------
(***************************************************************************)
(* The engine run on one event of any that the monitors build, and on any  *)
(* series of failed logins before it.                                      *)
(***************************************************************************)
EXTENDS MonitorEvents

CONSTANTS
    Histories,  \* series of occurrences before the event, as Hit leaves them
    Instant     \* when the event was observed

ASSUME EngineAssumption ==
    /\ Instant \in Nat
    /\ \A h \in Histories : Len(h) \in Nat /\ DOMAIN h = 1..Len(h)

VARIABLES ev, times, out, done

engineVars == <<ev, times, out, done>>

EngineInit ==
    /\ \E e \in Observable : ev = [e EXCEPT !.time = Instant]
    /\ times \in Histories
    /\ times # <<>> => Counts(ev)
    /\ out = <<>> /\ done = FALSE

Run ==
    /\ ~done
    /\ out' = Evaluate(ev, times) /\ done' = TRUE
    /\ UNCHANGED <<ev, times>>

EngineSpec == EngineInit /\ [][Run]_engineVars

-----------------------------------------------------------------------------
(* Properties *)

Target == CASE ev.cat = "process" -> "process" [] ev.cat = "file" -> "path"
            [] OTHER -> "line"

Applicable == {Rules[i] : i \in {i \in DOMAIN Rules : Applies(Rules[i], ev, Target)}}
FileMatches == {FileRules[i] : i \in {i \in DOMAIN FileRules : FileRules[i].name \in ev.hits}}

\* Whatever order the rules come in, the loop over them ends with the most
\* severe match, the smallest ID deciding between equals, and a known bad file
\* name counts only where it says more than every rule.
BestRuleSound ==
    ev.cat \in {"process", "file", "auth"} =>
    LET best == BestRule(ev, Target) IN
    IF Applicable \cup FileMatches = {} THEN best = NoRule
    ELSE /\ best \in Applicable \cup FileMatches
         /\ \A r \in Applicable \cup FileMatches : r.sev <= best.sev
         /\ best \in Applicable =>
               \A r \in Applicable : r.sev = best.sev => best.rank <= r.rank
         /\ best \in FileMatches \ Applicable =>
               \A r \in Applicable : r.sev < best.sev

\* "The engine raises, never lowers": an event leaves the engine with the
\* highest of its baseline and of everything the engine holds against it.
SeverityIsMax ==
    done /\ ev.cat \in {"process", "file", "auth"} =>
    LET causes == {ev.sev} \cup {r.sev : r \in Applicable \cup FileMatches}
                  \cup (IF ev.cat = "process" /\ ev.root /\ ev.ww THEN {High} ELSE {})
        final == CHOOSE s \in causes : \A r \in causes : r <= s
    IN  final > Info => /\ out # <<>> /\ out[Len(out)].sev = final

\* An event the engine raised is deduplicated: it carries a key of its own.
RaisedHaveKeys ==
    \A i \in DOMAIN out : out[i].sev > ev.sev => out[i].key # NoKey

Severity(es) == IF es = <<>> THEN Info ELSE es[Len(es)].sev

\* "classifyNet escalates connect/bind events (from eBPF or the /proc poller)"
\* (detect.go:262): the poller's event of a connection comes to what the event
\* that eBPF has of it comes to.
PollerEscalated ==
    \A at \in Places, port \in Ports, root \in BOOLEAN :
        done /\ ev = [ProcNetSocket("connect", at, port, root) EXCEPT !.time = Instant] =>
        Severity(out) = Severity(Evaluate(TracedSocket("connect", at, port, root), <<>>))
=============================================================================
