------------------------------- MODULE Events -------------------------------
(***************************************************************************)
(* internal/events: severities, the deduplication of alerts and the        *)
(* sliding-window threshold, as operators on the two maps the code keeps   *)
(* under their mutexes.  Times are natural numbers of ticks.               *)
(***************************************************************************)
EXTENDS Naturals, Sequences, FiniteSets

CONSTANTS
    Cooldown,  \* dedupe_cooldown
    MapCap,    \* keys Dedupe keeps before its crude prune (4096)
    Window,    \* brute_force_window
    Levels     \* the threshold's levels: a sequence of [count, sev, title]

ASSUME EventsAssumption ==
    /\ Cooldown \in Nat \ {0} /\ MapCap \in Nat \ {0} /\ Window \in Nat \ {0}
    /\ DOMAIN Levels \subseteq Nat \ {0}
    /\ \A i \in DOMAIN Levels : Levels[i].count \in Nat \ {0}

Info == 0
Low == 1
Medium == 2
High == 3
Critical == 4

\* An event's Key is a tuple of its parts; NoKey is the empty string.
NoKey == <<>>

-----------------------------------------------------------------------------
(* Dedupe.  last[k] is when an event of key k last went through. *)

\* Fault: an entry expires one tick early.
SuppressedEarly(last, key, now) ==
    /\ key # NoKey
    /\ key \in DOMAIN last
    /\ now - last[key] + 1 < Cooldown

\* Suppressed's answer for an event of this key.
Suppressed(last, key, now) ==
    /\ key # NoKey
    /\ key \in DOMAIN last
    /\ now - last[key] < Cooldown

\* Fault: the map is never pruned.
RememberAll(last, key, now) ==
    IF key = NoKey THEN last
    ELSE [k \in DOMAIN last \cup {key} |-> IF k = key THEN now ELSE last[k]]

\* Suppressed's effect on the map when its answer is false; the prune forgets
\* every key but this one.
Remember(last, key, now) ==
    LET more == [k \in DOMAIN last \cup {key} |->
                    IF k = key THEN now ELSE last[k]]
    IN  IF key = NoKey THEN last
        ELSE IF Cardinality(DOMAIN more) > MapCap
        THEN [k \in {key} |-> now]
        ELSE more

-----------------------------------------------------------------------------
(* Threshold.  times is the series of one key, oldest first. *)

\* Fault: occurrences exactly a window old are kept.
KeptInclusive(times, now) ==
    SelectSeq(times, LAMBDA t : t + Window >= now)

\* The occurrences still inside the window that ends now.
Kept(times, now) ==
    LET kept[n \in 0..Len(times)] ==
            IF n = 0 THEN <<>>
            ELSE IF times[n] + Window > now THEN Append(kept[n - 1], times[n])
            ELSE kept[n - 1]
    IN  kept[Len(times)]

\* The series after an occurrence now.
Hit(times, now) == Append(Kept(times, now), now)

\* The levels, as a set of indices, whose count is exactly this one.
LevelAt(count) == {i \in DOMAIN Levels : count = Levels[i].count}

\* Hit's result: the first such level, or 0.
Reached(count) ==
    IF LevelAt(count) = {} THEN 0
    ELSE CHOOSE i \in LevelAt(count) : \A j \in LevelAt(count) : i <= j
=============================================================================
