---------------------------- MODULE Engine_proofs ----------------------------
(***************************************************************************)
(* Proofs about the detection engine for any rules in any order, whatever  *)
(* they match, for every event a monitor builds and any series of failed   *)
(* logins.                                                                 *)
(***************************************************************************)
EXTENDS Engine, WellFoundedInduction, TLAPS

-----------------------------------------------------------------------------
(* Induction over a set: < on Nat is well-founded. *)

Below == {p \in Nat \X Nat : p[1] < p[2]}

LEMMA SetInduction ==
    ASSUME NEW S, 0 \in S, \A n \in Nat : n \in S => n + 1 \in S
    PROVE  Nat \subseteq S
<1> SUFFICES ASSUME Nat \ S # {} PROVE FALSE
  OBVIOUS
<1>1. Below = OpToRel(<, Nat)
  BY DEF Below, OpToRel
<1>2. IsWellFoundedOn(Below, Nat)
  BY <1>1, NatLessThanWellFounded
<1>3. Nat \ S \subseteq Nat /\ Nat \ S # {}
  OBVIOUS
<1>4. PICK n \in Nat \ S : \A m \in Nat \ S : ~(<<m, n>> \in Below)
  BY <1>2, <1>3, WFMin
<1>5. n # 0 /\ n - 1 \in Nat /\ n - 1 < n
  BY <1>4
<1>6. n - 1 \notin Nat \ S
  BY <1>4, <1>5 DEF Below
<1>7. (n - 1) + 1 \in S
  BY <1>5, <1>6
<1>8. QED
  BY <1>4, <1>7

-----------------------------------------------------------------------------
(* The two loops over the rules *)

\* A turn of the loop: the first is over the rules, the second over the files'.
LoopStep(second, f, e, target, n) ==
    IF second
    THEN IF n = 0 THEN BestOfRules(e, target) ELSE TakeFile(f[n - 1], FileRules[n], e)
    ELSE IF n = 0 THEN NoRule ELSE Take(f[n - 1], Rules[n], e, target)

\* A loop is defined: there is a function of the number of its turns.
LEMMA LoopExists ==
    ASSUME NEW second, NEW e, NEW target, NEW N \in Nat
    PROVE  \E f : f = [n \in 0..N |-> LoopStep(second, f, e, target, n)]
<1> DEFINE S == {N0 \in Nat : \E f : f = [n \in 0..N0 |-> LoopStep(second, f, e, target, n)]}
<1>1. 0 \in S
  <2> DEFINE f == [n \in 0..0 |-> IF second THEN BestOfRules(e, target) ELSE NoRule]
  <2>1. f = [n \in 0..0 |-> LoopStep(second, f, e, target, n)]
    BY DEF LoopStep
  <2>2. QED
    BY <2>1
<1>2. ASSUME NEW m \in Nat, m \in S
      PROVE  m + 1 \in S
  <2>1. PICK f : f = [n \in 0..m |-> LoopStep(second, f, e, target, n)]
    BY <1>2
  <2> DEFINE g == [n \in 0..(m + 1) |-> LoopStep(second, f, e, target, n)]
  <2>2. \A n \in 0..m : g[n] = f[n]
    BY <2>1
  <2>3. \A n \in 0..(m + 1) : n # 0 => n - 1 \in 0..m
    OBVIOUS
  <2>4. \A n \in 0..(m + 1) :
            LoopStep(second, f, e, target, n) = LoopStep(second, g, e, target, n)
    BY <2>2, <2>3 DEF LoopStep
  <2>5. g = [n \in 0..(m + 1) |-> LoopStep(second, g, e, target, n)]
    BY <2>4
  <2> HIDE DEF g
  <2>6. \E h : h = [n \in 0..(m + 1) |-> LoopStep(second, h, e, target, n)]
    BY <2>5
  <2>7. QED
    BY <2>6
<1>3. Nat \subseteq S
  BY <1>1, <1>2, SetInduction
<1>4. QED
  BY <1>3

LEMMA RulesLoop ==
    ASSUME NEW e, NEW target
    PROVE  \E f : /\ \A n \in 0..Len(Rules) : f[n] = LoopStep(FALSE, f, e, target, n)
                  /\ BestOfRules(e, target) = f[Len(Rules)]
<1> DEFINE f == CHOOSE f : f = [n \in 0..Len(Rules) |->
                    IF n = 0 THEN NoRule ELSE Take(f[n - 1], Rules[n], e, target)]
<1>1. Len(Rules) \in Nat
  BY DetectAssumption DEF RulesFit
<1>2. \E g : g = [n \in 0..Len(Rules) |->
                    IF n = 0 THEN NoRule ELSE Take(g[n - 1], Rules[n], e, target)]
  <2>1. PICK g : g = [n \in 0..Len(Rules) |-> LoopStep(FALSE, g, e, target, n)]
    BY <1>1, LoopExists
  <2>2. QED
    BY <2>1 DEF LoopStep
<1>3. f = [n \in 0..Len(Rules) |->
                    IF n = 0 THEN NoRule ELSE Take(f[n - 1], Rules[n], e, target)]
  BY <1>2
<1>4. BestOfRules(e, target) = f[Len(Rules)]
  BY DEF BestOfRules
<1> HIDE DEF f
<1>5. \A n \in 0..Len(Rules) : f[n] = LoopStep(FALSE, f, e, target, n)
  BY <1>3 DEF LoopStep
<1>6. QED
  BY <1>4, <1>5

LEMMA FilesLoop ==
    ASSUME NEW e, NEW target
    PROVE  \E f : /\ \A n \in 0..Len(FileRules) : f[n] = LoopStep(TRUE, f, e, target, n)
                  /\ BestRule(e, target) = f[Len(FileRules)]
<1> DEFINE f == CHOOSE f : f = [n \in 0..Len(FileRules) |->
                    IF n = 0 THEN BestOfRules(e, target)
                    ELSE TakeFile(f[n - 1], FileRules[n], e)]
<1>1. Len(FileRules) \in Nat
  BY DetectAssumption DEF RulesFit
<1>2. \E g : g = [n \in 0..Len(FileRules) |->
                    IF n = 0 THEN BestOfRules(e, target)
                    ELSE TakeFile(g[n - 1], FileRules[n], e)]
  <2>1. PICK g : g = [n \in 0..Len(FileRules) |-> LoopStep(TRUE, g, e, target, n)]
    BY <1>1, LoopExists
  <2>2. QED
    BY <2>1 DEF LoopStep
<1>3. f = [n \in 0..Len(FileRules) |->
                    IF n = 0 THEN BestOfRules(e, target)
                    ELSE TakeFile(f[n - 1], FileRules[n], e)]
  BY <1>2
<1>4. BestRule(e, target) = f[Len(FileRules)]
  BY DEF BestRule
<1> HIDE DEF f
<1>5. \A n \in 0..Len(FileRules) : f[n] = LoopStep(TRUE, f, e, target, n)
  BY <1>3 DEF LoopStep
<1>6. QED
  BY <1>4, <1>5

\* The first loop's invariant: b is the most severe of the first n rules that
\* apply, with the smallest ID among those.
BestSoFar(b, e, target, n) ==
    /\ b = NoRule \/ \E i \in 1..n : Applies(Rules[i], e, target) /\ b = Rules[i]
    /\ \A i \in 1..n : Applies(Rules[i], e, target) =>
           /\ b # NoRule
           /\ \/ Rules[i].sev < b.sev
              \/ Rules[i].sev = b.sev /\ b.rank <= Rules[i].rank

\* The second's: b is the first loop's result a, or a file rule that says more.
BestOfBoth(b, a, e, n) ==
    /\ \/ b = a
       \/ \E i \in 1..n : /\ FileRules[i].name \in e.hits /\ b = FileRules[i]
                          /\ a = NoRule \/ b.sev > a.sev
    /\ \A i \in 1..n : FileRules[i].name \in e.hits => b # NoRule /\ FileRules[i].sev <= b.sev

\* No rule is NoRule, and all have severities and ranks.
LEMMA RulesFacts ==
    /\ \A i \in 1..Len(Rules) : /\ Rules[i] # NoRule /\ Rules[i].sev \in Nat
                                /\ Rules[i].rank \in Nat /\ Rules[i].sev <= 4
    /\ \A i \in 1..Len(FileRules) : /\ FileRules[i] # NoRule /\ FileRules[i].sev \in Nat
                                    /\ FileRules[i].sev <= 4
    /\ Len(Rules) \in Nat /\ Len(FileRules) \in Nat
    /\ DOMAIN Rules = 1..Len(Rules) /\ DOMAIN FileRules = 1..Len(FileRules)
<1>1. NoRule.target = ""
  BY DEF NoRule
<1>2. /\ Len(Rules) \in Nat /\ Len(FileRules) \in Nat
      /\ DOMAIN Rules = 1..Len(Rules) /\ DOMAIN FileRules = 1..Len(FileRules)
      /\ \A i \in 1..Len(Rules) : /\ Rules[i].target # "" /\ Rules[i].rank \in Nat
                                  /\ Rules[i].sev \in 0..4
      /\ \A i \in 1..Len(FileRules) : FileRules[i].target # "" /\ FileRules[i].sev \in 0..4
  BY DetectAssumption DEF RulesFit
<1>3. \A k \in 0..4 : k \in Nat /\ k <= 4
  OBVIOUS
<1>4. QED
  BY <1>1, <1>2, <1>3

LEMMA FirstLoop ==
    ASSUME NEW e, NEW target
    PROVE  BestSoFar(BestOfRules(e, target), e, target, Len(Rules))
<1>1. PICK f : /\ \A n \in 0..Len(Rules) : f[n] = LoopStep(FALSE, f, e, target, n)
               /\ BestOfRules(e, target) = f[Len(Rules)]
  BY RulesLoop
<1> DEFINE S == {n \in Nat : n <= Len(Rules) => BestSoFar(f[n], e, target, n)}
<1>2. 0 \in S
  <2>1. f[0] = NoRule
    BY <1>1, RulesFacts DEF LoopStep
  <2>2. QED
    BY <2>1 DEF BestSoFar
<1>3. ASSUME NEW n \in Nat, n \in S
      PROVE  n + 1 \in S
  <2> SUFFICES ASSUME n + 1 <= Len(Rules)
               PROVE  BestSoFar(f[n + 1], e, target, n + 1)
    OBVIOUS
  <2> DEFINE b == f[n]
             r == Rules[n + 1]
  <2>1. BestSoFar(b, e, target, n) /\ n + 1 \in 1..Len(Rules) /\ n \in 0..Len(Rules)
    BY <1>3, RulesFacts
  <2>2. f[n + 1] = Take(b, r, e, target)
    <3>1. n + 1 \in 0..Len(Rules) /\ n + 1 # 0 /\ (n + 1) - 1 = n
      BY <2>1
    <3>2. QED
      BY <1>1, <3>1 DEF LoopStep
  <2>3. r # NoRule /\ r.sev \in Nat /\ r.rank \in Nat
    BY <2>1, RulesFacts
  <2>4. b # NoRule => b.sev \in Nat /\ b.rank \in Nat
    <3>1. \A i \in 1..n : Rules[i].sev \in Nat /\ Rules[i].rank \in Nat
      BY <2>1, RulesFacts
    <3>2. QED
      BY <2>1, <3>1 DEF BestSoFar
  <2>5. \A i \in 1..n : Rules[i].sev \in Nat /\ Rules[i].rank \in Nat
    BY <2>1, RulesFacts
  <2>6. \A i \in 1..(n + 1) : i \in 1..n \/ i = n + 1
    OBVIOUS
  <2>7. \A i \in 1..n : i \in 1..(n + 1)
    OBVIOUS
  <2>8. n + 1 \in 1..(n + 1)
    OBVIOUS
  <2> HIDE DEF b
  <2>9. CASE Applies(r, e, target) /\ Outranks(r, b)
    <3>1. f[n + 1] = r
      BY <2>2, <2>9 DEF Take
    <3>2. \E i \in 1..(n + 1) : Applies(Rules[i], e, target) /\ r = Rules[i]
      BY <2>8, <2>9
    <3>3. ASSUME NEW i \in 1..(n + 1), Applies(Rules[i], e, target)
          PROVE  \/ Rules[i].sev < r.sev
                 \/ Rules[i].sev = r.sev /\ r.rank <= Rules[i].rank
      <4>1. CASE i = n + 1
        BY <2>3, <4>1
      <4>2. CASE i \in 1..n
        <5>1. /\ b # NoRule /\ b.sev \in Nat /\ b.rank \in Nat
              /\ Rules[i].sev \in Nat /\ Rules[i].rank \in Nat
              /\ \/ Rules[i].sev < b.sev
                 \/ Rules[i].sev = b.sev /\ b.rank <= Rules[i].rank
          BY <2>1, <2>4, <2>5, <3>3, <4>2 DEF BestSoFar
        <5>2. r.sev > b.sev \/ (r.sev = b.sev /\ r.rank < b.rank)
          BY <2>9, <5>1 DEF Outranks
        <5>3. QED
          BY <2>3, <5>1, <5>2
      <4>3. QED
        BY <2>6, <4>1, <4>2
    <3>4. QED
      BY <2>3, <3>1, <3>2, <3>3 DEF BestSoFar
  <2>10. CASE ~(Applies(r, e, target) /\ Outranks(r, b))
    <3>1. f[n + 1] = b
      BY <2>2, <2>10 DEF Take
    <3>2. Applies(r, e, target) =>
              /\ b # NoRule
              /\ r.sev < b.sev \/ (r.sev = b.sev /\ b.rank <= r.rank)
      BY <2>3, <2>4, <2>10 DEF Outranks
    <3>3. QED
      BY <2>1, <2>6, <2>7, <3>1, <3>2 DEF BestSoFar
  <2>11. QED
    BY <2>9, <2>10
<1>4. Nat \subseteq S
  BY <1>2, <1>3, SetInduction
<1>5. QED
  BY <1>1, <1>4, RulesFacts

LEMMA SecondLoop ==
    ASSUME NEW e, NEW target
    PROVE  BestOfBoth(BestRule(e, target), BestOfRules(e, target), e, Len(FileRules))
<1> DEFINE a == BestOfRules(e, target)
<1>1. PICK f : /\ \A n \in 0..Len(FileRules) : f[n] = LoopStep(TRUE, f, e, target, n)
               /\ BestRule(e, target) = f[Len(FileRules)]
  BY FilesLoop
<1>2. a = NoRule \/ a.sev \in Nat
  BY FirstLoop, RulesFacts DEF BestSoFar
<1> DEFINE S == {n \in Nat : n <= Len(FileRules) => BestOfBoth(f[n], a, e, n)}
<1>3. 0 \in S
  <2>1. f[0] = a
    BY <1>1, RulesFacts DEF LoopStep
  <2>2. QED
    BY <2>1 DEF BestOfBoth
<1> HIDE DEF a
<1>4. ASSUME NEW n \in Nat, n \in S
      PROVE  n + 1 \in S
  <2> SUFFICES ASSUME n + 1 <= Len(FileRules)
               PROVE  BestOfBoth(f[n + 1], a, e, n + 1)
    OBVIOUS
  <2> DEFINE b == f[n]
             r == FileRules[n + 1]
  <2>1. BestOfBoth(b, a, e, n) /\ n + 1 \in 1..Len(FileRules) /\ n \in 0..Len(FileRules)
    BY <1>4, RulesFacts
  <2>2. f[n + 1] = TakeFile(b, r, e)
    <3>1. n + 1 \in 0..Len(FileRules) /\ n + 1 # 0 /\ (n + 1) - 1 = n
      BY <2>1
    <3>2. QED
      BY <1>1, <3>1 DEF LoopStep
  <2>3. r # NoRule /\ r.sev \in Nat /\ \A i \in 1..n : FileRules[i].sev \in Nat
    BY <2>1, RulesFacts
  <2>4. b # NoRule => b.sev \in Nat
    BY <1>2, <2>1, <2>3 DEF BestOfBoth
  <2>5. /\ \A i \in 1..(n + 1) : i \in 1..n \/ i = n + 1
        /\ \A i \in 1..n : i \in 1..(n + 1)
        /\ n + 1 \in 1..(n + 1)
    OBVIOUS
  <2> HIDE DEF b
  <2>6. CASE r.name \in e.hits /\ FileOutranks(r, b)
    <3>1. f[n + 1] = r
      BY <2>2, <2>6 DEF TakeFile
    <3>2. b = NoRule \/ r.sev > b.sev
      BY <2>6 DEF FileOutranks
    <3>3. a = NoRule \/ r.sev > a.sev
      <4>1. CASE b = NoRule
        <5>1. a = NoRule
          BY <2>1, <2>3, <4>1, RulesFacts DEF BestOfBoth
        <5>2. QED
          BY <5>1
      <4>2. CASE b # NoRule
        <5>1. b.sev \in Nat /\ r.sev > b.sev
          BY <2>4, <3>2, <4>2
        <5>2. a = NoRule \/ b = a \/ b.sev > a.sev
          BY <2>1 DEF BestOfBoth
        <5>3. QED
          BY <1>2, <2>3, <5>1, <5>2
      <4>3. QED
        BY <4>1, <4>2
    <3>4. ASSUME NEW i \in 1..(n + 1), FileRules[i].name \in e.hits
          PROVE  FileRules[i].sev <= r.sev
      <4>1. CASE i = n + 1
        BY <2>3, <4>1
      <4>2. CASE i \in 1..n
        <5>1. b # NoRule /\ FileRules[i].sev <= b.sev /\ FileRules[i].sev \in Nat
          BY <2>1, <2>3, <3>4, <4>2 DEF BestOfBoth
        <5>2. QED
          BY <2>3, <2>4, <3>2, <5>1
      <4>3. QED
        BY <2>5, <4>1, <4>2
    <3>5. QED
      BY <2>3, <2>5, <2>6, <3>1, <3>3, <3>4 DEF BestOfBoth
  <2>7. CASE ~(r.name \in e.hits /\ FileOutranks(r, b))
    <3>1. f[n + 1] = b
      BY <2>2, <2>7 DEF TakeFile
    <3>2. r.name \in e.hits => b # NoRule /\ r.sev <= b.sev
      BY <2>3, <2>4, <2>7 DEF FileOutranks
    <3>3. QED
      BY <2>1, <2>5, <3>1, <3>2 DEF BestOfBoth
  <2>8. QED
    BY <2>6, <2>7
<1>5. Nat \subseteq S
  BY <1>3, <1>4, SetInduction
<1>6. QED
  BY <1>1, <1>5, RulesFacts DEF a
-----------------------------------------------------------------------------
(* The events *)

Fields == {"cat", "title", "sev", "key", "time", "obj", "src", "port", "hits", "root",
           "ww", "action", "dst", "fail"}

\* An event has every field, and one of the severities.
Formed(e) == DOMAIN e = Fields /\ e.sev \in 0..4

\* A field set by EXCEPT.
LEMMA FormedExcept ==
    ASSUME NEW e, Formed(e), NEW x
    PROVE  /\ Formed([e EXCEPT !.hits = x]) /\ Formed([e EXCEPT !.root = x])
           /\ Formed([e EXCEPT !.ww = x]) /\ Formed([e EXCEPT !.key = x])
           /\ Formed([e EXCEPT !.src = x]) /\ Formed([e EXCEPT !.fail = x])
           /\ Formed([e EXCEPT !.action = x]) /\ Formed([e EXCEPT !.dst = x])
           /\ Formed([e EXCEPT !.port = x]) /\ Formed([e EXCEPT !.title = x])
           /\ Formed([e EXCEPT !.time = x])
BY DEF Formed, Fields

LEMMA BareFormed ==
    ASSUME NEW cat, NEW title, NEW sev \in 0..4
    PROVE  Formed(Bare(cat, title, sev))
BY DEF Bare, Formed, Fields

LEMMA SeveritiesAre ==
    /\ Info \in 0..4 /\ Low \in 0..4 /\ Medium \in 0..4 /\ High \in 0..4 /\ Critical \in 0..4
BY DEF Info, Low, Medium, High, Critical

LEMMA ProcessesFormed ==
    \A e \in {SetuidEscalation} \cup ProcExecs \cup AuditedExecs : Formed(e)
<1>1. ASSUME NEW h, NEW root, NEW ww
      PROVE  Formed(Exec(h, root, ww))
  <2>1. Formed(Bare("process", "exec", Info))
    BY BareFormed, SeveritiesAre
  <2>2. QED
    BY <2>1 DEF Exec, Formed, Fields
<1>2. Formed(SetuidEscalation)
  <2>1. Formed(Bare("process", "setuid", High))
    BY BareFormed, SeveritiesAre
  <2>2. QED
    BY <2>1 DEF SetuidEscalation, Formed, Fields
<1>3. ASSUME NEW e \in ProcExecs PROVE Formed(e)
  <2>1. PICK h \in Hits, root \in BOOLEAN, ww \in BOOLEAN : e = Exec(h, root, ww)
    BY DEF ProcExecs
  <2>2. QED
    BY <1>1, <2>1
<1>4. ASSUME NEW e \in AuditedExecs PROVE Formed(e)
  <2>1. PICK h \in Hits : e = Exec(h, FALSE, FALSE)
    BY DEF AuditedExecs
  <2>2. QED
    BY <1>1, <2>1
<1>5. QED
  BY <1>2, <1>3, <1>4

LEMMA LoginsFormed == \A e \in AuthLines \cup LogonEvents : Formed(e)
<1>1. ASSUME NEW title, NEW sev \in 0..4, NEW h
      PROVE  Formed(AuthLine(title, sev, h))
  BY BareFormed, FormedExcept DEF AuthLine
<1>2. ASSUME NEW h
      PROVE  /\ Formed([AuthLine("fail", Medium, h) EXCEPT !.src = "ip", !.fail = TRUE])
             /\ Formed([AuthLine("user created", Critical, h) EXCEPT !.key = <<"newuser", "user">>])
  <2>1. Formed(AuthLine("fail", Medium, h)) /\ Formed(AuthLine("user created", Critical, h))
    BY <1>1, SeveritiesAre
  <2>2. QED
    BY <2>1 DEF Formed, Fields
<1>3. \A e \in AuthLines : Formed(e)
  <2> SUFFICES ASSUME NEW e \in AuthLines PROVE Formed(e)
    OBVIOUS
  <2>1. PICK h \in Hits :
            \/ e = [AuthLine("fail", Medium, h) EXCEPT !.src = "ip", !.fail = TRUE]
            \/ e = AuthLine("login", Info, h) \/ e = AuthLine("login", High, h)
            \/ e = AuthLine("sudo", Info, h) \/ e = AuthLine("su", Medium, h)
            \/ e = [AuthLine("user created", Critical, h) EXCEPT !.key = <<"newuser", "user">>]
    BY DEF AuthLines
  <2>2. \A title : /\ Formed(AuthLine(title, Info, h)) /\ Formed(AuthLine(title, High, h))
                   /\ Formed(AuthLine(title, Medium, h))
    BY <1>1, SeveritiesAre
  <2>3. QED
    BY <1>2, <2>1, <2>2
<1>4. Formed([Bare("auth", "logon failure", Medium) EXCEPT !.src = "ip", !.fail = TRUE])
  <2>1. Formed(Bare("auth", "logon failure", Medium))
    BY BareFormed, SeveritiesAre
  <2>2. QED
    BY <2>1 DEF Formed, Fields
<1>5. Formed([Bare("auth", "user created", Critical) EXCEPT !.key = <<"winuser", "user">>])
  <2>1. Formed(Bare("auth", "user created", Critical))
    BY BareFormed, SeveritiesAre
  <2>2. QED
    BY <2>1 DEF Formed, Fields
<1>6. \A cat, title : /\ Formed(Bare(cat, title, Info)) /\ Formed(Bare(cat, title, Low))
                      /\ Formed(Bare(cat, title, Medium)) /\ Formed(Bare(cat, title, High))
                      /\ Formed(Bare(cat, title, Critical))
  BY BareFormed, SeveritiesAre
<1>7. \A e \in LogonEvents : Formed(e)
  BY <1>4, <1>5, <1>6 DEF LogonEvents
<1>8. QED
  BY <1>3, <1>7

LEMMA FilesFormed ==
    \A e \in {InotifyOverflow} \cup InotifyChanges \cup DirectoryChanges \cup RunKeyEvents :
        Formed(e)
<1>1. ASSUME NEW op, NEW h
      PROVE  Formed(FileChange(op, h))
  <2>1. (IF op \in {"create", "delete"} THEN Low ELSE Info) \in 0..4
    BY SeveritiesAre
  <2>2. QED
    BY <2>1, BareFormed, FormedExcept DEF FileChange
<1>2. Formed(InotifyOverflow)
  BY BareFormed, SeveritiesAre DEF InotifyOverflow
<1>3. ASSUME NEW sev \in {Medium, High}
      PROVE  Formed([Bare("persistence", "run key", sev) EXCEPT !.key = <<"runkey", "key">>])
  <2>1. Formed(Bare("persistence", "run key", sev))
    BY BareFormed, SeveritiesAre
  <2>2. QED
    BY <2>1 DEF Formed, Fields
<1>4. ASSUME NEW e \in InotifyChanges \cup DirectoryChanges PROVE Formed(e)
  <2>1. PICK op \in {"create", "delete", "attrib", "modify", "rename"}, h \in Hits :
            e = FileChange(op, h)
    BY DEF InotifyChanges, DirectoryChanges
  <2>2. QED
    BY <1>1, <2>1
<1>5. ASSUME NEW e \in RunKeyEvents PROVE Formed(e)
  <2>1. PICK sev \in {Medium, High} :
            e = [Bare("persistence", "run key", sev) EXCEPT !.key = <<"runkey", "key">>]
    BY DEF RunKeyEvents
  <2>2. QED
    BY <1>3, <2>1
<1>6. QED
  BY <1>2, <1>4, <1>5

LEMMA SocketsFormed == \A e \in Sockets : Formed(e)
<1>1. ASSUME NEW action, NEW dst, NEW port, NEW root
      PROVE  Formed(Socket(action, dst, port, root))
  <2>1. Formed(Bare("network", action, Info))
    BY BareFormed, SeveritiesAre
  <2>2. QED
    BY <2>1 DEF Socket, Formed, Fields
<1>2. ASSUME NEW action, NEW at, NEW port, NEW root
      PROVE  /\ Formed(TracedSocket(action, at, port, root))
             /\ Formed(ProcNetSocket(action, at, port, root))
             /\ Formed(TableSocket(action, at, port)) /\ Formed(ListenerClosed(at, port))
  BY <1>1, FormedExcept DEF TracedSocket, ProcNetSocket, TableSocket, ListenerClosed
<1>3. QED
  BY <1>2 DEF Sockets

LEMMA ObservableFormed == \A e \in Observable : Formed(e)
<1>1. Formed(Degraded)
  BY BareFormed, SeveritiesAre DEF Degraded
<1>2. QED
  BY <1>1, ProcessesFormed, LoginsFormed, FilesFormed, SocketsFormed DEF Observable
-----------------------------------------------------------------------------
(* What the engine makes of an event *)

\* The rules and the file rules that match an event.
Matching(e, target) == {Rules[i] : i \in {i \in DOMAIN Rules : Applies(Rules[i], e, target)}}
FilesMatching(e) ==
    {FileRules[i] : i \in {i \in DOMAIN FileRules : FileRules[i].name \in e.hits}}

LEMMA BestIsMax ==
    ASSUME NEW e, NEW target, NEW best, best = BestRule(e, target),
           NEW A, A = Matching(e, target), NEW F, F = FilesMatching(e)
    PROVE  /\ best = NoRule => A \cup F = {}
           /\ best # NoRule => best \in A \cup F
           /\ NoRule \notin A \cup F
           /\ \A r \in A \cup F : r.sev \in Nat /\ r.sev <= 4 /\ r.sev <= best.sev
           /\ best \in A => \A r \in A : r.sev = best.sev => best.rank <= r.rank
           /\ best \in F \ A => \A r \in A : r.sev < best.sev
<1> DEFINE a == BestOfRules(e, target)
<1>1. BestSoFar(a, e, target, Len(Rules))
  BY FirstLoop
<1>2. BestOfBoth(best, a, e, Len(FileRules))
  BY SecondLoop
<1> HIDE DEF a
<1>3. /\ \A r \in A : \E i \in 1..Len(Rules) : Applies(Rules[i], e, target) /\ r = Rules[i]
      /\ \A i \in 1..Len(Rules) : Applies(Rules[i], e, target) => Rules[i] \in A
      /\ \A r \in F : \E i \in 1..Len(FileRules) : FileRules[i].name \in e.hits /\ r = FileRules[i]
      /\ \A i \in 1..Len(FileRules) : FileRules[i].name \in e.hits => FileRules[i] \in F
  BY RulesFacts DEF Matching, FilesMatching
<1>4. /\ \A r \in A : r # NoRule /\ r.sev \in Nat /\ r.sev <= 4 /\ r.rank \in Nat
      /\ \A r \in F : r # NoRule /\ r.sev \in Nat /\ r.sev <= 4
  BY <1>3, RulesFacts
<1>5. /\ a = NoRule \/ a \in A
      /\ \A r \in A : /\ a # NoRule
                      /\ r.sev < a.sev \/ (r.sev = a.sev /\ a.rank <= r.rank)
  BY <1>1, <1>3 DEF BestSoFar
<1>6. /\ best = a \/ (best \in F /\ (a = NoRule \/ best.sev > a.sev))
      /\ \A r \in F : best # NoRule /\ r.sev <= best.sev
  BY <1>2, <1>3 DEF BestOfBoth
<1>7. CASE best = a
  <2>1. \A r \in A \cup F : r.sev <= best.sev
    BY <1>4, <1>5, <1>6, <1>7
  <2>2. best \in A => \A r \in A : r.sev = best.sev => best.rank <= r.rank
    BY <1>4, <1>5, <1>7
  <2>3. best \in F \ A => A = {}
    BY <1>4, <1>5, <1>7
  <2>4. QED
    BY <1>4, <1>5, <1>6, <1>7, <2>1, <2>2, <2>3
<1>8. CASE best # a
  <2>1. best \in F /\ best # NoRule /\ best.sev \in Nat
    BY <1>4, <1>6, <1>8
  <2>2. \A r \in A : r.sev < best.sev
    <3>1. ASSUME NEW r \in A PROVE r.sev < best.sev
      <4>1. a \in A /\ a # NoRule /\ a.sev \in Nat /\ r.sev \in Nat
        BY <1>4, <1>5
      <4>2. r.sev <= a.sev /\ a.sev < best.sev
        BY <1>4, <1>5, <1>6, <1>8, <4>1
      <4>3. QED
        BY <2>1, <4>1, <4>2
    <3>2. QED
      BY <3>1
  <2>3. best \notin A
    BY <2>1, <2>2
  <2>4. \A r \in A \cup F : r.sev <= best.sev
    BY <1>4, <1>6, <2>1, <2>2
  <2>5. QED
    BY <1>4, <2>1, <2>2, <2>3, <2>4
<1>9. QED
  BY <1>7, <1>8

\* No key of parts is the empty one.
LEMMA KeysOfParts ==
    \A x, y, z : <<x>> # NoKey /\ <<x, y>> # NoKey /\ <<x, y, z>> # NoKey
BY DEF NoKey

\* The best rule raises an event to its severity, and gives it a key.
LEMMA ApplyRulesRaises ==
    ASSUME NEW e, Formed(e), NEW target, NEW a, a = ApplyRules(e, target)
    PROVE  /\ Formed(a) /\ a.root = e.root /\ a.ww = e.ww
           /\ a.sev \in {e.sev} \cup {r.sev : r \in Matching(e, target) \cup FilesMatching(e)}
           /\ \A r \in Matching(e, target) \cup FilesMatching(e) : r.sev <= a.sev
           /\ e.sev <= a.sev
           /\ a.sev > e.sev => a.key # NoKey
<1> DEFINE best == BestRule(e, target)
           M == Matching(e, target) \cup FilesMatching(e)
<1>1. /\ best = NoRule => M = {}
      /\ best # NoRule => best \in M
      /\ \A r \in M : r.sev \in Nat /\ r.sev <= 4 /\ r.sev <= best.sev
  BY BestIsMax
<1>2. e.sev \in Nat /\ e.sev <= 4 /\ DOMAIN e = Fields
  BY DEF Formed
<1>3. a = IF best = NoRule \/ best.sev <= e.sev THEN e
          ELSE [e EXCEPT !.title = best.name, !.sev = best.sev,
                         !.key = IF @ = NoKey THEN <<best.name, e.obj>> ELSE @]
  BY DEF ApplyRules
<1> HIDE DEF best, M
<1>4. CASE best = NoRule \/ best.sev <= e.sev
  <2>1. a = e
    BY <1>3, <1>4
  <2>2. \A r \in M : r.sev <= e.sev
    BY <1>1, <1>2, <1>4
  <2>3. QED
    BY <1>2, <2>1, <2>2 DEF M
<1>5. CASE ~(best = NoRule \/ best.sev <= e.sev)
  <2>1. best \in M /\ best.sev \in Nat /\ best.sev <= 4 /\ best.sev > e.sev
    BY <1>1, <1>2, <1>5
  <2>2. /\ DOMAIN a = Fields /\ a.root = e.root /\ a.ww = e.ww /\ a.sev = best.sev
        /\ a.key = IF e.key = NoKey THEN <<best.name, e.obj>> ELSE e.key
    BY <1>2, <1>3, <1>5 DEF Fields
  <2>3. a.key # NoKey
    BY <2>2, KeysOfParts
  <2>4. a.sev \in 0..4
    BY <2>1, <2>2
  <2>5. QED
    BY <1>1, <1>2, <2>1, <2>2, <2>3, <2>4 DEF Formed, M
<1>6. QED
  BY <1>4, <1>5

LEMMA WorldWritableRaises ==
    ASSUME NEW e, Formed(e), NEW a, a = CheckWorldWritable(e)
    PROVE  /\ Formed(a) /\ e.sev <= a.sev
           /\ a.sev = IF e.root /\ e.ww /\ e.sev < High THEN High ELSE e.sev
           /\ a.sev > e.sev => a.key # NoKey
<1>1. e.sev \in Nat /\ e.sev <= 4 /\ DOMAIN e = Fields /\ High = 3
  BY DEF Formed, High
<1>2. CASE e.root /\ e.ww /\ e.sev < High
  <2>1. a = [e EXCEPT !.title = "wwx", !.sev = High, !.key = <<"wwx", e.obj>>]
    BY <1>2 DEF CheckWorldWritable
  <2>2. DOMAIN a = Fields /\ a.sev = High /\ a.key = <<"wwx", e.obj>>
    BY <1>1, <2>1 DEF Fields
  <2>3. a.key # NoKey
    BY <2>2, KeysOfParts
  <2>4. QED
    BY <1>1, <1>2, <2>2, <2>3 DEF Formed
<1>3. CASE ~(e.root /\ e.ww /\ e.sev < High)
  <2>1. a = e
    BY <1>3 DEF CheckWorldWritable
  <2>2. QED
    BY <1>1, <1>3, <2>1
<1>4. QED
  BY <1>2, <1>3

LEMMA ClassifyNetRaises ==
    ASSUME NEW e, Formed(e), NEW a, a = ClassifyNet(e)
    PROVE  Formed(a) /\ (a.sev > e.sev => a.key # NoKey)
<1>1. ASSUME NEW title, NEW sev \in 0..4, NEW key, key # NoKey
      PROVE  Formed(Finding(e, title, sev, key)) /\ Finding(e, title, sev, key).key # NoKey
  BY <1>1 DEF Finding, Formed, Fields
<1>2. e.sev \in Nat /\ ~(e.sev > e.sev)
  BY DEF Formed
<1>3. \/ a = e \/ a = Finding(e, "suspconn", Critical, <<"suspconn", e.obj, e.port>>)
      \/ a = Finding(e, "extroot", High, <<"extconn", e.obj>>)
      \/ a = Finding(e, "extuser", Medium, <<"extconn", e.obj>>)
      \/ a = Finding(e, "suspbind", High, <<"suspbind", e.port>>)
  BY DEF ClassifyNet
<1>4. /\ <<"suspconn", e.obj, e.port>> # NoKey /\ <<"extconn", e.obj>> # NoKey
      /\ <<"suspbind", e.port>> # NoKey
  BY KeysOfParts
<1>5. QED
  BY <1>1, <1>2, <1>3, <1>4, SeveritiesAre

LEMMA EscalatedRaises ==
    ASSUME NEW e, Formed(e), NEW a, a = Escalated(e)
    PROVE  Formed(a) /\ (a.sev > e.sev => a.key # NoKey)
<1>1. CASE e.cat = "process"
  <2> DEFINE b == ApplyRules(e, "process")
  <2>1. Formed(b) /\ e.sev <= b.sev /\ (b.sev > e.sev => b.key # NoKey)
    BY ApplyRulesRaises
  <2>2. a = CheckWorldWritable(b)
    BY <1>1 DEF Escalated
  <2> HIDE DEF b
  <2>3. /\ Formed(a) /\ b.sev <= a.sev
        /\ a.sev > b.sev => a.key # NoKey
    BY <2>1, <2>2, WorldWritableRaises
  <2>4. a.sev = b.sev => a.key # NoKey \/ ~(b.sev > e.sev)
    <3>1. ~(b.root /\ b.ww /\ b.sev < High) => a = b
      BY <2>2 DEF CheckWorldWritable
    <3>2. b.root /\ b.ww /\ b.sev < High => a.sev = High
      BY <2>1, <2>2, WorldWritableRaises
    <3>3. b.sev \in Nat /\ High \in Nat
      BY <2>1 DEF Formed, High
    <3>4. QED
      BY <2>1, <3>1, <3>2, <3>3
  <2>5. a.sev \in Nat /\ b.sev \in Nat /\ e.sev \in Nat
    BY <2>1, <2>3 DEF Formed
  <2>6. QED
    BY <2>3, <2>4, <2>5
<1>2. CASE e.cat = "file"
  BY <1>2, ApplyRulesRaises DEF Escalated
<1>3. CASE e.cat = "auth"
  BY <1>3, ApplyRulesRaises DEF Escalated
<1>4. CASE e.cat = "network"
  BY <1>4, ClassifyNetRaises DEF Escalated
<1>5. CASE e.cat \notin {"process", "file", "auth", "network"}
  <2>1. a = e
    BY <1>5 DEF Escalated
  <2>2. e.sev \in Nat /\ ~(e.sev > e.sev)
    BY DEF Formed
  <2>3. QED
    BY <2>1, <2>2
<1>6. QED
  BY <1>1, <1>2, <1>3, <1>4, <1>5
\* Evaluate gives at most a finding of correlateAuth and the event, in this order.
LEMMA EvaluateGives ==
    ASSUME NEW e, Formed(e), NEW series, NEW o, o = Evaluate(e, series)
    PROVE  /\ \A i \in DOMAIN o : o[i] = Escalated(e) \/ \E level : o[i] = BruteForce(e, level)
           /\ Escalated(e).sev > Info => o # <<>> /\ o[Len(o)] = Escalated(e)
<1> DEFINE level == IF Counts(e) THEN Reached(Len(Hit(series, e.time))) ELSE 0
           x == Escalated(e)
           b == BruteForce(e, level)
           A == IF level = 0 THEN <<>> ELSE <<b>>
           B == IF x.sev > Info \/ PassThrough(x) THEN <<x>> ELSE <<>>
           res == A \o B
<1>1. o = res
  BY DEF Evaluate
<1>2. \/ res = <<>> /\ ~(x.sev > Info)
      \/ res = <<x>>
      \/ res = <<b>> /\ ~(x.sev > Info)
      \/ res = <<b, x>>
  <2>1. A = <<>> \/ A = <<b>>
    OBVIOUS
  <2>2. (B = <<>> /\ ~(x.sev > Info)) \/ B = <<x>>
    OBVIOUS
  <2>3. <<>> \o <<>> = <<>> /\ <<>> \o <<x>> = <<x>> /\ <<b>> \o <<>> = <<b>>
    OBVIOUS
  <2>4. <<b>> \o <<x>> = <<b, x>>
    <3> DEFINE p == <<b>> \o <<x>>
    <3>1. <<b>> \in Seq({b, x}) /\ <<x>> \in Seq({b, x}) /\ Len(<<b>>) = 1 /\ Len(<<x>>) = 1
      OBVIOUS
    <3>2. p \in Seq({b, x}) /\ Len(p) = 2 /\ p[1] = b /\ p[2] = x
      BY <3>1
    <3> HIDE DEF p
    <3>3. p = <<b, x>>
      BY <3>2
    <3>4. QED
      BY <3>3 DEF p
  <2> HIDE DEF A, B
  <2>5. QED
    BY <2>1, <2>2, <2>3, <2>4
<1> HIDE DEF res
<1>3. b = BruteForce(e, level)
  OBVIOUS
<1> HIDE DEF level, b
<1>4. CASE res = <<>> /\ ~(x.sev > Info)
  BY <1>1, <1>4
<1>5. CASE res = <<x>>
  <2>1. DOMAIN o = {1} /\ o[1] = x /\ Len(o) = 1 /\ o # <<>>
    BY <1>1, <1>5
  <2>2. QED
    BY <2>1
<1>6. CASE res = <<b>> /\ ~(x.sev > Info)
  <2>1. DOMAIN o = {1} /\ o[1] = b
    BY <1>1, <1>6
  <2>2. QED
    BY <1>3, <1>6, <2>1
<1>7. CASE res = <<b, x>>
  <2>1. DOMAIN o = {1, 2} /\ o[1] = b /\ o[2] = x /\ Len(o) = 2 /\ o # <<>>
    BY <1>1, <1>7
  <2>2. QED
    BY <1>3, <2>1
<1>8. QED
  BY <1>2, <1>4, <1>5, <1>6, <1>7

-----------------------------------------------------------------------------
(* The theorems *)

EngineInv ==
    /\ Formed(ev)
    /\ out = <<>> \/ out = Evaluate(ev, times)
    /\ done => out = Evaluate(ev, times)

LEMMA EngineInvariant == EngineSpec => []EngineInv
<1>1. EngineInit => EngineInv
  <2> SUFFICES ASSUME EngineInit PROVE EngineInv
    OBVIOUS
  <2>1. PICK e \in Observable : ev = [e EXCEPT !.time = Instant]
    BY DEF EngineInit
  <2>2. Formed(ev)
    BY <2>1, ObservableFormed, FormedExcept
  <2>3. QED
    BY <2>2 DEF EngineInit, EngineInv
<1>2. EngineInv /\ [Run]_engineVars => EngineInv'
  BY DEF EngineInv, Run, engineVars
<1>3. QED
  BY <1>1, <1>2, PTL DEF EngineSpec

LEMMA SetsOfEvent == Applicable = Matching(ev, Target) /\ FileMatches = FilesMatching(ev)
BY DEF Applicable, FileMatches, Matching, FilesMatching

\* Whatever rules there are, in whatever order, and whichever of them match: the
\* two loops of applyRules end with the most severe match, the smallest ID
\* deciding between equals, and a file rule only where it says more than every
\* rule (detect/detect.go:175-200).
THEOREM EngineFindsBest == EngineSpec => []BestRuleSound
<1>1. BestRuleSound
  <2> DEFINE best == BestRule(ev, Target)
             A == Matching(ev, Target)
             F == FilesMatching(ev)
  <2>1. /\ best = NoRule => A \cup F = {}
        /\ best # NoRule => best \in A \cup F
        /\ NoRule \notin A \cup F
        /\ \A r \in A \cup F : r.sev \in Nat /\ r.sev <= 4 /\ r.sev <= best.sev
        /\ best \in A => \A r \in A : r.sev = best.sev => best.rank <= r.rank
        /\ best \in F \ A => \A r \in A : r.sev < best.sev
    BY BestIsMax
  <2> HIDE DEF best, A, F
  <2>2. IF A \cup F = {} THEN best = NoRule
        ELSE /\ best \in A \cup F
             /\ \A r \in A \cup F : r.sev <= best.sev
             /\ best \in A => \A r \in A : r.sev = best.sev => best.rank <= r.rank
             /\ best \in F \ A => \A r \in A : r.sev < best.sev
    BY <2>1
  <2>3. QED
    BY <2>2, SetsOfEvent DEF BestRuleSound, best, A, F
<1>2. QED
  BY <1>1, PTL

\* Of a set of numbers with a greatest, that is the one CHOOSE gives.
LEMMA GreatestChosen ==
    ASSUME NEW S, S \subseteq Nat, NEW m \in S, \A n \in S : n <= m
    PROVE  (CHOOSE s \in S : \A r \in S : r <= s) = m
<1> DEFINE c == CHOOSE s \in S : \A r \in S : r <= s
<1>1. c \in S /\ \A r \in S : r <= c
  OBVIOUS
<1> HIDE DEF c
<1>2. c \in Nat /\ m \in Nat /\ c <= m /\ m <= c
  BY <1>1
<1>3. c = m
  BY <1>2
<1>4. QED
  BY <1>3 DEF c

\* The engine raises and never lowers, whatever the rules: an event of a process,
\* a file or a login leaves it with the highest severity of its own, of the rules
\* that match, and of an execution by root from a directory all can write to
\* (detect/detect.go:143-165, :201-218, :220-238).
THEOREM EngineRaisesToMax == EngineSpec => []SeverityIsMax
<1>1. EngineInv => SeverityIsMax
  <2> SUFFICES ASSUME EngineInv, done, ev.cat \in {"process", "file", "auth"}
               PROVE  LET causes == {ev.sev} \cup {r.sev : r \in Applicable \cup FileMatches}
                              \cup (IF ev.cat = "process" /\ ev.root /\ ev.ww THEN {High} ELSE {})
                          final == CHOOSE s \in causes : \A r \in causes : r <= s
                      IN  final > Info => /\ out # <<>> /\ out[Len(out)].sev = final
    BY DEF SeverityIsMax
  <2> DEFINE M == Matching(ev, Target) \cup FilesMatching(ev)
             ww == ev.cat = "process" /\ ev.root /\ ev.ww
             causes == {ev.sev} \cup {r.sev : r \in M} \cup (IF ww THEN {High} ELSE {})
             a == ApplyRules(ev, Target)
             x == Escalated(ev)
  <2>1. Formed(ev) /\ ev.sev \in Nat /\ High \in Nat
    BY DEF EngineInv, Formed, High
  <2>2. \A r \in M : r.sev \in Nat
    BY BestIsMax
  <2>3. /\ Formed(a) /\ a.root = ev.root /\ a.ww = ev.ww
        /\ a.sev \in {ev.sev} \cup {r.sev : r \in M}
        /\ \A r \in M : r.sev <= a.sev
        /\ ev.sev <= a.sev
    BY <2>1, ApplyRulesRaises
  <2>4. /\ ev.cat = "process" => x = CheckWorldWritable(a)
        /\ ev.cat # "process" => x = a
    BY DEF Escalated, Target
  <2>5. a.sev \in Nat
    BY <2>3 DEF Formed
  <2>6. CheckWorldWritable(a).sev = IF a.root /\ a.ww /\ a.sev < High THEN High ELSE a.sev
    BY <2>3, WorldWritableRaises
  <2> HIDE DEF M, a, x
  <2>7. x.sev = IF ww /\ a.sev < High THEN High ELSE a.sev
    BY <2>3, <2>4, <2>6
  <2>8. causes \subseteq Nat
    BY <2>1, <2>2
  <2>9. x.sev \in causes
    BY <2>3, <2>7
  <2>10. \A n \in causes : n <= x.sev
    <3>1. a.sev <= x.sev /\ (ww => High <= x.sev) /\ x.sev \in Nat
      BY <2>1, <2>5, <2>7
    <3>2. ev.sev <= x.sev
      BY <2>1, <2>3, <2>5, <3>1
    <3>3. \A r \in M : r.sev <= x.sev
      BY <2>2, <2>3, <2>5, <3>1
    <3>4. QED
      BY <3>1, <3>2, <3>3
  <2> HIDE DEF causes
  <2>11. (CHOOSE s \in causes : \A r \in causes : r <= s) = x.sev
    BY <2>8, <2>9, <2>10, GreatestChosen
  <2>12. x.sev > Info => out # <<>> /\ out[Len(out)] = x
    BY <2>1, EvaluateGives DEF EngineInv, x
  <2>13. causes = {ev.sev} \cup {r.sev : r \in Applicable \cup FileMatches}
                  \cup (IF ev.cat = "process" /\ ev.root /\ ev.ww THEN {High} ELSE {})
    BY SetsOfEvent DEF causes, M
  <2>14. QED
    BY <2>11, <2>12, <2>13
<1>2. QED
  BY <1>1, EngineInvariant, PTL

\* Whatever the engine raised or found has a key, so that the deduplication sees
\* it: no path through applyRules, checkWorldWritable, classifyNet and
\* correlateAuth raises an event without one (detect/detect.go:212-214, :234,
\* :249-259, :284-306).
THEOREM EngineKeysRaised == EngineSpec => []RaisedHaveKeys
<1>1. EngineInv => RaisedHaveKeys
  <2> SUFFICES ASSUME EngineInv, NEW i \in DOMAIN out, out[i].sev > ev.sev
               PROVE  out[i].key # NoKey
    BY DEF RaisedHaveKeys
  <2>1. out = Evaluate(ev, times) /\ Formed(ev)
    BY DEF EngineInv
  <2>2. out[i] = Escalated(ev) \/ \E level : out[i] = BruteForce(ev, level)
    BY <2>1, EvaluateGives
  <2>3. CASE out[i] = Escalated(ev)
    BY <2>1, <2>3, EscalatedRaises
  <2>4. ASSUME NEW level, out[i] = BruteForce(ev, level)
        PROVE  out[i].key # NoKey
    <3>1. out[i].key = <<"bruteforce", ev.src>>
      BY <2>1, <2>4 DEF BruteForce, Formed, Fields
    <3>2. QED
      BY <3>1, KeysOfParts
  <2>5. QED
    BY <2>2, <2>3, <2>4
<1>2. QED
  BY <1>1, EngineInvariant, PTL
=============================================================================
