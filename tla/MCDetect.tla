------------------------------ MODULE MCDetect ------------------------------
(***************************************************************************)
(* The engine run on one event of every kind the monitors build, with every*)
(* set of rules its text may match.                                        *)
(***************************************************************************)
EXTENDS Engine

\* Three process rules of one severity out of ID order, a rule for any target,
\* a path rule, an auth-line rule: the shapes of rules.go and of the config.
MCRules ==
    << [name |-> "curl",  rank |-> 2, cat |-> "", target |-> "process", sev |-> High],
       [name |-> "bash",  rank |-> 1, cat |-> "", target |-> "process", sev |-> High],
       [name |-> "wget",  rank |-> 8, cat |-> "", target |-> "process", sev |-> High],
       [name |-> "chisel", rank |-> 3, cat |-> "", target |-> "any", sev |-> Critical],
       [name |-> "cron",  rank |-> 4, cat |-> "", target |-> "path", sev |-> Medium],
       [name |-> "pam",   rank |-> 5, cat |-> "auth", target |-> "line", sev |-> High] >>

MCFileRules ==
    << [name |-> "badfile-a", rank |-> 6, cat |-> "", target |-> "any", sev |-> High],
       [name |-> "badfile-b", rank |-> 7, cat |-> "", target |-> "any", sev |-> High] >>

MCLevels == << [count |-> 2, sev |-> Medium, title |-> "suspected"],
               [count |-> 3, sev |-> High, title |-> "in progress"] >>

MCHistories == {<<>>, <<5>>, <<4, 5>>, <<1, 4, 5>>}
=============================================================================
