----------------------------- MODULE MCDailyRun -----------------------------
(* Three short days; either failed steps and a crash, or restarts and      *)
(* changes of the books, or a run so slow that it crosses midnight.        *)
EXTENDS DailyRun, TLC

CONSTANTS p1, p2

MCOrder == <<p1, p2>>
Broken == [faults |-> 1, crashes |-> 1, changes |-> 0, slow |-> 1]
Restarted == [faults |-> 0, crashes |-> 2, changes |-> 0, slow |-> 1]
Slow == [faults |-> 0, crashes |-> 0, changes |-> 2, slow |-> 2]
MCLimits == {Broken, Restarted, Slow}
=============================================================================
