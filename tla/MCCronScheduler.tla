-------------------------- MODULE MCCronScheduler --------------------------
EXTENDS CronScheduler, TLC

CONSTANTS o1, o2, f1, f2, f3, d1, d2, j1, j2

\* Trigger 1 belongs to j1 and trigger 2 to j2, or both to j1.
OneJob == [t \in Triggers |-> j1]
TwoJobs == [t \in Triggers |-> IF t = 1 THEN j1 ELSE j2]

AllCron == [t \in Triggers |-> "cron"]
AllAt == [t \in Triggers |-> "at"]
CronAndAt == [t \in Triggers |-> IF t = 1 THEN "cron" ELSE "at"]

\* Occurrences and ends.  Staggered: two close ones and, for trigger 1, one
\* that the search from 2 does not reach.  Mixed: trigger 1's odd instants,
\* and a single one for trigger 2.  Brief: two, the end being out of reach
\* from the second.  Sparse: the last one is out of reach from the one before.
Staggered ==
    [t \in Triggers |-> IF t = 1 THEN {1, 2, MaxTime + 2} ELSE {1, 2}]
StaggeredEnd == [t \in Triggers |-> IF t = 1 THEN 2 * MaxTime ELSE 2]
Mixed ==
    [t \in Triggers |->
        IF t = 1 THEN {n \in 0..(MaxTime + 2) : n % 2 = 1} ELSE {1}]
Brief == [t \in Triggers |-> {1, 2}]
Sparse == [t \in Triggers |-> {1, 3, MaxTime + 3}]
Endless == [t \in Triggers |-> 3 * MaxTime + 10]
Four == [t \in Triggers |-> 4]

Skipping == [t \in Triggers |-> "skip"]
Firing == [t \in Triggers |-> "fire-now"]

SamePriority == [t \in Triggers |-> 0]

OneAttempt == [j \in Jobs |-> 1]
TwoAttempts == [j \in Jobs |-> 2]

Unlimited == [k \in Jobs \cup {"global"} |-> 0]
GlobalOne == [k \in Jobs \cup {"global"} |-> IF k = "global" THEN 1 ELSE 0]
GlobalTwoJobOne ==
    [k \in Jobs \cup {"global"} |-> IF k = "global" THEN 2 ELSE 1]

Symmetry == Permutations(Fibers) \cup Permutations(Drains)
=============================================================================
