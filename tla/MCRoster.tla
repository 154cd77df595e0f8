------------------------------ MODULE MCRoster ------------------------------
(* A small school: two students in the first year, two ids to come.        *)
EXTENDS StudentRoster

CONSTANTS roll, shift, prep, fix, early, amend, later, rename, renumber, add

MCFirstNo == [s \in Enrollees |-> IF s <= 2 THEN s ELSE 0]

MCRow(n, prev, known) == [no |-> n, prev |-> prev, known |-> known, alike |-> {}]
MCAlike(n, students) == [no |-> n, prev |-> 0, known |-> 0, alike |-> students]

\* A rollover to a new number, with a newcomer under the old one; one to a number
\* whose holder leaves; next year's roster kept ready; this year's once more;
\* and next year's in two steps, a rollover to it that omits the newcomer, one past it.
MCFileOf ==
    [i \in Imports |->
        CASE i = roll  -> [year |-> 2, activates |-> TRUE,  rows |-> <<MCRow(3, 1, 0), MCRow(1, 0, 0)>>]
          [] i = shift -> [year |-> 2, activates |-> TRUE,  rows |-> <<MCRow(2, 1, 0)>>]
          [] i = prep  -> [year |-> 2, activates |-> FALSE, rows |-> <<MCRow(4, 2, 0)>>]
          [] i = early -> [year |-> 2, activates |-> FALSE, rows |-> <<MCRow(3, 0, 0)>>]
          [] i = amend -> [year |-> 2, activates |-> FALSE, rows |-> <<MCAlike(4, {3})>>]
          [] i = later -> [year |-> 3, activates |-> TRUE,  rows |-> <<MCRow(2, 1, 0)>>]
          [] OTHER     -> [year |-> 1, activates |-> FALSE, rows |-> <<MCRow(1, 0, 1), MCAlike(2, {2})>>]]

MCCorrectTo == [c \in Corrections |-> IF c = rename THEN [who |-> 1, no |-> 0] ELSE [who |-> 2, no |-> 4]]
MCAddNo == [a \in Additions |-> 4]

\* What happens together in one behaviour, besides codes, registrations, the end
\* of a standing and the daily job.
RosterScenarios ==
    {{roll, prep}, {roll, fix}, {prep, fix}, {roll, rename, add}, {shift, renumber},
     {fix, rename, add}, {early, amend, later, shift}}

RosterScenesSpec == (\E S \in RosterScenarios : RosterInitWith(S)) /\ [][RosterNext]_rosterVars
=============================================================================
