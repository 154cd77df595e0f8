---------------------------- MODULE MCWakeSongs ----------------------------
(***************************************************************************)
(* Small instances of WakeSongs: one request with its edits and            *)
(* conversions in two processes, or several requests of one student.       *)
(***************************************************************************)
EXTENDS WakeSongs, TLC

CONSTANTS r1, r2, r3, student, other, s1, s2, e1, e2, g1, g2, g3, p1, p2

\* r1 and r2 are requests of one student, r3 of another.
Requesters == [r \in Songs |-> IF r = r3 THEN other ELSE student]

AllAboutOne == [c \in Calls |-> r1]

\* g3 and e2 run in the second process.
TwoProcesses == [c \in Calls |-> IF c \in {g3, e2} THEN p2 ELSE p1]

\* The two conversions of the first process behave alike, and so do segments.
Symmetry == Permutations({g1, g2}) \cup Permutations({s1, s2})
=============================================================================
