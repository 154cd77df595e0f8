--------------------------- MODULE MCFileOutbox ---------------------------
(***************************************************************************)
(* The threads and targets of small instances of FileOutbox.               *)
(***************************************************************************)
EXTENDS FileOutbox, TLC

CONSTANTS u1, u2, u3, v1, v2, d1, d2, w1, w2, p1, p2, notice, profile, wakeSong, owner

\* u1 and u2 attach to a notice that d1 deletes, u3 is a generated recording,
\* v1 and v2 replace a profile image that d2 removes.
MCTargetOf ==
    [x \in Uploads \cup Deleters |->
        CASE x \in {u1, u2, d1} -> notice [] x = u3 -> wakeSong [] OTHER -> profile]

OneOwner == [u \in Uploads |-> owner]

\* The uploads of one target behave alike.
UploadSymmetry == Permutations({u1, u2}) \cup Permutations({v1, v2})

\* The second process runs the second worker; everything else runs in the first.
TwoProcesses == [h \in Threads |-> IF h = w2 THEN p2 ELSE p1]
=============================================================================
