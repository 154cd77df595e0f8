---------------------------- MODULE MCFileScenes ----------------------------
(***************************************************************************)
(* FileOutbox with the requests of one scene at a time: a notice is        *)
(* deleted under two uploads; a profile image is replaced twice, or twice  *)
(* and then removed; three uploads of an account compete for a quota of    *)
(* two.                                                                    *)
(***************************************************************************)
EXTENDS MCFileOutbox

OfNotice == {u1, u2, d1}
OfImages == {v1, v2}
OfProfile == {v1, v2, d2}
OfQuota == {u1, v1, v2}

\* The other requests are over before they begin; leases overrun in the first
\* scene only, and nothing fails in the last two.
MCInit ==
    \E scene \in {OfNotice, OfImages, OfProfile, OfQuota} :
        /\ objects = {} /\ files = {} /\ doomed = {}
        /\ parent = [t \in Targets |-> "live"]
        /\ jobs = [k \in Uploads |-> NoJob]
        /\ lastId = [k \in Uploads |-> 0]
        /\ pc = [h \in Threads |-> IF h \in scene \cup Workers THEN "idle" ELSE "done"]
        /\ rows = [h \in Threads |-> {}]
        /\ batch = [h \in Threads |-> {}]
        /\ current = [h \in Threads |-> NoJob]
        /\ faults = IF scene \in {OfNotice, OfImages} THEN 0 ELSE MaxFaults
        /\ overruns = IF scene = OfNotice THEN 0 ELSE MaxOverruns

MCSpec == MCInit /\ [][Next]_vars
=============================================================================
