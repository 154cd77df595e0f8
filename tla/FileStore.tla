----------------------------- MODULE FileStore -----------------------------
(***************************************************************************)
(* What the attachment service promises, without S3, the cleanup outbox,   *)
(* leases or failures: a file is attached to a parent row that exists, and *)
(* once its deletion was recorded it is on its way out for good.           *)
(*                                                                         *)
(* Deleting a parent (a notice, a draft post, a lost item) condemns all of *)
(* its files in the same instant; removing a profile image or an outdated  *)
(* recording condemns files of a parent that stays.                        *)
(***************************************************************************)
CONSTANTS
    Uploads,        \* the files, one per object key
    Targets,        \* the rows files are attached to
    TargetOf        \* the target of each file

VARIABLES
    parent,         \* parent[t]: does the row of target t still exist?
    status          \* status[u]: the life of file u

vars == <<parent, status>>

Status == {"absent", "live", "doomed", "gone"}

FilesOf(t) == {u \in Uploads : TargetOf[u] = t}

Init ==
    /\ parent = [t \in Targets |-> "live"]
    /\ status = [u \in Uploads |-> "absent"]

\* A file becomes visible only while the row it is attached to exists.
Attach(u) ==
    /\ parent[TargetOf[u]] = "live"
    /\ status[u] = "absent"
    /\ status' = [status EXCEPT ![u] = "live"]
    /\ UNCHANGED parent

\* The row disappears and takes every file attached to it along.
DeleteParent(t) ==
    /\ parent[t] = "live"
    /\ parent' = [parent EXCEPT ![t] = "gone"]
    /\ status' = [u \in Uploads |->
                    IF u \in FilesOf(t) /\ status[u] = "live"
                    THEN "doomed" ELSE status[u]]

\* One file is condemned while its parent stays.
Condemn(u) ==
    /\ status[u] = "live"
    /\ status' = [status EXCEPT ![u] = "doomed"]
    /\ UNCHANGED parent

\* A condemned file leaves storage and database.
Vanish(u) ==
    /\ status[u] = "doomed"
    /\ status' = [status EXCEPT ![u] = "gone"]
    /\ UNCHANGED parent

Next ==
    \/ \E t \in Targets : DeleteParent(t)
    \/ \E u \in Uploads : Attach(u) \/ Condemn(u) \/ Vanish(u)

Spec == Init /\ [][Next]_vars

\* Condemned files do not linger.
FairSpec == Spec /\ \A u \in Uploads : WF_vars(Vanish(u))

=============================================================================
