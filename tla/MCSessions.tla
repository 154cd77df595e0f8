----------------------------- MODULE MCSessions -----------------------------
(***************************************************************************)
(* Small instances of Sessions: two administrators, a login with and one   *)
(* without "remember me", a hand-over, and the changes that end them.      *)
(***************************************************************************)
EXTENDS Sessions, TLC

CONSTANTS ann, ben, admin, teacher, student, edit, view, l1, l2, l3, q1, q2, k1, k2, k3,
          x1, x2, x3,
          r1, r2, d1, d2, g1, o1

MCInitialRoles == [u \in Users |-> IF u = ann THEN {admin, teacher} ELSE {admin}]
MCInitialGrants == [r \in Roles |-> IF r = admin THEN {view} ELSE IF r = teacher THEN {edit} ELSE {}]
MCGiven == [u \in Users |-> IF u = ben THEN {edit} ELSE {}]
MCWithheld == [u \in Users |-> IF u = ann THEN {view} ELSE {}]
MCUserOf == [c \in Logins \cup RoleChanges \cup Deactivations |-> IF c \in {l3, r2, d1, d2} THEN ben ELSE ann]
MCActorOf == [c \in RoleChanges \cup Deactivations |-> IF c = r1 THEN ben ELSE ann]
MCNewRoles == [c \in RoleChanges |-> IF c = r1 THEN {teacher} ELSE {admin, teacher}]
MCRoleOf == [c \in GrantChanges |-> teacher]
MCNewPermissions == [c \in GrantChanges |-> {}]
MCRequestOf == [k \in Continues |-> IF k = k3 THEN q2 ELSE q1]
MCCodeOf == [x \in Exchanges |-> IF x = x3 THEN k3 ELSE k1]

\* What happens together in one behaviour: a hand-over, a change and a logout;
\* a hand-over of a session that a shorter one follows; two sessions, a change
\* and a logout; a hand-over sent twice; the permissions of a role while a user
\* gets it; the two administrators; a hand-over of a session that was handed over;
\* an account deactivated twice.
Scenarios ==
    {{l1, k1, x1, r1, o1}, {l1, l2, k1, x1, r1}, {l1, l2, r1, o1},
     {l1, k1, k2, x1, x2, g1}, {l2, l3, r2, g1}, {l1, r1, r2, d1},
     {l1, k1, x1, k3, x3, r1}, {l3, d1, d2}}

MCSpec == (\E S \in Scenarios : InitWith(S)) /\ [][Next]_vars
=============================================================================
