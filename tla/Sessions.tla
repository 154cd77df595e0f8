------------------------------ MODULE Sessions ------------------------------
(***************************************************************************)
(* The sessions of the portals and the grants they carry (auth.service.ts, *)
(* sso.service.ts, admin.service.ts, account-lifecycle.service.ts).        *)
(*                                                                         *)
(* A session is a copy: issueSession stores the roles and permissions its  *)
(* user has at that moment under iam_token:<token>, and no request reads   *)
(* the database again.  What keeps the copies right is that whoever        *)
(* changes a role, a permission of a role or the status of an account ends *)
(* the sessions of the users concerned, by way of an index,                *)
(* iam_user_sessions:<user>.  Token, index and database change in separate *)
(* steps, so logins, hand-overs between portals and changes interleave.    *)
(* An operation is a process of its own; a token is named after the call   *)
(* that issues it.                                                         *)
(***************************************************************************)
EXTENDS Naturals, FiniteSets

CONSTANTS
    Users, Roles, Permissions,
    SystemAdmin,    \* the role system_admin
    Student,        \* the role a session gets whose user has none
    AdminRoles,     \* the roles that open the administration portal
    AdminPermissions,   \* the permissions that open it, ADMIN_ACCESS_PERMISSIONS
    InitialRoles, InitialGrants,    \* the rows of user_roles and role_permissions to begin with
    Given, Withheld,    \* the rows of user_permissions
    LegacyAdmins,   \* the users of LEGACY_SYSTEM_ADMIN_STUIDS
    Logins,         \* calls of login, each of one user
    Persistent,     \* the logins with "remember me"
    Requests,       \* SSO requests, each for one portal
    ForAdmin,       \* those for the administration portal
    Continues,      \* calls of continue, each for one request
    Exchanges,      \* calls of exchange, each for the code of one continue
    RoleChanges,    \* calls of assignUserRoles
    Deactivations,  \* calls of updateUserStatus with another status than active
    GrantChanges,   \* calls of assignRolePermissions
    Logouts,        \* calls of logout, each of one user
    UserOf,         \* the user a login, a change or a logout is about
    ActorOf,        \* the administrator who makes a change
    NewRoles,       \* the roles a role change assigns
    RoleOf, NewPermissions,     \* what a grant change assigns, and to which role
    RequestOf, CodeOf,
    ShortTTL, LongTTL,          \* IAM_TOKEN_TTL_SECONDS, IAM_REMEMBER_TOKEN_TTL_SECONDS
    MaxTime, MaxCrashes,        \* bounds of a run
    None

Tokens == Logins \cup Exchanges
Changes == RoleChanges \cup Deactivations \cup GrantChanges
Calls == Tokens \cup Continues \cup Changes \cup Logouts

ASSUME SessionsAssumption ==
    /\ IsFiniteSet(Users) /\ Student \in Roles
    /\ InitialRoles \in [Users -> SUBSET Roles]
    /\ InitialGrants \in [Roles -> SUBSET Permissions]
    /\ Given \in [Users -> SUBSET Permissions]
    /\ \E u \in Users : SystemAdmin \in InitialRoles[u]
    /\ UserOf \in [Logins \cup RoleChanges \cup Deactivations -> Users]
    /\ NewRoles \in [RoleChanges -> SUBSET Roles]
    /\ NewPermissions \in [GrantChanges -> SUBSET Permissions]
    /\ RequestOf \in [Continues -> Requests]
    /\ CodeOf \in [Exchanges -> Continues]
    /\ ShortTTL \in Nat /\ LongTTL \in Nat
    /\ None \notin Tokens
    /\ Logins \cap Exchanges = {}
    /\ Tokens \cap (Continues \cup Changes \cup Logouts) = {}
    /\ Continues \cap (Changes \cup Logouts) = {}
    /\ Logouts \cap Changes = {}
    /\ GrantChanges \cap (RoleChanges \cup Deactivations) = {}
    /\ RoleChanges \cap Deactivations = {}

VARIABLES
    active,     \* the users whose status is active
    roles,      \* user_roles
    granted,    \* role_permissions
    session,    \* iam_token:*, None where there is no such key
    index,      \* iam_user_sessions:*, with the time the key expires, None for never
    requests,   \* the SSO requests in Redis
    codes,      \* the SSO codes in Redis, with the token of the central session
    now,
    pc, seen,   \* where each call is, and what it has read
    overtaken,  \* history: tokens an ending of sessions could not see, copies of such,
                \* and copies made while an ending was under way
    dropped,    \* history: tokens whose entry in the index was deleted unseen
    lapsed,     \* history: tokens that outlived the index that listed them
    outdated,   \* history: an administrator was removed on an outdated count
    crashes

database == <<active, roles, granted>>
redis == <<session, index, requests, codes>>
ghosts == <<overtaken, dropped, lapsed, outdated>>
history == <<ghosts, crashes>>
vars == <<active, roles, granted, session, index, requests, codes, now, pc, seen,
          overtaken, dropped, lapsed, outdated, crashes>>

NoEntry == [tokens |-> {}, expires |-> 0]

\* getGrantsForUser. The rows of user_permissions go when the account does.
GrantsOf(u) ==
    LET named == roles[u] \cup (IF u \in LegacyAdmins THEN {SystemAdmin} ELSE {})
        usual == UNION {granted[r] : r \in roles[u]}
    IN  [roles |-> IF named = {} THEN {Student} ELSE named,
         permissions |-> IF u \in active THEN (usual \cup Given[u]) \ Withheld[u] ELSE usual]

\* What a call keeps between its steps.
Nothing == [user |-> None, roles |-> None, permissions |-> None, ttl |-> 0,
            token |-> None, users |-> {}, tokens |-> {}]

\* Only the calls of S are made; the others are refused at the door (no session,
\* no permission, a rate limit).
InitWith(S) ==
    /\ active = Users
    /\ roles = InitialRoles
    /\ granted = InitialGrants
    /\ session = [t \in Tokens |-> None]
    /\ index = [u \in Users |-> NoEntry]
    /\ requests = Requests
    /\ codes = [k \in Continues |-> None]
    /\ now = 0
    /\ pc = [c \in Calls |-> IF c \in S THEN "idle" ELSE "refused"]
    /\ seen = [c \in Calls |-> Nothing]
    /\ overtaken = {} /\ dropped = {} /\ lapsed = {} /\ outdated = FALSE /\ crashes = 0

Init == InitWith(Calls)

Goto(c, from, to) == pc[c] = from /\ pc' = [pc EXCEPT ![c] = to]

\* The call is over; what it read is forgotten.
Finish(c, from) == Goto(c, from, "done") /\ seen' = [seen EXCEPT ![c] = Nothing]

-----------------------------------------------------------------------------
(***************************************************************************)
(* login: find the account, read roles and permissions with queries of     *)
(* their own, store the session, enter it into the index.                  *)
(***************************************************************************)
FindAccount(l) ==
    /\ Goto(l, "idle", "reading")
    /\ UserOf[l] \in active
    /\ seen' = [seen EXCEPT ![l].user = UserOf[l],
                            ![l].ttl = IF l \in Persistent THEN LongTTL ELSE ShortTTL]
    /\ UNCHANGED <<database, redis, now, history>>

\* The queries run side by side: each may see another state of the database.
ReadRoles(l) ==
    /\ l \in Logins /\ pc[l] = "reading" /\ seen[l].roles = None
    /\ seen' = [seen EXCEPT ![l].roles = GrantsOf(UserOf[l]).roles]
    /\ UNCHANGED <<database, redis, now, pc, history>>

ReadPermissions(l) ==
    /\ l \in Logins /\ pc[l] = "reading" /\ seen[l].permissions = None
    /\ seen' = [seen EXCEPT ![l].permissions = GrantsOf(UserOf[l]).permissions]
    /\ UNCHANGED <<database, redis, now, pc, history>>

Stored(t) ==
    [user |-> seen[t].user, roles |-> seen[t].roles, permissions |-> seen[t].permissions,
     ttl |-> seen[t].ttl, expires |-> now + seen[t].ttl]

StoreSession(l) ==
    /\ l \in Logins /\ seen[l].roles # None /\ seen[l].permissions # None
    /\ Goto(l, "reading", "indexing")
    /\ session' = [session EXCEPT ![l] = Stored(l)]
    /\ UNCHANGED <<database, index, requests, codes, now, seen, history>>

\* sAdd: a new key has no time to expire yet.
IndexSession(t) ==
    /\ t \in Tokens /\ Goto(t, "indexing", "expiring")
    /\ index' = [index EXCEPT ![seen[t].user] =
                    [tokens |-> @.tokens \cup {t}, expires |-> IF @.tokens = {} THEN None ELSE @.expires]]
    /\ UNCHANGED <<database, session, requests, codes, now, seen, history>>

\* expire: the key, if it is still there, now lives as long as its newest session.
ExpireIndex(t) ==
    /\ t \in Tokens /\ Finish(t, "expiring")
    /\ index' = [index EXCEPT ![seen[t].user].expires =
                    IF index[seen[t].user].tokens = {} THEN @ ELSE now + seen[t].ttl]
    /\ UNCHANGED <<database, session, requests, codes, now, history>>

\* The index lists the session, whether or not its user has the token already.
Entered(t) == pc[t] \in {"expiring", "done"}

-----------------------------------------------------------------------------
(***************************************************************************)
(* The hand-over to another portal: continue trades a request for a code,  *)
(* exchange trades the code for a copy of the central session.             *)
(***************************************************************************)
CanAccessAdmin(s) ==
    s.roles \cap AdminRoles # {} \/ s.permissions \cap AdminPermissions # {}

Admits(r, t) == session[t] # None /\ (r \in ForAdmin => CanAccessAdmin(session[t]))

\* The tokens being issued to a user, as an ending of sessions cannot see them.
Issuing(u) == {t \in Tokens : ~Entered(t) /\ seen[t].user = u}

\* Between the listing of a user's tokens and the deletion of the index.
InTheAct(u) == \E c \in Changes \cup Logouts : pc[c] \in {"listed", "deleted"} /\ seen[c].user = u

\* Any session will do as the central one, a delegated one as well.
ReadRequest(k, t) ==
    /\ Goto(k, "idle", "taking")
    /\ pc[t] = "done" /\ RequestOf[k] \in requests /\ Admits(RequestOf[k], t)
    /\ seen' = [seen EXCEPT ![k].token = t]
    /\ UNCHANGED <<database, redis, now, history>>

\* takeIfValue: of several callers who read the request one takes it.
TakeRequest(k) ==
    /\ k \in Continues
    /\ Goto(k, "taking", IF RequestOf[k] \in requests THEN "storing" ELSE "refused")
    /\ requests' = requests \ {RequestOf[k]}
    /\ UNCHANGED <<database, session, index, codes, now, seen, history>>

StoreCode(k) ==
    /\ k \in Continues
    /\ Finish(k, "storing")
    /\ codes' = [codes EXCEPT ![k] = seen[k].token]
    /\ UNCHANGED <<database, session, index, requests, now, history>>

ReadCode(x) ==
    /\ Goto(x, "idle", "coded")
    /\ codes[CodeOf[x]] # None
    /\ seen' = [seen EXCEPT ![x].token = codes[CodeOf[x]]]
    /\ UNCHANGED <<database, redis, now, history>>

\* The grants are those of the central session, not those of the database.
ReadCentralSession(x) ==
    LET s == session[seen[x].token] IN
    /\ Goto(x, "coded", "taking")
    /\ Admits(RequestOf[CodeOf[x]], seen[x].token)
    /\ seen' = [seen EXCEPT ![x].user = s.user, ![x].roles = s.roles,
                            ![x].permissions = s.permissions, ![x].ttl = s.ttl]
    /\ overtaken' = IF seen[x].token \in overtaken \cup dropped \cup lapsed \/ InTheAct(s.user)
                    THEN overtaken \cup {x} ELSE overtaken
    /\ UNCHANGED <<database, redis, now, dropped, lapsed, outdated, crashes>>

\* Slip: the result of takeIfValue is not looked at.
MutantTakeCode(x) ==
    /\ x \in Exchanges /\ Goto(x, "taking", "storing")
    /\ codes' = [codes EXCEPT ![CodeOf[x]] = None]
    /\ UNCHANGED <<database, session, index, requests, now, seen, history>>

TakeCode(x) ==
    /\ x \in Exchanges
    /\ Goto(x, "taking", IF codes[CodeOf[x]] # None THEN "storing" ELSE "refused")
    /\ codes' = [codes EXCEPT ![CodeOf[x]] = None]
    /\ UNCHANGED <<database, session, index, requests, now, seen, history>>

\* Slip: the delegated session is not entered into the index.
MutantStoreDelegatedSession(x) ==
    /\ x \in Exchanges
    /\ Finish(x, "storing")
    /\ session' = [session EXCEPT ![x] = Stored(x)]
    /\ UNCHANGED <<database, index, requests, codes, now, history>>

\* It lives as long as its source was given, counted from now.
StoreDelegatedSession(x) ==
    /\ x \in Exchanges /\ Goto(x, "storing", "indexing")
    /\ session' = [session EXCEPT ![x] = Stored(x)]
    /\ UNCHANGED <<database, index, requests, codes, now, seen, history>>

-----------------------------------------------------------------------------
(***************************************************************************)
(* Changes of roles, status and permissions.  Their checks read the        *)
(* database before the transaction; the sessions end after it.             *)
(***************************************************************************)
Administrators == {u \in Users : SystemAdmin \in roles[u]}

\* The roles and the status of the user first, then the administrators. Who is
\* no longer active is left as he is, by changeStatus itself.
ReadTarget(c) ==
    /\ c \in RoleChanges \cup Deactivations
    /\ c \in Deactivations => UserOf[c] \in active
    /\ Goto(c, "idle", "counting")
    /\ seen' = [seen EXCEPT ![c].roles = roles[UserOf[c]]]
    /\ UNCHANGED <<database, redis, now, history>>

\* assertRoleAssignmentAllowed; the count is of user_roles, whatever the status.
MutantMayAssign(c) ==
    SystemAdmin \in seen[c].roles \ NewRoles[c] => ActorOf[c] # UserOf[c]

MayAssign(c) ==
    SystemAdmin \in seen[c].roles \ NewRoles[c] =>
        ActorOf[c] # UserOf[c] /\ Cardinality(Administrators) > 1

\* assertUserStatusChangeAllowed
MayDeactivate(c) ==
    /\ ActorOf[c] # UserOf[c]
    /\ SystemAdmin \in seen[c].roles => Cardinality(Administrators \cap active) > 1

\* What the checks relied on is kept: the other administrators there were.
CheckRoles(c) ==
    /\ c \in RoleChanges /\ Goto(c, "counting", "checked")
    /\ MayAssign(c)
    /\ seen' = [seen EXCEPT ![c].users = Administrators \ {UserOf[c]}]
    /\ UNCHANGED <<database, redis, now, history>>

CheckStatus(c) ==
    /\ c \in Deactivations /\ Goto(c, "counting", "checked")
    /\ MayDeactivate(c)
    /\ seen' = [seen EXCEPT ![c].users = (Administrators \cap active) \ {UserOf[c]}]
    /\ UNCHANGED <<database, redis, now, history>>

\* changeStatus looks at the account again: nothing is left to do for one that
\* another deactivation got to first.
LoadIdentity(c) ==
    /\ c \in Deactivations
    /\ Goto(c, "checked", IF UserOf[c] \in active THEN "loaded" ELSE "done")
    /\ UNCHANGED <<database, redis, now, seen, history>>

\* Both leave the sessions of one user to be ended.
SetRoles(c, rs) ==
    /\ roles' = [roles EXCEPT ![UserOf[c]] = rs]
    /\ seen' = [seen EXCEPT ![c] = [Nothing EXCEPT !.users = {UserOf[c]}]]
    /\ outdated' = (outdated \/ (/\ SystemAdmin \in roles[UserOf[c]] \ rs
                                 /\ \/ SystemAdmin \notin seen[c].roles
                                    \/ ~(seen[c].users \subseteq Administrators)))
    /\ UNCHANGED <<granted, redis, now, overtaken, dropped, lapsed, crashes>>

\* Slip: the sessions of a user whose roles change live on.
MutantAssignUserRoles(c) ==
    /\ c \in RoleChanges /\ Goto(c, "checked", "done")
    /\ SetRoles(c, NewRoles[c])
    /\ UNCHANGED active

AssignUserRoles(c) ==
    /\ c \in RoleChanges /\ Goto(c, "checked", "ending")
    /\ SetRoles(c, NewRoles[c])
    /\ UNCHANGED active

\* The transaction of changeStatus deletes the user's roles and permissions, too.
ChangeStatus(c) ==
    /\ c \in Deactivations /\ Goto(c, "loaded", "ending")
    /\ SetRoles(c, {})
    /\ active' = active \ {UserOf[c]}

ReadHolders(c) ==
    /\ c \in GrantChanges /\ Goto(c, "idle", "checked")
    /\ seen' = [seen EXCEPT ![c].users = {u \in Users : RoleOf[c] \in roles[u]}]
    /\ UNCHANGED <<database, redis, now, history>>

\* Who got the role since is affected, too, and not among those whose sessions end.
AssignRolePermissions(c) ==
    /\ c \in GrantChanges
    /\ Goto(c, "checked", IF seen[c].users = {} THEN "done" ELSE "ending")
    /\ granted' = [granted EXCEPT ![RoleOf[c]] = NewPermissions[c]]
    /\ overtaken' = overtaken \cup
            {t \in Tokens : /\ pc[t] # "idle"
                            /\ \E u \in Users \ seen[c].users :
                                  /\ RoleOf[c] \in roles[u]
                                  /\ u \in {seen[t].user} \cup
                                        (IF session[t] = None THEN {} ELSE {session[t].user})}
    /\ UNCHANGED <<active, roles, redis, now, seen, dropped, lapsed, outdated, crashes>>

\* logout ends every session of the user of the token it came with.
Logout(o, t) ==
    /\ Goto(o, "idle", "ending")
    /\ session[t] # None /\ pc[t] = "done"
    /\ seen' = [seen EXCEPT ![o].token = t, ![o].users = {session[t].user}]
    /\ UNCHANGED <<database, redis, now, history>>

-----------------------------------------------------------------------------
(***************************************************************************)
(* invalidateUserSessions: list the tokens, delete them, delete the index. *)
(***************************************************************************)
ListTokens(c, u) ==
    /\ Goto(c, "ending", "listed")
    /\ u \in seen[c].users
    /\ seen' = [seen EXCEPT ![c].user = u, ![c].tokens = index[u].tokens]
    /\ overtaken' = overtaken \cup Issuing(u)
    /\ UNCHANGED <<database, redis, now, dropped, lapsed, outdated, crashes>>

DeleteTokens(c) ==
    /\ Goto(c, "listed", "deleted")
    /\ session' = [t \in Tokens |-> IF t \in seen[c].tokens THEN None ELSE session[t]]
    /\ overtaken' = overtaken \cup Issuing(seen[c].user)
    /\ UNCHANGED <<database, index, requests, codes, now, seen,
                   dropped, lapsed, outdated, crashes>>

DeleteIndex(c) ==
    LET u == seen[c].user
        left == seen[c].users \ {u}
    IN  /\ Goto(c, "deleted", IF left = {} THEN "done" ELSE "ending")
        /\ index' = [index EXCEPT ![u] = NoEntry]
        /\ seen' = [seen EXCEPT ![c].users = left, ![c].user = None, ![c].tokens = {}]
        /\ dropped' = dropped \cup (index[u].tokens \ seen[c].tokens)
        /\ UNCHANGED <<database, session, requests, codes, now,
                       overtaken, lapsed, outdated, crashes>>

\* The process dies after the transaction; nothing resumes the ending.
Crash(c) ==
    /\ c \in Changes /\ pc[c] \in {"ending", "listed", "deleted"}
    /\ crashes < MaxCrashes
    /\ crashes' = crashes + 1
    /\ pc' = [pc EXCEPT ![c] = "crashed"]
    /\ UNCHANGED <<database, redis, now, seen, ghosts>>

\* Redis drops the keys whose time has come; requests and codes are the shortest.
Tick ==
    /\ now < MaxTime
    /\ now' = now + 1
    /\ session' = [t \in Tokens |->
            IF session[t] # None /\ session[t].expires <= now' THEN None ELSE session[t]]
    /\ index' = [u \in Users |->
            IF index[u].expires # None /\ index[u].expires <= now' THEN NoEntry ELSE index[u]]
    /\ lapsed' = lapsed \cup {t \in Tokens : session'[t] # None /\
            \E u \in Users : t \in index[u].tokens /\ t \notin index'[u].tokens}
    /\ requests' = {} /\ codes' = [k \in Continues |-> None]
    /\ UNCHANGED <<database, pc, seen, overtaken, dropped, outdated, crashes>>

Next ==
    \/ \E l \in Logins : FindAccount(l) \/ ReadRoles(l) \/ ReadPermissions(l) \/ StoreSession(l)
    \/ \E t \in Tokens : IndexSession(t) \/ ExpireIndex(t)
    \/ \E k \in Continues : TakeRequest(k) \/ StoreCode(k) \/ \E t \in Tokens : ReadRequest(k, t)
    \/ \E x \in Exchanges : \/ ReadCode(x) \/ ReadCentralSession(x)
                            \/ TakeCode(x) \/ StoreDelegatedSession(x)
    \/ \E c \in Changes : \/ ReadTarget(c) \/ CheckRoles(c) \/ CheckStatus(c) \/ ReadHolders(c)
                          \/ LoadIdentity(c)
                          \/ AssignUserRoles(c) \/ ChangeStatus(c) \/ AssignRolePermissions(c)
                          \/ Crash(c)
    \/ \E o \in Logouts, t \in Tokens : Logout(o, t)
    \/ \E c \in Changes \cup Logouts :
            \/ DeleteTokens(c) \/ DeleteIndex(c) \/ \E u \in Users : ListTokens(c, u)
    \/ Tick

Spec == Init /\ [][Next]_vars

-----------------------------------------------------------------------------
StoredSessions ==
    [user : Users, roles : SUBSET Roles, permissions : SUBSET Permissions,
     ttl : {ShortTTL, LongTTL}, expires : Nat]

\* What the database, Redis and the calls hold is of its kind.
TypeOK ==
    /\ active \subseteq Users
    /\ roles \in [Users -> SUBSET Roles]
    /\ granted \in [Roles -> SUBSET Permissions]
    /\ session \in [Tokens -> StoredSessions \cup {None}]
    /\ index \in [Users -> [tokens : SUBSET Tokens, expires : Nat \cup {None}]]
    /\ requests \subseteq Requests
    /\ codes \in [Continues -> Tokens \cup {None}]
    /\ pc \in [Calls -> {"idle", "reading", "coded", "taking", "storing", "indexing", "expiring",
                        "counting", "checked", "loaded", "ending", "listed", "deleted", "crashed", "refused", "done"}]
    /\ overtaken \cup dropped \cup lapsed \subseteq Tokens
    /\ now \in Nat /\ crashes \in Nat /\ outdated \in BOOLEAN

\* A session that no longer says what the database says.
Stale(t) ==
    /\ session[t] # None
    /\ LET u == session[t].user IN
        \/ u \notin active
        \/ session[t].roles # GrantsOf(u).roles
        \/ session[t].permissions # GrantsOf(u).permissions

\* A change of the user's grants is committed and has not ended the sessions yet.
BeingEnded(u) ==
    \E c \in Changes : pc[c] \in {"ending", "listed", "deleted", "crashed"} /\ u \in seen[c].users

\* A session survives a change of its user's roles, permissions or status only
\* if the process of the change died, if the session was being issued when the
\* change listed the tokens (or its user got the role while the role's
\* permissions changed), if it was copied from one that was being ended, if
\* another ending deleted the index over it, or if the index lapsed before it
\* (assignUserRoles, assignRolePermissions, changeStatus against issueSession
\* and issueDelegatedSession).
StaleSessionsAreExplained ==
    \A t \in Tokens :
        Stale(t) /\ Entered(t) =>
            BeingEnded(session[t].user) \/ t \in overtaken \cup dropped \cup lapsed

\* A change ends the sessions of its user unless it raced with their issuing.
\* architecture.md says it of every change; a later login without "remember me"
\* shortens the life of the index below that of the sessions it lists.
GrantChangesEndSessions ==
    \A t \in Tokens :
        Stale(t) /\ Entered(t) =>
            BeingEnded(session[t].user) \/ t \in overtaken \cup dropped

\* After a logout the session it came with is gone, unless its entry was dropped
\* from the index or had lapsed: logout deletes what the index lists, not the
\* token itself.
LogoutEndsItsSession ==
    \A o \in Logouts :
        pc[o] = "done" => session[seen[o].token] = None \/ seen[o].token \in dropped \cup lapsed

\* One request yields at most one code and one code at most one delegated
\* session, however many calls of continue and exchange carry it.
HandoversAreUsedOnce ==
    /\ \A r \in Requests :
        Cardinality({k \in Continues : RequestOf[k] = r /\ pc[k] \in {"storing", "done"}}) <= 1
    /\ \A k \in Continues :
        Cardinality({x \in Exchanges : CodeOf[x] = k /\ pc[x] \in {"storing", "indexing", "expiring", "done"}}) <= 1

\* Somebody holds the role of the system administrator, unless a removal relied
\* on roles that were outdated when it was carried out, as of two that each
\* counted the other's target (assertRoleAssignmentAllowed and
\* assertUserStatusChangeAllowed read before the transaction).
AnAdministratorRemains == Administrators # {} \/ outdated
=============================================================================
